--------------------------- MODULE IncrBuildProps ---------------------------
(***************************************************************************)
(* What an incremental build has to keep true.                             *)
(***************************************************************************)
EXTENDS IncrBuild

-----------------------------------------------------------------------------
(***************************************************************************)
(* Types.                                                                  *)
(***************************************************************************)
Addresses == Nat \cup {-1}

FileType(file) ==
  file.ok =>
    /\ file.ver \in [Fn -> Version \cup {NotDefined}]
    /\ file.at \in [Fn -> Addresses]
    /\ file.end \in [Fn -> Addresses]
    /\ DOMAIN file.code = Fn
    /\ file.lams \in Seq(Fn)
    /\ file.synAt \in Seq(Nat)
    /\ file.synEnd \in Seq(Nat)
    /\ file.rtBase \in Nat
    /\ file.rts \subseteq Routine
    /\ file.txEnds \in SUBSET Nat
    /\ file.textEnd \in Nat
    /\ file.room \in Nat

Phases == {"idle", "functions", "synthetics", "moved", "late", "create",
           "writev", "stopped"}

\* Every variable stays in its type: in particular the functions set aside
\* (codegen.ngpl's dfr_fn) are always among the ones the program reaches.
TypeOK ==
  /\ src \in Programs
  /\ prog \in Programs
  /\ pc \in Phases
  /\ live \subseteq Defined(prog)
  /\ mode \in {1, 2}
  /\ why \in BOOLEAN
  /\ pos \in Nat \ {0}
  /\ here \in Nat
  /\ at \in [Fn -> Addresses]
  /\ copied \subseteq live
  /\ away \subseteq live
  /\ outgrown \in Seq(live)
  /\ again \in Seq(live)
  /\ need \subseteq Routine
  /\ synAt \in Seq(Nat)
  /\ rtBase \in Nat
  /\ FileType(bin)
  /\ FileType(out)

-----------------------------------------------------------------------------
(***************************************************************************)
(* Linking.                                                                *)
(***************************************************************************)

\* The code of f is the one the bill's digest is of, and every address in it
\* is the address of what it names.
Linked(file, f) ==
  LET c == file.code[f]
      v == file.ver[f]
  IN
  /\ c.ver = v
  /\ \A g \in Calls[f, v] : c.call[g] = file.at[g]
  /\ \A r \in Needs[f, v] :
       r \in file.rts /\ c.rt[r] = RtAt(file.rtBase, file.rts)[r]
  /\ HasLambda(f, v) => c.lam = file.synAt[LambdaPlace(file.lams, f)]

\* A readable file is a program that works: every function in it, copied or
\* written, runs the source its digest names and calls what that source
\* calls.  This is what copying code out of an old file puts at risk
\* (incr.ngpl, incr_copy).
Faithful == bin.ok => \A f \in FunctionsIn(bin) : Linked(bin, f)

\* Bytes of the code a file has for f.
SizeIn(file, f) == Size[f, file.ver[f]]

\* Every function's code lies within the slot its symbol describes, no two
\* slots overlap, and the code ends before .rodata begins: what the next
\* build relies on to write a function where it stands (incr_before,
\* incr_after, incr_room_text).
InRoom ==
  bin.ok =>
    /\ \A f \in FunctionsIn(bin) : bin.at[f] + SizeIn(bin, f) <= bin.end[f]
    /\ \A f, g \in FunctionsIn(bin) :
         f # g => bin.end[f] <= bin.at[g] \/ bin.end[g] <= bin.at[f]
    /\ bin.textEnd <= bin.room

-----------------------------------------------------------------------------
(***************************************************************************)
(* Laying a build over a file.  These speak of the moment the compiler is  *)
(* about to replace the file, when both images are known.                  *)
(***************************************************************************)
Overlaid == pc = "create" /\ mode = 2

\* A build laid over a file leaves every function where it was with no less
\* room, or has moved it out past everything the file used; one that moved
\* was written again, and so was everything that calls it.  "Nothing needs a
\* jump left behind" (codegen.ngpl, the overflow).
KeepsPlaces ==
  Overlaid =>
    \A f \in FunctionsIn(out) :
      \/ out.at[f] = bin.at[f] /\ out.end[f] >= bin.end[f]
      \/ /\ out.at[f] >= incr_text_end(bin)
         /\ \A g \in FunctionsIn(out) :
              g = f \/ f \in Calls[g, out.ver[g]] => g \notin copied

\* A rebuild of the program the file was built from writes the same file:
\* the old overflow sections, slots that absorbed a hole and all.
RebuildReproduces == Overlaid /\ out.ver = bin.ver => out = bin

\* The file and the program it is rebuilt from hold the same functions in the
\* same order, as many lambdas, and no routine the file lacks.
SameShape ==
  /\ live = FunctionsIn(bin)
  /\ \A i, j \in DOMAIN prog.order :
       /\ i < j
       /\ {prog.order[i], prog.order[j]} \subseteq live
       /\ ~IsAway(prog.order[j])
       => bin.at[prog.order[i]] < bin.at[prog.order[j]] \/ IsAway(prog.order[i])
  /\ Len(bin.synAt) = SynthCount(prog)
  /\ \A f \in live : Needs[f, prog.ver[f]] \subseteq bin.rts

\* An edit after which everything still fits where it stands is never a whole
\* build: the slots a fallback hands out are there to be used ("so the build
\* after a fallback is incremental again", INCREMENTAL.md).
EditThatFitsIsLaidOver ==
  /\ pc = "create"
  /\ bin.ok
  /\ SameShape
  /\ \A f \in live : bin.at[f] + CodeSize(f) <= bin.end[f]
  /\ \A j \in DOMAIN bin.synAt : bin.synAt[j] + SynthBytes(prog, j) <= bin.synEnd[j]
  => mode = 2

-----------------------------------------------------------------------------
(***************************************************************************)
(* The whole: what is in the file is what the compiler was asked for.      *)
(***************************************************************************)
NoProgram == [f \in Fn |-> "none"]

MeaningOf(p) ==
  [f \in Fn |-> IF f \in reached_fns(p) THEN p.ver[f] ELSE NotDefined]

\* What running the file shows: of every function in it the source it runs,
\* or that it goes astray.
Runs(file) ==
  [f \in Fn |-> IF file.at[f] < 0 THEN NotDefined
                ELSE IF Linked(file, f) THEN file.code[f].ver
                ELSE "astray"]

Promise == INSTANCE Compiler WITH
  Programs  <- Programs,
  Meaning   <- MeaningOf,
  NoProgram <- NoProgram,
  src   <- src,
  read  <- prog,
  busy  <- pc # "idle",
  image <- IF bin.ok THEN Runs(bin) ELSE NoProgram

\* A file replaced by an incremental build means what the source it read
\* means, whichever functions came out of the old file.
KeepsThePromise == Promise!Spec

-----------------------------------------------------------------------------
(***************************************************************************)
(* Progress.                                                               *)
(***************************************************************************)

\* The compiler stops on its assertion about the overflow only in a build that
\* could not have been laid over the file: in one that can, whatever functions
\* were moved out before and are moved now, the runtime and what stays where it
\* was end before the overflow begins (codegen.ngpl, the assertion).
StopsOnlyWhenAstray == pc = "stopped" => why \/ need # bin.rts

\* A build comes to an end: falling back is tried once, not for ever.
BuildEnds == pc # "idle" ~> pc \in {"idle", "stopped"}

-----------------------------------------------------------------------------
(***************************************************************************)
(* What the documents say and the code does not do.                        *)
(***************************************************************************)

\* "a function that names one that moved is a function this build writes
\* again, and it calls the new address" (INCREMENTAL.md 2.6): no function of
\* the file calls an address its callee is not at.
CallersFollow ==
  bin.ok =>
    \A f \in FunctionsIn(bin) : \A g \in Calls[f, bin.ver[f]] :
      bin.code[f].call[g] = bin.at[g]

\* "everything the copied code names is at the address it named"
\* (INCREMENTAL.md 2.7), of the lambdas.
LambdasFollow ==
  bin.ok =>
    \A f \in FunctionsIn(bin) :
      HasLambda(f, bin.ver[f]) =>
        bin.code[f].lam = bin.synAt[LambdaPlace(bin.lams, f)]

\* Both are promised.  One edit breaks the two at once: it is not even so that of
\* every file one is kept (incr_regenerate).
CodeKeepsAPromise == CallersFollow \/ LambdasFollow
=============================================================================
