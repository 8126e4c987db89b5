---------------------------- MODULE IncrBuildInv ----------------------------
(***************************************************************************)
(* Why a file that was put together from old and new code is Faithful: the *)
(* inductive invariant.                                                    *)
(*                                                                         *)
(* The argument.  A function is copied only when neither its own digest    *)
(* nor that of anything it names moved.  What it names is then as large as *)
(* the file says, so it fits the slot the file gives it (ExtentsFit) and   *)
(* is where it was (Aligned); a function that is not where it was did not  *)
(* fit, so it changed, so nothing that names it was copied.  That every    *)
(* function fits its own slot is the part the file has to carry from one   *)
(* build to the next (FileInv), and it holds because a slot runs to the    *)
(* next symbol and the cursor only goes forward (Extents).                 *)
(***************************************************************************)
EXTENDS IncrBuildProps

(***************************************************************************)
(* What the program must not do for the argument to hold: see the run     *)
(* incr_promises for what happens when it does.                            *)
(***************************************************************************)
NamesSeen == \A f \in Fn, v \in Version : Calls[f, v] \cap Qualified = {}

LambdasFixed ==
  \A p, q \in Programs : Len(p.lams) = Len(q.lams) => p.lams = q.lams

-----------------------------------------------------------------------------
TextSize(file) == file.rtBase + RtLen[file.rts]

\* Every function fits its slot, and a slot in .text ends before the runtime.
ExtentsFit(file) ==
  \A f \in FunctionsIn(file) :
    /\ file.at[f] + SizeIn(file, f) <= file.end[f]
    /\ file.at[f] < TextSize(file) => file.end[f] <= file.rtBase

\* No slot reaches into another, nor the last into the next region.
Apart(file) ==
  /\ \A f, g \in FunctionsIn(file) :
       f # g => file.end[f] <= file.at[g] \/ file.end[g] <= file.at[f]
  /\ file.textEnd <= file.room

Sections(file) ==
  /\ TextSize(file) \in file.txEnds
  /\ \A e \in file.txEnds : TextSize(file) <= e
  /\ \E m \in file.txEnds : \A e \in file.txEnds : e <= m

Synthetics(file) ==
  /\ Len(file.synAt) = 1 + Len(file.lams)
  /\ \E p \in Programs : file.lams = p.lams
  /\ DOMAIN file.synEnd = DOMAIN file.synAt
  /\ \A j \in DOMAIN file.synAt : file.synEnd[j] <= file.rtBase

FileInv(file) ==
  file.ok =>
    /\ \A f \in Fn : IF file.ver[f] = NotDefined THEN file.at[f] = -1
                                                 ELSE file.at[f] > 0
    /\ StartSize <= file.rtBase
    /\ ExtentsFit(file)
    /\ Apart(file)
    /\ Sections(file)
    /\ Synthetics(file)

-----------------------------------------------------------------------------
Building == pc \in {"functions", "synthetics", "moved", "late"}
RuntimeDone == pc \in {"moved", "late"}

Elements(s) == {s[i] : i \in DOMAIN s}
Moving == Elements(again) \cup Elements(outgrown)

\* The functions that have an address, and the symbols there are so far.
Placed == {f \in live : at[f] > 0}
Symbols ==
  {at[f] : f \in Placed} \cup {synAt[j] : j \in DOMAIN synAt}
    \cup (IF RuntimeDone THEN {rtBase + RtOff[need][r] : r \in need} ELSE {})

\* Who has been dealt with, and who waits for the overflow.
Coverage ==
  /\ pc = "functions" =>
       \A i \in DOMAIN prog.order :
         i < pos /\ prog.order[i] \in live => at[prog.order[i]] >= 0
  /\ pc # "functions" => \A f \in live : at[f] >= 0
  /\ pc # "late" => \A f \in live : at[f] = 0 => f \in away \cup Moving
  /\ pc = "late" =>
       /\ away = {}
       /\ \A f \in live : at[f] = 0 => \E i \in DOMAIN Late : i >= pos /\ Late[i] = f

\* Code is written forward: whatever begins after a function begins after
\* its last byte, and the cursor is past everything.
Extents ==
  /\ StartSize <= here
  /\ \A o \in Symbols : o <= here
  /\ \A f \in Placed : at[f] + CodeSize(f) <= here
  /\ \A f \in Placed : \A o \in Symbols : o > at[f] => at[f] + CodeSize(f) <= o
  /\ \A f, g \in Placed : f # g => at[f] # at[g]

SyntheticsPlaced ==
  /\ Len(synAt) = CASE pc = "functions" -> 0
                    [] pc = "synthetics" -> pos - 1
                    [] OTHER -> SynthCount(prog)
  /\ pc = "synthetics" => pos <= SynthCount(prog) + 1
  /\ \A j \in DOMAIN synAt : synAt[j] < IF RuntimeDone THEN rtBase ELSE here

\* What the emitted code calls is going to be in the runtime.
NeedsKnown ==
  /\ StartNeeds \subseteq need
  /\ \A f \in live :
       at[f] >= 0 => \/ f \in copied
                     \/ CodeNeeds(f) \subseteq need
                     \/ f \in away /\ f \notin incr_regenerate

RuntimePlaced ==
  RuntimeDone =>
    /\ StartSize <= rtBase
    /\ rtBase + RtLen[need] <= here
    /\ \A f \in Placed : at[f] < rtBase \/ rtBase + RtLen[need] <= at[f]

\* A first build copies and moves nothing.
FirstBuild ==
  mode = 1 => copied = {} /\ away = {} /\ outgrown = <<>> /\ again = <<>>

\* A build laid over a file that has lined up so far.
Aligned ==
  mode = 2 =>
    /\ bin.ok
    /\ \A f \in copied \cup away : bin.at[f] > 0
    /\ \A f \in copied : f \notin incr_regenerate
    /\ ~why =>
       /\ (IF RuntimeDone THEN rtBase ELSE here) <= bin.rtBase
       /\ \A f \in Placed : at[f] = bin.at[f] \/ f \in Moving
       /\ \A f \in Moving : /\ bin.at[f] > 0
                            /\ f \in incr_regenerate
                            /\ bin.end[f] < bin.at[f] + CodeSize(f)
       /\ \A j \in DOMAIN synAt : synAt[j] = SynthWas(j)

BuildInv ==
  Building =>
    /\ live = reached_fns(prog)
    /\ Coverage
    /\ Extents
    /\ SyntheticsPlaced
    /\ NeedsKnown
    /\ RuntimePlaced
    /\ FirstBuild
    /\ Aligned

\* The inductive invariant: the file, and the one about to replace it, carry
\* what the next build relies on, and the build under way keeps to the file.
IInv == TypeOK /\ FileInv(bin) /\ FileInv(out) /\ BuildInv

\* What is inductive on top of it when the program keeps to NamesSeen and
\* LambdasFixed.
AllLinked(file) == file.ok => \A f \in FunctionsIn(file) : Linked(file, f)

LInv == IInv /\ AllLinked(bin) /\ AllLinked(out)

MeansTheProgram == out.ok /\ Runs(out) = MeaningOf(prog)

\* The file about to be written means what the program read means, and the
\* old one has been emptied by the time it is.
Meant ==
  /\ pc \in {"create", "writev"} => MeansTheProgram
  /\ pc = "writev" => bin = prev_none

\* The inductive invariant of the refinement.
PInv == LInv /\ Meant

-----------------------------------------------------------------------------
\* A file's code ends where its last section does, and no slot reaches past.
EndsWithin(file) ==
  file.ok =>
    /\ file.textEnd <= incr_text_end(file)
    /\ \A f \in FunctionsIn(file) : file.end[f] <= file.textEnd

\* What has been laid over a file, before anything moves, ends within it.
LaidWithin ==
  /\ pc = "moved" =>
       /\ mode = 1 => here = rtBase + RtLen[need]
       /\ mode = 2 /\ ~why /\ need = bin.rts => here <= incr_text_end(bin)
  /\ pc = "late" => Late # <<>>

\* The inductive invariant of StopsOnlyWhenAstray.
SInv == /\ IInv /\ EndsWithin(bin) /\ EndsWithin(out)
        /\ LaidWithin /\ StopsOnlyWhenAstray

-----------------------------------------------------------------------------
(***************************************************************************)
(* What makes a build that moves nothing write the layout the file has: a  *)
(* slot runs to the next symbol there is, and the symbols are in the order *)
(* they are written in.                                                    *)
(***************************************************************************)
NextOf(S, a) == CHOOSE e \in S : e > a /\ \A o \in S : o > a => e <= o

SymbolsOf(file) ==
  {file.at[f] : f \in FunctionsIn(file)}
    \cup {file.synAt[j] : j \in DOMAIN file.synAt}
    \cup {RtAt(file.rtBase, file.rts)[r] : r \in file.rts}
    \cup {file.textEnd}

\* Every field is what an image has there.
Written(file) ==
  /\ file = [ok |-> TRUE, ver |-> file.ver, at |-> file.at, end |-> file.end,
             code |-> file.code, lams |-> file.lams, synAt |-> file.synAt,
             synEnd |-> file.synEnd, rtBase |-> file.rtBase, rts |-> file.rts,
             txEnds |-> file.txEnds, textEnd |-> file.textEnd, room |-> file.room]
  /\ file.end = [f \in Fn |-> IF f \in FunctionsIn(file)
                              THEN NextOf(SymbolsOf(file), file.at[f]) ELSE -1]
  /\ file.code = [f \in Fn |-> file.code[f]]
  /\ \A f \in Fn \ FunctionsIn(file) : file.code[f] = NoCode
  /\ file.synEnd = [j \in DOMAIN file.synAt |-> NextOf(SymbolsOf(file), file.synAt[j])]

\* _start, the functions of .text, the synthesized ones, the runtime, and what
\* has been moved past it, if anything has.
InOrder(file) ==
  /\ \A f \in FunctionsIn(file) :
       /\ StartSize <= file.at[f] /\ file.at[f] < file.textEnd
       /\ file.at[f] < TextSize(file) =>
            \A j \in DOMAIN file.synAt : file.at[f] < file.synAt[j]
  /\ \A j \in DOMAIN file.synAt :
       /\ StartSize <= file.synAt[j] /\ file.synAt[j] < file.rtBase
       /\ \A k \in DOMAIN file.synAt : j < k => file.synAt[j] < file.synAt[k]
  /\ StartNeeds \subseteq file.rts /\ CloseOver(file.rts) = file.rts
  /\ TextSize(file) <= file.textEnd
  /\ \/ file.textEnd = TextSize(file)
     \/ \E f \in FunctionsIn(file) : file.at[f] >= TextSize(file)

Orderly(file) == file.ok => Written(file) /\ InOrder(file)

\* The same of a build under way.
LaidInOrder ==
  Building =>
    /\ \A f \in Placed :
         /\ StartSize <= at[f]
         /\ (RuntimeDone => at[f] < rtBase) =>
              \A j \in DOMAIN synAt : at[f] < synAt[j]
    /\ \A j \in DOMAIN synAt :
         /\ StartSize <= synAt[j]
         /\ \A k \in DOMAIN synAt : j < k => synAt[j] < synAt[k]
    /\ RuntimeDone => CloseOver(need) = need
    /\ pc = "moved" =>
         \/ here = rtBase + RtLen[need]
         \/ again # <<>>
         \/ \E f \in Placed : at[f] >= rtBase + RtLen[need]
    /\ pc = "late" =>
         /\ Late # <<>>
         /\ pos > 1 => \E f \in Placed : at[f] >= rtBase + RtLen[need]

\* What is left where it is comes out of the file, and what is past .text is
\* gone through from the first to the last.
LaidFromTheFile ==
  Building /\ mode = 2 =>
    /\ \A f \in away : IsAway(f)
    /\ pc = "functions" =>
         /\ again = <<>>
         /\ \A i \in DOMAIN prog.order :
              i < pos /\ prog.order[i] \in live /\ IsAway(prog.order[i])
                => prog.order[i] \in away
    /\ pc = "synthetics" => again = <<>> /\ \A f \in live : IsAway(f) => f \in away
    /\ ~why => Placed \ copied \subseteq incr_regenerate
    /\ pc = "moved" /\ ~why /\ again = <<>> =>
         \/ here = rtBase + RtLen[need] /\ \A f \in live : IsAway(f) => f \in away
         \/ \E f \in live :
              /\ IsAway(f) /\ here = bin.end[f]
              /\ \A g \in live : IsAway(g) => (g \in away <=> bin.at[g] > bin.at[f])

\* The inductive invariant of RebuildReproduces.
OInv == IInv /\ Orderly(bin) /\ Orderly(out) /\ LaidInOrder /\ LaidFromTheFile

\* Every piece of the program fits the slot the file has for it, and there is a
\* slot for every piece.
StillFits ==
  /\ bin.ok
  /\ SameShape
  /\ \A f \in live : bin.at[f] + CodeSize(f) <= bin.end[f]
  /\ \A j \in DOMAIN bin.synAt : bin.synAt[j] + SynthBytes(prog, j) <= bin.synEnd[j]

\* Then nothing stops the build, and the cursor is never past what is next.
NothingInTheWay ==
  mode = 2 /\ Building /\ StillFits =>
    /\ ~why /\ again = <<>> /\ outgrown = <<>> /\ pc # "late"
    /\ need \subseteq bin.rts
    /\ pc = "functions" =>
         /\ \A j \in DOMAIN bin.synAt : here <= bin.synAt[j]
         /\ \A i \in DOMAIN prog.order :
              i >= pos /\ prog.order[i] \in live /\ ~IsAway(prog.order[i])
                => here <= bin.at[prog.order[i]]
    /\ pc = "synthetics" =>
         /\ \A j \in DOMAIN bin.synAt : j >= pos => here <= bin.synAt[j]
         /\ pos > 1 => here = bin.synEnd[pos - 1]
    /\ pc = "moved" =>
         /\ need = bin.rts /\ rtBase = bin.rtBase
         /\ \A f \in away : here <= bin.at[f]

\* So only a program that does not fit is compiled whole.
WholeOnlyIfItMust ==
  mode = 1 /\ (Building \/ pc = "create") => ~StillFits

\* The inductive invariant of EditThatFitsIsLaidOver.
EInv == OInv /\ NothingInTheWay /\ WholeOnlyIfItMust
=============================================================================
