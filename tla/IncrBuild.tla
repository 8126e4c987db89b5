------------------------------ MODULE IncrBuild ------------------------------
(***************************************************************************)
(* Incremental compilation: one run of `ngplc --incremental` after         *)
(* another over the same output file, while the program is being edited.   *)
(*                                                                         *)
(* A build reads the binary the last build left (incr.ngpl, read_prev and  *)
(* incr_prev), decides which functions to write again (incr_regenerate),   *)
(* lays every function where the old file has it, copying the ones that    *)
(* did not change (the emission loop of codegen.ngpl), moves out what no   *)
(* longer fits, checks that the rest stood still (incr_lines_up) and       *)
(* either replaces the file or compiles the whole program again.           *)
(*                                                                         *)
(* This module is about the text region: functions, lambdas, runtime       *)
(* routines and the addresses the code of one embeds of the others.  A     *)
(* function's source is a version; what a version is made of (how many     *)
(* bytes it takes, what it calls, how large its lambda is, which runtime   *)
(* routines it needs) is given by the constants.  Sizes and addresses are  *)
(* bytes, so that the padding arithmetic is the program's own.             *)
(***************************************************************************)
EXTENDS Integers, Sequences, FiniteSets

CONSTANTS
  Fn,         \* functions a program may define, by their symbol's name
  Version,    \* what the source of a function may say
  Size,       \* [Fn \X Version -> Nat]: bytes of code
  Calls,      \* [Fn \X Version -> SUBSET Fn]: functions it names
  Lam,        \* [Fn \X Version -> Nat]: bytes of its lambda, 0 if it has none
  Needs,      \* [Fn \X Version -> SUBSET Routine]: runtime routines it calls
  Roots,      \* where a run begins: @start and the tests
  Method,     \* functions written `Struct.method`
  InModule,   \* functions of a file other than the root
  Routine,    \* routines of the runtime
  RtEdges,    \* which routine calls which
  RtOff,      \* [SUBSET Routine -> [Routine -> Nat]]: offset of a routine in
              \* the runtime made of a set of them
  RtLen,      \* [SUBSET Routine -> Nat]: bytes of that runtime
  StartNeeds, \* routines _start and the synthesized functions call
  StartSize,  \* bytes of _start
  SynthSize,  \* bytes of <args> and <tests>, taken as one function
  Page,       \* the target's page
  Programs    \* sources the editor may save

(***************************************************************************)
(* A program is the functions it defines in parse order, for each the      *)
(* version of its source, and the owners of its lambdas in the order they  *)
(* are numbered in (chk.lams): lambda k belongs to the k-th of them.       *)
(***************************************************************************)
NotDefined == "undefined"

ProgramType == [order : Seq(Fn),
                ver   : [Fn -> Version \cup {NotDefined}],
                lams  : Seq(Fn)]

Defined(p) == {p.order[i] : i \in DOMAIN p.order}

HasLambda(f, v) == Lam[f, v] > 0

\* What check.ngpl accepts: every function named is defined, once.
WellFormed(p) ==
  /\ \A i, j \in DOMAIN p.order : p.order[i] = p.order[j] => i = j
  /\ \A f \in Fn : f \in Defined(p) <=> p.ver[f] # NotDefined
  /\ Roots \subseteq Defined(p)
  /\ \A f \in Defined(p) : Calls[f, p.ver[f]] \subseteq Defined(p)
  /\ \A f \in Fn : (\E j \in DOMAIN p.lams : p.lams[j] = f)
       <=> (f \in Defined(p) /\ HasLambda(f, p.ver[f]))

ASSUME ProgramAssumption ==
  /\ NotDefined \notin Version
  /\ Programs \subseteq ProgramType
  /\ \A p \in Programs : WellFormed(p)

ASSUME CodeAssumption ==
  /\ Size \in [Fn \X Version -> Nat \ {0}]
  /\ Calls \in [Fn \X Version -> SUBSET Fn]
  /\ Lam \in [Fn \X Version -> Nat]
  /\ Needs \in [Fn \X Version -> SUBSET Routine]
  /\ StartSize \in Nat \ {0}
  /\ SynthSize \in Nat \ {0}
  /\ Page \in Nat \ {0}
  /\ Roots \subseteq Fn
  /\ Method \subseteq Fn
  /\ InModule \subseteq Fn

ASSUME RuntimeAssumption ==
  /\ IsFiniteSet(Fn) /\ IsFiniteSet(Routine)
  /\ RtEdges \subseteq Routine \X Routine
  /\ StartNeeds \in (SUBSET Routine) \ {{}}
  /\ RtOff \in [SUBSET Routine -> [Routine -> Nat]]
  /\ RtLen \in [SUBSET Routine -> Nat]
  /\ \A S \in SUBSET Routine : \A r \in S : RtOff[S][r] < RtLen[S]
  /\ \A S \in (SUBSET Routine) \ {{}} : \E r \in S : RtOff[S][r] = 0

-----------------------------------------------------------------------------
(***************************************************************************)
(* Sizes and padding.                                                      *)
(***************************************************************************)
Larger(a, b) == IF a < b THEN b ELSE a

AlignUp(n, a) == ((n + (a - 1)) \div a) * a

\* A fifth of the size, never less than sixteen, in whole sixteens.
incr_padding(size) ==
  ((Larger((size * 20) \div 100, 16) + 15) \div 16) * 16

\* What a first build gives a region: its size, the same fifth, and the rest
\* of the page, since the next region begins on one.
incr_room(size) == AlignUp(size + incr_padding(size), Page)

-----------------------------------------------------------------------------
(***************************************************************************)
(* What is read off a program: who is reached, where its lambdas stand.    *)
(***************************************************************************)
ClosedUnderCalls(p, S) == \A f \in S : Calls[f, p.ver[f]] \subseteq S

\* The entry points, every method, and what those reach.
reached_fns(p) ==
  {f \in Defined(p) :
     \A S \in SUBSET Defined(p) :
        /\ (Roots \cup Method) \cap Defined(p) \subseteq S
        /\ ClosedUnderCalls(p, S)
        => f \in S}

\* The synthesized functions: <args> and <tests> first, then the lambdas.
SynthCount(p) == 1 + Len(p.lams)
SynthBytes(p, j) ==
  IF j = 1 THEN SynthSize ELSE Lam[p.lams[j - 1], p.ver[p.lams[j - 1]]]

\* Where the lambda of f is among the synthesized functions.
LambdaPlace(lams, f) == 1 + CHOOSE j \in DOMAIN lams : lams[j] = f

\* What a set of routines calls, closed under the edge list.
CloseOver(S) ==
  {r \in Routine : \A T \in SUBSET Routine :
     /\ S \subseteq T
     /\ \A e \in RtEdges : e[1] \in T => e[2] \in T
     => r \in T}

-----------------------------------------------------------------------------
(***************************************************************************)
(* The file.  `ok` is whether it can be read as a binary at all.  A file   *)
(* that can: the digests its bill gives, the address of every function     *)
(* and the end of its slot (-1 where it has no symbol), the code standing  *)
(* there, the lambdas and where they are, the runtime's base and its       *)
(* routines, where the sections of the text region end, and the room the   *)
(* region has before .rodata.                                              *)
(*                                                                         *)
(* The code of a function is the version it was generated from and the     *)
(* addresses resolved into it.                                             *)
(***************************************************************************)
prev_none == [ok |-> FALSE]

\* Where .text ends, and where the last of the sections after it does.
incr_text_size(file) ==
  CHOOSE e \in file.txEnds : \A x \in file.txEnds : e <= x
incr_text_end(file) ==
  CHOOSE e \in file.txEnds : \A x \in file.txEnds : x <= e

-----------------------------------------------------------------------------
VARIABLES
  src,      \* the program as the editor last saved it
  bin,      \* the output file
  pc,       \* what the compiler is doing
  prog,     \* the program it read
  live,     \* the functions that program reaches
  mode,     \* 1: a first build; 2: laid over the file
  why,      \* whether something stopped the build from lining up
  pos,      \* the next item of the list being worked through
  here,     \* the emitter's cursor
  at,       \* fn_off: where each function begins
  copied,   \* the functions copied from the file
  away,     \* functions already past .text, still to be placed
  outgrown, \* functions that did not fit where they stood
  again,    \* functions that outgrew the room they had been moved into
  need,     \* routines the emitted code calls
  synAt,    \* where each synthesized function begins
  rtBase,   \* where the runtime begins
  out       \* the file about to be written

build == <<prog, live, mode, why, pos, here, at, copied, away, outgrown,
           again, need, synAt, rtBase>>
vars == <<src, bin, pc, build, out>>

-----------------------------------------------------------------------------
\* The function generated from the program being compiled.
CodeSize(f) == Size[f, prog.ver[f]]
CodeCalls(f) == Calls[f, prog.ver[f]]
CodeNeeds(f) == Needs[f, prog.ver[f]]

(***************************************************************************)
(* Which functions to write again: the ones whose digest moved, and the    *)
(* ones that name one of those.  The bill knows a function of a module as  *)
(* `module.name` and a method as `Struct.name`; the scan looks for single  *)
(* identifiers, so it sees only the names that are spelled as one.         *)
(***************************************************************************)
Qualified == Method \cup InModule

digest_moved(f) ==
  \/ f \notin live
  \/ bin.ver[f] = NotDefined
  \/ bin.ver[f] # prog.ver[f]

\* Mutant: the callers of what moved are forgotten.
regenerate_digests_only == {f \in live : digest_moved(f)}

incr_regenerate ==
  {f \in live :
     \/ digest_moved(f)
     \/ \E g \in CodeCalls(f) \ Qualified : digest_moved(g)}

-----------------------------------------------------------------------------
(***************************************************************************)
(* Laying code where the file had it.  Before a function the cursor is     *)
(* taken to its old address, after it to the end of its slot.              *)
(***************************************************************************)
incr_before_why(want) == want < 0 \/ here > want
incr_before(want) == Larger(here, want)
incr_after(cursor, room) == Larger(cursor, room)

Current == prog.order[pos]

-----------------------------------------------------------------------------
Init ==
  /\ src \in Programs
  /\ bin = prev_none
  /\ pc = "idle"
  /\ prog = src
  /\ live = {}
  /\ mode = 1
  /\ why = FALSE
  /\ pos = 1
  /\ here = 0
  /\ at = [f \in Fn |-> -1]
  /\ copied = {}
  /\ away = {}
  /\ outgrown = <<>>
  /\ again = <<>>
  /\ need = {}
  /\ synAt = <<>>
  /\ rtBase = 0
  /\ out = prev_none

\* What every run of code generation begins with: _start is written, and
\* nothing else.
BeginCodegen(m) ==
  /\ pc' = "functions"
  /\ mode' = m
  /\ why' = FALSE
  /\ pos' = 1
  /\ here' = StartSize
  /\ at' = [f \in Fn |-> -1]
  /\ copied' = {}
  /\ away' = {}
  /\ outgrown' = <<>>
  /\ again' = <<>>
  /\ need' = StartNeeds
  /\ synAt' = <<>>
  /\ rtBase' = 0
  /\ out' = prev_none

\* The editor saves another program; a build under way has read its own.
Edit ==
  /\ src' \in Programs \ {src}
  /\ UNCHANGED <<bin, pc, build, out>>

\* The compiler starts: it reads the source and the old file.
StartBuild ==
  /\ pc = "idle"
  /\ prog' = src
  /\ live' = reached_fns(src)
  /\ BeginCodegen(IF bin.ok THEN 2 ELSE 1)
  /\ UNCHANGED <<src, bin>>

-----------------------------------------------------------------------------
(***************************************************************************)
(* The emission loop, one iteration per function in parse order.           *)
(***************************************************************************)
AtFunction(f) ==
  /\ pc = "functions"
  /\ pos <= Len(prog.order)
  /\ f = Current
  /\ pos' = pos + 1
  /\ UNCHANGED <<src, bin, pc, prog, live, mode, again, synAt, rtBase, out>>

\* A function nothing reaches is in no binary.
SkipUnreached(f) ==
  /\ AtFunction(f)
  /\ f \notin live
  /\ UNCHANGED <<why, here, at, copied, away, outgrown, need>>

\* On a first build a function is written where the cursor stands and is
\* left room to grow.
WritePadded(f) ==
  /\ AtFunction(f)
  /\ f \in live
  /\ mode = 1
  /\ at' = [at EXCEPT ![f] = here]
  /\ here' = here + CodeSize(f) + incr_padding(CodeSize(f))
  /\ need' = need \cup CodeNeeds(f)
  /\ UNCHANGED <<why, copied, away, outgrown>>

\* An earlier build moved it past .text, which is past where the runtime is
\* about to be written.  It is emitted only to find out what it calls, and
\* not even that when it is going to be copied.
IsAway(f) == bin.at[f] >= incr_text_size(bin)

SetAside(f) ==
  /\ AtFunction(f)
  /\ f \in live
  /\ mode = 2
  /\ IsAway(f)
  /\ away' = away \cup {f}
  /\ at' = [at EXCEPT ![f] = 0]
  /\ need' = IF f \in incr_regenerate THEN need \cup CodeNeeds(f) ELSE need
  /\ UNCHANGED <<why, here, copied, outgrown>>

\* The function is in .text, or in no place the old file knows.
InPlace(f) ==
  /\ AtFunction(f)
  /\ f \in live
  /\ mode = 2
  /\ ~IsAway(f)
  /\ why' = (why \/ incr_before_why(bin.at[f]))

\* Its bytes, the whole slot of them, out of the old file.
CopyInPlace(f) ==
  /\ InPlace(f)
  /\ ~why'
  /\ f \notin incr_regenerate
  /\ at' = [at EXCEPT ![f] = bin.at[f]]
  /\ here' = bin.end[f]
  /\ copied' = copied \cup {f}
  /\ UNCHANGED <<away, outgrown, need>>

\* Written again, and it fits.
Begins(f) == incr_before(bin.at[f])
Fits(f) == Begins(f) + CodeSize(f) <= bin.end[f]

WriteInPlace(f) ==
  /\ InPlace(f)
  /\ why' \/ f \in incr_regenerate
  /\ Fits(f)
  /\ at' = [at EXCEPT ![f] = Begins(f)]
  /\ here' = incr_after(Begins(f) + CodeSize(f), bin.end[f])
  /\ need' = need \cup CodeNeeds(f)
  /\ UNCHANGED <<copied, away, outgrown>>

\* Mutant: what the bytes thrown away called is thrown away with them.
OutgrowForgetful(f) ==
  /\ InPlace(f)
  /\ why' \/ f \in incr_regenerate
  /\ ~Fits(f)
  /\ outgrown' = Append(outgrown, f)
  /\ at' = [at EXCEPT ![f] = 0]
  /\ here' = incr_after(Begins(f), bin.end[f])
  /\ UNCHANGED <<copied, away, need>>

\* Written again, and it does not: what it calls is kept, its bytes are
\* thrown away, and its slot is filled.
Outgrow(f) ==
  /\ InPlace(f)
  /\ why' \/ f \in incr_regenerate
  /\ ~Fits(f)
  /\ outgrown' = Append(outgrown, f)
  /\ at' = [at EXCEPT ![f] = 0]
  /\ here' = incr_after(Begins(f), bin.end[f])
  /\ need' = need \cup CodeNeeds(f)
  /\ UNCHANGED <<copied, away>>

EmitFunction ==
  \E f \in Fn :
    \/ SkipUnreached(f)
    \/ WritePadded(f)
    \/ SetAside(f)
    \/ CopyInPlace(f)
    \/ WriteInPlace(f)
    \/ Outgrow(f)

FunctionsDone ==
  /\ pc = "functions"
  /\ pos > Len(prog.order)
  /\ pc' = "synthetics"
  /\ pos' = 1
  /\ UNCHANGED <<src, bin, prog, live, mode, why, here, at, copied, away,
                 outgrown, again, need, synAt, rtBase, out>>

-----------------------------------------------------------------------------
(***************************************************************************)
(* The synthesized functions are written in every build, each where the    *)
(* old file has one of its number.                                         *)
(***************************************************************************)
SynthWas(j) == IF j \in DOMAIN bin.synAt THEN bin.synAt[j] ELSE -1
SynthEnd(j) == IF j \in DOMAIN bin.synEnd THEN bin.synEnd[j] ELSE -1

AtSynthetic ==
  /\ pc = "synthetics"
  /\ pos <= SynthCount(prog)
  /\ pos' = pos + 1
  /\ UNCHANGED <<src, bin, pc, prog, live, mode, at, copied, away, outgrown,
                 again, need, rtBase, out>>

WriteSyntheticPadded ==
  /\ AtSynthetic
  /\ mode = 1
  /\ synAt' = Append(synAt, here)
  /\ here' = here + SynthBytes(prog, pos) + incr_padding(SynthBytes(prog, pos))
  /\ UNCHANGED why

WriteSyntheticInPlace ==
  LET begins == incr_before(SynthWas(pos))
      ends == begins + SynthBytes(prog, pos)
  IN
  /\ AtSynthetic
  /\ mode = 2
  /\ why' = (\/ why
             \/ incr_before_why(SynthWas(pos))
             \/ ends > SynthEnd(pos))
  /\ synAt' = Append(synAt, begins)
  /\ here' = incr_after(ends, SynthEnd(pos))

\* Mutant: only what is called now is written.
EmitRuntimeUnseeded ==
  /\ pc = "synthetics"
  /\ pos > SynthCount(prog)
  /\ need' = CloseOver(need)
  /\ rtBase' = here
  /\ here' = here + RtLen[need']
  /\ pc' = "moved"
  /\ UNCHANGED <<src, bin, prog, live, mode, why, pos, at, copied, away,
                 outgrown, again, synAt, out>>

\* The runtime: what the emitted code calls, what an overlaid file already
\* carried, and everything those call in turn.
EmitRuntime ==
  /\ pc = "synthetics"
  /\ pos > SynthCount(prog)
  /\ need' = CloseOver(need \cup (IF mode = 2 THEN bin.rts ELSE {}))
  /\ rtBase' = here
  /\ here' = here + RtLen[need']
  /\ pc' = "moved"
  /\ UNCHANGED <<src, bin, prog, live, mode, why, pos, at, copied, away,
                 outgrown, again, synAt, out>>

-----------------------------------------------------------------------------
(***************************************************************************)
(* The overflow.  The functions already out there come first, in the       *)
(* order they are out there.                                               *)
(***************************************************************************)
NextAway(f) ==
  /\ pc = "moved"
  /\ f \in away
  /\ \A g \in away : bin.at[f] <= bin.at[g]
  /\ away' = away \ {f}
  /\ why' = (why \/ incr_before_why(bin.at[f]))
  /\ UNCHANGED <<src, bin, pc, prog, live, mode, pos, outgrown, need, synAt,
                 rtBase, out>>

CopyAway(f) ==
  /\ NextAway(f)
  /\ f \notin incr_regenerate
  /\ at' = [at EXCEPT ![f] = Begins(f)]
  /\ here' = Begins(f) + (bin.end[f] - bin.at[f])
  /\ copied' = copied \cup {f}
  /\ UNCHANGED again

WriteAway(f) ==
  /\ NextAway(f)
  /\ f \in incr_regenerate
  /\ Fits(f)
  /\ at' = [at EXCEPT ![f] = Begins(f)]
  /\ here' = incr_after(Begins(f) + CodeSize(f), bin.end[f])
  /\ UNCHANGED <<copied, again>>

OutgrowAgain(f) ==
  /\ NextAway(f)
  /\ f \in incr_regenerate
  /\ ~Fits(f)
  /\ again' = Append(again, f)
  /\ here' = incr_after(Begins(f), bin.end[f])
  /\ UNCHANGED <<at, copied>>

PlaceAway == \E f \in Fn : CopyAway(f) \/ WriteAway(f) \/ OutgrowAgain(f)

\* Then what this build has to move, past everything the file used.
Late == again \o outgrown

BeginLate ==
  /\ pc = "moved"
  /\ away = {}
  /\ Late # <<>>
  /\ here <= incr_text_end(bin)
  /\ here' = incr_text_end(bin)
  /\ pos' = 1
  /\ pc' = "late"
  /\ UNCHANGED <<src, bin, prog, live, mode, why, at, copied, away, outgrown,
                 again, need, synAt, rtBase, out>>

\* assert(em.here() <= incr_text_end(&incr)): the compiler stops here, with
\* the old file as it was.
StopOnAssertion ==
  /\ pc = "moved"
  /\ away = {}
  /\ Late # <<>>
  /\ here > incr_text_end(bin)
  /\ pc' = "stopped"
  /\ UNCHANGED <<src, bin, build, out>>

PlaceLate ==
  /\ pc = "late"
  /\ pos <= Len(Late)
  /\ at' = [at EXCEPT ![Late[pos]] = here]
  /\ here' = here + CodeSize(Late[pos]) + incr_padding(CodeSize(Late[pos]))
  /\ pos' = pos + 1
  /\ UNCHANGED <<src, bin, pc, prog, live, mode, why, copied, away, outgrown,
                 again, need, synAt, rtBase, out>>

-----------------------------------------------------------------------------
(***************************************************************************)
(* The finished image: calls resolved, symbols sized, sections bounded.    *)
(***************************************************************************)
RtAt(base, S) == [r \in Routine |-> base + RtOff[S][r]]

\* Every address a symbol has, and the end of the code.
SymbolAddresses ==
  {at[f] : f \in live} \cup {synAt[j] : j \in DOMAIN synAt}
    \cup {RtAt(rtBase, need)[r] : r \in need} \cup {here}

\* A symbol runs to the next one, the last to the end of the text.
NextSymbol(a) ==
  CHOOSE e \in SymbolAddresses :
    /\ e > a
    /\ \A o \in SymbolAddresses : o > a => e <= o

\* The code a function this build wrote has in it.
Resolved(f) ==
  [ver  |-> prog.ver[f],
   call |-> [g \in CodeCalls(f) |-> at[g]],
   lam  |-> IF HasLambda(f, prog.ver[f]) THEN synAt[LambdaPlace(prog.lams, f)]
           ELSE 0,
   rt   |-> [r \in CodeNeeds(f) |-> RtAt(rtBase, need)[r]]]

NoCode == [ver |-> NotDefined, call |-> <<>>, lam |-> 0, rt |-> <<>>]

\* Mutant: the sections of earlier builds are left out.
tx_ends_of_this_build ==
  {rtBase + RtLen[need]} \cup (IF Late # <<>> THEN {here} ELSE {})

\* Where the sections of the text region end: .text, the ones the old file
\* had past it, and the one this build wrote.
tx_ends ==
  LET textSize == rtBase + RtLen[need] IN
  {textSize}
    \cup (IF mode = 2 THEN {e \in bin.txEnds : e > textSize} ELSE {})
    \cup (IF Late # <<>> THEN {here} ELSE {})

Image ==
  [ok     |-> TRUE,
   ver    |-> [f \in Fn |-> IF f \in live THEN prog.ver[f] ELSE NotDefined],
   at     |-> [f \in Fn |-> IF f \in live THEN at[f] ELSE -1],
   end    |-> [f \in Fn |-> IF f \in live THEN NextSymbol(at[f]) ELSE -1],
   code   |-> [f \in Fn |-> IF f \in copied THEN bin.code[f]
                            ELSE IF f \in live THEN Resolved(f)
                            ELSE NoCode],
   lams   |-> prog.lams,
   synAt  |-> synAt,
   synEnd |-> [j \in DOMAIN synAt |-> NextSymbol(synAt[j])],
   rtBase |-> rtBase,
   rts    |-> need,
   txEnds |-> tx_ends,
   textEnd |-> here,
   room   |-> IF mode = 2 THEN bin.room ELSE incr_room(here)]

(***************************************************************************)
(* Whether the image may be written over the file: as many symbols, every  *)
(* one where it was with no less room, or out past what the file used, and *)
(* the whole within the room the file reserved.  A routine's room is the   *)
(* distance to the next routine, so its address says it.                   *)
(***************************************************************************)
SymbolHolds(was, wasEnd, is, isEnd) ==
  /\ was >= 0
  /\ IF is # was THEN is >= incr_text_end(bin) ELSE isEnd >= wasEnd

FunctionsIn(file) == {f \in Fn : file.at[f] >= 0}

\* Mutant: the room of the region is not looked at.
lines_up_in_any_room(file) ==
  /\ \A f \in FunctionsIn(file) :
       SymbolHolds(bin.at[f], bin.end[f], file.at[f], file.end[f])
  /\ file.rts = bin.rts /\ file.rtBase = bin.rtBase

incr_lines_up(file) ==
  /\ file.textEnd <= bin.room
  /\ Cardinality(FunctionsIn(file)) + Len(file.synAt) + Cardinality(file.rts)
       = Cardinality(FunctionsIn(bin)) + Len(bin.synAt) + Cardinality(bin.rts)
  /\ \A f \in FunctionsIn(file) :
       SymbolHolds(bin.at[f], bin.end[f], file.at[f], file.end[f])
  /\ \A j \in DOMAIN file.synAt :
       SymbolHolds(SynthWas(j), SynthEnd(j), file.synAt[j], file.synEnd[j])
  /\ \A r \in file.rts :
       /\ r \in bin.rts
       /\ LET is == RtAt(file.rtBase, file.rts)[r]
              was == RtAt(bin.rtBase, bin.rts)[r]
          IN is = was \/ is >= incr_text_end(bin)

LaidOut ==
  \/ pc = "moved" /\ away = {} /\ Late = <<>>
  \/ pc = "late" /\ pos > Len(Late)

MayReplace == mode = 2 => ~why /\ incr_lines_up(Image)

Accept ==
  /\ LaidOut
  /\ MayReplace
  /\ out' = Image
  /\ pc' = "create"
  /\ UNCHANGED <<src, bin, build>>

\* Mutant: the second attempt is laid over the file as well.
FallbackOverlaid ==
  /\ LaidOut
  /\ ~MayReplace
  /\ BeginCodegen(mode)
  /\ UNCHANGED <<src, bin, prog, live>>

\* What could not be laid over the file is compiled again, whole.
Fallback ==
  /\ LaidOut
  /\ ~MayReplace
  /\ BeginCodegen(1)
  /\ UNCHANGED <<src, bin, prog, live>>

-----------------------------------------------------------------------------
(***************************************************************************)
(* Writing the file: it is created empty and then written in one call.     *)
(* The section headers are the last of what is written, so a file cut      *)
(* short reads as none.                                                    *)
(***************************************************************************)
CreateFile ==
  /\ pc = "create"
  /\ bin' = prev_none
  /\ pc' = "writev"
  /\ UNCHANGED <<src, build, out>>

Writev ==
  /\ pc = "writev"
  /\ bin' = out
  /\ pc' = "idle"
  /\ UNCHANGED <<src, build, out>>

\* The compiler is killed; what it had written of the file stays.
Kill ==
  /\ pc # "idle"
  /\ pc' = "idle"
  /\ UNCHANGED <<src, bin, build, out>>

BuildStep ==
  \/ EmitFunction \/ FunctionsDone
  \/ WriteSyntheticPadded \/ WriteSyntheticInPlace \/ EmitRuntime
  \/ PlaceAway \/ BeginLate \/ StopOnAssertion \/ PlaceLate
  \/ Accept \/ Fallback \/ CreateFile \/ Writev

Next == Edit \/ StartBuild \/ BuildStep \/ Kill

Spec == Init /\ [][Next]_vars

\* The compiler is a sequential program: once started it goes on.
FairSpec == Spec /\ WF_vars(BuildStep)

=============================================================================
