------------------------------- MODULE Output -------------------------------
(***************************************************************************)
(* From the schedule of functions to the file on the disk: the emitter     *)
(* makes the runs (Emit) and hands them to the vectored write (Writev), as *)
(* main.ngpl does at its end.  The properties read the file back the way   *)
(* the machine will, knowing the program and not the lists of fixups.      *)
(***************************************************************************)
EXTENDS Emit, Writev

OutputInit == Init /\ WriteInit

\* The kernel takes some programs' files in pieces, the others' whole.
Answers == IF p.pieces THEN Stops ELSE {Length}

Compiles == Compile /\ UNCHANGED wvars
Hands == pc = "linked" /\ Fill(runs) /\ UNCHANGED vars
Kernel == (Refuses \/ \E n \in Answers : Takes(n)) /\ UNCHANGED vars
Writes == WriteStep /\ UNCHANGED vars

OutputNext == Compiles \/ Hands \/ Kernel \/ Writes

TakesSome == \E n \in Answers : n > 0 /\ Takes(n)
TakesNone == Length = 0 /\ Takes(0)

\* The routine runs on, and a kernel asked over and over takes something in
\* the end; it need not on any one call.
OutputSpec ==
  /\ OutputInit /\ [][OutputNext]_<<vars, wvars>>
  /\ WF_wvars(WriteStep \/ TakesNone)
  /\ SF_wvars(TakesSome)

---------------------------------------------------------------------------
(* What the program says stands where *)

Live == {f \in DOMAIN p.fns : f \notin p.dead}
Written == w_pc = "done"

\* The cell at an address, and how many cells an operation takes.
InMemory(addr) == file[addr - IMAGE_BASE + 1]
InText(off) == InMemory(text_vaddr + off)
Width(o) == CASE o.op = "label" -> 0 [] o.op = "switch" -> 2 [] OTHER -> 1
WidthOf(ops) == FoldLeft(LAMBDA n, o : n + Width(o), 0, ops)
BodyOf(ops, k) == WidthOf(SubSeq(ops, 1, k - 1))

\* Where a label of these operations is, counted from the first.
LabelAt(ops, l) ==
  BodyOf(ops, CHOOSE k \in DOMAIN ops : ops[k].op = "label" /\ ops[k].to = l)

Lands(off) == off + 1 + InText(off).val

\* The cell an instruction's address names, and the address.
Named(off) == InMemory(InText(off).val)

Stubs(ops) == Cardinality({o.to : o \in {x \in Range(ops) : x.op = "check"}})

TableReads(off, base, ops, o) ==
  \A i \in DOMAIN o.tab :
    InMemory(InText(off).val + i - 1) =
      IF o.op = "lookup" THEN Cell("value", o.tab[i])
      ELSE Cell("code", text_vaddr + base + LabelAt(ops, o.tab[i]))

\* What one operation says of the code at its place.
Says(off, base, ops, o) ==
  CASE o.op = "plain"  -> InText(off) = Cell("plain", 0)
    [] o.op = "label"  -> TRUE
    [] o.op = "branch" -> Lands(off) = base + LabelAt(ops, o.to)
    [] o.op = "check"  ->
         LET stub == Lands(off) - base - WidthOf(ops)
         IN /\ stub \in 0 .. Stubs(ops) - 1
            /\ Lands(Lands(off)) = em.rt_off[o.to]
    [] o.op = "cf"     -> Lands(off) = Dest(o.to)
    [] o.op = "sf"     -> Named(off) = Cell("chr", o.to)
    [] o.op = "sd"     -> /\ InMemory(Named(off).val) = Cell("chr", o.to)
                          /\ InMemory(InText(off).val + 1) = Cell("length", p.strs[o.to])
    [] o.op = "rx"     -> Named(off) = Cell("class", o.to)
    [] o.op = "gr"     -> Named(off) = Cell("global", o.to)
    [] o.op = "df"     -> Named(off) = Cell("data", o.to)
    [] o.op = "bt"     -> Named(off).is = "entries"
    [] o.op = "lookup" -> TableReads(off, base, ops, o)
    [] o.op = "switch" -> /\ Lands(off) = base + LabelAt(ops, o.to)
                          /\ TableReads(off + 1, base, ops, o)

BodySays(base, ops) == \A k \in DOMAIN ops : Says(base + BodyOf(ops, k), base, ops, ops[k])

FnEnd(f) == em.fn_off[f] + WidthOf(p.fns[f].ops) + Stubs(p.fns[f].ops)
RtEnd(r) == em.rt_off[r] + WidthOf(RtBody[r].ops)
There == DOMAIN em.rt_off

\* Cells a function, a routine or the start takes.
Occupied ==
  0 .. WidthOf(p.start.ops) - 1
  \cup UNION {em.fn_off[f] .. FnEnd(f) - 1 : f \in Live}
  \cup UNION {em.rt_off[r] .. RtEnd(r) - 1 : r \in There}

---------------------------------------------------------------------------
(* Correctness *)

\* Every instruction of the file does what the program says at its place:
\* the call lands on its function, the string is the one it names, the table
\* holds its own function's labels, wherever functions were unwritten and
\* written again in between (rewind, emit.ngpl).
SaysWhatTheProgramSays ==
  Written =>
    /\ BodySays(0, p.start.ops)
    /\ \A f \in Live : BodySays(em.fn_off[f], p.fns[f].ops)
    /\ \A r \in There : BodySays(em.rt_off[r], RtBody[r].ops)

\* A slot whose function moved out holds nothing but traps, so that a jump
\* that went there would stop: no fixup of the function unwritten there is
\* left to write into it.
TrapsStand ==
  Written => \A off \in (0 .. here(em) - 1) \ Occupied : InText(off) = Cell("trap", 0)

\* The routines of the file are those its code calls and those the earlier
\* build had, with what they call in turn; and no call finds its routine
\* passed over, though what moved is written after the runtime is ("every
\* call reaches a routine that was emitted").
RuntimeIsWhatIsCalled ==
  /\ pc # "unplaced"
  /\ Written =>
       There = Closed((IF p.mode = 2 THEN p.had ELSE {})
                      \cup UNION {{o.to : o \in {x \in Range(p.fns[f].ops) : x.op = "check"}}
                                  \cup {-o.to : o \in {x \in Range(p.fns[f].ops) :
                                                         x.op = "cf" /\ x.to < 0}} : f \in Live}
                      \cup {-o.to : o \in {x \in Range(p.start.ops) :
                                             x.op = "cf" /\ x.to < 0}})

\* A backtrace names the function whose code it is in, and nothing for the
\* code of the runtime ("the table holds the program's functions and nothing
\* else, so the walk needs no second rule to leave the runtime out").
BacktraceNames ==
  Written /\ em.fix["bt"] # <<>> =>
    LET at == ro_vaddr + bt_base
        Names(off) == {InMemory(at + 3 * k).val :
                         k \in {j \in 1 .. InMemory(at).val :
                                  LET begins == InMemory(at + 3 * j - 2).val - text_vaddr
                                  IN off \in begins .. begins + InMemory(at + 3 * j - 1).val - 1}}
    IN /\ \A f \in Live : \A off \in em.fn_off[f] .. FnEnd(f) - 1 : Names(off) = {f}
       /\ \A r \in There : \A off \in em.rt_off[r] .. RtEnd(r) - 1 : Names(off) = {}

\* Once the runs are handed over, the write ends: all of it in the file or a
\* message that it cannot be.
WritingEnds == w_pc = "write" ~> w_pc \in {"done", "bad"}
===========================================================================
