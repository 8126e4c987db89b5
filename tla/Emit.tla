-------------------------------- MODULE Emit --------------------------------
(***************************************************************************)
(* The code emitter (emit.ngpl) and the loop of codegen.ngpl that drives   *)
(* it, from the first function to the runs of bytes the output is made of. *)
(*                                                                         *)
(* A function is written before it is known what its instructions refer    *)
(* to, so each reference leaves a hole and an entry in a list of fixups.   *)
(* A function that turns out not to fit where an earlier build had it is   *)
(* unwritten again (mark, rewind) and written once more past the runtime.  *)
(* The runtime is written after the program, routine by routine, the ones  *)
(* nobody calls into the ground (rt_begin).  Then everything has a place,  *)
(* the constant data is laid out and the holes are filled.                 *)
(*                                                                         *)
(* `em` is the program's struct of that name, and each operator on it one  *)
(* of its methods.  A cell stands for an instruction, a character or a     *)
(* word alike: [is, val], the value being what a patch writes.  What was   *)
(* copied out of the earlier build is IncrBuild's subject: here every      *)
(* function that is reached is written again.                              *)
(***************************************************************************)
EXTENDS Integers, Sequences, SequencesExt, FiniteSets, TLC

CONSTANTS
  Programs,   \* what may be compiled, and over what
  Routines,   \* how many routines the runtime has
  RtBody,     \* [1 .. Routines -> bodies]: what each is made of
  RtEdges,    \* RT_EDGES: which routine calls which
  RxTable,    \* cells of the constant tables the runtime reads
  Page,       \* cells of a page
  IMAGE_BASE  \* where the file's first cell is in memory

VARIABLES
  p,          \* the program, and where an earlier build had its parts
  em,         \* the emitter
  dfr,        \* functions still to be written, past the runtime (dfr_fn)
  dfr_rt,     \* routines those called when they were measured
  late,       \* those that go past everything the earlier build used
  placed,     \* those that were placed, in order
  pc, runs    \* where the compiler is; what it hands to writev

vars == <<p, em, dfr, dfr_rt, late, placed, pc, runs>>

Kinds == {"cf", "sf", "sd", "df", "gr", "rx", "bt", "jt"}
Cell(is, val) == [is |-> is, val |-> val]
Zeros(n) == [i \in 1 .. n |-> Cell("zero", 0)]
align_up(n) == ((n + Page - 1) \div Page) * Page

\* A body is [ops, nlabels], an operation [op, to, tab], of which a table
\* uses the third.  A reference to a function is its number, one to a
\* routine of the runtime its number negated.
\* A label or a routine that has no place is not in labels, or in rt_off.
Fresh ==
  [code |-> <<>>,
   fix |-> [cf |-> <<>>, sf |-> <<>>, sd |-> <<>>, df |-> <<>>, gr |-> <<>>,
            rx |-> <<>>, bt |-> <<>>, jt |-> <<>>],
   nlabels |-> 0, labels |-> <<>>, lf |-> <<>>, ab |-> <<>>,
   jt_count |-> 0, jt_starts |-> <<>>, jt_entries |-> <<>>, pj |-> <<>>,
   skipping |-> FALSE, rt_need |-> {}, rt_off |-> <<>>, fn_off |-> <<>>]

---------------------------------------------------------------------------
(* Writing *)

here(e) == Len(e.code)

b1(e, cell) ==
  IF e.skipping THEN e ELSE [e EXCEPT !.code = Append(@, cell)]

patch(e, pos, v) ==
  IF e.skipping \/ pos >= here(e) THEN e ELSE [e EXCEPT !.code[pos + 1].val = v]

\* A reference to something that has no place yet: sref, sdref, dref,
\* groref, rxref, btref, jtref and the global jumps.
ref(e, kind, to) ==
  b1(IF e.skipping THEN e
     ELSE [e EXCEPT !.fix[kind] = Append(@, [pos |-> here(e), to |-> to])],
     Cell(kind, 0))

jlocal(e, l) ==
  b1(IF e.skipping THEN e
     ELSE [e EXCEPT !.lf = Append(@, [pos |-> here(e), to |-> l])],
     Cell("branch", 0))

set_label(e, l) == [e EXCEPT !.labels = (l :> here(e)) @@ @]

\* One stub serves every check of a function that reports the same way.
jabort(e, routine) ==
  LET known == {s \in Range(e.ab) : s.kind = routine}
      new == e.nlabels + 1
  IN IF known # {} THEN jlocal(e, (CHOOSE s \in known : TRUE).lab)
     ELSE jlocal([e EXCEPT !.nlabels = new,
                           !.ab = Append(@, [kind |-> routine, lab |-> new])],
                 new)

\* A jump table and a table of values, whose number is taken when they are
\* asked for and whose entries are written when the function ends.
jtref(e, tab, is_code) ==
  LET numbered == [e EXCEPT !.jt_count = @ + 1,
                            !.pj = Append(@, [tab |-> tab, code |-> is_code])]
  IN ref(numbered, "jt", e.jt_count)

Emitted(e, o) ==
  CASE o.op = "label"  -> set_label(e, o.to)
    [] o.op = "branch" -> jlocal(e, o.to)
    [] o.op = "check"  -> jabort(e, o.to)
    [] o.op = "switch" -> jtref(jlocal(e, o.to), o.tab, TRUE)
    [] o.op = "lookup" -> jtref(e, o.tab, FALSE)
    [] o.op = "plain"  -> b1(e, Cell("plain", 0))
    [] OTHER           -> ref(e, o.op, o.to)

begin_fn(e, nlabels) == [e EXCEPT !.nlabels = nlabels, !.labels = <<>>]

abort_stubs(e) ==
  [FoldLeft(LAMBDA x, s : ref(set_label(x, s.lab), "cf", -s.kind), e, e.ab)
     EXCEPT !.ab = <<>>]

resolve_locals(e) ==
  [FoldLeft(LAMBDA x, j : patch(x, j.pos, e.labels[j.to] - (j.pos + 1)), e, e.lf)
     EXCEPT !.lf = <<>>]

resolve_jtabs(e) ==
  LET Resolved(x, t) ==
        [x EXCEPT !.jt_starts = Append(@, [at |-> Len(x.jt_entries),
                                           code |-> t.code]),
                  !.jt_entries = @ \o
                    IF t.code THEN [i \in DOMAIN t.tab |-> e.labels[t.tab[i]]]
                    ELSE t.tab]
  IN [FoldLeft(Resolved, e, e.pj) EXCEPT !.pj = <<>>]

emit_body(e, body) == FoldLeft(Emitted, begin_fn(e, body.nlabels), body.ops)

emit_fn(e, body) == resolve_jtabs(resolve_locals(abort_stubs(emit_body(e, body))))
emit_rt(e, body) == resolve_locals(emit_body(e, body))

\* Mutant: one of the lists is not given back.
rewind_keeps_strings(e, m) ==
  [e EXCEPT !.code = SubSeq(@, 1, Len(m.code)),
            !.fix = [k \in Kinds |->
                       IF k = "sf" THEN @[k] ELSE SubSeq(@[k], 1, Len(m.fix[k]))],
            !.jt_starts = SubSeq(@, 1, Len(m.jt_starts)),
            !.jt_entries = SubSeq(@, 1, Len(m.jt_entries)),
            !.jt_count = m.jt_count]

\* Everything written since the mark, unwritten.  A mark is the lengths the
\* lists had, which the emitter as it was stands for.
rewind(e, m) ==
  [e EXCEPT !.code = SubSeq(@, 1, Len(m.code)),
            !.fix = [k \in Kinds |-> SubSeq(@[k], 1, Len(m.fix[k]))],
            !.jt_starts = SubSeq(@, 1, Len(m.jt_starts)),
            !.jt_entries = SubSeq(@, 1, Len(m.jt_entries)),
            !.jt_count = m.jt_count]

\* Filled up to a place with traps, unless the code is past it already.
FilledTo(e, at) ==
  LET short == IF at > here(e) THEN at - here(e) ELSE 0
  IN [e EXCEPT !.code = @ \o [i \in 1 .. short |-> Cell("trap", 0)]]

incr_before(e, f) == IF p.mode = 2 THEN FilledTo(e, p.at[f]) ELSE e

\* Room for the function to grow into: a share of its size, here one cell.
Padded(e) == FilledTo(e, here(e) + 1)

incr_after(e, f) ==
  CASE p.mode = 1 -> Padded(e)
    [] p.mode = 2 -> FilledTo(e, p.end[f])
    [] OTHER      -> e

---------------------------------------------------------------------------
(* The program's functions, in the order they were parsed *)

RoutinesCalled(e, m) ==
  {-e.fix["cf"][i].to : i \in {j \in Len(m.fix["cf"]) + 1 .. Len(e.fix["cf"]) :
                                 e.fix["cf"][j].to < 0}}

incr_harvest(e, m) == dfr_rt \cup RoutinesCalled(e, m)

Init ==
  /\ p \in Programs
  /\ em = resolve_locals(emit_body(Fresh, p.start))
  /\ dfr = <<>> /\ dfr_rt = {} /\ late = <<>> /\ placed = <<>>
  /\ pc = "functions" /\ runs = <<>>

NextFn == Len(em.fn_off) + 1
MoreFns == pc = "functions" /\ NextFn <= Len(p.fns)
FnAt(e, off) == [e EXCEPT !.fn_off = Append(@, off)]
Away(f) == p.mode = 2 /\ p.at[f] >= p.text_size

\* A function nothing reaches keeps its slot in the schedule and no more.
Unreached ==
  /\ MoreFns
  /\ NextFn \in p.dead
  /\ em' = FnAt(em, -1)
  /\ UNCHANGED <<p, dfr, dfr_rt, late, placed, pc, runs>>

\* One an earlier build moved past .text is written to learn which routines
\* it calls, unwritten, and left for later.
Measure ==
  /\ MoreFns
  /\ NextFn \notin p.dead
  /\ Away(NextFn)
  /\ LET e == emit_fn(em, p.fns[NextFn]) IN
       /\ dfr_rt' = incr_harvest(e, em)
       /\ em' = FnAt(rewind(e, em), 0)
  /\ dfr' = Append(dfr, NextFn)
  /\ UNCHANGED <<p, late, placed, pc, runs>>

\* The others are written where they stand; one that does not fit there is
\* unwritten, and its slot is filled with traps.  (The functions the
\* compiler adds, numbered past p.user, are never moved.)
EmitFn ==
  /\ MoreFns
  /\ NextFn \notin p.dead
  /\ ~Away(NextFn)
  /\ LET mk == incr_before(em, NextFn)
         e == emit_fn(mk, p.fns[NextFn])
         fits == p.mode # 2 \/ NextFn > p.user \/ here(e) <= p.end[NextFn]
     IN /\ dfr' = IF fits THEN dfr ELSE Append(dfr, NextFn)
        /\ dfr_rt' = IF fits THEN dfr_rt ELSE incr_harvest(e, mk)
        /\ em' = IF fits THEN incr_after(FnAt(e, here(mk)), NextFn)
                 ELSE incr_after(FnAt(rewind(e, mk), 0), NextFn)
  /\ UNCHANGED <<p, late, placed, pc, runs>>

---------------------------------------------------------------------------
(* The runtime *)

\* The fewest routines that hold these and what these call.
Closed(need) ==
  LET Step(n) == n \cup {e[2] : e \in {x \in RtEdges : x[1] \in n}}
      Grown[k \in 0 .. Routines] == IF k = 0 THEN need ELSE Step(Grown[k - 1])
  IN Grown[Routines]

\* Mutant: what the functions written after the runtime call is forgotten.
Need_without_deferred ==
  Closed((IF p.mode = 2 THEN p.had ELSE {}) \cup RoutinesCalled(em, Fresh))

Need == Closed((IF p.mode = 2 THEN p.had ELSE {}) \cup dfr_rt
               \cup RoutinesCalled(em, Fresh))

CloseOver ==
  /\ pc = "functions"
  /\ NextFn > Len(p.fns)
  /\ em' = [em EXCEPT !.rt_need = Need]
  /\ pc' = "runtime"
  /\ UNCHANGED <<p, dfr, dfr_rt, late, placed, runs>>

\* One that is passed over is left without a place.
rt_begin(e, r) ==
  [e EXCEPT !.skipping = r \notin e.rt_need,
            !.rt_off = IF r \in e.rt_need THEN (r :> here(e)) @@ @ ELSE @]

emit_runtime ==
  /\ pc = "runtime"
  /\ LET Written(e, r) == emit_rt(rt_begin(e, r), RtBody[r])
         all == FoldLeft(Written, em, [r \in 1 .. Routines |-> r])
     IN em' = [all EXCEPT !.skipping = FALSE]
  /\ pc' = "overflow"
  /\ UNCHANGED <<p, dfr, dfr_rt, late, placed, runs>>

---------------------------------------------------------------------------
(* The overflow: first what is out there already, in the order it is, then
   what moves now *)

FirstAway ==
  LET out == {f \in Range(dfr) : Away(f)}
  IN CHOOSE f \in out : \A g \in out : p.at[f] <= p.at[g]

PlaceAway ==
  /\ pc = "overflow"
  /\ \E f \in Range(dfr) : Away(f)
  /\ LET f == FirstAway
         mk == incr_before(em, f)
         e == emit_fn(mk, p.fns[f])
         fits == here(e) <= p.end[f]
         done == IF fits THEN [e EXCEPT !.fn_off[f] = here(mk)] ELSE rewind(e, mk)
     IN /\ em' = incr_after(done, f)
        /\ dfr' = SelectSeq(dfr, LAMBDA g : g # f)
        /\ late' = IF fits THEN late ELSE Append(late, f)
        /\ placed' = IF fits THEN Append(placed, f) ELSE placed
  /\ UNCHANGED <<p, dfr_rt, pc, runs>>

\* The rest begin past the last section the earlier build wrote, which the
\* code must not have reached.
PlaceLate ==
  /\ pc = "overflow"
  /\ ~\E f \in Range(dfr) : Away(f)
  /\ LET moving == late \o dfr
         Moved(e, f) == Padded(emit_fn([e EXCEPT !.fn_off[f] = here(e)], p.fns[f]))
     IN IF moving # <<>> /\ here(em) > p.text_end
        THEN /\ pc' = "stopped"
             /\ UNCHANGED <<em, placed>>
        ELSE /\ pc' = "link"
             /\ placed' = placed \o moving
             /\ em' = IF moving = <<>> THEN em
                      ELSE FoldLeft(Moved, FilledTo(em, p.text_end), moving)
  /\ UNCHANGED <<p, dfr, dfr_rt, late, runs>>

---------------------------------------------------------------------------
(* The constant data, and the holes *)

room(size) == IF p.mode = 1 THEN size + 1 ELSE size
text_room == IF p.mode = 2 THEN p.text_room ELSE room(here(em))
text_vaddr == IMAGE_BASE + Page
ro_vaddr == IMAGE_BASE + align_up(Page + text_room)

\* A build that copies functions cannot see what those read.
str_uses ==
  IF p.mode # 0 THEN DOMAIN p.strs
  ELSE {em.fix[k][i].to : <<k, i>> \in
          UNION {{k} \X DOMAIN em.fix[k] : k \in {"sf", "sd"}}}

SumOver(f, s) == FoldLeft(+, 0, [i \in DOMAIN s |-> f[s[i]]])
UsedBefore(n) == SelectSeq([i \in 1 .. n - 1 |-> i], LAMBDA i : i \in str_uses)
stroff(n) == SumOver(p.strs, UsedBefore(n))
descidx(n) == Len(UsedBefore(n))

UsedStrings == UsedBefore(Len(p.strs) + 1)
StringBytes == FoldLeft(LAMBDA out, s : out \o [i \in 1 .. p.strs[s] |-> Cell("chr", s)],
                        <<>>, UsedStrings)
Descriptors == FoldLeft(LAMBDA out, s : out \o << Cell("address", ro_vaddr + stroff(s)),
                                                  Cell("length", p.strs[s]) >>,
                        <<>>, UsedStrings)

\* Functions in the order the code has them: those that stayed, then those
\* that were placed past the runtime.
incr_reorder(v) ==
  SelectSeq(v, LAMBDA f : f \notin Range(placed)) \o placed

bt_text_end ==
  LET starts == Range(em.rt_off)
  IN IF starts = {} THEN here(em) ELSE CHOOSE a \in starts : \A b \in starts : a <= b

\* Mutant: one end for all, as if none had moved.
bt_sizes_one_end(fns, nmoved) ==
  [k \in DOMAIN fns |->
     (IF k < Len(fns) THEN em.fn_off[fns[k + 1]] ELSE here(em)) - em.fn_off[fns[k]]]

\* How far each runs: to where the next begins.  The last that stayed runs
\* to where the runtime begins, the last of all to the end of the text.
bt_sizes(fns, nmoved) ==
  [k \in DOMAIN fns |->
     (CASE k = Len(fns) - nmoved -> bt_text_end
        [] k = Len(fns)          -> here(em)
        [] OTHER                 -> em.fn_off[fns[k + 1]]) - em.fn_off[fns[k]]]

\* The table a backtrace reads, there when something asks where it is: how
\* many entries, then each function's start, extent and name.
Backtrace ==
  LET fns == SelectSeq(incr_reorder([f \in DOMAIN em.fn_off |-> f]),
                       LAMBDA f : em.fn_off[f] # -1)
      sizes == bt_sizes(fns, Len(placed))
      Entry(k) == << Cell("begins", text_vaddr + em.fn_off[fns[k]]),
                     Cell("runs", sizes[k]), Cell("name", fns[k]) >>
  IN IF em.fix["bt"] = <<>> THEN <<>>
     ELSE FoldLeft(LAMBDA out, k : out \o Entry(k), <<Cell("entries", Len(fns))>>,
                   [k \in DOMAIN fns |-> k])

rx_base == Len(StringBytes) + Len(Descriptors)
bt_base == rx_base + RxTable
gro_base == bt_base + Len(Backtrace)
jt_base == gro_base + p.rodata_globals

\* What the earlier build had from there on is kept: its tables, which the
\* code copied from it points into.
jt_kept == IF p.mode = 2 /\ p.old_rodata > jt_base THEN p.old_rodata - jt_base ELSE 0

Tables ==
  LET ends == [t \in DOMAIN em.jt_starts |->
                 IF t < Len(em.jt_starts) THEN em.jt_starts[t + 1].at
                 ELSE Len(em.jt_entries)]
      Entry(t, k) == IF em.jt_starts[t].code THEN Cell("code", text_vaddr + em.jt_entries[k])
                     ELSE Cell("value", em.jt_entries[k])
  IN FoldLeft(LAMBDA out, t : out \o [i \in 1 .. ends[t] - em.jt_starts[t].at |->
                                        Entry(t, em.jt_starts[t].at + i)],
              <<>>, [t \in DOMAIN em.jt_starts |-> t])

rodata ==
  StringBytes \o Descriptors \o [i \in 1 .. RxTable |-> Cell("class", i - 1)]
  \o Backtrace \o [i \in 1 .. p.rodata_globals |-> Cell("global", i - 1)]
  \o [i \in 1 .. jt_kept |-> Cell("kept", 0)] \o Tables

ro_room == IF p.mode = 2 THEN p.ro_room ELSE room(Len(rodata))
d_vaddr == IMAGE_BASE + align_up(ro_vaddr - IMAGE_BASE + ro_room)
data == [i \in 1 .. p.data |-> Cell("data", i - 1)]

\* Where a fixup's target is: an address, but for a jump, which holds the
\* way to it from the instruction after.
Dest(to) == IF to > 0 THEN em.fn_off[to] ELSE em.rt_off[-to]

Target(kind, x) ==
  CASE kind = "cf" -> Dest(x.to) - (x.pos + 1)
    [] kind = "sf" -> ro_vaddr + stroff(x.to)
    [] kind = "sd" -> ro_vaddr + Len(StringBytes) + 2 * descidx(x.to)
    [] kind = "rx" -> ro_vaddr + rx_base + x.to
    [] kind = "bt" -> ro_vaddr + bt_base
    [] kind = "gr" -> ro_vaddr + gro_base + x.to
    [] kind = "df" -> d_vaddr + x.to
    [] kind = "jt" -> ro_vaddr + jt_base + jt_kept + em.jt_starts[x.to + 1].at

KindsInTurn == <<"cf", "sf", "sd", "rx", "bt", "gr", "jt", "df">>

Linked ==
  FoldLeft(LAMBDA e, kind : FoldLeft(LAMBDA y, x : patch(y, x.pos, Target(kind, x)),
                                     e, em.fix[kind]),
           em, KindsInTurn)

Unplaced ==
  \E x \in Range(em.fix["cf"]) :
    IF x.to > 0 THEN em.fn_off[x.to] = -1 ELSE -x.to \notin DOMAIN em.rt_off

\* Mutant: the region begins past what it holds, not past its room.
ro_off_size == align_up(Page + here(em))

\* The plan of the file (plan_elf), which works out again where the regions
\* begin from the rooms code generation answers.
ro_off == align_up(Page + text_room)
d_off == align_up(ro_off + ro_room)

\* The runs the file is made of (elf_file64), the tables at its end left
\* out.  A gap fills a region to the page the next one begins at.
Runs(code) ==
  << <<Cell("header", 0)>>, Zeros(Page - 1),
     code, Zeros(ro_off - (Page + Len(code))),
     rodata, Zeros(d_off - (ro_off + Len(rodata))), data >>

\* A call whose target was passed over stops the compiler.
Link ==
  /\ pc = "link"
  /\ pc' = IF Unplaced THEN "unplaced" ELSE "linked"
  /\ em' = IF Unplaced THEN em ELSE Linked
  /\ runs' = IF Unplaced THEN runs ELSE Runs(Linked.code)
  /\ UNCHANGED <<p, dfr, dfr_rt, late, placed>>

Compile ==
  \/ Unreached \/ Measure \/ EmitFn \/ CloseOver \/ emit_runtime
  \/ PlaceAway \/ PlaceLate \/ Link
===========================================================================
