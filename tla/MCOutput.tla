------------------------------ MODULE MCOutput ------------------------------
(***************************************************************************)
(* Programs of three functions and the one the compiler adds, compiled     *)
(* plain, for the first time with room left, and over an earlier build in  *)
(* which each function fits its slot, has outgrown it, lies past .text, or *)
(* has outgrown its place there too.                                       *)
(***************************************************************************)
EXTENDS Output

Op(op, to) == [op |-> op, to |-> to, tab |-> <<>>]
Table(op, to, tab) == [op |-> op, to |-> to, tab |-> tab]
Ops(nlabels, ops) == [ops |-> ops, nlabels |-> nlabels]

\* Routine 1 says why the program stops and asks for the backtrace of 2; 3
\* is called by functions directly; nothing calls 4 but a function that is
\* edited to.
MCRoutines == 4
MCRtBody ==
  << Ops(1, <<Op("sf", 1), Op("label", 1), Op("cf", -2), Op("branch", 1)>>),
     Ops(1, <<Op("bt", 0), Op("branch", 1), Op("rx", 1), Op("label", 1), Op("plain", 0)>>),
     Ops(0, <<Op("df", 0), Op("plain", 0)>>),
     Ops(2, <<Op("label", 1), Op("branch", 2), Op("sd", 3), Op("branch", 1), Op("label", 2),
              Op("cf", -3)>>) >>
MCRtEdges == {<<1, 2>>, <<4, 3>>}

\* A function with a jump table and a table of values, one that calls and
\* reads strings, one that checks and reads globals.
Tables2 == Ops(2, <<Op("label", 1), Op("plain", 0), Table("switch", 2, <<2, 1>>),
                    Op("check", 1), Op("label", 2), Table("lookup", 0, <<7>>)>>)
Calling(f) == Ops(0, <<Op("sf", 1), Op("cf", f), Op("cf", -3), Op("sd", 2)>>)
Checking == Ops(1, <<Op("check", 1), Op("gr", 0), Op("check", 4), Op("branch", 1),
                     Op("df", 1), Op("label", 1), Op("check", 1)>>)

Bodies == {Tables2, Calling(3), Checking}
Third == Ops(1, <<Op("plain", 0), Table("switch", 1, <<1>>), Op("label", 1), Op("sf", 3)>>)
Tests(dead) == Ops(0, IF 1 \in dead THEN <<Op("cf", 3)>> ELSE <<Op("cf", 1), Op("cf", 3)>>)
Start(called) == Ops(0, <<Op("cf", 4)>> \o [i \in DOMAIN called |-> Op("cf", called[i])])

Strs == <<1, 2, 1>>
SizeOf(body) == here(emit_fn(Fresh, body))

Plain(mode, f1, f2, dead) ==
  [mode |-> mode, fns |-> <<f1, f2, Third, Tests(dead)>>, user |-> 3, dead |-> dead,
   start |-> Start(<<2>>), strs |-> Strs, rodata_globals |-> 1, data |-> 2,
   at |-> <<>>, end |-> <<>>, text_size |-> 0, text_end |-> 0, had |-> {},
   text_room |-> 0, ro_room |-> 0, old_rodata |-> 0]

\* How an earlier build treats a function, and the room it has where it is:
\* what it takes and a cell, or two cells fewer.
Treated == {"fits", "outgrown", "away", "away outgrown"}
Slot(how, body) == IF how \in {"fits", "away"} THEN SizeOf(body) + 1 ELSE SizeOf(body) - 2

\* The slots one behind another, those of .text first, the runtime, then
\* those past it, of which the second function's may come first.
Over(f1, f2, how1, how2, had, swapped) ==
  LET fns == <<f1, f2, Third, Tests({})>>
      how == <<how1, how2, "fits", "fits">>
      slot == [f \in 1 .. 4 |-> Slot(how[f], fns[f])]
      out == {f \in 1 .. 4 : how[f] \in {"away", "away outgrown"}}
      start == 2
      rt == FoldLeft(LAMBDA n, r : n + IF r \in had THEN Len(emit_rt(Fresh, MCRtBody[r]).code) ELSE 0,
                     0, [r \in 1 .. MCRoutines |-> r])
      Before(f) == {g \in (1 .. 4) \ {f} :
                      IF f \in out
                      THEN g \notin out \/ (IF swapped THEN g > f ELSE g < f)
                      ELSE g \notin out /\ g < f}
      at == [f \in 1 .. 4 |->
               start + SumOver(slot, SetToSeq(Before(f))) + IF f \in out THEN rt ELSE 0]
      whole == start + SumOver(slot, <<1, 2, 3, 4>>) + rt
  IN [mode |-> 2, fns |-> fns, user |-> 3, dead |-> {},
      start |-> Start(<<2>>), strs |-> Strs, rodata_globals |-> 1, data |-> 2,
      at |-> at, end |-> [f \in 1 .. 4 |-> at[f] + slot[f]],
      text_size |-> start + SumOver(slot, SetToSeq((1 .. 4) \ out)) + rt,
      text_end |-> whole, had |-> had,
      text_room |-> whole + 24, ro_room |-> 60, old_rodata |-> 32]

\* The kernel takes the file of a program of each kind in pieces.
InPieces ==
  {Plain(0, Tables2, Checking, {}),
   Over(Tables2, Checking, "outgrown", "away outgrown", {1, 2, 3, 4}, FALSE)}

MCPrograms ==
  LET all == {Plain(mode, f1, f2, dead) : mode \in {0, 1}, f1 \in Bodies, f2 \in Bodies,
                                          dead \in {{}, {1}}}
             \cup {Over(f1, f2, how1, how2, had, swapped) :
                     f1 \in Bodies, f2 \in Bodies, how1 \in Treated, how2 \in Treated,
                     had \in {{1, 2, 3}, {1, 2, 3, 4}}, swapped \in BOOLEAN}
  IN {[pieces |-> q \in InPieces] @@ q : q \in all}
===========================================================================
