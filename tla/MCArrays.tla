------------------------------- MODULE MCArrays -------------------------------
(***************************************************************************)
(* Arrays on a small heap.  A region is 24 words, a page 12, and of the    *)
(* sizes a program here asks for two take one place of the table.          *)
(***************************************************************************)
EXTENDS Arrays, TLC

MCMix == [n \in 0 .. Limit |-> IF n < 6 THEN 0 ELSE 1]
MCSlots == {0, 1}
MCValue == {-1}
MCLiterals == {<<-1>>}
MCAlike == Permutations(Name)
=============================================================================
