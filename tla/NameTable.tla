------------------------------ MODULE NameTable ------------------------------
(***************************************************************************)
(* What a table of names promises (src/src/names.ngpl): a name answers     *)
(* what it was first added with, as a walk down an array would find it, or *)
(* nothing.                                                                *)
(***************************************************************************)
EXTENDS Integers

CONSTANTS
  Name,    \* what may be looked up
  Answer   \* what a name may be added with

VARIABLES
  table,   \* what each name answers
  count,   \* how many names were added
  said     \* the last answer given, and for which name
vars == <<table, count, said>>

None == -1

Init == table = [s \in Name |-> None] /\ count = 0 /\ said = <<>>

Add(s, v) ==
  /\ IF table[s] = None
     THEN table' = [table EXCEPT ![s] = v] /\ count' = count + 1
     ELSE UNCHANGED <<table, count>>
  /\ UNCHANGED said

Find(s) == said' = <<s, table[s]>> /\ UNCHANGED <<table, count>>

Next == \E s \in Name : (\E v \in Answer \cup {count} : Add(s, v)) \/ Find(s)
Spec == Init /\ [][Next]_vars
=============================================================================
