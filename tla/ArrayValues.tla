------------------------------ MODULE ArrayValues ------------------------------
(***************************************************************************)
(* What a program sees of arrays (src/spec/spec.md, "Writing the Name Is   *)
(* Not Writing the Object", and the operators on arrays): a name holds a   *)
(* sequence, what is done to one is not done to another, and a walk walks  *)
(* what the name held when the walk began.                                 *)
(***************************************************************************)
EXTENDS Integers, Sequences

CONSTANTS
  Name, Value,
  Literals   \* the sequences a program writes out

VARIABLES
  val,    \* <<s>> where a name holds the sequence s, and <<>> where it holds none
  walks,  \* the walks under way: the name, and what is left to walk
  elem    \* the element the walk that took the last turn binds
vars == <<val, walks, elem>>

None == <<>>
Held(n) == \E k \in DOMAIN walks : walks[k].name = n
Has(n) == val[n] # None
Of(n) == val[n][1]
Gets(n, v) == val' = [val EXCEPT ![n] = v] /\ UNCHANGED <<walks, elem>>
Becomes(n, s) == Gets(n, <<s>>)

Init == val = [n \in Name |-> None] /\ walks = <<>> /\ elem = 0

Literal(n) == \E s \in Literals : Becomes(n, s)
Push(n) == ~Held(n) /\ Has(n) /\ \E x \in Value : Becomes(n, Append(Of(n), x))
Pop(n) == /\ ~Held(n) /\ Has(n) /\ Of(n) # <<>>
          /\ Becomes(n, SubSeq(Of(n), 1, Len(Of(n)) - 1))
Copy(n, m) == ~Held(n) /\ Has(m) /\ Becomes(n, Of(m))
Join(n, a, b) == Has(a) /\ Has(b) /\ Becomes(n, Of(a) \o Of(b))
Negate(n) == Has(n) /\ Becomes(n, [k \in DOMAIN Of(n) |-> -Of(n)[k]])
Finished(n) == ~Held(n) /\ Has(n) /\ Gets(n, None)

BeginWalk(n) ==
  /\ Has(n) /\ walks' = Append(walks, [name |-> n, left |-> Of(n)])
  /\ UNCHANGED <<val, elem>>
Turn ==
  /\ walks # <<>> /\ walks[Len(walks)].left # <<>>
  /\ elem' = Head(walks[Len(walks)].left)
  /\ walks' = [walks EXCEPT ![Len(walks)].left = Tail(@)]
  /\ UNCHANGED val
EndWalk ==
  /\ walks # <<>> /\ walks' = SubSeq(walks, 1, Len(walks) - 1) /\ elem' = 0
  /\ UNCHANGED val

Next ==
  \/ \E n \in Name : Literal(n) \/ Push(n) \/ Pop(n) \/ Negate(n) \/ Finished(n) \/ BeginWalk(n)
  \/ \E n, a, b \in Name : Join(n, a, b)
  \/ \E n, m \in Name : Copy(n, m)
  \/ Turn \/ EndWalk
Spec == Init /\ [][Next]_vars
=============================================================================
