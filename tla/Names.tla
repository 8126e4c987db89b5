-------------------------------- MODULE Names --------------------------------
(***************************************************************************)
(* The table of names (src/src/names.ngpl): open addressing with a linear  *)
(* probe, doubled when half full.  One action is one turn of a loop, since *)
(* what can go wrong is a walk that does not stop or stops too early.      *)
(***************************************************************************)
EXTENDS Integers, Sequences

CONSTANTS
  Name,       \* what may be looked up
  Hash,       \* its hash
  Answer,     \* what a name may be added with
  Slots       \* how many slots a table is made with

ASSUME TableAssumption ==
  /\ Hash \in [Name -> Nat]
  /\ Answer \subseteq Nat
  /\ Slots \in Nat /\ Slots >= 2 /\ Slots % 2 = 0

VARIABLES
  size,   \* how many slots there are
  slot,   \* 1 + the index of a name, or 0 for an empty slot
  name,   \* the names in the order they were added
  val,    \* what each answers
  pc,     \* "idle", or the loop that runs: "grow" or "probe"
  op,     \* what is asked: to "find" or to "add"
  s, v,   \* the name in hand and what it is added with
  at,     \* where the walk is
  i,      \* which name is being placed again
  said    \* the last answer given, and for which name
vars == <<size, slot, name, val, pc, op, s, v, at, i, said>>

None == -1

-----------------------------------------------------------------------------

\* Where a walk for a name begins in a table of n slots, and how it goes on:
\* n is a power of two and the code masks with n - 1.
home(x, n) == Hash[x] % n

\* Mutant: a stride that does not come to every slot.
next_by_two(p, n) == (p + 2) % n

next(p, n) == IF p + 1 = n THEN 0 ELSE p + 1

\* A table made for the names it will hold.
names_new ==
  /\ size = Slots
  /\ slot = [p \in 0 .. Slots - 1 |-> 0]
  /\ name = <<>> /\ val = <<>>

Init ==
  /\ names_new
  /\ pc = "idle" /\ op = "find" /\ s \in Name /\ v = None /\ at = 0 /\ i = 0
  /\ said = <<>>

\* A call for name x reaches its walk.
Walk(x) == pc' = "probe" /\ at' = home(x, size)

Find(x) ==
  /\ pc = "idle"
  /\ op' = "find" /\ s' = x /\ v' = None
  /\ Walk(x)
  /\ UNCHANGED <<size, slot, name, val, i, said>>

\* Mutant: the table is doubled when it is full, not when half of it is.
add_at_when_full(x, answer) ==
  /\ pc = "idle"
  /\ op' = "add" /\ s' = x /\ v' = answer
  /\ IF Len(name) >= size
     THEN /\ pc' = "grow"
          /\ size' = 2 * size
          /\ slot' = [p \in 0 .. 2 * size - 1 |-> 0]
          /\ i' = 1
          /\ at' = IF name = <<>> THEN 0 ELSE home(name[1], 2 * size)
     ELSE Walk(x) /\ UNCHANGED <<size, slot, i>>
  /\ UNCHANGED <<name, val, said>>

\* A table whose names reach half its slots is doubled before the walk; the
\* names keep their numbers.
add_at(x, answer) ==
  /\ pc = "idle"
  /\ op' = "add" /\ s' = x /\ v' = answer
  /\ IF 2 * Len(name) >= size
     THEN /\ pc' = "grow"
          /\ size' = 2 * size
          /\ slot' = [p \in 0 .. 2 * size - 1 |-> 0]
          /\ i' = 1
          /\ at' = IF name = <<>> THEN 0 ELSE home(name[1], 2 * size)
     ELSE Walk(x) /\ UNCHANGED <<size, slot, i>>
  /\ UNCHANGED <<name, val, said>>

\* A name added without an answer of its own answers its position.
Add(x) == \E answer \in Answer \cup {Len(name)} : add_at(x, answer)

\* The slot is taken: the walk goes on.
Step ==
  /\ \/ pc = "grow" /\ i <= Len(name) /\ slot[at] # 0
     \/ pc = "probe" /\ slot[at] # 0 /\ name[slot[at]] # s
  /\ at' = next(at, size)
  /\ UNCHANGED <<size, slot, name, val, pc, op, s, v, i, said>>

\* Mutant: placed where its walk begins, whether or not the slot is free.
Place_over ==
  /\ pc = "grow" /\ i <= Len(name)
  /\ slot' = [slot EXCEPT ![at] = i]
  /\ i' = i + 1
  /\ at' = IF i = Len(name) THEN at ELSE home(name[i + 1], size)
  /\ UNCHANGED <<size, name, val, pc, op, s, v, said>>

\* Mutant: placed by the mask of the table before it was doubled.
Place_by_old_mask ==
  /\ pc = "grow" /\ i <= Len(name) /\ slot[at] = 0
  /\ slot' = [slot EXCEPT ![at] = i]
  /\ i' = i + 1
  /\ at' = IF i = Len(name) THEN at ELSE home(name[i + 1], size \div 2)
  /\ UNCHANGED <<size, name, val, pc, op, s, v, said>>

\* A name is placed again.
Place ==
  /\ pc = "grow" /\ i <= Len(name) /\ slot[at] = 0
  /\ slot' = [slot EXCEPT ![at] = i]
  /\ i' = i + 1
  /\ at' = IF i = Len(name) THEN at ELSE home(name[i + 1], size)
  /\ UNCHANGED <<size, name, val, pc, op, s, v, said>>

\* All of them are, and the call goes on.
Grown ==
  /\ pc = "grow" /\ i > Len(name)
  /\ Walk(s)
  /\ UNCHANGED <<size, slot, name, val, op, s, v, i, said>>

\* The walk has reached the name, or an empty slot.
Reached == pc = "probe" /\ (slot[at] # 0 => name[slot[at]] = s)

Answers ==
  /\ Reached /\ op = "find"
  /\ said' = <<s, IF slot[at] = 0 THEN None ELSE val[slot[at]]>>
  /\ pc' = "idle"
  /\ UNCHANGED <<size, slot, name, val, op, s, v, at, i>>

\* The name is added, unless it is held already.
Enters ==
  /\ Reached /\ op = "add"
  /\ IF slot[at] = 0
     THEN /\ name' = Append(name, s)
          /\ val' = Append(val, v)
          /\ slot' = [slot EXCEPT ![at] = Len(name) + 1]
     ELSE UNCHANGED <<slot, name, val>>
  /\ pc' = "idle"
  /\ UNCHANGED <<size, op, s, v, at, i, said>>

Turn == Step \/ Place \/ Grown \/ Answers \/ Enters
Next == (\E x \in Name : Find(x) \/ Add(x)) \/ Turn

Spec == Init /\ [][Next]_vars
\* A call runs to its end.
FairSpec == Spec /\ WF_vars(Turn)

-----------------------------------------------------------------------------
\* Properties.

Held == {name[k] : k \in DOMAIN name}

TypeOK ==
  /\ size \in Nat \ {0}
  /\ slot \in [0 .. size - 1 -> 0 .. Len(name)]
  /\ name \in Seq(Name) /\ val \in Seq(Nat) /\ Len(val) = Len(name)
  /\ pc \in {"idle", "grow", "probe"} /\ op \in {"find", "add"}
  /\ s \in Name /\ v \in Nat \cup {None} /\ at \in 0 .. size - 1
  /\ i \in 0 .. Len(name) + 1

\* What a walk down the array of names answers for each.
answered == [x \in Name |->
               IF x \in Held THEN val[CHOOSE k \in DOMAIN name : name[k] = x]
               ELSE None]

\* What names.ngpl says of the table: it answers as a walk down an array of
\* the names would, through every collision and every growth.
NT == INSTANCE NameTable WITH table <- answered, count <- Len(name)
AnswersFirst == NT!Spec

\* There is always a slot that stops a walk (names.ngpl: a linear probe walks
\* forever in a table that fills up).
FreeSlot == \E p \in DOMAIN slot : slot[p] = 0

\* And every walk stops.
WalksEnd == [](pc # "idle" => <>(pc = "idle"))

-----------------------------------------------------------------------------
\* The inductive invariant.

\* The slots a walk passes from h until it is at p.
Between(h, p, n) ==
  {q \in 0 .. n - 1 : IF h <= p THEN h <= q /\ q < p ELSE h <= q \/ q < p}

\* The names that have a slot: while a table is doubled, those placed again.
Placed == IF pc = "grow" THEN i - 1 ELSE Len(name)

\* A walk for a name that has a slot gets there past no empty one.
Findable ==
  \A k \in 1 .. Placed : \E p \in DOMAIN slot :
    /\ slot[p] = k
    /\ \A q \in Between(home(name[k], size), p, size) : slot[q] # 0

\* No name has two slots, and no slot a name that has none.
Single ==
  /\ \A p \in DOMAIN slot : slot[p] <= Placed
  /\ \A p, q \in DOMAIN slot : slot[p] = slot[q] /\ slot[p] # 0 => p = q

Distinct == \A k, l \in DOMAIN name : name[k] = name[l] => k = l

\* The walk under way has passed neither an empty slot nor its own name.
Walked ==
  /\ pc = "probe" =>
       \A q \in Between(home(s, size), at, size) :
         slot[q] # 0 /\ name[slot[q]] # s
  /\ pc = "grow" /\ i <= Len(name) =>
       \A q \in Between(home(name[i], size), at, size) : slot[q] # 0

\* Half the slots are free, and one more where a name may be added; and a name
\* is added with what its caller gave.
HalfFree ==
  /\ size % 2 = 0
  /\ 2 * Len(name) <= size
  /\ pc # "idle" /\ op = "add" => 2 * Len(name) < size
  /\ pc = "grow" => i >= 1
  /\ pc # "idle" /\ op = "add" => v \in Answer \cup {Len(name)}

TableInv ==
  TypeOK /\ Findable /\ Single /\ Distinct /\ Walked /\ HalfFree
=============================================================================
