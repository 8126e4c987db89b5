-------------------------------- MODULE Arrays --------------------------------
(***************************************************************************)
(* Arrays in a compiled program: how they lie in the heap                  *)
(* (src/src/rt_portable.ngpl and rt_x86_64.ngpl, RT_ARRNEW, RT_ARRPUSH,    *)
(* RT_ASLICE, RT_ACAT, RT_AEXT) and what the statements that make, grow,   *)
(* walk and give them back are lowered to (src/src/lower.ngpl).  A program *)
(* is any order of such statements the checker lets through.               *)
(***************************************************************************)
EXTENDS Allocator, Sequences

CONSTANTS
  Name, Value,
  Literals,     \* the sequences a program writes out
  MaxStatements,  \* bound: the statements a program runs
  MaxLen,       \* bound: the elements of an array
  MaxWalks,     \* bound: walks inside walks
  MinCap,       \* the least capacity an array grows to: 4, or 8 on x86-64
  InlineMin,    \* the least capacity a literal is made with: 4
  SliceMin,     \* the capacity an empty slice is made with: 4, or none on x86-64
  SelfJoin,     \* whether programs join an array onto itself
  WritesWalked  \* whether they write a name in place whose array a walk took

ASSUME ArraysAssumption ==
  /\ MinCap \in Nat \ {0} /\ InlineMin \in Nat /\ SliceMin \in Nat
  /\ SelfJoin \in BOOLEAN /\ WritesWalked \in BOOLEAN
  /\ Value \subseteq Int /\ \A s \in Literals : s \in Seq(Int)

VARIABLES
  heap,     \* the allocator's record
  names,    \* the descriptor each name holds; Null is nothing
  walks,    \* the walks under way, outermost first: what was walked, how far, and
            \* what it held when the walk began, which only properties ask
  elem,     \* the element the walk that took the last turn binds
  ran,     \* how many statements have run
  joining   \* where `v <- v ++ w' has got to: what rt_push_all holds in registers
vars == <<heap, names, walks, elem, ran, joining>>

NotJoining == [dst |-> Null, len |-> 0, slots |-> Null, n |-> 0, ix |-> 0]

\* A descriptor is three words, and the slots it is made with come after it.
Header == 3
SlotsOf(h, d) == h.mem[d]
LenOf(h, d) == h.mem[d + 1]
CapOf(h, d) == h.mem[d + 2]
Inline(h, d) == SlotsOf(h, d) = d + Header
Contents(h, d) == [k \in 1 .. LenOf(h, d) |-> h.mem[SlotsOf(h, d) + k - 1]]

Longer(j, k) == IF j < k THEN k ELSE j

-----------------------------------------------------------------------------
\* The runtime.  Each routine answers the set of what it may come to.

RT_ARRNEW(h, cap) ==
  {[at |-> b.at,
    heap |-> [b.heap EXCEPT !.mem = [@ EXCEPT ![b.at] = b.at + Header, ![b.at + 1] = 0,
                                              ![b.at + 2] = cap]]]
   : b \in RT_ALLOC(h, cap + Header)}

\* Pushes onto an array that has room for them.
Pushed(h, d, s) ==
  LET end == SlotsOf(h, d) + LenOf(h, d)
      stored == [a \in Addr |-> IF a \in end .. end + Len(s) - 1 THEN s[a - end + 1] ELSE h.mem[a]]
  IN [h EXCEPT !.mem = [stored EXCEPT ![d + 1] = h.mem[d + 1] + Len(s)]]

GrownCap(cap) == Longer(2 * cap, MinCap)

\* Mutant: the slots go back without asking where they lie.
SlotsBack_always(h, d) == RT_FREE(h, SlotsOf(h, d), CapOf(h, d))

\* An array's slots go back, unless they lie inside the descriptor, which is not
\* a block of their own.
SlotsBack(h, d) == IF Inline(h, d) THEN h ELSE RT_FREE(h, SlotsOf(h, d), CapOf(h, d))

RT_ARRPUSH(h, d, x) ==
  LET len == LenOf(h, d)
      cap == GrownCap(CapOf(h, d))
      Copied(b) ==
        [b.heap EXCEPT !.mem = [a \in Addr |-> IF a \in b.at .. b.at + len - 1
                                               THEN h.mem[SlotsOf(h, d) + a - b.at] ELSE @[a]]]
      Grown(b) ==
        LET freed == SlotsBack(Copied(b), d)
        IN [freed EXCEPT !.mem = [@ EXCEPT ![d] = b.at, ![d + 2] = cap]]
  IN {Pushed(room, d, <<x>>) :
        room \in IF len < CapOf(h, d) THEN {h} ELSE {Grown(b) : b \in RT_ALLOC(h, cap)}}

\* A new array of the elements of s.
Fresh(h, cap, s) == {[at |-> b.at, heap |-> Pushed(b.heap, b.at, s)] : b \in RT_ARRNEW(h, cap)}
RT_ACAT(h, d, e) ==
  LET both == Contents(h, d) \o Contents(h, e) IN Fresh(h, Len(both), both)
RT_ASLICE(h, d) ==
  LET s == Contents(h, d) IN Fresh(h, IF s = <<>> THEN SliceMin ELSE Len(s), s)

-----------------------------------------------------------------------------
\* The statements.

Has(n) == names[n] # Null
Idle == joining = NotJoining
Statement == Idle /\ ran < MaxStatements /\ ran' = ran + 1
\* The checker refuses a change to what a walk over the name holds.
Held(n) == \E k \in DOMAIN walks : walks[k].name = n
\* The name still holds the very array a walk took.
Walked(n) == \E k \in DOMAIN walks : walks[k].desc = names[n]

Names(n, fresh) == \E b \in fresh : heap' = b.heap /\ names' = [names EXCEPT ![n] = b.at]

Init ==
  /\ heap = EmptyHeap /\ names = [n \in Name |-> Null]
  /\ walks = <<>> /\ elem = 0 /\ ran = 0 /\ joining = NotJoining

\* `let v := [..]' and `v <- [..]': what v held is nobody's.
Literal(n) ==
  /\ Statement
  /\ \E s \in Literals : Names(n, Fresh(heap, Longer(Len(s), InlineMin), s))
  /\ UNCHANGED <<walks, elem, joining>>

\* Mutant: the binding names the array it was bound to.
Copy_shared(n, m) ==
  /\ Statement /\ Has(m) /\ n # m /\ ~Held(n)
  /\ names' = [names EXCEPT ![n] = names[m]]
  /\ UNCHANGED <<heap, walks, elem, joining>>

\* `let v := w' is an array of v's own.
Copy(n, m) ==
  /\ Statement /\ Has(m) /\ n # m /\ ~Held(n)
  /\ Names(n, RT_ASLICE(heap, names[m]))
  /\ UNCHANGED <<walks, elem, joining>>

Push(n) ==
  /\ Statement /\ Has(n) /\ ~Held(n) /\ LenOf(heap, names[n]) < MaxLen
  /\ \E x \in Value : heap' \in RT_ARRPUSH(heap, names[n], x)
  /\ UNCHANGED <<names, walks, elem, joining>>

Pop(n) ==
  /\ Statement /\ Has(n) /\ ~Held(n) /\ LenOf(heap, names[n]) > 0
  /\ heap' = [heap EXCEPT !.mem[names[n] + 1] = @ - 1]
  /\ UNCHANGED <<names, walks, elem, joining>>

\* `v <- a ++ b' where a is not v: a new array.
Join(n, a, b) ==
  /\ Statement /\ Has(a) /\ Has(b) /\ n # a
  /\ LenOf(heap, names[a]) + LenOf(heap, names[b]) <= MaxLen
  /\ Names(n, RT_ACAT(heap, names[a], names[b]))
  /\ UNCHANGED <<walks, elem, joining>>

\* `v <- v ++ w' grows the array v holds, whoever walks it: to the checker it
\* writes the name and not the array.  rt_push_all reads the length and the
\* slots of w once, and then pushes one element a turn.
BeginExtend(n, m) ==
  /\ Statement /\ Has(n) /\ Has(m)
  /\ n = m => SelfJoin
  /\ Walked(n) => WritesWalked
  /\ LenOf(heap, names[n]) + LenOf(heap, names[m]) <= MaxLen
  /\ joining' = [dst |-> names[n], len |-> LenOf(heap, names[n]),
                 slots |-> SlotsOf(heap, names[m]), n |-> LenOf(heap, names[m]), ix |-> 0]
  /\ UNCHANGED <<heap, names, walks, elem>>
ExtendStep ==
  /\ ~Idle /\ joining.ix < joining.n
  /\ heap' \in RT_ARRPUSH(heap, joining.dst, heap.mem[joining.slots + joining.ix])
  /\ joining' = [joining EXCEPT !.ix = @ + 1]
  /\ UNCHANGED <<names, walks, elem, ran>>
ExtendDone ==
  /\ ~Idle /\ joining.ix = joining.n
  /\ joining' = NotJoining
  /\ UNCHANGED <<heap, names, walks, elem, ran>>

\* `v <- v * -1' writes its answers into the array v holds, whoever walks it.
Negate(n) ==
  /\ Statement /\ Has(n)
  /\ Walked(n) => WritesWalked
  /\ LET slots == SlotsOf(heap, names[n]) .. SlotsOf(heap, names[n]) + LenOf(heap, names[n]) - 1
     IN heap' = [heap EXCEPT !.mem = [a \in Addr |-> IF a \in slots THEN -@[a] ELSE @[a]]]
  /\ UNCHANGED <<names, walks, elem, joining>>

\* After the statement that last read v, the checker has its slots given back.
\* It finds fewer arrays than these: only names bound to a literal or a join.
GiveBack(n) ==
  /\ Statement /\ Has(n) /\ ~Held(n)
  /\ heap' = SlotsBack(heap, names[n])
  /\ names' = [names EXCEPT ![n] = Null]
  /\ UNCHANGED <<walks, elem, joining>>

\* A walk keeps the descriptor, and asks it for its length and its slots each turn.
BeginWalk(n) ==
  /\ Statement /\ Has(n) /\ Len(walks) < MaxWalks
  /\ walks' = Append(walks, [name |-> n, desc |-> names[n], at |-> 0,
                              took |-> Contents(heap, names[n])])
  /\ UNCHANGED <<heap, names, elem, joining>>
Turn ==
  /\ Idle /\ walks # <<>>
  /\ LET w == walks[Len(walks)]
     IN /\ w.at < LenOf(heap, w.desc)
        /\ elem' = heap.mem[SlotsOf(heap, w.desc) + w.at]
  /\ walks' = [walks EXCEPT ![Len(walks)].at = @ + 1]
  /\ UNCHANGED <<heap, names, ran, joining>>
\* At the end, or by a break.
EndWalk ==
  /\ Idle /\ walks # <<>>
  /\ walks' = SubSeq(walks, 1, Len(walks) - 1) /\ elem' = 0
  /\ UNCHANGED <<heap, names, ran, joining>>

Next ==
  \/ \E n \in Name : Literal(n) \/ Push(n) \/ Pop(n) \/ Negate(n) \/ GiveBack(n) \/ BeginWalk(n)
  \/ \E n, m \in Name : Copy(n, m) \/ BeginExtend(n, m)
  \/ \E n, a, b \in Name : Join(n, a, b)
  \/ ExtendStep \/ ExtendDone \/ Turn \/ EndWalk
Spec == Init /\ [][Next]_vars

-----------------------------------------------------------------------------
\* The arrays something still reads.
InUse == ({names[n] : n \in Name} \ {Null}) \cup {walks[k].desc : k \in DOMAIN walks}

\* Every array a name or a walk holds has room for its elements, and every
\* register and list head holds what it can.
TypeOK ==
  /\ heap.mem \in [Addr -> Int] /\ heap.next \in 0 .. Limit /\ heap.lim \in 0 .. Limit
  /\ heap.heads \in [Slots -> Addr]
  /\ names \in [Name -> Addr] /\ joining.dst \in Addr /\ joining.ix \in 0 .. joining.n
  /\ \A k \in DOMAIN walks : walks[k].at \in 0 .. LenOf(heap, walks[k].desc)
  /\ \A d \in InUse : LenOf(heap, d) \in 0 .. CapOf(heap, d)

\* No block is on a list twice, or on a list and in use, and no two blocks share
\* a word: the free lists of rt_portable.ngpl and rt_x86_64.ngpl are sound
\* whatever arrays grow, are given back and are made again, and no array has more
\* elements than the block it has room for.
HeapSound == TypeOK /\ BlocksApart(heap)

\* What the allocator hands out shares no word with what anyone has: "a block
\* used as two things at once" (emit.ngpl:246) never comes to be.
H == INSTANCE Heap WITH live <- heap.live
HandsOutApart == H!Spec

\* What a name holds, as the program sees it: a join is not seen half done.
Seen(n) ==
  IF ~Has(n) THEN <<>>
  ELSE IF names[n] = joining.dst THEN <<SubSeq(Contents(heap, names[n]), 1, joining.len)>>
  ELSE <<Contents(heap, names[n])>>
Left(w) == SubSeq(Contents(heap, w.desc), w.at + 1, LenOf(heap, w.desc))

\* However arrays grow, move, are given back and lie in memory another had, a
\* program sees plain values: what is done to one name is done to no other, and a
\* walk walks what it took (spec.md, "Writing the Name Is Not Writing the
\* Object").  It holds of the programs that do neither of two things:
\* NothingHeldWhileItGrows says what becomes of one that joins an array onto
\* itself, WalkedStaysAsLong and WalkedStaysAsItWas of one that writes in place
\* what a walk took.
V == INSTANCE ArrayValues
       WITH val <- [n \in Name |-> Seen(n)],
            walks <- [k \in DOMAIN walks |-> [name |-> walks[k].name, left |-> Left(walks[k])]]
ArraysAreValues == V!Spec

\* "Nothing may hold a pointer into an array while it grows" (rt_portable.ngpl:608,
\* rt_x86_64.ngpl:292, spec.md:10462): the slots a join is still to read are in
\* a block nobody has given back.
NothingHeldWhileItGrows ==
  joining.ix < joining.n =>
    \E block \in heap.live : joining.slots \in block.at .. block.at + block.size - 1

\* "v <- ..." inside a walk over v leaves the array the walk took "exactly as it
\* was", "still three elements long" (spec.md:5541): it is as long as it was when
\* the walk began (lower.ngpl:3053, extends_itself), and the elements the walk is
\* still to come to are what they were (lower.ngpl:3061, threads_itself).
WalkedStaysAsLong ==
  \A k \in DOMAIN walks : LenOf(heap, walks[k].desc) = Len(walks[k].took)
WalkedStaysAsItWas ==
  \A k \in DOMAIN walks : \A j \in walks[k].at + 1 .. Len(walks[k].took) :
    j <= LenOf(heap, walks[k].desc) => Contents(heap, walks[k].desc)[j] = walks[k].took[j]

\* All three are promised.  One program breaks them all: it is not even so that of
\* every program one is kept (rt_push_all and lower.ngpl).
ArraysKeepAPromise ==
  NothingHeldWhileItGrows \/ WalkedStaysAsLong \/ WalkedStaysAsItWas
=============================================================================
