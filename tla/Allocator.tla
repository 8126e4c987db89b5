------------------------------- MODULE Allocator -------------------------------
(***************************************************************************)
(* The allocator in every program the compiler writes                      *)
(* (src/src/rt_portable.ngpl and src/src/rt_x86_64.ngpl, RT_ALLOC and      *)
(* RT_FREE; src/src/emit.ngpl, "What the allocator keeps").  A block comes *)
(* from a table of free lists, found by a mix of its size, or off the end  *)
(* of the region in hand, or off a new region.  A word is eight bytes and  *)
(* a block is aligned to two of them.                                      *)
(***************************************************************************)
EXTENDS Integers

CONSTANTS
  Limit,       \* bound: how many words there are to map
  MinRegion,   \* the least words a region has
  Page,        \* the words of a page
  Slots,       \* the places in the table of free lists
  Mix          \* which of them a size takes

Addr == 0 .. Limit - 1
Null == 0

ASSUME AllocatorAssumption ==
  /\ Limit \in Nat \ {0} /\ MinRegion \in Nat \ {0} /\ Page \in Nat \ {0}
  /\ Page % 2 = 0 /\ MinRegion % Page = 0
  /\ \A n \in 0 .. Limit : Mix[n] \in Slots

\* The heap: the words, the end of what was handed out of the region in hand and
\* the end of the region, and the first block of each list.  regions and live
\* are what was mapped, and what was handed out and not taken back.
EmptyHeap ==
  [mem |-> [a \in Addr |-> 0], next |-> Null, lim |-> Null,
   heads |-> [s \in Slots |-> Null], regions |-> {}, live |-> {}]

\* Sizes are rounded to the alignment.
Up(n) == 2 * ((n + 1) \div 2)
RegionFor(n) ==
  LET len == Page * ((n + Page - 1) \div Page)
  IN IF len < MinRegion THEN MinRegion ELSE len

HandedOut(h, p, n) == [h EXCEPT !.live = @ \cup {[at |-> p, size |-> n]}]

\* Where the kernel may map a region: wherever nothing is.
Places(h, n) ==
  {b \in 1 .. Limit - RegionFor(n) :
     /\ b % Page = 0
     /\ \A r \in h.regions : b + RegionFor(n) <= r.at \/ r.at + r.size <= b}

\* Mutant: any block in the slot will do.
Reusable_any(h, n) == h.heads[Mix[n]] # Null

\* A block is handed out again only where its size is exactly the one wanted.  What
\* is longer than there are words to map is on no list.
Reusable(h, n) ==
  LET first == h.heads[Mix[n]]
  IN n <= Limit /\ first # Null /\ h.mem[first + 1] = n

\* What asking for size words may come to: the block and the heap.  Where the
\* kernel maps nothing the program stops (RT_OOM), and it comes to nothing.
RT_ALLOC(h, size) ==
  LET n == Up(size)
      first == h.heads[Mix[n]]
  IN IF Reusable(h, n)
     THEN {[at |-> first, heap |-> HandedOut([h EXCEPT !.heads[Mix[n]] = h.mem[first]], first, n)]}
     ELSE IF h.next + n <= h.lim
     THEN {[at |-> h.next, heap |-> HandedOut([h EXCEPT !.next = @ + n], h.next, n)]}
     ELSE {[at |-> b,
            heap |-> HandedOut(
              [h EXCEPT !.next = b + n, !.lim = b + RegionFor(n),
                        !.regions = @ \cup {[at |-> b, size |-> RegionFor(n)]}], b, n)]
           : b \in Places(h, n)}

\* A block given back keeps its list in its own first two words.
RT_FREE(h, p, size) ==
  LET n == Up(size)
  IN IF n < 2 THEN h
     ELSE [h EXCEPT !.mem = [@ EXCEPT ![p] = h.heads[Mix[n]], ![p + 1] = n],
                    !.heads[Mix[n]] = p,
                    !.live = @ \ {[at |-> p, size |-> n]}]

-----------------------------------------------------------------------------
\* What has to be true of a heap.

\* The blocks on the lists, as following the lists for k steps finds them.
Follow(h) ==
  LET found[k \in 0 .. Limit] ==
        IF k = 0 THEN {h.heads[s] : s \in Slots} \ {Null}
        ELSE LET before == found[k - 1] IN before \cup ({h.mem[p] : p \in before} \ {Null})
  IN found[Limit \div 2]
FreeBlocks(h) == {[at |-> p, size |-> h.mem[p + 1]] : p \in Follow(h)}

Inside(block, region) ==
  region.at <= block.at /\ block.at + block.size <= region.at + region.size

Apart(b, c) == b.at + b.size <= c.at \/ c.at + c.size <= b.at

\* Every block, free or handed out, is in a region and below what the region in
\* hand still has, and no two of them share a word.
BlocksApart(h) ==
  LET blocks == h.live \cup FreeBlocks(h)
  IN /\ h.live \cap FreeBlocks(h) = {}
     /\ \A b \in blocks :
          /\ b.at % 2 = 0 /\ b.size % 2 = 0 /\ b.size >= 2
          /\ \E r \in h.regions : Inside(b, r)
          /\ b.at + b.size <= h.next \/ h.lim <= b.at
     /\ \A b, c \in blocks : b # c => Apart(b, c)
=============================================================================
