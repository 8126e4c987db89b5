----------------------------- MODULE ArraysProofs -----------------------------
(***************************************************************************)
(* The heap of a compiled program, for every size of it, every order of    *)
(* statements and every array they make: no block is on a list twice or on *)
(* a list and in use, no two share a word, and what is handed out shares   *)
(* none with what anyone has.  On it stands what programs see of arrays:   *)
(* plain values, and walks that walk what they took.                       *)
(***************************************************************************)
EXTENDS Arrays, FiniteSetTheorems, SequenceTheorems, WellFoundedInduction, TLAPS

-----------------------------------------------------------------------------
\* The invariant of a heap whose lists hold the blocks F.

Block == {b \in [at : Addr, size : 0 .. Limit] :
            /\ 1 <= b.at /\ b.at % 2 = 0 /\ b.size % 2 = 0 /\ 2 <= b.size
            /\ b.at + b.size <= Limit}
Region == {r \in [at : 1 .. Limit, size : 0 .. Limit] : r.at + r.size <= Limit}

Within(a, b) == b.at <= a /\ a < b.at + b.size

HeapType == [mem : [Addr -> Int], next : 0 .. Limit, lim : 0 .. Limit,
             heads : [Slots -> Addr], regions : SUBSET Region, live : SUBSET Block]
Shaped(h, F) ==
  /\ h \in HeapType /\ F \in SUBSET Block
  /\ h.next % 2 = 0 /\ h.next <= h.lim
  /\ h.next = h.lim \/ \E r \in h.regions : r.at <= h.next /\ h.lim <= r.at + r.size

Clear(h, b) ==
  /\ \E r \in h.regions : Inside(b, r)
  /\ b.at + b.size <= h.next \/ h.lim <= b.at

Placed(h, F) ==
  /\ h.live \cap F = {}
  /\ \A b \in h.live \cup F : Clear(h, b)
  /\ \A b, c \in h.live \cup F : b # c => Apart(b, c)

\* A list is followed from its head, or from a block that is on it; nothing is
\* pointed to by two of these.
Starts(F) == {b.at : b \in F}
Listed(mem, heads, F) ==
  /\ \A s \in Slots : heads[s] = Null \/ heads[s] \in Starts(F)
  /\ \A b \in F : mem[b.at + 1] = b.size /\ (mem[b.at] = Null \/ mem[b.at] \in Starts(F))
  /\ \A b, c \in F : mem[b.at] = mem[c.at] => mem[b.at] = Null \/ b = c
  /\ \A s \in Slots, b \in F : heads[s] = mem[b.at] => heads[s] = Null
  /\ \A s, t \in Slots : heads[s] = heads[t] => heads[s] = Null \/ s = t

HeapInv(h, F) == Shaped(h, F) /\ Placed(h, F) /\ Listed(h.mem, h.heads, F)

-----------------------------------------------------------------------------
\* Numbers.

LEMMA AddrFacts ==
  /\ Limit \in Nat /\ Limit >= 1 /\ 0 \in Addr
  /\ \A a : a \in Addr <=> a \in Int /\ 0 <= a /\ a < Limit
  BY AllocatorAssumption DEF Addr

\* A sequence is the function of its elements.
LEMMA AsFunction ==
  ASSUME NEW S, NEW s \in Seq(S), NEW n, Len(s) = n
  PROVE  s = [k \in 1 .. n |-> s[k]]
  OBVIOUS

\* What a block is.
LEMMA BlockFacts ==
  ASSUME NEW b \in Block
  PROVE  /\ b.at \in Addr /\ b.at + 1 \in Addr /\ b.at # Null
         /\ b.at \in Int /\ b.size \in Int /\ 1 <= b.at /\ 2 <= b.size
         /\ b.at % 2 = 0 /\ b.size % 2 = 0 /\ b.at + b.size <= Limit
         /\ b = [at |-> b.at, size |-> b.size]
  BY AddrFacts DEF Block, Addr, Null

\* Blocks that share no word begin at two places.
LEMMA ApartFacts ==
  ASSUME NEW b \in Block, NEW c \in Block, Apart(b, c)
  PROVE  /\ b.at # c.at /\ b.at # c.at + 1 /\ b.at + 1 # c.at /\ b.at + 1 # c.at + 1
         /\ b # c
         /\ \A a \in Addr : ~(Within(a, b) /\ Within(a, c))
  <1>1. /\ b.at \in Int /\ b.size \in Int /\ 2 <= b.size
        /\ c.at \in Int /\ c.size \in Int /\ 2 <= c.size
    BY BlockFacts
  <1>2. \A a \in Addr : a \in Int
    BY AddrFacts
  <1> QED BY <1>1, <1>2 DEF Apart, Within

\* Sizes are rounded to the next even number.
LEMMA UpFacts ==
  ASSUME NEW n \in Nat
  PROVE  Up(n) \in Nat /\ n <= Up(n) /\ Up(n) <= n + 1 /\ Up(n) % 2 = 0
  BY DEF Up

\* A region is long enough for the block it is mapped for.
LEMMA RegionFacts ==
  ASSUME NEW n \in Nat
  PROVE  RegionFor(n) \in Nat /\ n <= RegionFor(n) /\ 1 <= RegionFor(n)
  <1> DEFINE q == (n + Page - 1) \div Page
             m == n + Page - 1
  <1>1. Page \in Nat /\ Page >= 1 /\ MinRegion \in Nat /\ MinRegion >= 1
    BY AllocatorAssumption
  <1>2. m \in Nat
    BY <1>1
  <1>3. q \in Nat /\ m < Page * q + Page
    <2> HIDE DEF m
    <2>1. m \div Page \in Nat /\ m < Page * (m \div Page) + Page
      BY <1>1, <1>2
    <2> QED BY <2>1 DEF m
  <1> HIDE DEF q
  <1>4. Page * q \in Nat
    BY <1>1, <1>3
  <1> DEFINE len == Page * q
  <1>5. RegionFor(n) = IF len < MinRegion THEN MinRegion ELSE len
    BY DEF RegionFor, q
  <1>6. len \in Nat /\ n + Page - 1 < len + Page
    BY <1>3, <1>4
  <1> HIDE DEF len
  <1>7. n <= len
    BY <1>1, <1>6
  <1> QED BY <1>1, <1>5, <1>6, <1>7

-----------------------------------------------------------------------------
\* The lists.

\* The first block of a list is taken off it.
LEMMA TakenOff ==
  ASSUME NEW mem, NEW heads \in [Slots -> Addr], NEW F \in SUBSET Block, Listed(mem, heads, F),
         \A b, c \in F : b # c => Apart(b, c),
         NEW s \in Slots, NEW b \in F, heads[s] = b.at
  PROVE  Listed(mem, [heads EXCEPT ![s] = mem[b.at]], F \ {b})
  <1> DEFINE G == F \ {b}
             new == [heads EXCEPT ![s] = mem[b.at]]
  <1>1. heads[s] # Null
    BY BlockFacts
  <1>2. \A c \in F : c.at = b.at => c = b
    BY ApartFacts
  <1>3. \A a \in Starts(F) : a # b.at => a \in Starts(G)
    BY DEF Starts
  <1>4. \A c \in F : mem[c.at] # b.at
    BY <1>1 DEF Listed
  <1>5. \A t \in Slots : t # s => heads[t] # b.at
    BY <1>1 DEF Listed
  <1>6. new[s] = mem[b.at] /\ \A t \in Slots : t # s => new[t] = heads[t]
    OBVIOUS
  <1> HIDE DEF new
  <1>7. \A t \in Slots : new[t] = Null \/ new[t] \in Starts(G)
    BY <1>3, <1>4, <1>5, <1>6 DEF Listed
  <1>8. \A c \in G : mem[c.at + 1] = c.size /\ (mem[c.at] = Null \/ mem[c.at] \in Starts(G))
    BY <1>3, <1>4 DEF Listed
  <1>9. \A c, e \in G : mem[c.at] = mem[e.at] => mem[c.at] = Null \/ c = e
    BY DEF Listed
  <1>10. \A t \in Slots, c \in G : new[t] = mem[c.at] => new[t] = Null
    BY <1>6 DEF Listed
  <1>11. \A t, u \in Slots : new[t] = new[u] => new[t] = Null \/ t = u
    BY <1>6 DEF Listed
  <1> QED BY <1>7, <1>8, <1>9, <1>10, <1>11 DEF Listed, new

\* A block is put in front of a list.
LEMMA PutBack ==
  ASSUME NEW mem \in [Addr -> Int], NEW heads \in [Slots -> Addr], NEW F \in SUBSET Block,
         Listed(mem, heads, F),
         NEW s \in Slots, NEW b \in Block, \A c \in F : Apart(b, c)
  PROVE  Listed([mem EXCEPT ![b.at] = heads[s], ![b.at + 1] = b.size],
                [heads EXCEPT ![s] = b.at], F \cup {b})
  <1> DEFINE G == F \cup {b}
             new == [heads EXCEPT ![s] = b.at]
             word == [mem EXCEPT ![b.at] = heads[s], ![b.at + 1] = b.size]
  <1>1. /\ b.at \in Addr /\ b.at + 1 \in Addr /\ b.at # b.at + 1 /\ b.at # Null
    BY BlockFacts
  <1>2. \A c \in F : /\ c.at \in Addr /\ c.at + 1 \in Addr /\ c.at # Null
                     /\ c.at # b.at /\ c.at # b.at + 1 /\ c.at + 1 # b.at /\ c.at + 1 # b.at + 1
    BY BlockFacts, ApartFacts
  <1>3. word[b.at] = heads[s] /\ word[b.at + 1] = b.size
    BY <1>1
  <1>4. \A c \in F : word[c.at] = mem[c.at] /\ word[c.at + 1] = mem[c.at + 1]
    BY <1>2
  <1>5. new[s] = b.at /\ \A t \in Slots : t # s => new[t] = heads[t]
    OBVIOUS
  <1>6. b.at \in Starts(G) /\ \A a \in Starts(F) : a \in Starts(G) /\ a # b.at
    BY <1>2 DEF Starts
  <1> HIDE DEF new, word
  <1>7. \A t \in Slots : new[t] = Null \/ new[t] \in Starts(G)
    BY <1>5, <1>6 DEF Listed
  <1>8. \A c \in G : word[c.at + 1] = c.size /\ (word[c.at] = Null \/ word[c.at] \in Starts(G))
    BY <1>3, <1>4, <1>6 DEF Listed
  <1>9. \A c, e \in G : word[c.at] = word[e.at] => word[c.at] = Null \/ c = e
    BY <1>3, <1>4 DEF Listed
  <1>10. \A t \in Slots, c \in G : new[t] = word[c.at] => new[t] = Null
    <2> SUFFICES ASSUME NEW t \in Slots, NEW c \in G, new[t] = word[c.at], new[t] # Null
                 PROVE  FALSE
      OBVIOUS
    <2>1. heads[s] # b.at /\ \A e \in F : mem[e.at] # b.at
      BY <1>1, <1>6 DEF Listed
    <2>2. CASE t = s
      BY <1>3, <1>4, <1>5, <2>1, <2>2
    <2>3. CASE t # s
      BY <1>3, <1>4, <1>5, <2>3 DEF Listed
    <2> QED BY <2>2, <2>3
  <1>11. \A t, u \in Slots : new[t] = new[u] => new[t] = Null \/ t = u
    BY <1>5, <1>6, <1>1 DEF Listed
  <1> QED BY <1>7, <1>8, <1>9, <1>10, <1>11 DEF Listed, new, word

-----------------------------------------------------------------------------
\* Handing out.

\* What handing out the block B makes of the heap h.
HandsOut(h, g, B) ==
  /\ B \in Block /\ g.live = h.live \cup {B} /\ g.mem = h.mem
  /\ \A b \in h.live : Apart(B, b)

\* A block nobody had goes with those somebody has.
LEMMA NewBlock ==
  ASSUME NEW h, NEW g, NEW F \in SUBSET Block, NEW B \in Block,
         h.live \in SUBSET Block, Placed(h, F), g.live = h.live \cup {B},
         Clear(g, B), \A b \in h.live \cup F : Clear(g, b) /\ Apart(B, b)
  PROVE  Placed(g, F)
  <1>1. \A b \in h.live \cup F : b # B /\ Apart(b, B)
    <2> TAKE b \in h.live \cup F
    <2>1. b \in Block /\ Apart(B, b)
      OBVIOUS
    <2> QED BY <2>1, ApartFacts DEF Apart
  <1> QED BY <1>1 DEF Placed

\* Off a list.
LEMMA HandedBack ==
  ASSUME NEW h, NEW F, HeapInv(h, F), NEW n \in Nat, Reusable(h, n),
         NEW g, g = HandedOut([h EXCEPT !.heads[Mix[n]] = h.mem[h.heads[Mix[n]]]],
                              h.heads[Mix[n]], n)
  PROVE  \E G \in SUBSET F :
           HeapInv(g, G) /\ HandsOut(h, g, [at |-> h.heads[Mix[n]], size |-> n])
  <1> DEFINE s == Mix[n]
             p == h.heads[s]
             B == [at |-> p, size |-> n]
             G == F \ {B}
  <1>1. s \in Slots /\ p \in Addr /\ p # Null /\ h.mem[p + 1] = n
    BY AllocatorAssumption DEF Reusable, HeapInv, Shaped, HeapType
  <1>2. B \in F
    <2>1. PICK b \in F : b.at = p
      BY <1>1 DEF HeapInv, Listed, Starts
    <2>2. b.size = n /\ b \in Block
      BY <1>1, <2>1 DEF HeapInv, Listed, Shaped
    <2> QED BY <2>1, <2>2, BlockFacts
  <1>3. /\ h \in HeapType /\ F \in SUBSET Block /\ B \in Block /\ G \in SUBSET F
        /\ h.mem[p] \in Addr
    BY <1>2, BlockFacts, AddrFacts DEF HeapInv, Shaped, Listed, Starts, Null
  <1>4. /\ g.mem = h.mem /\ g.next = h.next /\ g.lim = h.lim /\ g.regions = h.regions
        /\ g.heads = [h.heads EXCEPT ![s] = h.mem[p]] /\ g.live = h.live \cup {B}
        /\ g \in HeapType
    BY <1>1, <1>3 DEF HandedOut, HeapType
  <1>5. Shaped(g, G)
    BY <1>3, <1>4 DEF HeapInv, Shaped
  <1>6. Placed(g, G)
    <2>1. g.live \cup G = h.live \cup F
      BY <1>2, <1>4
    <2>2. \A b : Clear(h, b) => Clear(g, b)
      BY <1>4 DEF Clear
    <2>3. g.live \cap G = {}
      BY <1>4 DEF HeapInv, Placed
    <2> QED BY <2>1, <2>2, <2>3 DEF HeapInv, Placed
  <1>7. Listed(g.mem, g.heads, G)
    <2>1. \A b, c \in F : b # c => Apart(b, c)
      BY DEF HeapInv, Placed
    <2>2. Listed(h.mem, h.heads, F) /\ h.heads \in [Slots -> Addr] /\ h.heads[s] = B.at
      BY <1>3 DEF HeapInv, HeapType
    <2>3. Listed(h.mem, [h.heads EXCEPT ![s] = h.mem[B.at]], F \ {B})
      BY <1>1, <1>2, <1>3, <2>1, <2>2, TakenOff
    <2> QED BY <1>4, <2>3
  <1>8. HandsOut(h, g, B)
    BY <1>2, <1>3, <1>4 DEF HandsOut, HeapInv, Placed, Apart
  <1> QED BY <1>3, <1>5, <1>6, <1>7, <1>8 DEF HeapInv

\* Off the end of the region in hand.
LEMMA BumpedOff ==
  ASSUME NEW h, NEW F, HeapInv(h, F), NEW n \in Nat, n % 2 = 0, n >= 2,
         h.next + n <= h.lim,
         NEW g, g = HandedOut([h EXCEPT !.next = @ + n], h.next, n)
  PROVE  HeapInv(g, F) /\ HandsOut(h, g, [at |-> h.next, size |-> n])
  <1> DEFINE B == [at |-> h.next, size |-> n]
  <1>1. /\ h \in HeapType /\ F \in SUBSET Block /\ h.next % 2 = 0
        /\ h.next \in 0 .. Limit /\ h.lim \in 0 .. Limit /\ Limit \in Nat
    BY AddrFacts DEF HeapInv, Shaped, HeapType
  <1>2. PICK r \in h.regions : r.at <= h.next /\ h.lim <= r.at + r.size
    <2>1. h.next # h.lim
      BY <1>1
    <2> QED BY <2>1 DEF HeapInv, Shaped
  <1>3. r \in Region /\ r.at \in 1 .. Limit /\ r.size \in 0 .. Limit
    BY <1>1, <1>2 DEF HeapType, Region
  <1>4. B \in Block
    BY <1>1, <1>2, <1>3 DEF Block, Addr
  <1>5. /\ g.mem = h.mem /\ g.next = h.next + n /\ g.lim = h.lim /\ g.regions = h.regions
        /\ g.heads = h.heads /\ g.live = h.live \cup {B}
        /\ g \in HeapType
    <2>1. h.next + n \in 0 .. Limit
      BY <1>1
    <2> QED BY <1>1, <1>4, <2>1 DEF HandedOut, HeapType
  <1>6. Shaped(g, F)
    <2>1. g.next % 2 = 0 /\ g.next <= g.lim
      BY <1>1, <1>5
    <2>2. r.at <= g.next
      BY <1>1, <1>2, <1>3, <1>5
    <2> QED BY <1>1, <1>2, <1>5, <2>1, <2>2 DEF Shaped
  <1>7. \A b \in h.live \cup F : Clear(g, b) /\ Apart(B, b)
    <2> TAKE b \in h.live \cup F
    <2>1. Clear(h, b) /\ b \in Block
      BY <1>1 DEF HeapInv, Placed, HeapType
    <2>2. b.at \in Int /\ b.size \in Int
      BY <2>1, BlockFacts
    <2> QED BY <1>1, <1>5, <2>1, <2>2 DEF Clear, Apart
  <1>8. Clear(g, B)
    <2>1. Inside(B, r)
      BY <1>1, <1>2, <1>3 DEF Inside
    <2> QED BY <1>1, <1>2, <1>5, <2>1 DEF Clear
  <1>9. Placed(g, F)
    BY <1>1, <1>4, <1>5, <1>7, <1>8, NewBlock DEF HeapInv, HeapType
  <1>10. HandsOut(h, g, B)
    BY <1>4, <1>5, <1>7 DEF HandsOut
  <1> QED BY <1>5, <1>6, <1>9, <1>10 DEF HeapInv

\* Off a new region.
LEMMA Mapped ==
  ASSUME NEW h, NEW F, HeapInv(h, F), NEW n \in Nat, n % 2 = 0, n >= 2,
         NEW p \in Places(h, n),
         NEW g, g = HandedOut(
                      [h EXCEPT !.next = p + n, !.lim = p + RegionFor(n),
                                !.regions = @ \cup {[at |-> p, size |-> RegionFor(n)]}], p, n)
  PROVE  HeapInv(g, F) /\ HandsOut(h, g, [at |-> p, size |-> n])
  <1> DEFINE B == [at |-> p, size |-> n]
             len == RegionFor(n)
             R == [at |-> p, size |-> len]
  <1>1. /\ h \in HeapType /\ F \in SUBSET Block /\ Limit \in Nat
        /\ len \in Nat /\ n <= len /\ p \in Int /\ 1 <= p /\ p + len <= Limit
    <2>1. len \in Nat /\ n <= len
      BY RegionFacts
    <2>2. p \in 1 .. Limit - len
      BY DEF Places
    <2> QED BY <2>1, <2>2, AddrFacts DEF HeapInv, Shaped
  <1>2. p % 2 = 0
    <2>1. p % Page = 0 /\ Page \in Nat \ {0} /\ Page % 2 = 0
      BY AllocatorAssumption DEF Places
    <2>2. p = Page * (p \div Page)
      BY <1>1, <2>1
    <2>3. Page = 2 * (Page \div 2)
      BY <2>1
    <2>4. p = 2 * ((Page \div 2) * (p \div Page))
      BY <1>1, <2>1, <2>2, <2>3
    <2>5. (Page \div 2) * (p \div Page) \in Int
      BY <1>1, <2>1
    <2> QED BY <2>4, <2>5
  <1>3. \A r \in h.regions : p + len <= r.at \/ r.at + r.size <= p
    BY DEF Places
  <1> HIDE DEF len
  <1>4. B \in Block /\ R \in Region
    BY <1>1, <1>2 DEF Block, Addr, Region
  <1>5. /\ g.mem = h.mem /\ g.next = p + n /\ g.lim = p + len /\ g.regions = h.regions \cup {R}
        /\ g.heads = h.heads /\ g.live = h.live \cup {B}
        /\ g \in HeapType
    <2>1. p + n \in 0 .. Limit /\ p + len \in 0 .. Limit
      BY <1>1
    <2> QED BY <1>1, <1>4, <2>1 DEF HandedOut, HeapType, len
  <1>6. Shaped(g, F)
    <2>1. g.next % 2 = 0 /\ g.next <= g.lim
      BY <1>1, <1>2, <1>5
    <2>2. R.at <= g.next /\ g.lim <= R.at + R.size /\ R \in g.regions
      BY <1>1, <1>5
    <2> QED BY <1>1, <1>5, <2>1, <2>2 DEF Shaped
  <1>7. \A b \in h.live \cup F : Clear(g, b) /\ Apart(B, b)
    <2> TAKE b \in h.live \cup F
    <2>1. Clear(h, b) /\ b \in Block
      BY <1>1 DEF HeapInv, Placed, HeapType
    <2>2. b.at \in Int /\ b.size \in Int
      BY <2>1, BlockFacts
    <2>3. PICK r \in h.regions : Inside(b, r)
      BY <2>1 DEF Clear
    <2>4. r \in g.regions /\ r.at \in Int /\ r.size \in Int
      BY <1>1, <1>5 DEF HeapType, Region
    <2>5. p + len <= b.at \/ b.at + b.size <= p
      BY <1>1, <1>3, <2>2, <2>3, <2>4 DEF Inside
    <2>6. b.at + b.size <= g.next \/ g.lim <= b.at
      BY <1>1, <1>5, <2>2, <2>5
    <2>7. Apart(B, b)
      BY <1>1, <2>2, <2>5 DEF Apart
    <2> QED BY <2>3, <2>4, <2>6, <2>7 DEF Clear
  <1>8. Clear(g, B)
    <2>1. Inside(B, R)
      BY <1>1 DEF Inside
    <2> QED BY <1>1, <1>5, <2>1 DEF Clear
  <1>9. Placed(g, F)
    BY <1>1, <1>4, <1>5, <1>7, <1>8, NewBlock DEF HeapInv, HeapType
  <1>10. HandsOut(h, g, B)
    BY <1>4, <1>5, <1>7 DEF HandsOut
  <1> QED BY <1>5, <1>6, <1>9, <1>10 DEF HeapInv

\* Whichever of the three it comes from.
LEMMA Allocated ==
  ASSUME NEW h, NEW F, HeapInv(h, F), NEW size \in Nat \ {0}, NEW r \in RT_ALLOC(h, size)
  PROVE  \E G \in SUBSET F :
           HeapInv(r.heap, G) /\ HandsOut(h, r.heap, [at |-> r.at, size |-> Up(size)])
  <1> DEFINE n == Up(size)
  <1>1. n \in Nat /\ n % 2 = 0 /\ n >= 2
    <2>1. n \in Nat /\ size <= n /\ n % 2 = 0
      BY UpFacts
    <2> HIDE DEF n
    <2> QED BY <2>1
  <1> HIDE DEF n
  <1>2. CASE Reusable(h, n)
    <2>1. /\ r.at = h.heads[Mix[n]]
          /\ r.heap = HandedOut([h EXCEPT !.heads[Mix[n]] = h.mem[h.heads[Mix[n]]]],
                                h.heads[Mix[n]], n)
      BY <1>2 DEF RT_ALLOC, n
    <2> QED BY <1>1, <1>2, <2>1, HandedBack DEF n
  <1>3. CASE ~Reusable(h, n) /\ h.next + n <= h.lim
    <2>1. r.at = h.next /\ r.heap = HandedOut([h EXCEPT !.next = @ + n], h.next, n)
      BY <1>3 DEF RT_ALLOC, n
    <2>2. HeapInv(r.heap, F) /\ HandsOut(h, r.heap, [at |-> r.at, size |-> n])
      BY <1>1, <1>3, <2>1, BumpedOff
    <2> QED BY <2>2 DEF n
  <1>4. CASE ~Reusable(h, n) /\ ~(h.next + n <= h.lim)
    <2>1. PICK p \in Places(h, n) :
            r = [at |-> p,
                 heap |-> HandedOut(
                   [h EXCEPT !.next = p + n, !.lim = p + RegionFor(n),
                             !.regions = @ \cup {[at |-> p, size |-> RegionFor(n)]}], p, n)]
      BY <1>4 DEF RT_ALLOC, n
    <2>2. HeapInv(r.heap, F) /\ HandsOut(h, r.heap, [at |-> p, size |-> n])
      BY <1>1, <2>1, Mapped
    <2> QED BY <2>1, <2>2 DEF n
  <1> QED BY <1>2, <1>3, <1>4

-----------------------------------------------------------------------------
\* Writing, and taking back.

\* What is written lies in the blocks B.
WritesIn(h, g, B) == \A a \in Addr : g.mem[a] = h.mem[a] \/ \E b \in B : Within(a, b)

\* Nothing that is written into the blocks somebody has is in a free one.
LEMMA WrittenIn ==
  ASSUME NEW h, NEW F, HeapInv(h, F), NEW m \in [Addr -> Int],
         NEW g, g = [h EXCEPT !.mem = m], NEW B \in SUBSET h.live, WritesIn(h, g, B)
  PROVE  HeapInv(g, F)
  <1>1. h \in HeapType /\ F \in SUBSET Block
    BY DEF HeapInv, Shaped
  <1>2. /\ g.mem = m /\ g.next = h.next /\ g.lim = h.lim /\ g.regions = h.regions
        /\ g.heads = h.heads /\ g.live = h.live /\ g \in HeapType
    BY <1>1 DEF HeapType
  <1>3. Shaped(g, F)
    BY <1>2 DEF HeapInv, Shaped
  <1>4. Placed(g, F)
    <2>1. \A b : Clear(h, b) => Clear(g, b)
      BY <1>2 DEF Clear
    <2> QED BY <1>2, <2>1 DEF HeapInv, Placed
  <1>5. \A c \in F : g.mem[c.at] = h.mem[c.at] /\ g.mem[c.at + 1] = h.mem[c.at + 1]
    <2> TAKE c \in F
    <2>1. c \in Block /\ c.at \in Addr /\ c.at + 1 \in Addr
      BY <1>1, BlockFacts
    <2>2. Within(c.at, c) /\ Within(c.at + 1, c)
      BY <2>1, BlockFacts DEF Within
    <2>3. \A b \in B : b \in Block /\ Apart(b, c)
      BY <1>1 DEF HeapInv, Placed, HeapType
    <2>4. \A b \in B : ~Within(c.at, b) /\ ~Within(c.at + 1, b)
      BY <2>1, <2>2, <2>3, ApartFacts
    <2> QED BY <2>1, <2>4 DEF WritesIn
  <1>6. Listed(g.mem, g.heads, F)
    <2>1. Listed(h.mem, h.heads, F)
      BY DEF HeapInv
    <2> QED BY <1>2, <1>5, <2>1 DEF Listed
  <1> QED BY <1>3, <1>4, <1>6 DEF HeapInv

\* A block somebody has is taken back onto the list of its size.
LEMMA TakenBack ==
  ASSUME NEW h, NEW F, HeapInv(h, F), NEW p, NEW size \in Nat,
         NEW b \in h.live, b = [at |-> p, size |-> Up(size)],
         NEW g, g = RT_FREE(h, p, size)
  PROVE  /\ HeapInv(g, F \cup {b}) /\ g.live = h.live \ {b}
         /\ WritesIn(h, g, {b})
  <1> DEFINE n == Up(size)
             s == Mix[n]
             G == F \cup {b}
  <1>1. /\ h \in HeapType /\ F \in SUBSET Block /\ b \in Block /\ b.at = p /\ b.size = n
        /\ h.mem \in [Addr -> Int] /\ h.heads \in [Slots -> Addr]
        /\ h.live \in SUBSET Block
    BY DEF HeapInv, Shaped, HeapType
  <1>2. /\ n \in Int /\ 2 <= n /\ n <= Limit /\ p \in Addr /\ p + 1 \in Addr /\ p \in Int
    <2>1. b.size \in 0 .. Limit
      BY <1>1 DEF Block
    <2> HIDE DEF n
    <2> QED BY <1>1, <2>1, BlockFacts, AddrFacts
  <1> HIDE DEF n
  <1>3. s \in Slots
    <2>1. n \in 0 .. Limit
      BY <1>2, AddrFacts
    <2> QED BY <2>1, AllocatorAssumption
  <1> HIDE DEF s
  <1>4. g = [h EXCEPT !.mem = [@ EXCEPT ![p] = h.heads[s], ![p + 1] = n],
                      !.heads[s] = p, !.live = @ \ {b}]
    <2>1. ~(n < 2)
      BY <1>2
    <2> QED BY <2>1 DEF RT_FREE, n, s
  <1>5. /\ g.mem = [h.mem EXCEPT ![p] = h.heads[s], ![p + 1] = n]
        /\ g.heads = [h.heads EXCEPT ![s] = p] /\ g.live = h.live \ {b}
        /\ g.next = h.next /\ g.lim = h.lim /\ g.regions = h.regions
    BY <1>1, <1>4 DEF HeapType
  <1>6. g.mem \in [Addr -> Int] /\ g.heads \in [Slots -> Addr]
    <2>1. h.heads[s] \in Int
      BY <1>1, <1>3, AddrFacts
    <2> QED BY <1>1, <1>2, <1>3, <1>5, <2>1
  <1>7. g \in HeapType
    <2>1. g.live \in SUBSET Block
      BY <1>1, <1>5
    <2> QED BY <1>1, <1>4, <1>5, <1>6, <2>1 DEF HeapType
  <1>8. Shaped(g, G)
    BY <1>1, <1>5, <1>7 DEF HeapInv, Shaped
  <1>9. Placed(g, G)
    <2>1. g.live \cup G = h.live \cup F
      BY <1>5
    <2>2. g.live \cap G = {}
      BY <1>5 DEF HeapInv, Placed
    <2>3. \A c : Clear(h, c) => Clear(g, c)
      BY <1>5 DEF Clear
    <2> QED BY <2>1, <2>2, <2>3 DEF HeapInv, Placed
  <1>10. Listed(g.mem, g.heads, G)
    <2>1. \A c \in F : Apart(b, c)
      BY DEF HeapInv, Placed
    <2>2. Listed(h.mem, h.heads, F)
      BY DEF HeapInv
    <2>3. Listed([h.mem EXCEPT ![b.at] = h.heads[s], ![b.at + 1] = b.size],
                 [h.heads EXCEPT ![s] = b.at], F \cup {b})
      BY <1>1, <1>3, <2>1, <2>2, PutBack
    <2> QED BY <1>1, <1>5, <2>3
  <1>11. WritesIn(h, g, {b})
    <2> SUFFICES ASSUME NEW a \in Addr, g.mem[a] # h.mem[a]
                 PROVE  Within(a, b)
      BY DEF WritesIn
    <2>1. a = p \/ a = p + 1
      BY <1>1, <1>2, <1>5
    <2> QED BY <1>1, <1>2, <2>1 DEF Within
  <1> QED BY <1>5, <1>8, <1>9, <1>10, <1>11 DEF HeapInv

-----------------------------------------------------------------------------
\* Following the lists.

LEMMA LeastOf ==
  ASSUME NEW S, S \subseteq Nat, S # {}
  PROVE  \E least \in S : \A k \in S : least <= k
  <1>1. PICK least \in S : \A k \in S : ~(<<k, least>> \in OpToRel(<, Nat))
    BY WFMin, NatLessThanWellFounded
  <1>2. \A k \in S : ~(k < least)
    BY <1>1 DEF OpToRel
  <1> QED BY <1>2

\* What following the lists is told to find, as far as K steps.
Finds(found, K, heads, mem) ==
  found = [k \in 0 .. K |->
             IF k = 0 THEN {heads[s] : s \in Slots} \ {Null}
             ELSE found[k - 1] \cup ({mem[p] : p \in found[k - 1]} \ {Null})]

\* It finds something.
LEMMA FollowFinds ==
  ASSUME NEW h
  PROVE  \E found : Finds(found, Limit, h.heads, h.mem) /\ Follow(h) = found[Limit \div 2]
  <1> DEFINE F(found, K) == Finds(found, K, h.heads, h.mem)
             First == {h.heads[s] : s \in Slots} \ {Null}
             More(set) == set \cup ({h.mem[p] : p \in set} \ {Null})
             None == {K \in Nat : \A found : ~F(found, K)}
  <1>1. None = {}
    <2> SUFFICES ASSUME None # {}
                 PROVE  FALSE
      OBVIOUS
    <2>1. PICK K \in None : \A k \in None : K <= k
      <3>1. None \subseteq Nat
        OBVIOUS
      <3> HIDE DEF None
      <3> QED BY <3>1, LeastOf
    <2>2. CASE K = 0
      <3> DEFINE f == [k \in 0 .. K |-> First]
      <3>1. F(f, K)
        BY <2>2 DEF Finds
      <3> QED BY <2>1, <3>1
    <2>3. CASE K # 0
      <3>1. K \in Nat /\ K - 1 \in Nat /\ ~(K <= K - 1)
        BY <2>1, <2>3
      <3>2. PICK f : F(f, K - 1)
        BY <2>1, <3>1
      <3> HIDE DEF First, More
      <3> DEFINE g == [k \in 0 .. K |-> IF k < K THEN f[k] ELSE More(f[K - 1])]
      <3>3. \A k \in 0 .. K - 1 : f[k] = IF k = 0 THEN First ELSE More(f[k - 1])
        BY <3>1, <3>2 DEF Finds, First, More
      <3>4. \A k \in 0 .. K : g[k] = IF k = 0 THEN First ELSE More(g[k - 1])
        <4> TAKE k \in 0 .. K
        <4>1. CASE k = 0
          BY <2>3, <3>1, <3>3, <4>1
        <4>2. CASE 0 < k /\ k < K
          BY <3>1, <3>3, <4>2
        <4>3. CASE k = K
          BY <2>3, <3>1, <4>3
        <4> QED BY <3>1, <4>1, <4>2, <4>3
      <3>5. g = [k \in 0 .. K |-> g[k]]
        OBVIOUS
      <3> HIDE DEF g
      <3>6. g = [k \in 0 .. K |-> IF k = 0 THEN First ELSE More(g[k - 1])]
        BY <3>4, <3>5
      <3>7. F(g, K)
        BY <3>6 DEF Finds, First, More
      <3> QED BY <2>1, <3>7
    <2> QED BY <2>2, <2>3
  <1>2. \E found : F(found, Limit)
    BY <1>1, AddrFacts
  <1>3. PICK found : /\ F(found, Limit)
                     /\ found = CHOOSE f : F(f, Limit)
    BY Zenon, <1>2
  <1>4. Follow(h) = (CHOOSE f : F(f, Limit))[Limit \div 2]
    BY DEF Follow, Finds
  <1> QED BY <1>3, <1>4

\* Whatever the lists lead to is on one of them.
LEMMA FollowStays ==
  ASSUME NEW h, NEW F, HeapInv(h, F)
  PROVE  Follow(h) \subseteq Starts(F)
  <1>1. PICK found : Finds(found, Limit, h.heads, h.mem) /\ Follow(h) = found[Limit \div 2]
    BY FollowFinds
  <1> DEFINE Stray == {k \in 0 .. Limit : ~(found[k] \subseteq Starts(F))}
  <1>2. /\ \A s \in Slots : h.heads[s] = Null \/ h.heads[s] \in Starts(F)
        /\ \A a \in Starts(F) : h.mem[a] = Null \/ h.mem[a] \in Starts(F)
    BY DEF HeapInv, Listed, Starts
  <1>3. Stray = {}
    <2> SUFFICES ASSUME Stray # {}
                 PROVE  FALSE
      OBVIOUS
    <2>1. PICK K \in Stray : \A k \in Stray : K <= k
      <3>1. Stray \subseteq Nat
        BY AddrFacts
      <3> HIDE DEF Stray
      <3> QED BY <3>1, LeastOf
    <2>2. K \in 0 .. Limit /\ found[K] = IF K = 0 THEN {h.heads[s] : s \in Slots} \ {Null}
                      ELSE found[K - 1] \cup ({h.mem[p] : p \in found[K - 1]} \ {Null})
      BY <1>1, <2>1, AddrFacts DEF Finds
    <2>3. CASE K = 0
      BY <1>2, <2>1, <2>2, <2>3
    <2>4. CASE K # 0
      <3>1. K - 1 \in 0 .. Limit /\ ~(K <= K - 1)
        BY <2>2, <2>4, AddrFacts
      <3>2. found[K - 1] \subseteq Starts(F)
        BY <2>1, <3>1
      <3> QED BY <1>2, <2>1, <2>2, <2>4, <3>2
    <2> QED BY <2>3, <2>4
  <1>4. Limit \div 2 \in 0 .. Limit
    BY AddrFacts
  <1> QED BY <1>1, <1>3, <1>4

\* So no two blocks share a word, and none is free and somebody's.
LEMMA SoundHeap ==
  ASSUME NEW h, NEW F, HeapInv(h, F)
  PROVE  BlocksApart(h)
  <1>1. FreeBlocks(h) \subseteq F
    <2> SUFFICES ASSUME NEW p \in Follow(h)
                 PROVE  [at |-> p, size |-> h.mem[p + 1]] \in F
      BY DEF FreeBlocks
    <2>1. PICK b \in F : b.at = p
      BY FollowStays DEF Starts
    <2>2. b \in Block /\ h.mem[p + 1] = b.size
      BY <2>1 DEF HeapInv, Shaped, Listed
    <2> QED BY <2>1, <2>2, BlockFacts
  <1>2. h.live \in SUBSET Block /\ F \in SUBSET Block
    BY DEF HeapInv, Shaped, HeapType
  <1>3. \A b \in h.live \cup FreeBlocks(h) : b \in h.live \cup F /\ b \in Block /\ Clear(h, b)
    BY <1>1, <1>2 DEF HeapInv, Placed
  <1>4. \A b \in h.live \cup FreeBlocks(h) : b.at % 2 = 0 /\ b.size % 2 = 0 /\ b.size >= 2
    BY <1>3, BlockFacts
  <1> HIDE DEF FreeBlocks
  <1>5. h.live \cap FreeBlocks(h) = {}
    BY <1>1 DEF HeapInv, Placed
  <1>6. \A b, c \in h.live \cup FreeBlocks(h) : b # c => Apart(b, c)
    BY <1>3 DEF HeapInv, Placed
  <1> QED BY <1>3, <1>4, <1>5, <1>6 DEF BlocksApart, Clear

-----------------------------------------------------------------------------
\* Arrays in the heap.

\* The descriptor is in a block of its own, and the slots in it or in another.
ArrayOK(h, d) ==
  /\ LenOf(h, d) \in 0 .. CapOf(h, d)
  /\ \E b \in h.live : b.at = d /\ 4 <= b.size /\ (Inline(h, d) => Header + CapOf(h, d) <= b.size)
  /\ ~Inline(h, d) =>
       SlotsOf(h, d) # d /\ [at |-> SlotsOf(h, d), size |-> Up(CapOf(h, d))] \in h.live

\* The blocks an array is in.
Home(h, d) == {b \in h.live : b.at = d \/ (~Inline(h, d) /\ b.at = SlotsOf(h, d))}

\* No two arrays are in one block.
OwnInv(h, D) ==
  /\ \A d \in D : ArrayOK(h, d)
  /\ \A d, e \in D : d # e => Home(h, d) \cap Home(h, e) = {}

\* What a routine that changes the array d, until now in the blocks O, leaves.
Serves(h, g, d, O) ==
  /\ \E G : HeapInv(g, G)
  /\ ArrayOK(g, d) /\ Home(g, d) \cap h.live \subseteq O
  /\ \A b \in h.live \ O : b \in g.live /\ \A a \in Addr : Within(a, b) => g.mem[a] = h.mem[a]
  /\ \A b \in g.live \ h.live, c \in h.live : Apart(b, c)

\* What a heap that is sound has.
LEMMA HeapFacts ==
  ASSUME NEW h, NEW F, HeapInv(h, F)
  PROVE  /\ h \in HeapType /\ F \in SUBSET Block /\ h.live \in SUBSET Block
         /\ h.mem \in [Addr -> Int]
         /\ \A b, c \in h.live : b # c => Apart(b, c)
         /\ \A b, c \in h.live : b.at = c.at => b = c
  <1>1. /\ h \in HeapType /\ F \in SUBSET Block /\ h.live \in SUBSET Block
        /\ h.mem \in [Addr -> Int]
        /\ \A b, c \in h.live : b # c => Apart(b, c)
    BY DEF HeapInv, Shaped, HeapType, Placed
  <1>2. \A b, c \in h.live : b.at = c.at => b = c
    BY <1>1, ApartFacts
  <1> QED BY <1>1, <1>2

\* The three words of a descriptor are in one of its array's blocks.
LEMMA HeaderFacts ==
  ASSUME NEW h, NEW F, HeapInv(h, F), NEW d, ArrayOK(h, d)
  PROVE  /\ d \in Addr /\ d + 1 \in Addr /\ d + 2 \in Addr /\ d \in Int /\ d # Null
         /\ SlotsOf(h, d) \in Int /\ LenOf(h, d) \in Nat /\ CapOf(h, d) \in Nat
         /\ LenOf(h, d) <= CapOf(h, d)
         /\ \E b \in Home(h, d) :
              b.at = d /\ 4 <= b.size /\ Within(d, b) /\ Within(d + 1, b) /\ Within(d + 2, b)
  <1>1. PICK b \in h.live : b.at = d /\ 4 <= b.size
    BY DEF ArrayOK
  <1>2. b \in Block /\ b \in Home(h, d) /\ h.mem \in [Addr -> Int]
    BY <1>1, HeapFacts DEF Home
  <1>3. /\ d \in Addr /\ d + 1 \in Addr /\ d + 2 \in Addr /\ d \in Int /\ d # Null
        /\ b.at + b.size <= Limit /\ b.size \in Int
    <2>1. b.at \in Int /\ b.size \in Int /\ 1 <= b.at /\ b.at + b.size <= Limit
      BY <1>2, BlockFacts
    <2> QED BY <1>1, <2>1, AddrFacts DEF Null
  <1>4. SlotsOf(h, d) \in Int /\ LenOf(h, d) \in Int /\ CapOf(h, d) \in Int
    BY <1>2, <1>3 DEF SlotsOf, LenOf, CapOf
  <1>5. LenOf(h, d) \in Nat /\ CapOf(h, d) \in Nat /\ LenOf(h, d) <= CapOf(h, d)
    BY <1>4 DEF ArrayOK
  <1>6. Within(d, b) /\ Within(d + 1, b) /\ Within(d + 2, b)
    BY <1>1, <1>3 DEF Within
  <1> QED BY <1>1, <1>2, <1>3, <1>4, <1>5, <1>6

\* So are the slots, and they are none of these.
LEMMA SlotFacts ==
  ASSUME NEW h, NEW F, HeapInv(h, F), NEW d, ArrayOK(h, d)
  PROVE  /\ SlotsOf(h, d) \in Nat /\ SlotsOf(h, d) + CapOf(h, d) <= Limit
         /\ \A a \in Int : SlotsOf(h, d) <= a /\ a < SlotsOf(h, d) + CapOf(h, d) =>
              /\ a \in Addr /\ a # d /\ a # d + 1 /\ a # d + 2
              /\ \E b \in Home(h, d) : Within(a, b)
  <1> DEFINE p == SlotsOf(h, d)
             cap == CapOf(h, d)
  <1>1. /\ d \in Int /\ p \in Int /\ cap \in Nat
        /\ d \in Addr /\ d + 1 \in Addr /\ d + 2 \in Addr
    BY HeaderFacts
  <1>2. PICK b \in h.live : b.at = d /\ 4 <= b.size /\ (Inline(h, d) => Header + cap <= b.size)
    BY DEF ArrayOK
  <1>3. /\ b \in Home(h, d) /\ b \in Block /\ b.at \in Int /\ b.size \in Int
        /\ 1 <= b.at /\ b.at + b.size <= Limit
    BY <1>2, HeapFacts, BlockFacts DEF Home
  <1>4. CASE Inline(h, d)
    <2>1. p = d + 3 /\ 3 + cap <= b.size
      BY <1>2, <1>4 DEF Inline, Header
    <2> HIDE DEF p, cap
    <2>2. p \in Nat /\ p + cap <= Limit
      BY <1>1, <1>2, <1>3, <2>1, AddrFacts
    <2>3. \A a \in Int : p <= a /\ a < p + cap =>
            a \in Addr /\ a # d /\ a # d + 1 /\ a # d + 2 /\ Within(a, b)
      BY <1>1, <1>2, <1>3, <2>1, AddrFacts DEF Within
    <2> QED BY <1>3, <2>2, <2>3 DEF p, cap
  <1>5. CASE ~Inline(h, d)
    <2> DEFINE c == [at |-> p, size |-> Up(cap)]
    <2>1. c \in h.live /\ p # d
      BY <1>5 DEF ArrayOK
    <2>2. c.at = p /\ c.size = Up(cap)
      OBVIOUS
    <2> HIDE DEF c
    <2>3. c \in Home(h, d) /\ c # b
      BY <1>2, <1>5, <2>1, <2>2 DEF Home
    <2>4. /\ c \in Block /\ c.at \in Int /\ c.size \in Int
          /\ 1 <= c.at /\ c.at + c.size <= Limit /\ cap <= c.size
      BY <1>1, <2>1, <2>2, HeapFacts, BlockFacts, UpFacts
    <2>5. Apart(b, c)
      BY <2>1, <2>3, HeapFacts
    <2> HIDE DEF p, cap
    <2>6. p \in Nat /\ p + cap <= Limit
      BY <1>1, <2>2, <2>4, AddrFacts
    <2>7. \A a \in Int : p <= a /\ a < p + cap => a \in Addr /\ Within(a, c)
      BY <1>1, <2>2, <2>4, AddrFacts DEF Within
    <2>8. Within(d, b) /\ Within(d + 1, b) /\ Within(d + 2, b)
      BY <1>1, <1>2, <1>3 DEF Within
    <2>9. \A a \in Addr : Within(a, c) => a # d /\ a # d + 1 /\ a # d + 2
      BY <1>3, <2>4, <2>5, <2>8, ApartFacts
    <2> QED BY <2>3, <2>6, <2>7, <2>9 DEF p, cap
  <1> QED BY <1>4, <1>5

\* What an array holds is a sequence.
LEMMA ContentsFacts ==
  ASSUME NEW h, NEW F, HeapInv(h, F), NEW d, ArrayOK(h, d)
  PROVE  Contents(h, d) \in Seq(Int) /\ Len(Contents(h, d)) = LenOf(h, d)
  <1>1. LenOf(h, d) \in Nat /\ LenOf(h, d) <= CapOf(h, d) /\ CapOf(h, d) \in Nat
        /\ SlotsOf(h, d) \in Nat /\ h.mem \in [Addr -> Int]
    BY HeaderFacts, SlotFacts, HeapFacts
  <1>2. \A k \in 1 .. LenOf(h, d) : h.mem[SlotsOf(h, d) + k - 1] \in Int
    <2> TAKE k \in 1 .. LenOf(h, d)
    <2> DEFINE a == SlotsOf(h, d) + k - 1
    <2>1. a \in Int /\ SlotsOf(h, d) <= a /\ a < SlotsOf(h, d) + CapOf(h, d)
      BY <1>1
    <2>2. a \in Addr
      BY <2>1, SlotFacts
    <2> QED BY <1>1, <2>2
  <1> DEFINE n == LenOf(h, d)
             f(k) == h.mem[SlotsOf(h, d) + k - 1]
  <1>3. n \in Nat /\ \A k \in 1 .. n : f(k) \in Int
    BY <1>1, <1>2
  <1>4. Contents(h, d) = [k \in 1 .. n |-> f(k)]
    BY DEF Contents
  <1> HIDE DEF n, f
  <1> QED BY <1>3, <1>4 DEF n

\* An array nothing is written into and no block of which is taken back stands.
LEMMA Untouched ==
  ASSUME NEW h, NEW F, HeapInv(h, F), NEW g, NEW G, HeapInv(g, G), NEW d, ArrayOK(h, d),
         \A b \in Home(h, d) :
           b \in g.live /\ \A a \in Addr : Within(a, b) => g.mem[a] = h.mem[a]
  PROVE  /\ ArrayOK(g, d) /\ Home(g, d) = Home(h, d)
         /\ SlotsOf(g, d) = SlotsOf(h, d) /\ LenOf(g, d) = LenOf(h, d) /\ CapOf(g, d) = CapOf(h, d)
         /\ Contents(g, d) = Contents(h, d)
  <1>1. SlotsOf(g, d) = SlotsOf(h, d) /\ LenOf(g, d) = LenOf(h, d) /\ CapOf(g, d) = CapOf(h, d)
    <2>1. d \in Addr /\ d + 1 \in Addr /\ d + 2 \in Addr
      BY HeaderFacts
    <2>2. PICK b \in Home(h, d) : Within(d, b) /\ Within(d + 1, b) /\ Within(d + 2, b)
      BY HeaderFacts
    <2> QED BY <2>1, <2>2 DEF SlotsOf, LenOf, CapOf
  <1>2. Inline(g, d) <=> Inline(h, d)
    BY <1>1 DEF Inline
  <1>3. PICK b \in h.live : b.at = d /\ 4 <= b.size /\ (Inline(h, d) => Header + CapOf(h, d) <= b.size)
    BY DEF ArrayOK
  <1>4. b \in Home(h, d) /\ b \in g.live
    BY <1>3 DEF Home
  <1> DEFINE c == [at |-> SlotsOf(h, d), size |-> Up(CapOf(h, d))]
  <1>5. ~Inline(h, d) => SlotsOf(h, d) # d /\ c \in h.live /\ c \in Home(h, d) /\ c \in g.live
    BY DEF ArrayOK, Home
  <1>6. ArrayOK(g, d)
    BY <1>1, <1>2, <1>3, <1>4, <1>5 DEF ArrayOK
  <1>7. Home(g, d) = Home(h, d)
    <2>1. \A e \in g.live : e.at = d => e = b
      BY <1>3, <1>4, HeapFacts
    <2>2. ~Inline(h, d) => \A e \in g.live : e.at = SlotsOf(h, d) => e = c
      <3>1. c.at = SlotsOf(h, d)
        OBVIOUS
      <3> HIDE DEF c
      <3> QED BY <1>5, <3>1, HeapFacts
    <2> HIDE DEF c
    <2>3. Home(g, d) \subseteq Home(h, d)
      BY <1>1, <1>2, <1>4, <1>5, <2>1, <2>2 DEF Home
    <2>4. Home(h, d) \subseteq Home(g, d)
      BY <1>1, <1>2 DEF Home
    <2> QED BY <2>3, <2>4
  <1>8. Contents(g, d) = Contents(h, d)
    <2>1. /\ LenOf(h, d) \in Nat /\ CapOf(h, d) \in Nat /\ LenOf(h, d) <= CapOf(h, d)
          /\ SlotsOf(h, d) \in Nat
      BY HeaderFacts, SlotFacts
    <2>2. \A k \in 1 .. LenOf(h, d) : g.mem[SlotsOf(h, d) + k - 1] = h.mem[SlotsOf(h, d) + k - 1]
      <3> TAKE k \in 1 .. LenOf(h, d)
      <3> DEFINE a == SlotsOf(h, d) + k - 1
      <3>1. a \in Int /\ SlotsOf(h, d) <= a /\ a < SlotsOf(h, d) + CapOf(h, d)
        BY <2>1
      <3> HIDE DEF a
      <3>2. a \in Addr /\ \E e \in Home(h, d) : Within(a, e)
        BY <3>1, SlotFacts
      <3>3. g.mem[a] = h.mem[a]
        BY <3>2
      <3> QED BY <3>3 DEF a
    <2> QED BY <1>1, <2>2 DEF Contents
  <1> QED BY <1>1, <1>6, <1>7, <1>8

\* An array nothing happens to.
Stands(h, g, d) ==
  /\ Home(g, d) = Home(h, d) /\ SlotsOf(g, d) = SlotsOf(h, d)
  /\ LenOf(g, d) = LenOf(h, d) /\ Contents(g, d) = Contents(h, d)

\* The arrays that are in none of the blocks O stand where only these change.
LEMMA OthersStand ==
  ASSUME NEW h, NEW F, HeapInv(h, F), NEW g, NEW G, HeapInv(g, G), NEW D, OwnInv(h, D),
         NEW E \in SUBSET D, NEW O, \A e \in E : Home(h, e) \cap O = {},
         \A b \in h.live \ O : b \in g.live /\ \A a \in Addr : Within(a, b) => g.mem[a] = h.mem[a]
  PROVE  /\ OwnInv(g, E)
         /\ \A e \in E : Stands(h, g, e)
  <1>1. ASSUME NEW e \in E
        PROVE  ArrayOK(g, e) /\ Stands(h, g, e)
    <2>1. ArrayOK(h, e)
      BY DEF OwnInv
    <2>2. \A b \in Home(h, e) :
            b \in g.live /\ \A a \in Addr : Within(a, b) => g.mem[a] = h.mem[a]
      <3>1. \A b \in Home(h, e) : b \in h.live \ O
        BY DEF Home
      <3> QED BY <3>1
    <2> QED BY <2>1, <2>2, Untouched DEF Stands
  <1> QED BY <1>1 DEF OwnInv, Stands

\* What is made new is not what anyone has.
LEMMA NewIsNew ==
  ASSUME NEW h, NEW F, HeapInv(h, F), NEW g, NEW d, Serves(h, g, d, {}), NEW e, ArrayOK(h, e)
  PROVE  e # d
  <1> SUFFICES ASSUME e = d
               PROVE  FALSE
    OBVIOUS
  <1>1. PICK G : HeapInv(g, G)
    BY DEF Serves
  <1>2. ArrayOK(g, d)
    BY DEF Serves
  <1>3. PICK b \in Home(h, d) : b.at = d
    BY HeaderFacts
  <1>4. PICK c \in Home(g, d) : c.at = d
    BY <1>1, <1>2, HeaderFacts
  <1>5. b \in h.live /\ b \in g.live /\ c \in g.live /\ c \notin h.live
    BY <1>3, <1>4 DEF Home, Serves
  <1> QED BY <1>1, <1>3, <1>4, <1>5, HeapFacts

\* Arrays stay in blocks of their own whichever one a routine changes or makes.
LEMMA Served ==
  ASSUME NEW h, NEW F, HeapInv(h, F), NEW D, OwnInv(h, D), NEW g, NEW d, NEW O,
         Serves(h, g, d, O), (d \in D /\ O = Home(h, d)) \/ O = {}
  PROVE  /\ OwnInv(g, D \cup {d})
         /\ \A e \in D \ {d} : Stands(h, g, e)
         /\ \E G : HeapInv(g, G)
  <1>1. PICK G : HeapInv(g, G)
    BY DEF Serves
  <1> DEFINE E == D \ {d}
  <1>2. \A e \in E : Home(h, e) \cap O = {}
    BY DEF OwnInv
  <1>3. /\ OwnInv(g, E)
        /\ \A e \in E : Stands(h, g, e)
    <2>1. E \in SUBSET D
      OBVIOUS
    <2>2. \A b \in h.live \ O :
            b \in g.live /\ \A a \in Addr : Within(a, b) => g.mem[a] = h.mem[a]
      BY DEF Serves
    <2> HIDE DEF E
    <2> QED BY <1>1, <1>2, <2>1, <2>2, OthersStand
  <1>4. \A e \in E : Home(g, e) \cap Home(g, d) = {}
    BY <1>2, <1>3 DEF Serves, Home, Stands
  <1>5. ArrayOK(g, d)
    BY DEF Serves
  <1>6. OwnInv(g, D \cup {d})
    BY <1>3, <1>4, <1>5 DEF OwnInv
  <1> QED BY <1>1, <1>3, <1>6

LEMMA ServedNew ==
  ASSUME NEW h, NEW F, HeapInv(h, F), NEW D, OwnInv(h, D), NEW g, NEW d, Serves(h, g, d, {})
  PROVE  /\ OwnInv(g, D \cup {d})
         /\ \A e \in D \ {d} : Stands(h, g, e)
         /\ \E G : HeapInv(g, G)
  <1> DEFINE O == {}
  <1>1. Serves(h, g, d, O) /\ ((d \in D /\ O = Home(h, d)) \/ O = {})
    OBVIOUS
  <1> HIDE DEF O
  <1> QED BY <1>1, Served

\* Writing within an array: its slots and its length.
LEMMA WrittenWithin ==
  ASSUME NEW h, NEW F, HeapInv(h, F), NEW d, ArrayOK(h, d), NEW m \in [Addr -> Int],
         NEW g, g = [h EXCEPT !.mem = m], m[d + 1] \in 0 .. CapOf(h, d),
         \A a \in Addr : \/ m[a] = h.mem[a] \/ a = d + 1
                         \/ SlotsOf(h, d) <= a /\ a < SlotsOf(h, d) + CapOf(h, d)
  PROVE  /\ HeapInv(g, F) /\ ArrayOK(g, d) /\ Home(g, d) = Home(h, d) /\ g.live = h.live
         /\ SlotsOf(g, d) = SlotsOf(h, d) /\ LenOf(g, d) = m[d + 1] /\ CapOf(g, d) = CapOf(h, d)
         /\ WritesIn(h, g, Home(h, d))
  <1>1. h \in HeapType /\ g.mem = m /\ g.live = h.live
    BY HeapFacts DEF HeapType
  <1>2. WritesIn(h, g, Home(h, d))
    <2>1. \A a \in Addr : a \in Int
      BY AddrFacts
    <2>2. \E b \in Home(h, d) : Within(d + 1, b)
      BY HeaderFacts
    <2> QED BY <1>1, <2>1, <2>2, SlotFacts DEF WritesIn
  <1>3. HeapInv(g, F)
    <2>1. Home(h, d) \in SUBSET h.live
      BY DEF Home
    <2> QED BY <1>2, <2>1, WrittenIn
  <1>4. m[d] = h.mem[d] /\ m[d + 2] = h.mem[d + 2]
    <2>1. /\ d \in Addr /\ d + 2 \in Addr /\ d \in Int
          /\ d # d + 1 /\ d + 2 # d + 1 /\ d + 2 \in Int
      BY HeaderFacts
    <2>2. ~(SlotsOf(h, d) <= d /\ d < SlotsOf(h, d) + CapOf(h, d))
      BY <2>1, SlotFacts
    <2>3. ~(SlotsOf(h, d) <= d + 2 /\ d + 2 < SlotsOf(h, d) + CapOf(h, d))
      BY <2>1, SlotFacts
    <2> QED BY <2>1, <2>2, <2>3
  <1>5. SlotsOf(g, d) = SlotsOf(h, d) /\ LenOf(g, d) = m[d + 1] /\ CapOf(g, d) = CapOf(h, d)
    BY <1>1, <1>4 DEF SlotsOf, LenOf, CapOf
  <1>6. Inline(g, d) <=> Inline(h, d)
    BY <1>5 DEF Inline
  <1>7. ArrayOK(g, d)
    BY <1>1, <1>5, <1>6 DEF ArrayOK
  <1>8. Home(g, d) = Home(h, d)
    BY <1>1, <1>5, <1>6 DEF Home
  <1> QED BY <1>1, <1>2, <1>3, <1>5, <1>7, <1>8

\* What was served is served where the array is written afterwards.
LEMMA ServedAndWritten ==
  ASSUME NEW h, NEW F, HeapInv(h, F), NEW g, NEW d, NEW O, Serves(h, g, d, O),
         NEW w, NEW G, HeapInv(w, G), ArrayOK(w, d), Home(w, d) = Home(g, d), w.live = g.live,
         WritesIn(g, w, Home(g, d))
  PROVE  Serves(h, w, d, O)
  <1>1. Home(w, d) \cap h.live \subseteq O
    BY DEF Serves
  <1>2. ASSUME NEW b \in h.live \ O
        PROVE  b \in w.live /\ \A a \in Addr : Within(a, b) => w.mem[a] = h.mem[a]
    <2>1. b \in g.live /\ \A a \in Addr : Within(a, b) => g.mem[a] = h.mem[a]
      BY DEF Serves
    <2>2. b \notin Home(g, d)
      BY <1>1
    <2>3. PICK K : HeapInv(g, K)
      BY DEF Serves
    <2>4. \A c \in Home(g, d) : c \in Block /\ b \in Block /\ Apart(c, b)
      BY <2>1, <2>2, <2>3, HeapFacts DEF Home
    <2>5. \A a \in Addr : Within(a, b) => w.mem[a] = g.mem[a]
      BY <2>4, ApartFacts DEF WritesIn
    <2> QED BY <2>1, <2>5
  <1>3. \A b \in w.live \ h.live, c \in h.live : Apart(b, c)
    BY DEF Serves
  <1> QED BY <1>1, <1>2, <1>3 DEF Serves

\* An array is served by what it already is.
LEMMA ServedAsItIs ==
  ASSUME NEW h, NEW F, HeapInv(h, F), NEW d, ArrayOK(h, d)
  PROVE  Serves(h, h, d, Home(h, d))
  BY DEF Serves, Home

\* So is an array that is only written.
LEMMA WriteServes ==
  ASSUME NEW h, NEW F, HeapInv(h, F), NEW d, ArrayOK(h, d), NEW m \in [Addr -> Int],
         NEW g, g = [h EXCEPT !.mem = m], m[d + 1] \in 0 .. CapOf(h, d),
         \A a \in Addr : \/ m[a] = h.mem[a] \/ a = d + 1
                         \/ SlotsOf(h, d) <= a /\ a < SlotsOf(h, d) + CapOf(h, d)
  PROVE  /\ Serves(h, g, d, Home(h, d)) /\ LenOf(g, d) = m[d + 1]
         /\ Contents(g, d) = [k \in 1 .. m[d + 1] |-> m[SlotsOf(h, d) + k - 1]]
  <1>1. /\ HeapInv(g, F) /\ ArrayOK(g, d) /\ Home(g, d) = Home(h, d) /\ g.live = h.live
        /\ SlotsOf(g, d) = SlotsOf(h, d)
        /\ LenOf(g, d) = m[d + 1] /\ WritesIn(h, g, Home(h, d))
    BY WrittenWithin
  <1>2. Serves(h, h, d, Home(h, d))
    BY ServedAsItIs
  <1>3. g.mem = m
    BY HeapFacts DEF HeapType
  <1>4. Contents(g, d) = [k \in 1 .. m[d + 1] |-> m[SlotsOf(h, d) + k - 1]]
    BY <1>1, <1>3 DEF Contents
  <1>5. Serves(h, g, d, Home(h, d))
    BY <1>1, <1>2, ServedAndWritten
  <1> QED BY <1>1, <1>4, <1>5

\* Pushing onto an array that has room.
LEMMA PushedOnto ==
  ASSUME NEW h, NEW F, HeapInv(h, F), NEW d, ArrayOK(h, d), NEW s \in Seq(Int),
         LenOf(h, d) + Len(s) <= CapOf(h, d), NEW g, g = Pushed(h, d, s)
  PROVE  /\ HeapInv(g, F) /\ ArrayOK(g, d) /\ Home(g, d) = Home(h, d) /\ g.live = h.live
         /\ LenOf(g, d) = LenOf(h, d) + Len(s) /\ WritesIn(h, g, Home(h, d))
         /\ Contents(g, d) = Contents(h, d) \o s
  <1> DEFINE len == LenOf(h, d)
             p == SlotsOf(h, d)
             end == p + len
             new == len + Len(s)
             stored == [a \in Addr |-> IF a \in end .. end + Len(s) - 1 THEN s[a - end + 1]
                                       ELSE h.mem[a]]
             m == [stored EXCEPT ![d + 1] = new]
  <1>1. /\ len \in Nat /\ p \in Int /\ CapOf(h, d) \in Nat /\ d + 1 \in Addr
        /\ Len(s) \in Nat /\ new \in 0 .. CapOf(h, d)
    BY HeaderFacts
  <1>2. h \in HeapType /\ h.mem \in [Addr -> Int] /\ \A a \in Addr : a \in Int
    BY HeapFacts, AddrFacts
  <1>3. g = [h EXCEPT !.mem = m]
    BY DEF Pushed, LenOf, SlotsOf
  <1>4. stored \in [Addr -> Int]
    <2> SUFFICES ASSUME NEW a \in Addr
                 PROVE  stored[a] \in Int
      OBVIOUS
    <2>1. CASE a \in end .. end + Len(s) - 1
      <3>1. a - end + 1 \in 1 .. Len(s)
        BY <1>1, <1>2, <2>1
      <3>2. s[a - end + 1] \in Int
        BY <3>1
      <3> QED BY <2>1, <3>2
    <2>2. CASE ~(a \in end .. end + Len(s) - 1)
      BY <1>2, <2>2
    <2> QED BY <2>1, <2>2
  <1>5. \A a \in Addr : stored[a] = h.mem[a] \/ (p <= a /\ a < p + CapOf(h, d))
    <2> SUFFICES ASSUME NEW a \in Addr, a \in end .. end + Len(s) - 1
                 PROVE  p <= a /\ a < p + CapOf(h, d)
      OBVIOUS
    <2>1. a \in Int /\ end <= a /\ a <= end + Len(s) - 1 /\ len + Len(s) <= CapOf(h, d)
      BY <1>1, <1>2
    <2> HIDE DEF p, len
    <2> QED BY <1>1, <2>1
  <1> HIDE DEF stored
  <1>6. m \in [Addr -> Int] /\ m[d + 1] = new
    BY <1>1, <1>4
  <1>7. \A a \in Addr : m[a] = h.mem[a] \/ a = d + 1 \/ (p <= a /\ a < p + CapOf(h, d))
    BY <1>4, <1>5
  <1> HIDE DEF m
  <1>8. m[d + 1] \in 0 .. CapOf(h, d)
    BY <1>1, <1>6
  <1>9. g.mem = m
    BY <1>2, <1>3 DEF HeapType
  <1>10. /\ HeapInv(g, F) /\ ArrayOK(g, d) /\ Home(g, d) = Home(h, d) /\ g.live = h.live
         /\ SlotsOf(g, d) = p /\ LenOf(g, d) = new /\ WritesIn(h, g, Home(h, d))
    BY <1>3, <1>6, <1>7, <1>8, WrittenWithin
  <1> DEFINE old == Contents(h, d)
  <1>11. old \in Seq(Int) /\ Len(old) = len /\ \A k \in 1 .. len : old[k] = h.mem[p + k - 1]
    <2>1. \A k \in 1 .. len : old[k] = h.mem[p + k - 1]
      BY DEF Contents
    <2> QED BY <2>1, ContentsFacts
  <1>12. \A k \in 1 .. new : p + k - 1 \in Addr /\ p + k - 1 # d + 1
    <2> TAKE k \in 1 .. new
    <2> DEFINE a == p + k - 1
    <2>1. a \in Int /\ p <= a /\ a < p + CapOf(h, d)
      <3> HIDE DEF p, len
      <3> QED BY <1>1
    <2> QED BY <2>1, SlotFacts
  <1> HIDE DEF p, len, old
  <1>13. \A k \in 1 .. new : g.mem[p + k - 1] = IF k <= len THEN old[k] ELSE s[k - len]
    <2> TAKE k \in 1 .. new
    <2>1. g.mem[p + k - 1] = stored[p + k - 1]
      BY <1>1, <1>4, <1>9, <1>12 DEF m
    <2>2. CASE k <= len
      <3>1. k \in 1 .. len /\ ~(p + k - 1 \in end .. end + Len(s) - 1)
        BY <1>1, <2>2
      <3> QED BY <1>11, <1>12, <2>1, <2>2, <3>1 DEF stored
    <2>3. CASE ~(k <= len)
      <3>1. p + k - 1 \in end .. end + Len(s) - 1 /\ (p + k - 1) - end + 1 = k - len
        BY <1>1, <2>3
      <3> QED BY <1>12, <2>1, <2>3, <3>1 DEF stored
    <2> QED BY <2>2, <2>3
  <1>14. Contents(g, d) = old \o s
    <2>1. Contents(g, d) = [k \in 1 .. new |-> IF k <= len THEN old[k] ELSE s[k - len]]
      BY <1>10, <1>13 DEF Contents
    <2>2. /\ old \o s \in Seq(Int) /\ Len(old \o s) = new
          /\ \A k \in 1 .. new : (old \o s)[k] = IF k <= len THEN old[k] ELSE s[k - len]
      BY <1>11, ConcatProperties
    <2> DEFINE t == old \o s
    <2>3. /\ t \in Seq(Int) /\ Len(t) = new
          /\ \A k \in 1 .. new : t[k] = IF k <= len THEN old[k] ELSE s[k - len]
      BY <2>2
    <2> HIDE DEF t
    <2>4. t = [k \in 1 .. new |-> t[k]]
      BY <2>3, AsFunction
    <2>5. t = [k \in 1 .. new |-> IF k <= len THEN old[k] ELSE s[k - len]]
      BY <2>3, <2>4
    <2> QED BY <2>1, <2>5 DEF t
  <1> QED BY <1>10, <1>14 DEF old, len

\* An array's slots go back, and its descriptor stays.
LEMMA SlotsTakenBack ==
  ASSUME NEW h, NEW F, HeapInv(h, F), NEW d, ArrayOK(h, d), NEW g, g = SlotsBack(h, d)
  PROVE  \E G, B : /\ HeapInv(g, G) /\ B \in SUBSET Home(h, d) /\ \A b \in B : b.at # d
                   /\ g.live = h.live \ B /\ WritesIn(h, g, B)
  <1>1. CASE Inline(h, d)
    <2>1. g = h
      BY <1>1 DEF SlotsBack
    <2>2. WritesIn(h, g, {})
      BY <2>1 DEF WritesIn
    <2>3. g.live = h.live \ {}
      BY <2>1
    <2> QED BY <2>1, <2>2, <2>3
  <1>2. CASE ~Inline(h, d)
    <2> DEFINE p == SlotsOf(h, d)
               cap == CapOf(h, d)
               c == [at |-> p, size |-> Up(cap)]
    <2>1. g = RT_FREE(h, p, cap)
      BY <1>2 DEF SlotsBack
    <2>2. c \in h.live /\ p # d /\ cap \in Nat
      BY <1>2, HeaderFacts DEF ArrayOK
    <2>3. c \in Home(h, d) /\ c.at = p
      BY <1>2, <2>2 DEF Home
    <2> HIDE DEF p, cap
    <2>4. HeapInv(g, F \cup {c}) /\ g.live = h.live \ {c} /\ WritesIn(h, g, {c})
      BY <2>1, <2>2, TakenBack
    <2> HIDE DEF c
    <2> QED BY <2>2, <2>3, <2>4
  <1> QED BY <1>1, <1>2

\* The two halves of growing an array: its elements are copied into the block b,
\* and its descriptor says that they are there.
CopiedInto(h, d, b) ==
  [b.heap EXCEPT !.mem = [a \in Addr |-> IF a \in b.at .. b.at + LenOf(h, d) - 1
                                         THEN h.mem[SlotsOf(h, d) + a - b.at] ELSE @[a]]]
MovedTo(h, d, b, cap) == [h EXCEPT !.mem = [@ EXCEPT ![d] = b.at, ![d + 2] = cap]]

\* The elements go into a block with more room, and the slots they leave go back.
LEMMA GrownServes ==
  ASSUME NEW h, NEW F, HeapInv(h, F), NEW d, ArrayOK(h, d),
         NEW cap \in Nat \ {0}, LenOf(h, d) <= cap, NEW b \in RT_ALLOC(h, cap),
         NEW full, full = CopiedInto(h, d, b), NEW freed, freed = SlotsBack(full, d),
         NEW g, g = MovedTo(freed, d, b, cap)
  PROVE  /\ Serves(h, g, d, Home(h, d))
         /\ LenOf(g, d) = LenOf(h, d) /\ CapOf(g, d) = cap /\ Contents(g, d) = Contents(h, d)
  <1> DEFINE len == LenOf(h, d)
             p == SlotsOf(h, d)
             B == [at |-> b.at, size |-> Up(cap)]
             m == [a \in Addr |-> IF a \in b.at .. b.at + len - 1 THEN h.mem[p + a - b.at]
                                  ELSE b.heap.mem[a]]
  <1>1. PICK G1 : HeapInv(b.heap, G1) /\ HandsOut(h, b.heap, B)
    BY Allocated
  <1>2. B.at = b.at /\ B.size = Up(cap)
    OBVIOUS
  <1> HIDE DEF B
  <1>3. /\ B \in Block /\ b.heap.live = h.live \cup {B} /\ b.heap.mem = h.mem
        /\ \A c \in h.live : Apart(B, c) /\ c # B
    <2>1. /\ B \in Block /\ b.heap.live = h.live \cup {B} /\ b.heap.mem = h.mem
          /\ \A c \in h.live : Apart(B, c)
      BY <1>1 DEF HandsOut
    <2>2. \A c \in h.live : c # B
      BY <2>1, HeapFacts, ApartFacts
    <2> QED BY <2>1, <2>2
  <1>4. /\ b.at \in Int /\ cap <= Up(cap) /\ Up(cap) \in Nat /\ B.at \in Addr
    BY <1>2, <1>3, BlockFacts, UpFacts
  <1>5. /\ len \in Nat /\ p \in Nat /\ d \in Addr /\ d + 1 \in Addr /\ d + 2 \in Addr /\ d \in Int
        /\ h.mem \in [Addr -> Int] /\ len <= CapOf(h, d) /\ CapOf(h, d) \in Nat
        /\ len <= cap /\ cap \in Nat
    BY HeaderFacts, SlotFacts, HeapFacts
  <1>6. full = [b.heap EXCEPT !.mem = m]
    BY DEF CopiedInto
  <1>7. m \in [Addr -> Int]
    <2> SUFFICES ASSUME NEW a \in Addr
                 PROVE  m[a] \in Int
      OBVIOUS
    <2>1. CASE a \in b.at .. b.at + len - 1
      <3>1. p + a - b.at \in Int /\ p <= p + a - b.at /\ p + a - b.at < p + CapOf(h, d)
        <4> HIDE DEF p, len
        <4> QED BY <1>4, <1>5, <2>1
      <3>2. p + a - b.at \in Addr
        BY <3>1, SlotFacts
      <3> QED BY <1>5, <2>1, <3>2
    <2>2. CASE ~(a \in b.at .. b.at + len - 1)
      BY <1>3, <1>5, <2>2
    <2> QED BY <2>1, <2>2
  <1>8. \A a \in Addr : m[a] = h.mem[a] \/ Within(a, B)
    <2> SUFFICES ASSUME NEW a \in Addr, a \in b.at .. b.at + len - 1
                 PROVE  Within(a, B)
      BY <1>3
    <2> HIDE DEF p, len
    <2> QED BY <1>2, <1>4, <1>5 DEF Within
  <1> HIDE DEF m
  <1>9. HeapInv(full, G1) /\ full.live = h.live \cup {B} /\ full.mem = m
    <2>1. full.live = h.live \cup {B} /\ full.mem = m
      BY <1>1, <1>3, <1>6, HeapFacts DEF HeapType
    <2>2. WritesIn(b.heap, full, {B}) /\ {B} \in SUBSET b.heap.live
      BY <1>3, <1>8, <2>1 DEF WritesIn
    <2> QED BY <1>1, <1>6, <1>7, <2>1, <2>2, WrittenIn
  <1>10. /\ ArrayOK(full, d) /\ Home(full, d) = Home(h, d)
         /\ LenOf(full, d) = len
    <2>1. \A c \in Home(h, d) : c \in full.live /\ \A a \in Addr : Within(a, c) => full.mem[a] = h.mem[a]
      <3> TAKE c \in Home(h, d)
      <3>1. c \in h.live /\ c \in Block /\ Apart(B, c)
        BY <1>3, HeapFacts DEF Home
      <3> QED BY <1>3, <1>8, <1>9, <3>1, ApartFacts
    <2>2. /\ ArrayOK(full, d) /\ Home(full, d) = Home(h, d)
          /\ LenOf(full, d) = LenOf(h, d)
      BY <1>9, <2>1, Untouched
    <2> QED BY <2>2
  <1>11. PICK G, Old : /\ HeapInv(freed, G) /\ Old \in SUBSET Home(h, d)
                       /\ \A c \in Old : c.at # d
                       /\ freed.live = full.live \ Old /\ WritesIn(full, freed, Old)
    BY <1>9, <1>10, SlotsTakenBack
  <1>12. PICK c \in Home(h, d) : /\ c.at = d /\ 4 <= c.size
                                 /\ Within(d, c) /\ Within(d + 1, c) /\ Within(d + 2, c)
    BY HeaderFacts
  <1>13. c \in h.live /\ c \in Block /\ c \notin Old /\ c \in freed.live /\ B \in freed.live
    BY <1>3, <1>9, <1>11, <1>12, HeapFacts DEF Home
  <1> DEFINE n == [freed.mem EXCEPT ![d] = b.at, ![d + 2] = cap]
  <1>14. n \in [Addr -> Int] /\ n[d] = b.at /\ n[d + 2] = cap /\ n[d + 1] = freed.mem[d + 1]
    <2>1. freed.mem \in [Addr -> Int]
      BY <1>11, HeapFacts
    <2>2. /\ d \in Addr /\ d + 2 \in Addr /\ d + 1 \in Addr /\ b.at \in Int /\ cap \in Int
          /\ d # d + 1 /\ d # d + 2 /\ d + 1 # d + 2
      BY <1>4, <1>5
    <2> QED BY <2>1, <2>2
  <1>15. \A a \in Addr : n[a] = freed.mem[a] \/ Within(a, c)
    <2>1. freed.mem \in [Addr -> Int]
      BY <1>11, HeapFacts
    <2> QED BY <1>12, <2>1
  <1>16. g = [freed EXCEPT !.mem = n] /\ g.mem = n /\ g.live = freed.live
    <2>1. freed \in HeapType
      BY <1>11, HeapFacts
    <2> QED BY <2>1 DEF HeapType, MovedTo
  <1> HIDE DEF n
  <1>17. HeapInv(g, G)
    <2>1. WritesIn(freed, g, {c}) /\ {c} \in SUBSET freed.live
      BY <1>13, <1>15, <1>16 DEF WritesIn
    <2> QED BY <1>11, <1>14, <1>16, <2>1, WrittenIn
  <1>18. SlotsOf(g, d) = b.at /\ LenOf(g, d) = len /\ CapOf(g, d) = cap
    <2>1. freed.mem[d + 1] = full.mem[d + 1]
      <3>1. \A o \in Old : o \in Block /\ Apart(c, o)
        BY <1>11, <1>13, HeapFacts DEF Home
      <3> QED BY <1>5, <1>11, <1>12, <1>13, <3>1, ApartFacts DEF WritesIn
    <2>2. full.mem[d + 1] = len
      BY <1>10 DEF LenOf
    <2> QED BY <1>14, <1>16, <2>1, <2>2 DEF SlotsOf, LenOf, CapOf
  <1>19. ~Inline(g, d) /\ b.at # d
    <2>1. Apart(B, c)
      BY <1>3, <1>13
    <2>2. c.at \in Int /\ c.size \in Int /\ B.size \in Int /\ 2 <= B.size
      BY <1>3, <1>13, BlockFacts
    <2>3. b.at # d + 3 /\ b.at # d
      BY <1>2, <1>4, <1>5, <1>12, <2>1, <2>2 DEF Apart
    <2> QED BY <1>18, <2>3 DEF Inline, Header
  <1>20. ArrayOK(g, d)
    <2>1. LenOf(g, d) \in 0 .. CapOf(g, d)
      <3>1. len \in 0 .. cap
        <4> HIDE DEF len
        <4> QED BY <1>5
      <3> QED BY <1>18, <3>1
    <2>2. [at |-> SlotsOf(g, d), size |-> Up(CapOf(g, d))] \in g.live
      BY <1>13, <1>16, <1>18 DEF B
    <2> QED BY <1>12, <1>13, <1>16, <1>18, <1>19, <2>1, <2>2 DEF ArrayOK
  <1>21. Home(g, d) \cap h.live \subseteq Home(h, d)
    <2> SUFFICES ASSUME NEW e \in h.live, e \in g.live, e.at = d \/ e.at = b.at
                 PROVE  e \in Home(h, d)
      BY <1>18 DEF Home
    <2>1. e.at # b.at
      BY <1>2, <1>3, HeapFacts, ApartFacts
    <2>2. e = c
      BY <1>12, <1>13, <2>1, HeapFacts
    <2> QED BY <1>12, <2>2
  <1>22. ASSUME NEW e \in h.live \ Home(h, d)
         PROVE  e \in g.live /\ \A a \in Addr : Within(a, e) => g.mem[a] = h.mem[a]
    <2>1. e \in g.live
      BY <1>9, <1>11, <1>16
    <2>2. e \in Block /\ Apart(B, e) /\ Apart(c, e) /\ \A o \in Old : o \in Block /\ Apart(o, e)
      BY <1>3, <1>11, <1>12, <1>13, HeapFacts DEF Home
    <2>3. \A a \in Addr : Within(a, e) => full.mem[a] = h.mem[a]
      BY <1>3, <1>8, <1>9, <2>2, ApartFacts
    <2>4. \A a \in Addr : Within(a, e) => freed.mem[a] = full.mem[a]
      BY <1>11, <2>2, ApartFacts DEF WritesIn
    <2>5. \A a \in Addr : Within(a, e) => g.mem[a] = freed.mem[a]
      BY <1>13, <1>15, <1>16, <2>2, ApartFacts
    <2> QED BY <2>1, <2>3, <2>4, <2>5
  <1>23. \A e \in g.live \ h.live, f \in h.live : Apart(e, f)
    <2> SUFFICES ASSUME NEW e \in g.live \ h.live, NEW f \in h.live
                 PROVE  Apart(e, f)
      OBVIOUS
    <2>1. e = B
      BY <1>9, <1>11, <1>16
    <2> QED BY <1>3, <2>1
  <1>24. Serves(h, g, d, Home(h, d))
    BY <1>17, <1>20, <1>21, <1>22, <1>23 DEF Serves
  <1>25. \A k \in 1 .. len : g.mem[b.at + k - 1] = h.mem[p + k - 1]
    <2> TAKE k \in 1 .. len
    <2> DEFINE a == b.at + k - 1
    <2>1. /\ a \in Int /\ b.at <= a /\ a < b.at + Up(cap) /\ a \in b.at .. b.at + len - 1
          /\ p + a - b.at = p + k - 1 /\ 1 <= b.at /\ b.at + Up(cap) <= Limit
      <3>1. 1 <= b.at /\ b.at + Up(cap) <= Limit
        BY <1>2, <1>3, BlockFacts
      <3> HIDE DEF len, p
      <3> QED BY <1>4, <1>5, <3>1
    <2> HIDE DEF a
    <2>2. a \in Addr /\ Within(a, B)
      BY <1>2, <1>4, <2>1, AddrFacts DEF Within
    <2>3. m[a] = h.mem[p + k - 1]
      BY <2>1, <2>2 DEF m
    <2>4. Apart(c, B) /\ \A o \in Old : o \in Block /\ Apart(B, o)
      <3>1. \A o \in Old : o \in h.live
        BY <1>11 DEF Home
      <3>2. B # c /\ B \in freed.live
        BY <1>3, <1>13
      <3> QED BY <1>3, <1>11, <1>13, <3>1, <3>2, HeapFacts
    <2>5. freed.mem[a] = full.mem[a]
      BY <1>3, <1>11, <2>2, <2>4, ApartFacts DEF WritesIn
    <2>6. n[a] = freed.mem[a]
      BY <1>3, <1>13, <1>15, <2>2, <2>4, ApartFacts
    <2> QED BY <1>9, <1>16, <2>3, <2>5, <2>6 DEF a
  <1>26. Contents(g, d) = Contents(h, d)
    BY <1>18, <1>25 DEF Contents
  <1> QED BY <1>18, <1>24, <1>26

\* Pushing one element, onto an array with room or without.
LEMMA PushServes ==
  ASSUME NEW h, NEW F, HeapInv(h, F), NEW d, ArrayOK(h, d), NEW x \in Int,
         NEW g \in RT_ARRPUSH(h, d, x)
  PROVE  /\ Serves(h, g, d, Home(h, d)) /\ LenOf(g, d) = LenOf(h, d) + 1
         /\ Contents(g, d) = Contents(h, d) \o <<x>>
  <1> DEFINE len == LenOf(h, d)
             cap == CapOf(h, d)
             more == GrownCap(cap)
             s == <<x>>
  <1>1. len \in Nat /\ cap \in Nat /\ len <= cap
    BY HeaderFacts
  <1>2. more \in Nat \ {0} /\ cap + 1 <= more
    <2> HIDE DEF cap
    <2> QED BY <1>1, ArraysAssumption DEF GrownCap, Longer
  <1>3. s \in Seq(Int) /\ Len(s) = 1
    OBVIOUS
  <1>4. PICK room : /\ g = Pushed(room, d, s)
                    /\ \/ len < cap /\ room = h
                       \/ /\ ~(len < cap)
                          /\ \E b \in RT_ALLOC(h, more) :
                               room = MovedTo(SlotsBack(CopiedInto(h, d, b), d), d, b, more)
    BY Zenon DEF RT_ARRPUSH, MovedTo, CopiedInto
  <1> HIDE DEF s
  <1>5. /\ Serves(h, room, d, Home(h, d)) /\ LenOf(room, d) = len
        /\ LenOf(room, d) + 1 <= CapOf(room, d) /\ Contents(room, d) = Contents(h, d)
    <2>1. CASE len < cap /\ room = h
      <3>1. Serves(h, h, d, Home(h, d))
        BY ServedAsItIs
      <3> QED BY <1>1, <2>1, <3>1
    <2>2. CASE ~(len < cap)
      <3>1. PICK b \in RT_ALLOC(h, more) :
              room = MovedTo(SlotsBack(CopiedInto(h, d, b), d), d, b, more)
        BY <1>4, <2>2
      <3>2. LenOf(h, d) <= more
        BY <1>1, <1>2
      <3> HIDE DEF more
      <3>3. Serves(h, room, d, Home(h, d)) /\ LenOf(room, d) = LenOf(h, d) /\ CapOf(room, d) = more
            /\ Contents(room, d) = Contents(h, d)
        BY <1>2, <3>1, <3>2, GrownServes
      <3>4. len + 1 <= more
        <4> HIDE DEF len, cap
        <4> QED BY <1>1, <1>2
      <3> QED BY <3>3, <3>4
    <2> QED BY <1>4, <2>1, <2>2
  <1>6. PICK G : HeapInv(room, G)
    BY <1>5 DEF Serves
  <1>7. ArrayOK(room, d)
    BY <1>5 DEF Serves
  <1>8. LenOf(room, d) + Len(s) <= CapOf(room, d)
    BY <1>3, <1>5
  <1>9. /\ HeapInv(g, G) /\ ArrayOK(g, d) /\ Home(g, d) = Home(room, d) /\ g.live = room.live
        /\ LenOf(g, d) = LenOf(room, d) + Len(s) /\ WritesIn(room, g, Home(room, d))
        /\ Contents(g, d) = Contents(room, d) \o s
    <2>1. g = Pushed(room, d, s)
      BY <1>4
    <2>2. s \in Seq(Int)
      BY <1>3
    <2> HIDE DEF len, cap, more
    <2>3. HeapInv(room, G)
      BY <1>6
    <2> QED BY <1>7, <1>8, <2>1, <2>2, <2>3, PushedOnto
  <1>10. Serves(h, g, d, Home(h, d))
    BY <1>5, <1>9, ServedAndWritten
  <1> QED BY <1>3, <1>5, <1>9, <1>10 DEF s

\* An array that is made has a block nobody had.
LEMMA NewServes ==
  ASSUME NEW h, NEW F, HeapInv(h, F), NEW cap \in Nat, NEW r \in RT_ARRNEW(h, cap)
  PROVE  /\ Serves(h, r.heap, r.at, {}) /\ r.at \in Addr /\ r.at # Null
         /\ LenOf(r.heap, r.at) = 0 /\ CapOf(r.heap, r.at) = cap
  <1>1. PICK b \in RT_ALLOC(h, cap + Header) :
          r = [at |-> b.at,
               heap |-> [b.heap EXCEPT !.mem = [@ EXCEPT ![b.at] = b.at + Header,
                                                        ![b.at + 1] = 0, ![b.at + 2] = cap]]]
    BY DEF RT_ARRNEW
  <1> DEFINE d == b.at
             size == cap + Header
             B == [at |-> d, size |-> Up(size)]
             m == [b.heap.mem EXCEPT ![d] = d + Header, ![d + 1] = 0, ![d + 2] = cap]
             g == r.heap
  <1>2. size \in Nat \ {0} /\ size = cap + 3
    BY DEF Header
  <1>3. PICK G : HeapInv(b.heap, G) /\ HandsOut(h, b.heap, B)
    BY <1>2, Allocated
  <1>4. B.at = d /\ B.size = Up(size) /\ r.at = d /\ g = [b.heap EXCEPT !.mem = m]
    BY <1>1
  <1> HIDE DEF B, g
  <1>5. /\ B \in Block /\ b.heap.live = h.live \cup {B} /\ b.heap.mem = h.mem
        /\ h.mem \in [Addr -> Int] /\ b.heap \in HeapType
        /\ \A c \in h.live : Apart(B, c)
    BY <1>3, HeapFacts DEF HandsOut
  <1>6. B.size \in Int /\ 4 <= B.size /\ cap + 3 <= B.size
    <2>1. Up(size) \in Nat /\ size <= Up(size) /\ Up(size) % 2 = 0
      BY <1>2, UpFacts
    <2> HIDE DEF size
    <2> QED BY <1>2, <1>4, <2>1
  <1>7. /\ d \in Addr /\ d + 1 \in Addr /\ d + 2 \in Addr /\ d \in Int /\ d # Null
        /\ Within(d, B) /\ Within(d + 1, B) /\ Within(d + 2, B)
    <2>1. B.at \in Int /\ 1 <= B.at /\ B.at + B.size <= Limit
      BY <1>5, BlockFacts
    <2> QED BY <1>4, <1>6, <2>1, AddrFacts DEF Within, Null
  <1> HIDE DEF d
  <1>8. /\ m \in [Addr -> Int] /\ m[d] = d + 3 /\ m[d + 1] = 0 /\ m[d + 2] = cap
        /\ \A a \in Addr : m[a] = h.mem[a] \/ Within(a, B)
    <2>1. d # d + 1 /\ d # d + 2 /\ d + 1 # d + 2 /\ d + 3 \in Int /\ cap \in Int
      BY <1>7
    <2> QED BY <1>5, <1>7, <2>1 DEF Header
  <1> HIDE DEF m
  <1>9. g.mem = m /\ g.live = h.live \cup {B}
    BY <1>4, <1>5 DEF HeapType
  <1>10. HeapInv(g, G)
    <2>1. WritesIn(b.heap, g, {B}) /\ {B} \in SUBSET b.heap.live
      BY <1>5, <1>8, <1>9 DEF WritesIn
    <2> QED BY <1>3, <1>4, <1>8, <2>1, WrittenIn
  <1>11. LenOf(g, d) = 0 /\ CapOf(g, d) = cap /\ SlotsOf(g, d) = d + 3
    BY <1>8, <1>9 DEF LenOf, CapOf, SlotsOf
  <1>12. Inline(g, d)
    BY <1>11 DEF Inline, Header
  <1>13. ArrayOK(g, d)
    BY <1>4, <1>6, <1>9, <1>11, <1>12 DEF ArrayOK, Header
  <1>14. \A c \in h.live : c \in Block /\ c.at # d
    BY <1>4, <1>5, HeapFacts, ApartFacts
  <1>15. Home(g, d) \cap h.live = {}
    BY <1>12, <1>14 DEF Home
  <1>16. \A c \in h.live : c \in g.live /\ \A a \in Addr : Within(a, c) => g.mem[a] = h.mem[a]
    BY <1>5, <1>8, <1>9, <1>14, ApartFacts
  <1>17. \A e \in g.live \ h.live, c \in h.live : Apart(e, c)
    BY <1>5, <1>9
  <1>18. Serves(h, g, d, {})
    BY <1>10, <1>13, <1>15, <1>16, <1>17 DEF Serves
  <1> QED BY <1>4, <1>7, <1>11, <1>18 DEF g

\* And so has one that is made of elements.
LEMMA FreshServes ==
  ASSUME NEW h, NEW F, HeapInv(h, F), NEW cap \in Nat, NEW s \in Seq(Int), Len(s) <= cap,
         NEW r \in Fresh(h, cap, s)
  PROVE  /\ Serves(h, r.heap, r.at, {}) /\ r.at \in Addr /\ r.at # Null
         /\ LenOf(r.heap, r.at) = Len(s) /\ Contents(r.heap, r.at) = s
  <1>1. PICK b \in RT_ARRNEW(h, cap) : r = [at |-> b.at, heap |-> Pushed(b.heap, b.at, s)]
    BY DEF Fresh
  <1>2. /\ Serves(h, b.heap, b.at, {}) /\ b.at \in Addr /\ b.at # Null
        /\ LenOf(b.heap, b.at) = 0 /\ CapOf(b.heap, b.at) = cap
    BY NewServes
  <1>3. PICK G : HeapInv(b.heap, G)
    BY <1>2 DEF Serves
  <1>4. ArrayOK(b.heap, b.at)
    BY <1>2 DEF Serves
  <1>5. r.at = b.at /\ r.heap = Pushed(b.heap, b.at, s)
    BY <1>1
  <1>6. LenOf(b.heap, b.at) + Len(s) <= CapOf(b.heap, b.at) /\ 0 + Len(s) = Len(s)
    BY <1>2
  <1>7. /\ HeapInv(r.heap, G) /\ ArrayOK(r.heap, b.at) /\ Home(r.heap, b.at) = Home(b.heap, b.at)
        /\ r.heap.live = b.heap.live
        /\ LenOf(r.heap, b.at) = LenOf(b.heap, b.at) + Len(s)
        /\ WritesIn(b.heap, r.heap, Home(b.heap, b.at))
        /\ Contents(r.heap, b.at) = Contents(b.heap, b.at) \o s
    BY <1>3, <1>4, <1>5, <1>6, PushedOnto
  <1>8. Serves(h, r.heap, b.at, {})
    BY <1>2, <1>7, ServedAndWritten
  <1>9. Contents(b.heap, b.at) \o s = s
    <2>1. Contents(b.heap, b.at) \in Seq(Int) /\ Len(Contents(b.heap, b.at)) = 0
      BY <1>2, <1>3, <1>4, ContentsFacts
    <2>2. Contents(b.heap, b.at) = <<>>
      BY <2>1, EmptySeq
    <2> QED BY <2>2, ConcatEmptySeq
  <1> QED BY <1>2, <1>5, <1>6, <1>7, <1>8, <1>9

-----------------------------------------------------------------------------
\* The invariant of a program.

\* A walk, with what its array held when it began.
Taken == Seq(Int)
Walk == [name : Name, desc : Addr, at : Nat, took : Taken]

NamesInv ==
  /\ names \in [Name -> Addr]
  /\ \A n, m \in Name : names[n] = names[m] => names[n] = Null \/ n = m

\* A name that holds what a walk took is the name it took it from.
WalksInv ==
  /\ walks \in Seq(Walk)
  /\ \A k \in DOMAIN walks :
       /\ walks[k].desc # Null /\ walks[k].at <= LenOf(heap, walks[k].desc)
       /\ \A n \in Name : names[n] = walks[k].desc => n = walks[k].name

\* What a join is still to read is in the words there are, if in no block that
\* anybody has, and what it writes is a name's.
JoinInv ==
  /\ joining \in [dst : Addr, len : Nat, slots : Nat, n : Nat, ix : Nat]
  /\ joining.ix <= joining.n /\ joining.slots + joining.n <= Limit
  /\ Idle \/ \E n \in Name : Has(n) /\ names[n] = joining.dst

ProgramInv ==
  /\ (\E F : HeapInv(heap, F)) /\ OwnInv(heap, InUse)
  /\ NamesInv /\ WalksInv /\ JoinInv

LEMMA Used ==
  ASSUME NamesInv, WalksInv
  PROVE  /\ \A n \in Name : Has(n) => names[n] \in InUse
         /\ \A k \in DOMAIN walks : walks[k] \in Walk /\ walks[k].desc \in InUse
         /\ \A d \in InUse : \/ \E n \in Name : Has(n) /\ names[n] = d
                             \/ \E k \in DOMAIN walks : walks[k].desc = d
  <1>1. \A k \in DOMAIN walks : walks[k] \in Walk
    BY DEF WalksInv
  <1> QED BY <1>1 DEF InUse, Has, Null

\* What is handed out in a step shares no word with what anyone has.
Handed == H!HandOutAndTakeBack

LEMMA ServesHands ==
  ASSUME NEW F, HeapInv(heap, F), NEW d, NEW O, Serves(heap, heap', d, O)
  PROVE  Handed
  <1> SUFFICES ASSUME NEW b \in heap'.live \ heap.live,
                      NEW c \in heap.live \cup heap'.live, c # b
               PROVE  H!Words(b) \cap H!Words(c) = {}
    BY DEF Handed, H!HandOutAndTakeBack
  <1>1. PICK G : HeapInv(heap', G)
    BY DEF Serves
  <1>2. b \in Block /\ c \in Block
    BY <1>1, HeapFacts
  <1>3. Apart(b, c)
    <2>1. CASE c \in heap.live
      BY <2>1 DEF Serves
    <2>2. CASE c \in heap'.live
      BY <1>1, <2>2, HeapFacts
    <2> QED BY <2>1, <2>2
  <1>4. b.at \in Int /\ b.size \in Int /\ c.at \in Int /\ c.size \in Int
    BY <1>2, BlockFacts
  <1> QED BY <1>3, <1>4 DEF Apart, H!Words

LEMMA NothingHanded ==
  ASSUME heap'.live \subseteq heap.live
  PROVE  Handed
  BY DEF Handed, H!HandOutAndTakeBack

\* Changing the array a name holds.
LEMMA ChangeKeeps ==
  ASSUME ProgramInv, NEW d \in InUse, Serves(heap, heap', d, Home(heap, d)),
         UNCHANGED <<names, walks>>,
         \A k \in DOMAIN walks : walks[k].desc = d => walks[k].at <= LenOf(heap', d),
         JoinInv'
  PROVE  ProgramInv' /\ Handed
  <1>1. PICK F : HeapInv(heap, F)
    BY DEF ProgramInv
  <1>2. OwnInv(heap, InUse) /\ NamesInv /\ WalksInv
    BY DEF ProgramInv
  <1>3. /\ OwnInv(heap', InUse \cup {d})
        /\ \A e \in InUse \ {d} : Stands(heap, heap', e)
        /\ \E G : HeapInv(heap', G)
    BY <1>1, <1>2, Served
  <1>4. InUse' = InUse \cup {d}
    BY DEF InUse
  <1>5. WalksInv'
    <2>1. \A k \in DOMAIN walks : walks[k].desc \in InUse
      BY <1>2, Used
    <2>2. \A k \in DOMAIN walks : walks[k].at <= LenOf(heap', walks[k].desc)
      BY <1>2, <1>3, <2>1 DEF WalksInv, Stands
    <2> QED BY <1>2, <2>2 DEF WalksInv
  <1>6. NamesInv'
    BY <1>2 DEF NamesInv
  <1>7. OwnInv(heap', InUse')
    BY <1>3, <1>4
  <1>8. Handed
    BY <1>1, ServesHands
  <1> QED BY <1>3, <1>5, <1>6, <1>7, <1>8 DEF ProgramInv

\* Giving a name an array that is made new.
LEMMA GetsKeeps ==
  ASSUME ProgramInv, Idle, NEW n \in Name, NEW d \in Addr, d # Null, Serves(heap, heap', d, {}),
         names' = [names EXCEPT ![n] = d], UNCHANGED <<walks, joining>>
  PROVE  ProgramInv' /\ Handed
  <1>1. PICK F : HeapInv(heap, F)
    BY DEF ProgramInv
  <1>2. OwnInv(heap, InUse) /\ NamesInv /\ WalksInv /\ JoinInv
    BY DEF ProgramInv
  <1>3. \A e \in InUse : e # d
    BY <1>1, <1>2, NewIsNew DEF OwnInv
  <1>4. /\ OwnInv(heap', InUse \cup {d})
        /\ \A e \in InUse \ {d} : Stands(heap, heap', e)
        /\ \E G : HeapInv(heap', G)
    <2>1. OwnInv(heap, InUse)
      BY <1>2
    <2> QED BY <1>1, <2>1, ServedNew
  <1>5. names' \in [Name -> Addr] /\ names'[n] = d /\ \A m \in Name : m # n => names'[m] = names[m]
    BY <1>2 DEF NamesInv
  <1>6. \A m \in Name : Has(m) => names[m] # d
    BY <1>2, <1>3, Used
  <1>7. NamesInv'
    BY <1>2, <1>5, <1>6 DEF NamesInv, Has
  <1>8. WalksInv'
    <2>1. \A k \in DOMAIN walks : walks[k].desc \in InUse /\ walks[k].desc # d
      BY <1>2, <1>3, Used
    <2>2. \A k \in DOMAIN walks : walks[k].at <= LenOf(heap', walks[k].desc)
      BY <1>2, <1>4, <2>1 DEF WalksInv, Stands
    <2>3. \A k \in DOMAIN walks : \A m \in Name :
            names'[m] = walks[k].desc => m = walks[k].name
      BY <1>2, <1>5, <2>1 DEF WalksInv
    <2> QED BY <1>2, <2>2, <2>3 DEF WalksInv
  <1>9. InUse' \subseteq InUse \cup {d}
    <2>1. ASSUME NEW m \in Name, names'[m] # Null
          PROVE  names'[m] \in InUse \cup {d}
      BY <1>2, <1>5, <2>1, Used DEF Has
    <2> QED BY <1>2, <2>1, Used DEF InUse
  <1>10. OwnInv(heap', InUse')
    BY <1>4, <1>9 DEF OwnInv
  <1>11. JoinInv'
    BY <1>2 DEF JoinInv, Idle
  <1>12. Handed
    BY <1>1, ServesHands
  <1> QED BY <1>4, <1>7, <1>8, <1>10, <1>11, <1>12 DEF ProgramInv

\* Doing nothing to the heap.
LEMMA HeapStands ==
  ASSUME ProgramInv, UNCHANGED <<heap, names>>, WalksInv', JoinInv', InUse' \subseteq InUse
  PROVE  ProgramInv' /\ Handed
  <1>1. NamesInv'
    BY DEF ProgramInv, NamesInv
  <1>2. OwnInv(heap', InUse') /\ \E F : HeapInv(heap', F)
    BY DEF ProgramInv, OwnInv
  <1>3. Handed
    BY NothingHanded
  <1> QED BY <1>1, <1>2, <1>3 DEF ProgramInv

LEMMA NamedArray ==
  ASSUME ProgramInv, NEW n \in Name, Has(n)
  PROVE  /\ names[n] \in InUse /\ ArrayOK(heap, names[n])
         /\ ~Held(n) => \A k \in DOMAIN walks : walks[k].desc # names[n]
  <1>1. names[n] \in InUse
    BY Used DEF ProgramInv
  <1>2. ArrayOK(heap, names[n])
    BY <1>1 DEF ProgramInv, OwnInv
  <1>3. ~Held(n) => \A k \in DOMAIN walks : walks[k].desc # names[n]
    BY DEF ProgramInv, WalksInv, Held
  <1> QED BY <1>1, <1>2, <1>3

-----------------------------------------------------------------------------
\* The statements, one by one.

\* Naming a new array of the elements of s, and leaving an array in place with
\* other elements: what most of them come to.
Gives(n, s) ==
  /\ Idle /\ UNCHANGED <<walks, elem, joining>>
  /\ \E d \in Addr : /\ d # Null /\ Serves(heap, heap', d, {})
                     /\ names' = [names EXCEPT ![n] = d] /\ Contents(heap', d) = s
Alters(n, s) ==
  /\ Idle /\ Has(n) /\ UNCHANGED <<names, walks, elem, joining>>
  /\ \A k \in DOMAIN walks : walks[k].desc # names[n]
  /\ Serves(heap, heap', names[n], Home(heap, names[n])) /\ Contents(heap', names[n]) = s

LEMMA GivesKeeps ==
  ASSUME ProgramInv, NEW n \in Name, NEW s, Gives(n, s)
  PROVE  ProgramInv' /\ Handed
  BY GetsKeeps DEF Gives

LEMMA AltersKeeps ==
  ASSUME ProgramInv, NEW n \in Name, NEW s, Alters(n, s)
  PROVE  ProgramInv' /\ Handed
  <1>1. Idle /\ Has(n) /\ UNCHANGED <<names, walks, joining>>
    BY DEF Alters
  <1>2. JoinInv'
    BY <1>1 DEF ProgramInv, JoinInv, Idle, Has
  <1>3. names[n] \in InUse
    BY <1>1, NamedArray
  <1> QED BY <1>1, <1>2, <1>3, ChangeKeeps DEF Alters

LEMMA LiteralGives ==
  ASSUME ProgramInv, NEW n \in Name, Literal(n)
  PROVE  \E s \in Literals : Gives(n, s)
  <1>0. PICK s \in Literals : Names(n, Fresh(heap, Longer(Len(s), InlineMin), s))
    BY DEF Literal
  <1>1. PICK b \in Fresh(heap, Longer(Len(s), InlineMin), s) :
          heap' = b.heap /\ names' = [names EXCEPT ![n] = b.at]
    BY <1>0 DEF Names
  <1>2. Idle /\ UNCHANGED <<walks, elem, joining>>
    BY DEF Literal, Statement
  <1> DEFINE cap == Longer(Len(s), InlineMin)
  <1>3. s \in Seq(Int) /\ cap \in Nat /\ Len(s) <= cap
    BY ArraysAssumption DEF Longer
  <1>4. PICK F : HeapInv(heap, F)
    BY DEF ProgramInv
  <1> HIDE DEF cap
  <1>5. Serves(heap, b.heap, b.at, {}) /\ b.at \in Addr /\ b.at # Null
        /\ Contents(b.heap, b.at) = s
    BY <1>3, <1>4, FreshServes DEF cap
  <1> QED BY <1>1, <1>2, <1>5 DEF Gives

LEMMA CopyGives ==
  ASSUME ProgramInv, NEW n \in Name, NEW m \in Name, Copy(n, m)
  PROVE  Gives(n, Contents(heap, names[m]))
  <1> DEFINE s == Contents(heap, names[m])
             cap == IF s = <<>> THEN SliceMin ELSE Len(s)
  <1>1. PICK b \in Fresh(heap, cap, s) : heap' = b.heap /\ names' = [names EXCEPT ![n] = b.at]
    BY Zenon DEF Copy, Names, RT_ASLICE
  <1>2. Idle /\ Has(m) /\ UNCHANGED <<walks, elem, joining>>
    BY DEF Copy, Statement
  <1>3. PICK F : HeapInv(heap, F)
    BY DEF ProgramInv
  <1>4. s \in Seq(Int)
    BY <1>2, <1>3, NamedArray, ContentsFacts
  <1> HIDE DEF s
  <1>5. cap \in Nat /\ Len(s) <= cap
    BY <1>4, ArraysAssumption
  <1> HIDE DEF cap
  <1>6. Serves(heap, b.heap, b.at, {}) /\ b.at \in Addr /\ b.at # Null
        /\ Contents(b.heap, b.at) = s
    BY <1>3, <1>4, <1>5, FreshServes
  <1> QED BY <1>1, <1>2, <1>6 DEF Gives, s

LEMMA JoinGives ==
  ASSUME ProgramInv, NEW n \in Name, NEW a \in Name, NEW b \in Name, Join(n, a, b)
  PROVE  Gives(n, Contents(heap, names[a]) \o Contents(heap, names[b]))
  <1> DEFINE s == Contents(heap, names[a])
             t == Contents(heap, names[b])
             both == s \o t
  <1>1. PICK r \in Fresh(heap, Len(both), both) :
          heap' = r.heap /\ names' = [names EXCEPT ![n] = r.at]
    BY Zenon DEF Join, Names, RT_ACAT
  <1>2. Idle /\ Has(a) /\ Has(b) /\ UNCHANGED <<walks, elem, joining>>
    BY DEF Join, Statement
  <1>3. PICK F : HeapInv(heap, F)
    BY DEF ProgramInv
  <1>4. s \in Seq(Int) /\ t \in Seq(Int)
    BY <1>2, <1>3, NamedArray, ContentsFacts
  <1> HIDE DEF s, t
  <1>5. both \in Seq(Int) /\ Len(both) \in Nat /\ Len(both) <= Len(both)
    BY <1>4
  <1> HIDE DEF both
  <1>6. Serves(heap, r.heap, r.at, {}) /\ r.at \in Addr /\ r.at # Null
        /\ Contents(r.heap, r.at) = both
    BY <1>3, <1>5, FreshServes
  <1> QED BY <1>1, <1>2, <1>6 DEF Gives, both, s, t

LEMMA PushAlters ==
  ASSUME ProgramInv, NEW n \in Name, Push(n)
  PROVE  \E x \in Value : Alters(n, Contents(heap, names[n]) \o <<x>>)
  <1> DEFINE d == names[n]
  <1>1. PICK x \in Value : heap' \in RT_ARRPUSH(heap, d, x)
    BY DEF Push
  <1>2. x \in Int
    BY ArraysAssumption
  <1>3. Idle /\ Has(n) /\ ~Held(n) /\ UNCHANGED <<names, walks, elem, joining>>
    BY DEF Push, Statement
  <1>4. PICK F : HeapInv(heap, F)
    BY DEF ProgramInv
  <1>5. ArrayOK(heap, d) /\ \A k \in DOMAIN walks : walks[k].desc # d
    BY <1>3, NamedArray
  <1> HIDE DEF d
  <1>6. Serves(heap, heap', d, Home(heap, d)) /\ Contents(heap', d) = Contents(heap, d) \o <<x>>
    BY <1>1, <1>2, <1>4, <1>5, PushServes
  <1> QED BY <1>3, <1>5, <1>6 DEF Alters, d

LEMMA PopAlters ==
  ASSUME ProgramInv, NEW n \in Name, Pop(n)
  PROVE  /\ Contents(heap, names[n]) # <<>> /\ ~Held(n)
         /\ Alters(n, SubSeq(Contents(heap, names[n]), 1, Len(Contents(heap, names[n])) - 1))
  <1> DEFINE d == names[n]
             m == [heap.mem EXCEPT ![d + 1] = @ - 1]
             s == Contents(heap, d)
             p == SlotsOf(heap, d)
             len == LenOf(heap, d)
  <1>1. heap' = [heap EXCEPT !.mem = m] /\ len > 0
    BY DEF Pop
  <1>2. Idle /\ Has(n) /\ ~Held(n) /\ UNCHANGED <<names, walks, elem, joining>>
    BY DEF Pop, Statement
  <1>3. PICK F : HeapInv(heap, F)
    BY DEF ProgramInv
  <1>4. ArrayOK(heap, d) /\ \A k \in DOMAIN walks : walks[k].desc # d
    BY <1>2, NamedArray
  <1> HIDE DEF d
  <1>5. /\ d + 1 \in Addr /\ heap.mem \in [Addr -> Int] /\ p \in Nat
        /\ len \in Nat /\ CapOf(heap, d) \in Nat /\ len <= CapOf(heap, d)
    BY <1>3, <1>4, HeaderFacts, HeapFacts, SlotFacts
  <1>6. /\ m \in [Addr -> Int] /\ m[d + 1] = len - 1
        /\ \A a \in Addr : m[a] = heap.mem[a] \/ a = d + 1
    BY <1>5 DEF LenOf
  <1>7. m[d + 1] \in 0 .. CapOf(heap, d)
    BY <1>1, <1>5, <1>6
  <1> HIDE DEF m
  <1>8. /\ Serves(heap, heap', d, Home(heap, d))
        /\ Contents(heap', d) = [k \in 1 .. len - 1 |-> m[p + k - 1]]
    <2>1. /\ Serves(heap, heap', d, Home(heap, d))
          /\ Contents(heap', d) = [k \in 1 .. m[d + 1] |-> m[SlotsOf(heap, d) + k - 1]]
      BY <1>1, <1>3, <1>4, <1>6, <1>7, WriteServes
    <2> QED BY <1>6, <2>1
  <1>9. s \in Seq(Int) /\ Len(s) = len /\ \A k \in 1 .. len : s[k] = heap.mem[p + k - 1]
    <2>1. \A k \in 1 .. len : s[k] = heap.mem[p + k - 1]
      BY DEF Contents
    <2> QED BY <1>3, <1>4, <2>1, ContentsFacts
  <1> HIDE DEF s
  <1>10. \A k \in 1 .. len - 1 : m[p + k - 1] = s[k]
    <2> TAKE k \in 1 .. len - 1
    <2> DEFINE a == p + k - 1
    <2>1. a \in Int /\ p <= a /\ a < p + CapOf(heap, d) /\ k \in 1 .. len
      <3> HIDE DEF p, len
      <3> QED BY <1>5
    <2>2. a \in Addr /\ a # d + 1
      BY <1>3, <1>4, <2>1, SlotFacts
    <2> QED BY <1>6, <1>9, <2>1, <2>2
  <1> HIDE DEF p, len
  <1> DEFINE f == SubSeq(s, 1, Len(s) - 1)
  <1>11. f \in Seq(Int) /\ Len(f) = len - 1 /\ \A k \in 1 .. len - 1 : f[k] = s[k]
    BY <1>1, <1>5, <1>9
  <1> HIDE DEF f
  <1>12. f = [k \in 1 .. len - 1 |-> f[k]]
    BY <1>11, AsFunction
  <1>13. Contents(heap', d) = f
    BY <1>8, <1>10, <1>11, <1>12
  <1>14. s # <<>>
    BY <1>1, <1>5, <1>9, EmptySeq
  <1> QED BY <1>2, <1>4, <1>8, <1>13, <1>14 DEF Alters, d, f, s

LEMMA NegateWrites ==
  ASSUME ProgramInv, NEW n \in Name, Negate(n)
  PROVE  /\ Idle /\ Has(n) /\ UNCHANGED <<names, walks, elem, joining>>
         /\ Serves(heap, heap', names[n], Home(heap, names[n]))
         /\ LenOf(heap', names[n]) = LenOf(heap, names[n])
         /\ Contents(heap', names[n])
              = [k \in DOMAIN Contents(heap, names[n]) |-> -Contents(heap, names[n])[k]]
  <1> DEFINE d == names[n]
             p == SlotsOf(heap, d)
             len == LenOf(heap, d)
             s == Contents(heap, d)
             m == [a \in Addr |-> IF a \in p .. p + len - 1 THEN -heap.mem[a] ELSE heap.mem[a]]
  <1>1. heap' = [heap EXCEPT !.mem = m]
    BY DEF Negate
  <1>2. Idle /\ Has(n) /\ UNCHANGED <<names, walks, elem, joining>>
    BY DEF Negate, Statement
  <1>3. PICK F : HeapInv(heap, F)
    BY DEF ProgramInv
  <1>4. ArrayOK(heap, d)
    BY <1>2, NamedArray
  <1> HIDE DEF d
  <1>5. /\ d + 1 \in Addr /\ heap.mem \in [Addr -> Int] /\ p \in Nat /\ heap.mem[d + 1] = len
        /\ len \in Nat /\ CapOf(heap, d) \in Nat /\ len <= CapOf(heap, d)
    BY <1>3, <1>4, HeaderFacts, HeapFacts, SlotFacts DEF LenOf
  <1>6. m \in [Addr -> Int]
    BY <1>5
  <1>7. s \in Seq(Int) /\ Len(s) = len /\ \A k \in 1 .. len : s[k] = heap.mem[p + k - 1]
    <2>1. \A k \in 1 .. len : s[k] = heap.mem[p + k - 1]
      BY DEF Contents
    <2> QED BY <1>3, <1>4, <2>1, ContentsFacts
  <1> HIDE DEF p, len, s
  <1>8. \A a \in Addr : a \in p .. p + len - 1 => p <= a /\ a < p + CapOf(heap, d)
    BY <1>5
  <1>9. ~(d + 1 \in p .. p + len - 1)
    <2>1. d + 1 \in Int
      BY <1>5, AddrFacts
    <2>2. ~(p <= d + 1 /\ d + 1 < p + CapOf(heap, d))
      BY <1>3, <1>4, <2>1, SlotFacts DEF p
    <2> QED BY <1>5, <1>8, <2>2
  <1>10. m[d + 1] = len /\ \A a \in Addr : m[a] = heap.mem[a] \/ (p <= a /\ a < p + CapOf(heap, d))
    BY <1>5, <1>8, <1>9
  <1>11. m[d + 1] \in 0 .. CapOf(heap, d)
    BY <1>5, <1>10
  <1>12. \A k \in 1 .. len : m[p + k - 1] = -s[k]
    <2> TAKE k \in 1 .. len
    <2> DEFINE a == p + k - 1
    <2>1. a \in Int /\ p <= a /\ a < p + CapOf(heap, d) /\ a \in p .. p + len - 1
      BY <1>5
    <2>2. a \in Addr
      BY <1>3, <1>4, <2>1, SlotFacts DEF p
    <2> QED BY <1>7, <2>1, <2>2
  <1> HIDE DEF m
  <1>13. /\ Serves(heap, heap', d, Home(heap, d))
         /\ Contents(heap', d) = [k \in 1 .. len |-> m[p + k - 1]]
    <2>0. \A a \in Addr : \/ m[a] = heap.mem[a] \/ a = d + 1
                          \/ SlotsOf(heap, d) <= a /\ a < SlotsOf(heap, d) + CapOf(heap, d)
      BY <1>10 DEF p
    <2>1. /\ Serves(heap, heap', d, Home(heap, d))
          /\ Contents(heap', d) = [k \in 1 .. m[d + 1] |-> m[SlotsOf(heap, d) + k - 1]]
      BY <1>1, <1>3, <1>4, <1>6, <1>11, <2>0, WriteServes
    <2> QED BY <1>10, <2>1 DEF p
  <1>14. DOMAIN s = 1 .. len
    BY <1>7
  <1>15. Contents(heap', d) = [k \in DOMAIN s |-> -s[k]]
    BY <1>12, <1>13, <1>14
  <1>16. LenOf(heap', d) = len
    BY <1>1, <1>10 DEF LenOf
  <1> QED BY <1>2, <1>13, <1>15, <1>16 DEF d, s, len

LEMMA NegateKeeps ==
  ASSUME ProgramInv, NEW n \in Name, Negate(n)
  PROVE  ProgramInv' /\ Handed
  <1>1. /\ Idle /\ Has(n) /\ UNCHANGED <<names, walks, joining>>
        /\ Serves(heap, heap', names[n], Home(heap, names[n]))
        /\ LenOf(heap', names[n]) = LenOf(heap, names[n])
    BY NegateWrites
  <1>2. JoinInv'
    BY <1>1 DEF ProgramInv, JoinInv, Idle, Has
  <1>3. names[n] \in InUse
    BY <1>1, NamedArray
  <1>4. \A k \in DOMAIN walks : walks[k].desc = names[n] => walks[k].at <= LenOf(heap', names[n])
    BY <1>1 DEF ProgramInv, WalksInv
  <1> QED BY <1>1, <1>2, <1>3, <1>4, ChangeKeeps

LEMMA NegateAlters ==
  ASSUME ProgramInv, ~WritesWalked, NEW n \in Name, Negate(n)
  PROVE  Alters(n, [k \in DOMAIN Contents(heap, names[n]) |-> -Contents(heap, names[n])[k]])
  <1>1. \A k \in DOMAIN walks : walks[k].desc # names[n]
    BY DEF Negate, Walked
  <1> QED BY <1>1, NegateWrites DEF Alters

LEMMA GiveBackKeeps ==
  ASSUME ProgramInv, NEW n \in Name, GiveBack(n)
  PROVE  ProgramInv' /\ Handed /\ \A e \in InUse \ {names[n]} : Stands(heap, heap', e)
  <1> DEFINE d == names[n]
             E == InUse \ {d}
  <1>1. /\ Idle /\ Has(n) /\ ~Held(n) /\ UNCHANGED <<walks, joining>>
        /\ heap' = SlotsBack(heap, d) /\ names' = [names EXCEPT ![n] = Null]
    BY DEF GiveBack, Statement
  <1>2. PICK F : HeapInv(heap, F)
    BY DEF ProgramInv
  <1>3. /\ d \in InUse /\ ArrayOK(heap, d) /\ \A k \in DOMAIN walks : walks[k].desc # d
        /\ d # Null
    BY <1>1, NamedArray DEF Has
  <1>4. OwnInv(heap, InUse) /\ NamesInv /\ WalksInv /\ JoinInv
    BY DEF ProgramInv
  <1>5. /\ names' \in [Name -> Addr] /\ names'[n] = Null
        /\ \A m \in Name : m # n => names'[m] = names[m] /\ names[m] # d
    BY <1>1, <1>3, <1>4, AddrFacts DEF NamesInv, Null
  <1> HIDE DEF d
  <1>6. PICK G, B : /\ HeapInv(heap', G) /\ B \in SUBSET Home(heap, d)
                    /\ heap'.live = heap.live \ B /\ WritesIn(heap, heap', B)
    BY <1>1, <1>2, <1>3, SlotsTakenBack
  <1>7. OwnInv(heap', E) /\ \A e \in E : Stands(heap, heap', e)
    <2>1. \A e \in E : Home(heap, e) \cap B = {}
      BY <1>3, <1>4, <1>6 DEF OwnInv
    <2>2. ASSUME NEW b \in heap.live \ B
          PROVE  b \in heap'.live /\ \A a \in Addr : Within(a, b) => heap'.mem[a] = heap.mem[a]
      <3>1. \A c \in B : c \in Block /\ b \in Block /\ Apart(c, b)
        BY <1>2, <1>6, HeapFacts DEF Home
      <3> QED BY <1>6, <3>1, ApartFacts DEF WritesIn
    <2>3. E \in SUBSET InUse
      OBVIOUS
    <2> HIDE DEF E
    <2> QED BY <1>2, <1>4, <1>6, <2>1, <2>2, <2>3, OthersStand
  <1>8. InUse' \subseteq E
    <2>1. ASSUME NEW m \in Name, names'[m] # Null
          PROVE  names'[m] \in E
      BY <1>4, <1>5, <2>1, Used DEF Has
    <2>2. \A k \in DOMAIN walks : walks[k].desc \in E
      BY <1>3, <1>4, Used
    <2> QED BY <1>1, <2>1, <2>2 DEF InUse
  <1>9. WalksInv'
    <2>1. \A k \in DOMAIN walks : walks[k].desc \in E
      BY <1>3, <1>4, Used
    <2>2. \A k \in DOMAIN walks : walks[k].at <= LenOf(heap', walks[k].desc)
      BY <1>4, <1>7, <2>1 DEF WalksInv, Stands
    <2>3. \A k \in DOMAIN walks : \A m \in Name :
            names'[m] = walks[k].desc => m = walks[k].name
      BY <1>4, <1>5 DEF WalksInv
    <2> QED BY <1>1, <1>4, <2>2, <2>3 DEF WalksInv
  <1>10. NamesInv'
    BY <1>4, <1>5 DEF NamesInv
  <1>11. JoinInv'
    BY <1>1, <1>4 DEF JoinInv, Idle
  <1>12. OwnInv(heap', InUse')
    BY <1>7, <1>8 DEF OwnInv
  <1>13. Handed
    BY <1>6, NothingHanded
  <1> QED BY <1>6, <1>7, <1>9, <1>10, <1>11, <1>12, <1>13 DEF ProgramInv, d

LEMMA BeginExtendKeeps ==
  ASSUME ProgramInv, NEW n \in Name, NEW m \in Name, BeginExtend(n, m)
  PROVE  ProgramInv' /\ Handed
  <1>1. /\ Has(n) /\ Has(m) /\ UNCHANGED <<heap, names, walks>>
        /\ joining' = [dst |-> names[n], len |-> LenOf(heap, names[n]),
                       slots |-> SlotsOf(heap, names[m]), n |-> LenOf(heap, names[m]), ix |-> 0]
    BY DEF BeginExtend
  <1>2. PICK F : HeapInv(heap, F)
    BY DEF ProgramInv
  <1>3. /\ LenOf(heap, names[n]) \in Nat /\ LenOf(heap, names[m]) \in Nat
        /\ SlotsOf(heap, names[m]) \in Nat
        /\ SlotsOf(heap, names[m]) + LenOf(heap, names[m]) <= Limit
    <2>1. ArrayOK(heap, names[n]) /\ ArrayOK(heap, names[m])
      BY <1>1, NamedArray
    <2>2. LenOf(heap, names[n]) \in Nat
      BY <1>2, <2>1, HeaderFacts
    <2>3. /\ LenOf(heap, names[m]) \in Nat /\ CapOf(heap, names[m]) \in Nat
          /\ LenOf(heap, names[m]) <= CapOf(heap, names[m])
      BY <1>2, <2>1, HeaderFacts
    <2>4. SlotsOf(heap, names[m]) \in Nat /\ SlotsOf(heap, names[m]) + CapOf(heap, names[m]) <= Limit
      BY <1>2, <2>1, SlotFacts
    <2> QED BY <2>2, <2>3, <2>4, AddrFacts
  <1>4. names[n] \in Addr
    BY DEF ProgramInv, NamesInv
  <1>5. JoinInv'
    <2>1. /\ joining' \in [dst : Addr, len : Nat, slots : Nat, n : Nat, ix : Nat]
          /\ joining'.ix = 0 /\ joining'.n = LenOf(heap, names[m])
          /\ joining'.slots = SlotsOf(heap, names[m]) /\ joining'.dst = names[n]
      BY <1>1, <1>3, <1>4
    <2>2. joining'.ix <= joining'.n
      BY <1>3, <2>1
    <2>3. Has(n)' /\ names'[n] = joining'.dst
      BY <1>1, <2>1 DEF Has
    <2> QED BY <1>3, <2>1, <2>2, <2>3 DEF JoinInv
  <1>6. WalksInv' /\ InUse' \subseteq InUse
    BY <1>1 DEF ProgramInv, WalksInv, InUse
  <1> QED BY <1>1, <1>5, <1>6, HeapStands

LEMMA ExtendStepKeeps ==
  ASSUME ProgramInv, ExtendStep
  PROVE  ProgramInv' /\ Handed
  <1> DEFINE d == joining.dst
             x == heap.mem[joining.slots + joining.ix]
  <1>1. /\ ~Idle /\ joining.ix < joining.n /\ heap' \in RT_ARRPUSH(heap, d, x)
        /\ joining' = [joining EXCEPT !.ix = @ + 1] /\ UNCHANGED <<names, walks>>
    BY DEF ExtendStep
  <1>2. PICK F : HeapInv(heap, F)
    BY DEF ProgramInv
  <1>3. /\ joining \in [dst : Addr, len : Nat, slots : Nat, n : Nat, ix : Nat]
        /\ joining.slots + joining.n <= Limit
    BY DEF ProgramInv, JoinInv
  <1>4. PICK n \in Name : Has(n) /\ names[n] = d
    BY <1>1 DEF ProgramInv, JoinInv
  <1>5. d \in InUse /\ ArrayOK(heap, d)
    BY <1>4, NamedArray
  <1>6. x \in Int
    <2>1. joining.slots + joining.ix \in Addr
      BY <1>1, <1>3, AddrFacts
    <2> QED BY <1>2, <2>1, HeapFacts
  <1>7. JoinInv'
    <2>1. /\ joining' \in [dst : Addr, len : Nat, slots : Nat, n : Nat, ix : Nat]
          /\ joining'.ix = joining.ix + 1 /\ joining'.n = joining.n
          /\ joining'.slots = joining.slots /\ joining'.dst = joining.dst
      BY <1>1, <1>3
    <2>2. joining'.ix <= joining'.n
      BY <1>1, <1>3, <2>1
    <2>3. Has(n)' /\ names'[n] = joining'.dst
      BY <1>1, <1>4, <2>1 DEF Has
    <2> QED BY <1>3, <2>1, <2>2, <2>3 DEF JoinInv
  <1> HIDE DEF d, x
  <1>8. Serves(heap, heap', d, Home(heap, d)) /\ LenOf(heap', d) = LenOf(heap, d) + 1
    BY <1>1, <1>2, <1>5, <1>6, PushServes
  <1>9. \A k \in DOMAIN walks : walks[k].desc = d => walks[k].at <= LenOf(heap', d)
    <2> SUFFICES ASSUME NEW k \in DOMAIN walks, walks[k].desc = d
                 PROVE  walks[k].at <= LenOf(heap', d)
      OBVIOUS
    <2>1. walks[k].at <= LenOf(heap, d) /\ walks[k] \in Walk
      BY DEF ProgramInv, WalksInv
    <2>2. LenOf(heap, d) \in Nat /\ walks[k].at \in Nat
      BY <1>2, <1>5, <2>1, HeaderFacts DEF Walk
    <2> QED BY <1>8, <2>1, <2>2
  <1> QED BY <1>1, <1>5, <1>7, <1>8, <1>9, ChangeKeeps

LEMMA ExtendDoneKeeps ==
  ASSUME ProgramInv, ExtendDone
  PROVE  ProgramInv' /\ Handed
  <1>1. joining' = NotJoining /\ UNCHANGED <<heap, names, walks>>
    BY DEF ExtendDone
  <1>2. JoinInv'
    <2>1. /\ joining' \in [dst : Addr, len : Nat, slots : Nat, n : Nat, ix : Nat]
          /\ joining'.ix = 0 /\ joining'.n = 0 /\ joining'.slots = 0
      BY <1>1, AddrFacts DEF NotJoining, Null
    <2> QED BY <1>1, <2>1, AddrFacts DEF JoinInv, Idle
  <1>3. WalksInv' /\ InUse' \subseteq InUse
    BY <1>1 DEF ProgramInv, WalksInv, InUse
  <1> QED BY <1>1, <1>2, <1>3, HeapStands

LEMMA BeginWalkKeeps ==
  ASSUME ProgramInv, NEW n \in Name, BeginWalk(n)
  PROVE  ProgramInv' /\ Handed
  <1> DEFINE w == [name |-> n, desc |-> names[n], at |-> 0, took |-> Contents(heap, names[n])]
  <1>1. /\ Idle /\ Has(n) /\ walks' = Append(walks, w) /\ UNCHANGED <<heap, names, joining>>
    BY DEF BeginWalk, Statement
  <1>2. PICK F : HeapInv(heap, F)
    BY DEF ProgramInv
  <1>3. NamesInv /\ WalksInv /\ JoinInv
    BY DEF ProgramInv
  <1>4. /\ walks \in Seq(Walk) /\ w \in Walk /\ w.desc = names[n] /\ w.name = n /\ w.at = 0
        /\ names[n] \in InUse /\ names[n] # Null
    <2>1. Contents(heap, names[n]) \in Seq(Int)
      BY <1>1, <1>2, NamedArray, ContentsFacts
    <2> QED BY <1>1, <1>3, <2>1, NamedArray DEF NamesInv, WalksInv, Walk, Taken, Has
  <1>5. w.at <= LenOf(heap, w.desc)
    <2>1. LenOf(heap, names[n]) \in Nat
      BY <1>1, <1>2, NamedArray, HeaderFacts
    <2> QED BY <1>4, <2>1
  <1> HIDE DEF w
  <1>6. /\ walks' \in Seq(Walk) /\ Len(walks') = Len(walks) + 1
        /\ \A k \in 1 .. Len(walks) : walks'[k] = walks[k]
        /\ walks'[Len(walks) + 1] = w /\ Len(walks) \in Nat
        /\ DOMAIN walks = 1 .. Len(walks) /\ DOMAIN walks' = 1 .. Len(walks) + 1
    BY <1>1, <1>4, AppendProperties
  <1>7. \A k \in DOMAIN walks' : walks'[k] = w \/ \E j \in DOMAIN walks : walks'[k] = walks[j]
    BY <1>6
  <1>8. WalksInv'
    <2> SUFFICES ASSUME NEW k \in DOMAIN walks'
                 PROVE  /\ walks'[k].desc # Null /\ walks'[k].at <= LenOf(heap, walks'[k].desc)
                        /\ \A m \in Name : names[m] = walks'[k].desc => m = walks'[k].name
      BY <1>1, <1>6 DEF WalksInv
    <2>1. CASE walks'[k] = w
      BY <1>3, <1>4, <1>5, <2>1 DEF NamesInv
    <2>2. CASE \E j \in DOMAIN walks : walks'[k] = walks[j]
      BY <1>3, <2>2 DEF WalksInv
    <2> QED BY <1>7, <2>1, <2>2
  <1>9. InUse' \subseteq InUse
    BY <1>1, <1>4, <1>7 DEF InUse
  <1>10. JoinInv'
    BY <1>1, <1>3 DEF JoinInv, Idle
  <1> QED BY <1>1, <1>8, <1>9, <1>10, HeapStands

\* A walk one element further is a walk over the same array (BeginWalk, Turn).
LEMMA WalkOn ==
  ASSUME NEW u \in Walk
  PROVE  LET v == [u EXCEPT !.at = u.at + 1]
         IN v \in Walk /\ v.desc = u.desc /\ v.name = u.name /\ v.at = u.at + 1
  <1>1. /\ u = [name |-> u.name, desc |-> u.desc, at |-> u.at, took |-> u.took]
        /\ u.name \in Name /\ u.desc \in Addr /\ u.at \in Nat /\ u.took \in Taken
    BY DEF Walk
  <1> DEFINE v == [name |-> u.name, desc |-> u.desc, at |-> u.at + 1, took |-> u.took]
  <1>2. [u EXCEPT !.at = u.at + 1] = v
    BY <1>1
  <1>3. u.at + 1 \in Nat
    BY <1>1
  <1>4. v \in Walk
    BY <1>1, <1>3 DEF Walk
  <1> QED BY <1>2, <1>4

LEMMA TurnKeeps ==
  ASSUME ProgramInv, Turn
  PROVE  ProgramInv' /\ Handed
  <1> DEFINE l == Len(walks)
             w == walks[l]
  <1>1. /\ Idle /\ walks # <<>> /\ w.at < LenOf(heap, w.desc)
        /\ walks' = [walks EXCEPT ![l].at = @ + 1] /\ UNCHANGED <<heap, names, joining>>
    BY DEF Turn
  <1>2. PICK F : HeapInv(heap, F)
    BY DEF ProgramInv
  <1>3. NamesInv /\ WalksInv /\ JoinInv
    BY DEF ProgramInv
  <1>4. walks \in Seq(Walk) /\ l \in DOMAIN walks /\ w \in Walk
    BY <1>1, <1>3, EmptySeq DEF WalksInv
  <1>5. /\ walks' \in Seq(Walk) /\ DOMAIN walks' = DOMAIN walks
        /\ \A k \in DOMAIN walks :
             /\ walks'[k].desc = walks[k].desc /\ walks'[k].name = walks[k].name
             /\ walks'[k].at = walks[k].at \/ k = l
        /\ walks'[l].at = w.at + 1
    <2> DEFINE v == [w EXCEPT !.at = @ + 1]
    <2>1. /\ v \in Walk /\ v.desc = w.desc /\ v.name = w.name /\ v.at = w.at + 1
      <3> HIDE DEF w
      <3> QED BY <1>4, WalkOn
    <2>2. walks' = [walks EXCEPT ![l] = v]
      BY <1>1
    <2> HIDE DEF v
    <2>3. walks' \in Seq(Walk) /\ DOMAIN walks' = DOMAIN walks
      BY <1>4, <2>1, <2>2, ExceptSeq
    <2>4. walks'[l] = v /\ \A k \in DOMAIN walks : k # l => walks'[k] = walks[k]
      BY <1>4, <2>2
    <2> QED BY <2>1, <2>3, <2>4
  <1>6. LenOf(heap, w.desc) \in Nat /\ w.at \in Nat
    <2>1. w.desc \in InUse
      BY <1>3, <1>4, Used
    <2>2. ArrayOK(heap, w.desc)
      BY <2>1 DEF ProgramInv, OwnInv
    <2>3. w.at \in Nat
      BY <1>4 DEF Walk
    <2> HIDE DEF w
    <2> QED BY <1>2, <2>2, <2>3, HeaderFacts
  <1> HIDE DEF w, l
  <1>7. \A k \in DOMAIN walks : walks'[k].at <= LenOf(heap, walks'[k].desc)
    <2> TAKE k \in DOMAIN walks
    <2>1. CASE k = l
      <3>1. walks'[k].at = w.at + 1 /\ walks'[k].desc = w.desc
        BY <1>4, <1>5, <2>1 DEF w
      <3>2. w.at + 1 <= LenOf(heap, w.desc)
        BY <1>1, <1>6
      <3> QED BY <3>1, <3>2
    <2>2. CASE k # l
      BY <1>3, <1>5, <2>2 DEF WalksInv
    <2> QED BY <2>1, <2>2
  <1>8. WalksInv'
    BY <1>1, <1>3, <1>5, <1>7 DEF WalksInv
  <1>9. InUse' \subseteq InUse
    BY <1>1, <1>5 DEF InUse
  <1>10. JoinInv'
    BY <1>1, <1>3 DEF JoinInv, Idle
  <1> QED BY <1>1, <1>8, <1>9, <1>10, HeapStands

LEMMA EndWalkKeeps ==
  ASSUME ProgramInv, EndWalk
  PROVE  ProgramInv' /\ Handed
  <1> DEFINE l == Len(walks)
  <1>1. /\ Idle /\ walks # <<>> /\ walks' = SubSeq(walks, 1, l - 1)
        /\ UNCHANGED <<heap, names, joining>>
    BY DEF EndWalk
  <1>2. NamesInv /\ WalksInv /\ JoinInv
    BY DEF ProgramInv
  <1>3. walks \in Seq(Walk) /\ l \in Nat /\ l >= 1 /\ DOMAIN walks = 1 .. l
    BY <1>1, <1>2, EmptySeq DEF WalksInv
  <1>4. /\ walks' \in Seq(Walk)
        /\ \A k \in DOMAIN walks' : k \in DOMAIN walks /\ walks'[k] = walks[k]
    <2>1. l - 1 \in Int /\ 1 \in 1 .. l /\ \A i \in 1 .. l - 1 : i \in 1 .. l /\ 1 + i - 1 = i
      BY <1>3
    <2>2. walks' \in Seq(Walk) /\ Len(walks') = l - 1
      BY <1>1, <1>3
    <2>3. \A k \in 1 .. l - 1 : walks'[k] = walks[k]
      BY <1>1, <1>3, <2>1
    <2> QED BY <1>3, <2>1, <2>2, <2>3
  <1> HIDE DEF l
  <1>5. WalksInv'
    BY <1>1, <1>2, <1>4 DEF WalksInv
  <1>6. InUse' \subseteq InUse
    BY <1>1, <1>4 DEF InUse
  <1>7. JoinInv'
    BY <1>1, <1>2 DEF JoinInv, Idle
  <1> QED BY <1>1, <1>5, <1>6, <1>7, HeapStands

-----------------------------------------------------------------------------
\* What a program sees.

\* The walks under way, as it sees them.
WalksOf == [k \in DOMAIN walks |-> [name |-> walks[k].name, left |-> Left(walks[k])]]

LEMMA SeenIdle ==
  ASSUME Idle, NEW n \in Name
  PROVE  Seen(n) = IF Has(n) THEN <<Contents(heap, names[n])>> ELSE <<>>
  BY DEF Seen, Has, Idle, NotJoining

LEMMA SeenIdleAfter ==
  ASSUME Idle', NEW n \in Name
  PROVE  Seen(n)' = IF Has(n)' THEN <<Contents(heap', names'[n])>> ELSE <<>>
  BY DEF Seen, Has, Idle, NotJoining

LEMMA WalksStay ==
  ASSUME UNCHANGED walks, \A k \in DOMAIN walks : Stands(heap, heap', walks[k].desc)
  PROVE  WalksOf' = WalksOf
  BY DEF WalksOf, Left, Stands

\* One name has another value, and nothing else does.
LEMMA OneValue ==
  ASSUME ProgramInv, Idle, UNCHANGED <<walks, elem, joining>>, NEW n \in Name, NEW v,
         \A m \in Name \ {n} :
           names'[m] = names[m] /\ (Has(m) => Stands(heap, heap', names[m])),
         \A k \in DOMAIN walks : Stands(heap, heap', walks[k].desc),
         Seen(n)' = v
  PROVE  V!Gets(n, v)
  <1>1. Idle'
    BY DEF Idle
  <1>2. \A m \in Name \ {n} : Seen(m)' = Seen(m)
    <2> TAKE m \in Name \ {n}
    <2>1. Has(m)' <=> Has(m)
      BY DEF Has
    <2> QED BY <1>1, <2>1, SeenIdle, SeenIdleAfter DEF Stands
  <1>3. WalksOf' = WalksOf
    BY WalksStay
  <1>4. [m \in Name |-> Seen(m)]' = [[m \in Name |-> Seen(m)] EXCEPT ![n] = v]
    BY <1>2
  <1> QED BY <1>3, <1>4 DEF V!Gets, WalksOf

LEMMA GivesValue ==
  ASSUME ProgramInv, NEW n \in Name, NEW s, Gives(n, s)
  PROVE  V!Becomes(n, s)
  <1>1. PICK F : HeapInv(heap, F)
    BY DEF ProgramInv
  <1>2. PICK d \in Addr : /\ d # Null /\ Serves(heap, heap', d, {})
                          /\ names' = [names EXCEPT ![n] = d] /\ Contents(heap', d) = s
    BY DEF Gives
  <1>3. OwnInv(heap, InUse) /\ NamesInv /\ WalksInv
    BY DEF ProgramInv
  <1>4. \A e \in InUse : e # d
    BY <1>1, <1>2, <1>3, NewIsNew DEF OwnInv
  <1>5. \A e \in InUse : Stands(heap, heap', e)
    BY <1>1, <1>2, <1>3, <1>4, ServedNew
  <1>6. \A k \in DOMAIN walks : Stands(heap, heap', walks[k].desc)
    BY <1>3, <1>5, Used
  <1>7. /\ names'[n] = d
        /\ \A m \in Name \ {n} : names'[m] = names[m] /\ (Has(m) => Stands(heap, heap', names[m]))
    BY <1>2, <1>3, <1>5, Used DEF NamesInv
  <1>8. Idle /\ Idle' /\ UNCHANGED <<walks, elem, joining>>
    BY DEF Gives, Idle
  <1>9. Seen(n)' = <<s>>
    BY <1>2, <1>7, <1>8, SeenIdleAfter DEF Has
  <1> QED BY <1>6, <1>7, <1>8, <1>9, OneValue DEF V!Becomes

LEMMA AltersValue ==
  ASSUME ProgramInv, NEW n \in Name, NEW s, Alters(n, s)
  PROVE  V!Becomes(n, s)
  <1> DEFINE d == names[n]
  <1>1. PICK F : HeapInv(heap, F)
    BY DEF ProgramInv
  <1>2. /\ Idle /\ Idle' /\ Has(n) /\ UNCHANGED <<names, walks, elem, joining>>
        /\ \A k \in DOMAIN walks : walks[k].desc # d
        /\ Serves(heap, heap', d, Home(heap, d)) /\ Contents(heap', d) = s
    BY DEF Alters, Idle
  <1>3. OwnInv(heap, InUse) /\ NamesInv /\ WalksInv
    BY DEF ProgramInv
  <1>4. d \in InUse /\ \A m \in Name \ {n} : Has(m) => names[m] # d
    BY <1>2, <1>3, Used DEF NamesInv, Has
  <1> HIDE DEF d
  <1>5. \A e \in InUse \ {d} : Stands(heap, heap', e)
    BY <1>1, <1>2, <1>3, <1>4, Served
  <1>6. \A k \in DOMAIN walks : Stands(heap, heap', walks[k].desc)
    BY <1>2, <1>3, <1>5, Used
  <1>7. \A m \in Name \ {n} : names'[m] = names[m] /\ (Has(m) => Stands(heap, heap', names[m]))
    BY <1>2, <1>3, <1>4, <1>5, Used
  <1>8. Seen(n)' = <<s>>
    BY <1>2, SeenIdleAfter DEF Has, d
  <1> QED BY <1>2, <1>6, <1>7, <1>8, OneValue DEF V!Becomes

LEMMA GiveBackValue ==
  ASSUME ProgramInv, NEW n \in Name, GiveBack(n)
  PROVE  V!Gets(n, V!None)
  <1>1. /\ Idle /\ Idle' /\ Has(n) /\ ~Held(n) /\ UNCHANGED <<walks, elem, joining>>
        /\ names' = [names EXCEPT ![n] = Null]
    BY DEF GiveBack, Statement, Idle
  <1>2. NamesInv /\ WalksInv
    BY DEF ProgramInv
  <1>3. \A e \in InUse \ {names[n]} : Stands(heap, heap', e)
    BY GiveBackKeeps
  <1>4. \A k \in DOMAIN walks : Stands(heap, heap', walks[k].desc)
    <2>1. \A k \in DOMAIN walks : walks[k].desc \in InUse \ {names[n]}
      BY <1>1, <1>2, NamedArray, Used
    <2> QED BY <1>3, <2>1
  <1>5. \A m \in Name \ {n} : names'[m] = names[m] /\ (Has(m) => Stands(heap, heap', names[m]))
    <2> TAKE m \in Name \ {n}
    <2>1. names'[m] = names[m]
      BY <1>1, <1>2 DEF NamesInv
    <2>2. Has(m) => names[m] \in InUse \ {names[n]}
      BY <1>2, Used DEF NamesInv, Has
    <2> QED BY <1>3, <2>1, <2>2
  <1>6. Seen(n)' = <<>>
    <2>1. ~Has(n)'
      BY <1>1, <1>2 DEF NamesInv, Has
    <2> QED BY <1>1, <2>1, SeenIdleAfter
  <1> QED BY <1>1, <1>4, <1>5, <1>6, OneValue DEF V!None

\* The guards of the statements are those of the values.
LEMMA SameGuards ==
  ASSUME NEW n \in Name
  PROVE  /\ (V!Held(n) <=> Held(n)) /\ (V!Has(n) <=> Has(n))
         /\ Idle /\ Has(n) => V!Of(n) = Contents(heap, names[n])
  <1>1. V!Held(n) <=> Held(n)
    BY DEF V!Held, Held
  <1>2. V!Has(n) <=> Has(n)
    <2>1. ~Has(n) => Seen(n) = <<>>
      BY DEF Seen
    <2>2. Has(n) => \E s : Seen(n) = <<s>>
      BY DEF Seen
    <2>3. \A s : <<s>> # <<>>
      OBVIOUS
    <2> QED BY <2>1, <2>2, <2>3 DEF V!Has, V!None
  <1>3. Idle /\ Has(n) => V!Of(n) = Contents(heap, names[n])
    BY SeenIdle DEF V!Of
  <1> QED BY <1>1, <1>2, <1>3

\* What is left of a walk is a sequence.
LEMMA LeftFacts ==
  ASSUME ProgramInv, NEW k \in DOMAIN walks
  PROVE  LET w == walks[k]
             s == Contents(heap, w.desc)
         IN /\ s \in Seq(Int) /\ Len(s) = LenOf(heap, w.desc)
            /\ w.name \in Name /\ w.at \in Nat /\ w.at <= Len(s)
            /\ Left(w) = SubSeq(s, w.at + 1, Len(s)) /\ Left(w) \in Seq(Int)
  <1> DEFINE w == walks[k]
             s == Contents(heap, w.desc)
  <1>1. PICK F : HeapInv(heap, F)
    BY DEF ProgramInv
  <1>2. /\ w \in Walk /\ w.desc \in InUse /\ w.at <= LenOf(heap, w.desc)
    BY Used DEF ProgramInv, WalksInv
  <1>3. w.name \in Name /\ w.at \in Nat
    BY <1>2 DEF Walk
  <1>4. ArrayOK(heap, w.desc)
    BY <1>2 DEF ProgramInv, OwnInv
  <1>5. s \in Seq(Int) /\ Len(s) = LenOf(heap, w.desc)
    BY <1>1, <1>4, ContentsFacts
  <1>6. Left(w) = SubSeq(s, w.at + 1, Len(s))
    BY <1>5 DEF Left
  <1> HIDE DEF s, w
  <1>7. SubSeq(s, w.at + 1, Len(s)) \in Seq(Int)
    <2>1. w.at + 1 \in Int /\ Len(s) \in Int /\ \A i \in w.at + 1 .. Len(s) : s[i] \in Int
      BY <1>3, <1>5
    <2> QED BY <2>1, SubSeqProperties
  <1> QED BY <1>2, <1>3, <1>5, <1>6, <1>7 DEF s, w

\* A walk as a program sees it.
WalkLeft == [name : Name, left : Seq(Int)]

LEMMA WalksOfFacts ==
  ASSUME ProgramInv
  PROVE  /\ WalksOf \in Seq(WalkLeft) /\ Len(WalksOf) = Len(walks) /\ Len(walks) \in Nat
         /\ DOMAIN WalksOf = 1 .. Len(walks) /\ DOMAIN walks = 1 .. Len(walks)
         /\ \A k \in DOMAIN walks :
              WalksOf[k] = [name |-> walks[k].name, left |-> Left(walks[k])]
  <1>1. walks \in Seq(Walk) /\ Len(walks) \in Nat /\ DOMAIN walks = 1 .. Len(walks)
    BY DEF ProgramInv, WalksInv
  <1>2. \A k \in DOMAIN walks :
          [name |-> walks[k].name, left |-> Left(walks[k])] \in WalkLeft
    BY LeftFacts DEF WalkLeft
  <1>3. \A k \in DOMAIN walks : WalksOf[k] \in WalkLeft
    BY <1>2 DEF WalksOf
  <1>4. WalksOf = [k \in 1 .. Len(walks) |-> WalksOf[k]]
    BY <1>1 DEF WalksOf
  <1>5. WalksOf \in Seq(WalkLeft) /\ Len(WalksOf) = Len(walks)
    BY <1>1, <1>3, <1>4
  <1> QED BY <1>1, <1>5 DEF WalksOf

\* Where the heap and the names stand, values do.
LEMMA ValuesStay ==
  ASSUME UNCHANGED <<heap, names, joining>>
  PROVE  [n \in Name |-> Seen(n)]' = [n \in Name |-> Seen(n)]
  BY DEF Seen, Has

LEMMA WalksAfter ==
  ASSUME UNCHANGED heap
  PROVE  WalksOf' = [k \in DOMAIN walks' |->
                       [name |-> walks'[k].name, left |-> Left(walks'[k])]]
  BY DEF WalksOf, Left, Contents, LenOf, SlotsOf

LEMMA BeginWalkValue ==
  ASSUME ProgramInv, NEW n \in Name, BeginWalk(n)
  PROVE  V!BeginWalk(n)
  <1> DEFINE w == [name |-> n, desc |-> names[n], at |-> 0, took |-> Contents(heap, names[n])]
             s == Contents(heap, names[n])
             r == [name |-> n, left |-> s]
             l == Len(walks)
  <1>1. /\ Idle /\ Has(n) /\ walks' = Append(walks, w) /\ UNCHANGED <<heap, names, elem, joining>>
    BY DEF BeginWalk, Statement
  <1>2. PICK F : HeapInv(heap, F)
    BY DEF ProgramInv
  <1>3. s \in Seq(Int) /\ Len(s) = LenOf(heap, names[n])
    BY <1>1, <1>2, NamedArray, ContentsFacts
  <1>4. [name |-> w.name, left |-> Left(w)] = r
    <2>1. Left(w) = SubSeq(s, 0 + 1, Len(s))
      BY <1>3 DEF Left
    <2>2. Left(w) = s
      <3> HIDE DEF s
      <3> QED BY <1>3, <2>1, SubSeqFull
    <2> QED BY <2>2
  <1>5. r \in WalkLeft
    BY <1>3 DEF WalkLeft
  <1>6. walks \in Seq(Walk) /\ w \in Walk
    BY <1>1, <1>3 DEF ProgramInv, WalksInv, NamesInv, Walk, Taken
  <1> HIDE DEF r, w
  <1>7. /\ l \in Nat /\ DOMAIN walks' = 1 .. l + 1 /\ walks'[l + 1] = w
        /\ \A k \in 1 .. l : walks'[k] = walks[k]
    <2>1. /\ walks' \in Seq(Walk) /\ Len(walks') = l + 1 /\ walks'[l + 1] = w
          /\ \A k \in 1 .. l : walks'[k] = walks[k]
      BY <1>1, <1>6, AppendProperties
    <2> QED BY <1>6, <2>1
  <1>8. /\ WalksOf \in Seq(WalkLeft) /\ Len(WalksOf) = l /\ DOMAIN walks = 1 .. l
        /\ \A k \in 1 .. l : WalksOf[k] = [name |-> walks[k].name, left |-> Left(walks[k])]
    BY WalksOfFacts
  <1> HIDE DEF l
  <1>9. WalksOf' = [k \in 1 .. l + 1 |-> IF k <= l THEN WalksOf[k] ELSE r]
    <2>1. \A k \in 1 .. l + 1 : [name |-> walks'[k].name, left |-> Left(walks'[k])]
                                = IF k <= l THEN WalksOf[k] ELSE r
      <3> TAKE k \in 1 .. l + 1
      <3>1. CASE k <= l
        <4>1. k \in 1 .. l
          BY <1>7, <3>1
        <4> QED BY <1>7, <1>8, <3>1, <4>1
      <3>2. CASE ~(k <= l)
        <4>1. k = l + 1
          BY <1>7, <3>2
        <4> QED BY <1>4, <1>7, <3>2, <4>1
      <3> QED BY <3>1, <3>2
    <2> QED BY <1>1, <1>7, <2>1, WalksAfter
  <1>10. WalksOf' = Append(WalksOf, r)
    <2> DEFINE t == Append(WalksOf, r)
    <2>1. /\ t \in Seq(WalkLeft) /\ Len(t) = l + 1 /\ t[l + 1] = r
          /\ \A k \in 1 .. l : t[k] = WalksOf[k]
      BY <1>5, <1>8, AppendProperties
    <2> HIDE DEF t
    <2>2. t = [k \in 1 .. l + 1 |-> t[k]]
      BY <2>1, AsFunction
    <2>3. \A k \in 1 .. l + 1 : t[k] = IF k <= l THEN WalksOf[k] ELSE r
      BY <1>7, <2>1
    <2> QED BY <1>9, <2>2, <2>3 DEF t
  <1>11. V!Has(n) /\ V!Of(n) = s
    BY <1>1, SameGuards
  <1>12. [m \in Name |-> Seen(m)]' = [m \in Name |-> Seen(m)]
    BY <1>1, ValuesStay
  <1>13. WalksOf' = Append(WalksOf, [name |-> n, left |-> V!Of(n)])
    BY <1>10, <1>11 DEF r
  <1> QED BY <1>1, <1>11, <1>12, <1>13 DEF V!BeginWalk, WalksOf

LEMMA TurnValue ==
  ASSUME ProgramInv, Turn
  PROVE  V!Turn
  <1> DEFINE l == Len(walks)
             w == walks[l]
             s == Contents(heap, w.desc)
             u == walks'[l]
  <1>1. /\ Idle /\ walks # <<>> /\ w.at < LenOf(heap, w.desc)
        /\ elem' = heap.mem[SlotsOf(heap, w.desc) + w.at]
        /\ walks' = [walks EXCEPT ![l].at = @ + 1] /\ UNCHANGED <<heap, names, joining>>
    BY DEF Turn
  <1>2. walks \in Seq(Walk) /\ l \in DOMAIN walks /\ w \in Walk /\ DOMAIN walks = 1 .. l /\ l \in Nat
    BY <1>1, EmptySeq DEF ProgramInv, WalksInv
  <1>3. /\ DOMAIN walks' = DOMAIN walks /\ \A k \in DOMAIN walks : k # l => walks'[k] = walks[k]
        /\ u.desc = w.desc /\ u.name = w.name /\ u.at = w.at + 1
    BY <1>1, <1>2 DEF Walk
  <1>4. /\ s \in Seq(Int) /\ Len(s) = LenOf(heap, w.desc) /\ w.at \in Nat
        /\ Left(w) = SubSeq(s, w.at + 1, Len(s))
    BY <1>2, LeftFacts
  <1>5. Left(u) = SubSeq(s, (w.at + 1) + 1, Len(s))
    BY <1>3, <1>4 DEF Left
  <1>6. elem' = s[w.at + 1]
    <2>1. w.at + 1 \in 1 .. LenOf(heap, w.desc)
      BY <1>1, <1>4
    <2>2. s[w.at + 1] = heap.mem[SlotsOf(heap, w.desc) + (w.at + 1) - 1]
      BY <2>1 DEF Contents
    <2>3. SlotsOf(heap, w.desc) + (w.at + 1) - 1 = SlotsOf(heap, w.desc) + w.at
      <3>1. PICK F : HeapInv(heap, F)
        BY DEF ProgramInv
      <3>2. ArrayOK(heap, w.desc)
        BY <1>2, Used DEF ProgramInv, OwnInv
      <3>3. SlotsOf(heap, w.desc) \in Int
        BY <3>1, <3>2, HeaderFacts
      <3> QED BY <1>4, <3>3
    <2> QED BY <1>1, <2>2, <2>3
  <1>7. /\ Left(w) # <<>> /\ Head(Left(w)) = elem' /\ Tail(Left(w)) = Left(u)
    <2> HIDE DEF s
    <2>1. w.at + 1 \in 1 .. Len(s) /\ Len(s) \in w.at + 1 .. Len(s)
      BY <1>1, <1>4
    <2>2. /\ Head(SubSeq(s, w.at + 1, Len(s))) = s[w.at + 1]
          /\ Tail(SubSeq(s, w.at + 1, Len(s))) = SubSeq(s, (w.at + 1) + 1, Len(s))
      BY <1>4, <2>1, HeadTailOfSubSeq
    <2>3. Left(w) # <<>>
      <3>1. \A i \in w.at + 1 .. Len(s) : s[i] \in Int
        BY <1>4
      <3>2. Len(SubSeq(s, w.at + 1, Len(s))) = Len(s) - (w.at + 1) + 1
        BY <1>4, <2>1, <3>1, SubSeqProperties
      <3>3. Len(Left(w)) # 0
        BY <1>4, <2>1, <3>2
      <3> QED BY <3>3, EmptySeq
    <2> QED BY <1>4, <1>5, <1>6, <2>2, <2>3
  <1>8. /\ WalksOf \in Seq(WalkLeft) /\ Len(WalksOf) = l /\ DOMAIN WalksOf = 1 .. l
        /\ \A k \in 1 .. l : WalksOf[k] = [name |-> walks[k].name, left |-> Left(walks[k])]
    BY WalksOfFacts
  <1>9. /\ WalksOf[l] = [name |-> w.name, left |-> Left(w)]
        /\ WalksOf[l].left = Left(w)
    BY <1>2, <1>8
  <1> HIDE DEF w, u, s, l
  <1>10. WalksOf' = [WalksOf EXCEPT ![l].left = Tail(@)]
    <2>1. WalksOf' = [k \in 1 .. l |-> [name |-> walks'[k].name, left |-> Left(walks'[k])]]
      BY <1>1, <1>2, <1>3, WalksAfter
    <2>2. \A k \in 1 .. l : k # l => [name |-> walks'[k].name, left |-> Left(walks'[k])] = WalksOf[k]
      BY <1>2, <1>3, <1>8
    <2>3. [name |-> walks'[l].name, left |-> Left(walks'[l])] = [WalksOf[l] EXCEPT !.left = Tail(@)]
      <3>1. u.name = w.name /\ Left(u) = Tail(Left(w))
        BY <1>3, <1>7
      <3>2. [WalksOf[l] EXCEPT !.left = Tail(@)] = [name |-> w.name, left |-> Tail(Left(w))]
        <4>1. \A a, b, c : [[name |-> a, left |-> b] EXCEPT !.left = c] = [name |-> a, left |-> c]
          OBVIOUS
        <4>2. [WalksOf[l] EXCEPT !.left = Tail(@)] = [WalksOf[l] EXCEPT !.left = Tail(WalksOf[l].left)]
          OBVIOUS
        <4>3. [WalksOf[l] EXCEPT !.left = Tail(WalksOf[l].left)]
              = [[name |-> w.name, left |-> Left(w)] EXCEPT !.left = Tail(Left(w))]
          BY <1>9
        <4> QED BY <4>1, <4>2, <4>3
      <3>3. [name |-> u.name, left |-> Left(u)] = [name |-> w.name, left |-> Tail(Left(w))]
        BY <3>1
      <3> QED BY <3>2, <3>3 DEF u
    <2>4. WalksOf = [k \in 1 .. l |-> WalksOf[k]]
      BY <1>8, AsFunction
    <2> QED BY <1>2, <2>1, <2>2, <2>3, <2>4
  <1>11. WalksOf # <<>>
    BY <1>2, <1>8, EmptySeq
  <1>12. [m \in Name |-> Seen(m)]' = [m \in Name |-> Seen(m)]
    BY <1>1, ValuesStay
  <1>13. /\ WalksOf[Len(WalksOf)].left # <<>> /\ elem' = Head(WalksOf[Len(WalksOf)].left)
         /\ WalksOf' = [WalksOf EXCEPT ![Len(WalksOf)].left = Tail(@)]
    BY <1>7, <1>8, <1>9, <1>10
  <1> QED BY <1>11, <1>12, <1>13 DEF V!Turn, WalksOf

LEMMA EndWalkValue ==
  ASSUME ProgramInv, EndWalk
  PROVE  V!EndWalk
  <1> DEFINE l == Len(walks)
  <1>1. /\ Idle /\ walks # <<>> /\ walks' = SubSeq(walks, 1, l - 1) /\ elem' = 0
        /\ UNCHANGED <<heap, names, joining>>
    BY DEF EndWalk
  <1>2. walks \in Seq(Walk) /\ l \in Nat /\ l >= 1 /\ DOMAIN walks = 1 .. l
    BY <1>1, EmptySeq DEF ProgramInv, WalksInv
  <1>3. DOMAIN walks' = 1 .. l - 1 /\ \A k \in 1 .. l - 1 : k \in 1 .. l /\ walks'[k] = walks[k]
    BY <1>1, <1>2
  <1>4. /\ WalksOf \in Seq(WalkLeft) /\ Len(WalksOf) = l
        /\ \A k \in 1 .. l : WalksOf[k] = [name |-> walks[k].name, left |-> Left(walks[k])]
    BY WalksOfFacts
  <1> HIDE DEF l
  <1>5. WalksOf' = [k \in 1 .. l - 1 |-> WalksOf[k]]
    BY <1>1, <1>3, <1>4, WalksAfter
  <1>6. WalksOf' = SubSeq(WalksOf, 1, l - 1)
    <2> DEFINE t == SubSeq(WalksOf, 1, l - 1)
    <2>1. t \in Seq(WalkLeft) /\ Len(t) = l - 1 /\ \A k \in 1 .. l - 1 : t[k] = WalksOf[k]
      BY <1>2, <1>4
    <2> HIDE DEF t
    <2>2. t = [k \in 1 .. l - 1 |-> t[k]]
      BY <2>1, AsFunction
    <2> QED BY <1>5, <2>1, <2>2 DEF t
  <1>7. WalksOf # <<>>
    BY <1>2, <1>4, EmptySeq
  <1>8. [m \in Name |-> Seen(m)]' = [m \in Name |-> Seen(m)]
    BY <1>1, ValuesStay
  <1>9. WalksOf' = SubSeq(WalksOf, 1, Len(WalksOf) - 1)
    BY <1>4, <1>6
  <1> QED BY <1>1, <1>7, <1>8, <1>9 DEF V!EndWalk, WalksOf

-----------------------------------------------------------------------------
\* A join half done.

\* Name n is being given the elements of m: it held first, and has as many of
\* m's as the join has read.
Joins(n, m, first) ==
  /\ n # m /\ Has(n) /\ Has(m) /\ names[n] = joining.dst
  /\ first \in Seq(Int) /\ Len(first) = joining.len
  /\ joining.slots = SlotsOf(heap, names[m]) /\ joining.n = LenOf(heap, names[m])
  /\ Contents(heap, names[n]) = first \o SubSeq(Contents(heap, names[m]), 1, joining.ix)
  /\ \A k \in DOMAIN walks : walks[k].desc # names[n]

\* The names, and what the one held, are found one after the other.
JoinSeen == Idle \/ \E n \in Name : \E m \in Name : \E first : Joins(n, m, first)

LEMMA FirstPart ==
  ASSUME NEW s \in Seq(Int), NEW t \in Seq(Int)
  PROVE  SubSeq(s \o t, 1, Len(s)) = s
  <1>1. CASE Len(s) = 0
    <2>1. s = <<>>
      BY <1>1, EmptySeq
    <2>2. SubSeq(s \o t, 1, 0) = <<>>
      BY SubSeqEmpty
    <2> QED BY <1>1, <2>1, <2>2
  <1>2. CASE Len(s) # 0
    <2>1. 1 \in 1 .. Len(s) /\ Len(s) \in 1 .. Len(s)
      BY <1>2
    <2>2. SubSeq(s \o t, 1, Len(s)) = SubSeq(s, 1, Len(s))
      BY <2>1, SubSeqOfConcat1
    <2> QED BY <2>2, SubSeqFull
  <1> QED BY <1>1, <1>2

LEMMA StartOf ==
  ASSUME NEW s \in Seq(Int), NEW k \in 0 .. Len(s)
  PROVE  SubSeq(s, 1, k) \in Seq(Int)
  <1>1. \A i \in 1 .. k : s[i] \in Int
    OBVIOUS
  <1> QED BY <1>1, SubSeqProperties

\* What the two names hold.
LEMMA JoinedFacts ==
  ASSUME ProgramInv, NEW n \in Name, NEW m \in Name, NEW first, Joins(n, m, first)
  PROVE  LET t == Contents(heap, names[m])
         IN /\ t \in Seq(Int) /\ Len(t) = joining.n /\ joining.ix \in 0 .. joining.n
            /\ first \in Seq(Int) /\ SubSeq(t, 1, joining.ix) \in Seq(Int)
            /\ Seen(n) = <<first>>
            /\ \A k \in Name \ {n} :
                 Seen(k) = IF Has(k) THEN <<Contents(heap, names[k])>> ELSE <<>>
  <1> DEFINE t == Contents(heap, names[m])
             ix == joining.ix
  <1>1. PICK F : HeapInv(heap, F)
    BY DEF ProgramInv
  <1>2. ArrayOK(heap, names[m])
    BY NamedArray DEF Joins
  <1>3. t \in Seq(Int) /\ Len(t) = joining.n
    BY <1>1, <1>2, ContentsFacts DEF Joins
  <1>4. ix \in 0 .. joining.n
    BY DEF ProgramInv, JoinInv
  <1>5. first \in Seq(Int) /\ Len(first) = joining.len /\ Has(n) /\ names[n] = joining.dst
        /\ Contents(heap, names[n]) = first \o SubSeq(t, 1, ix)
    BY DEF Joins
  <1>6. \A k \in Name \ {n} : Has(k) => names[k] # joining.dst
    BY <1>5 DEF ProgramInv, NamesInv, Has
  <1>7. \A k \in Name \ {n} : Seen(k) = IF Has(k) THEN <<Contents(heap, names[k])>> ELSE <<>>
    BY <1>6 DEF Seen
  <1>8. Seen(n) = <<SubSeq(Contents(heap, names[n]), 1, joining.len)>>
    BY <1>5 DEF Seen
  <1> HIDE DEF t, ix
  <1>9. SubSeq(t, 1, ix) \in Seq(Int)
    BY <1>3, <1>4, StartOf
  <1>10. SubSeq(first \o SubSeq(t, 1, ix), 1, Len(first)) = first
    BY <1>5, <1>9, FirstPart
  <1>11. Seen(n) = <<first>>
    BY <1>5, <1>8, <1>10
  <1> QED BY <1>3, <1>4, <1>5, <1>7, <1>9, <1>11 DEF t, ix

LEMMA BeginExtendSeen ==
  ASSUME ProgramInv, ~SelfJoin, ~WritesWalked, NEW n \in Name, NEW m \in Name, BeginExtend(n, m)
  PROVE  JoinSeen' /\ UNCHANGED V!vars
  <1> DEFINE s == Contents(heap, names[n])
             t == Contents(heap, names[m])
  <1>1. /\ Idle /\ Has(n) /\ Has(m) /\ n # m /\ ~Walked(n) /\ UNCHANGED <<heap, names, walks, elem>>
        /\ joining' = [dst |-> names[n], len |-> LenOf(heap, names[n]),
                       slots |-> SlotsOf(heap, names[m]), n |-> LenOf(heap, names[m]), ix |-> 0]
    BY DEF BeginExtend, Statement
  <1>2. PICK F : HeapInv(heap, F)
    BY DEF ProgramInv
  <1>3. s \in Seq(Int) /\ Len(s) = LenOf(heap, names[n])
    BY <1>1, <1>2, NamedArray, ContentsFacts
  <1>4. /\ joining'.dst = names[n] /\ joining'.len = LenOf(heap, names[n]) /\ joining'.ix = 0
        /\ joining'.slots = SlotsOf(heap, names[m]) /\ joining'.n = LenOf(heap, names[m])
    BY <1>1
  <1>5. s = s \o SubSeq(t, 1, 0)
    <2>1. SubSeq(t, 1, 0) = <<>>
      BY SubSeqEmpty
    <2> HIDE DEF s, t
    <2> QED BY <1>3, <2>1, ConcatEmptySeq
  <1>6. \A k \in DOMAIN walks : walks[k].desc # names[n]
    BY <1>1 DEF Walked
  <1>7. Joins(n, m, s)'
    <2>1. Has(n)' /\ Has(m)'
      BY <1>1 DEF Has
    <2> QED BY <1>1, <1>3, <1>4, <1>5, <1>6, <2>1 DEF Joins
  <1>8. \A k \in Name : Seen(k)' = Seen(k)
    <2>1. ASSUME NEW k \in Name, k # n
          PROVE  Seen(k)' = Seen(k)
      <3>1. Has(k) => names[k] # names[n]
        BY <1>1, <2>1 DEF ProgramInv, NamesInv, Has
      <3>2. Seen(k) = IF Has(k) THEN <<Contents(heap, names[k])>> ELSE <<>>
        BY <1>1, SeenIdle
      <3>3. Seen(k)' = IF Has(k) THEN <<Contents(heap, names[k])>> ELSE <<>>
        BY <1>1, <1>4, <3>1 DEF Seen, Has
      <3> QED BY <3>2, <3>3
    <2>2. Seen(n)' = Seen(n)
      <3>1. Seen(n) = <<s>>
        BY <1>1, SeenIdle
      <3>2. Seen(n)' = <<SubSeq(s, 1, Len(s))>>
        BY <1>1, <1>3, <1>4 DEF Seen, Has
      <3>3. SubSeq(s, 1, Len(s)) = s
        <4> HIDE DEF s
        <4> QED BY <1>3, SubSeqFull
      <3> QED BY <3>1, <3>2, <3>3
    <2> QED BY <2>1, <2>2
  <1>9. WalksOf' = WalksOf
    BY <1>1, WalksAfter DEF WalksOf
  <1> HIDE DEF s
  <1> QED BY <1>1, <1>7, <1>8, <1>9 DEF JoinSeen, V!vars, WalksOf

LEMMA ExtendStepSeen ==
  ASSUME ProgramInv, JoinSeen, ExtendStep
  PROVE  JoinSeen' /\ UNCHANGED V!vars
  <1>1. /\ ~Idle /\ joining.ix < joining.n
        /\ heap' \in RT_ARRPUSH(heap, joining.dst, heap.mem[joining.slots + joining.ix])
        /\ joining' = [joining EXCEPT !.ix = @ + 1] /\ UNCHANGED <<names, walks, elem>>
    BY DEF ExtendStep
  <1>2. PICK n \in Name : \E m \in Name : \E first : Joins(n, m, first)
    BY <1>1 DEF JoinSeen
  <1>3. PICK m \in Name : \E first : Joins(n, m, first)
    BY <1>2
  <1>4. PICK first : Joins(n, m, first)
    BY <1>3
  <1> DEFINE d == names[n]
             t == Contents(heap, names[m])
             ix == joining.ix
             x == heap.mem[joining.slots + ix]
  <1>5. PICK F : HeapInv(heap, F)
    BY DEF ProgramInv
  <1>6. /\ n # m /\ Has(n) /\ Has(m) /\ d = joining.dst /\ Len(first) = joining.len
        /\ joining.slots = SlotsOf(heap, names[m]) /\ joining.n = LenOf(heap, names[m])
        /\ Contents(heap, d) = first \o SubSeq(t, 1, ix)
        /\ \A k \in DOMAIN walks : walks[k].desc # d
    BY <1>4 DEF Joins
  <1>7. /\ t \in Seq(Int) /\ Len(t) = joining.n /\ ix \in 0 .. joining.n
        /\ first \in Seq(Int) /\ SubSeq(t, 1, ix) \in Seq(Int)
        /\ Seen(n) = <<first>>
        /\ \A k \in Name \ {n} : Seen(k) = IF Has(k) THEN <<Contents(heap, names[k])>> ELSE <<>>
    BY <1>4, JoinedFacts
  <1>8. /\ d \in InUse /\ ArrayOK(heap, d) /\ names[m] \in InUse \ {d} /\ ArrayOK(heap, names[m])
        /\ \A k \in Name \ {n} : Has(k) => names[k] \in InUse \ {d}
        /\ \A k \in DOMAIN walks : walks[k].desc \in InUse \ {d}
    BY <1>6, NamedArray, Used DEF ProgramInv, NamesInv, Has
  <1>9. x = t[ix + 1] /\ x \in Int /\ ix + 1 \in 1 .. Len(t)
    <2>1. ix + 1 \in 1 .. LenOf(heap, names[m]) /\ ix \in Int
      BY <1>1, <1>6, <1>7
    <2>2. t[ix + 1] = heap.mem[SlotsOf(heap, names[m]) + (ix + 1) - 1]
      BY <2>1 DEF Contents
    <2>3. SlotsOf(heap, names[m]) \in Int
      BY <1>5, <1>8, HeaderFacts
    <2>4. SlotsOf(heap, names[m]) + (ix + 1) - 1 = joining.slots + ix
      BY <1>6, <2>1, <2>3
    <2>5. ix + 1 \in 1 .. Len(t)
      BY <1>6, <1>7, <2>1
    <2> HIDE DEF t, ix
    <2>6. t[ix + 1] \in Int
      BY <1>7, <2>5
    <2> QED BY <2>2, <2>4, <2>5, <2>6
  <1> HIDE DEF x
  <1>10. heap' \in RT_ARRPUSH(heap, d, x)
    BY <1>1, <1>6 DEF x
  <1> HIDE DEF d
  <1>11. /\ Serves(heap, heap', d, Home(heap, d))
         /\ Contents(heap', d) = Contents(heap, d) \o <<x>>
    BY <1>5, <1>8, <1>9, <1>10, PushServes
  <1>12. \A e \in InUse \ {d} : Stands(heap, heap', e)
    BY <1>5, <1>8, <1>11, Served DEF ProgramInv
  <1>13. /\ SlotsOf(heap', names[m]) = SlotsOf(heap, names[m])
         /\ LenOf(heap', names[m]) = LenOf(heap, names[m]) /\ Contents(heap', names[m]) = t
    BY <1>8, <1>12 DEF Stands
  <1>14. Contents(heap', d) = first \o SubSeq(t, 1, ix + 1)
    <2> HIDE DEF t, ix
    <2>1. SubSeq(t, 1, ix + 1) = SubSeq(t, 1, ix) \o <<x>>
      <3>1. 1 \in 1 .. Len(t) /\ ix + 1 \in 1 .. Len(t) /\ (ix + 1) - 1 = ix
        BY <1>7, <1>9
      <3>2. SubSeq(t, 1, ix + 1) = SubSeq(t, 1, (ix + 1) - 1) \o <<t[ix + 1]>>
        BY <1>7, <3>1, SubSeqRecursiveSecond
      <3> QED BY <1>9, <3>1, <3>2
    <2>2. <<x>> \in Seq(Int)
      BY <1>9
    <2>3. (first \o SubSeq(t, 1, ix)) \o <<x>> = first \o (SubSeq(t, 1, ix) \o <<x>>)
      <3> DEFINE part == SubSeq(t, 1, ix)
                 last == <<x>>
      <3>1. first \in Seq(Int) /\ part \in Seq(Int) /\ last \in Seq(Int)
        BY <1>7, <2>2
      <3> HIDE DEF part, last
      <3>2. (first \o part) \o last = first \o (part \o last)
        BY <3>1, ConcatAssociative
      <3> QED BY <3>2 DEF part, last
    <2> QED BY <1>6, <1>11, <2>1, <2>3
  <1>15. /\ joining'.dst = joining.dst /\ joining'.len = joining.len /\ joining'.ix = ix + 1
         /\ joining'.slots = joining.slots /\ joining'.n = joining.n
    BY <1>1 DEF ProgramInv, JoinInv
  <1>16. Has(n)' /\ Has(m)' /\ \A k \in Name : Has(k)' <=> Has(k)
    BY <1>1, <1>6 DEF Has
  <1>17. Joins(n, m, first)'
    BY <1>1, <1>6, <1>7, <1>13, <1>14, <1>15, <1>16 DEF Joins, d
  <1>18. \A k \in Name : Seen(k)' = Seen(k)
    <2>1. ASSUME NEW k \in Name \ {n}
          PROVE  Seen(k)' = Seen(k)
      <3>1. Has(k) => names[k] # joining.dst /\ Contents(heap', names[k]) = Contents(heap, names[k])
        BY <1>6, <1>8, <1>12 DEF Stands
      <3>2. Seen(k)' = IF Has(k) THEN <<Contents(heap, names[k])>> ELSE <<>>
        BY <1>1, <1>15, <1>16, <3>1 DEF Seen
      <3> QED BY <1>7, <3>2
    <2>2. Seen(n)' = <<first>>
      <3>1. Seen(n)' = <<SubSeq(Contents(heap', d), 1, joining.len)>>
        BY <1>1, <1>6, <1>15, <1>16 DEF Seen, d
      <3>2. SubSeq(t, 1, ix + 1) \in Seq(Int)
        <4> HIDE DEF t, ix
        <4>1. ix + 1 \in 0 .. Len(t)
          BY <1>9
        <4> QED BY <1>7, <4>1, StartOf
      <3> HIDE DEF t, ix
      <3>3. SubSeq(first \o SubSeq(t, 1, ix + 1), 1, Len(first)) = first
        BY <1>7, <3>2, FirstPart
      <3> QED BY <1>6, <1>14, <3>1, <3>3
    <2> QED BY <1>7, <2>1, <2>2
  <1>19. WalksOf' = WalksOf
    BY <1>1, <1>8, <1>12, WalksStay
  <1> QED BY <1>1, <1>17, <1>18, <1>19 DEF JoinSeen, V!vars, WalksOf

LEMMA ExtendDoneValue ==
  ASSUME ProgramInv, JoinSeen, ExtendDone
  PROVE  JoinSeen' /\ \E n \in Name : \E m \in Name : V!Join(n, n, m)
  <1>1. ~Idle /\ joining.ix = joining.n /\ joining' = NotJoining /\ UNCHANGED <<heap, names, walks, elem>>
    BY DEF ExtendDone
  <1>2. PICK n \in Name : \E m \in Name : \E first : Joins(n, m, first)
    BY <1>1 DEF JoinSeen
  <1>3. PICK m \in Name : \E first : Joins(n, m, first)
    BY <1>2
  <1>4. PICK first : Joins(n, m, first)
    BY <1>3
  <1> DEFINE t == Contents(heap, names[m])
             both == first \o t
  <1>5. /\ t \in Seq(Int) /\ Len(t) = joining.n /\ Seen(n) = <<first>>
        /\ \A k \in Name \ {n} : Seen(k) = IF Has(k) THEN <<Contents(heap, names[k])>> ELSE <<>>
    BY <1>4, JoinedFacts
  <1>6. /\ n # m /\ Has(n) /\ Has(m)
        /\ Contents(heap, names[n]) = first \o SubSeq(t, 1, joining.ix)
    BY <1>4 DEF Joins
  <1>7. Contents(heap, names[n]) = both
    <2>1. SubSeq(t, 1, Len(t)) = t
      <3> HIDE DEF t
      <3> QED BY <1>5, SubSeqFull
    <2> QED BY <1>1, <1>5, <1>6, <2>1
  <1>8. Idle' /\ \A k \in Name : Has(k)' <=> Has(k)
    BY <1>1 DEF Idle, Has
  <1>9. \A k \in Name : Seen(k)' = IF k = n THEN <<both>> ELSE Seen(k)
    <2> TAKE k \in Name
    <2>1. Seen(k)' = IF Has(k)' THEN <<Contents(heap', names'[k])>> ELSE <<>>
      BY <1>8, SeenIdleAfter
    <2>2. Seen(k)' = IF Has(k) THEN <<Contents(heap, names[k])>> ELSE <<>>
      BY <1>1, <1>8, <2>1
    <2> QED BY <1>5, <1>6, <1>7, <2>2
  <1>10. [k \in Name |-> Seen(k)]' = [[k \in Name |-> Seen(k)] EXCEPT ![n] = <<both>>]
    BY <1>9
  <1>11. WalksOf' = WalksOf
    BY <1>1, WalksAfter DEF WalksOf
  <1>12. V!Has(n) /\ V!Has(m)
    BY <1>6, SameGuards
  <1>13. V!Of(n) = first /\ V!Of(m) = t
    BY <1>5, <1>6 DEF V!Of
  <1>14. V!Becomes(n, V!Of(n) \o V!Of(m))
    BY <1>1, <1>10, <1>11, <1>13 DEF V!Becomes, V!Gets, WalksOf
  <1> QED BY <1>8, <1>12, <1>14 DEF V!Join, JoinSeen

-----------------------------------------------------------------------------
\* Every statement does to the values what it promises.

LEMMA LiteralValue ==
  ASSUME ProgramInv, NEW n \in Name, Literal(n)
  PROVE  V!Literal(n)
  <1>1. PICK s \in Literals : Gives(n, s)
    BY LiteralGives
  <1> QED BY <1>1, GivesValue DEF V!Literal

LEMMA PushValue ==
  ASSUME ProgramInv, NEW n \in Name, Push(n)
  PROVE  V!Push(n)
  <1> DEFINE s == Contents(heap, names[n])
  <1>1. Idle /\ Has(n) /\ ~Held(n)
    BY DEF Push, Statement
  <1>2. PICK x \in Value : Alters(n, s \o <<x>>)
    BY PushAlters
  <1>3. V!Becomes(n, s \o <<x>>)
    <2> DEFINE more == s \o <<x>>
    <2>1. Alters(n, more)
      BY <1>2
    <2> HIDE DEF more
    <2>2. V!Becomes(n, more)
      BY <2>1, AltersValue
    <2> QED BY <2>2 DEF more
  <1>4. V!Of(n) = s /\ V!Has(n) /\ ~V!Held(n)
    BY <1>1, SameGuards
  <1>5. s \in Seq(Int) /\ x \in Int
    <2>1. PICK F : HeapInv(heap, F)
      BY DEF ProgramInv
    <2>2. s \in Seq(Int)
      BY <1>1, <2>1, NamedArray, ContentsFacts
    <2> QED BY <2>2, ArraysAssumption DEF ArraysAssumption
  <1> HIDE DEF s
  <1>6. Append(s, x) = s \o <<x>>
    BY <1>5, AppendIsConcat
  <1> QED BY <1>3, <1>4, <1>6 DEF V!Push

LEMMA PopValue ==
  ASSUME ProgramInv, NEW n \in Name, Pop(n)
  PROVE  V!Pop(n)
  <1> DEFINE s == Contents(heap, names[n])
             less == SubSeq(s, 1, Len(s) - 1)
  <1>1. Idle /\ Has(n)
    BY DEF Pop, Statement
  <1>2. s # <<>> /\ ~Held(n) /\ Alters(n, less)
    BY PopAlters
  <1>3. V!Of(n) = s /\ V!Has(n) /\ ~V!Held(n)
    BY <1>1, <1>2, SameGuards
  <1> HIDE DEF less
  <1>4. V!Becomes(n, less)
    BY <1>2, AltersValue
  <1> QED BY <1>2, <1>3, <1>4 DEF V!Pop, less

LEMMA CopyValue ==
  ASSUME ProgramInv, NEW n \in Name, NEW m \in Name, Copy(n, m)
  PROVE  V!Copy(n, m)
  <1> DEFINE s == Contents(heap, names[m])
  <1>1. Idle /\ Has(m) /\ ~Held(n)
    BY DEF Copy, Statement
  <1>2. Gives(n, s)
    BY CopyGives
  <1>3. V!Of(m) = s /\ V!Has(m) /\ ~V!Held(n)
    BY <1>1, SameGuards
  <1> HIDE DEF s
  <1>4. V!Becomes(n, s)
    BY <1>2, GivesValue
  <1> QED BY <1>3, <1>4 DEF V!Copy

LEMMA JoinValue ==
  ASSUME ProgramInv, NEW n \in Name, NEW a \in Name, NEW b \in Name, Join(n, a, b)
  PROVE  V!Join(n, a, b)
  <1> DEFINE both == Contents(heap, names[a]) \o Contents(heap, names[b])
  <1>1. Idle /\ Has(a) /\ Has(b)
    BY DEF Join, Statement
  <1>2. Gives(n, both)
    BY JoinGives
  <1>3. V!Has(a) /\ V!Has(b) /\ both = V!Of(a) \o V!Of(b)
    BY <1>1, SameGuards
  <1> HIDE DEF both
  <1>4. V!Becomes(n, both)
    BY <1>2, GivesValue
  <1> QED BY <1>3, <1>4 DEF V!Join

LEMMA NegateValue ==
  ASSUME ProgramInv, ~WritesWalked, NEW n \in Name, Negate(n)
  PROVE  V!Negate(n)
  <1> DEFINE s == Contents(heap, names[n])
             minus == [k \in DOMAIN s |-> -s[k]]
  <1>1. Idle /\ Has(n)
    BY DEF Negate, Statement
  <1>2. Alters(n, minus)
    BY NegateAlters
  <1>3. V!Of(n) = s /\ V!Has(n)
    BY <1>1, SameGuards
  <1> HIDE DEF minus
  <1>4. V!Becomes(n, minus)
    BY <1>2, AltersValue
  <1> QED BY <1>3, <1>4 DEF V!Negate, minus

LEMMA FinishedValue ==
  ASSUME ProgramInv, NEW n \in Name, GiveBack(n)
  PROVE  V!Finished(n)
  <1>1. Has(n) /\ ~Held(n)
    BY DEF GiveBack
  <1> QED BY <1>1, GiveBackValue, SameGuards DEF V!Finished

LEMMA ValuesInit ==
  ASSUME Init
  PROVE  JoinSeen /\ V!Init
  <1>1. Idle /\ walks = <<>> /\ elem = 0 /\ \A n \in Name : ~Has(n)
    BY DEF Init, Idle, Has
  <1>2. [n \in Name |-> Seen(n)] = [n \in Name |-> <<>>]
    BY <1>1 DEF Seen
  <1>3. WalksOf = <<>>
    <2>1. DOMAIN walks = {} /\ DOMAIN <<>> = {}
      BY <1>1
    <2> QED BY <1>1, <2>1 DEF WalksOf
  <1> QED BY <1>1, <1>2, <1>3 DEF JoinSeen, V!Init, V!None, WalksOf

LEMMA ValuesStep ==
  ASSUME ProgramInv, JoinSeen, ~SelfJoin, ~WritesWalked, [Next]_vars
  PROVE  JoinSeen' /\ [V!Next]_(V!vars)
  <1>1. ASSUME NEW n \in Name,
               Literal(n) \/ Push(n) \/ Pop(n) \/ Negate(n) \/ GiveBack(n) \/ BeginWalk(n)
        PROVE  JoinSeen' /\ V!Next
    <2>1. Idle'
      BY <1>1 DEF Literal, Push, Pop, Negate, GiveBack, BeginWalk, Statement, Idle
    <2>2. \/ V!Literal(n) \/ V!Push(n) \/ V!Pop(n) \/ V!Negate(n) \/ V!Finished(n)
          \/ V!BeginWalk(n)
      BY <1>1, LiteralValue, PushValue, PopValue, NegateValue, FinishedValue, BeginWalkValue
    <2> QED BY <2>1, <2>2 DEF JoinSeen, V!Next
  <1>2. ASSUME NEW n \in Name, NEW m \in Name, Copy(n, m)
        PROVE  JoinSeen' /\ V!Next
    <2>1. Idle'
      BY <1>2 DEF Copy, Statement, Idle
    <2> QED BY <1>2, <2>1, CopyValue DEF JoinSeen, V!Next
  <1>3. ASSUME NEW n \in Name, NEW m \in Name, BeginExtend(n, m)
        PROVE  JoinSeen' /\ UNCHANGED V!vars
    BY <1>3, BeginExtendSeen
  <1>4. ASSUME NEW n \in Name, NEW a \in Name, NEW b \in Name, Join(n, a, b)
        PROVE  JoinSeen' /\ V!Next
    <2>1. Idle'
      BY <1>4 DEF Join, Statement, Idle
    <2> QED BY <1>4, <2>1, JoinValue DEF JoinSeen, V!Next
  <1>5. CASE ExtendStep
    BY <1>5, ExtendStepSeen
  <1>6. CASE ExtendDone
    BY <1>6, ExtendDoneValue DEF V!Next
  <1>7. CASE Turn \/ EndWalk
    <2>1. Idle'
      BY <1>7 DEF Turn, EndWalk, Idle
    <2> QED BY <1>7, <2>1, TurnValue, EndWalkValue DEF JoinSeen, V!Next
  <1>8. CASE UNCHANGED vars
    <2>1. UNCHANGED <<heap, names, walks, elem, joining>>
      BY <1>8 DEF vars
    <2>2. JoinSeen'
      BY <2>1 DEF JoinSeen, Joins, Idle, Has
    <2>3. WalksOf' = WalksOf
      BY <2>1, WalksAfter DEF WalksOf
    <2> QED BY <2>1, <2>2, <2>3, ValuesStay DEF V!vars, WalksOf
  <1> QED BY <1>1, <1>2, <1>3, <1>4, <1>5, <1>6, <1>7, <1>8 DEF Next

-----------------------------------------------------------------------------
\* The theorems.

LEMMA ProgramInit ==
  ASSUME Init
  PROVE  ProgramInv
  <1>1. HeapInv(heap, {})
    <2>1. /\ heap \in HeapType /\ heap.next = 0 /\ heap.lim = 0
          /\ heap.live = {} /\ heap.regions = {}
          /\ \A s \in Slots : heap.heads[s] = Null
      BY AddrFacts DEF Init, EmptyHeap, HeapType, Null
    <2>2. Shaped(heap, {})
      BY <2>1 DEF Shaped
    <2>3. Placed(heap, {})
      BY <2>1 DEF Placed
    <2>4. Listed(heap.mem, heap.heads, {})
      BY <2>1 DEF Listed
    <2> QED BY <2>2, <2>3, <2>4 DEF HeapInv
  <1>2. InUse = {}
    BY DEF Init, InUse
  <1>3. OwnInv(heap, InUse)
    BY <1>2 DEF OwnInv
  <1>4. NamesInv
    BY AddrFacts DEF Init, NamesInv, Null
  <1>5. WalksInv
    BY EmptySeq DEF Init, WalksInv
  <1>6. JoinInv
    <2>1. /\ joining \in [dst : Addr, len : Nat, slots : Nat, n : Nat, ix : Nat]
          /\ joining.ix = 0 /\ joining.n = 0 /\ joining.slots = 0 /\ Idle
      BY AddrFacts DEF Init, NotJoining, Null, Idle
    <2> QED BY <2>1, AddrFacts DEF JoinInv
  <1> QED BY <1>1, <1>3, <1>4, <1>5, <1>6 DEF ProgramInv

LEMMA ProgramStep ==
  ASSUME ProgramInv, [Next]_vars
  PROVE  ProgramInv' /\ Handed
  <1>1. ASSUME NEW n \in Name,
               Literal(n) \/ Push(n) \/ Pop(n) \/ Negate(n) \/ GiveBack(n) \/ BeginWalk(n)
        PROVE  ProgramInv' /\ Handed
    <2>1. CASE Literal(n) \/ Push(n) \/ Pop(n)
      <3>1. \E s : Gives(n, s) \/ Alters(n, s)
        BY <2>1, LiteralGives, PushAlters, PopAlters
      <3> QED BY <3>1, GivesKeeps, AltersKeeps
    <2>2. CASE Negate(n) \/ GiveBack(n) \/ BeginWalk(n)
      BY <2>2, NegateKeeps, GiveBackKeeps, BeginWalkKeeps
    <2> QED BY <1>1, <2>1, <2>2
  <1>2. ASSUME NEW n \in Name, NEW m \in Name, Copy(n, m) \/ BeginExtend(n, m)
        PROVE  ProgramInv' /\ Handed
    BY <1>2, CopyGives, GivesKeeps, BeginExtendKeeps
  <1>3. ASSUME NEW n \in Name, NEW a \in Name, NEW b \in Name, Join(n, a, b)
        PROVE  ProgramInv' /\ Handed
    BY <1>3, JoinGives, GivesKeeps
  <1>4. CASE ExtendStep \/ ExtendDone \/ Turn \/ EndWalk
    BY <1>4, ExtendStepKeeps, ExtendDoneKeeps, TurnKeeps, EndWalkKeeps
  <1>5. CASE UNCHANGED vars
    <2>1. UNCHANGED <<heap, names, walks, joining>>
      BY <1>5 DEF vars
    <2>2. WalksInv' /\ JoinInv' /\ InUse' \subseteq InUse
      BY <2>1 DEF ProgramInv, WalksInv, JoinInv, Idle, Has, InUse
    <2> QED BY <2>1, <2>2, HeapStands
  <1> QED BY <1>1, <1>2, <1>3, <1>4, <1>5 DEF Next

\* Whatever a program does with arrays, its heap is sound: no block is on a list
\* twice or on a list and in use, no two share a word, every one is in a region,
\* and no array has more elements than the block it has room for.
THEOREM HeapIsSound == Spec => []HeapSound
  <1>1. Init => ProgramInv
    BY ProgramInit
  <1>2. ProgramInv /\ [Next]_vars => ProgramInv'
    BY ProgramStep
  <1>3. ProgramInv => HeapSound
    <2> SUFFICES ASSUME ProgramInv
                 PROVE  HeapSound
      OBVIOUS
    <2>1. PICK F : HeapInv(heap, F)
      BY DEF ProgramInv
    <2>2. BlocksApart(heap)
      BY <2>1, SoundHeap
    <2>3. /\ heap.mem \in [Addr -> Int] /\ heap.next \in 0 .. Limit /\ heap.lim \in 0 .. Limit
          /\ heap.heads \in [Slots -> Addr]
      BY <2>1, HeapFacts DEF HeapType
    <2>4. \A d \in InUse : LenOf(heap, d) \in 0 .. CapOf(heap, d) /\ LenOf(heap, d) \in Nat
      <3>1. \A d \in InUse : ArrayOK(heap, d)
        BY DEF ProgramInv, OwnInv
      <3> QED BY <2>1, <3>1, HeaderFacts DEF ArrayOK
    <2>5. \A k \in DOMAIN walks : walks[k].at \in 0 .. LenOf(heap, walks[k].desc)
      <3> TAKE k \in DOMAIN walks
      <3>1. /\ walks[k] \in Walk /\ walks[k].desc \in InUse
            /\ walks[k].at <= LenOf(heap, walks[k].desc)
        BY Used DEF ProgramInv, WalksInv
      <3>2. walks[k].at \in Nat /\ LenOf(heap, walks[k].desc) \in Nat
        BY <2>4, <3>1 DEF Walk
      <3> QED BY <3>1, <3>2
    <2>6. names \in [Name -> Addr] /\ joining.dst \in Addr /\ joining.ix \in 0 .. joining.n
      BY DEF ProgramInv, NamesInv, JoinInv
    <2> QED BY <2>2, <2>3, <2>4, <2>5, <2>6 DEF HeapSound, TypeOK
  <1> QED BY <1>1, <1>2, <1>3, PTL DEF Spec

\* What the allocator hands out shares no word with what anyone has: the runtime's
\* heap does what a heap promises.
THEOREM HeapIsHeap == Spec => HandsOutApart
  <1>1. Init => ProgramInv
    BY ProgramInit
  <1>2. ProgramInv /\ [Next]_vars => ProgramInv'
    BY ProgramStep
  <1>3. Init => H!Init
    BY DEF Init, EmptyHeap, H!Init
  <1>4. ProgramInv /\ [Next]_vars => [H!HandOutAndTakeBack]_(heap.live)
    BY ProgramStep DEF Handed
  <1> QED BY <1>1, <1>2, <1>3, <1>4, PTL DEF Spec, HandsOutApart, H!Spec

\* A program that joins no array onto itself, and writes no array in place while a
\* walk over it is under way, sees plain values: whatever memory an array lies in
\* and moves to, what is done to one name is done to no other, and a join is not
\* seen half done (the routines of rt_portable.ngpl and rt_x86_64.ngpl).  What
\* a walk took is left alone by all the rest: new arrays for its name, joins that
\* move other arrays, slots that are given back and handed out again.
THEOREM ArraysArePlain == ~SelfJoin /\ ~WritesWalked => (Spec => ArraysAreValues)
  <1> SUFFICES ASSUME ~SelfJoin, ~WritesWalked
               PROVE  Spec => ArraysAreValues
    OBVIOUS
  <1>1. Init => ProgramInv /\ JoinSeen
    BY ProgramInit, ValuesInit
  <1>2. ProgramInv /\ JoinSeen /\ [Next]_vars => (ProgramInv /\ JoinSeen)'
    BY ProgramStep, ValuesStep
  <1>3. Init => V!Init
    BY ValuesInit
  <1>4. ProgramInv /\ JoinSeen /\ [Next]_vars => [V!Next]_(V!vars)
    BY ValuesStep
  <1> QED BY <1>1, <1>2, <1>3, <1>4, PTL DEF Spec, ArraysAreValues, V!Spec

===============================================================================
