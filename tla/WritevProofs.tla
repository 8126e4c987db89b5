---------------------------- MODULE WritevProofs ----------------------------
(***************************************************************************)
(* The vectored write, for every number of runs of whatever lengths and    *)
(* wherever the kernel stops.                                              *)
(***************************************************************************)
EXTENDS Writev, Flattening

-----------------------------------------------------------------------------
\* Sequences.

\* What is put behind the first is the rest, put one behind the other.
LEMMA HeadFirst ==
  ASSUME NEW S, NEW s \in Seq(Seq(S)), s # <<>>
  PROVE  FlattenSeq(s) = s[1] \o FlattenSeq(Tail(s))
  <1> DEFINE t == Tail(s)
             h == s[1]
             F == FlattenSeq(s)
             G == FlattenSeq(t)
             K == Len(s)
  <1>1. /\ K \in Nat /\ K >= 1 /\ h \in Seq(S) /\ t \in Seq(Seq(S)) /\ Len(t) = K - 1
        /\ \A i \in 1 .. K - 1 : t[i] = s[i + 1]
    OBVIOUS
  <1>2. F \in Seq(S) /\ G \in Seq(S)
    BY <1>1, Flattened
  <1>3. PICK at : Places(at, s, F)
    BY Flattened
  <1>4. PICK bt : Places(bt, t, G)
    BY <1>1, Flattened
  <1> HIDE DEF t, h, F, G, K
  <1> DEFINE L == Len(h)
  <1>5. /\ L \in Nat /\ at \in [0 .. K -> Nat] /\ bt \in [0 .. K - 1 -> Nat]
        /\ at[0] = 0 /\ at[1] = at[0] + L /\ bt[0] = 0
    <2>1. at \in [0 .. K -> Nat] /\ at[0] = 0 /\ \A i \in 1 .. K : at[i] = at[i - 1] + Len(s[i])
      BY <1>3 DEF Places, K
    <2>2. bt \in [0 .. K - 1 -> Nat] /\ bt[0] = 0
      BY <1>1, <1>4 DEF Places
    <2>3. 1 \in 1 .. K /\ 1 - 1 = 0
      BY <1>1
    <2> QED BY <1>1, <2>1, <2>2, <2>3 DEF h
  <1>6. /\ \A i \in 1 .. K - 1 : at[i + 1] = at[i] + Len(s[i + 1])
        /\ \A i \in 1 .. K - 1 : bt[i] = bt[i - 1] + Len(s[i + 1])
    <2>1. \A i \in 1 .. K : at[i] = at[i - 1] + Len(s[i])
      BY <1>3 DEF Places, K
    <2>2. \A i \in 1 .. K - 1 : bt[i] = bt[i - 1] + Len(t[i])
      BY <1>1, <1>4 DEF Places
    <2>3. \A i \in 1 .. K - 1 : i + 1 \in 1 .. K /\ (i + 1) - 1 = i
      BY <1>1
    <2> QED BY <1>1, <2>1, <2>2, <2>3
  <1> DEFINE Bad == {i \in 0 .. K - 1 : at[i + 1] # L + bt[i]}
  <1>7. \A i \in 0 .. K - 1 : at[i + 1] = L + bt[i]
    <2>1. SUFFICES ASSUME Bad # {}
                   PROVE  FALSE
      OBVIOUS
    <2>2. PICK i \in Bad : \A j \in Bad : i <= j
      <3>1. Bad \subseteq Nat
        BY <1>1
      <3> HIDE DEF Bad
      <3> QED BY <2>1, <3>1, LeastOf
    <2>3. i \in 0 .. K - 1 /\ at[i + 1] # L + bt[i]
      OBVIOUS
    <2>4. i # 0
      BY <1>5, <2>3
    <2>5. i - 1 \in 0 .. K - 1 /\ i \in 1 .. K - 1 /\ ~(i <= i - 1) /\ (i - 1) + 1 = i
      BY <1>1, <2>3, <2>4
    <2>6. at[(i - 1) + 1] = L + bt[i - 1]
      BY <2>2, <2>5
    <2>7. at[i + 1] = at[i] + Len(s[i + 1]) /\ bt[i] = bt[i - 1] + Len(s[i + 1])
      BY <1>6, <2>5
    <2>8. bt[i - 1] \in Nat /\ Len(s[i + 1]) \in Nat
      <3>1. i + 1 \in 1 .. K
        BY <1>1, <2>5
      <3>2. s[i + 1] \in Seq(S)
        BY <3>1 DEF K
      <3>3. bt[i - 1] \in Nat
        BY <1>5, <2>5
      <3>4. Len(s[i + 1]) \in Nat
        BY <3>2
      <3> QED BY <3>3, <3>4
    <2> DEFINE a == at[i + 1]
               b == at[i]
               c == bt[i]
               d == bt[i - 1]
               e == Len(s[i + 1])
    <2>9. a = b + e /\ c = d + e /\ b = L + d /\ d \in Nat /\ e \in Nat /\ a # L + c
      BY <2>3, <2>5, <2>6, <2>7, <2>8
    <2> HIDE DEF a, b, c, d, e, L
    <2> QED BY <1>5, <2>9
  <1> HIDE DEF L
  <1>8. Len(F) = L + Len(G)
    <2>1. Len(F) = at[K] /\ Len(G) = bt[K - 1]
      BY <1>1, <1>3, <1>4 DEF Places, K
    <2>2. K - 1 \in 0 .. K - 1 /\ (K - 1) + 1 = K
      BY <1>1
    <2> QED BY <1>7, <2>1, <2>2
  <1>9. /\ h \o G \in Seq(S) /\ Len(h \o G) = L + Len(G)
        /\ \A i \in 1 .. L : (h \o G)[i] = h[i]
        /\ \A i \in 1 .. Len(G) : (h \o G)[L + i] = G[i]
    BY <1>1, <1>2, Behind DEF L
  <1>10. ASSUME NEW n \in 1 .. Len(F)
         PROVE  F[n] = (h \o G)[n]
    <2>1. PICK i \in 1 .. Len(s) : \E k \in 1 .. Len(s[i]) : n = at[i - 1] + k
      BY <1>3 DEF Places
    <2>2. PICK k \in 1 .. Len(s[i]) : n = at[i - 1] + k
      BY <2>1
    <2>3. F[n] = s[i][k]
      BY <1>3, <2>2 DEF Places
    <2>4. i \in 1 .. K
      BY DEF K
    <2>5. CASE i = 1
      <3>1. n = k /\ k \in 1 .. L /\ s[i] = h
        <4>1. s[i] = h /\ at[i - 1] = 0
          BY <1>5, <2>5 DEF h
        <4> QED BY <2>2, <4>1 DEF L
      <3> QED BY <1>9, <2>3, <3>1
    <2>6. CASE i # 1
      <3>1. i - 1 \in 1 .. K - 1 /\ i - 2 \in 0 .. K - 1 /\ (i - 2) + 1 = i - 1 /\ (i - 1) - 1 = i - 2
            /\ (i - 1) + 1 = i
        BY <1>1, <2>4, <2>6
      <3>2. at[i - 1] = L + bt[i - 2]
        <4>1. at[(i - 2) + 1] = L + bt[i - 2]
          BY <1>7, <3>1
        <4> QED BY <3>1, <4>1
      <3>3. t[i - 1] = s[i]
        <4>1. t[i - 1] = s[(i - 1) + 1]
          BY <1>1, <3>1
        <4> QED BY <3>1, <4>1
      <3>4. k \in 1 .. Len(t[i - 1])
        BY <3>3
      <3>5. G[bt[i - 2] + k] = t[i - 1][k] /\ bt[i - 1] <= Len(G) /\ bt[i - 1] = bt[i - 2] + Len(t[i - 1])
        <4>1. i - 1 \in 1 .. Len(t)
          BY <1>1, <3>1
        <4>2. /\ \A k1 \in 1 .. Len(t[i - 1]) : G[bt[(i - 1) - 1] + k1] = t[i - 1][k1]
              /\ bt[i - 1] <= Len(G) /\ bt[i - 1] = bt[(i - 1) - 1] + Len(t[i - 1])
          BY <1>4, <4>1 DEF Places
        <4> QED BY <3>1, <3>4, <4>2
      <3> DEFINE m == bt[i - 2] + k
                 o == bt[i - 2]
                 l == Len(t[i - 1])
                 g == Len(G)
      <3>6. o \in Nat /\ l \in Nat /\ g \in Nat /\ k \in 1 .. l /\ o + l <= g /\ m = o + k
            /\ n = (L + o) + k
        <4>1. o \in Nat
          BY <1>5, <3>1
        <4>2. l \in Nat
          <5>1. s[i] \in Seq(S)
            OBVIOUS
          <5> QED BY <3>3, <5>1
        <4> QED BY <1>2, <2>2, <3>2, <3>4, <3>5, <4>1, <4>2
      <3>7. m \in 1 .. Len(G) /\ n = L + m
        <4>1. m \in 1 .. g /\ n = L + m
          <5> HIDE DEF m, o, l, g
          <5> QED BY <1>5, <3>6
        <4> QED BY <4>1
      <3>8. (h \o G)[L + m] = G[m]
        <4> HIDE DEF m
        <4> QED BY <1>9, <3>7
      <3>9. G[m] = s[i][k]
        BY <3>3, <3>5
      <3> HIDE DEF m
      <3> QED BY <2>3, <3>7, <3>8, <3>9
    <2> QED BY <2>5, <2>6
  <1>11. F = h \o G
    BY <1>2, <1>8, <1>9, <1>10, AllAlike
  <1> QED BY <1>11 DEF F, G, h, t
-----------------------------------------------------------------------------
\* What the entries of a vector name, of the runs g.

Entry(g) ==
  {e \in [run : Nat, base : Nat, len : Nat] :
     e.run \in DOMAIN g /\ e.base + e.len <= Len(g[e.run])}
HeldOf(g, e) == SubSeq(g[e.run], e.base + 1, e.base + e.len)
Pieces(g, vec) == [i \in DOMAIN vec |-> HeldOf(g, vec[i])]

LEMMA EntryHolds ==
  ASSUME NEW C, NEW g \in Seq(Seq(C)), NEW e \in Entry(g)
  PROVE  /\ HeldOf(g, e) \in Seq(C) /\ Len(HeldOf(g, e)) = e.len
         /\ \A k \in 1 .. e.len : HeldOf(g, e)[k] = g[e.run][e.base + k]
  <1>1. g[e.run] \in Seq(C) /\ e.base \in Nat /\ e.len \in Nat /\ e.base + e.len <= Len(g[e.run])
    BY DEF Entry
  <1> QED BY <1>1, Cut DEF HeldOf

LEMMA PiecesAre ==
  ASSUME NEW C, NEW g \in Seq(Seq(C)), NEW vec \in Seq(Entry(g))
  PROVE  Pieces(g, vec) \in Seq(Seq(C)) /\ Len(Pieces(g, vec)) = Len(vec)
  <1>1. \A i \in DOMAIN vec : HeldOf(g, vec[i]) \in Seq(C)
    BY EntryHolds
  <1>2. DOMAIN vec = 1 .. Len(vec) /\ Len(vec) \in Nat
    OBVIOUS
  <1> QED BY <1>1, <1>2 DEF Pieces

\* What is named is what the first names and then what the others do.
LEMMA FirstPiece ==
  ASSUME NEW C, NEW g \in Seq(Seq(C)), NEW vec \in Seq(Entry(g)), vec # <<>>
  PROVE  FlattenSeq(Pieces(g, vec)) = HeldOf(g, vec[1]) \o FlattenSeq(Pieces(g, Tail(vec)))
  <1> DEFINE s == Pieces(g, vec)
  <1>1. s \in Seq(Seq(C)) /\ Len(s) = Len(vec) /\ Len(vec) \in Nat /\ Len(vec) >= 1
    BY PiecesAre
  <1>2. s[1] = HeldOf(g, vec[1])
    BY <1>1 DEF Pieces
  <1>3. Tail(s) = Pieces(g, Tail(vec))
    <2>1. /\ Tail(vec) \in Seq(Entry(g)) /\ Len(Tail(vec)) = Len(vec) - 1
          /\ \A i \in 1 .. Len(vec) - 1 : Tail(vec)[i] = vec[i + 1]
      BY <1>1
    <2>2. Pieces(g, Tail(vec)) \in Seq(Seq(C)) /\ Len(Pieces(g, Tail(vec))) = Len(vec) - 1
      BY <2>1, PiecesAre
    <2>3. /\ Tail(s) \in Seq(Seq(C)) /\ Len(Tail(s)) = Len(vec) - 1
          /\ \A i \in 1 .. Len(vec) - 1 : Tail(s)[i] = s[i + 1]
      <3> HIDE DEF s
      <3> QED BY <1>1
    <2>4. \A i \in 1 .. Len(vec) - 1 : Tail(s)[i] = Pieces(g, Tail(vec))[i]
      <3> TAKE i \in 1 .. Len(vec) - 1
      <3>1. i + 1 \in DOMAIN vec /\ i \in DOMAIN Tail(vec)
        BY <1>1, <2>1
      <3>2. s[i + 1] = HeldOf(g, vec[i + 1])
        BY <3>1 DEF Pieces
      <3>3. Pieces(g, Tail(vec))[i] = HeldOf(g, Tail(vec)[i])
        BY <3>1 DEF Pieces
      <3> QED BY <2>1, <2>3, <3>2, <3>3
    <2> HIDE DEF s
    <2> QED BY <2>2, <2>3, <2>4, AllAlike
  <1>4. s # <<>>
    BY <1>1
  <1> HIDE DEF s
  <1>5. FlattenSeq(s) = s[1] \o FlattenSeq(Tail(s))
    BY <1>1, <1>4, HeadFirst
  <1> QED BY <1>2, <1>3, <1>5 DEF s

LEMMA NonePiece ==
  ASSUME NEW g
  PROVE  FlattenSeq(Pieces(g, <<>>)) = <<>>
  <1>1. Pieces(g, <<>>) = <<>>
    BY DEF Pieces
  <1> QED BY <1>1 DEF FlattenSeq

\* The kernel counts what the vector names.
LEMMA Counted ==
  ASSUME NEW C, given \in Seq(Seq(C)), iov \in Seq(Entry(given))
  PROVE  Length = Len(Content(iov))
  <1> DEFINE s == Pieces(given, iov)
             K == Len(iov)
             Ok(u) == u = [i \in 0 .. K |-> IF i = 0 THEN 0 ELSE u[i - 1] + iov[i].len]
  <1>1. Content(iov) = FlattenSeq(s)
    BY DEF Content, Held, Pieces, HeldOf
  <1>2. s \in Seq(Seq(C)) /\ Len(s) = K /\ K \in Nat
    BY PiecesAre
  <1>3. PICK at : Places(at, s, FlattenSeq(s))
    <2> HIDE DEF s
    <2> QED BY <1>2, Flattened
  <1>4. \A i \in 1 .. K : Len(s[i]) = iov[i].len
    <2> TAKE i \in 1 .. K
    <2>1. i \in DOMAIN iov /\ iov[i] \in Entry(given)
      OBVIOUS
    <2>2. s[i] = HeldOf(given, iov[i])
      BY <2>1 DEF Pieces
    <2> QED BY <2>1, <2>2, EntryHolds
  <1> HIDE DEF s
  <1>5. /\ at \in [0 .. K -> Nat] /\ at[0] = 0 /\ Len(FlattenSeq(s)) = at[K]
        /\ \A i \in 1 .. K : at[i] = at[i - 1] + iov[i].len
    BY <1>2, <1>3, <1>4 DEF Places
  <1>6. Ok(at)
    <2>1. \A i \in 0 .. K : at[i] = IF i = 0 THEN 0 ELSE at[i - 1] + iov[i].len
      BY <1>2, <1>5
    <2>2. at = [i \in 0 .. K |-> at[i]]
      BY <1>5
    <2> QED BY <2>1, <2>2
  <1>7. UpTo = CHOOSE u : Ok(u)
    BY DEF UpTo
  <1>8. Ok(UpTo)
    <2>1. \E u : Ok(u)
      BY <1>6
    <2> HIDE DEF Ok
    <2> QED BY Zenon, <1>7, <2>1
  <1>9. \A i \in 0 .. K : UpTo[i] = IF i = 0 THEN 0 ELSE UpTo[i - 1] + iov[i].len
    BY <1>8
  <1> HIDE DEF Ok
  <1> DEFINE Bad == {i \in 0 .. K : UpTo[i] # at[i]}
  <1>10. Bad = {}
    <2>1. SUFFICES ASSUME Bad # {}
                   PROVE  FALSE
      OBVIOUS
    <2>2. PICK i \in Bad : \A j \in Bad : i <= j
      <3>1. Bad \subseteq Nat
        BY <1>2
      <3> HIDE DEF Bad
      <3> QED BY <2>1, <3>1, LeastOf
    <2>3. i \in 0 .. K /\ UpTo[i] # at[i]
      OBVIOUS
    <2>4. i # 0
      BY <1>5, <1>9, <2>3
    <2>5. i - 1 \in 0 .. K /\ i \in 1 .. K /\ ~(i <= i - 1)
      BY <1>2, <2>3, <2>4
    <2>6. UpTo[i - 1] = at[i - 1]
      BY <2>2, <2>5
    <2>7. UpTo[i] = UpTo[i - 1] + iov[i].len /\ at[i] = at[i - 1] + iov[i].len
      BY <1>5, <1>9, <2>3, <2>4, <2>5
    <2> QED BY <2>3, <2>6, <2>7
  <1>11. UpTo[K] = at[K]
    <2>1. K \in 0 .. K
      BY <1>2
    <2> QED BY <1>10, <2>1
  <1> QED BY <1>1, <1>5, <1>11 DEF Length

-----------------------------------------------------------------------------
\* Parts of a sequence.

LEMMA InTwo ==
  ASSUME NEW C, NEW s \in Seq(C), NEW n \in 0 .. Len(s)
  PROVE  /\ SubSeq(s, 1, n) \in Seq(C) /\ SubSeq(s, n + 1, Len(s)) \in Seq(C)
         /\ SubSeq(s, 1, n) \o SubSeq(s, n + 1, Len(s)) = s
  <1>0. PICK z \in Nat : z = 0
    OBVIOUS
  <1> DEFINE a == SubSeq(s, z + 1, z + n)
             w == Len(s) - n
             b == SubSeq(s, n + 1, n + w)
  <1>1. Len(s) \in Nat /\ n \in Nat /\ Len(s) - n \in Nat /\ n + (Len(s) - n) = Len(s)
        /\ z + n <= Len(s) /\ z + n = n /\ z + 1 = 1
    BY <1>0
  <1>2. a \in Seq(C) /\ Len(a) = n /\ \A k \in 1 .. n : a[k] = s[z + k]
    BY <1>1, Cut
  <1>3. b \in Seq(C) /\ Len(b) = Len(s) - n /\ \A k \in 1 .. Len(s) - n : b[k] = s[n + k]
    <2>1. n \in Nat /\ w \in Nat /\ n + w <= Len(s)
      BY <1>1
    <2> HIDE DEF w
    <2>2. b \in Seq(C) /\ Len(b) = w /\ \A k \in 1 .. w : b[k] = s[n + k]
      BY <2>1, Cut
    <2> QED BY <2>2 DEF w
  <1>4. a = SubSeq(s, 1, n) /\ b = SubSeq(s, n + 1, Len(s))
    BY <1>1
  <1> HIDE DEF a, b
  <1>5. /\ a \o b \in Seq(C) /\ Len(a \o b) = n + (Len(s) - n)
        /\ \A i \in 1 .. n : (a \o b)[i] = a[i]
        /\ \A i \in 1 .. Len(s) - n : (a \o b)[n + i] = b[i]
    BY <1>2, <1>3, Behind
  <1>6. \A i \in 1 .. Len(s) : (a \o b)[i] = s[i]
    <2> TAKE i \in 1 .. Len(s)
    <2>1. CASE i <= n
      <3>1. i \in 1 .. n /\ z + i = i
        BY <1>0, <1>1, <2>1
      <3> QED BY <1>2, <1>5, <3>1
    <2>2. CASE ~(i <= n)
      <3>1. i - n \in 1 .. Len(s) - n /\ n + (i - n) = i
        BY <1>1, <2>2
      <3>2. (a \o b)[n + (i - n)] = b[i - n] /\ b[i - n] = s[n + (i - n)]
        BY <1>3, <1>5, <3>1
      <3> QED BY <3>1, <3>2
    <2> QED BY <2>1, <2>2
  <1>7. a \o b = s
    BY <1>1, <1>5, <1>6, AllAlike
  <1> QED BY <1>2, <1>3, <1>4, <1>7

\* What is behind a place of two sequences, one behind the other.
LEMMA PastFirst ==
  ASSUME NEW C, NEW h \in Seq(C), NEW t \in Seq(C), NEW n \in Nat, n <= Len(h) + Len(t)
  PROVE  /\ n >= Len(h) => SubSeq(h \o t, n + 1, Len(h \o t)) = SubSeq(t, n - Len(h) + 1, Len(t))
         /\ n <= Len(h) => SubSeq(h \o t, n + 1, Len(h \o t)) = SubSeq(h, n + 1, Len(h)) \o t
  <1> DEFINE s == h \o t
             L == Len(h)
             M == Len(t)
             w == L + M - n
             b == SubSeq(s, n + 1, n + w)
  <1>1. L \in Nat /\ M \in Nat /\ L + M - n \in Nat /\ n + (L + M - n) = L + M
    OBVIOUS
  <1>2. /\ s \in Seq(C) /\ Len(s) = L + M
        /\ \A i \in 1 .. L : s[i] = h[i]
        /\ \A i \in 1 .. M : s[L + i] = t[i]
    BY Behind
  <1> HIDE DEF s
  <1>3. b \in Seq(C) /\ Len(b) = L + M - n /\ \A k \in 1 .. L + M - n : b[k] = s[n + k]
    <2>1. n + w <= Len(s)
      BY <1>1, <1>2
    <2>2. w \in Nat
      BY <1>1
    <2>3. s \in Seq(C)
      BY <1>2
    <2> HIDE DEF w
    <2>4. b \in Seq(C) /\ Len(b) = w /\ \A k \in 1 .. w : b[k] = s[n + k]
      BY <2>1, <2>2, <2>3, Cut
    <2> QED BY <2>4 DEF w
  <1>4. b = SubSeq(s, n + 1, Len(s))
    BY <1>1, <1>2
  <1> HIDE DEF b
  <1>5. ASSUME n >= L
        PROVE  b = SubSeq(t, n - L + 1, M)
    <2> DEFINE m == n - L
               c == SubSeq(t, m + 1, m + (M - m))
    <2>1. m \in Nat /\ M - m \in Nat /\ m + (M - m) = M /\ M - m = L + M - n
      BY <1>1, <1>5
    <2>2. m + (M - m) <= Len(t)
      BY <1>1, <2>1
    <2> HIDE DEF m
    <2>3. c \in Seq(C) /\ Len(c) = M - m /\ \A k \in 1 .. M - m : c[k] = t[m + k]
      BY <2>1, <2>2, Cut
    <2>4. c = SubSeq(t, m + 1, M)
      BY <2>1
    <2> HIDE DEF c
    <2>5. \A k \in 1 .. M - m : b[k] = c[k]
      <3> TAKE k \in 1 .. M - m
      <3>1. k \in 1 .. L + M - n /\ m + k \in 1 .. M /\ n + k = L + (m + k)
        BY <1>1, <2>1 DEF m
      <3>2. b[k] = s[n + k] /\ s[L + (m + k)] = t[m + k] /\ c[k] = t[m + k]
        BY <1>2, <1>3, <2>3, <3>1
      <3> QED BY <3>1, <3>2
    <2>6. b = c
      BY <1>3, <2>1, <2>3, <2>5, AllAlike
    <2> QED BY <2>4, <2>6 DEF m
  <1>6. ASSUME n <= L
        PROVE  b = SubSeq(h, n + 1, L) \o t
    <2> DEFINE c == SubSeq(h, n + 1, n + (L - n))
    <2>1. L - n \in Nat /\ n + (L - n) = L /\ (L - n) + M = L + M - n
      BY <1>1, <1>6
    <2>2. n + (L - n) <= Len(h)
      BY <1>1, <2>1
    <2>3. c \in Seq(C) /\ Len(c) = L - n /\ \A k \in 1 .. L - n : c[k] = h[n + k]
      BY <2>1, <2>2, Cut
    <2>4. c = SubSeq(h, n + 1, L)
      BY <2>1
    <2> HIDE DEF c
    <2>5. /\ c \o t \in Seq(C) /\ Len(c \o t) = (L - n) + M
          /\ \A i \in 1 .. L - n : (c \o t)[i] = c[i]
          /\ \A i \in 1 .. M : (c \o t)[(L - n) + i] = t[i]
      <3>1. c \in Seq(C)
        BY <2>3
      <3>2. /\ c \o t \in Seq(C) /\ Len(c \o t) = Len(c) + Len(t)
            /\ \A i \in 1 .. Len(c) : (c \o t)[i] = c[i]
            /\ \A i \in 1 .. Len(t) : (c \o t)[Len(c) + i] = t[i]
        BY <3>1, Behind
      <3> QED BY <2>3, <3>2
    <2>6. \A k \in 1 .. L + M - n : b[k] = (c \o t)[k]
      <3> TAKE k \in 1 .. L + M - n
      <3>1. CASE k <= L - n
        <4>1. k \in 1 .. L - n /\ n + k \in 1 .. L
          BY <1>1, <2>1, <3>1
        <4>2. b[k] = s[n + k] /\ s[n + k] = h[n + k] /\ c[k] = h[n + k] /\ (c \o t)[k] = c[k]
          BY <1>2, <1>3, <2>3, <2>5, <4>1
        <4> QED BY <4>2
      <3>2. CASE ~(k <= L - n)
        <4> DEFINE j == k - (L - n)
        <4>1. j \in 1 .. M /\ k = (L - n) + j /\ n + k = L + j
          BY <1>1, <2>1, <3>2
        <4> HIDE DEF j
        <4>2. b[k] = s[n + k] /\ s[L + j] = t[j] /\ (c \o t)[(L - n) + j] = t[j]
          BY <1>2, <1>3, <2>5, <4>1
        <4> QED BY <4>1, <4>2
      <3> QED BY <3>1, <3>2
    <2>7. b = c \o t
      BY <1>3, <2>1, <2>5, <2>6, AllAlike
    <2> QED BY <2>4, <2>7
  <1> QED BY <1>4, <1>5, <1>6 DEF s
-----------------------------------------------------------------------------
\* The write.

Left(g, vec) == FlattenSeq(Pieces(g, vec))
Rest(s, n) == SubSeq(s, n + 1, Len(s))

\* What is written and what is left are the runs, at a call; between calls what
\* the kernel took of the vector is not walked off yet.
WriteInv(C) ==
  /\ given \in Seq(Seq(C)) /\ iov \in Seq(Entry(given)) /\ rax \in Nat /\ file \in Seq(C)
  /\ w_pc = "idle" => file = <<>>
  /\ w_pc = "done" => iov = <<>>
  /\ w_pc \in {"write", "done", "bad"} => file \o Left(given, iov) = FlattenSeq(given)
  /\ w_pc = "consume" =>
       /\ rax <= Len(Left(given, iov))
       /\ file \o Rest(Left(given, iov), rax) = FlattenSeq(given)

LEMMA ContentIs == Content(iov) = Left(given, iov)
  BY DEF Content, Held, Left, Pieces, HeldOf

LEMMA LeftIs ==
  ASSUME NEW C, NEW g \in Seq(Seq(C)), NEW vec \in Seq(Entry(g))
  PROVE  /\ Left(g, vec) \in Seq(C)
         /\ vec # <<>> =>
              /\ vec[1] \in Entry(g) /\ Tail(vec) \in Seq(Entry(g))
              /\ HeldOf(g, vec[1]) \in Seq(C) /\ Len(HeldOf(g, vec[1])) = vec[1].len
              /\ Left(g, Tail(vec)) \in Seq(C)
              /\ Left(g, vec) = HeldOf(g, vec[1]) \o Left(g, Tail(vec))
  <1>1. ASSUME NEW v \in Seq(Entry(g))
        PROVE  Left(g, v) \in Seq(C)
    <2>1. Pieces(g, v) \in Seq(Seq(C))
      BY PiecesAre
    <2> QED BY <2>1, Flattened DEF Left
  <1>2. ASSUME vec # <<>>
        PROVE  vec[1] \in Entry(g) /\ Tail(vec) \in Seq(Entry(g))
    BY <1>2
  <1>3. ASSUME vec # <<>>
        PROVE  HeldOf(g, vec[1]) \in Seq(C) /\ Len(HeldOf(g, vec[1])) = vec[1].len
    BY <1>2, <1>3, EntryHolds
  <1>4. ASSUME vec # <<>>
        PROVE  Left(g, vec) = HeldOf(g, vec[1]) \o Left(g, Tail(vec))
    BY <1>4, FirstPiece DEF Left
  <1> QED BY <1>1, <1>2, <1>3, <1>4

\* The vector that is filled names the runs.
LEMMA FillStep ==
  ASSUME NEW C, WriteInv(C), NEW rs \in Seq(Seq(C)), Fill(rs)
  PROVE  WriteInv(C)'
  <1> DEFINE vec == [i \in DOMAIN rs |-> [run |-> i, base |-> 0, len |-> Len(rs[i])]]
  <1>1. /\ w_pc = "idle" /\ given' = rs /\ iov' = vec /\ w_pc' = "write"
        /\ rax' = rax /\ file' = file
    BY DEF Fill
  <1>2. file' = <<>> /\ rax' \in Nat
    BY <1>1 DEF WriteInv
  <1>3. Len(rs) \in Nat /\ DOMAIN rs = 1 .. Len(rs) /\ \A i \in DOMAIN rs : rs[i] \in Seq(C)
    OBVIOUS
  <1>4. \A i \in DOMAIN rs : vec[i] \in Entry(rs) /\ HeldOf(rs, vec[i]) = rs[i]
    <2> TAKE i \in DOMAIN rs
    <2> DEFINE r == rs[i]
    <2>1. i \in Nat /\ r \in Seq(C)
      BY <1>3
    <2>2. vec[i].run = i /\ vec[i].base = 0 /\ vec[i].len = Len(r)
          /\ vec[i] \in [run : Nat, base : Nat, len : Nat]
      BY <2>1
    <2>3. Len(r) \in Nat /\ 0 + Len(r) <= Len(r) /\ 0 + Len(r) = Len(r) /\ 0 + 1 = 1
      BY <2>1
    <2>4. SubSeq(r, 1, Len(r)) = r
      <3> HIDE DEF r
      <3> QED BY <2>1
    <2> QED BY <2>2, <2>3, <2>4 DEF Entry, HeldOf
  <1>5. vec \in Seq(Entry(rs)) /\ Len(vec) = Len(rs)
    BY <1>3, <1>4
  <1>6. Pieces(rs, vec) = rs
    <2>1. Pieces(rs, vec) = [i \in DOMAIN rs |-> HeldOf(rs, vec[i])]
      BY DEF Pieces
    <2>2. rs = [i \in DOMAIN rs |-> rs[i]]
      OBVIOUS
    <2> HIDE DEF vec
    <2> QED BY <1>4, <2>1, <2>2
  <1> HIDE DEF vec
  <1>7. Left(rs, vec) = FlattenSeq(rs) /\ Left(rs, vec) \in Seq(C)
    BY <1>5, <1>6, LeftIs DEF Left
  <1>8. file' \o Left(rs, vec) = FlattenSeq(rs)
    BY <1>2, <1>7
  <1>9. <<>> \in Seq(C)
    OBVIOUS
  <1> QED BY <1>1, <1>2, <1>5, <1>8, <1>9 DEF WriteInv

\* What the kernel took is behind what was written, and before what is left.
LEMMA TakesStep ==
  ASSUME NEW C, WriteInv(C), NEW n \in 0 .. Length, Takes(n)
  PROVE  WriteInv(C)'
  <1> DEFINE left == Left(given, iov)
  <1>1. /\ w_pc = "write" /\ rax' = n /\ w_pc' = "consume" /\ given' = given /\ iov' = iov
        /\ file' = file \o SubSeq(left, 1, n)
    BY ContentIs DEF Takes
  <1>2. /\ given \in Seq(Seq(C)) /\ iov \in Seq(Entry(given)) /\ file \in Seq(C)
        /\ file \o left = FlattenSeq(given)
    BY <1>1 DEF WriteInv
  <1>3. Length = Len(left)
    BY <1>2, Counted, ContentIs
  <1>4. left \in Seq(C)
    BY <1>2, LeftIs
  <1> HIDE DEF left
  <1>5. n \in 0 .. Len(left) /\ n \in Nat /\ n <= Len(left)
    BY <1>3, <1>4
  <1>6. /\ SubSeq(left, 1, n) \in Seq(C) /\ Rest(left, n) \in Seq(C)
        /\ SubSeq(left, 1, n) \o Rest(left, n) = left
    BY <1>4, <1>5, InTwo DEF Rest
  <1>7. file' \in Seq(C)
    BY <1>1, <1>2, <1>6
  <1>8. file' \o Rest(left, n) = FlattenSeq(given)
    <2> DEFINE a == SubSeq(left, 1, n)
               b == Rest(left, n)
    <2> HIDE DEF a, b
    <2>1. (file \o a) \o b = file \o (a \o b)
      <3>1. file \in Seq(C) /\ a \in Seq(C) /\ b \in Seq(C)
        BY <1>2, <1>6 DEF a, b
      <3> QED BY <3>1, ConcatAssociative
    <2>2. a \o b = left /\ file' = file \o a
      BY <1>1, <1>6 DEF a, b
    <2> QED BY <1>2, <2>1, <2>2 DEF b
  <1> QED BY <1>1, <1>2, <1>5, <1>7, <1>8 DEF WriteInv, left

\* An entry that was finished is nothing of what is left.
LEMMA DropStep ==
  ASSUME NEW C, WriteInv(C), Drop
  PROVE  WriteInv(C)'
  <1> DEFINE h == HeldOf(given, iov[1])
             t == Left(given, Tail(iov))
             left == Left(given, iov)
  <1>1. /\ w_pc = "consume" /\ iov # <<>> /\ rax >= iov[1].len /\ rax' = rax - iov[1].len
        /\ iov' = Tail(iov) /\ given' = given /\ file' = file /\ w_pc' = "consume"
    BY DEF Drop
  <1>2. /\ given \in Seq(Seq(C)) /\ iov \in Seq(Entry(given)) /\ file \in Seq(C) /\ rax \in Nat
        /\ rax <= Len(left) /\ file \o Rest(left, rax) = FlattenSeq(given)
    BY <1>1 DEF WriteInv
  <1>3. /\ h \in Seq(C) /\ Len(h) = iov[1].len /\ t \in Seq(C) /\ left = h \o t
        /\ Tail(iov) \in Seq(Entry(given))
    BY <1>1, <1>2, LeftIs
  <1> HIDE DEF h, t, left
  <1>4. Len(left) = Len(h) + Len(t) /\ Len(h) \in Nat /\ Len(t) \in Nat
    BY <1>3
  <1>5. rax - Len(h) \in Nat /\ rax - Len(h) <= Len(t) /\ rax <= Len(h) + Len(t) /\ rax >= Len(h)
    BY <1>1, <1>2, <1>3, <1>4
  <1>6. SubSeq(h \o t, rax + 1, Len(h \o t)) = SubSeq(t, rax - Len(h) + 1, Len(t))
    BY <1>2, <1>3, <1>5, PastFirst
  <1>7. Rest(left, rax) = Rest(t, rax')
    BY <1>1, <1>3, <1>6 DEF Rest
  <1>8. rax' \in Nat /\ rax' <= Len(t)
    BY <1>1, <1>3, <1>5
  <1> QED BY <1>1, <1>2, <1>3, <1>7, <1>8 DEF WriteInv, t

\* The entry the kernel stopped in names what it left of it.
LEMMA ShortenStep ==
  ASSUME NEW C, WriteInv(C), Shorten
  PROVE  WriteInv(C)'
  <1> DEFINE e == iov[1]
             h == HeldOf(given, e)
             t == Left(given, Tail(iov))
             left == Left(given, iov)
             new == [e EXCEPT !.base = @ + rax, !.len = @ - rax]
  <1>1. /\ w_pc = "consume" /\ iov # <<>> /\ rax < e.len /\ rax' = 0
        /\ iov' = [iov EXCEPT ![1].base = @ + rax, ![1].len = @ - rax]
        /\ given' = given /\ file' = file /\ w_pc' = "write"
    BY DEF Shorten
  <1>2. /\ given \in Seq(Seq(C)) /\ iov \in Seq(Entry(given)) /\ file \in Seq(C) /\ rax \in Nat
        /\ rax <= Len(left) /\ file \o Rest(left, rax) = FlattenSeq(given)
    BY <1>1 DEF WriteInv
  <1>3. /\ h \in Seq(C) /\ Len(h) = e.len /\ t \in Seq(C) /\ left = h \o t
        /\ Tail(iov) \in Seq(Entry(given)) /\ e \in Entry(given)
    BY <1>1, <1>2, LeftIs
  <1> DEFINE g == given[e.run]
  <1>4. /\ e.run \in DOMAIN given /\ e.run \in Nat /\ e.base \in Nat /\ e.len \in Nat
        /\ e.base + e.len <= Len(g) /\ g \in Seq(C) /\ e \in [run : Nat, base : Nat, len : Nat]
    <2> HIDE DEF e
    <2>1. /\ e.run \in DOMAIN given /\ e.base + e.len <= Len(g)
          /\ e \in [run : Nat, base : Nat, len : Nat]
      BY <1>3 DEF Entry
    <2>2. e.run \in Nat /\ e.base \in Nat /\ e.len \in Nat
      BY <2>1
    <2>3. g \in Seq(C)
      BY <1>2, <2>1
    <2> QED BY <2>1, <2>2, <2>3
  <1>5. new.run = e.run /\ new.base = e.base + rax /\ new.len = e.len - rax
        /\ new \in [run : Nat, base : Nat, len : Nat]
    <2>1. e.base + rax \in Nat /\ e.len - rax \in Nat
      BY <1>1, <1>2, <1>4
    <2> QED BY <1>4, <2>1
  <1>6. iov' = [iov EXCEPT ![1] = new]
    BY <1>1
  <1> HIDE DEF e, h, t, left, new
  <1>7. new \in Entry(given) /\ Len(g) \in Nat
    <2>1. (e.base + rax) + (e.len - rax) <= Len(g) /\ Len(g) \in Nat
      <3> HIDE DEF g
      <3> QED BY <1>2, <1>4
    <2> QED BY <1>4, <1>5, <2>1 DEF Entry
  <1>8. /\ iov' \in Seq(Entry(given)) /\ iov' # <<>> /\ iov'[1] = new /\ Tail(iov') = Tail(iov)
    <2>1. Len(iov) \in Nat /\ Len(iov) >= 1
      BY <1>1, <1>2
    <2> DEFINE v == [iov EXCEPT ![1] = new]
    <2>2. v \in Seq(Entry(given)) /\ Len(v) = Len(iov) /\ v[1] = new
          /\ \A i \in 2 .. Len(iov) : v[i] = iov[i]
      BY <1>2, <1>7, <2>1
    <2> HIDE DEF v
    <2>3. v # <<>>
      BY <2>1, <2>2
    <2>4. /\ Tail(v) \in Seq(Entry(given)) /\ Tail(iov) \in Seq(Entry(given))
          /\ Len(Tail(v)) = Len(iov) - 1 /\ Len(Tail(iov)) = Len(iov) - 1
          /\ \A i \in 1 .. Len(iov) - 1 : Tail(v)[i] = v[i + 1]
          /\ \A i \in 1 .. Len(iov) - 1 : Tail(iov)[i] = iov[i + 1]
      BY <1>1, <1>2, <2>1, <2>2, <2>3
    <2>5. \A i \in 1 .. Len(iov) - 1 : i + 1 \in 2 .. Len(iov)
      BY <2>1
    <2>6. Tail(v) = Tail(iov)
      BY <2>2, <2>4, <2>5, AllAlike
    <2> QED BY <1>6, <2>2, <2>3, <2>6 DEF v
  <1>9. HeldOf(given, new) = Rest(h, rax)
    <2> DEFINE a == HeldOf(given, new)
               w == e.len - rax
               b == SubSeq(h, rax + 1, rax + w)
    <2>1. w \in Nat /\ rax + w = e.len /\ rax + w <= Len(h)
      <3>1. rax < e.len /\ rax \in Nat /\ e.len \in Nat
        BY <1>1, <1>2, <1>4
      <3>2. w \in Nat /\ rax + w = e.len
        BY <3>1
      <3> QED BY <1>3, <3>2
    <2>2. /\ a \in Seq(C) /\ Len(a) = w
          /\ \A k \in 1 .. w : a[k] = g[(e.base + rax) + k]
      <3>1. /\ a \in Seq(C) /\ Len(a) = new.len
            /\ \A k \in 1 .. new.len : a[k] = given[new.run][new.base + k]
        BY <1>2, <1>7, EntryHolds
      <3> HIDE DEF a
      <3> QED BY <1>5, <3>1
    <2>3. \A k \in 1 .. e.len : h[k] = g[e.base + k]
      BY <1>2, <1>3, EntryHolds DEF h
    <2> HIDE DEF a, g, w
    <2>4. b \in Seq(C) /\ Len(b) = w /\ \A k \in 1 .. w : b[k] = h[rax + k]
      BY <1>2, <1>3, <2>1, Cut
    <2>5. b = Rest(h, rax)
      BY <1>3, <2>1 DEF Rest
    <2> HIDE DEF b
    <2>6. \A k \in 1 .. w : a[k] = b[k]
      <3> TAKE k \in 1 .. w
      <3>1. rax + k \in 1 .. e.len /\ e.base + (rax + k) = (e.base + rax) + k
        <4> DEFINE l == e.len
                   b0 == e.base
        <4>1. rax \in Nat /\ l \in Nat /\ b0 \in Nat /\ w \in Nat /\ rax + w = l
          BY <1>2, <1>4, <2>1
        <4> HIDE DEF l, b0
        <4>2. rax + k \in 1 .. l /\ b0 + (rax + k) = (b0 + rax) + k
          BY <4>1
        <4> QED BY <4>2 DEF l, b0
      <3>2. h[rax + k] = g[e.base + (rax + k)]
        BY <2>3, <3>1
      <3> QED BY <2>2, <2>4, <3>1, <3>2
    <2>7. a = b
      BY <2>2, <2>4, <2>6, AllAlike
    <2> QED BY <2>5, <2>7 DEF a
  <1>10. Left(given, iov') = HeldOf(given, new) \o t
    <2>1. Left(given, iov') = HeldOf(given, iov'[1]) \o Left(given, Tail(iov'))
      BY <1>2, <1>8, LeftIs
    <2> QED BY <1>8, <2>1 DEF t
  <1>11. Rest(left, rax) = Rest(h, rax) \o t
    <2>1. rax <= Len(h) /\ rax <= Len(h) + Len(t)
      BY <1>1, <1>2, <1>3, <1>4
    <2>2. SubSeq(h \o t, rax + 1, Len(h \o t)) = SubSeq(h, rax + 1, Len(h)) \o t
      BY <1>2, <1>3, <2>1, PastFirst
    <2> QED BY <1>3, <2>2 DEF Rest
  <1>12. file \o Left(given, iov') = FlattenSeq(given)
    BY <1>2, <1>9, <1>10, <1>11
  <1> QED BY <1>1, <1>2, <1>8, <1>12 DEF WriteInv

LEMMA EndStep ==
  ASSUME NEW C, WriteInv(C), Finish \/ Refuses
  PROVE  WriteInv(C)'
  <1>1. CASE Refuses
    BY <1>1 DEF Refuses, WriteInv
  <1>2. CASE Finish
    <2>1. /\ w_pc \in {"write", "consume"} /\ iov = <<>> /\ w_pc' = "done"
          /\ given' = given /\ iov' = iov /\ rax' = rax /\ file' = file
      BY <1>2 DEF Finish
    <2>2. Left(given, iov) = <<>>
      BY <2>1, NonePiece DEF Left
    <2>3. file \o Left(given, iov) = FlattenSeq(given)
      <3>1. CASE w_pc = "write"
        BY <3>1 DEF WriteInv
      <3>2. CASE w_pc = "consume"
        <4>1. rax \in Nat /\ rax <= Len(Left(given, iov))
              /\ file \o Rest(Left(given, iov), rax) = FlattenSeq(given)
          BY <3>2 DEF WriteInv
        <4>2. rax = 0
          BY <2>2, <4>1
        <4>3. Rest(Left(given, iov), rax) = <<>>
          BY <2>2, <4>2 DEF Rest
        <4> QED BY <2>2, <4>1, <4>3
      <3> QED BY <2>1, <3>1, <3>2
    <2> QED BY <2>1, <2>3 DEF WriteInv
  <1> QED BY <1>1, <1>2

LEMMA WriteInvariant ==
  ASSUME NEW C
  PROVE  WriteSpec(Seq(Seq(C))) => []WriteInv(C)
  <1>1. WriteInit => WriteInv(C)
    <2> SUFFICES ASSUME WriteInit
                 PROVE  WriteInv(C)
      OBVIOUS
    <2>1. given = <<>> /\ iov = <<>> /\ rax = 0 /\ file = <<>> /\ w_pc = "idle"
      BY DEF WriteInit
    <2>2. <<>> \in Seq(Seq(C)) /\ <<>> \in Seq(Entry(given)) /\ <<>> \in Seq(C) /\ 0 \in Nat
      OBVIOUS
    <2> QED BY <2>1, <2>2 DEF WriteInv
  <1>2. WriteInv(C) /\ [WriteNext(Seq(Seq(C)))]_wvars => WriteInv(C)'
    <2> SUFFICES ASSUME WriteInv(C), [WriteNext(Seq(Seq(C)))]_wvars
                 PROVE  WriteInv(C)'
      OBVIOUS
    <2>1. CASE UNCHANGED wvars
      BY <2>1 DEF wvars, WriteInv
    <2>2. CASE WriteNext(Seq(Seq(C)))
      BY <2>2, FillStep, TakesStep, DropStep, ShortenStep, EndStep DEF WriteNext, WriteStep
    <2> QED BY <2>1, <2>2
  <1> QED BY <1>1, <1>2, PTL DEF WriteSpec

\* However many runs there are, empty ones with them, and wherever in them the kernel
\* stops, what is in the file and what the vector still names are the runs in their
\* order (RT_WRITEV).
THEOREM NothingIsLost ==
  ASSUME NEW C
  PROVE  WriteSpec(Seq(Seq(C))) => []NothingLost
  <1>1. WriteInv(C) => NothingLost
    BY ContentIs DEF WriteInv, NothingLost
  <1> QED BY <1>1, WriteInvariant, PTL

\* So a write that came to its end has written the runs and nothing else: a short
\* write is never taken for a whole one.
AllIsWritten == w_pc = "done" => file = FlattenSeq(given)

THEOREM EndIsWhole ==
  ASSUME NEW C
  PROVE  WriteSpec(Seq(Seq(C))) => []AllIsWritten
  <1>1. WriteInv(C) => AllIsWritten
    <2> SUFFICES ASSUME WriteInv(C), w_pc = "done"
                 PROVE  file = FlattenSeq(given)
      BY DEF AllIsWritten
    <2>1. iov = <<>> /\ file \in Seq(C) /\ file \o Left(given, iov) = FlattenSeq(given)
      BY DEF WriteInv
    <2>2. Left(given, iov) = <<>>
      BY <2>1, NonePiece DEF Left
    <2> QED BY <2>1, <2>2
  <1> QED BY <1>1, WriteInvariant, PTL
=============================================================================
