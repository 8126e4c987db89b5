----------------------------- MODULE Flattening -----------------------------
(***************************************************************************)
(* Sequences put one behind the other (FlattenSeq of the community         *)
(* modules): where each of them begins and ends, and what stands there.    *)
(* FlattenSeq is defined by recursion over the places of a sequence; what  *)
(* stands in for an induction over them is the least place at which a      *)
(* statement would fail.                                                   *)
(***************************************************************************)
EXTENDS Integers, SequencesExt, SequenceTheorems, WellFoundedInduction, TLAPS

\* A set of numbers that is not empty has a least one.
LEMMA LeastOf ==
  ASSUME NEW S, S \subseteq Nat, S # {}
  PROVE  \E least \in S : \A k \in S : least <= k
  <1>1. PICK least \in S : \A k \in S : ~(<<k, least>> \in OpToRel(<, Nat))
    BY WFMin, NatLessThanWellFounded
  <1>2. \A k \in S : ~(k < least)
    BY <1>1 DEF OpToRel
  <1> QED BY <1>2

\* The sequences of s up to each place, one behind the other.
Joined(parts, s, K) ==
  parts = [i \in 1 .. K |-> IF i = 1 THEN s[i] ELSE parts[i - 1] \o s[i]]

\* There are such.
LEMMA Joins ==
  ASSUME NEW s, NEW K \in Nat
  PROVE  \E parts : Joined(parts, s, K)
  <1> DEFINE None == {k \in Nat : \A parts : ~Joined(parts, s, k)}
  <1> SUFFICES ASSUME None # {}
               PROVE  FALSE
    OBVIOUS
  <1>1. PICK k \in None : \A j \in None : k <= j
    <2>1. None \subseteq Nat
      OBVIOUS
    <2> HIDE DEF None
    <2> QED BY <2>1, LeastOf
  <1>2. k \in Nat /\ \A parts : ~Joined(parts, s, k)
    BY <1>1
  <1>3. CASE k = 0
    <2>1. Joined([i \in 1 .. 0 |-> s[i]], s, 0)
      BY DEF Joined
    <2> QED BY <1>2, <1>3, <2>1
  <1>4. CASE k # 0
    <2>1. k - 1 \in Nat /\ ~(k <= k - 1)
      BY <1>2, <1>4
    <2>2. PICK f : Joined(f, s, k - 1)
      BY <1>1, <2>1
    <2> DEFINE g == [i \in 1 .. k |-> IF i < k THEN f[i]
                                      ELSE IF k = 1 THEN s[k] ELSE f[k - 1] \o s[k]]
    <2>3. \A i \in 1 .. k - 1 : f[i] = IF i = 1 THEN s[i] ELSE f[i - 1] \o s[i]
      BY <2>1, <2>2 DEF Joined
    <2>4. \A i \in 1 .. k : g[i] = IF i = 1 THEN s[i] ELSE g[i - 1] \o s[i]
      <3> TAKE i \in 1 .. k
      <3>1. CASE i < k
        BY <1>2, <2>3, <3>1
      <3>2. CASE i = k
        BY <1>2, <1>4, <3>2
      <3> QED BY <1>2, <3>1, <3>2
    <2>5. g = [i \in 1 .. k |-> g[i]]
      OBVIOUS
    <2> HIDE DEF g
    <2>6. g = [i \in 1 .. k |-> IF i = 1 THEN s[i] ELSE g[i - 1] \o s[i]]
      BY <2>4, <2>5
    <2>7. Joined(g, s, k)
      BY <2>6 DEF Joined
    <2> QED BY <1>2, <2>7
  <1> QED BY <1>3, <1>4

\* Where each begins and ends when they are put one behind the other, and what
\* stands there.
Places(at, s, flat) ==
  /\ at \in [0 .. Len(s) -> Nat]
  /\ at[0] = 0 /\ Len(flat) = at[Len(s)]
  /\ \A i \in 1 .. Len(s) :
       /\ at[i] = at[i - 1] + Len(s[i])
       /\ at[i] <= Len(flat)
       /\ \A k \in 1 .. Len(s[i]) : flat[at[i - 1] + k] = s[i][k]
  /\ \A n \in 1 .. Len(flat) : \E i \in 1 .. Len(s) : \E k \in 1 .. Len(s[i]) :
       n = at[i - 1] + k

\* Every element of the sequences has its place, and every place its element.
LEMMA Flattened ==
  ASSUME NEW S, NEW s \in Seq(Seq(S))
  PROVE  /\ FlattenSeq(s) \in Seq(S)
         /\ \E at : Places(at, s, FlattenSeq(s))
  <1> DEFINE K == Len(s)
  <1>0. K \in Nat /\ DOMAIN s = 1 .. K /\ \A i \in 1 .. K : s[i] \in Seq(S)
    OBVIOUS
  <1>1. CASE K = 0
    <2>1. s = <<>> /\ FlattenSeq(s) = <<>>
      BY <1>0, <1>1 DEF FlattenSeq
    <2> DEFINE zero == [i \in 0 .. 0 |-> 0]
    <2>2. Places(zero, <<>>, <<>>)
      BY DEF Places
    <2> QED BY <2>1, <2>2
  <1>2. CASE K # 0
    <2>1. PICK f : Joined(f, s, K) /\ f = CHOOSE g : Joined(g, s, K)
      <3>1. \E g : Joined(g, s, K)
        BY <1>0, Joins
      <3> HIDE DEF K
      <3> QED BY Zenon, <3>1
    <2>2. FlattenSeq(s) = f[K]
      <3>1. FlattenSeq(s) = (CHOOSE g : Joined(g, s, K))[K]
        BY <1>0, <1>2 DEF FlattenSeq, Joined
      <3> QED BY <2>1, <3>1
    <2>3. \A i \in 1 .. K : f[i] = IF i = 1 THEN s[i] ELSE f[i - 1] \o s[i]
      BY <2>1, <1>0 DEF Joined
    <2> HIDE DEF K
    <2> DEFINE Ok(i) ==
          /\ f[i] \in Seq(S)
          /\ i > 1 => /\ Len(f[i]) = Len(f[i - 1]) + Len(s[i])
                      /\ \A k \in 1 .. Len(f[i - 1]) : f[i][k] = f[i - 1][k]
                      /\ \A k \in 1 .. Len(s[i]) : f[i][Len(f[i - 1]) + k] = s[i][k]
               Bad == {i \in 1 .. K : ~Ok(i)}
    <2>4. \A i \in 1 .. K : Ok(i)
      <3> SUFFICES ASSUME Bad # {} PROVE FALSE
        OBVIOUS
      <3>1. PICK i \in Bad : \A j \in Bad : i <= j
        <4>1. Bad \subseteq Nat
          BY <1>0
        <4> HIDE DEF Bad
        <4> QED BY <4>1, LeastOf
      <3>2. CASE i = 1
        BY <1>0, <2>3, <3>1, <3>2
      <3>3. CASE i # 1
        <4>1. i \in 1 .. K /\ i - 1 \in 1 .. K /\ ~(i <= i - 1)
          BY <1>0, <3>1, <3>3
        <4>2. f[i - 1] \in Seq(S) /\ s[i] \in Seq(S) /\ f[i] = f[i - 1] \o s[i]
          BY <1>0, <2>3, <3>1, <3>3, <4>1
        <4> DEFINE a == f[i - 1]
                   b == s[i]
        <4> HIDE DEF a, b
        <4>3. a \in Seq(S) /\ b \in Seq(S) /\ f[i] = a \o b
          BY <4>2 DEF a, b
        <4>4. /\ a \o b \in Seq(S) /\ Len(a \o b) = Len(a) + Len(b)
              /\ \A k \in 1 .. Len(a) + Len(b) :
                   (a \o b)[k] = IF k <= Len(a) THEN a[k] ELSE b[k - Len(a)]
          BY <4>3, ConcatProperties
        <4>5. Len(a) \in Nat /\ Len(b) \in Nat
          BY <4>3
        <4>6. \A k \in 1 .. Len(a) : (a \o b)[k] = a[k]
          BY <4>4, <4>5
        <4>7. \A k \in 1 .. Len(b) : (a \o b)[Len(a) + k] = b[k]
          <5> TAKE k \in 1 .. Len(b)
          <5>1. Len(a) + k \in 1 .. Len(a) + Len(b) /\ ~(Len(a) + k <= Len(a))
                /\ (Len(a) + k) - Len(a) = k
            BY <4>5
          <5> QED BY <4>4, <5>1
        <4>8. Ok(i)
          BY <4>3, <4>4, <4>6, <4>7 DEF a, b
        <4> QED BY <3>1, <4>8
      <3> QED BY <3>2, <3>3
    <2>5. \A i \in 1 .. K : /\ Len(f[i]) \in Nat
                            /\ i = 1 => f[i] = s[i]
      BY <2>3, <2>4
    <2> DEFINE at == [i \in 0 .. K |-> IF i = 0 THEN 0 ELSE Len(f[i])]
    <2>6. at \in [0 .. K -> Nat] /\ at[0] = 0 /\ \A i \in 1 .. K : at[i] = Len(f[i])
      BY <1>0, <2>5
    <2>7. \A i \in 1 .. K : at[i] = at[i - 1] + Len(s[i])
      <3> TAKE i \in 1 .. K
      <3>1. CASE i = 1
        BY <1>0, <2>5, <2>6, <3>1
      <3>2. CASE i # 1
        <4>1. i - 1 \in 1 .. K /\ i > 1
          BY <1>0, <3>2
        <4> QED BY <2>4, <2>6, <4>1
      <3> QED BY <3>1, <3>2
    <2>8. \A i \in 1 .. K : \A k \in 1 .. Len(s[i]) : f[i][at[i - 1] + k] = s[i][k]
      <3> TAKE i \in 1 .. K
      <3> TAKE k \in 1 .. Len(s[i])
      <3>1. CASE i = 1
        BY <1>0, <2>5, <2>6, <3>1
      <3>2. CASE i # 1
        <4>1. i \in 1 .. K /\ i - 1 \in 1 .. K /\ i > 1
          BY <1>0, <3>2
        <4>2. Ok(i)
          BY <2>4, <4>1
        <4>3. f[i][Len(f[i - 1]) + k] = s[i][k]
          BY <4>1, <4>2
        <4>4. at[i - 1] = Len(f[i - 1])
          BY <2>6, <4>1
        <4> HIDE DEF at
        <4> QED BY <4>3, <4>4
      <3> QED BY <3>1, <3>2
    <2> HIDE DEF Ok, at
    <2>9. \A j \in 1 .. K : \A i \in 1 .. j :
            /\ at[i] <= at[j]
            /\ \A k \in 1 .. at[i] : f[j][k] = f[i][k]
      <3> DEFINE Good(j) == \A i \in 1 .. j : at[i] <= at[j]
                                              /\ \A k \in 1 .. at[i] : f[j][k] = f[i][k]
                 Off == {j \in 1 .. K : ~Good(j)}
      <3> SUFFICES ASSUME Off # {} PROVE FALSE
        OBVIOUS
      <3>1. PICK j \in Off : \A n \in Off : j <= n
        <4>1. Off \subseteq Nat
          BY <1>0
        <4> HIDE DEF Off
        <4> QED BY <4>1, LeastOf
      <3>2. j \in 1 .. K /\ ~Good(j)
        BY <3>1
      <3>3. PICK i \in 1 .. j : ~(at[i] <= at[j] /\ \A k \in 1 .. at[i] : f[j][k] = f[i][k])
        BY <3>2
      <3>4. i # j
        BY <2>6, <3>2, <3>3
      <3>5. j - 1 \in 1 .. K /\ i \in 1 .. j - 1 /\ ~(j <= j - 1) /\ j > 1
        BY <1>0, <3>2, <3>3, <3>4
      <3>6. Good(j - 1)
        BY <3>1, <3>5
      <3>7. at[i] <= at[j - 1] /\ \A k \in 1 .. at[i] : f[j - 1][k] = f[i][k]
        BY <3>5, <3>6
      <3> HIDE DEF Off, Good
      <3>8. /\ at[j] = at[j - 1] + Len(s[j]) /\ Len(s[j]) \in Nat
            /\ at[i] \in Nat /\ at[j - 1] \in Nat
            /\ at[j - 1] = Len(f[j - 1])
        <4>1. i \in 0 .. K /\ j - 1 \in 0 .. K /\ Len(s[j]) \in Nat
          BY <1>0, <3>2, <3>5
        <4>2. at[i] \in Nat /\ at[j - 1] \in Nat
          BY <2>6, <4>1
        <4> QED BY <2>6, <2>7, <3>2, <3>5, <4>1, <4>2
      <3>9. \A k \in 1 .. Len(f[j - 1]) : f[j][k] = f[j - 1][k]
        BY <2>4, <3>2, <3>5 DEF Ok
      <3>10. at[i] <= at[j]
        <4>1. at[i] <= at[j - 1]
          BY <3>7
        <4>2. \A x, y, z \in Nat : x <= y => x <= y + z
          OBVIOUS
        <4>3. at[i] <= at[j - 1] + Len(s[j])
          <5> DEFINE l == Len(s[j])
          <5>1. l \in Nat /\ at[i] \in Nat /\ at[j - 1] \in Nat
            BY <3>8
          <5> HIDE DEF l
          <5>2. at[i] <= at[j - 1] + l
            BY <4>1, <4>2, <5>1
          <5> QED BY <5>2 DEF l
        <4> QED BY <3>8, <4>3
      <3>11. \A k \in 1 .. at[i] : f[j][k] = f[i][k]
        BY <3>7, <3>8, <3>9
      <3> QED BY <3>3, <3>10, <3>11
    <2>10. K \in 1 .. K
      BY <1>0, <1>2
    <2>11. f[K] \in Seq(S) /\ Len(f[K]) = at[K]
      BY <2>4, <2>6, <2>10 DEF Ok
    <2>12. \A i \in 1 .. K : \A k \in 1 .. Len(s[i]) : f[K][at[i - 1] + k] = s[i][k]
      <3> TAKE i \in 1 .. K
      <3> TAKE k \in 1 .. Len(s[i])
      <3>1. at[i] = at[i - 1] + Len(s[i]) /\ at[i - 1] \in Nat /\ Len(s[i]) \in Nat
        <4>1. i - 1 \in 0 .. K
          BY <1>0
        <4> QED BY <1>0, <2>6, <2>7, <4>1
      <3>2. at[i - 1] + k \in 1 .. at[i]
        BY <3>1
      <3>3. f[K][at[i - 1] + k] = f[i][at[i - 1] + k]
        BY <1>0, <2>9, <2>10, <3>2
      <3> QED BY <2>8, <3>3
    <2>13. \A n \in 1 .. at[K] : \E i \in 1 .. K : \E k \in 1 .. Len(s[i]) : n = at[i - 1] + k
      <3> TAKE n \in 1 .. at[K]
      <3> DEFINE Reaches == {i \in 1 .. K : n <= at[i]}
      <3>1. PICK i \in Reaches : \A j \in Reaches : i <= j
        <4>1. Reaches \subseteq Nat /\ K \in Reaches
          BY <1>0, <2>6, <2>10
        <4> HIDE DEF Reaches
        <4> QED BY <4>1, LeastOf
      <3>2. i \in 1 .. K /\ n <= at[i] /\ i - 1 \in 0 .. K /\ ~(i <= i - 1)
        BY <1>0, <3>1
      <3>3. at[i - 1] < n
        <4>1. CASE i = 1
          BY <2>6, <4>1
        <4>2. CASE i # 1
          <5>1. i - 1 \in 1 .. K /\ i - 1 \notin Reaches
            BY <1>0, <3>1, <3>2, <4>2
          <5>2. ~(n <= at[i - 1])
            BY <5>1
          <5> QED BY <2>6, <3>2, <5>2
        <4> QED BY <4>1, <4>2
      <3>4. n - at[i - 1] \in 1 .. Len(s[i]) /\ n = at[i - 1] + (n - at[i - 1])
        <4>1. at[i] = at[i - 1] + Len(s[i]) /\ at[i - 1] \in Nat /\ Len(s[i]) \in Nat /\ n \in Int
          BY <1>0, <2>6, <2>7, <3>2
        <4> QED BY <3>2, <3>3, <4>1
      <3> QED BY <3>2, <3>4
    <2>14. \A i \in 1 .. K : at[i] <= at[K]
      BY <1>0, <2>9, <2>10
    <2>15. Places(at, s, f[K])
      <3>1. Len(s) = K
        BY DEF K
      <3>2. /\ at \in [0 .. Len(s) -> Nat] /\ at[0] = 0 /\ Len(f[K]) = at[Len(s)]
        BY <2>6, <2>11, <3>1
      <3>3. \A i \in 1 .. Len(s) :
              /\ at[i] = at[i - 1] + Len(s[i])
              /\ at[i] <= Len(f[K])
              /\ \A k \in 1 .. Len(s[i]) : f[K][at[i - 1] + k] = s[i][k]
        BY <2>7, <2>11, <2>12, <2>14, <3>1
      <3>4. \A n \in 1 .. Len(f[K]) : \E i \in 1 .. Len(s) : \E k \in 1 .. Len(s[i]) :
              n = at[i - 1] + k
        BY <2>11, <2>13, <3>1
      <3> QED BY <3>2, <3>3, <3>4 DEF Places
    <2> QED BY <2>2, <2>11, <2>15
  <1> QED BY <1>1, <1>2

\* Pieces of one size: the places are multiples of it.
LEMMA EqualPieces ==
  ASSUME NEW S, NEW s \in Seq(Seq(S)), NEW size \in Nat,
         \A i \in 1 .. Len(s) : Len(s[i]) = size
  PROVE  /\ FlattenSeq(s) \in Seq(S)
         /\ Len(FlattenSeq(s)) = size * Len(s)
         /\ \A i \in 1 .. Len(s) : \A k \in 1 .. size :
              FlattenSeq(s)[size * (i - 1) + k] = s[i][k]
  <1> DEFINE K == Len(s)
             flat == FlattenSeq(s)
  <1>1. K \in Nat
    OBVIOUS
  <1>2. flat \in Seq(S)
    BY Flattened
  <1>3. PICK at : Places(at, s, flat)
    BY Flattened
  <1> HIDE DEF flat
  <1>4. /\ at \in [0 .. K -> Nat] /\ at[0] = 0 /\ Len(flat) = at[K]
        /\ \A i \in 1 .. K : at[i] = at[i - 1] + size
        /\ \A i \in 1 .. K : \A k \in 1 .. size : flat[at[i - 1] + k] = s[i][k]
    BY <1>3 DEF Places
  <1> HIDE DEF K
  <1> DEFINE Off == {i \in 0 .. K : at[i] # size * i}
  <1>5. Off = {}
    <2> SUFFICES ASSUME Off # {} PROVE FALSE
      OBVIOUS
    <2>1. PICK i \in Off : \A j \in Off : i <= j
      <3>1. Off \subseteq Nat
        BY <1>1
      <3> HIDE DEF Off
      <3> QED BY <3>1, LeastOf
    <2>2. i \in 0 .. K /\ at[i] # size * i
      BY <2>1
    <2>3. i # 0
      BY <1>4, <2>2
    <2>4. i \in 1 .. K /\ i - 1 \in 0 .. K /\ ~(i <= i - 1)
      BY <1>1, <2>2, <2>3
    <2>5. at[i - 1] = size * (i - 1)
      BY <2>1, <2>4
    <2>6. at[i] = size * (i - 1) + size
      BY <1>4, <2>4, <2>5
    <2>7. size * (i - 1) + size = size * i
      BY <2>4
    <2> QED BY <2>2, <2>6, <2>7
  <1>6. \A i \in 0 .. K : at[i] = size * i
    BY <1>5
  <1>7. Len(flat) = size * K
    BY <1>1, <1>4, <1>6
  <1>8. \A i \in 1 .. K : \A k \in 1 .. size : flat[size * (i - 1) + k] = s[i][k]
    <2> TAKE i \in 1 .. K
    <2> TAKE k \in 1 .. size
    <2>1. i - 1 \in 0 .. K
      BY <1>1
    <2>2. at[i - 1] = size * (i - 1)
      BY <1>6, <2>1
    <2> QED BY <1>4, <2>2
  <1> QED BY <1>2, <1>7, <1>8 DEF flat, K

\* One sequence behind another.
LEMMA Behind ==
  ASSUME NEW S, NEW s \in Seq(S), NEW t \in Seq(S)
  PROVE  /\ s \o t \in Seq(S) /\ Len(s \o t) = Len(s) + Len(t)
         /\ \A i \in 1 .. Len(s) : (s \o t)[i] = s[i]
         /\ \A i \in 1 .. Len(t) : (s \o t)[Len(s) + i] = t[i]
         /\ \A i \in 1 .. Len(s) + Len(t) : i > Len(s) =>
              i - Len(s) \in 1 .. Len(t) /\ (s \o t)[i] = t[i - Len(s)]
  <1>1. s \o t \in Seq(S) /\ Len(s \o t) = Len(s) + Len(t)
        /\ Len(s) \in Nat /\ Len(t) \in Nat
    OBVIOUS
  <1>2. \A i \in 1 .. Len(s) + Len(t) :
          (s \o t)[i] = IF i <= Len(s) THEN s[i] ELSE t[i - Len(s)]
    BY ConcatProperties
  <1>3. ASSUME NEW i \in 1 .. Len(t)
        PROVE  /\ Len(s) + i \in 1 .. Len(s) + Len(t)
               /\ (Len(s) + i) - Len(s) = i /\ ~(Len(s) + i <= Len(s))
    BY <1>1
  <1>4. \A i \in 1 .. Len(s) : i \in 1 .. Len(s) + Len(t) /\ i <= Len(s)
    BY <1>1
  <1>5. \A i \in 1 .. Len(s) + Len(t) : i > Len(s) =>
          i - Len(s) \in 1 .. Len(t) /\ ~(i <= Len(s))
    BY <1>1
  <1> QED BY <1>1, <1>2, <1>3, <1>4, <1>5

\* A piece of a sequence.
LEMMA Cut ==
  ASSUME NEW S, NEW s \in Seq(S), NEW x \in Nat, NEW n \in Nat, x + n <= Len(s)
  PROVE  /\ SubSeq(s, x + 1, x + n) \in Seq(S) /\ Len(SubSeq(s, x + 1, x + n)) = n
         /\ \A k \in 1 .. n : SubSeq(s, x + 1, x + n)[k] = s[x + k]
  <1>1. Len(s) \in Nat
    OBVIOUS
  <1>2. CASE n = 0
    <2>1. x + n < x + 1
      BY <1>2
    <2> QED BY <1>2, <2>1
  <1>3. CASE n # 0
    <2>1. x + 1 \in 1 .. Len(s) /\ x + n \in 1 .. Len(s) /\ (x + n) - (x + 1) + 1 = n
      BY <1>1, <1>3
    <2> QED BY <2>1
  <1> QED BY <1>2, <1>3

LEMMA AllAlike ==
  ASSUME NEW S, NEW s \in Seq(S), NEW t \in Seq(S), Len(s) = Len(t),
         \A i \in 1 .. Len(s) : s[i] = t[i]
  PROVE  s = t
  OBVIOUS
=============================================================================
