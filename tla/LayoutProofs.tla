----------------------------- MODULE LayoutProofs -----------------------------
(***************************************************************************)
(* What the editor's scanner keeps between two calls: a state that fits    *)
(* comes back from its serialization, it counts the blocks the parser has  *)
(* open, and it gives no more newlines than there are lines, for texts of  *)
(* every length, every depth, every width of a byte and every buffer.      *)
(***************************************************************************)
EXTENDS Layout, FiniteSetTheorems, SequenceTheorems, WellFoundedInduction, TLAPS

-----------------------------------------------------------------------------
\* Arithmetic and sets.

\* A number of two digits is put together from them.
LEMMA TwoDigits ==
  ASSUME NEW v \in 0 .. Byte * Byte - 1
  PROVE  /\ v % Byte \in 0 .. Byte - 1
         /\ (v \div Byte) % Byte \in 0 .. Byte - 1
         /\ (v % Byte) + Byte * ((v \div Byte) % Byte) = v
  <1> DEFINE q == v \div Byte
             r == v % Byte
  <1>1. Byte \in Nat /\ Byte >= 4
    BY SizesAssumption
  <1>2. Byte * Byte \in Nat
    BY <1>1
  <1>3. v \in Nat
    BY <1>2
  <1>4. q \in Nat /\ r \in 0 .. Byte - 1 /\ v = Byte * q + r
    BY <1>1, <1>3
  <1> HIDE DEF q, r
  <1>5. q < Byte
    <2> SUFFICES ASSUME q >= Byte PROVE FALSE
      BY <1>1, <1>4
    <2>1. Byte * q >= Byte * Byte
      BY <1>1, <1>4
    <2> QED BY <1>1, <1>2, <1>4, <2>1
  <1>6. q % Byte = q
    BY <1>1, <1>4, <1>5
  <1>7. /\ r \in 0 .. Byte - 1 /\ q % Byte \in 0 .. Byte - 1
        /\ r + Byte * (q % Byte) = v
    BY <1>1, <1>2, <1>3, <1>4, <1>5, <1>6
  <1> QED BY <1>7 DEF q, r

\* A set of numbers that is not empty has a least one.
LEMMA LeastOf ==
  \A S \in SUBSET Nat : S # {} => \E m \in S : \A n \in S : m <= n
  <1> SUFFICES ASSUME NEW S \in SUBSET Nat, S # {}
               PROVE  \E m \in S : \A n \in S : m <= n
    OBVIOUS
  <1>1. PICK m \in S : \A n \in S : ~(<<n, m>> \in OpToRel(<, Nat))
    BY WFMin, NatLessThanWellFounded
  <1>2. \A n \in S : ~(n < m)
    BY <1>1 DEF OpToRel
  <1> QED BY <1>2

\* One sequence behind another.
LEMMA Behind ==
  ASSUME NEW S, NEW s \in Seq(S), NEW t \in Seq(S)
  PROVE  /\ s \o t \in Seq(S) /\ Len(s \o t) = Len(s) + Len(t)
         /\ \A i \in 1 .. Len(s) : (s \o t)[i] = s[i]
         /\ \A i \in 1 .. Len(t) : (s \o t)[Len(s) + i] = t[i]
  <1>1. s \o t \in Seq(S) /\ Len(s \o t) = Len(s) + Len(t)
    OBVIOUS
  <1>2. \A i \in DOMAIN (s \o t) :
          (s \o t)[i] = IF i <= Len(s) THEN s[i] ELSE t[i - Len(s)]
    OBVIOUS
  <1>3. ASSUME NEW i \in 1 .. Len(t)
        PROVE  /\ Len(s) + i \in DOMAIN (s \o t)
               /\ (Len(s) + i) - Len(s) = i /\ ~(Len(s) + i <= Len(s))
    BY <1>1
  <1>4. \A i \in 1 .. Len(s) : i \in DOMAIN (s \o t) /\ i <= Len(s)
    BY <1>1
  <1> QED BY <1>1, <1>2, <1>3, <1>4

LEMMA AsFunction ==
  ASSUME NEW S, NEW n \in Nat, NEW s \in Seq(S), Len(s) = n
  PROVE  s \in [1 .. n -> S]
  OBVIOUS

LEMMA FrontIs ==
  ASSUME NEW S, NEW s \in Seq(S), NEW n \in Nat, n <= Len(s)
  PROVE  /\ SubSeq(s, 1, n) \in Seq(S) /\ Len(SubSeq(s, 1, n)) = n
         /\ \A k \in 1 .. n : SubSeq(s, 1, n)[k] = s[k]
  OBVIOUS

LEMMA TwoAndTwo ==
  ASSUME NEW a \in Int, NEW b \in Int, NEW c \in Int, NEW d \in Int
  PROVE  <<a, b>> \o <<c, d>> = <<a, b, c, d>>
  <1> DEFINE s == <<a, b>>
             t == <<c, d>>
             u == <<a, b, c, d>>
  <1>1. /\ s \in Seq(Int) /\ t \in Seq(Int) /\ u \in Seq(Int)
        /\ Len(s) = 2 /\ Len(t) = 2 /\ Len(u) = 4
    OBVIOUS
  <1>2. /\ s[1] = a /\ s[2] = b /\ t[1] = c /\ t[2] = d
        /\ u[1] = a /\ u[2] = b /\ u[3] = c /\ u[4] = d
    OBVIOUS
  <1> HIDE DEF s, t, u
  <1>3. /\ s \o t \in Seq(Int) /\ Len(s \o t) = Len(s) + Len(t)
        /\ \A i \in 1 .. Len(s) : (s \o t)[i] = s[i]
        /\ \A i \in 1 .. Len(t) : (s \o t)[Len(s) + i] = t[i]
    <2>1. s \in Seq(Int) /\ t \in Seq(Int)
      BY <1>1
    <2> QED BY <2>1, Behind
  <1> DEFINE w == s \o t
  <1>4. /\ w \in Seq(Int) /\ Len(w) = Len(s) + Len(t)
        /\ \A i \in 1 .. Len(s) : w[i] = s[i]
        /\ \A i \in 1 .. Len(t) : w[Len(s) + i] = t[i]
    BY <1>3
  <1> HIDE DEF w
  <1>5. w[1] = a /\ w[2] = b /\ w[2 + 1] = c /\ w[2 + 2] = d
    BY <1>1, <1>2, <1>4
  <1>6. \A i \in 1 .. 4 : w[i] = u[i]
    BY <1>2, <1>5
  <1>7. w = u
    <2>1. w \in Seq(Int) /\ Len(w) = 4 /\ u \in Seq(Int) /\ Len(u) = 4
      BY <1>1, <1>4
    <2>2. w \in [1 .. 4 -> Int]
      BY <2>1, AsFunction
    <2>3. u \in [1 .. 4 -> Int]
      BY <2>1, AsFunction
    <2> QED BY <2>2, <2>3, <1>6
  <1> QED BY <1>7 DEF s, t, u, w

\* The scanner's count of a set is the count of it.
LEMMA SameCount ==
  \A S : Editor!Cardinality(S) = Cardinality(S)
  BY Zenon DEF Editor!Cardinality, Cardinality

\* All of the indents are written if the buffer has room for all of them.
LEMMA AllKept ==
  ASSUME NEW n \in Nat, NEW room \in Nat, 4 + 2 * n <= room
  PROVE  Cardinality({k \in 1 .. n : 4 + 2 * k <= room}) = n
  <1>1. {k \in 1 .. n : 4 + 2 * k <= room} = 1 .. n
    OBVIOUS
  <1>2. Cardinality(1 .. n) = n
    BY FS_Interval
  <1> QED BY <1>1, <1>2

-----------------------------------------------------------------------------
\* What the scanner keeps.

Number == 0 .. Byte * Byte - 1
Kept == [indents : UNION {[1 .. n -> Number] : n \in 1 .. MaxDepth},
         pending : {-1} \cup Number, eof_newline : BOOLEAN]

\* A state as it lies in the buffer: a byte for how deep it is and one for the
\* flags, two for what is pending, and two for each indent.
LEMMA WrittenOut ==
  ASSUME NEW s \in Kept
  PROVE  LET b == Editor!serialize(s)
             n == Len(s.indents)
         IN /\ n \in 1 .. MaxDepth
            /\ s.indents \in [1 .. n -> Number]
            /\ b \in Seq(Int) /\ Len(b) = 4 + 2 * n
            /\ b[1] = n /\ b[2] = Editor!Flags(s)
            /\ b[3] = (IF s.pending < 0 THEN 0 ELSE s.pending) % Byte
            /\ b[4] = ((IF s.pending < 0 THEN 0 ELSE s.pending) \div Byte) % Byte
            /\ \A k \in 1 .. n : /\ b[3 + 2 * k] = s.indents[k] % Byte
                                 /\ b[4 + 2 * k] = (s.indents[k] \div Byte) % Byte
  <1> DEFINE n == Len(s.indents)
             p == IF s.pending < 0 THEN 0 ELSE s.pending
             rest == [c \in 1 .. 2 * n |-> Editor!Wide(s.indents[(c + 1) \div 2])[2 - (c % 2)]]
             front == <<n, Editor!Flags(s), p % Byte, (p \div Byte) % Byte>>
  <1>1. n \in 1 .. MaxDepth /\ s.indents \in [1 .. n -> Number]
    BY SizesAssumption DEF Kept
  <1>2. n \in Nat /\ 4 + 2 * n <= BufferSize /\ BufferSize \in Nat /\ DOMAIN s.indents = 1 .. n
    BY <1>1, SizesAssumption
  <1>3. Cardinality({k \in DOMAIN s.indents : 4 + 2 * k <= BufferSize}) = n
    <2> HIDE DEF n
    <2> QED BY <1>2, AllKept
  <1>4. Editor!serialize(s) = (<<n, Editor!Flags(s)>> \o Editor!Wide(p)) \o rest
    <2> DEFINE kept == Editor!Cardinality({k \in DOMAIN s.indents : 4 + 2 * k <= BufferSize})
               tail(m) == [c \in 1 .. 2 * m |->
                             Editor!Wide(s.indents[(c + 1) \div 2])[2 - (c % 2)]]
    <2>1. Editor!serialize(s) = (<<n, Editor!Flags(s)>> \o Editor!Wide(p)) \o tail(kept)
      BY Zenon DEF Editor!serialize, Editor!Written
    <2>2. kept = n
      BY <1>3, SameCount, Zenon
    <2> HIDE DEF kept
    <2>3. tail(kept) = rest
      BY <2>2, Zenon
    <2> HIDE DEF tail
    <2> QED BY <2>1, <2>3
  <1>6. Byte \in Nat /\ Byte >= 4 /\ Byte * Byte \in Nat
    BY SizesAssumption
  <1>7. p \in Number
    BY <1>6 DEF Kept, Number
  <1>8. \A v \in Number : v \in Nat /\ v % Byte \in Nat /\ (v \div Byte) % Byte \in Nat
    BY <1>6, TwoDigits DEF Number
  <1>9. Editor!Flags(s) \in Nat
    BY DEF Editor!Flags
  <1>5. <<n, Editor!Flags(s)>> \o Editor!Wide(p) = front
    BY <1>2, <1>7, <1>8, <1>9, TwoAndTwo DEF Editor!Wide
  <1>10. front \in Seq(Int) /\ Len(front) = 4
    BY <1>2, <1>7, <1>8, <1>9
  <1> HIDE DEF n
  <1>11. rest \in [1 .. 2 * n -> Int] /\ rest \in Seq(Int) /\ Len(rest) = 2 * n
    <2>1. ASSUME NEW c \in 1 .. 2 * n PROVE rest[c] \in Int
      <3>1. (c + 1) \div 2 \in 1 .. n
        BY <1>2
      <3>2. s.indents[(c + 1) \div 2] \in Number
        BY <3>1, <1>1
      <3>3. c % 2 \in {0, 1}
        BY <1>2
      <3> QED BY <3>2, <3>3, <1>8 DEF Editor!Wide
    <2>2. rest \in [1 .. 2 * n -> Int]
      BY <2>1
    <2> HIDE DEF rest
    <2> QED BY <2>2, <1>2
  <1>12. ASSUME NEW k \in 1 .. n
         PROVE  /\ rest[2 * k - 1] = s.indents[k] % Byte
                /\ rest[2 * k] = (s.indents[k] \div Byte) % Byte
    <2>1. /\ 2 * k - 1 \in 1 .. 2 * n /\ ((2 * k - 1) + 1) \div 2 = k /\ (2 * k - 1) % 2 = 1
          /\ 2 * k \in 1 .. 2 * n /\ (2 * k + 1) \div 2 = k /\ (2 * k) % 2 = 0
      BY <1>2
    <2>2. rest[2 * k - 1] = Editor!Wide(s.indents[k])[1]
      BY <2>1
    <2>3. rest[2 * k] = Editor!Wide(s.indents[k])[2]
      BY <2>1
    <2> HIDE DEF rest
    <2> QED BY <2>2, <2>3 DEF Editor!Wide
  <1> HIDE DEF rest, front
  <1> DEFINE b == front \o rest
  <1>20. /\ b \in Seq(Int) /\ Len(b) = Len(front) + Len(rest)
         /\ \A i \in 1 .. Len(front) : b[i] = front[i]
         /\ \A i \in 1 .. Len(rest) : b[Len(front) + i] = rest[i]
    <2>1. front \in Seq(Int) /\ rest \in Seq(Int)
      BY <1>10, <1>11
    <2> QED BY <2>1, Behind
  <1>13. b \in Seq(Int) /\ Len(b) = 4 + 2 * n /\ \A i \in 1 .. 4 : b[i] = front[i]
    <2> HIDE DEF b
    <2> QED BY <1>10, <1>11, <1>20
  <1>14. \A i \in 1 .. 2 * n : b[4 + i] = rest[i]
    <2> HIDE DEF b
    <2> QED BY <1>10, <1>11, <1>20
  <1>15. Editor!serialize(s) = b
    BY <1>4, <1>5
  <1>16. \A k \in 1 .. n : /\ b[3 + 2 * k] = s.indents[k] % Byte
                           /\ b[4 + 2 * k] = (s.indents[k] \div Byte) % Byte
    <2> SUFFICES ASSUME NEW k \in 1 .. n
                 PROVE  /\ b[3 + 2 * k] = s.indents[k] % Byte
                        /\ b[4 + 2 * k] = (s.indents[k] \div Byte) % Byte
      OBVIOUS
    <2>1. /\ 2 * k - 1 \in 1 .. 2 * n /\ 4 + (2 * k - 1) = 3 + 2 * k /\ 2 * k \in 1 .. 2 * n
      BY <1>2
    <2> HIDE DEF b
    <2> QED BY <2>1, <1>12, <1>14
  <1> HIDE DEF b
  <1>17. b[1] = n /\ b[2] = Editor!Flags(s) /\ b[3] = p % Byte /\ b[4] = (p \div Byte) % Byte
    BY <1>13 DEF front
  <1> QED BY <1>1, <1>13, <1>15, <1>16, <1>17 DEF n, p

\* And is read back as what it was.
LEMMA ComesBack ==
  ASSUME NEW s \in Kept
  PROVE  Editor!deserialize(Editor!serialize(s)) = s
  <1> DEFINE b == Editor!serialize(s)
             n == Len(s.indents)
             p == IF s.pending < 0 THEN 0 ELSE s.pending
             value(k) == b[k] + Byte * b[k + 1]
  <1>1. /\ n \in 1 .. MaxDepth /\ s.indents \in [1 .. n -> Number]
        /\ b \in Seq(Int) /\ Len(b) = 4 + 2 * n
        /\ b[1] = n /\ b[2] = Editor!Flags(s)
        /\ b[3] = p % Byte /\ b[4] = (p \div Byte) % Byte
        /\ \A k \in 1 .. n : /\ b[3 + 2 * k] = s.indents[k] % Byte
                             /\ b[4 + 2 * k] = (s.indents[k] \div Byte) % Byte
    BY WrittenOut
  <1>2. n \in Nat /\ n >= 1 /\ Byte \in Nat /\ Byte >= 4
    BY <1>1, SizesAssumption
  <1>3. s.pending \in Int /\ p \in Number /\ s.eof_newline \in BOOLEAN
    <2>1. Byte * Byte \in Nat /\ Byte * Byte >= 1
      BY <1>2
    <2> QED BY <2>1 DEF Kept, Number
  <1> HIDE DEF b, n
  <1>4. value(3) = p
    <2> HIDE DEF p
    <2> QED BY <1>1, <1>3, TwoDigits DEF Number
  <1>5. \A k \in 1 .. n : value(3 + 2 * k) = s.indents[k]
    <2> SUFFICES ASSUME NEW k \in 1 .. n PROVE value(3 + 2 * k) = s.indents[k]
      OBVIOUS
    <2>1. s.indents[k] \in Number
      BY <1>1
    <2>2. (3 + 2 * k) + 1 = 4 + 2 * k
      BY <1>2
    <2> QED BY <1>1, <2>1, <2>2, TwoDigits DEF Number
  <1>6. b[2] % 2 = (IF s.pending < 0 THEN 0 ELSE 1) /\ (b[2] \div 2 = 1 <=> s.eof_newline)
    <2> DEFINE f == IF s.pending < 0 THEN 0 ELSE 1
               g == IF s.eof_newline THEN 2 ELSE 0
    <2>1. b[2] = f + g
      BY <1>1 DEF Editor!Flags
    <2>2. f \in {0, 1} /\ g \in {0, 2} /\ (g = 2 <=> s.eof_newline)
      BY <1>3
    <2> HIDE DEF f, g
    <2>3. (f + g) % 2 = f /\ ((f + g) \div 2 = 1 <=> g = 2)
      BY <2>2
    <2> QED BY <2>1, <2>2, <2>3 DEF f
  <1> DEFINE depth == Cardinality({k \in 1 .. b[1] : 4 + 2 * k <= Len(b)})
  <1>7. depth = n
    <2>1. b[1] = n /\ Len(b) = 4 + 2 * n
      BY <1>1
    <2>2. 4 + 2 * n \in Nat
      BY <1>2
    <2>3. Cardinality({k \in 1 .. n : 4 + 2 * k <= 4 + 2 * n}) = n
      BY <1>2, <2>2, AllKept
    <2> QED BY <2>1, <2>3
  <1>8. b # <<>>
    BY <1>1, <1>2
  <1> DEFINE read(d) == [indents |-> IF d = 0 THEN <<0>> ELSE [k \in 1 .. d |-> value(3 + 2 * k)],
                         pending |-> IF b[2] % 2 = 1 THEN value(3) ELSE -1,
                         eof_newline |-> b[2] \div 2 = 1]
  <1>9. Editor!deserialize(b) = read(depth)
    <2> DEFINE count == Editor!Cardinality({k \in 1 .. b[1] : 4 + 2 * k <= Len(b)})
    <2>1. Editor!deserialize(b) = read(count)
      BY <1>8, Zenon DEF Editor!deserialize, Editor!Restored
    <2>2. count = depth
      BY SameCount, Zenon
    <2> HIDE DEF count, depth, read
    <2> QED BY <2>1, <2>2
  <1> HIDE DEF depth
  <1>10. s = [indents |-> s.indents, pending |-> s.pending, eof_newline |-> s.eof_newline]
    BY DEF Kept
  <1>11. [k \in 1 .. n |-> value(3 + 2 * k)] = s.indents
    <2> HIDE DEF value
    <2> QED BY <1>1, <1>5
  <1>12. (IF b[2] % 2 = 1 THEN value(3) ELSE -1) = s.pending
    <2> HIDE DEF value
    <2>1. CASE s.pending < 0
      <3>1. s.pending = -1
        BY <2>1, <1>2, <1>3 DEF Kept, Number
      <3> QED BY <1>6, <2>1, <3>1
    <2>2. CASE ~(s.pending < 0)
      BY <1>4, <1>6, <2>2
    <2> QED BY <2>1, <2>2
  <1>13. (b[2] \div 2 = 1) = s.eof_newline
    BY <1>6, <1>3
  <1> HIDE DEF value, p
  <1>14. read(n) = s
    BY <1>2, <1>10, <1>11, <1>12, <1>13
  <1> QED BY <1>7, <1>9, <1>14 DEF b

\* Everything that is written is a byte.
LEMMA InBytes ==
  ASSUME NEW s \in Kept
  PROVE  /\ Len(Editor!serialize(s)) = 4 + 2 * Len(s.indents)
         /\ \A k \in DOMAIN Editor!serialize(s) : Editor!serialize(s)[k] \in 0 .. Byte - 1
  <1> DEFINE b == Editor!serialize(s)
             n == Len(s.indents)
             p == IF s.pending < 0 THEN 0 ELSE s.pending
  <1>1. /\ n \in 1 .. MaxDepth /\ s.indents \in [1 .. n -> Number]
        /\ b \in Seq(Int) /\ Len(b) = 4 + 2 * n
        /\ b[1] = n /\ b[2] = Editor!Flags(s)
        /\ b[3] = p % Byte /\ b[4] = (p \div Byte) % Byte
        /\ \A k \in 1 .. n : /\ b[3 + 2 * k] = s.indents[k] % Byte
                             /\ b[4 + 2 * k] = (s.indents[k] \div Byte) % Byte
    BY WrittenOut
  <1>2. n \in Nat /\ n < Byte /\ Byte \in Nat /\ Byte >= 4
    <2>1. n \in 1 .. MaxDepth
      BY <1>1
    <2> HIDE DEF n
    <2> QED BY <2>1, SizesAssumption
  <1>3. p \in Number
    <2>1. Byte * Byte \in Nat /\ Byte * Byte >= 1
      BY <1>2
    <2> QED BY <2>1 DEF Kept, Number
  <1>4. Editor!Flags(s) \in 0 .. Byte - 1
    BY <1>2 DEF Editor!Flags
  <1> HIDE DEF b, n, p
  <1>5. b[3] \in 0 .. Byte - 1 /\ b[4] \in 0 .. Byte - 1
    BY <1>1, <1>3, TwoDigits DEF Number
  <1>6. b[1] \in 0 .. Byte - 1 /\ b[2] \in 0 .. Byte - 1
    BY <1>1, <1>2, <1>4
  <1>7. ASSUME NEW k \in 1 .. n
        PROVE  b[3 + 2 * k] \in 0 .. Byte - 1 /\ b[4 + 2 * k] \in 0 .. Byte - 1
    <2>1. s.indents[k] \in Number
      BY <1>1
    <2> QED BY <1>1, <2>1, TwoDigits DEF Number
  <1>8. DOMAIN b = 1 .. 4 + 2 * n
    BY <1>1
  <1>9. ASSUME NEW k \in 1 .. 4 + 2 * n PROVE b[k] \in 0 .. Byte - 1
    <2>1. \/ k \in {1, 2, 3, 4}
          \/ \E j \in 1 .. n : k = 3 + 2 * j \/ k = 4 + 2 * j
      <3>1. CASE k % 2 = 1
        <4> DEFINE j == (k - 3) \div 2
        <4>1. CASE k >= 5
          <5>1. j \in 1 .. n /\ k = 3 + 2 * j
            BY <1>2, <3>1, <4>1
          <5> QED BY <5>1
        <4> QED BY <1>2, <4>1
      <3>2. CASE k % 2 = 0
        <4> DEFINE j == (k - 4) \div 2
        <4>1. CASE k >= 5
          <5>1. j \in 1 .. n /\ k = 4 + 2 * j
            BY <1>2, <3>2, <4>1
          <5> QED BY <5>1
        <4> QED BY <1>2, <4>1
      <3> QED BY <1>2, <3>1, <3>2
    <2> QED BY <2>1, <1>5, <1>6, <1>7
  <1> QED BY <1>1, <1>8, <1>9 DEF b, n

-----------------------------------------------------------------------------
\* The invariant.

Deepening(s) ==
  s.indents[1] = 0 /\ \A k \in 2 .. Len(s.indents) : s.indents[k - 1] < s.indents[k]

\* What is saved is a state that fits, or nothing before the first token.
SavedState ==
  /\ Editor!scanner \in Kept /\ Deepening(Editor!scanner)
  /\ e_saved = <<>> \/ e_saved = Editor!serialize(Editor!scanner)

\* A line's indentation is settled before the line is begun, and nothing is
\* pending behind the token that opens a block.
Settling ==
  /\ e_want \in {"operand", "after", "body"} /\ Editor!scanner.pending >= 0
       => Editor!scanner.pending >= Editor!Top
  /\ e_want = "first" => Editor!scanner.pending = -1

BlocksInv ==
  /\ text \in Seq(Piece) /\ e_at \in Nat \ {0}
  /\ SavedState /\ Settling
  /\ e_blocks = Editor!depth - 1

LEMMA BlocksInvSuffices ==
  BlocksInv => BlocksInStep
  <1> SUFFICES ASSUME BlocksInv PROVE BlocksInStep
    OBVIOUS
  <1> DEFINE s == Editor!scanner
  <1>1. s \in Kept /\ Deepening(s) /\ (e_saved = <<>> \/ e_saved = Editor!serialize(s))
    BY DEF BlocksInv, SavedState
  <1>2. /\ Len(s.indents) \in 1 .. MaxDepth /\ s.pending \in {-1} \cup Number
    BY <1>1, SizesAssumption DEF Kept
  <1>3. Byte * Byte \in Nat
    BY SizesAssumption
  <1>4. s.pending \in -1 .. Byte * Byte - 1
    BY <1>2, <1>3 DEF Number
  <1>5. /\ e_saved = <<>> \/ Len(e_saved) = 4 + 2 * Len(s.indents)
        /\ \A k \in DOMAIN e_saved : e_saved[k] \in 0 .. Byte - 1
    <2>1. CASE e_saved = <<>>
      BY <2>1
    <2>2. CASE e_saved = Editor!serialize(s)
      <3> HIDE DEF s
      <3> QED BY <1>1, <2>2, InBytes
    <2> QED BY <1>1, <2>1, <2>2
  <1>6. Editor!TypeOK
    BY <1>1, <1>2, <1>4, <1>5 DEF Editor!TypeOK, Editor!depth, Deepening
  <1>7. Editor!depth = e_blocks + 1
    BY <1>2 DEF BlocksInv, Editor!depth
  <1> QED BY <1>6, <1>7 DEF BlocksInv, Settling, BlocksInStep, Editor!BlocksInStep

-----------------------------------------------------------------------------
\* Beginning, and what the other readers do.

LEMMA Created ==
  e_saved = <<>> => Editor!scanner = Editor!create
  BY Zenon DEF Editor!scanner, Editor!deserialize

LEMMA CreatedFits ==
  /\ Editor!create \in Kept /\ Deepening(Editor!create)
  /\ Editor!create.pending = -1 /\ Len(Editor!create.indents) = 1
  /\ Editor!create.eof_newline = FALSE
  <1>1. Byte * Byte \in Nat /\ Byte * Byte >= 1
    BY SizesAssumption
  <1>2. 0 \in Number /\ 1 \in 1 .. MaxDepth
    BY <1>1, SizesAssumption DEF Number
  <1>3. <<0>> \in [1 .. 1 -> Number]
    BY <1>2
  <1>4. Editor!create.indents = <<0>> /\ Editor!create.pending = -1
        /\ Editor!create.eof_newline = FALSE
    BY DEF Editor!create
  <1>5. Editor!create \in Kept
    BY <1>2, <1>3 DEF Kept, Editor!create
  <1> QED BY <1>4, <1>5 DEF Deepening

LEMMA BlocksInvInit ==
  Init => BlocksInv
  <1> SUFFICES ASSUME Init PROVE BlocksInv
    OBVIOUS
  <1>1. text \in Seq(Piece)
    BY ProgramsAssumption DEF Init
  <1>2. e_at = 1 /\ e_saved = <<>> /\ e_want = "item" /\ e_blocks = 0
    BY DEF Init, Editor!Start
  <1>3. Editor!scanner = Editor!create
    BY <1>2, Created
  <1>4. SavedState
    BY <1>2, <1>3, CreatedFits DEF SavedState
  <1>5. Settling
    BY <1>2 DEF Settling
  <1>6. Editor!depth = 1
    BY <1>3, CreatedFits DEF Editor!depth
  <1> QED BY <1>1, <1>2, <1>4, <1>5, <1>6 DEF BlocksInv

\* Neither lexer writes the text or anything of the editor's.
LEMMA TextStands ==
  Next => text' = text /\ literal' = literal
  <1> SUFFICES ASSUME Next PROVE text' = text /\ literal' = literal
    OBVIOUS
  <1>1. CASE Compiler!Next
    BY <1>1 DEF Compiler!Next, Compiler!SkipGap, Compiler!SkipTab, Compiler!LineFeed,
         Compiler!AstrayLine, Compiler!Take, Compiler!Refuse, Compiler!Finish
  <1>2. CASE Interp!Next
    BY <1>2 DEF Interp!Next, Interp!SkipGap, Interp!LineFeed, Interp!Take, Interp!Refuse,
         Interp!Tokenized, Interp!PassToken, Interp!PassLineEnd, Interp!EndLine, Interp!Finish
  <1>3. CASE Editor!Next
    BY <1>3 DEF Editor!Next, Editor!OpenBlock, Editor!CloseBlock, Editor!EndFile,
         Editor!CloseAtEnd, Editor!EndLine, Editor!ReadString, Editor!Shift, Editor!Stop,
         Editor!Answer
  <1> QED BY <1>1, <1>2, <1>3 DEF Next

-----------------------------------------------------------------------------
\* What the scanner passes.

LEMMA CountOf ==
  ASSUME NEW a \in Int, NEW b \in Int, a - 1 <= b
  PROVE  Cardinality(a .. b) = b - a + 1
  BY FS_Interval

\* The gaps are what is before the first piece that is none.
LEMMA GapsAre ==
  ASSUME text \in Seq(Piece), e_at \in Nat \ {0}
  PROVE  /\ Editor!To \in Nat /\ e_at <= Editor!To
         /\ Editor!Gaps(e_at) = e_at .. Editor!To - 1
         /\ Editor!Past \in {Editor!To, Editor!To + 1}
         /\ Editor!To <= Len(text) + 1 \/ Editor!To = e_at
  <1> DEFINE G == Editor!Gaps(e_at)
             N == {p \in e_at .. Len(text) : text[p] \notin Editor!Gap}
             len == Len(text)
  <1>1. len \in Nat /\ e_at \in Nat
    OBVIOUS
  <1>2. Editor!To = e_at + Cardinality(G)
    BY SameCount, Zenon DEF Editor!To
  <1>3. G = {p \in e_at .. len : \A k \in e_at .. p : text[k] \in Editor!Gap}
    BY Zenon DEF Editor!Gaps
  <1>4. PICK m \in Nat : /\ e_at <= m /\ G = e_at .. m - 1
                         /\ m <= len + 1 \/ m = e_at
    <2> HIDE DEF G, len
    <2>1. CASE N = {} /\ e_at <= len
      <3>1. \A k \in e_at .. len : text[k] \in Editor!Gap
        BY <2>1 DEF len
      <3>2. G = e_at .. len
        BY <1>1, <1>3, <3>1
      <3>3. len + 1 \in Nat /\ (len + 1) - 1 = len /\ e_at <= len + 1
        BY <1>1, <2>1
      <3> QED BY <3>2, <3>3
    <2>2. CASE e_at > len
      <3>1. G = {}
        BY <1>1, <1>3, <2>2
      <3>2. e_at .. e_at - 1 = {}
        BY <1>1
      <3> QED BY <1>1, <3>1, <3>2
    <2>3. CASE N # {}
      <3>1. N \in SUBSET Nat
        BY <1>1 DEF len
      <3>2. PICK m \in N : \A n \in N : m <= n
        BY <2>3, <3>1, LeastOf
      <3> HIDE DEF N
      <3>3. m \in e_at .. len /\ text[m] \notin Editor!Gap
        BY <3>2 DEF N, len
      <3>4. \A k \in e_at .. m - 1 : text[k] \in Editor!Gap
        <4> SUFFICES ASSUME NEW k \in e_at .. m - 1, text[k] \notin Editor!Gap PROVE FALSE
          OBVIOUS
        <4>1. k \in e_at .. len
          BY <1>1, <3>3
        <4>2. k \in N
          BY <4>1 DEF N, len
        <4> QED BY <1>1, <3>2, <3>3, <4>2
      <3>5. G = e_at .. m - 1
        <4>1. ASSUME NEW p \in G PROVE p \in e_at .. m - 1
          <5>1. p \in e_at .. len /\ ~(m \in e_at .. p)
            BY <1>3, <3>3
          <5> QED BY <1>1, <3>3, <5>1
        <4>2. ASSUME NEW p \in e_at .. m - 1 PROVE p \in G
          <5>1. p \in e_at .. len /\ \A k \in e_at .. p : k \in e_at .. m - 1
            BY <1>1, <3>3
          <5> QED BY <1>3, <3>4, <5>1
        <4> QED BY <4>1, <4>2
      <3>6. m \in Nat /\ e_at <= m /\ m <= len + 1
        BY <1>1, <3>3
      <3> QED BY <3>5, <3>6
    <2> QED BY <1>1, <2>1, <2>2, <2>3
  <1> HIDE DEF G
  <1>5. Cardinality(G) = m - e_at
    <2>1. Cardinality(e_at .. m - 1) = (m - 1) - e_at + 1
      BY <1>1, <1>4, CountOf
    <2> QED BY <1>1, <1>4, <2>1
  <1>6. Editor!To = m
    BY <1>1, <1>2, <1>4, <1>5
  <1>7. Editor!Past \in {Editor!To, Editor!To + 1}
    BY DEF Editor!Past
  <1> QED BY <1>4, <1>6, <1>7 DEF G, len

\* The spaces of a line are as many as can be kept.
LEMMA IndentFits ==
  ASSUME text \in Seq(Piece), e_at \in Nat \ {0}
  PROVE  Editor!indent \in Number
  <1>1. Editor!To \in Nat /\ Editor!Gaps(e_at) = e_at .. Editor!To - 1
    BY GapsAre
  <1>2. IsFiniteSet(Editor!Gaps(e_at))
    BY <1>1, FS_Interval
  <1>3. Editor!Measured \in SUBSET Editor!Gaps(e_at)
    BY Zenon DEF Editor!Measured
  <1>4. Cardinality(Editor!Measured) \in Nat
    BY <1>2, <1>3, FS_Subset, FS_CardinalityType
  <1> DEFINE c == Cardinality(Editor!Measured)
             w == Byte * Byte
  <1>5. Editor!indent = c % w
    BY SameCount, Zenon DEF Editor!indent
  <1>6. c \in Nat /\ w \in Nat \ {0}
    BY <1>4, SizesAssumption
  <1> HIDE DEF c, w
  <1>7. c % w \in 0 .. w - 1
    BY <1>6
  <1> QED BY <1>5, <1>7 DEF Number, w

-----------------------------------------------------------------------------
\* What a call does to the state.

LEMMA Saves ==
  ASSUME NEW s \in Kept, Deepening(s), e_saved' = Editor!serialize(s)
  PROVE  SavedState' /\ Editor!scanner' = s
  <1>1. Editor!scanner' = Editor!deserialize(Editor!serialize(s))
    BY DEF Editor!scanner
  <1>2. Editor!scanner' = s
    BY <1>1, ComesBack
  <1>3. SavedState' <=> /\ Editor!scanner' \in Kept /\ Deepening(Editor!scanner')
                        /\ e_saved' = <<>> \/ e_saved' = Editor!serialize(Editor!scanner')
    BY Zenon DEF SavedState, Kept, Number, Deepening
  <1> QED BY <1>2, <1>3

LEMMA Settles ==
  ASSUME NEW s \in Kept, Deepening(s)
  PROVE  /\ [s EXCEPT !.pending = -1] \in Kept
         /\ Deepening([s EXCEPT !.pending = -1])
         /\ [s EXCEPT !.pending = -1].indents = s.indents
         /\ [s EXCEPT !.pending = -1].pending = -1
         /\ [s EXCEPT !.pending = -1].eof_newline = s.eof_newline
  BY DEF Kept, Deepening

\* A block inside the innermost.
LEMMA OneDeeper ==
  ASSUME NEW s \in Kept, Deepening(s), Len(s.indents) < MaxDepth,
         NEW v \in Number, s.indents[Len(s.indents)] < v
  PROVE  LET t == [s EXCEPT !.indents = Append(@, v), !.pending = -1]
         IN /\ t \in Kept /\ Deepening(t) /\ t.pending = -1
            /\ t.eof_newline = s.eof_newline
            /\ Len(t.indents) = Len(s.indents) + 1
  <1> DEFINE n == Len(s.indents)
             u == Append(s.indents, v)
             t == [s EXCEPT !.indents = u, !.pending = -1]
  <1>1. n \in 1 .. MaxDepth /\ s.indents \in [1 .. n -> Number] /\ s.indents \in Seq(Number)
    BY SizesAssumption DEF Kept
  <1>2. MaxDepth \in Nat /\ n < MaxDepth
    BY SizesAssumption
  <1>3. /\ u \in [1 .. n + 1 -> Number] /\ Len(u) = n + 1
        /\ u[n + 1] = v /\ \A k \in 1 .. n : u[k] = s.indents[k]
    <2>1. /\ u \in Seq(Number) /\ Len(u) = n + 1
          /\ u[n + 1] = v /\ \A k \in 1 .. n : u[k] = s.indents[k]
      BY <1>1, AppendProperties
    <2>2. n + 1 \in Nat
      BY <1>1
    <2> HIDE DEF u, n
    <2> QED BY <2>1, <2>2, AsFunction
  <1>5. s.eof_newline \in BOOLEAN
    BY DEF Kept
  <1>6. n + 1 \in 1 .. MaxDepth
    <2> HIDE DEF n
    <2> QED BY <1>1, <1>2
  <1> HIDE DEF u
  <1>7. t \in Kept
    BY <1>3, <1>5, <1>6 DEF Kept
  <1>8. /\ t.indents = u /\ t.pending = -1 /\ t.eof_newline = s.eof_newline
    BY DEF Kept
  <1>9. Deepening(t)
    <2>1. u[1] = 0
      BY <1>1, <1>3 DEF Deepening
    <2>2. ASSUME NEW k \in 2 .. n + 1 PROVE u[k - 1] < u[k]
      <3>1. CASE k = n + 1
        <4>1. k - 1 = n /\ n \in 1 .. n
          BY <1>1, <1>2, <3>1
        <4> QED BY <1>3, <3>1, <4>1
      <3>2. CASE k # n + 1
        <4>1. k - 1 \in 1 .. n /\ k \in 1 .. n /\ k \in 2 .. n
          BY <1>1, <1>2, <3>2
        <4>2. s.indents[k - 1] < s.indents[k]
          BY <4>1 DEF Deepening
        <4> QED BY <1>3, <4>1, <4>2
      <3> QED BY <3>1, <3>2
    <2> QED BY <1>3, <1>8, <2>1, <2>2 DEF Deepening
  <1> HIDE DEF t
  <1>10. t \in Kept /\ Deepening(t) /\ t.pending = -1
         /\ t.eof_newline = s.eof_newline /\ Len(t.indents) = n + 1
    BY <1>3, <1>7, <1>8, <1>9
  <1> QED BY <1>10, Zenon DEF t, u, n

\* The innermost block closed, whatever is pending then.
LEMMA OneLess ==
  ASSUME NEW s \in Kept, Deepening(s), Len(s.indents) > 1, NEW p \in {-1} \cup Number
  PROVE  /\ LET t == [s EXCEPT !.indents = SubSeq(s.indents, 1, Len(s.indents) - 1),
                               !.pending = p]
            IN /\ t \in Kept /\ Deepening(t) /\ t.eof_newline = s.eof_newline
               /\ Len(t.indents) = Len(s.indents) - 1
         /\ LET t == [s EXCEPT !.indents = SubSeq(s.indents, 1, Len(s.indents) - 1)]
            IN /\ t \in Kept /\ Deepening(t) /\ t.eof_newline = s.eof_newline
               /\ Len(t.indents) = Len(s.indents) - 1
  <1> DEFINE n == Len(s.indents)
             u == SubSeq(s.indents, 1, n - 1)
             t == [s EXCEPT !.indents = u, !.pending = p]
             r == [s EXCEPT !.indents = u]
  <1>1. n \in 1 .. MaxDepth /\ s.indents \in [1 .. n -> Number] /\ s.indents \in Seq(Number)
    BY SizesAssumption DEF Kept
  <1>2. n \in Nat /\ n > 1 /\ n - 1 \in 1 .. MaxDepth
    <2>1. n > 1
      OBVIOUS
    <2> HIDE DEF n
    <2> QED BY <1>1, <2>1, SizesAssumption
  <1>3. /\ u \in [1 .. n - 1 -> Number] /\ Len(u) = n - 1
        /\ \A k \in 1 .. n - 1 : u[k] = s.indents[k]
    <2>1. n - 1 \in Nat /\ n - 1 <= n
      BY <1>2
    <2>2. /\ u \in Seq(Number) /\ Len(u) = n - 1
          /\ \A k \in 1 .. n - 1 : u[k] = s.indents[k]
      BY <1>1, <2>1, FrontIs
    <2> HIDE DEF u, n
    <2> QED BY <2>1, <2>2, AsFunction
  <1> HIDE DEF u, n
  <1>4. /\ t \in Kept /\ t.indents = u /\ t.eof_newline = s.eof_newline
        /\ r \in Kept /\ r.indents = u /\ r.eof_newline = s.eof_newline
    BY <1>2, <1>3 DEF Kept
  <1> HIDE DEF t, r
  <1>5. u[1] = 0
    BY <1>2, <1>3 DEF Deepening
  <1>6. ASSUME NEW k \in 2 .. n - 1 PROVE u[k - 1] < u[k]
    <2>1. k - 1 \in 1 .. n - 1 /\ k \in 1 .. n - 1 /\ k \in 2 .. n
      BY <1>2
    <2>2. s.indents[k - 1] < s.indents[k]
      BY <2>1 DEF Deepening, n
    <2> QED BY <1>3, <2>1, <2>2
  <1>7. Deepening(t) /\ Deepening(r)
    BY <1>3, <1>4, <1>5, <1>6 DEF Deepening
  <1>8. /\ t \in Kept /\ Deepening(t) /\ t.eof_newline = s.eof_newline
        /\ Len(t.indents) = n - 1
        /\ r \in Kept /\ Deepening(r) /\ r.eof_newline = s.eof_newline
        /\ Len(r.indents) = n - 1
    BY <1>3, <1>4, <1>7
  <1> QED BY <1>8, Zenon DEF t, r, u, n

-----------------------------------------------------------------------------
\* Every step keeps the invariant.

\* A call that answers with a state that fits keeps what is to be kept of it.
LEMMA Answers ==
  ASSUME BlocksInv, NEW s \in Kept, Deepening(s), e_saved' = Editor!serialize(s),
         text' = text, e_at' \in Nat \ {0},
         e_blocks' = Len(s.indents) - 1,
         s.pending = -1 \/ e_want' \in {"item", "indent"}
  PROVE  BlocksInv'
  <1>1. SavedState' /\ Editor!scanner' = s
    BY Saves
  <1>2. s.pending \in Int /\ Byte * Byte \in Nat
    BY SizesAssumption DEF Kept, Number
  <1>3. Settling'
    <2>1. CASE s.pending = -1
      BY <1>1, <2>1 DEF Settling
    <2>2. CASE e_want' \in {"item", "indent"}
      BY <2>2 DEF Settling
    <2> QED BY <2>1, <2>2
  <1>4. Editor!depth' = Len(s.indents)
    BY <1>1 DEF Editor!depth
  <1> QED BY <1>1, <1>3, <1>4 DEF BlocksInv

\* What the parser is given.
Given == {Newline, Indent, Dedent} \cup {Token(k) : k \in Nat}

LEMMA SameTokens ==
  /\ Editor!Newline = Newline /\ Editor!Indent = Indent /\ Editor!Dedent = Dedent
  /\ \A k : Editor!Token(k) = Token(k)
  /\ Indent # Newline /\ Dedent # Newline /\ \A k : Token(k) # Newline
  BY DEF Editor!Newline, Editor!Indent, Editor!Dedent, Editor!Token,
         Newline, Indent, Dedent, Token

\* What every call begins with.
LEMMA AtCall ==
  ASSUME BlocksInv
  PROVE  LET s == Editor!scanner
             n == Len(s.indents)
         IN /\ text \in Seq(Piece) /\ e_at \in Nat \ {0}
            /\ s \in Kept /\ Deepening(s) /\ SavedState /\ Settling
            /\ e_blocks = n - 1
            /\ n \in 1 .. MaxDepth /\ n \in Nat /\ s.indents \in [1 .. n -> Number]
            /\ s.indents[1] = 0 /\ s.pending \in {-1} \cup Number
            /\ \A v \in Number : v \in Nat
            /\ Editor!To \in Nat \ {0} /\ Editor!Past \in Nat \ {0}
            /\ e_at <= Editor!To /\ Editor!To <= Editor!Past
            /\ Editor!settled \in Kept /\ Deepening(Editor!settled)
            /\ Editor!settled.indents = s.indents /\ Editor!settled.pending = -1
            /\ Editor!settled.eof_newline = s.eof_newline
  <1> DEFINE s == Editor!scanner
             n == Len(s.indents)
  <1>1. /\ text \in Seq(Piece) /\ e_at \in Nat \ {0}
        /\ s \in Kept /\ Deepening(s) /\ SavedState /\ Settling
        /\ e_blocks = n - 1
    BY DEF BlocksInv, SavedState, Editor!depth
  <1>2. /\ n \in 1 .. MaxDepth /\ n \in Nat /\ s.indents \in [1 .. n -> Number]
        /\ s.indents[1] = 0 /\ s.pending \in {-1} \cup Number
    BY <1>1, SizesAssumption DEF Kept, Deepening
  <1>3. \A v \in Number : v \in Nat
    BY SizesAssumption DEF Number
  <1>4. /\ Editor!To \in Nat \ {0} /\ Editor!Past \in Nat \ {0}
        /\ e_at <= Editor!To /\ Editor!To <= Editor!Past
    BY <1>1, GapsAre
  <1>5. /\ Editor!settled \in Kept /\ Deepening(Editor!settled)
        /\ Editor!settled.indents = s.indents /\ Editor!settled.pending = -1
        /\ Editor!settled.eof_newline = s.eof_newline
    BY <1>1, Settles DEF Editor!settled
  <1> QED BY <1>1, <1>2, <1>3, <1>4, <1>5, Zenon

\* A call that answers leaves a state that fits, and the parser with its blocks.
Leaves(t) ==
  /\ t \in Kept /\ Deepening(t)
  /\ e_saved' = Editor!serialize(t) /\ e_blocks' = Len(t.indents) - 1

LEMMA OpenBlockLeaves ==
  ASSUME BlocksInv, Editor!OpenBlock
  PROVE  \E t : /\ Leaves(t) /\ t.pending = -1
                /\ t.eof_newline = Editor!scanner.eof_newline
                /\ e_at' = e_at /\ e_out' = Append(e_out, Indent)
  <1> DEFINE s == Editor!scanner
             n == Len(s.indents)
             t == [s EXCEPT !.indents = Append(@, s.pending), !.pending = -1]
  <1>1. /\ s \in Kept /\ Deepening(s) /\ e_blocks = n - 1 /\ n \in Nat
        /\ n \in 1 .. MaxDepth /\ s.indents \in [1 .. n -> Number]
        /\ s.pending \in {-1} \cup Number /\ \A v \in Number : v \in Nat
    BY AtCall
  <1>2. /\ s.pending > s.indents[n] /\ n < MaxDepth
        /\ e_saved' = Editor!serialize(t) /\ e_at' = e_at /\ e_blocks' = e_blocks + 1
        /\ e_out' = Append(e_out, Editor!Indent)
    BY DEF Editor!OpenBlock, Editor!Opens, Editor!Answer, Editor!Top, Editor!depth
  <1>3. s.pending \in Number /\ s.indents[n] < s.pending
    BY <1>1, <1>2
  <1>4. /\ t \in Kept /\ Deepening(t) /\ t.pending = -1 /\ t.eof_newline = s.eof_newline
        /\ Len(t.indents) = n + 1
    BY <1>1, <1>2, <1>3, OneDeeper
  <1> HIDE DEF t
  <1>5. e_blocks' = Len(t.indents) - 1
    BY <1>1, <1>2, <1>4
  <1> QED BY <1>2, <1>4, <1>5, SameTokens DEF Leaves

LEMMA CloseBlockLeaves ==
  ASSUME BlocksInv, Editor!CloseBlock
  PROVE  \E t : /\ Leaves(t) /\ e_want' = "item"
                /\ t.eof_newline = Editor!scanner.eof_newline
                /\ e_at' = e_at /\ e_out' = Append(e_out, Dedent)
  <1> DEFINE s == Editor!scanner
             n == Len(s.indents)
             outer == SubSeq(s.indents, 1, n - 1)
             q == IF s.pending >= outer[n - 1] THEN -1 ELSE s.pending
             t == [s EXCEPT !.indents = outer, !.pending = q]
  <1>1. /\ s \in Kept /\ Deepening(s) /\ e_blocks = n - 1 /\ n \in Nat
        /\ s.pending \in {-1} \cup Number
    BY AtCall
  <1>2. /\ n > 1 /\ e_want' = "item" /\ e_at' = e_at /\ e_blocks' = e_blocks - 1
        /\ e_saved' = Editor!serialize(t) /\ e_out' = Append(e_out, Editor!Dedent)
    BY DEF Editor!CloseBlock, Editor!Closes, Editor!Answer, Editor!depth
  <1>3. q \in {-1} \cup Number
    BY <1>1
  <1> HIDE DEF q
  <1>4. t \in Kept /\ Deepening(t) /\ Len(t.indents) = n - 1 /\ t.eof_newline = s.eof_newline
    BY <1>1, <1>2, <1>3, OneLess
  <1> HIDE DEF t
  <1>5. e_blocks' = Len(t.indents) - 1
    BY <1>1, <1>2, <1>4
  <1> QED BY <1>2, <1>4, <1>5, SameTokens DEF Leaves

LEMMA EndFileLeaves ==
  ASSUME BlocksInv, Editor!EndFile
  PROVE  \E t : /\ Leaves(t) /\ e_want' \in {"item", "indent"}
                /\ Editor!scanner.eof_newline = FALSE /\ t.eof_newline = TRUE
                /\ e_at' = Editor!Past /\ e_out' = Append(e_out, Newline)
  <1> DEFINE s == Editor!scanner
             n == Len(s.indents)
             r == Editor!settled
             t == [r EXCEPT !.eof_newline = TRUE]
  <1>1. /\ s \in Kept /\ e_blocks = n - 1 /\ n \in Nat
        /\ r \in Kept /\ Deepening(r) /\ r.indents = s.indents
    BY AtCall
  <1>2. /\ e_want' \in {"item", "indent"} /\ e_at' = Editor!Past /\ e_blocks' = e_blocks
        /\ e_saved' = Editor!serialize(t) /\ e_out' = Append(e_out, Editor!Newline)
        /\ ~s.eof_newline
    BY DEF Editor!EndFile, Editor!Closing, Editor!Answer, Editor!AfterNewline
  <1>3. s.eof_newline = FALSE
    BY <1>1, <1>2 DEF Kept
  <1> HIDE DEF r
  <1>4. t \in Kept /\ Deepening(t) /\ Len(t.indents) = n /\ t.eof_newline = TRUE
    BY <1>1 DEF Kept, Deepening
  <1> HIDE DEF t
  <1>5. e_blocks' = Len(t.indents) - 1
    BY <1>1, <1>2, <1>4
  <1> QED BY <1>2, <1>3, <1>4, <1>5, SameTokens DEF Leaves

LEMMA CloseAtEndLeaves ==
  ASSUME BlocksInv, Editor!CloseAtEnd
  PROVE  \E t : /\ Leaves(t) /\ e_want' = "item"
                /\ t.eof_newline = Editor!scanner.eof_newline
                /\ e_at' = Editor!Past /\ e_out' = Append(e_out, Dedent)
  <1> DEFINE s == Editor!scanner
             n == Len(s.indents)
             r == Editor!settled
             t == [r EXCEPT !.indents = SubSeq(s.indents, 1, n - 1)]
  <1>1. /\ e_blocks = n - 1 /\ n \in Nat
        /\ r \in Kept /\ Deepening(r) /\ r.indents = s.indents
        /\ r.eof_newline = s.eof_newline
    BY AtCall
  <1>2. /\ n > 1 /\ e_want' = "item" /\ e_at' = Editor!Past /\ e_blocks' = e_blocks - 1
        /\ e_saved' = Editor!serialize(t) /\ e_out' = Append(e_out, Editor!Dedent)
    BY <1>1 DEF Editor!CloseAtEnd, Editor!Answer, Editor!depth
  <1> HIDE DEF r
  <1>3. t \in Kept /\ Deepening(t) /\ Len(t.indents) = n - 1 /\ t.eof_newline = s.eof_newline
    <2>1. Len(r.indents) > 1 /\ -1 \in {-1} \cup Number
      BY <1>1, <1>2
    <2> QED BY <1>1, <2>1, OneLess
  <1> HIDE DEF t
  <1>4. e_blocks' = Len(t.indents) - 1
    BY <1>1, <1>2, <1>3
  <1> QED BY <1>2, <1>3, <1>4, SameTokens DEF Leaves

LEMMA EndLineLeaves ==
  ASSUME BlocksInv, Editor!EndLine
  PROVE  \E t : /\ Leaves(t) /\ e_want' \in {"item", "indent"}
                /\ t.eof_newline = Editor!scanner.eof_newline
                /\ e_at' = Editor!Past /\ e_out' = Append(e_out, Newline)
                /\ Editor!ended
  <1> DEFINE s == Editor!scanner
             n == Len(s.indents)
             r == Editor!settled
             t == [r EXCEPT !.pending = Editor!indent]
  <1>1. /\ e_blocks = n - 1 /\ n \in Nat
        /\ r \in Kept /\ Deepening(r) /\ r.indents = s.indents
        /\ r.eof_newline = s.eof_newline /\ text \in Seq(Piece) /\ e_at \in Nat \ {0}
    BY AtCall
  <1>2. /\ e_want' \in {"item", "indent"} /\ e_at' = Editor!Past /\ e_blocks' = e_blocks
        /\ e_saved' = Editor!serialize(t) /\ e_out' = Append(e_out, Editor!Newline)
        /\ Editor!ended
    BY DEF Editor!EndLine, Editor!Answer, Editor!AfterNewline
  <1>3. Editor!indent \in Number
    BY <1>1, IndentFits
  <1> HIDE DEF r
  <1>4. t \in Kept /\ Deepening(t) /\ Len(t.indents) = n /\ t.eof_newline = s.eof_newline
    BY <1>1, <1>3 DEF Kept, Deepening
  <1> HIDE DEF t
  <1>5. e_blocks' = Len(t.indents) - 1
    BY <1>1, <1>2, <1>4
  <1> QED BY <1>2, <1>4, <1>5, SameTokens DEF Leaves

LEMMA ReadStringLeaves ==
  ASSUME BlocksInv, Editor!ReadString
  PROVE  \E t : /\ Leaves(t) /\ t.pending = -1
                /\ t.eof_newline = Editor!scanner.eof_newline
                /\ e_at' = Editor!Past + 1 /\ e_out' = Append(e_out, Token(Editor!Past))
  <1>1. /\ e_blocks = Len(Editor!scanner.indents) - 1
        /\ Editor!settled \in Kept /\ Deepening(Editor!settled)
        /\ Editor!settled.indents = Editor!scanner.indents /\ Editor!settled.pending = -1
        /\ Editor!settled.eof_newline = Editor!scanner.eof_newline
    BY AtCall
  <1>2. /\ e_at' = Editor!Past + 1 /\ e_blocks' = e_blocks
        /\ e_saved' = Editor!serialize(Editor!settled)
        /\ e_out' = Append(e_out, Editor!Token(Editor!Past))
    BY DEF Editor!ReadString
  <1>3. e_blocks' = Len(Editor!settled.indents) - 1
    BY <1>1, <1>2
  <1> QED BY <1>1, <1>2, <1>3, SameTokens DEF Leaves

LEMMA StepKinds ==
  [Next]_vars =>
    \/ UNCHANGED <<text, e_vars>>
    \/ Next /\ (\/ Editor!OpenBlock \/ Editor!CloseBlock \/ Editor!EndFile
                \/ Editor!CloseAtEnd \/ Editor!EndLine \/ Editor!ReadString
                \/ Editor!Shift \/ Editor!Stop)
  <1>1. Next => Editor!Next \/ UNCHANGED <<text, e_vars>>
    BY TextStands DEF Next
  <1>2. UNCHANGED vars => UNCHANGED <<text, e_vars>>
    BY DEF vars
  <1> QED BY <1>1, <1>2 DEF Editor!Next

LEMMA BlocksStep ==
  BlocksInv /\ [Next]_vars => BlocksInv'
  <1> SUFFICES ASSUME BlocksInv, [Next]_vars PROVE BlocksInv'
    OBVIOUS
  <1> DEFINE s == Editor!scanner
             n == Len(s.indents)
  <1>1. /\ text \in Seq(Piece) /\ e_at \in Nat \ {0}
        /\ s \in Kept /\ Deepening(s) /\ SavedState /\ Settling
        /\ e_blocks = n - 1
    BY AtCall
  <1>2. /\ n \in 1 .. MaxDepth /\ n \in Nat /\ s.indents \in [1 .. n -> Number]
        /\ s.indents[1] = 0 /\ s.pending \in {-1} \cup Number
        /\ \A v \in Number : v \in Nat
        /\ Editor!To \in Nat \ {0} /\ Editor!Past \in Nat \ {0}
    BY AtCall
  <1>3. ASSUME NEW t, Leaves(t), t.pending = -1 \/ e_want' \in {"item", "indent"},
               e_at' \in {e_at, Editor!Past, Editor!Past + 1}, Next
        PROVE  BlocksInv'
    <2>1. e_at' \in Nat \ {0} /\ text' = text
      BY <1>1, <1>2, <1>3, TextStands
    <2> QED BY <1>3, <2>1, Answers DEF Leaves
  <1>4. CASE Next /\ Editor!Shift
    <2>1. /\ e_at' = Editor!To + 1 /\ e_saved' = e_saved /\ e_blocks' = e_blocks
          /\ e_want' \in {"after", "operand", "body"} /\ Editor!Settled
          /\ e_want \in {"item", "first", "body", "operand", "after"}
      BY <1>4 DEF Editor!Shift, Editor!Declines, Editor!AfterToken
    <2>2. Editor!scanner' = s
      BY <2>1 DEF Editor!scanner
    <2>3. s.pending >= 0 => s.pending >= s.indents[n]
      <3> SUFFICES ASSUME s.pending >= 0 PROVE s.pending >= s.indents[n]
        OBVIOUS
      <3>1. CASE e_want \in {"operand", "after", "body"}
        BY <1>1, <3>1 DEF Settling, Editor!Top, Editor!depth
      <3>2. CASE e_want = "first"
        BY <1>1, <3>2 DEF Settling
      <3>3. CASE e_want = "item"
        <4>1. CASE n = 1
          BY <1>2, <4>1
        <4>2. CASE n # 1
          <5>1. n > 1 /\ e_blocks > 0
            <6>1. n \in Nat /\ n \in 1 .. MaxDepth /\ e_blocks = n - 1
              BY <1>1, <1>2
            <6> HIDE DEF n
            <6> QED BY <6>1, <4>2
          <5>2. "dedent" \in Editor!valid_symbols
            BY <3>3, <5>1 DEF Editor!valid_symbols
          <5>3. ~(s.pending < s.indents[n])
            BY <2>1, <5>1, <5>2 DEF Editor!Settled, Editor!Closes, Editor!Top, Editor!depth
          <5>4. s.pending \in Int /\ s.indents[n] \in Int
            BY <1>2
          <5> QED BY <5>3, <5>4
        <4> QED BY <4>1, <4>2
      <3> QED BY <2>1, <3>1, <3>2, <3>3
    <2>4. Settling'
      BY <2>1, <2>2, <2>3 DEF Settling, Editor!Top, Editor!depth
    <2>5. SavedState'
      BY <1>1, <2>1, <2>2 DEF SavedState
    <2>6. Editor!depth' = n
      BY <2>2 DEF Editor!depth
    <2>7. e_at' \in Nat \ {0}
      BY <1>2, <2>1
    <2> QED BY <1>1, TextStands, <1>4, <2>1, <2>4, <2>5, <2>6, <2>7 DEF BlocksInv
  <1>5. CASE Next /\ Editor!Stop
    <2>1. /\ e_at' = e_at /\ e_saved' = e_saved /\ e_blocks' = e_blocks
          /\ e_want' \in {e_want, "error"}
      BY <1>5 DEF Editor!Stop
    <2>2. Editor!scanner' = s
      BY <2>1 DEF Editor!scanner
    <2>3. Settling'
      BY <1>1, <2>1, <2>2 DEF Settling, Editor!Top, Editor!depth
    <2>4. SavedState'
      BY <1>1, <2>1, <2>2 DEF SavedState
    <2>5. Editor!depth' = n
      BY <2>2 DEF Editor!depth
    <2> QED BY <1>1, TextStands, <1>5, <2>1, <2>3, <2>4, <2>5 DEF BlocksInv
  <1>6. CASE UNCHANGED <<text, e_vars>>
    <2>1. /\ text' = text /\ e_at' = e_at /\ e_saved' = e_saved /\ e_want' = e_want
          /\ e_blocks' = e_blocks
      BY <1>6 DEF e_vars
    <2>2. Editor!scanner' = Editor!scanner
      BY <2>1 DEF Editor!scanner
    <2> QED BY <2>1, <2>2 DEF BlocksInv, SavedState, Settling, Editor!depth, Editor!Top
  <1>7. CASE Next /\ Editor!OpenBlock
    BY <1>3, <1>7, OpenBlockLeaves
  <1>8. CASE Next /\ Editor!CloseBlock
    BY <1>3, <1>8, CloseBlockLeaves
  <1>9. CASE Next /\ Editor!EndFile
    BY <1>3, <1>9, EndFileLeaves
  <1>10. CASE Next /\ Editor!CloseAtEnd
    BY <1>3, <1>10, CloseAtEndLeaves
  <1>11. CASE Next /\ Editor!EndLine
    BY <1>3, <1>11, EndLineLeaves
  <1>12. CASE Next /\ Editor!ReadString
    BY <1>3, <1>12, ReadStringLeaves
  <1> QED BY <1>4, <1>5, <1>6, <1>7, <1>8, <1>9, <1>10, <1>11, <1>12, StepKinds

\* The editor's scanner and its parser count the same blocks, whatever text they
\* read: what is serialized fits its buffer and comes back, though a call that
\* found nothing is forgotten (tree_sitter_ngpl_external_scanner_scan, _serialize
\* and _deserialize).
THEOREM ScannerInStep ==
  Spec => []BlocksInStep
  <1>1. Init => BlocksInv
    BY BlocksInvInit
  <1>2. BlocksInv /\ [Next]_vars => BlocksInv'
    BY BlocksStep
  <1>3. BlocksInv => BlocksInStep
    BY BlocksInvSuffices
  <1> QED BY <1>1, <1>2, <1>3, PTL DEF Spec

-----------------------------------------------------------------------------
\* Newlines given, and lines that end.

NewlinesIn(out) == {k \in DOMAIN out : out[k] = Newline}
LinesBefore(p) == {k \in DOMAIN text : k < p /\ text[k] = "newline"}
Flag(b) == IF b THEN 1 ELSE 0

\* A newline was given for a line that ended before here, or it is the one at the
\* end of the file, and that is remembered.
LinesInv ==
  /\ e_out \in Seq(Given)
  /\ Cardinality(NewlinesIn(e_out))
       <= Cardinality(LinesBefore(e_at)) + Flag(Editor!scanner.eof_newline)

LEMMA NewlinesFinite ==
  ASSUME NEW out \in Seq(Given)
  PROVE  /\ IsFiniteSet(NewlinesIn(out)) /\ Cardinality(NewlinesIn(out)) \in Nat
         /\ NewlinesIn(out) \subseteq 1 .. Len(out)
  <1>1. NewlinesIn(out) \in SUBSET (1 .. Len(out)) /\ Len(out) \in Nat
    BY DEF NewlinesIn
  <1>2. IsFiniteSet(1 .. Len(out))
    BY <1>1, FS_Interval
  <1> QED BY <1>1, <1>2, FS_Subset, FS_CardinalityType

LEMMA OneMore ==
  ASSUME NEW out \in Seq(Given), NEW tok \in Given
  PROVE  /\ Append(out, tok) \in Seq(Given)
         /\ Cardinality(NewlinesIn(Append(out, tok)))
              = Cardinality(NewlinesIn(out)) + Flag(tok = Newline)
  <1> DEFINE a == Append(out, tok)
             n == Len(out)
  <1>1. /\ a \in Seq(Given) /\ Len(a) = n + 1 /\ n \in Nat /\ DOMAIN out = 1 .. n
        /\ a[n + 1] = tok /\ \A k \in 1 .. n : a[k] = out[k]
    BY AppendProperties
  <1> HIDE DEF a, n
  <1>2. /\ IsFiniteSet(NewlinesIn(out)) /\ Cardinality(NewlinesIn(out)) \in Nat
        /\ NewlinesIn(out) \subseteq 1 .. n
    BY NewlinesFinite DEF n
  <1>3. DOMAIN a = 1 .. n + 1
    BY <1>1
  <1>4. CASE tok = Newline
    <2>1. NewlinesIn(a) = NewlinesIn(out) \cup {n + 1}
      BY <1>1, <1>3, <1>4 DEF NewlinesIn
    <2>2. n + 1 \notin NewlinesIn(out)
      BY <1>1, <1>2
    <2>3. Cardinality(NewlinesIn(a)) = Cardinality(NewlinesIn(out)) + 1
      BY <1>2, <2>1, <2>2, FS_AddElement
    <2> QED BY <1>1, <1>4, <2>3 DEF a, Flag
  <1>5. CASE tok # Newline
    <2>1. NewlinesIn(a) = NewlinesIn(out)
      BY <1>1, <1>3, <1>5 DEF NewlinesIn
    <2> QED BY <1>1, <1>2, <1>5, <2>1 DEF a, Flag
  <1> QED BY <1>4, <1>5

LEMMA LinesCounted ==
  ASSUME text \in Seq(Piece), NEW p \in Nat, NEW q \in Nat, p <= q
  PROVE  /\ Cardinality(LinesBefore(p)) \in Nat /\ Cardinality(LinesBefore(q)) \in Nat
         /\ Cardinality(LinesBefore(p)) <= Cardinality(LinesBefore(q))
         /\ (\E k \in DOMAIN text : p <= k /\ k < q /\ text[k] = "newline")
              => Cardinality(LinesBefore(p)) + 1 <= Cardinality(LinesBefore(q))
         /\ Cardinality(LinesBefore(p)) <= Cardinality({k \in DOMAIN text : text[k] = "newline"})
         /\ Cardinality({k \in DOMAIN text : text[k] = "newline"}) \in Nat
  <1> DEFINE A == LinesBefore(p)
             B == LinesBefore(q)
             C == {k \in DOMAIN text : text[k] = "newline"}
  <1>1. C \in SUBSET (1 .. Len(text)) /\ Len(text) \in Nat
    OBVIOUS
  <1>2. IsFiniteSet(C) /\ Cardinality(C) \in Nat
    <2>1. IsFiniteSet(1 .. Len(text))
      BY <1>1, FS_Interval
    <2>2. IsFiniteSet(C)
      BY <1>1, <2>1, FS_Subset
    <2> QED BY <2>2, FS_CardinalityType
  <1>3. B \in SUBSET C /\ A \in SUBSET C
    BY DEF LinesBefore
  <1>4. A \in SUBSET B
    BY <1>1 DEF LinesBefore
  <1>5. IsFiniteSet(A) /\ IsFiniteSet(B) /\ Cardinality(A) <= Cardinality(C)
    BY <1>2, <1>3, FS_Subset
  <1>6. Cardinality(A) \in Nat /\ Cardinality(B) \in Nat
    BY <1>5, FS_CardinalityType
  <1>7. Cardinality(A) <= Cardinality(B)
    BY <1>4, <1>5, FS_Subset
  <1>8. ASSUME NEW k \in DOMAIN text, p <= k, k < q, text[k] = "newline"
        PROVE  Cardinality(A) + 1 <= Cardinality(B)
    <2>1. k \in B /\ k \notin A
      BY <1>1, <1>8 DEF LinesBefore
    <2>2. Cardinality(A \cup {k}) = Cardinality(A) + 1
      BY <1>5, <2>1, FS_AddElement
    <2>3. A \cup {k} \in SUBSET B
      BY <1>4, <2>1
    <2>4. Cardinality(A \cup {k}) <= Cardinality(B)
      BY <1>5, <2>3, FS_Subset
    <2> QED BY <2>2, <2>4
  <1> QED BY <1>2, <1>5, <1>6, <1>7, <1>8

LEMMA Counts ==
  ASSUME BlocksInv, LinesInv, text' = text, e_at' \in Nat, e_at <= e_at',
         NEW tok \in Given, e_out' = Append(e_out, tok),
         NEW before, before = Editor!scanner.eof_newline,
         NEW after, after = Editor!scanner'.eof_newline,
         \/ tok # Newline /\ after = before
         \/ tok = Newline /\ before = FALSE /\ after = TRUE
         \/ /\ tok = Newline /\ after = before
            /\ \E k \in DOMAIN text : e_at <= k /\ k < e_at' /\ text[k] = "newline"
  PROVE  LinesInv'
  <1> DEFINE here == Cardinality(LinesBefore(e_at))
             there == Cardinality(LinesBefore(e_at'))
             had == Cardinality(NewlinesIn(e_out))
             has == Cardinality(NewlinesIn(e_out'))
  <1>1. text \in Seq(Piece) /\ e_at \in Nat
    BY DEF BlocksInv
  <1>2. /\ here \in Nat /\ there \in Nat /\ here <= there
        /\ (\E k \in DOMAIN text : e_at <= k /\ k < e_at' /\ text[k] = "newline")
             => here + 1 <= there
    BY <1>1, LinesCounted
  <1>3. e_out \in Seq(Given) /\ had <= here + Flag(before)
    BY DEF LinesInv
  <1>4. had \in Nat
    BY <1>3, NewlinesFinite
  <1>5. e_out' \in Seq(Given) /\ has = had + Flag(tok = Newline)
    BY <1>3, OneMore
  <1> HIDE DEF here, there, had, has
  <1>6. has <= there + Flag(after)
    <2>1. CASE tok # Newline /\ after = before
      <3>1. Flag(tok = Newline) = 0
        BY <2>1 DEF Flag
      <3>2. Flag(before) \in Nat
        BY DEF Flag
      <3>3. has = had
        BY <1>4, <1>5, <3>1
      <3> QED BY <1>2, <1>3, <1>4, <2>1, <3>2, <3>3
    <2>2. CASE tok = Newline /\ before = FALSE /\ after = TRUE
      <3>1. Flag(tok = Newline) = 1 /\ Flag(before) = 0 /\ Flag(after) = 1
        BY <2>2 DEF Flag
      <3> QED BY <1>2, <1>3, <1>4, <1>5, <3>1
    <2>3. CASE /\ tok = Newline /\ after = before
               /\ \E k \in DOMAIN text : e_at <= k /\ k < e_at' /\ text[k] = "newline"
      <3>1. Flag(tok = Newline) = 1 /\ Flag(before) \in Nat
        BY <2>3 DEF Flag
      <3>2. here + 1 <= there
        BY <1>2, <2>3
      <3>3. has = had + 1
        BY <1>5, <3>1
      <3> QED BY <1>2, <1>3, <1>4, <2>3, <3>1, <3>2, <3>3
    <2> QED BY <2>1, <2>2, <2>3
  <1>7. LinesBefore(e_at)' = LinesBefore(e_at')
    BY DEF LinesBefore
  <1>8. NewlinesIn(e_out)' = NewlinesIn(e_out')
    BY Zenon DEF NewlinesIn, Newline
  <1>9. (Editor!scanner.eof_newline)' = after
    OBVIOUS
  <1>10. LinesInv' <=> /\ e_out' \in Seq(Given)
                       /\ Cardinality(NewlinesIn(e_out)')
                            <= Cardinality(LinesBefore(e_at)') + Flag(after)
    BY <1>9, Zenon DEF LinesInv, Given, Flag, Newline, Indent, Dedent, Token
  <1> QED BY <1>5, <1>6, <1>7, <1>8, <1>10 DEF has, there
LEMMA LinesStep ==
  BlocksInv /\ LinesInv /\ [Next]_vars => LinesInv'
  <1> SUFFICES ASSUME BlocksInv, LinesInv, [Next]_vars PROVE LinesInv'
    OBVIOUS
  <1> DEFINE before == Editor!scanner.eof_newline
  <1>1. /\ text \in Seq(Piece) /\ e_at \in Nat \ {0}
        /\ Editor!To \in Nat \ {0} /\ Editor!Past \in Nat \ {0}
        /\ e_at <= Editor!To /\ Editor!To <= Editor!Past
    BY AtCall
  <1>2. ASSUME NEW t, Leaves(t), Next, NEW tok \in Given, e_out' = Append(e_out, tok),
               e_at' \in {e_at, Editor!Past, Editor!Past + 1},
               \/ tok # Newline /\ t.eof_newline = before
               \/ tok = Newline /\ before = FALSE /\ t.eof_newline = TRUE
               \/ /\ tok = Newline /\ t.eof_newline = before
                  /\ \E k \in DOMAIN text : e_at <= k /\ k < e_at' /\ text[k] = "newline"
        PROVE  LinesInv'
    <2>1. text' = text
      BY <1>2, TextStands
    <2>2. e_at' \in Nat /\ e_at <= e_at'
      BY <1>1, <1>2
    <2>3. Editor!scanner' = t
      BY <1>2, Saves DEF Leaves
    <2> DEFINE after == t.eof_newline
    <2>4. after = Editor!scanner'.eof_newline
      BY <2>3
    <2> HIDE DEF before, after
    <2> QED BY <1>2, <2>1, <2>2, <2>4, Counts DEF before, after
  <1>3. /\ Newline \in Given /\ Indent \in Given /\ Dedent \in Given
        /\ \A k \in Nat : Token(k) \in Given
    BY DEF Given
  <1>4. CASE Next /\ Editor!OpenBlock
    BY <1>2, <1>3, <1>4, OpenBlockLeaves, SameTokens
  <1>5. CASE Next /\ Editor!CloseBlock
    BY <1>2, <1>3, <1>5, CloseBlockLeaves, SameTokens
  <1>6. CASE Next /\ Editor!EndFile
    BY <1>2, <1>3, <1>6, EndFileLeaves
  <1>7. CASE Next /\ Editor!CloseAtEnd
    BY <1>2, <1>3, <1>7, CloseAtEndLeaves, SameTokens
  <1>8. CASE Next /\ Editor!EndLine
    <2>1. PICK t : /\ Leaves(t) /\ t.eof_newline = before /\ e_at' = Editor!Past
                   /\ e_out' = Append(e_out, Newline) /\ Editor!ended
      BY <1>8, EndLineLeaves
    <2>2. PICK k \in Editor!Gaps(e_at) : text[k] = "newline"
      BY <2>1 DEF Editor!ended
    <2>3. k \in e_at .. Editor!To - 1 /\ k \in e_at .. Len(text)
      BY <1>1, <2>2, GapsAre DEF Editor!Gaps
    <2>4. k \in DOMAIN text /\ e_at <= k /\ k < e_at'
      BY <1>1, <2>1, <2>3
    <2> QED BY <1>2, <1>3, <1>8, <2>1, <2>2, <2>4
  <1>9. CASE Next /\ Editor!ReadString
    <2>1. Token(Editor!Past) \in Given /\ Token(Editor!Past) # Newline
      BY <1>1, <1>3, SameTokens
    <2> QED BY <1>2, <1>9, <2>1, ReadStringLeaves
  <1>10. ASSUME text' = text, e_at' \in Nat, e_at <= e_at', e_saved' = e_saved,
                \/ e_out' = e_out
                \/ \E tok \in Given : tok # Newline /\ e_out' = Append(e_out, tok)
         PROVE  LinesInv'
    <2>1. Editor!scanner' = Editor!scanner
      BY <1>10 DEF Editor!scanner
    <2> DEFINE after == Editor!scanner'.eof_newline
    <2>2. after = before
      BY <2>1
    <2>3. CASE \E tok \in Given : tok # Newline /\ e_out' = Append(e_out, tok)
      <3> HIDE DEF before, after
      <3> QED BY <1>10, <2>2, <2>3, Counts DEF before, after
    <2>4. CASE e_out' = e_out
      <3>1. /\ Cardinality(LinesBefore(e_at)) \in Nat /\ Cardinality(LinesBefore(e_at')) \in Nat
            /\ Cardinality(LinesBefore(e_at)) <= Cardinality(LinesBefore(e_at'))
        BY <1>1, <1>10, LinesCounted
      <3>2. /\ e_out \in Seq(Given) /\ Cardinality(NewlinesIn(e_out)) \in Nat
            /\ Cardinality(NewlinesIn(e_out)) <= Cardinality(LinesBefore(e_at)) + Flag(before)
        BY NewlinesFinite DEF LinesInv
      <3>3. Flag(before) \in Nat
        BY DEF Flag
      <3>4. Cardinality(NewlinesIn(e_out)) <= Cardinality(LinesBefore(e_at')) + Flag(before)
        BY <3>1, <3>2, <3>3
      <3>5. LinesBefore(e_at)' = LinesBefore(e_at')
        BY <1>10 DEF LinesBefore
      <3>6. NewlinesIn(e_out)' = NewlinesIn(e_out)
        BY <2>4, Zenon DEF NewlinesIn, Newline
      <3>7. LinesInv' <=> /\ e_out' \in Seq(Given)
                          /\ Cardinality(NewlinesIn(e_out)')
                               <= Cardinality(LinesBefore(e_at)') + Flag(after)
        BY Zenon DEF LinesInv, Given, Flag, Newline, Indent, Dedent, Token
      <3> QED BY <2>2, <2>4, <3>2, <3>4, <3>5, <3>6, <3>7
    <2> QED BY <1>10, <2>3, <2>4
  <1>11. CASE Next /\ Editor!Shift
    <2>1. /\ e_at' = Editor!To + 1 /\ e_saved' = e_saved
          /\ e_out' = Append(e_out, Token(Editor!To))
      BY <1>11, SameTokens DEF Editor!Shift
    <2>2. Token(Editor!To) \in Given /\ Token(Editor!To) # Newline
      BY <1>1, <1>3, SameTokens
    <2>3. e_at' \in Nat /\ e_at <= e_at' /\ text' = text
      BY <1>1, <1>11, <2>1, TextStands
    <2> QED BY <1>10, <2>1, <2>2, <2>3
  <1>12. CASE Next /\ Editor!Stop
    <2>1. e_at' = e_at /\ e_saved' = e_saved /\ e_out' = e_out
      BY <1>12 DEF Editor!Stop
    <2> QED BY <1>1, <1>10, <1>12, <2>1, TextStands
  <1>13. CASE UNCHANGED <<text, e_vars>>
    BY <1>1, <1>10, <1>13 DEF e_vars
  <1> QED BY <1>4, <1>5, <1>6, <1>7, <1>8, <1>9, <1>11, <1>12, <1>13, StepKinds

LEMMA LinesInvInit ==
  Init => LinesInv
  <1> SUFFICES ASSUME Init PROVE LinesInv
    OBVIOUS
  <1>1. e_out = <<>> /\ e_saved = <<>> /\ e_at = 1
    BY DEF Init, Editor!Start
  <1>2. Editor!scanner.eof_newline = FALSE
    BY <1>1, Created, CreatedFits
  <1>3. e_out \in Seq(Given) /\ NewlinesIn(e_out) = {}
    BY <1>1 DEF NewlinesIn
  <1>4. Cardinality(NewlinesIn(e_out)) = 0
    BY <1>3, FS_EmptySet
  <1>5. text \in Seq(Piece)
    BY ProgramsAssumption DEF Init
  <1>6. Cardinality(LinesBefore(e_at)) \in Nat
    <2>1. e_at \in Nat /\ e_at <= e_at
      BY <1>1
    <2> QED BY <1>5, <2>1, LinesCounted
  <1>7. Flag(FALSE) = 0
    BY DEF Flag
  <1> DEFINE here == Cardinality(LinesBefore(e_at))
  <1>8. here \in Nat
    BY <1>6
  <1> HIDE DEF here
  <1>9. 0 <= here + 0
    BY <1>8
  <1> QED BY <1>2, <1>3, <1>4, <1>7, <1>9 DEF LinesInv, here

\* However often the scanner is asked at the end of the file, it gives a newline
\* for a line that ended and one more, whatever text is read (eof_newline).
THEOREM NewlinesOnce ==
  Spec => []LinesEndOnce
  <1>1. Init => BlocksInv /\ LinesInv
    BY BlocksInvInit, LinesInvInit
  <1>2. (BlocksInv /\ LinesInv) /\ [Next]_vars => (BlocksInv /\ LinesInv)'
    BY BlocksStep, LinesStep
  <1>3. BlocksInv /\ LinesInv => LinesEndOnce
    <2> SUFFICES ASSUME BlocksInv, LinesInv PROVE LinesEndOnce
      OBVIOUS
    <2>1. text \in Seq(Piece) /\ e_at \in Nat
      BY DEF BlocksInv
    <2> DEFINE had == Cardinality(NewlinesIn(e_out))
               here == Cardinality(LinesBefore(e_at))
               all == Cardinality({k \in DOMAIN text : text[k] = "newline"})
    <2>2. here \in Nat /\ here <= all /\ all \in Nat
      BY <2>1, LinesCounted
    <2>3. had \in Nat /\ had <= here + Flag(Editor!scanner.eof_newline)
      BY NewlinesFinite DEF LinesInv
    <2>4. Flag(Editor!scanner.eof_newline) \in {0, 1}
      BY DEF Flag
    <2>5. LinesEndOnce <=> had <= all + 1
      BY Zenon DEF LinesEndOnce, NewlinesIn
    <2> HIDE DEF had, here, all
    <2> QED BY <2>2, <2>3, <2>4, <2>5
  <1> QED BY <1>1, <1>2, <1>3, PTL DEF Spec

===============================================================================
