--------------------------- MODULE IncrDataProofs ---------------------------
(***************************************************************************)
(* What code copied from build to build may rely on in the data regions.   *)
(***************************************************************************)
EXTENDS IncrData, Flattening, FiniteSetTheorems

-----------------------------------------------------------------------------
\* Words and sequences of bytes.

\* What a word of data may be about.
Told ==
  Nat \cup Literal \cup (Fn \X Version \X Nat)
  \cup {stroffs(strs(p), i) : p \in Programs, i \in Nat}
Tag == {"zero", "char", "address", "length", "utf8", "backtrace", "value", "code"}
Octet == Tag \X Told \X Nat

LEMMA Sizes ==
  /\ Word \in Nat /\ Word >= 1 /\ Significant \in Nat /\ 1 <= Significant
  /\ Significant <= Word /\ BtSize \in Nat
  /\ 1 \in 1 .. Word
  BY DataAssumption

LEMMA ZeroIs == Zero \in Octet /\ Zero[1] = "zero"
  BY DEF Zero, Octet, Told, Tag

\* A word names what it is about in its first byte.
LEMMA WordIs ==
  ASSUME NEW tag \in Tag, NEW w \in Told
  PROVE  /\ Bytes(tag, w) \in Seq(Octet) /\ Len(Bytes(tag, w)) = Word
         /\ Bytes(tag, w)[1] = <<tag, w, 1>>
         /\ \A k \in 1 .. Word : Bytes(tag, w)[k] = <<tag, w, k>> \/ Bytes(tag, w)[k] = Zero
         /\ \A k \in 1 .. Word : Bytes(tag, w)[k][1] \in {tag, "zero"}
  <1> DEFINE b == Bytes(tag, w)
  <1>1. \A k \in 1 .. Word : b[k] = IF k <= Significant THEN <<tag, w, k>> ELSE Zero
    BY DEF Bytes
  <1>2. \A k \in 1 .. Word : b[k] \in Octet
    <2> TAKE k \in 1 .. Word
    <2>1. k \in Nat
      OBVIOUS
    <2>2. <<tag, w, k>> \in Octet
      BY <2>1 DEF Octet
    <2> QED BY <1>1, <2>2, ZeroIs
  <1>3. b \in Seq(Octet) /\ Len(b) = Word
    <2>1. b = [k \in 1 .. Word |-> b[k]]
      BY DEF Bytes
    <2> HIDE DEF b
    <2>2. b \in [1 .. Word -> Octet]
      BY <1>2, <2>1
    <2> QED BY <2>2, Sizes, SeqDef
  <1>4. b[1] = <<tag, w, 1>>
    BY <1>1, Sizes
  <1>5. \A k \in 1 .. Word : b[k] = <<tag, w, k>> \/ b[k] = Zero
    BY <1>1
  <1>6. \A k \in 1 .. Word : b[k][1] \in {tag, "zero"}
    <2> TAKE k \in 1 .. Word
    <2>1. <<tag, w, k>>[1] = tag
      OBVIOUS
    <2> QED BY <1>5, <2>1, ZeroIs
  <1> QED BY <1>3, <1>4, <1>5, <1>6

LEMMA Rounding ==
  ASSUME NEW n \in Nat
  PROVE  (Word - (n % Word)) % Word \in 0 .. Word - 1
  <1>1. n % Word \in 0 .. Word - 1
    BY Sizes
  <1>2. Word - (n % Word) \in Int
    BY <1>1, Sizes
  <1> QED BY <1>2, Sizes

\* Padding is of zeros, and less than a word.
LEMMA Padding ==
  ASSUME NEW s \in Seq(Octet)
  PROVE  /\ Aligned(s) \in Seq(Octet)
         /\ Len(s) <= Len(Aligned(s)) /\ Len(Aligned(s)) < Len(s) + Word
         /\ Len(Aligned(s)) = Len(s) + ((Word - (Len(s) % Word)) % Word)
         /\ \A i \in 1 .. Len(s) : Aligned(s)[i] = s[i]
         /\ \A i \in 1 .. Len(Aligned(s)) : i > Len(s) => Aligned(s)[i] = Zero
  <1> DEFINE n == (Word - (Len(s) % Word)) % Word
             z == [k \in 1 .. n |-> Zero]
  <1>1. n \in 0 .. Word - 1 /\ n \in Nat
    BY Rounding, Sizes
  <1> HIDE DEF n
  <1>2. z \in Seq(Octet) /\ Len(z) = n /\ \A k \in 1 .. n : z[k] = Zero
    BY <1>1, ZeroIs
  <1> HIDE DEF z
  <1>3. Aligned(s) = s \o z
    BY DEF Aligned, n, z
  <1>4. /\ s \o z \in Seq(Octet) /\ Len(s \o z) = Len(s) + Len(z)
        /\ \A i \in 1 .. Len(s) : (s \o z)[i] = s[i]
        /\ \A i \in 1 .. Len(s) + Len(z) : i > Len(s) =>
             i - Len(s) \in 1 .. Len(z) /\ (s \o z)[i] = z[i - Len(s)]
    BY <1>2, Behind
  <1>5. Len(s) \in Nat
    OBVIOUS
  <1>6. Len(Aligned(s)) = Len(s) + n
    BY <1>2, <1>3, <1>4
  <1>7. Len(Aligned(s)) = Len(s) + ((Word - (Len(s) % Word)) % Word)
    BY <1>6 DEF n
  <1> QED BY <1>1, <1>2, <1>3, <1>4, <1>5, <1>6, <1>7, Sizes

-----------------------------------------------------------------------------
\* The read-only data of a program.

LEMMA ProgramIs ==
  ASSUME NEW p \in Programs
  PROVE  /\ strs(p) \in Seq(Literal)
         /\ \A f \in Fn : p.ver[f] \in Version
         /\ Order \in Seq(Fn)
  <1>1. Order \in Seq(Fn) /\ \A f \in Fn : p.ver[f] \in Version
    BY DataAssumption
  <1>2. \A i \in DOMAIN Order : Lits[<<Order[i], p.ver[Order[i]]>>] \in Seq(Literal)
    BY <1>1, DataAssumption
  <1> DEFINE s == [i \in DOMAIN Order |-> Lits[<<Order[i], p.ver[Order[i]]>>]]
  <1>3. s \in Seq(Seq(Literal))
    <2>1. Len(Order) \in Nat /\ DOMAIN Order = 1 .. Len(Order)
      BY <1>1
    <2>2. s = [i \in 1 .. Len(Order) |-> s[i]] /\ \A i \in 1 .. Len(Order) : s[i] \in Seq(Literal)
      BY <1>2, <2>1
    <2> HIDE DEF s
    <2> QED BY <2>1, <2>2
  <1> HIDE DEF s
  <1>4. FlattenSeq(s) \in Seq(Literal)
    BY <1>3, Flattened
  <1> QED BY <1>1, <1>4 DEF strs, s

\* Where the strings of a pool begin and end.
LEMMA Characters ==
  ASSUME NEW pool \in Seq(Literal)
  PROVE  /\ StringBytes(pool) \in Seq(Octet)
         /\ \A n \in 1 .. Len(StringBytes(pool)) : StringBytes(pool)[n][1] = "char"
         /\ \E at \in [0 .. Len(pool) -> Nat] :
              /\ at[0] = 0 /\ at[Len(pool)] = Len(StringBytes(pool))
              /\ \A i \in 1 .. Len(pool) : at[i] = at[i - 1] + LitLen[pool[i]]
  <1> DEFINE s == [i \in DOMAIN pool |-> [k \in 1 .. LitLen[pool[i]] |-> <<"char", pool[i], k>>]]
             flat == FlattenSeq(s)
  <1>1. /\ Len(pool) \in Nat /\ DOMAIN pool = 1 .. Len(pool)
        /\ \A i \in 1 .. Len(pool) : pool[i] \in Literal /\ LitLen[pool[i]] \in Nat
    BY DataAssumption
  <1>2. \A i \in 1 .. Len(pool) :
          /\ s[i] \in Seq(Octet) /\ Len(s[i]) = LitLen[pool[i]]
          /\ \A k \in 1 .. Len(s[i]) : s[i][k][1] = "char"
    <2> TAKE i \in 1 .. Len(pool)
    <2> DEFINE n == LitLen[pool[i]]
               c == [k \in 1 .. n |-> <<"char", pool[i], k>>]
    <2>1. s[i] = c
      BY <1>1
    <2>2. n \in Nat /\ pool[i] \in Told
      BY <1>1 DEF Told
    <2>3. \A k \in 1 .. n : <<"char", pool[i], k>> \in Octet
      BY <2>2 DEF Octet, Tag
    <2> HIDE DEF n
    <2>4. c \in Seq(Octet) /\ Len(c) = n
      BY <2>2, <2>3
    <2>5. \A k \in 1 .. n : c[k][1] = "char"
      OBVIOUS
    <2> QED BY <2>1, <2>4, <2>5 DEF n
  <1>3. s \in Seq(Seq(Octet)) /\ Len(s) = Len(pool)
    <2>1. s = [i \in 1 .. Len(pool) |-> s[i]]
      BY <1>1
    <2> HIDE DEF s
    <2> QED BY <1>1, <1>2, <2>1
  <1>4. flat = StringBytes(pool)
    BY DEF StringBytes
  <1> HIDE DEF s
  <1>5. flat \in Seq(Octet)
    BY <1>3, Flattened
  <1>6. PICK at : Places(at, s, flat)
    BY <1>3, Flattened
  <1> HIDE DEF flat
  <1>7. \A n \in 1 .. Len(flat) : flat[n][1] = "char"
    <2> TAKE n \in 1 .. Len(flat)
    <2>1. PICK i \in 1 .. Len(s) : \E k \in 1 .. Len(s[i]) : n = at[i - 1] + k
      BY <1>6 DEF Places
    <2>2. PICK k \in 1 .. Len(s[i]) : n = at[i - 1] + k
      BY <2>1
    <2>3. flat[n] = s[i][k]
      BY <1>6, <2>2 DEF Places
    <2> QED BY <1>2, <1>3, <2>3
  <1>8. /\ at \in [0 .. Len(pool) -> Nat]
        /\ at[0] = 0 /\ at[Len(pool)] = Len(flat)
        /\ \A i \in 1 .. Len(pool) : at[i] = at[i - 1] + LitLen[pool[i]]
    BY <1>2, <1>3, <1>6 DEF Places
  <1> QED BY <1>4, <1>5, <1>7, <1>8

\* A pool whose strings are as long as the last of another's is no longer, and as
\* long if these are all.
LEMMA TogetherNoLonger ==
  ASSUME NEW pool \in Seq(Literal), NEW tail \in Seq(Literal), NEW J \in Nat,
         Len(tail) + J = Len(pool),
         \A i \in 1 .. Len(tail) : LitLen[tail[i]] = LitLen[pool[i + J]]
  PROVE  Len(StringBytes(tail)) <= Len(StringBytes(pool))
  <1>1. PICK at \in [0 .. Len(pool) -> Nat] :
              /\ at[0] = 0 /\ at[Len(pool)] = Len(StringBytes(pool))
              /\ \A i \in 1 .. Len(pool) : at[i] = at[i - 1] + LitLen[pool[i]]
    BY Characters
  <1>2. PICK to \in [0 .. Len(tail) -> Nat] :
              /\ to[0] = 0 /\ to[Len(tail)] = Len(StringBytes(tail))
              /\ \A i \in 1 .. Len(tail) : to[i] = to[i - 1] + LitLen[tail[i]]
    BY Characters
  <1>3. Len(pool) \in Nat /\ Len(tail) \in Nat
    OBVIOUS
  <1> DEFINE Off == {i \in 0 .. Len(tail) : ~(to[i] <= at[i + J])}
  <1>4. Off = {}
    <2> SUFFICES ASSUME Off # {} PROVE FALSE
      OBVIOUS
    <2>1. PICK i \in Off : \A j \in Off : i <= j
      <3>1. Off \subseteq Nat
        BY <1>3
      <3> HIDE DEF Off
      <3> QED BY <3>1, LeastOf
    <2>2. i \in 0 .. Len(tail) /\ ~(to[i] <= at[i + J])
      BY <2>1
    <2>3. i # 0
      <3>1. at[0 + J] \in Nat
        BY <1>3
      <3> QED BY <1>2, <2>2, <3>1
    <2>4. /\ i \in 1 .. Len(tail) /\ i - 1 \in 0 .. Len(tail) /\ ~(i <= i - 1)
          /\ i + J \in 1 .. Len(pool) /\ (i + J) - 1 = (i - 1) + J
          /\ (i - 1) + J \in 0 .. Len(pool)
      BY <1>3, <2>2, <2>3
    <2>5. to[i - 1] <= at[(i - 1) + J]
      BY <2>1, <2>4
    <2>6. to[i] = to[i - 1] + LitLen[tail[i]] /\ at[i + J] = at[(i - 1) + J] + LitLen[tail[i]]
      <3>1. at[i + J] = at[(i + J) - 1] + LitLen[pool[i + J]]
        BY <1>1, <2>4
      <3> QED BY <1>2, <2>4, <3>1
    <2>7. to[i - 1] \in Nat /\ at[(i - 1) + J] \in Nat /\ LitLen[tail[i]] \in Nat
      <3>1. tail[i] \in Literal
        BY <2>4
      <3> QED BY <1>1, <1>2, <2>4, <3>1, DataAssumption
    <2> QED BY <2>2, <2>5, <2>6, <2>7
  <1>5. Len(tail) \in 0 .. Len(tail) /\ Len(tail) \notin Off
    BY <1>3, <1>4
  <1>6. to[Len(tail)] <= at[Len(tail) + J]
    BY <1>5
  <1> QED BY <1>1, <1>2, <1>6

\* The descriptors, two words each.
LEMMA Described ==
  ASSUME NEW p \in Programs
  PROVE  LET pool == strs(p)
             d == Descriptors(pool)
         IN  /\ d \in Seq(Octet) /\ Len(d) = (2 * Word) * Len(pool)
             /\ \A i \in 1 .. Len(pool) : \A k \in 1 .. Word :
                  /\ d[(2 * Word) * (i - 1) + k] = Bytes("address", stroffs(pool, i))[k]
                  /\ d[(2 * Word) * (i - 1) + (Word + k)] = Bytes("length", LitLen[pool[i]])[k]
  <1> DEFINE pool == strs(p)
             A(i) == Bytes("address", stroffs(pool, i))
             L(i) == Bytes("length", LitLen[pool[i]])
             s == [i \in DOMAIN pool |-> A(i) \o L(i)]
  <1>0. pool \in Seq(Literal)
    BY ProgramIs
  <1>1. /\ Len(pool) \in Nat /\ DOMAIN pool = 1 .. Len(pool)
        /\ \A i \in 1 .. Len(pool) : LitLen[pool[i]] \in Nat
    BY <1>0, DataAssumption
  <1>2. \A i \in 1 .. Len(pool) : /\ A(i) \in Seq(Octet) /\ Len(A(i)) = Word
                                  /\ L(i) \in Seq(Octet) /\ Len(L(i)) = Word
    <2> TAKE i \in 1 .. Len(pool)
    <2>1. stroffs(pool, i) \in Told /\ LitLen[pool[i]] \in Told
      BY <1>1 DEF Told
    <2>2. "address" \in Tag /\ "length" \in Tag
      BY DEF Tag
    <2> QED BY <2>1, <2>2, WordIs
  <1> HIDE DEF A, L
  <1>3. \A i \in 1 .. Len(pool) :
          /\ s[i] = A(i) \o L(i) /\ s[i] \in Seq(Octet) /\ Len(s[i]) = 2 * Word
          /\ \A k \in 1 .. Word : s[i][k] = A(i)[k] /\ s[i][Word + k] = L(i)[k]
    <2> TAKE i \in 1 .. Len(pool)
    <2>1. s[i] = A(i) \o L(i)
      BY <1>1
    <2>2. /\ A(i) \o L(i) \in Seq(Octet) /\ Len(A(i) \o L(i)) = Len(A(i)) + Len(L(i))
          /\ \A k \in 1 .. Len(A(i)) : (A(i) \o L(i))[k] = A(i)[k]
          /\ \A k \in 1 .. Len(L(i)) : (A(i) \o L(i))[Len(A(i)) + k] = L(i)[k]
      <3> DEFINE a == A(i)
                 b == L(i)
      <3>1. a \in Seq(Octet) /\ b \in Seq(Octet)
        BY <1>2
      <3> HIDE DEF a, b
      <3>2. /\ a \o b \in Seq(Octet) /\ Len(a \o b) = Len(a) + Len(b)
            /\ \A k \in 1 .. Len(a) : (a \o b)[k] = a[k]
            /\ \A k \in 1 .. Len(b) : (a \o b)[Len(a) + k] = b[k]
        BY <3>1, Behind
      <3> QED BY <3>2 DEF a, b
    <2>3. Len(A(i)) = Word /\ Len(L(i)) = Word
      BY <1>2
    <2>4. Len(A(i) \o L(i)) = 2 * Word
      BY <2>2, <2>3, Sizes
    <2>5. \A k \in 1 .. Word : s[i][k] = A(i)[k] /\ s[i][Word + k] = L(i)[k]
      BY <2>1, <2>2, <2>3
    <2> QED BY <2>1, <2>2, <2>4, <2>5
  <1>4. s \in Seq(Seq(Octet)) /\ Len(s) = Len(pool)
    <2>1. s = [i \in 1 .. Len(pool) |-> s[i]]
      BY <1>1
    <2> HIDE DEF s
    <2> QED BY <1>1, <1>3, <2>1
  <1>5. FlattenSeq(s) = Descriptors(pool)
    BY DEF Descriptors, A, L
  <1> HIDE DEF s, pool
  <1>6. 2 * Word \in Nat
    BY Sizes
  <1> DEFINE size == 2 * Word
  <1>7. size \in Nat /\ \A i \in 1 .. Len(s) : Len(s[i]) = size
    BY <1>3, <1>4, <1>6
  <1> HIDE DEF size
  <1>8. /\ FlattenSeq(s) \in Seq(Octet)
        /\ Len(FlattenSeq(s)) = size * Len(s)
        /\ \A i \in 1 .. Len(s) : \A k \in 1 .. size :
              FlattenSeq(s)[size * (i - 1) + k] = s[i][k]
    BY <1>4, <1>7, EqualPieces
  <1>9. \A k \in 1 .. Word : k \in 1 .. size /\ Word + k \in 1 .. size
    BY Sizes DEF size
  <1>10. \A i \in 1 .. Len(pool) : \A k \in 1 .. Word :
                  /\ FlattenSeq(s)[size * (i - 1) + k] = A(i)[k]
                  /\ FlattenSeq(s)[size * (i - 1) + (Word + k)] = L(i)[k]
    BY <1>3, <1>4, <1>8, <1>9
  <1> QED BY <1>4, <1>5, <1>8, <1>10 DEF A, L, size, pool

\* The globals of a kind are those the program declares.
LEMMA KindIs ==
  ASSUME NEW p \in Programs, NEW kind
  PROVE  /\ OfKind(p, kind) \in Seq(Decl)
         /\ \A n \in 1 .. Len(OfKind(p, kind)) :
              \E i \in DOMAIN p.globals :
                OfKind(p, kind)[n] = p.globals[i] /\ p.globals[i].kind = kind
         /\ \A i \in DOMAIN p.globals : p.globals[i].kind = kind =>
              \E n \in 1 .. Len(OfKind(p, kind)) : OfKind(p, kind)[n] = p.globals[i]
  <1> DEFINE g == p.globals
             s == [i \in DOMAIN g |-> IF g[i].kind = kind THEN <<g[i]>> ELSE <<>>]
             flat == FlattenSeq(s)
  <1>1. g \in Seq(Decl)
    BY DataAssumption
  <1>2. flat = OfKind(p, kind)
    BY DEF OfKind
  <1> HIDE DEF g
  <1>3. Len(g) \in Nat /\ DOMAIN g = 1 .. Len(g) /\ \A i \in 1 .. Len(g) : g[i] \in Decl
    BY <1>1
  <1>4. \A i \in 1 .. Len(g) :
          /\ s[i] \in Seq(Decl)
          /\ Len(s[i]) = (IF g[i].kind = kind THEN 1 ELSE 0)
          /\ \A k \in 1 .. Len(s[i]) : g[i].kind = kind /\ s[i][k] = g[i] /\ k = 1
    BY <1>3
  <1>5. s \in Seq(Seq(Decl)) /\ Len(s) = Len(g)
    <2>1. s = [i \in 1 .. Len(g) |-> s[i]]
      BY <1>3
    <2> HIDE DEF s
    <2> QED BY <1>3, <1>4, <2>1
  <1> HIDE DEF s
  <1>6. flat \in Seq(Decl)
    BY <1>5, Flattened
  <1>7. PICK at : Places(at, s, flat)
    BY <1>5, Flattened
  <1> HIDE DEF flat
  <1>8. \A n \in 1 .. Len(flat) : \E i \in DOMAIN g : flat[n] = g[i] /\ g[i].kind = kind
    <2> TAKE n \in 1 .. Len(flat)
    <2>1. PICK i \in 1 .. Len(s) : \E k \in 1 .. Len(s[i]) : n = at[i - 1] + k
      BY <1>7 DEF Places
    <2>2. PICK k \in 1 .. Len(s[i]) : n = at[i - 1] + k
      BY <2>1
    <2>3. flat[n] = s[i][k]
      BY <1>7, <2>2 DEF Places
    <2> QED BY <1>3, <1>4, <1>5, <2>3
  <1>9. \A i \in DOMAIN g : g[i].kind = kind => \E n \in 1 .. Len(flat) : flat[n] = g[i]
    <2> TAKE i \in DOMAIN g
    <2> HAVE g[i].kind = kind
    <2>a. i \in 1 .. Len(s) /\ Len(s[i]) = 1
      BY <1>3, <1>4, <1>5
    <2>b. 1 \in 1 .. Len(s[i])
      BY <2>a
    <2>1. i \in 1 .. Len(s) /\ Len(s[i]) = 1 /\ 1 \in 1 .. Len(s[i]) /\ s[i][1] = g[i]
      BY <1>3, <1>4, <2>a, <2>b
    <2>2. flat[at[i - 1] + 1] = g[i]
      BY <1>7, <2>1 DEF Places
    <2>3. at[i] = at[i - 1] + 1 /\ at[i] <= Len(flat)
      BY <1>7, <2>1 DEF Places
    <2>4. at[i - 1] \in Nat
      <3>1. i - 1 \in 0 .. Len(s)
        BY <1>5, <1>3
      <3> QED BY <1>7, <3>1 DEF Places
    <2>5. Len(flat) \in Nat
      BY <1>6
    <2>6. at[i - 1] + 1 \in 1 .. Len(flat)
      BY <2>3, <2>4, <2>5
    <2> QED BY <2>2, <2>6
  <1> QED BY <1>2, <1>6, <1>8, <1>9 DEF g

\* The constants, a word each.
LEMMA Constants ==
  ASSUME NEW p \in Programs
  PROVE  LET ro == OfKind(p, "ro")
             v == ReadOnlyValues(p)
         IN  /\ v \in Seq(Octet) /\ Len(v) = Word * Len(ro)
             /\ \A n \in 1 .. Len(v) : v[n][1] \in {"value", "zero"}
             /\ \A i \in 1 .. Len(ro) : \A k \in 1 .. Word :
                  v[Word * (i - 1) + k] = Bytes("value", ro[i].val)[k]
  <1> DEFINE ro == OfKind(p, "ro")
             s == [i \in DOMAIN ro |-> Bytes("value", ro[i].val)]
             flat == FlattenSeq(s)
  <1>1. ro \in Seq(Decl)
    BY KindIs
  <1>2. flat = ReadOnlyValues(p)
    BY DEF ReadOnlyValues
  <1> HIDE DEF ro
  <1>3. Len(ro) \in Nat /\ DOMAIN ro = 1 .. Len(ro) /\ \A i \in 1 .. Len(ro) : ro[i].val \in Nat
    <2>1. Len(ro) \in Nat /\ DOMAIN ro = 1 .. Len(ro) /\ \A i \in 1 .. Len(ro) : ro[i] \in Decl
      BY <1>1
    <2>2. \A d \in Decl : d.val \in Nat
      BY DEF Decl
    <2> QED BY <2>1, <2>2
  <1>4. \A i \in 1 .. Len(ro) : s[i] = Bytes("value", ro[i].val)
    BY <1>3
  <1>5. \A i \in 1 .. Len(ro) : /\ s[i] \in Seq(Octet) /\ Len(s[i]) = Word
                                /\ \A k \in 1 .. Word : s[i][k][1] \in {"value", "zero"}
    <2> TAKE i \in 1 .. Len(ro)
    <2>1. ro[i].val \in Told /\ "value" \in Tag
      BY <1>3 DEF Told, Tag
    <2> QED BY <1>4, <2>1, WordIs
  <1>6. s \in Seq(Seq(Octet)) /\ Len(s) = Len(ro)
    <2>1. s = [i \in 1 .. Len(ro) |-> s[i]]
      BY <1>3
    <2> HIDE DEF s
    <2> QED BY <1>3, <1>5, <2>1
  <1> HIDE DEF s
  <1>7. /\ flat \in Seq(Octet)
        /\ Len(flat) = Word * Len(s)
        /\ \A i \in 1 .. Len(s) : \A k \in 1 .. Word : flat[Word * (i - 1) + k] = s[i][k]
    <2>1. Word \in Nat /\ \A i \in 1 .. Len(s) : Len(s[i]) = Word
      BY <1>5, <1>6, Sizes
    <2> QED BY <1>6, <2>1, EqualPieces
  <1>8. PICK at : Places(at, s, flat)
    BY <1>6, Flattened
  <1> HIDE DEF flat
  <1>9. \A n \in 1 .. Len(flat) : flat[n][1] \in {"value", "zero"}
    <2> TAKE n \in 1 .. Len(flat)
    <2>1. PICK i \in 1 .. Len(s) : \E k \in 1 .. Len(s[i]) : n = at[i - 1] + k
      BY <1>8 DEF Places
    <2>2. PICK k \in 1 .. Len(s[i]) : n = at[i - 1] + k
      BY <2>1
    <2>3. flat[n] = s[i][k]
      BY <1>8, <2>2 DEF Places
    <2> QED BY <1>5, <1>6, <2>3
  <1> QED BY <1>2, <1>4, <1>6, <1>7, <1>9 DEF ro

\* Where what is.
LEMMA LayoutIs ==
  ASSUME NEW p \in Programs
  PROVE  LET l == layout[p]
             pool == strs(p)
             ro == OfKind(p, "ro")
         IN  /\ l.strs = pool /\ l.ro_fixed \in Nat
             /\ Len(StringBytes(pool)) <= l.ro_fixed
             /\ l.ro_fixed < Len(StringBytes(pool)) + Word
             /\ l.ro_bt = l.ro_fixed + (2 * Word) * Len(pool) + Word
             /\ l.ro_bt_end = l.ro_bt + BtSize /\ l.ro_vals = l.ro_bt + BtSize
             /\ l.ro_vals_end = l.ro_vals + Word * Len(ro)
             /\ l.bytes \in Seq(Octet) /\ l.ro_vals_end <= Len(l.bytes)
             /\ Len(l.bytes) = l.ro_vals_end + ((Word - (l.ro_vals_end % Word)) % Word)
             /\ \A i \in 1 .. l.ro_fixed : l.bytes[i][1] \in {"char", "zero"}
             /\ \A i \in 1 .. Len(pool) : \A k \in 1 .. Word :
                  /\ l.bytes[l.ro_fixed + ((2 * Word) * (i - 1) + k)]
                       = Bytes("address", stroffs(pool, i))[k]
                  /\ l.bytes[l.ro_fixed + ((2 * Word) * (i - 1) + (Word + k))]
                       = Bytes("length", LitLen[pool[i]])[k]
             /\ \A k \in 1 .. Word :
                  l.bytes[l.ro_fixed + (2 * Word) * Len(pool) + k] = Bytes("utf8", 0)[k]
             /\ \A i \in 1 .. Len(l.bytes) : i > l.ro_bt =>
                  l.bytes[i][1] \in {"backtrace", "value", "zero"}
             /\ \A i \in 1 .. Len(ro) : \A k \in 1 .. Word :
                  l.bytes[l.ro_vals + (Word * (i - 1) + k)] = Bytes("value", ro[i].val)[k]
  <1> DEFINE pool == strs(p)
             ro == OfKind(p, "ro")
             chars == Aligned(StringBytes(pool))
             d == Descriptors(pool)
             u == Bytes("utf8", 0)
             x1 == chars \o d
             x2 == x1 \o u
             b == [k \in 1 .. BtSize |-> <<"backtrace", 0, k>>]
             x3 == x2 \o b
             v == ReadOnlyValues(p)
             x4 == x3 \o v
             all == Aligned(x4)
             l == layout[p]
  <1>1. /\ l.strs = pool /\ l.ro_fixed = Len(chars) /\ l.ro_bt = Len(x2)
        /\ l.ro_bt_end = Len(x2) + BtSize /\ l.ro_vals = Len(x2) + BtSize
        /\ l.ro_vals_end = Len(x2) + BtSize + Len(v)
        /\ l.bytes = all
    BY DEF layout
  <1>2. pool \in Seq(Literal)
    BY ProgramIs
  <1>3. StringBytes(pool) \in Seq(Octet)
        /\ \A n \in 1 .. Len(StringBytes(pool)) : StringBytes(pool)[n][1] = "char"
    BY <1>2, Characters
  <1>4. /\ chars \in Seq(Octet)
        /\ Len(StringBytes(pool)) <= Len(chars) /\ Len(chars) < Len(StringBytes(pool)) + Word
        /\ \A i \in 1 .. Len(StringBytes(pool)) : chars[i] = StringBytes(pool)[i]
        /\ \A i \in 1 .. Len(chars) : i > Len(StringBytes(pool)) => chars[i] = Zero
    BY <1>3, Padding
  <1>5. \A i \in 1 .. Len(chars) : chars[i][1] \in {"char", "zero"}
    <2> TAKE i \in 1 .. Len(chars)
    <2>1. Len(StringBytes(pool)) \in Nat
      BY <1>3
    <2>2. CASE i > Len(StringBytes(pool))
      BY <1>4, <2>2, ZeroIs
    <2>3. CASE i \in 1 .. Len(StringBytes(pool))
      BY <1>3, <1>4, <2>3
    <2> QED BY <1>4, <2>1, <2>2, <2>3
  <1>6. /\ d \in Seq(Octet) /\ Len(d) = (2 * Word) * Len(pool)
        /\ \A i \in 1 .. Len(pool) : \A k \in 1 .. Word :
                  /\ d[(2 * Word) * (i - 1) + k] = Bytes("address", stroffs(pool, i))[k]
                  /\ d[(2 * Word) * (i - 1) + (Word + k)] = Bytes("length", LitLen[pool[i]])[k]
    BY Described
  <1>7. u \in Seq(Octet) /\ Len(u) = Word
    <2>1. 0 \in Told /\ "utf8" \in Tag
      BY DEF Told, Tag
    <2> QED BY <2>1, WordIs
  <1>8. b \in Seq(Octet) /\ Len(b) = BtSize /\ \A k \in 1 .. BtSize : b[k][1] = "backtrace"
    <2>1. 0 \in Told /\ "backtrace" \in Tag
      BY DEF Told, Tag
    <2>2. \A k \in 1 .. BtSize : <<"backtrace", 0, k>> \in Octet
      BY <2>1, Sizes DEF Octet
    <2> QED BY <2>2, Sizes
  <1>9. /\ v \in Seq(Octet) /\ Len(v) = Word * Len(ro)
        /\ \A n \in 1 .. Len(v) : v[n][1] \in {"value", "zero"}
        /\ \A i \in 1 .. Len(ro) : \A k \in 1 .. Word :
             v[Word * (i - 1) + k] = Bytes("value", ro[i].val)[k]
    BY Constants
  <1>10. Len(pool) \in Nat /\ Len(ro) \in Nat
    <2>1. ro \in Seq(Decl)
      BY KindIs
    <2> QED BY <1>2, <2>1
  <1>11. /\ (2 * Word) * Len(pool) \in Nat /\ Word * Len(ro) \in Nat /\ 2 * Word \in Nat
    BY <1>10, Sizes
  <1> HIDE DEF chars, d, u, b, v, pool, ro
  <1>12. /\ x1 \in Seq(Octet) /\ Len(x1) = Len(chars) + Len(d)
         /\ \A i \in 1 .. Len(chars) : x1[i] = chars[i]
         /\ \A i \in 1 .. Len(d) : x1[Len(chars) + i] = d[i]
    <2>1. chars \in Seq(Octet) /\ d \in Seq(Octet)
      BY <1>4, <1>6
    <2> HIDE DEF x1
    <2>2. x1 = chars \o d
      BY DEF x1
    <2>3. /\ chars \o d \in Seq(Octet) /\ Len(chars \o d) = Len(chars) + Len(d)
          /\ \A i \in 1 .. Len(chars) : (chars \o d)[i] = chars[i]
          /\ \A i \in 1 .. Len(d) : (chars \o d)[Len(chars) + i] = d[i]
          /\ \A i \in 1 .. Len(chars) + Len(d) : i > Len(chars) =>
               i - Len(chars) \in 1 .. Len(d) /\ (chars \o d)[i] = d[i - Len(chars)]
      BY <2>1, Behind
    <2> QED BY <2>2, <2>3
  <1> HIDE DEF x1
  <1>13. /\ x2 \in Seq(Octet) /\ Len(x2) = Len(x1) + Len(u)
         /\ \A i \in 1 .. Len(x1) : x2[i] = x1[i]
         /\ \A i \in 1 .. Len(u) : x2[Len(x1) + i] = u[i]
    <2>1. x1 \in Seq(Octet) /\ u \in Seq(Octet)
      BY <1>7, <1>12
    <2> HIDE DEF x2
    <2>2. x2 = x1 \o u
      BY DEF x2
    <2>3. /\ x1 \o u \in Seq(Octet) /\ Len(x1 \o u) = Len(x1) + Len(u)
          /\ \A i \in 1 .. Len(x1) : (x1 \o u)[i] = x1[i]
          /\ \A i \in 1 .. Len(u) : (x1 \o u)[Len(x1) + i] = u[i]
          /\ \A i \in 1 .. Len(x1) + Len(u) : i > Len(x1) =>
               i - Len(x1) \in 1 .. Len(u) /\ (x1 \o u)[i] = u[i - Len(x1)]
      BY <2>1, Behind
    <2> QED BY <2>2, <2>3
  <1> HIDE DEF x2
  <1>14. /\ x3 \in Seq(Octet) /\ Len(x3) = Len(x2) + Len(b)
         /\ \A i \in 1 .. Len(x2) : x3[i] = x2[i]
         /\ \A i \in 1 .. Len(x2) + Len(b) : i > Len(x2) =>
              i - Len(x2) \in 1 .. Len(b) /\ x3[i] = b[i - Len(x2)]
    <2>1. x2 \in Seq(Octet) /\ b \in Seq(Octet)
      BY <1>8, <1>13
    <2> HIDE DEF x3
    <2>2. x3 = x2 \o b
      BY DEF x3
    <2>3. /\ x2 \o b \in Seq(Octet) /\ Len(x2 \o b) = Len(x2) + Len(b)
          /\ \A i \in 1 .. Len(x2) : (x2 \o b)[i] = x2[i]
          /\ \A i \in 1 .. Len(b) : (x2 \o b)[Len(x2) + i] = b[i]
          /\ \A i \in 1 .. Len(x2) + Len(b) : i > Len(x2) =>
               i - Len(x2) \in 1 .. Len(b) /\ (x2 \o b)[i] = b[i - Len(x2)]
      BY <2>1, Behind
    <2> QED BY <2>2, <2>3
  <1> HIDE DEF x3
  <1>15. /\ x4 \in Seq(Octet) /\ Len(x4) = Len(x3) + Len(v)
         /\ \A i \in 1 .. Len(x3) : x4[i] = x3[i]
         /\ \A i \in 1 .. Len(v) : x4[Len(x3) + i] = v[i]
         /\ \A i \in 1 .. Len(x3) + Len(v) : i > Len(x3) =>
              i - Len(x3) \in 1 .. Len(v) /\ x4[i] = v[i - Len(x3)]
    <2>1. x3 \in Seq(Octet) /\ v \in Seq(Octet)
      BY <1>9, <1>14
    <2> HIDE DEF x4
    <2>2. x4 = x3 \o v
      BY DEF x4
    <2>3. /\ x3 \o v \in Seq(Octet) /\ Len(x3 \o v) = Len(x3) + Len(v)
          /\ \A i \in 1 .. Len(x3) : (x3 \o v)[i] = x3[i]
          /\ \A i \in 1 .. Len(v) : (x3 \o v)[Len(x3) + i] = v[i]
          /\ \A i \in 1 .. Len(x3) + Len(v) : i > Len(x3) =>
               i - Len(x3) \in 1 .. Len(v) /\ (x3 \o v)[i] = v[i - Len(x3)]
      BY <2>1, Behind
    <2> QED BY <2>2, <2>3
  <1> HIDE DEF x4
  <1>16. /\ all \in Seq(Octet) /\ Len(x4) <= Len(all)
         /\ Len(all) = Len(x4) + ((Word - (Len(x4) % Word)) % Word)
         /\ \A i \in 1 .. Len(x4) : all[i] = x4[i]
         /\ \A i \in 1 .. Len(all) : i > Len(x4) => all[i] = Zero
    BY <1>15, Padding
  <1> HIDE DEF all, l
  <1>17. /\ Len(chars) \in Nat /\ Len(d) \in Nat /\ Len(u) \in Nat /\ Len(b) \in Nat
         /\ Len(v) \in Nat /\ Len(x1) \in Nat /\ Len(x2) \in Nat /\ Len(x3) \in Nat
         /\ Len(x4) \in Nat /\ Len(all) \in Nat
    <2>1. \A s \in Seq(Octet) : Len(s) \in Nat
      OBVIOUS
    <2> QED BY <1>4, <1>6, <1>7, <1>8, <1>9, <1>12, <1>13, <1>14, <1>15, <1>16, <2>1
  <1>18. \A i \in 1 .. Len(x2) : all[i] = x2[i]
    BY <1>14, <1>15, <1>16, <1>17
  <1>19. \A i \in 1 .. Len(chars) : all[i] = chars[i]
    <2> TAKE i \in 1 .. Len(chars)
    <2>1. i \in 1 .. Len(x1) /\ i \in 1 .. Len(x2)
      BY <1>12, <1>13, <1>17
    <2> QED BY <1>12, <1>13, <1>18, <2>1
  <1>20. \A i \in 1 .. Len(d) : all[Len(chars) + i] = d[i]
    <2> TAKE i \in 1 .. Len(d)
    <2>1. Len(chars) + i \in 1 .. Len(x1) /\ Len(chars) + i \in 1 .. Len(x2)
      BY <1>12, <1>13, <1>17
    <2> QED BY <1>12, <1>13, <1>18, <2>1
  <1>21. \A i \in 1 .. Len(u) : all[Len(x1) + i] = u[i]
    BY <1>13, <1>17, <1>18
  <1>22. \A i \in 1 .. Len(v) : all[Len(x3) + i] = v[i]
    BY <1>15, <1>16, <1>17
  <1>23. \A i \in 1 .. Len(all) : i > Len(x2) => all[i][1] \in {"backtrace", "value", "zero"}
    <2> TAKE i \in 1 .. Len(all)
    <2> HAVE i > Len(x2)
    <2>1. CASE i > Len(x4)
      BY <1>16, <2>1, ZeroIs
    <2>2. CASE i <= Len(x4) /\ i > Len(x3)
      <3>1. i \in 1 .. Len(x3) + Len(v)
        BY <1>15, <1>17, <2>2
      <3>2. all[i] = x4[i]
        BY <1>16, <1>17, <2>2
      <3> QED BY <1>9, <1>15, <2>2, <3>1, <3>2
    <2>3. CASE i <= Len(x3)
      <3>1. i \in 1 .. Len(x2) + Len(b) /\ i \in 1 .. Len(x3) /\ i \in 1 .. Len(x4)
        BY <1>14, <1>15, <1>17, <2>3
      <3>2. all[i] = x3[i]
        BY <1>15, <1>16, <3>1
      <3>3. i - Len(x2) \in 1 .. Len(b) /\ x3[i] = b[i - Len(x2)]
        BY <1>14, <3>1
      <3>4. b[i - Len(x2)][1] = "backtrace"
        BY <1>8, <3>3
      <3> QED BY <3>2, <3>3, <3>4
    <2> QED BY <1>17, <2>1, <2>2, <2>3
  <1>24. \A i \in 1 .. Len(pool) : \A k \in 1 .. Word :
                  /\ all[Len(chars) + ((2 * Word) * (i - 1) + k)]
                       = Bytes("address", stroffs(pool, i))[k]
                  /\ all[Len(chars) + ((2 * Word) * (i - 1) + (Word + k))]
                       = Bytes("length", LitLen[pool[i]])[k]
    <2> TAKE i \in 1 .. Len(pool)
    <2> TAKE k \in 1 .. Word
    <2> DEFINE size == 2 * Word
    <2>1. size * (i - 1) \in Nat /\ size * (i - 1) + size <= size * Len(pool)
      <3>1. size \in Nat /\ i - 1 \in Nat /\ Len(pool) - i \in Nat
        BY <1>10, <1>11
      <3>2. size * (i - 1) \in Nat /\ size * (Len(pool) - i) \in Nat
        BY <3>1
      <3>3. size * Len(pool) = size * (i - 1) + size + size * (Len(pool) - i)
        BY <1>10, <3>1
      <3> HIDE DEF size
      <3> QED BY <1>10, <3>1, <3>2, <3>3
    <2>2. k \in Nat /\ k >= 1 /\ Word + k <= size /\ k <= size
      BY Sizes
    <2>3. Len(d) = size * Len(pool)
      BY <1>6
    <2>4. /\ d[size * (i - 1) + k] = Bytes("address", stroffs(pool, i))[k]
          /\ d[size * (i - 1) + (Word + k)] = Bytes("length", LitLen[pool[i]])[k]
      BY <1>6
    <2> HIDE DEF size
    <2>5. size * (i - 1) + k \in 1 .. Len(d) /\ size * (i - 1) + (Word + k) \in 1 .. Len(d)
      <3> DEFINE y == size * (i - 1)
                 z == size * Len(pool)
      <3>1. y \in Nat /\ y + size <= z /\ Len(d) = z /\ size \in Nat
        BY <1>11, <2>1, <2>3 DEF size
      <3> HIDE DEF y, z
      <3>2. y + k \in 1 .. Len(d) /\ y + (Word + k) \in 1 .. Len(d)
        BY <1>17, <2>2, <3>1, Sizes
      <3> QED BY <3>2 DEF y
    <2>6. /\ all[Len(chars) + (size * (i - 1) + k)] = d[size * (i - 1) + k]
          /\ all[Len(chars) + (size * (i - 1) + (Word + k))] = d[size * (i - 1) + (Word + k)]
      BY <1>20, <2>5
    <2> QED BY <2>4, <2>6 DEF size
  <1>25. \A k \in 1 .. Word :
                  all[Len(chars) + (2 * Word) * Len(pool) + k] = Bytes("utf8", 0)[k]
    BY <1>6, <1>7, <1>12, <1>21 DEF u
  <1>26. \A i \in 1 .. Len(ro) : \A k \in 1 .. Word :
                  all[Len(x2) + BtSize + (Word * (i - 1) + k)] = Bytes("value", ro[i].val)[k]
    <2> TAKE i \in 1 .. Len(ro)
    <2> TAKE k \in 1 .. Word
    <2>1. Word * (i - 1) \in Nat /\ Word * (i - 1) + Word <= Word * Len(ro)
      <3>1. Word \in Nat /\ i - 1 \in Nat /\ Len(ro) - i \in Nat
        BY <1>10, Sizes
      <3>2. Word * (i - 1) \in Nat /\ Word * (Len(ro) - i) \in Nat
        BY <3>1
      <3>3. Word * Len(ro) = Word * (i - 1) + Word + Word * (Len(ro) - i)
        BY <1>10, <3>1
      <3> QED BY <1>10, <3>1, <3>2, <3>3
    <2>2. Word * (i - 1) + k \in 1 .. Len(v)
      <3> DEFINE y == Word * (i - 1)
                 z == Word * Len(ro)
      <3>1. y \in Nat /\ y + Word <= z /\ Len(v) = z
        BY <1>9, <2>1
      <3> HIDE DEF y, z
      <3>2. y + k \in 1 .. Len(v)
        BY <1>17, <3>1, Sizes
      <3> QED BY <3>2 DEF y
    <2>3. all[Len(x3) + (Word * (i - 1) + k)] = v[Word * (i - 1) + k]
      BY <1>22, <2>2
    <2>4. Len(x3) = Len(x2) + BtSize
      BY <1>8, <1>14
    <2> QED BY <1>9, <2>3, <2>4
  <1>27. Len(x2) = Len(chars) + (2 * Word) * Len(pool) + Word
    BY <1>6, <1>7, <1>12, <1>13
  <1>28. Len(x2) + BtSize + Len(v) <= Len(all)
    BY <1>8, <1>14, <1>15, <1>16
  <1>40. Len(l.bytes) = l.ro_vals_end + ((Word - (l.ro_vals_end % Word)) % Word)
    <2>1. l.ro_vals_end = Len(x4)
      BY <1>1, <1>8, <1>14, <1>15, <1>17
    <2> QED BY <1>1, <1>16, <2>1
  <1>29. /\ l.strs = pool /\ l.ro_fixed \in Nat
         /\ Len(StringBytes(pool)) <= l.ro_fixed
         /\ l.ro_fixed < Len(StringBytes(pool)) + Word
         /\ l.ro_bt = l.ro_fixed + (2 * Word) * Len(pool) + Word
         /\ l.ro_bt_end = l.ro_bt + BtSize /\ l.ro_vals = l.ro_bt + BtSize
         /\ l.ro_vals_end = l.ro_vals + Word * Len(ro)
         /\ l.bytes \in Seq(Octet) /\ l.ro_vals_end <= Len(l.bytes)
    BY <1>1, <1>4, <1>9, <1>16, <1>17, <1>27, <1>28
  <1>30. /\ \A i \in 1 .. l.ro_fixed : l.bytes[i][1] \in {"char", "zero"}
         /\ \A i \in 1 .. Len(l.bytes) : i > l.ro_bt =>
                  l.bytes[i][1] \in {"backtrace", "value", "zero"}
    BY <1>1, <1>5, <1>19, <1>23
  <1>31. /\ \A i \in 1 .. Len(pool) : \A k \in 1 .. Word :
                  /\ l.bytes[l.ro_fixed + ((2 * Word) * (i - 1) + k)]
                       = Bytes("address", stroffs(pool, i))[k]
                  /\ l.bytes[l.ro_fixed + ((2 * Word) * (i - 1) + (Word + k))]
                       = Bytes("length", LitLen[pool[i]])[k]
         /\ \A k \in 1 .. Word :
                  l.bytes[l.ro_fixed + (2 * Word) * Len(pool) + k] = Bytes("utf8", 0)[k]
    BY <1>1, <1>24, <1>25
  <1>32. \A i \in 1 .. Len(ro) : \A k \in 1 .. Word :
                  l.bytes[l.ro_vals + (Word * (i - 1) + k)] = Bytes("value", ro[i].val)[k]
    BY <1>1, <1>26
  <1> QED BY <1>29, <1>30, <1>31, <1>32, <1>40 DEF l, pool, ro

-----------------------------------------------------------------------------
\* Two programs whose data line up.

\* What stands behind the read-only data of a program in its file: tables, those
\* of this build and those of the earlier ones.
Unworded == {"backtrace", "value", "zero", "code"}
Stands(q, R) ==
  /\ R \in Seq(Octet) /\ jt_base(q) <= Len(R)
  /\ \A i \in 1 .. jt_base(q) : R[i] = layout[q].bytes[i]
  /\ \A i \in 1 .. Len(R) : i > layout[q].ro_bt => R[i][1] \in Unworded

\* The image of p is compared with the file of q.
Compared(p, R, O) ==
  /\ O \in Seq(Octet) /\ jt_base(p) <= Len(O) /\ Len(R) <= Len(O)
  /\ \A i \in 1 .. jt_base(p) : O[i] = layout[p].bytes[i]
  /\ \A i \in layout[p].ro_fixed + 1 .. Len(R) : O[i] # R[i] => MayDiffer(p, i)

\* The descriptors of a program, as its data has them.
LEMMA Descriptor ==
  ASSUME NEW p \in Programs
  PROVE  LET l == layout[p]
             n == Len(strs(p))
         IN  /\ n \in Nat /\ l.ro_fixed \in Nat /\ l.ro_bt \in Nat /\ Len(l.bytes) \in Nat
             /\ l.ro_bt = l.ro_fixed + (2 * Word) * n + Word
             /\ l.ro_bt <= Len(l.bytes) /\ l.ro_bt <= l.ro_vals
             /\ \A i \in 1 .. n : \A k \in 1 .. Word :
                  /\ l.bytes[l.ro_fixed + ((2 * Word) * (i - 1) + k)] # Zero =>
                       l.bytes[l.ro_fixed + ((2 * Word) * (i - 1) + k)] =
                         <<"address", stroffs(strs(p), i), k>>
                  /\ l.bytes[l.ro_fixed + ((2 * Word) * (i - 1) + (Word + k))][1]
                       \in {"length", "zero"}
             /\ \A i \in 1 .. n :
                  /\ l.bytes[l.ro_fixed + ((2 * Word) * (i - 1) + 1)]
                       = <<"address", stroffs(strs(p), i), 1>>
                  /\ l.bytes[l.ro_fixed + ((2 * Word) * (i - 1) + (Word + 1))]
                       = <<"length", LitLen[strs(p)[i]], 1>>
             /\ \A k \in 1 .. Word :
                  l.bytes[l.ro_fixed + ((2 * Word) * n + k)] # Zero =>
                    l.bytes[l.ro_fixed + ((2 * Word) * n + k)] = <<"utf8", 0, k>>
             /\ l.bytes[l.ro_fixed + ((2 * Word) * n + 1)] = <<"utf8", 0, 1>>
  <1> DEFINE l == layout[p]
             pool == strs(p)
             n == Len(pool)
             size == 2 * Word
  <1>1. pool \in Seq(Literal)
    BY ProgramIs
  <1>2. n \in Nat /\ \A i \in 1 .. n : LitLen[pool[i]] \in Nat
    BY <1>1, DataAssumption
  <1>3. /\ l.ro_fixed \in Nat
        /\ l.ro_bt = l.ro_fixed + size * n + Word
        /\ l.ro_bt_end = l.ro_bt + BtSize /\ l.ro_vals = l.ro_bt + BtSize
        /\ l.ro_vals_end = l.ro_vals + Word * Len(OfKind(p, "ro"))
        /\ l.bytes \in Seq(Octet) /\ l.ro_vals_end <= Len(l.bytes)
    BY LayoutIs
  <1>4. \A i \in 1 .. n : \A k \in 1 .. Word :
          /\ l.bytes[l.ro_fixed + (size * (i - 1) + k)] = Bytes("address", stroffs(pool, i))[k]
          /\ l.bytes[l.ro_fixed + (size * (i - 1) + (Word + k))]
               = Bytes("length", LitLen[pool[i]])[k]
    BY LayoutIs
  <1>5. \A k \in 1 .. Word : l.bytes[l.ro_fixed + size * n + k] = Bytes("utf8", 0)[k]
    BY LayoutIs
  <1>6. \A i \in 1 .. n : stroffs(pool, i) \in Told /\ LitLen[pool[i]] \in Told
    BY <1>2 DEF Told
  <1>7. "address" \in Tag /\ "length" \in Tag /\ "utf8" \in Tag /\ 0 \in Told
    BY DEF Tag, Told
  <1>8. Len(OfKind(p, "ro")) \in Nat
    <2>1. OfKind(p, "ro") \in Seq(Decl)
      BY KindIs
    <2> QED BY <2>1
  <1>9. size * n \in Nat /\ Word * Len(OfKind(p, "ro")) \in Nat /\ Len(l.bytes) \in Nat
    BY <1>2, <1>3, <1>8, Sizes
  <1>10. \A i \in 1 .. n : \A k \in 1 .. Word :
          /\ Bytes("address", stroffs(pool, i))[k] # Zero =>
               Bytes("address", stroffs(pool, i))[k] = <<"address", stroffs(pool, i), k>>
          /\ Bytes("length", LitLen[pool[i]])[k][1] \in {"length", "zero"}
    BY <1>6, <1>7, WordIs
  <1>11. \A i \in 1 .. n :
          /\ Bytes("address", stroffs(pool, i))[1] = <<"address", stroffs(pool, i), 1>>
          /\ Bytes("length", LitLen[pool[i]])[1] = <<"length", LitLen[pool[i]], 1>>
    BY <1>6, <1>7, WordIs
  <1>12. /\ \A k \in 1 .. Word : Bytes("utf8", 0)[k] # Zero => Bytes("utf8", 0)[k] = <<"utf8", 0, k>>
         /\ Bytes("utf8", 0)[1] = <<"utf8", 0, 1>>
    BY <1>7, WordIs
  <1>13. 1 \in 1 .. Word
    BY Sizes
  <1> HIDE DEF pool, size, l, n
  <1>14. \A k \in 1 .. Word : l.ro_fixed + (size * n + k) = l.ro_fixed + size * n + k
    BY <1>3, <1>9, Sizes
  <1>15. l.ro_bt \in Nat /\ l.ro_bt <= Len(l.bytes) /\ l.ro_bt <= l.ro_vals
    BY <1>3, <1>9, Sizes
  <1>16. \A i \in 1 .. n : \A k \in 1 .. Word :
          /\ l.bytes[l.ro_fixed + (size * (i - 1) + k)] # Zero =>
               l.bytes[l.ro_fixed + (size * (i - 1) + k)] = <<"address", stroffs(pool, i), k>>
          /\ l.bytes[l.ro_fixed + (size * (i - 1) + (Word + k))][1] \in {"length", "zero"}
    BY <1>4, <1>10
  <1>17. \A i \in 1 .. n :
          /\ l.bytes[l.ro_fixed + (size * (i - 1) + 1)] = <<"address", stroffs(pool, i), 1>>
          /\ l.bytes[l.ro_fixed + (size * (i - 1) + (Word + 1))] = <<"length", LitLen[pool[i]], 1>>
    BY <1>4, <1>11, <1>13
  <1>18. /\ \A k \in 1 .. Word : l.bytes[l.ro_fixed + (size * n + k)] # Zero =>
               l.bytes[l.ro_fixed + (size * n + k)] = <<"utf8", 0, k>>
         /\ l.bytes[l.ro_fixed + (size * n + 1)] = <<"utf8", 0, 1>>
    BY <1>5, <1>12, <1>13, <1>14
  <1> QED BY <1>2, <1>3, <1>9, <1>15, <1>16, <1>17, <1>18 DEF l, pool, n, size

LEMMA Multiples ==
  ASSUME NEW size \in Nat, size >= 1
  PROVE  \E by \in [Nat -> Nat] :
           /\ \A a \in Nat : by[a] = size * a
           /\ by[0] = 0
           /\ \A a, b \in Nat : by[a + b] = by[a] + by[b]
           /\ \A a \in Nat : by[a + 1] = by[a] + size
           /\ \A a, b \in Nat : a <= b => by[a] <= by[b]
           /\ \A a \in Nat : a <= by[a]
  <1> DEFINE by == [a \in Nat |-> size * a]
  <1>1. by \in [Nat -> Nat] /\ \A a \in Nat : by[a] = size * a
    <2>1. \A a \in Nat : size * a \in Nat
      OBVIOUS
    <2> QED BY <2>1
  <1>2. by[0] = 0
    BY <1>1
  <1>3. \A a, b \in Nat : size * (a + b) = size * a + size * b
    OBVIOUS
  <1>4. \A a, b \in Nat : by[a + b] = by[a] + by[b]
    BY <1>1, <1>3
  <1>5. by[1] = size
    BY <1>1
  <1>6. \A a \in Nat : a <= by[a]
    <2> TAKE a \in Nat
    <2>1. size - 1 \in Nat
      OBVIOUS
    <2>2. (size - 1) * a \in Nat /\ size * a = (size - 1) * a + a
      BY <2>1
    <2>3. by[a] = (size - 1) * a + a
      BY <1>1, <2>2
    <2> HIDE DEF by
    <2> QED BY <2>2, <2>3
  <1> HIDE DEF by
  <1>7. \A a \in Nat : by[a + 1] = by[a] + size
    BY <1>4, <1>5
  <1>8. \A a, b \in Nat : a <= b => by[a] <= by[b]
    <2> TAKE a \in Nat
    <2> TAKE b \in Nat
    <2> HAVE a <= b
    <2>1. b - a \in Nat /\ b = a + (b - a)
      OBVIOUS
    <2>2. by[b] = by[a] + by[b - a]
      BY <1>4, <2>1
    <2> QED BY <1>1, <2>1, <2>2
  <1> QED BY <1>1, <1>2, <1>4, <1>6, <1>7, <1>8

\* If the image of p may be laid over the file of q, their strings end at the same
\* place, and there are as many, each as long as the one in its place.
LEMMA LinedUp ==
  ASSUME NEW p \in Programs, NEW q \in Programs, StringsEndWithin,
         NEW R, NEW O, Stands(q, R), Compared(p, R, O)
  PROVE  /\ layout[p].ro_fixed = layout[q].ro_fixed
         /\ Len(strs(p)) = Len(strs(q))
         /\ \A i \in 1 .. Len(strs(q)) : LitLen[strs(p)[i]] = LitLen[strs(q)[i]]
         /\ layout[p].ro_bt = layout[q].ro_bt /\ layout[p].ro_vals = layout[q].ro_vals
  <1> DEFINE size == 2 * Word
             new == layout[p]
             old == layout[q]
             n == Len(strs(q))
             m == Len(strs(p))
             G == new.ro_fixed
             F == old.ro_fixed
             B == Len(old.bytes)
             nb == new.bytes
             ob == old.bytes
             NB == Len(new.bytes)
             nbt == new.ro_bt
             obt == old.ro_bt
             nv == new.ro_vals
             ov == old.ro_vals
  <1>1. size \in Nat /\ size >= 1 /\ size = Word + Word
    BY Sizes
  <1>2. PICK by \in [Nat -> Nat] :
           /\ \A a \in Nat : by[a] = size * a
           /\ by[0] = 0
           /\ \A a, b \in Nat : by[a + b] = by[a] + by[b]
           /\ \A a \in Nat : by[a + 1] = by[a] + size
           /\ \A a, b \in Nat : a <= b => by[a] <= by[b]
           /\ \A a \in Nat : a <= by[a]
    <2> HIDE DEF size
    <2> QED BY <1>1, Multiples
  <1> HIDE DEF size, new, old, n, m, G, F, B, nb, ob, NB, nbt, obt, nv, ov
  <1>3. /\ n \in Nat /\ F \in Nat /\ obt \in Nat /\ B \in Nat
        /\ obt = F + by[n] + Word /\ obt <= B
    <2>1. /\ n \in Nat /\ F \in Nat /\ obt \in Nat /\ B \in Nat
          /\ obt = F + size * n + Word /\ obt <= B
      BY Descriptor DEF size, old, n, F, B, ob, obt, ov
    <2>2. by[n] = size * n
      BY <1>2, <2>1 DEF size
    <2> QED BY <2>1, <2>2
  <1>3b. /\ \A i \in 1 .. n : \A k \in 1 .. Word :
             /\ ob[F + (by[i - 1] + k)] # Zero =>
                  ob[F + (by[i - 1] + k)] = <<"address", stroffs(strs(q), i), k>>
             /\ ob[F + (by[i - 1] + (Word + k))][1] \in {"length", "zero"}
        /\ \A i \in 1 .. n :
             /\ ob[F + (by[i - 1] + 1)] = <<"address", stroffs(strs(q), i), 1>>
             /\ ob[F + (by[i - 1] + (Word + 1))] = <<"length", LitLen[strs(q)[i]], 1>>
    <2>1. n \in Nat /\ \A i \in 1 .. n : i - 1 \in Nat
      BY <1>3
    <2>2. by[n] = size * n /\ \A i \in 1 .. n : by[i - 1] = size * (i - 1)
      BY <1>2, <2>1
    <2>3. \A i \in 1 .. n : \A k \in 1 .. Word :
             /\ ob[F + (size * (i - 1) + k)] # Zero =>
                  ob[F + (size * (i - 1) + k)] = <<"address", stroffs(strs(q), i), k>>
             /\ ob[F + (size * (i - 1) + (Word + k))][1] \in {"length", "zero"}
      BY Descriptor DEF size, old, n, F, B, ob, obt, ov
    <2>4. \A i \in 1 .. n :
             /\ ob[F + (size * (i - 1) + 1)] = <<"address", stroffs(strs(q), i), 1>>
             /\ ob[F + (size * (i - 1) + (Word + 1))] = <<"length", LitLen[strs(q)[i]], 1>>
      BY Descriptor DEF size, old, n, F, B, ob, obt, ov
    <2> QED BY <2>2, <2>3, <2>4
  <1>3c. /\ \A k \in 1 .. Word :
             ob[F + (by[n] + k)] # Zero =>
               ob[F + (by[n] + k)] = <<"utf8", 0, k>>
         /\ ob[F + (by[n] + 1)] = <<"utf8", 0, 1>>
    <2>1. by[n] = size * n
      BY <1>2, <1>3
    <2>2. /\ \A k \in 1 .. Word :
             ob[F + (size * n + k)] # Zero =>
               ob[F + (size * n + k)] = <<"utf8", 0, k>>
          /\ ob[F + (size * n + 1)] = <<"utf8", 0, 1>>
      BY Descriptor DEF size, old, n, F, B, ob, obt, ov
    <2> QED BY <2>1, <2>2
  <1>4. /\ m \in Nat /\ G \in Nat /\ nbt \in Nat /\ NB \in Nat
        /\ nbt = G + by[m] + Word /\ nbt <= NB /\ nbt <= nv
    <2>1. /\ m \in Nat /\ G \in Nat /\ nbt \in Nat /\ NB \in Nat
          /\ nbt = G + size * m + Word /\ nbt <= NB
          /\ nbt <= nv
      BY Descriptor DEF size, new, m, G, nb, NB, nbt, nv
    <2>2. by[m] = size * m
      BY <1>2, <2>1 DEF size
    <2> QED BY <2>1, <2>2
  <1>4b. /\ \A i \in 1 .. m :
             /\ nb[G + (by[i - 1] + 1)] = <<"address", stroffs(strs(p), i), 1>>
             /\ nb[G + (by[i - 1] + (Word + 1))] = <<"length", LitLen[strs(p)[i]], 1>>
        /\ nb[G + (by[m] + 1)] = <<"utf8", 0, 1>>
    <2>1. m \in Nat /\ \A i \in 1 .. m : i - 1 \in Nat
      BY <1>4
    <2>2. by[m] = size * m /\ \A i \in 1 .. m : by[i - 1] = size * (i - 1)
      BY <1>2, <2>1
    <2>4. \A i \in 1 .. m :
             /\ nb[G + (size * (i - 1) + 1)] = <<"address", stroffs(strs(p), i), 1>>
             /\ nb[G + (size * (i - 1) + (Word + 1))] = <<"length", LitLen[strs(p)[i]], 1>>
      BY Descriptor DEF size, new, m, G, nb, NB, nbt, nv
    <2>5. nb[G + (size * m + 1)] = <<"utf8", 0, 1>>
      BY Descriptor DEF size, new, m, G, nb, NB, nbt, nv
    <2> QED BY <2>2, <2>4, <2>5
  <1>5. /\ G < B
    BY LayoutIs DEF StringsEndWithin, jt_base, size, new, old, n, m, G, F, B, nb, ob, NB, nbt, obt, nv, ov
  <1>5c. /\ F < Len(StringBytes(strs(q))) + Word /\ Len(StringBytes(strs(q))) <= F
        /\ G < Len(StringBytes(strs(p))) + Word /\ Len(StringBytes(strs(p))) <= G
    BY LayoutIs DEF size, new, old, n, m, G, F, B, nb, ob, NB, nbt, obt, nv, ov
  <1>5d. /\ nv = nbt + BtSize /\ ov = obt + BtSize
    BY LayoutIs DEF StringsEndWithin, jt_base, size, new, old, n, m, G, F, B, nb, ob, NB, nbt, obt, nv, ov
  <1>5b. /\ \A i \in 1 .. F : ob[i][1] \in {"char", "zero"}
        /\ \A i \in 1 .. B : i > obt => ob[i][1] \in {"backtrace", "value", "zero"}
    BY LayoutIs DEF size, old, n, F, B, ob, obt, ov
  \* What is compared is the same.
  <1>6. \A i \in 1 .. B : G < i /\ i <= nbt => nb[i] = ob[i]
    <2> TAKE i \in 1 .. B
    <2> HAVE G < i /\ i <= nbt
    <2>1. R[i] = ob[i] /\ B <= Len(R) /\ R \in Seq(Octet)
      BY DEF Stands, jt_base, B, ob, old
    <2>2. i \in 1 .. NB
      BY <1>3, <1>4
    <2>3. O[i] = nb[i]
      BY <2>2 DEF Compared, jt_base, new, nb, NB
    <2>4. ~MayDiffer(p, i)
      <3>1. ~(nv < i) /\ ~(nbt < i)
        <4>1. BtSize \in Nat
          BY Sizes
        <4>2. nv \in Nat /\ nbt <= nv
          BY <1>4, <1>5d, <4>1
        <4> QED BY <1>3, <1>4, <4>2
      <3> QED BY <3>1 DEF MayDiffer, new, nv, nbt
    <2>5. i \in G + 1 .. Len(R)
      <3>1. Len(R) \in Nat
        BY <2>1
      <3>2. B <= Len(R)
        BY <2>1
      <3> QED BY <1>3, <1>4, <3>1, <3>2
    <2>6. O[i] = R[i]
      BY <2>4, <2>5 DEF Compared, G, new
    <2> QED BY <2>1, <2>3, <2>6
  <1>w. Word \in Nat /\ Word >= 1
    BY Sizes
  \* The first byte behind the strings of p is that of an address or, if p has
  \* none, of the table of lengths.
  <1>7. G + 1 \in 1 .. B /\ G + 1 <= nbt
    <2>1. by[m] \in Nat
      BY <1>2, <1>4
    <2> QED BY <1>3, <1>4, <1>5, <1>w, <2>1
  <1>8. \E tag \in {"address", "utf8"} : \E w : ob[G + 1] = <<tag, w, 1>>
    <2>1. nb[G + 1] = ob[G + 1]
      BY <1>4, <1>6, <1>7
    <2>2. CASE m = 0
      <3>1. G + (by[m] + 1) = G + 1
        BY <1>2, <1>4, <2>2
      <3> QED BY <1>4b, <2>1, <2>2, <3>1
    <2>3. CASE m # 0
      <3>1. 1 \in 1 .. m /\ G + (by[1 - 1] + 1) = G + 1
        BY <1>2, <1>4, <2>3
      <3>2. nb[G + (by[1 - 1] + 1)] = <<"address", stroffs(strs(p), 1), 1>>
        BY <1>4b, <3>1
      <3>3. ob[G + 1] = <<"address", stroffs(strs(p), 1), 1>>
        BY <2>1, <3>1, <3>2
      <3> QED BY <2>3, <3>3
    <2> QED BY <2>2, <2>3
  <1>9. ob[G + 1][1] \in {"address", "utf8"} /\ ob[G + 1][3] = 1
    BY <1>8
  <1>10. ob[G + 1] # Zero
    BY <1>9 DEF Zero
  <1>11. F < G + 1
    <2>1. CASE G + 1 \in 1 .. F
      BY <1>5b, <1>9, <2>1
    <2> QED BY <1>3, <1>4, <2>1
  <1>12. G + 1 <= obt
    BY <1>3, <1>4, <1>5b, <1>7, <1>9
  \* It begins a descriptor of q, or its table of lengths.
  <1>13. \E J \in 0 .. n : G = F + by[J]
    <2> DEFINE Over == {j \in 0 .. n : G < F + by[j + 1]}
    <2>1. n \in Over
      <3>1. by[n + 1] = by[n] + size /\ n \in 0 .. n /\ by[n] \in Nat
        BY <1>2, <1>3
      <3> QED BY <1>1, <1>3, <1>4, <1>12, <1>w, <3>1
    <2>2. PICK J \in Over : \A j \in Over : J <= j
      <3>1. Over \subseteq Nat /\ Over # {}
        <4>1. Over \subseteq 0 .. n /\ 0 .. n \subseteq Nat
          BY <1>3
        <4> QED BY <2>1, <4>1
      <3> HIDE DEF Over
      <3> QED BY <3>1, LeastOf
    <2>3. J \in 0 .. n /\ J \in Nat /\ G < F + by[J + 1] /\ by[J] \in Nat /\ by[J + 1] = by[J] + size
      <3>1. J \in 0 .. n /\ G < F + by[J + 1]
        BY <2>2
      <3>2. J \in Nat
        BY <1>3, <3>1
      <3> QED BY <1>2, <3>1, <3>2
    <2>4. F + by[J] <= G
      <3>1. CASE J = 0
        BY <1>2, <1>3, <1>4, <1>11, <3>1
      <3>2. CASE J # 0
        <4>1. J - 1 \in 0 .. n /\ ~(J <= J - 1) /\ (J - 1) + 1 = J
          BY <1>3, <2>3, <3>2
        <4>2. J - 1 \notin Over
          BY <2>2, <4>1
        <4>3. ~(G < F + by[J])
          BY <4>1, <4>2
        <4> QED BY <1>3, <1>4, <2>3, <4>3
      <3> QED BY <3>1, <3>2
    <2> HIDE DEF Over
    <2> DEFINE k == (G + 1) - (F + by[J])
    <2>5. k \in 1 .. size /\ G + 1 = F + (by[J] + k)
      BY <1>1, <1>3, <1>4, <2>3, <2>4
    <2>6. k = 1
      <3>1. CASE k \in 1 .. Word /\ J < n
        <4>1. J + 1 \in 1 .. n /\ (J + 1) - 1 = J
          BY <1>3, <2>3, <3>1
        <4>2. ob[G + 1] = <<"address", stroffs(strs(q), J + 1), k>>
          BY <1>3b, <1>10, <2>5, <3>1, <4>1
        <4> QED BY <1>9, <4>2
      <3>2. CASE k \in 1 .. Word /\ J = n
        <4>1. ob[G + 1] = <<"utf8", 0, k>>
          <5>1. G + 1 = F + (by[n] + k)
            BY <2>5, <3>2
          <5>2. ob[F + (by[n] + k)] # Zero => ob[F + (by[n] + k)] = <<"utf8", 0, k>>
            BY <1>3c, <3>2
          <5> QED BY <1>10, <5>1, <5>2
        <4> QED BY <1>9, <4>1
      <3>3. CASE ~(k \in 1 .. Word) /\ J < n
        <4>1. J + 1 \in 1 .. n /\ (J + 1) - 1 = J
          BY <1>3, <2>3, <3>3
        <4>2. k - Word \in 1 .. Word /\ Word + (k - Word) = k
          BY <1>1, <1>w, <2>5, <3>3
        <4>3. ob[G + 1][1] \in {"length", "zero"}
          BY <1>3b, <2>5, <4>1, <4>2
        <4> QED BY <1>9, <4>3
      <3>4. CASE ~(k \in 1 .. Word) /\ J = n
        <4>1. G + 1 <= F + by[n] + Word
          BY <1>3, <1>12
        <4>2. k <= Word
          BY <1>1, <1>3, <1>4, <1>w, <2>3, <2>5, <3>4, <4>1
        <4> QED BY <1>1, <1>w, <2>5, <3>4, <4>2
      <3> QED BY <1>3, <2>3, <3>1, <3>2, <3>3, <3>4
    <2>7. G = F + by[J]
      BY <1>3, <1>4, <2>3, <2>5, <2>6
    <2> QED BY <2>3, <2>7
  <1>14. PICK J \in 0 .. n : G = F + by[J]
    BY <1>13
  <1>15. J \in Nat /\ by[J] \in Nat /\ by[m] \in Nat /\ by[n] \in Nat
    BY <1>2, <1>3, <1>4, <1>14
  \* From there the two have as many descriptors.
  <1>16. m + J = n
    <2>1. CASE m + J < n
      <3>1. (m + J) + 1 \in 1 .. n /\ ((m + J) + 1) - 1 = m + J /\ m + J \in Nat
        BY <1>3, <1>4, <1>15, <2>1
      <3>2. by[m + J] = by[m] + by[J]
        BY <1>2, <1>4, <1>15
      <3>3. G + (by[m] + 1) = F + (by[m + J] + 1)
        BY <1>3, <1>14, <1>15, <3>2
      <3>4. by[m + J] <= by[n] /\ by[m + J] \in Nat
        BY <1>2, <1>3, <2>1, <3>1
      <3>5. G + (by[m] + 1) \in 1 .. B /\ G < G + (by[m] + 1) /\ G + (by[m] + 1) <= nbt
        BY <1>3, <1>4, <1>15, <1>w, <3>3, <3>4
      <3>6. ob[G + (by[m] + 1)] = <<"utf8", 0, 1>>
        BY <1>4b, <1>6, <3>5
      <3>7. ob[G + (by[m] + 1)] = <<"address", stroffs(strs(q), (m + J) + 1), 1>>
        BY <1>3b, <3>1, <3>3
      <3>8. "utf8" = "address"
        BY <3>6, <3>7
      <3> QED BY <3>8
    <2>2. CASE m + J > n
      <3>1. n - J \in Nat /\ (n - J) + 1 \in 1 .. m /\ ((n - J) + 1) - 1 = n - J /\ (n - J) + J = n
        BY <1>3, <1>4, <1>14, <2>2
      <3>2. by[n] = by[n - J] + by[J] /\ by[n - J] \in Nat
        BY <1>2, <1>15, <3>1
      <3>3. G + (by[n - J] + 1) = F + (by[n] + 1)
        BY <1>3, <1>14, <1>15, <3>2
      <3>4. by[n - J] <= by[m]
        BY <1>2, <1>4, <3>1
      <3>5. G + (by[n - J] + 1) \in 1 .. B /\ G < G + (by[n - J] + 1) /\ G + (by[n - J] + 1) <= nbt
        BY <1>3, <1>4, <1>15, <1>w, <3>2, <3>3, <3>4
      <3>6. ob[G + (by[n - J] + 1)] = <<"address", stroffs(strs(p), (n - J) + 1), 1>>
        <4>1. nb[G + (by[n - J] + 1)] = <<"address", stroffs(strs(p), (n - J) + 1), 1>>
          BY <1>4b, <3>1
        <4> QED BY <1>6, <3>5, <4>1
      <3>7. ob[G + (by[n - J] + 1)] = <<"utf8", 0, 1>>
        <4>1. ob[F + (by[n] + 1)] = <<"utf8", 0, 1>>
          BY <1>3c
        <4> QED BY <3>3, <4>1
      <3>8. "utf8" = "address"
        BY <3>6, <3>7
      <3> QED BY <3>8
    <2> QED BY <1>3, <1>4, <1>15, <2>1, <2>2
  \* Each is of a string as long as the one it is compared with.
  <1>17. \A i \in 1 .. m : LitLen[strs(p)[i]] = LitLen[strs(q)[i + J]]
    <2> TAKE i \in 1 .. m
    <2>1. i - 1 \in Nat /\ i + J \in 1 .. n /\ (i + J) - 1 = (i - 1) + J /\ (i - 1) + 1 = i
      BY <1>3, <1>4, <1>15, <1>16
    <2>2. by[(i + J) - 1] = by[i - 1] + by[J] /\ by[i - 1] \in Nat
      BY <1>2, <1>15, <2>1
    <2>3. G + (by[i - 1] + (Word + 1)) = F + (by[(i + J) - 1] + (Word + 1))
      BY <1>3, <1>14, <1>15, <1>w, <2>2
    <2>4. by[i] = by[i - 1] + size /\ by[i] <= by[m] /\ i \in Nat
      <3>1. i \in Nat /\ i <= m
        BY <1>4
      <3>2. by[(i - 1) + 1] = by[i - 1] + size
        BY <1>2, <2>1
      <3>3. by[i] <= by[m]
        BY <1>2, <1>4, <3>1
      <3> QED BY <2>1, <3>1, <3>2, <3>3
    <2>5. by[n] = by[m] + by[J]
      BY <1>2, <1>4, <1>15, <1>16
    <2>6. G + (by[i - 1] + (Word + 1)) <= G + by[m] + Word
      BY <1>1, <1>4, <1>15, <1>w, <2>2, <2>4
    <2>7. G + by[m] + Word = F + by[n] + Word
      BY <1>3, <1>4, <1>14, <1>15, <2>5
    <2>8. /\ G + (by[i - 1] + (Word + 1)) \in 1 .. B
          /\ G < G + (by[i - 1] + (Word + 1)) /\ G + (by[i - 1] + (Word + 1)) <= nbt
      BY <1>3, <1>4, <1>15, <1>w, <2>2, <2>6, <2>7
    <2>9. nb[G + (by[i - 1] + (Word + 1))] = ob[G + (by[i - 1] + (Word + 1))]
      BY <1>6, <2>8
    <2>10. nb[G + (by[i - 1] + (Word + 1))] = <<"length", LitLen[strs(p)[i]], 1>>
      BY <1>4b
    <2>11. ob[G + (by[i - 1] + (Word + 1))] = <<"length", LitLen[strs(q)[i + J]], 1>>
      BY <1>3b, <2>1, <2>3
    <2>12. <<"length", LitLen[strs(p)[i]], 1>> = <<"length", LitLen[strs(q)[i + J]], 1>>
      BY <2>9, <2>10, <2>11
    <2> QED BY <2>12
  \* So the strings of p are not longer than those of q, and p has no fewer.
  <1>18. Len(StringBytes(strs(p))) <= Len(StringBytes(strs(q)))
    <2>1. strs(p) \in Seq(Literal) /\ strs(q) \in Seq(Literal)
      BY ProgramIs
    <2>2. Len(strs(p)) + J = Len(strs(q))
      BY <1>16 DEF n, m
    <2>3. \A i \in 1 .. Len(strs(p)) : LitLen[strs(p)[i]] = LitLen[strs(q)[i + J]]
      BY <1>17 DEF m
    <2> QED BY <1>15, <2>1, <2>2, <2>3, TogetherNoLonger
  <1>19. J = 0
    <2>1. Len(StringBytes(strs(p))) \in Nat /\ Len(StringBytes(strs(q))) \in Nat
      <3>1. StringBytes(strs(p)) \in Seq(Octet) /\ StringBytes(strs(q)) \in Seq(Octet)
        BY ProgramIs, Characters
      <3>2. \A c \in Seq(Octet) : Len(c) \in Nat
        OBVIOUS
      <3> QED BY <3>1, <3>2
    <2>2. G < F + Word
      BY <1>3, <1>4, <1>5c, <1>18, <1>w, <2>1
    <2>3. CASE J # 0
      <3>1. J - 1 \in Nat /\ (J - 1) + 1 = J
        BY <1>15, <2>3
      <3>2. by[J] = by[J - 1] + size /\ by[J - 1] \in Nat
        BY <1>2, <3>1
      <3> QED BY <1>1, <1>3, <1>14, <1>w, <2>2, <3>2
    <2> QED BY <2>3
  <1>20. G = F /\ m = n
    BY <1>2, <1>3, <1>4, <1>14, <1>16, <1>19
  <1>21. \A i \in 1 .. n : LitLen[strs(p)[i]] = LitLen[strs(q)[i]]
    <2> TAKE i \in 1 .. n
    <2>1. i + J = i /\ i \in 1 .. m
      BY <1>19, <1>20
    <2> QED BY <1>17, <2>1
  <1>22. nbt = obt /\ nv = ov
    BY <1>3, <1>4, <1>5d, <1>20
  <1> QED BY <1>20, <1>21, <1>22 DEF G, F, m, n, new, old, nbt, obt, nv, ov

-----------------------------------------------------------------------------
\* The jump tables a build writes.

LEMMA TableIs ==
  ASSUME NEW f \in Fn, NEW v \in Version
  PROVE  /\ TableBytes(f, v) \in Seq(Octet)
         /\ \A k \in 1 .. Len(TableBytes(f, v)) : TableBytes(f, v)[k][1] \in {"code", "zero"}
  <1> DEFINE tb == Table[<<f, v>>]
             s == [j \in DOMAIN tb |-> Bytes("code", Labels(f, v)[j])]
             flat == FlattenSeq(s)
  <1>1. Len(tb) \in Nat /\ DOMAIN tb = 1 .. Len(tb)
    <2>1. tb \in Seq(Nat)
      BY DataAssumption
    <2> QED BY <2>1
  <1>2. \A j \in 1 .. Len(tb) : s[j] = Bytes("code", <<f, v, j>>)
    BY <1>1 DEF Labels
  <1>3. flat = TableBytes(f, v)
    BY DEF TableBytes
  <1> HIDE DEF s, tb
  <1>4. \A j \in 1 .. Len(tb) : /\ s[j] \in Seq(Octet)
                                /\ \A k \in 1 .. Len(s[j]) : s[j][k][1] \in {"code", "zero"}
    <2> TAKE j \in 1 .. Len(tb)
    <2>1. j \in Nat
      BY <1>1
    <2>2. <<f, v, j>> \in Told /\ "code" \in Tag
      BY <2>1 DEF Told, Tag
    <2> QED BY <1>2, <2>2, WordIs
  <1>5. s \in Seq(Seq(Octet)) /\ Len(s) = Len(tb)
    <2>1. s = [j \in 1 .. Len(tb) |-> s[j]]
      BY <1>1 DEF s
    <2> QED BY <1>1, <1>4, <2>1
  <1>6. flat \in Seq(Octet)
    BY <1>5, Flattened
  <1>7. PICK at : Places(at, s, flat)
    BY <1>5, Flattened
  <1> HIDE DEF flat
  <1>8. \A n \in 1 .. Len(flat) : flat[n][1] \in {"code", "zero"}
    <2> TAKE n \in 1 .. Len(flat)
    <2>1. PICK i \in 1 .. Len(s) : \E k \in 1 .. Len(s[i]) : n = at[i - 1] + k
      BY <1>7 DEF Places
    <2>2. PICK k \in 1 .. Len(s[i]) : n = at[i - 1] + k
      BY <2>1
    <2>3. flat[n] = s[i][k]
      BY <1>7, <2>2 DEF Places
    <2> QED BY <1>4, <1>5, <2>3
  <1> QED BY <1>3, <1>6, <1>8

LEMMA LeastIs ==
  ASSUME NEW I, I \subseteq Nat, I # {}
  PROVE  Min(I) \in I
  <1>1. \E least \in I : \A k \in I : least <= k
    BY LeastOf
  <1> QED BY <1>1 DEF Min

\* A place in the order of the functions.
LEMMA InOrder ==
  ASSUME NEW f \in Fn
  PROVE  LET here == SelectInSeq(Order, LAMBDA g : g = f)
         IN  here \in 1 .. Len(Order) /\ Order[here] = f
  <1> DEFINE I == {i \in 1 .. Len(Order) : Order[i] = f}
  <1>1. Order \in Seq(Fn)
    BY DataAssumption
  <1>2. PICK i \in DOMAIN Order : f = Order[i]
    BY DEF Fn
  <1>3. I # {} /\ I \subseteq Nat
    BY <1>1, <1>2
  <1>4. SelectInSeq(Order, LAMBDA g : g = f) = Min(I)
    BY <1>3 DEF SelectInSeq
  <1> HIDE DEF I
  <1>6. SelectInSeq(Order, LAMBDA g : g = f) \in I
    BY <1>3, <1>4, LeastIs
  <1> QED BY <1>6 DEF I

\* Two sequences with pieces as long as each other's up to a place.
AsLong(s, t, K) ==
  /\ K \in Nat /\ Len(s) \in Nat /\ Len(t) \in Nat /\ K <= Len(s) /\ K <= Len(t)
  /\ \A i \in 1 .. K : Len(s[i]) = Len(t[i])

LEMMA SamePlaces ==
  ASSUME NEW s, NEW t, NEW at, NEW to, NEW x, NEW y, NEW K,
         Places(at, s, x), Places(to, t, y), AsLong(s, t, K)
  PROVE  at[K] = to[K]
  <1> DEFINE Off == {i \in 0 .. K : at[i] # to[i]}
  <1>0. /\ K \in Nat /\ Len(s) \in Nat /\ Len(t) \in Nat /\ K <= Len(s) /\ K <= Len(t)
        /\ \A i \in 1 .. K : Len(s[i]) = Len(t[i])
    BY DEF AsLong
  <1>1. Off = {}
    <2> SUFFICES ASSUME Off # {} PROVE FALSE
      OBVIOUS
    <2>1. PICK i \in Off : \A j \in Off : i <= j
      <3>1. Off \subseteq Nat
        BY <1>0
      <3> HIDE DEF Off
      <3> QED BY <3>1, LeastOf
    <2>2. i \in 0 .. K /\ at[i] # to[i]
      BY <2>1
    <2>3. at[0] = 0 /\ to[0] = 0
      BY DEF Places
    <2>4. i \in 1 .. K /\ i - 1 \in 0 .. K /\ ~(i <= i - 1) /\ i \in 1 .. Len(s) /\ i \in 1 .. Len(t)
      BY <1>0, <2>2, <2>3
    <2>5. i - 1 \notin Off
      BY <2>1, <2>4
    <2>6. at[i - 1] = to[i - 1]
      BY <2>4, <2>5
    <2>7. at[i] = at[i - 1] + Len(s[i]) /\ to[i] = to[i - 1] + Len(t[i])
      BY <1>0, <2>4 DEF Places
    <2> QED BY <1>0, <2>2, <2>4, <2>6, <2>7
  <1>2. K \in 0 .. K /\ K \notin Off
    BY <1>0, <1>1
  <1> QED BY <1>2

\* Where the tables of the functions of a set are.
LEMMA TablesAre ==
  ASSUME NEW p \in Programs, NEW fresh
  PROVE  /\ Tables(p, fresh) \in Seq(Octet)
         /\ \A k \in 1 .. Len(Tables(p, fresh)) : Tables(p, fresh)[k][1] \in {"code", "zero"}
         /\ \A f \in Fn : f \in fresh =>
              LET t == TableBytes(f, p.ver[f])
                  at == jt_start(p, fresh, f)
              IN  /\ at \in Nat /\ at + Len(t) <= Len(Tables(p, fresh))
                  /\ \A k \in 1 .. Len(t) : Tables(p, fresh)[at + k] = t[k]
  <1> DEFINE s(F) == [i \in DOMAIN Order |->
                        IF Order[i] \in F THEN TableBytes(Order[i], p.ver[Order[i]]) ELSE <<>>]
  <1>1. /\ Len(Order) \in Nat /\ DOMAIN Order = 1 .. Len(Order)
        /\ \A i \in 1 .. Len(Order) : Order[i] \in Fn /\ p.ver[Order[i]] \in Version
    BY ProgramIs
  <1>2. ASSUME NEW F
        PROVE  /\ s(F) \in Seq(Seq(Octet)) /\ Len(s(F)) = Len(Order)
               /\ \A i \in 1 .. Len(Order) : s(F)[i] =
                    IF Order[i] \in F THEN TableBytes(Order[i], p.ver[Order[i]]) ELSE <<>>
               /\ \A i \in 1 .. Len(Order) : \A k \in 1 .. Len(s(F)[i]) :
                    s(F)[i][k][1] \in {"code", "zero"}
               /\ Tables(p, F) = FlattenSeq(s(F))
    <2> DEFINE u == s(F)
    <2>1. \A i \in 1 .. Len(Order) : u[i] =
                    IF Order[i] \in F THEN TableBytes(Order[i], p.ver[Order[i]]) ELSE <<>>
      BY <1>1
    <2>2. \A i \in 1 .. Len(Order) :
            /\ TableBytes(Order[i], p.ver[Order[i]]) \in Seq(Octet)
            /\ \A k \in 1 .. Len(TableBytes(Order[i], p.ver[Order[i]])) :
                  TableBytes(Order[i], p.ver[Order[i]])[k][1] \in {"code", "zero"}
      BY <1>1, TableIs
    <2>3. u = [i \in 1 .. Len(Order) |-> u[i]] /\ Tables(p, F) = FlattenSeq(u)
      BY <1>1 DEF Tables
    <2> HIDE DEF u
    <2>4. \A i \in 1 .. Len(Order) :
            u[i] \in Seq(Octet) /\ \A k \in 1 .. Len(u[i]) : u[i][k][1] \in {"code", "zero"}
      <3> TAKE i \in 1 .. Len(Order)
      <3>1. CASE Order[i] \in F
        BY <2>1, <2>2, <3>1
      <3>2. CASE Order[i] \notin F
        <4>1. u[i] = <<>>
          BY <2>1, <3>2
        <4> QED BY <4>1
      <3> QED BY <3>1, <3>2
    <2>5. u \in Seq(Seq(Octet)) /\ Len(u) = Len(Order)
      BY <1>1, <2>3, <2>4
    <2> QED BY <2>1, <2>3, <2>4, <2>5 DEF u
  <1> HIDE DEF s
  <1>3. Tables(p, fresh) \in Seq(Octet)
    BY <1>2, Flattened
  <1>4. PICK at : Places(at, s(fresh), Tables(p, fresh))
    <2>1. s(fresh) \in Seq(Seq(Octet)) /\ Tables(p, fresh) = FlattenSeq(s(fresh))
      BY <1>2
    <2> QED BY <2>1, Flattened
  <1>5. ASSUME NEW n \in 1 .. Len(Tables(p, fresh))
        PROVE  Tables(p, fresh)[n][1] \in {"code", "zero"}
    <2>1. PICK i \in 1 .. Len(s(fresh)) : \E k \in 1 .. Len(s(fresh)[i]) : n = at[i - 1] + k
      BY <1>4 DEF Places
    <2>2. PICK k \in 1 .. Len(s(fresh)[i]) : n = at[i - 1] + k
      BY <2>1
    <2>3. Tables(p, fresh)[n] = s(fresh)[i][k]
      BY <1>4, <2>2 DEF Places
    <2>4. i \in 1 .. Len(Order)
      BY <1>2
    <2> QED BY <1>2, <2>3, <2>4
  <1>6. ASSUME NEW f \in Fn, f \in fresh
        PROVE  LET t == TableBytes(f, p.ver[f])
                   a == jt_start(p, fresh, f)
               IN  /\ a \in Nat /\ a + Len(t) <= Len(Tables(p, fresh))
                   /\ \A k \in 1 .. Len(t) : Tables(p, fresh)[a + k] = t[k]
    <2> DEFINE h == SelectInSeq(Order, LAMBDA g : g = f)
               earlier == {Order[i] : i \in 1 .. h - 1}
               E == fresh \cap earlier
    <2>1. h \in 1 .. Len(Order) /\ Order[h] = f
      BY InOrder
    <2>2. jt_start(p, fresh, f) = Len(Tables(p, E))
      BY DEF jt_start
    <2> HIDE DEF h
    <2>3. \A i \in 1 .. Len(Order) : i >= h => Order[i] \notin earlier
      <3> TAKE i \in 1 .. Len(Order)
      <3> HAVE i >= h
      <3>1. SUFFICES ASSUME NEW j \in 1 .. h - 1, Order[i] = Order[j] PROVE FALSE
        OBVIOUS
      <3>2. j \in DOMAIN Order /\ i \in DOMAIN Order /\ i # j
        BY <1>1, <2>1
      <3> QED BY <3>1, <3>2, DataAssumption
    <2>4. \A i \in 1 .. h - 1 : Order[i] \in earlier
      OBVIOUS
    <2> HIDE DEF earlier
    <2>5. PICK to : Places(to, s(E), Tables(p, E))
      <3>1. s(E) \in Seq(Seq(Octet)) /\ Tables(p, E) = FlattenSeq(s(E))
        BY <1>2
      <3> QED BY <3>1, Flattened
    <2>6. Len(s(E)) = Len(Order) /\ Len(s(fresh)) = Len(Order)
      BY <1>2
    <2>7. h - 1 \in Nat /\ h - 1 <= Len(Order) /\ h \in Nat
      BY <1>1, <2>1
    <2>8. \A i \in 1 .. h - 1 : Len(s(E)[i]) = Len(s(fresh)[i])
      <3> TAKE i \in 1 .. h - 1
      <3>1. i \in 1 .. Len(Order) /\ (Order[i] \in E <=> Order[i] \in fresh)
        BY <1>1, <2>1, <2>4
      <3> HIDE DEF E
      <3>2. s(E)[i] = IF Order[i] \in E THEN TableBytes(Order[i], p.ver[Order[i]]) ELSE <<>>
        BY <1>2, <3>1
      <3>3. s(fresh)[i] = IF Order[i] \in fresh THEN TableBytes(Order[i], p.ver[Order[i]]) ELSE <<>>
        BY <1>2, <3>1
      <3>4. s(E)[i] = s(fresh)[i]
        BY <3>1, <3>2, <3>3
      <3> QED BY <3>4
    <2>9. \A i \in h .. Len(Order) : Len(s(E)[i]) = 0
      <3> TAKE i \in h .. Len(Order)
      <3>1. i \in 1 .. Len(Order) /\ Order[i] \notin E
        BY <1>1, <2>1, <2>3
      <3> HIDE DEF E
      <3>2. s(E)[i] = <<>>
        BY <1>2, <3>1
      <3> QED BY <3>2
    <2> HIDE DEF E
    <2>10. at[h - 1] = to[h - 1]
      <3> DEFINE K == h - 1
                 u == s(fresh)
                 w == s(E)
                 x == Tables(p, fresh)
                 y == Tables(p, E)
      <3>1. AsLong(u, w, K)
        BY <1>1, <2>6, <2>7, <2>8 DEF AsLong
      <3>2. Places(at, u, x) /\ Places(to, w, y)
        BY <1>4, <2>5
      <3> HIDE DEF K, u, w, x, y
      <3>3. at[K] = to[K]
        BY <3>1, <3>2, SamePlaces
      <3> QED BY <3>3 DEF K
    <2>11. to[Len(Order)] = to[h - 1]
      <3> DEFINE Off == {i \in h - 1 .. Len(Order) : to[i] # to[h - 1]}
      <3>1. Off = {}
        <4> SUFFICES ASSUME Off # {} PROVE FALSE
          OBVIOUS
        <4>1. PICK i \in Off : \A j \in Off : i <= j
          <5>1. Off \subseteq Nat
            BY <1>1, <2>7
          <5> HIDE DEF Off
          <5> QED BY <5>1, LeastOf
        <4>2. i \in h - 1 .. Len(Order) /\ to[i] # to[h - 1]
          BY <4>1
        <4>3. i \in h .. Len(Order) /\ i - 1 \in h - 1 .. Len(Order) /\ ~(i <= i - 1) /\ i \in 1 .. Len(Order)
          BY <1>1, <2>1, <2>7, <4>2
        <4>4. i - 1 \notin Off
          BY <4>1, <4>3
        <4>5. to[i - 1] = to[h - 1]
          BY <4>3, <4>4
        <4>6. to[i] = to[i - 1] + Len(s(E)[i]) /\ Len(s(E)[i]) = 0
          BY <2>5, <2>6, <2>9, <4>3 DEF Places
        <4>7. to[i - 1] \in Nat
          <5>1. i - 1 \in 0 .. Len(Order)
            BY <1>1, <4>3
          <5> QED BY <2>5, <2>6, <5>1 DEF Places
        <4> QED BY <4>2, <4>5, <4>6, <4>7
      <3>2. Len(Order) \in h - 1 .. Len(Order)
        BY <1>1, <2>7
      <3> QED BY <3>1, <3>2
    <2>12. jt_start(p, fresh, f) = at[h - 1]
      BY <2>2, <2>5, <2>6, <2>10, <2>11 DEF Places
    <2>13. at[h - 1] \in Nat
      <3>1. h - 1 \in 0 .. Len(Order)
        BY <1>1, <2>7
      <3> QED BY <1>4, <2>6, <3>1 DEF Places
    <2>14. s(fresh)[h] = TableBytes(f, p.ver[f])
      BY <1>2, <1>6, <2>1
    <2>15. /\ at[h] = at[h - 1] + Len(s(fresh)[h]) /\ at[h] <= Len(Tables(p, fresh))
           /\ \A k \in 1 .. Len(s(fresh)[h]) : Tables(p, fresh)[at[h - 1] + k] = s(fresh)[h][k]
      BY <1>4, <2>1, <2>6 DEF Places
    <2> QED BY <2>12, <2>13, <2>14, <2>15
  <1> QED BY <1>3, <1>5, <1>6

-----------------------------------------------------------------------------
\* What a build leaves.

\* Laid over the file: what is not written again is what it was, and its source
\* and that of what it names have not changed.
Laid(p) ==
  /\ Built /\ bin' = codegen(p, incr_regenerate(p, bin), bin)
  /\ incr_lines_up(p, bin, bin')

LEMMA Built2 ==
  ASSUME Next
  PROVE  \E p \in Programs : src' = p /\ (bin' = codegen(p, Fn, NoFile) \/ Laid(p))
  <1>1. PICK p \in Programs : First(p) \/ Overlay(p) \/ Whole(p)
    BY DEF Next
  <1> QED BY <1>1 DEF First, Overlay, Whole, Laid, Built

\* What the image of p has, with the functions of fresh written.
CodeOf(p, fresh, prev, out) ==
  /\ out.data = Data(p) /\ out.syms = syms[p.types]
  /\ out.inits = IF prev = NoFile THEN Len(OfKind(p, "relro")) ELSE prev.inits
  /\ \A f \in Fn : f \notin fresh => out.code[f] = prev.code[f]
  /\ \A f \in Fn : f \in fresh =>
       /\ out.code[f].ver = p.ver[f]
       /\ out.code[f].globals = [g \in Uses[<<f, p.ver[f]>>] |-> gmap(p, g)]
       /\ out.code[f].types = Shapes(p, f)
       /\ out.code[f].table =
            jt_base(p) + Len(incr_jt_prefix(prev, jt_base(p))) + jt_start(p, fresh, f)
       /\ out.code[f].strings =
            [k \in DOMAIN Lits[<<f, p.ver[f]>>] |->
               layout[p].ro_fixed
                 + 2 * Word * (intern(layout[p].strs, Lits[<<f, p.ver[f]>>][k]) - 1)]

LEMMA CodeIs ==
  ASSUME NEW p, NEW fresh, NEW prev
  PROVE  CodeOf(p, fresh, prev, codegen(p, fresh, prev))
  <1> DEFINE out == codegen(p, fresh, prev)
  <1>1. out = [ro |-> layout[p].bytes \o incr_jt_prefix(prev, jt_base(p)) \o Tables(p, fresh),
               room |-> IF prev = NoFile
                        THEN Len(layout[p].bytes \o incr_jt_prefix(prev, jt_base(p))
                                   \o Tables(p, fresh)) + Spare
                        ELSE prev.room,
               data |-> Data(p),
               syms |-> syms[p.types],
               inits |-> IF prev = NoFile THEN Len(OfKind(p, "relro")) ELSE prev.inits,
               code |-> [f \in Fn |->
                   IF f \in fresh
                   THEN Written(p, f, jt_base(p) + Len(incr_jt_prefix(prev, jt_base(p)))
                                        + jt_start(p, fresh, f))
                   ELSE prev.code[f]]]
    BY DEF codegen
  <1> HIDE DEF out
  <1>2. \A f \in Fn : out.code[f] =
                   IF f \in fresh
                   THEN Written(p, f, jt_base(p) + Len(incr_jt_prefix(prev, jt_base(p)))
                                        + jt_start(p, fresh, f))
                   ELSE prev.code[f]
    BY <1>1
  <1>3. /\ out.data = Data(p) /\ out.syms = syms[p.types]
        /\ out.inits = IF prev = NoFile THEN Len(OfKind(p, "relro")) ELSE prev.inits
    BY <1>1
  <1>4. \A f \in Fn : \A table :
          /\ Written(p, f, table).ver = p.ver[f]
          /\ Written(p, f, table).globals = [g \in Uses[<<f, p.ver[f]>>] |-> gmap(p, g)]
          /\ Written(p, f, table).types = Shapes(p, f)
          /\ Written(p, f, table).table = table
          /\ Written(p, f, table).strings =
                   [k \in DOMAIN Lits[<<f, p.ver[f]>>] |->
                      layout[p].ro_fixed
                        + 2 * Word * (intern(layout[p].strs, Lits[<<f, p.ver[f]>>][k]) - 1)]
    BY DEF Written
  <1>5. CodeOf(p, fresh, prev, out)
    BY <1>2, <1>3, <1>4 DEF CodeOf
  <1> QED BY <1>5 DEF out

\* The bytes of .rodata.
LEMMA Image ==
  ASSUME NEW p \in Programs, NEW fresh, NEW prev,
         prev # NoFile => prev.ro \in Seq(Octet)
  PROVE  LET ro == codegen(p, fresh, prev).ro
             base == jt_base(p)
             kept == Len(incr_jt_prefix(prev, base))
             t == Tables(p, fresh)
         IN  /\ ro \in Seq(Octet) /\ base \in Nat /\ kept \in Nat
             /\ Len(ro) = base + kept + Len(t)
             /\ \A i \in 1 .. base : ro[i] = layout[p].bytes[i]
             /\ \A k \in 1 .. Len(t) : ro[base + kept + k] = t[k]
             /\ prev = NoFile => kept = 0
             /\ prev # NoFile /\ base <= Len(prev.ro) =>
                  /\ base + kept = Len(prev.ro)
                  /\ \A i \in base + 1 .. Len(prev.ro) : ro[i] = prev.ro[i]
  <1> DEFINE b == layout[p].bytes
             base == jt_base(p)
             kept == incr_jt_prefix(prev, base)
             t == Tables(p, fresh)
             ro == codegen(p, fresh, prev).ro
             x == b \o kept
             R == prev.ro
  <1>1. ro = x \o t
    BY DEF codegen
  <1>2. b \in Seq(Octet) /\ base = Len(b)
    BY LayoutIs DEF jt_base
  <1>3. t \in Seq(Octet)
    BY TablesAre
  <1>4. kept = IF prev = NoFile \/ Len(R) <= base THEN <<>> ELSE SubSeq(R, base + 1, Len(R))
    BY DEF incr_jt_prefix
  <1> HIDE DEF b, base, kept, t, ro
  <1>5. base \in Nat
    BY <1>2
  <1>6. CASE prev = NoFile
    <2>1. kept = <<>> /\ kept \in Seq(Octet) /\ Len(kept) = 0
      BY <1>4, <1>6
    <2>2. x = b
      BY <1>2, <2>1
    <2>3. /\ b \o t \in Seq(Octet) /\ Len(b \o t) = Len(b) + Len(t)
          /\ \A i \in 1 .. Len(b) : (b \o t)[i] = b[i]
          /\ \A i \in 1 .. Len(t) : (b \o t)[Len(b) + i] = t[i]
      BY <1>2, <1>3, Behind
    <2>4. base + Len(kept) = Len(b)
      BY <1>2, <1>5, <2>1
    <2> QED BY <1>1, <1>2, <1>5, <1>6, <2>1, <2>2, <2>3, <2>4 DEF b, base, kept, t, ro
  <1>7. CASE prev # NoFile
    <2> HIDE DEF R
    <2>1. R \in Seq(Octet)
      BY <1>7 DEF R
    <2>2. Len(R) \in Nat
      BY <2>1
    <2>3. /\ kept \in Seq(Octet)
          /\ base <= Len(R) => base + Len(kept) = Len(R) /\ \A i \in 1 .. Len(kept) : kept[i] = R[base + i]
      <3>1. CASE Len(R) <= base
        BY <1>4, <1>5, <2>2, <3>1
      <3>2. CASE ~(Len(R) <= base)
        <4>1. kept = SubSeq(R, base + 1, Len(R))
          BY <1>4, <1>7, <3>2
        <4>2. base + 1 \in 1 .. Len(R) /\ Len(R) \in 1 .. Len(R)
          BY <1>5, <2>2, <3>2
        <4>3. SubSeq(R, base + 1, Len(R)) \in Seq(Octet)
              /\ Len(SubSeq(R, base + 1, Len(R))) = Len(R) - base
          BY <1>5, <2>1, <2>2, <4>2
        <4>4. \A i \in 1 .. Len(R) - base : SubSeq(R, base + 1, Len(R))[i] = R[base + i]
          BY <1>5, <2>1, <2>2, <4>2
        <4> QED BY <1>5, <2>2, <4>1, <4>3, <4>4
      <3> QED BY <3>1, <3>2
    <2>4. /\ b \o kept \in Seq(Octet) /\ Len(b \o kept) = Len(b) + Len(kept)
          /\ \A i \in 1 .. Len(b) : (b \o kept)[i] = b[i]
          /\ \A i \in 1 .. Len(kept) : (b \o kept)[Len(b) + i] = kept[i]
      BY <1>2, <2>3, Behind
    <2> HIDE DEF x
    <2>5. /\ x \in Seq(Octet) /\ Len(x) = base + Len(kept)
          /\ \A i \in 1 .. base : x[i] = b[i]
          /\ \A i \in 1 .. Len(kept) : x[base + i] = kept[i]
      BY <1>2, <2>4 DEF x
    <2>6. /\ x \o t \in Seq(Octet) /\ Len(x \o t) = Len(x) + Len(t)
          /\ \A i \in 1 .. Len(x) : (x \o t)[i] = x[i]
          /\ \A i \in 1 .. Len(t) : (x \o t)[Len(x) + i] = t[i]
      <3>1. x \in Seq(Octet)
        BY <2>5
      <3> QED BY <1>3, <3>1, Behind
    <2>7. Len(kept) \in Nat
      BY <2>3
    <2>8. \A i \in 1 .. base : i \in 1 .. Len(x)
      BY <1>5, <2>5, <2>7
    <2>9. base <= Len(R) => \A i \in base + 1 .. Len(R) : ro[i] = R[i]
      <3> HAVE base <= Len(R)
      <3> TAKE i \in base + 1 .. Len(R)
      <3>1. base + Len(kept) = Len(R)
        BY <2>3
      <3>2. i - base \in 1 .. Len(kept) /\ base + (i - base) = i /\ i \in 1 .. Len(x)
        BY <1>5, <2>2, <2>5, <2>7, <3>1
      <3>3. kept[i - base] = R[base + (i - base)]
        BY <2>3, <3>2
      <3>4. x[base + (i - base)] = kept[i - base]
        BY <2>5, <3>2
      <3>5. (x \o t)[i] = x[i]
        BY <2>6, <3>2
      <3> QED BY <1>1, <3>2, <3>3, <3>4, <3>5
    <2>10. \A i \in 1 .. base : ro[i] = b[i]
      BY <1>1, <2>5, <2>6, <2>8
    <2>11. /\ ro \in Seq(Octet) /\ Len(ro) = base + Len(kept) + Len(t)
           /\ \A k \in 1 .. Len(t) : ro[base + Len(kept) + k] = t[k]
      BY <1>1, <2>5, <2>6
    <2> QED BY <1>5, <1>7, <2>3, <2>7, <2>9, <2>10, <2>11 DEF b, base, kept, t, ro, R
  <1> QED BY <1>6, <1>7

\* The code of every function is of the source that was built.
Follows ==
  Built =>
    /\ src \in Programs
    /\ bin.data = Data(src) /\ bin.syms = syms[src.types]
    /\ bin.inits \in Nat /\ (bin.inits = 0 <=> OfKind(src, "relro") = <<>>)
    /\ \A f \in Fn :
         /\ bin.code[f].ver = src.ver[f]
         /\ DOMAIN bin.code[f].globals = Uses[<<f, src.ver[f]>>]

LEMMA Regenerated ==
  ASSUME NEW p, NEW prev, NEW f \in Fn, f \notin incr_regenerate(p, prev)
  PROVE  prev.code[f].ver = p.ver[f]
  BY DEF incr_regenerate

LEMMA FollowsStep ==
  ASSUME Follows, [Next]_vars
  PROVE  Follows'
  <1>1. CASE UNCHANGED vars
    BY <1>1 DEF vars, Follows, Built
  <1>2. CASE Next
    <2>1. PICK p \in Programs : src' = p /\ (bin' = codegen(p, Fn, NoFile) \/ Laid(p))
      BY <1>2, Built2
    <2>2. OfKind(p, "relro") \in Seq(Decl)
      BY KindIs
    <2>3. Len(OfKind(p, "relro")) \in Nat /\ (Len(OfKind(p, "relro")) = 0 <=> OfKind(p, "relro") = <<>>)
      BY <2>2
    <2>4. CASE bin' = codegen(p, Fn, NoFile)
      <3>1. /\ bin'.data = Data(p) /\ bin'.syms = syms[p.types]
            /\ bin'.inits = Len(OfKind(p, "relro"))
            /\ \A f \in Fn : /\ bin'.code[f].ver = p.ver[f]
                             /\ bin'.code[f].globals = [g \in Uses[<<f, p.ver[f]>>] |-> gmap(p, g)]
        <4>1. CodeOf(p, Fn, NoFile, bin')
          BY <2>4, CodeIs
        <4> QED BY <4>1 DEF CodeOf
      <3>2. \A f \in Fn : DOMAIN bin'.code[f].globals = Uses[<<f, p.ver[f]>>]
        BY <3>1
      <3> QED BY <2>1, <2>3, <3>1, <3>2 DEF Follows
    <2>5. CASE Laid(p)
      <3> DEFINE fresh == incr_regenerate(p, bin)
      <3>1. bin' = codegen(p, fresh, bin) /\ Built /\ Initialised(p, bin)
        BY <2>5 DEF Laid, incr_lines_up
      <3>2. /\ bin'.data = Data(p) /\ bin'.syms = syms[p.types] /\ bin'.inits = bin.inits
            /\ \A f \in Fn : f \notin fresh => bin'.code[f] = bin.code[f]
            /\ \A f \in Fn : f \in fresh =>
                 /\ bin'.code[f].ver = p.ver[f]
                 /\ bin'.code[f].globals = [g \in Uses[<<f, p.ver[f]>>] |-> gmap(p, g)]
        <4>1. CodeOf(p, fresh, bin, bin') /\ bin # NoFile
          BY <3>1, CodeIs DEF Built
        <4> HIDE DEF fresh
        <4> QED BY <4>1 DEF CodeOf
      <3>3. bin'.inits \in Nat /\ (bin'.inits = 0 <=> OfKind(p, "relro") = <<>>)
        BY <3>1, <3>2 DEF Follows, Initialised
      <3>4. ASSUME NEW f \in Fn
            PROVE  bin'.code[f].ver = p.ver[f] /\ DOMAIN bin'.code[f].globals = Uses[<<f, p.ver[f]>>]
        <4>1. CASE f \in fresh
          BY <3>2, <4>1
        <4>2. CASE f \notin fresh
          <5>3. bin.code[f].ver = p.ver[f]
            BY <4>2, Regenerated
          <5>1. bin.code[f].ver = p.ver[f] /\ bin.code[f].ver = src.ver[f]
            BY <3>1, <5>3 DEF Follows
          <5>2. DOMAIN bin.code[f].globals = Uses[<<f, src.ver[f]>>]
            BY <3>1 DEF Follows
          <5> HIDE DEF fresh
          <5> QED BY <3>2, <4>2, <5>1, <5>2
        <4> QED BY <4>1, <4>2
      <3> QED BY <2>1, <3>2, <3>3, <3>4 DEF Follows
    <2> QED BY <2>1, <2>4, <2>5
  <1> QED BY <1>1, <1>2

\* After any number of builds, laid over or whole, the code of every function is of the
\* version the source gives it, and .data and the symbols are of the program last
\* built: what a build copies, incr_regenerate found unchanged.
THEOREM EveryBuildFollows == Spec => []Follows
  <1>1. Init => Follows
    BY DEF Init, Follows, Built
  <1>2. Follows /\ [Next]_vars => Follows'
    BY FollowsStep
  <1> QED BY <1>1, <1>2, PTL DEF Spec

-----------------------------------------------------------------------------
\* The read-only data from build to build.

\* The file has the data of the program last built, and tables behind them.
Standing == Built => Stands(src, bin.ro)

LEMMA Tags ==
  /\ \A c : c \in {"code", "zero"} => c \in Unworded
  /\ \A c : c \in {"backtrace", "value", "zero"} => c \in Unworded
  BY DEF Unworded

\* A program built whole.
LEMMA WholeStands ==
  ASSUME NEW p \in Programs
  PROVE  Stands(p, codegen(p, Fn, NoFile).ro)
  <1> DEFINE ro == codegen(p, Fn, NoFile).ro
             base == jt_base(p)
             t == Tables(p, Fn)
             kept == Len(incr_jt_prefix(NoFile, base))
             b == layout[p].bytes
             bt == layout[p].ro_bt
  <1>1. /\ ro \in Seq(Octet) /\ base \in Nat /\ kept = 0
        /\ Len(ro) = base + kept + Len(t)
        /\ \A i \in 1 .. base : ro[i] = b[i]
        /\ \A k \in 1 .. Len(t) : ro[base + kept + k] = t[k]
    BY Image
  <1>2. t \in Seq(Octet) /\ \A k \in 1 .. Len(t) : t[k][1] \in {"code", "zero"}
    BY TablesAre
  <1>3. base = Len(b) /\ \A i \in 1 .. Len(b) : i > bt => b[i][1] \in {"backtrace", "value", "zero"}
    BY LayoutIs DEF jt_base
  <1> HIDE DEF ro, base, t, kept, b, bt
  <1>4. Len(t) \in Nat
    BY <1>2
  <1>5. ASSUME NEW i \in 1 .. Len(ro), i > bt
        PROVE  ro[i][1] \in Unworded
    <2>1. CASE i \in 1 .. base
      BY <1>1, <1>3, <1>5, <2>1, Tags
    <2>2. CASE i \notin 1 .. base
      <3>1. i - base \in 1 .. Len(t) /\ base + kept + (i - base) = i
        BY <1>1, <1>4, <2>2
      <3>2. ro[i] = t[i - base]
        BY <1>1, <3>1
      <3> QED BY <1>2, <3>1, <3>2, Tags
    <2> QED BY <2>1, <2>2
  <1>6. base <= Len(ro)
    BY <1>1, <1>4
  <1>7. /\ ro \in Seq(Octet) /\ base <= Len(ro)
        /\ \A i \in 1 .. base : ro[i] = b[i]
        /\ \A i \in 1 .. Len(ro) : i > bt => ro[i][1] \in Unworded
    BY <1>1, <1>5, <1>6
  <1> QED BY <1>7 DEF Stands, ro, base, b, bt

\* What the image of p keeps of the file.
LEMMA Keeps ==
  ASSUME NEW p \in Programs, Follows, Standing, Laid(p)
  PROVE  /\ src \in Programs /\ Stands(src, bin.ro) /\ Compared(p, bin.ro, bin'.ro)
         /\ bin.ro \in Seq(Octet) /\ bin'.ro \in Seq(Octet)
         /\ CodeOf(p, incr_regenerate(p, bin), bin, bin')
         /\ layout[p].ro_fixed <= Len(bin.ro) /\ Len(bin.ro) <= Len(bin'.ro)
  <1> DEFINE fresh == incr_regenerate(p, bin)
             R == bin.ro
             O == bin'.ro
             base == jt_base(p)
             kept == Len(incr_jt_prefix(bin, base))
             t == Tables(p, fresh)
  <1>1. bin # NoFile /\ bin' = codegen(p, fresh, bin) /\ incr_lines_up(p, bin, bin')
    BY DEF Laid, Built
  <1>2. src \in Programs /\ Stands(src, R) /\ R \in Seq(Octet)
    BY <1>1 DEF Follows, Standing, Built, Stands
  <1>3. O = codegen(p, fresh, bin).ro
    BY <1>1
  <1>4. /\ O \in Seq(Octet) /\ base \in Nat /\ kept \in Nat
        /\ Len(O) = base + kept + Len(t)
        /\ \A i \in 1 .. base : O[i] = layout[p].bytes[i]
    BY <1>2, <1>3, Image
  <1>5. /\ layout[p].ro_fixed <= Len(R) /\ Len(O) >= Len(R)
        /\ \A i \in layout[p].ro_fixed + 1 .. Len(R) : O[i] # R[i] => MayDiffer(p, i)
    BY <1>1 DEF incr_lines_up
  <1>6. t \in Seq(Octet)
    BY TablesAre
  <1>7. CodeOf(p, fresh, bin, bin')
    BY <1>1, CodeIs
  <1> HIDE DEF fresh, t, kept, base, R, O
  <1>8. Len(t) \in Nat /\ Len(R) \in Nat
    BY <1>2, <1>6
  <1>9. O \in Seq(Octet) /\ Len(O) = base + kept + Len(t) /\ \A i \in 1 .. base : O[i] = layout[p].bytes[i]
    BY <1>3, <1>4
  <1>10. base <= Len(O) /\ Len(R) <= Len(O)
    BY <1>4, <1>5, <1>8, <1>9
  <1>11. Compared(p, R, O)
    BY <1>5, <1>9, <1>10 DEF Compared, base
  <1> QED BY <1>2, <1>5, <1>7, <1>9, <1>10, <1>11 DEF fresh, R, O

LEMMA OverlayStands ==
  ASSUME NEW p \in Programs, StringsEndWithin, Follows, Standing, Laid(p)
  PROVE  Stands(p, bin'.ro)
  <1> DEFINE fresh == incr_regenerate(p, bin)
             R == bin.ro
             O == bin'.ro
             base == jt_base(p)
             kept == Len(incr_jt_prefix(bin, base))
             t == Tables(p, fresh)
             b == layout[p].bytes
             bt == layout[p].ro_bt
             old == layout[src].ro_bt
  <1>1. /\ src \in Programs /\ Stands(src, R) /\ Compared(p, R, O)
        /\ R \in Seq(Octet) /\ O \in Seq(Octet)
    BY Keeps
  <1>2. bt = old
    BY <1>1, LinedUp
  <1>3. bin # NoFile /\ O = codegen(p, fresh, bin).ro
    BY DEF Laid, Built
  <1>4. /\ base \in Nat /\ kept \in Nat /\ Len(O) = base + kept + Len(t)
        /\ \A i \in 1 .. base : O[i] = b[i]
        /\ \A k \in 1 .. Len(t) : O[base + kept + k] = t[k]
    BY <1>1, <1>3, Image
  <1>5. base <= Len(R) =>
          base + kept = Len(R) /\ \A i \in base + 1 .. Len(R) : O[i] = R[i]
    BY <1>1, <1>3, Image
  <1>6. t \in Seq(Octet) /\ \A k \in 1 .. Len(t) : t[k][1] \in {"code", "zero"}
    BY TablesAre
  <1>7. base = Len(b) /\ \A i \in 1 .. Len(b) : i > bt => b[i][1] \in {"backtrace", "value", "zero"}
    BY LayoutIs DEF jt_base
  <1>8. \A i \in 1 .. Len(R) : i > old => R[i][1] \in Unworded
    BY <1>1 DEF Stands
  <1>9. ~(base <= Len(R)) => kept = 0
    <2> HAVE ~(base <= Len(R))
    <2>1. base \in Nat /\ Len(R) \in Nat
      BY <1>1, <1>4
    <2> HIDE DEF base
    <2>2. Len(R) <= base
      BY <2>1
    <2>3. incr_jt_prefix(bin, base) = <<>>
      BY <2>2 DEF incr_jt_prefix
    <2> QED BY <2>3
  <1> HIDE DEF fresh, t, kept, base, b, bt, old, R, O
  <1>10. Len(t) \in Nat /\ Len(R) \in Nat
    BY <1>1, <1>6
  <1>11. ASSUME NEW i \in 1 .. Len(O), i > bt
         PROVE  O[i][1] \in Unworded
    <2>1. CASE i \in 1 .. base
      BY <1>4, <1>7, <1>11, <2>1, Tags
    <2>2. CASE i \notin 1 .. base /\ base <= Len(R) /\ i <= Len(R)
      <3>1. i \in base + 1 .. Len(R) /\ i \in 1 .. Len(R)
        BY <1>4, <1>10, <2>2
      <3>2. O[i] = R[i]
        BY <1>5, <2>2, <3>1
      <3> QED BY <1>2, <1>8, <1>11, <3>1, <3>2
    <2>3. CASE i \notin 1 .. base /\ ~(base <= Len(R) /\ i <= Len(R))
      <3>1. base + kept < i
        BY <1>4, <1>5, <1>9, <1>10, <2>3
      <3>2. i - (base + kept) \in 1 .. Len(t) /\ base + kept + (i - (base + kept)) = i
        BY <1>4, <1>10, <3>1
      <3>3. O[i] = t[i - (base + kept)]
        BY <1>4, <3>2
      <3> QED BY <1>6, <3>2, <3>3, Tags
    <2> QED BY <2>1, <2>2, <2>3
  <1>12. base <= Len(O)
    BY <1>4, <1>10
  <1>13. /\ O \in Seq(Octet) /\ base <= Len(O)
         /\ \A i \in 1 .. base : O[i] = b[i]
         /\ \A i \in 1 .. Len(O) : i > bt => O[i][1] \in Unworded
    BY <1>1, <1>4, <1>11, <1>12
  <1> QED BY <1>13 DEF Stands, O, base, b, bt

LEMMA StandingStep ==
  ASSUME StringsEndWithin, Follows, Standing, [Next]_vars
  PROVE  Standing'
  <1>1. CASE UNCHANGED vars
    BY <1>1 DEF vars, Standing, Built
  <1>2. CASE Next
    <2>1. PICK p \in Programs : src' = p /\ (bin' = codegen(p, Fn, NoFile) \/ Laid(p))
      BY <1>2, Built2
    <2>2. Stands(p, bin'.ro)
      BY <2>1, WholeStands, OverlayStands
    <2>3. Stands(src, bin.ro)'
      BY <2>1, <2>2 DEF Stands, jt_base, layout
    <2> QED BY <2>3 DEF Standing
  <1> QED BY <1>1, <1>2

-----------------------------------------------------------------------------
\* The lengths of the strings.

\* The literals a function writes are in the pool.
LEMMA Interned ==
  ASSUME NEW p \in Programs, NEW f \in Fn,
         NEW k \in DOMAIN Lits[<<f, p.ver[f]>>]
  PROVE  LET lit == Lits[<<f, p.ver[f]>>][k]
             m == intern(strs(p), lit)
         IN  lit \in Literal /\ m \in 1 .. Len(strs(p)) /\ strs(p)[m] = lit
  <1> DEFINE s == [i \in DOMAIN Order |-> Lits[<<Order[i], p.ver[Order[i]]>>]]
             pool == strs(p)
             lits == Lits[<<f, p.ver[f]>>]
             lit == lits[k]
             I == {i \in 1 .. Len(pool) : pool[i] = lit}
  <1>1. pool \in Seq(Literal) /\ Order \in Seq(Fn) /\ \A g \in Fn : p.ver[g] \in Version
    BY ProgramIs
  <1>2. \A g \in Fn : Lits[<<g, p.ver[g]>>] \in Seq(Literal)
    BY <1>1, DataAssumption
  <1>3. Len(Order) \in Nat /\ DOMAIN Order = 1 .. Len(Order) /\ \A i \in 1 .. Len(Order) : Order[i] \in Fn
    BY <1>1
  <1>4. PICK i \in 1 .. Len(Order) : f = Order[i]
    BY <1>3 DEF Fn
  <1>5. \A j \in 1 .. Len(Order) : s[j] = Lits[<<Order[j], p.ver[Order[j]]>>] /\ s[j] \in Seq(Literal)
    BY <1>2, <1>3
  <1>6. s \in Seq(Seq(Literal)) /\ Len(s) = Len(Order) /\ pool = FlattenSeq(s)
    <2>1. s = [j \in 1 .. Len(Order) |-> s[j]] /\ pool = FlattenSeq(s)
      BY <1>3 DEF strs
    <2>2. \A j \in 1 .. Len(Order) : s[j] \in Seq(Literal)
      BY <1>5
    <2> HIDE DEF s, pool
    <2>3. s \in Seq(Seq(Literal)) /\ Len(s) = Len(Order)
      BY <1>3, <2>1, <2>2
    <2> QED BY <2>1, <2>3
  <1>7. s[i] = lits
    BY <1>4, <1>5
  <1> HIDE DEF s, pool, lits
  <1>8. PICK at : Places(at, s, pool)
    BY <1>6, Flattened
  <1>9. lits \in Seq(Literal) /\ k \in DOMAIN lits
    BY <1>2 DEF lits
  <1>10. k \in 1 .. Len(s[i]) /\ s[i][k] = lit /\ lit \in Literal
    BY <1>7, <1>9
  <1>11. /\ i \in 1 .. Len(s) /\ at[i - 1] \in Nat /\ at[i] = at[i - 1] + Len(s[i])
         /\ at[i] <= Len(pool) /\ pool[at[i - 1] + k] = lit
    <2>1. i \in 1 .. Len(s) /\ i - 1 \in 0 .. Len(s)
      BY <1>3, <1>6
    <2> QED BY <1>8, <1>10, <2>1 DEF Places
  <1>12. at[i - 1] + k \in 1 .. Len(pool)
    <2>1. Len(pool) \in Nat /\ Len(s[i]) \in Nat
      BY <1>1, <1>7, <1>9
    <2> QED BY <1>10, <1>11, <2>1
  <1>13. I # {} /\ I \subseteq Nat
    BY <1>11, <1>12
  <1>14. intern(pool, lit) = Min(I)
    BY <1>13 DEF intern, SelectInSeq
  <1> HIDE DEF I
  <1>15. intern(pool, lit) \in I
    BY <1>13, <1>14, LeastIs
  <1>16. intern(pool, lit) \in 1 .. Len(pool) /\ pool[intern(pool, lit)] = lit
    BY <1>15 DEF I
  <1> QED BY <1>10, <1>16 DEF pool, lits

\* What a function holds for its literals are descriptors of p, of strings as long.
Points(p, f, held) ==
  \A k \in DOMAIN Lits[<<f, p.ver[f]>>] : \E m \in 1 .. Len(strs(p)) :
    /\ held[k] = layout[p].ro_fixed + 2 * Word * (m - 1)
    /\ LitLen[strs(p)[m]] = LitLen[Lits[<<f, p.ver[f]>>][k]]

Pointing == Built => \A f \in Fn : Points(src, f, bin.code[f].strings)

LEMMA WrittenPoints ==
  ASSUME NEW p \in Programs, NEW f \in Fn, NEW fresh, f \in fresh, NEW prev, NEW out,
         CodeOf(p, fresh, prev, out)
  PROVE  Points(p, f, out.code[f].strings)
  <1> DEFINE lits == Lits[<<f, p.ver[f]>>]
  <1> SUFFICES ASSUME NEW k \in DOMAIN lits
               PROVE  \E m \in 1 .. Len(strs(p)) :
                        /\ out.code[f].strings[k] = layout[p].ro_fixed + 2 * Word * (m - 1)
                        /\ LitLen[strs(p)[m]] = LitLen[lits[k]]
    BY DEF Points
  <1> DEFINE m == intern(strs(p), lits[k])
  <1>1. m \in 1 .. Len(strs(p)) /\ strs(p)[m] = lits[k]
    BY Interned
  <1>2. layout[p].strs = strs(p)
    BY LayoutIs
  <1>3. out.code[f].strings = [j \in DOMAIN lits |->
            layout[p].ro_fixed + 2 * Word * (intern(layout[p].strs, lits[j]) - 1)]
    BY DEF CodeOf
  <1> HIDE DEF lits
  <1>4. out.code[f].strings[k] = layout[p].ro_fixed + 2 * Word * (m - 1)
    BY <1>2, <1>3
  <1> HIDE DEF m
  <1> QED BY <1>1, <1>4

LEMMA PointingStep ==
  ASSUME StringsEndWithin, Follows, Standing, Pointing, [Next]_vars
  PROVE  Pointing'
  <1>1. CASE UNCHANGED vars
    BY <1>1 DEF vars, Pointing, Built, Points, layout
  <1>2. CASE Next
    <2>1. PICK p \in Programs : src' = p /\ (bin' = codegen(p, Fn, NoFile) \/ Laid(p))
      BY <1>2, Built2
    <2>2. ASSUME NEW f \in Fn
          PROVE  Points(p, f, bin'.code[f].strings)
      <3>1. CASE bin' = codegen(p, Fn, NoFile)
        <4>1. CodeOf(p, Fn, NoFile, bin')
          BY <3>1, CodeIs
        <4> QED BY <4>1, WrittenPoints
      <3>2. CASE Laid(p)
        <4> DEFINE fresh == incr_regenerate(p, bin)
        <4>1. /\ src \in Programs /\ Stands(src, bin.ro) /\ Compared(p, bin.ro, bin'.ro)
              /\ CodeOf(p, fresh, bin, bin')
          BY <3>2, Keeps
        <4>2. CASE f \in fresh
          BY <4>1, <4>2, WrittenPoints
        <4>3. CASE f \notin fresh
          <5>1. bin'.code[f] = bin.code[f]
            BY <4>1, <4>3 DEF CodeOf
          <5>2. bin.code[f].ver = p.ver[f]
            BY <4>3, Regenerated
          <5>3. p.ver[f] = src.ver[f]
            BY <3>2, <5>2 DEF Follows, Laid
          <5>4. Points(src, f, bin.code[f].strings)
            BY <3>2 DEF Pointing, Laid
          <5>5. /\ layout[p].ro_fixed = layout[src].ro_fixed
                /\ Len(strs(p)) = Len(strs(src))
                /\ \A i \in 1 .. Len(strs(src)) : LitLen[strs(p)[i]] = LitLen[strs(src)[i]]
            BY <4>1, LinedUp
          <5> DEFINE held == bin.code[f].strings
                     v == p.ver[f]
                     F == layout[p].ro_fixed
                     n == Len(strs(p))
                     W == 2 * Word
                     ls == Lits[<<f, v>>]
          <5>6. \A k \in DOMAIN ls : \E m \in 1 .. n :
                  held[k] = F + W * (m - 1) /\ LitLen[strs(src)[m]] = LitLen[ls[k]]
            BY <5>3, <5>4, <5>5 DEF Points
          <5> HIDE DEF held, F, n, W, ls
          <5>7. \A k \in DOMAIN ls : \E m \in 1 .. n :
                  held[k] = F + W * (m - 1) /\ LitLen[strs(p)[m]] = LitLen[ls[k]]
            BY <5>5, <5>6 DEF n
          <5> QED BY <5>1, <5>7 DEF Points, held, F, n, W, ls
        <4> QED BY <4>2, <4>3
      <3> QED BY <2>1, <3>1, <3>2
    <2>3. \A f \in Fn : Points(src, f, bin.code[f].strings)'
      BY <2>1, <2>2 DEF Points, layout
    <2> QED BY <2>3 DEF Pointing
  <1> QED BY <1>1, <1>2

\* Behind each address of a descriptor stands its length.
LEMMA LengthThere ==
  ASSUME NEW p \in Programs, NEW R, Stands(p, R), NEW m \in 1 .. Len(strs(p)), NEW at,
         at = layout[p].ro_fixed + 2 * Word * (m - 1)
  PROVE  LET b == Bytes("length", LitLen[strs(p)[m]])
         IN  /\ (at + Word) + Len(b) <= Len(R)
             /\ SubSeq(R, (at + Word) + 1, (at + Word) + Len(b)) = b
  <1> DEFINE F == layout[p].ro_fixed
             n == Len(strs(p))
             size == 2 * Word
             b == Bytes("length", LitLen[strs(p)[m]])
             B == layout[p].bytes
             x == at + Word
  <1>1. /\ n \in Nat /\ F \in Nat /\ layout[p].ro_bt = F + size * n + Word
        /\ layout[p].ro_bt <= Len(B) /\ Len(B) \in Nat
    BY Descriptor
  <1>2. \A k \in 1 .. Word : B[F + (size * (m - 1) + (Word + k))] = b[k]
    BY LayoutIs
  <1>3. R \in Seq(Octet) /\ Len(B) <= Len(R) /\ \A i \in 1 .. Len(B) : R[i] = B[i]
    BY DEF Stands, jt_base
  <1>4. b \in Seq(Octet) /\ Len(b) = Word
    <2>1. strs(p)[m] \in Literal
      BY ProgramIs
    <2>2. LitLen[strs(p)[m]] \in Told /\ "length" \in Tag
      BY <2>1, DataAssumption DEF Told, Tag
    <2> QED BY <2>2, WordIs
  <1>5. size \in Nat /\ size >= 1 /\ size = Word + Word
    BY Sizes
  <1> HIDE DEF size
  <1>6. PICK by \in [Nat -> Nat] :
           /\ \A a \in Nat : by[a] = size * a
           /\ by[0] = 0
           /\ \A i, j \in Nat : by[i + j] = by[i] + by[j]
           /\ \A a \in Nat : by[a + 1] = by[a] + size
           /\ \A i, j \in Nat : i <= j => by[i] <= by[j]
           /\ \A a \in Nat : a <= by[a]
    BY <1>5, Multiples
  <1>7. m - 1 \in Nat /\ m \in Nat /\ m <= n /\ (m - 1) + 1 = m
    BY <1>1
  <1>8. /\ by[m - 1] = size * (m - 1) /\ by[n] = size * n /\ by[m - 1] \in Nat
        /\ by[m] = by[m - 1] + size /\ by[m] <= by[n] /\ by[n] \in Nat
    <2>1. by[(m - 1) + 1] = by[m - 1] + size
      BY <1>6, <1>7
    <2> QED BY <1>1, <1>6, <1>7, <2>1
  <1>9. at = F + by[m - 1]
    BY <1>8 DEF size
  <1> HIDE DEF F, n, b, B
  <1>10. \A k \in 1 .. Word : B[F + (by[m - 1] + (Word + k))] = b[k]
    BY <1>2, <1>8
  <1>11. /\ F + by[n] + Word <= Len(B) /\ Word \in Nat /\ F \in Nat /\ Len(B) \in Nat
    BY <1>1, <1>8, Sizes
  <1> DEFINE y == by[m - 1]
             z == by[n]
             X == F + y
             NB == Len(B)
  <1>12. y \in Nat /\ z \in Nat /\ y + size <= z /\ F + z + Word <= NB /\ NB \in Nat
    BY <1>8, <1>11
  <1> HIDE DEF y, z, NB
  <1>13. X \in Nat /\ x = X + Word /\ at = X
    <2>1. at = F + y
      BY <1>9 DEF y
    <2>2. F \in Nat /\ y \in Nat
      BY <1>11, <1>12
    <2>3. X \in Nat
      BY <2>2
    <2>4. at = X
      BY <2>1
    <2> HIDE DEF X
    <2>5. x = X + Word
      BY <2>4
    <2> QED BY <2>3, <2>4, <2>5
  <1>14. X + Word + Word <= NB
    BY <1>5, <1>11, <1>12
  <1> HIDE DEF X, x
  <1>15. \A k \in 1 .. Word : x + k = X + (Word + k) /\ x + k \in 1 .. NB
    BY <1>11, <1>12, <1>13, <1>14
  <1>16. \A k \in 1 .. Word : X + (Word + k) = F + (y + (Word + k))
    BY <1>11, <1>12 DEF X
  <1>17. \A k \in 1 .. Word : R[x + k] = b[k]
    <2> TAKE k \in 1 .. Word
    <2>1. B[F + (y + (Word + k))] = b[k]
      BY <1>10 DEF y
    <2>2. x + k = F + (y + (Word + k)) /\ x + k \in 1 .. Len(B)
      BY <1>15, <1>16 DEF NB
    <2> QED BY <1>3, <2>1, <2>2
  <1>18. x \in Nat /\ x + Word <= Len(R)
    <2>1. Len(R) \in Nat /\ NB <= Len(R)
      BY <1>3 DEF NB
    <2> QED BY <1>11, <1>12, <1>13, <1>14, <2>1
  <1>19. SubSeq(R, x + 1, x + Word) = b
    <2> DEFINE c == SubSeq(R, x + 1, x + Word)
    <2>1. c \in Seq(Octet) /\ Len(c) = Word /\ \A k \in 1 .. Word : c[k] = R[x + k]
      <3>1. R \in Seq(Octet) /\ Word \in Nat
        BY <1>3, <1>11
      <3> QED BY <1>18, <3>1, Cut
    <2> HIDE DEF c
    <2>2. \A k \in 1 .. Len(c) : c[k] = b[k]
      BY <1>17, <2>1
    <2>3. c = b
      BY <1>4, <2>1, <2>2, AllAlike
    <2> QED BY <2>3 DEF c
  <1> QED BY <1>4, <1>18, <1>19 DEF x, b

LEMMA PointingLengths ==
  ASSUME Follows, Standing, Pointing
  PROVE  LengthsKept
  <1> SUFFICES ASSUME Built, NEW f \in Fn, NEW k \in DOMAIN Literals(f)
               PROVE  Has(bin.code[f].strings[k] + Word, Bytes("length", LitLen[Literals(f)[k]]))
    BY DEF LengthsKept
  <1>1. src \in Programs /\ Literals(f) = Lits[<<f, src.ver[f]>>]
    BY DEF Follows, Literals
  <1>2. PICK m \in 1 .. Len(strs(src)) :
          /\ bin.code[f].strings[k] = layout[src].ro_fixed + 2 * Word * (m - 1)
          /\ LitLen[strs(src)[m]] = LitLen[Literals(f)[k]]
    BY <1>1 DEF Pointing, Points
  <1>3. Stands(src, bin.ro)
    BY DEF Standing
  <1> DEFINE at == bin.code[f].strings[k]
             b == Bytes("length", LitLen[strs(src)[m]])
  <1>4. /\ (at + Word) + Len(b) <= Len(bin.ro)
        /\ SubSeq(bin.ro, (at + Word) + 1, (at + Word) + Len(b)) = b
    BY <1>1, <1>2, <1>3, LengthThere
  <1> QED BY <1>2, <1>4 DEF Has

\* Where nothing ends its strings where another's read-only data does, what a
\* function holds for a literal is a descriptor of the right length in every build:
\* comparing the file from where the strings end onwards does check the lengths of
\* all of them (incr_lines_up, codegen.ngpl:301-305).
THEOREM LengthsStand == StringsEndWithin => (Spec => []LengthsKept)
  <1> SUFFICES ASSUME StringsEndWithin
               PROVE  Spec => []LengthsKept
    OBVIOUS
  <1> DEFINE I == Follows /\ Standing /\ Pointing
  <1>1. Init => I
    BY DEF Init, Follows, Standing, Pointing, Built
  <1>2. I /\ [Next]_vars => I'
    BY FollowsStep, StandingStep, PointingStep
  <1>3. I => LengthsKept
    BY PointingLengths
  <1> QED BY <1>1, <1>2, <1>3, PTL DEF Spec

-----------------------------------------------------------------------------
\* The places of the globals.

PlaceOf(p, kind, g) ==
  LET I == {i \in 1 .. Len(OfKind(p, kind)) : OfKind(p, kind)[i].name = g}
  IN  IF I # {} THEN Min(I) ELSE 0

LEMMA GmapIs ==
  ASSUME NEW p, NEW g
  PROVE  /\ g = "kernel" /\ ~(PlaceOf(p, "ro", g) > 0) /\ ~(PlaceOf(p, "relro", g) > 0) =>
              gmap(p, g) = <<"data", Len(OfKind(p, "relro"))>>
         /\ g # "kernel" /\ PlaceOf(p, "ro", g) > 0 /\ ~(PlaceOf(p, "relro", g) > 0) =>
              gmap(p, g) = <<"rodata", layout[p].ro_vals + Word * (PlaceOf(p, "ro", g) - 1)>>
         /\ g # "kernel" /\ ~(PlaceOf(p, "ro", g) > 0) /\ PlaceOf(p, "relro", g) > 0 =>
              gmap(p, g) = <<"data", PlaceOf(p, "relro", g) - 1>>
         /\ g # "kernel" /\ ~(PlaceOf(p, "ro", g) > 0) /\ ~(PlaceOf(p, "relro", g) > 0) =>
              gmap(p, g) = <<"data", relro_size(p) + PlaceOf(p, "rw", g)>>
  <1>1. \A kind \in {"ro", "relro", "rw"} :
          SelectInSeq(OfKind(p, kind), LAMBDA d : d.name = g) = PlaceOf(p, kind, g)
    BY DEF SelectInSeq, PlaceOf
  <1>2. gmap(p, g) =
          CASE g = "kernel" -> <<"data", Len(OfKind(p, "relro"))>>
            [] PlaceOf(p, "ro", g) > 0 ->
                 <<"rodata", layout[p].ro_vals + Word * (PlaceOf(p, "ro", g) - 1)>>
            [] PlaceOf(p, "relro", g) > 0 -> <<"data", PlaceOf(p, "relro", g) - 1>>
            [] OTHER -> <<"data", relro_size(p) + PlaceOf(p, "rw", g)>>
    BY <1>1 DEF gmap
  <1>3. g = "kernel" /\ ~(PlaceOf(p, "ro", g) > 0) /\ ~(PlaceOf(p, "relro", g) > 0) =>
          gmap(p, g) = <<"data", Len(OfKind(p, "relro"))>>
    BY <1>2
  <1>4. g # "kernel" /\ PlaceOf(p, "ro", g) > 0 /\ ~(PlaceOf(p, "relro", g) > 0) =>
          gmap(p, g) = <<"rodata", layout[p].ro_vals + Word * (PlaceOf(p, "ro", g) - 1)>>
    BY <1>2
  <1>5. g # "kernel" /\ ~(PlaceOf(p, "ro", g) > 0) /\ PlaceOf(p, "relro", g) > 0 =>
          gmap(p, g) = <<"data", PlaceOf(p, "relro", g) - 1>>
    BY <1>2
  <1>6. g # "kernel" /\ ~(PlaceOf(p, "ro", g) > 0) /\ ~(PlaceOf(p, "relro", g) > 0) =>
          gmap(p, g) = <<"data", relro_size(p) + PlaceOf(p, "rw", g)>>
    BY <1>2
  <1> QED BY <1>3, <1>4, <1>5, <1>6

\* A global has one place, among those of its kind.
LEMMA PlaceIs ==
  ASSUME NEW p \in Programs, NEW kind, NEW g
  PROVE  /\ PlaceOf(p, kind, g) \in 0 .. Len(OfKind(p, kind))
         /\ PlaceOf(p, kind, g) > 0 =>
              /\ OfKind(p, kind)[PlaceOf(p, kind, g)].name = g
              /\ \E i \in DOMAIN p.globals :
                   /\ p.globals[i] = OfKind(p, kind)[PlaceOf(p, kind, g)]
                   /\ p.globals[i].name = g /\ p.globals[i].kind = kind
         /\ \A i \in DOMAIN p.globals :
              p.globals[i].name = g /\ p.globals[i].kind = kind => PlaceOf(p, kind, g) > 0
  <1> DEFINE s == OfKind(p, kind)
             I == {i \in 1 .. Len(s) : s[i].name = g}
             m == PlaceOf(p, kind, g)
  <1>1. /\ s \in Seq(Decl)
        /\ \A n \in 1 .. Len(s) : \E i \in DOMAIN p.globals :
             s[n] = p.globals[i] /\ p.globals[i].kind = kind
        /\ \A i \in DOMAIN p.globals : p.globals[i].kind = kind =>
             \E n \in 1 .. Len(s) : s[n] = p.globals[i]
    BY KindIs
  <1>2. m = IF I # {} THEN Min(I) ELSE 0
    BY DEF PlaceOf
  <1> HIDE DEF s, m
  <1>3. Len(s) \in Nat
    BY <1>1
  <1>4. CASE I = {}
    <2>1. m = 0
      BY <1>2, <1>4
    <2>2. \A i \in DOMAIN p.globals : ~(p.globals[i].name = g /\ p.globals[i].kind = kind)
      BY <1>1, <1>4
    <2> QED BY <1>3, <2>1, <2>2 DEF m, s
  <1>5. CASE I # {}
    <2>1. I \subseteq Nat /\ m = Min(I)
      BY <1>2, <1>5
    <2>2. m \in I
      <3> HIDE DEF I
      <3> QED BY <1>5, <2>1, LeastIs
    <2>3. m \in 1 .. Len(s) /\ s[m].name = g
      BY <2>2
    <2>4. PICK i \in DOMAIN p.globals : s[m] = p.globals[i] /\ p.globals[i].kind = kind
      BY <1>1, <2>3
    <2>5. m \in 0 .. Len(s) /\ m > 0
      BY <1>3, <2>3
    <2> QED BY <2>3, <2>4, <2>5 DEF m, s
  <1> QED BY <1>4, <1>5

LEMMA OneKind ==
  ASSUME NEW p \in Programs, NEW one, NEW other, NEW g,
         PlaceOf(p, one, g) > 0, PlaceOf(p, other, g) > 0
  PROVE  one = other /\ g # "kernel"
  <1>1. PICK i \in DOMAIN p.globals : p.globals[i].name = g /\ p.globals[i].kind = one
    BY PlaceIs
  <1>2. PICK j \in DOMAIN p.globals : p.globals[j].name = g /\ p.globals[j].kind = other
    BY PlaceIs
  <1> QED BY <1>1, <1>2, DataAssumption

\* Programs with the same globals of a kind have them at the same places.
LEMMA SameNames ==
  ASSUME NEW p, NEW q, NEW kind, NEW g,
         Len(OfKind(p, kind)) = Len(OfKind(q, kind)),
         \A i \in 1 .. Len(OfKind(p, kind)) : OfKind(p, kind)[i].name = OfKind(q, kind)[i].name
  PROVE  PlaceOf(p, kind, g) = PlaceOf(q, kind, g)
  <1>1. {i \in 1 .. Len(OfKind(p, kind)) : OfKind(p, kind)[i].name = g}
          = {i \in 1 .. Len(OfKind(q, kind)) : OfKind(q, kind)[i].name = g}
    OBVIOUS
  <1> QED BY <1>1 DEF PlaceOf

LEMMA SealedSize ==
  ASSUME NEW p \in Programs
  PROVE  relro_size(p) \in Nat
  <1> DEFINE n == Len(OfKind(p, "relro")) + 1
  <1>1. n \in Nat /\ n >= 1
    <2>1. OfKind(p, "relro") \in Seq(Decl)
      BY KindIs
    <2>2. Len(OfKind(p, "relro")) \in Nat
      BY <2>1
    <2> QED BY <2>2
  <1>2. RelroWords \in Nat /\ RelroWords >= 1
    BY DataAssumption
  <1>3. relro_size(p) = ((n + RelroWords - 1) \div RelroWords) * RelroWords
    BY DEF relro_size
  <1> HIDE DEF n
  <1>4. n + RelroWords - 1 \in Nat
    BY <1>1, <1>2
  <1> DEFINE x == n + RelroWords - 1
             y == x \div RelroWords
  <1>5. y \in Nat
    BY <1>2, <1>4
  <1> HIDE DEF y
  <1>6. y * RelroWords \in Nat
    BY <1>2, <1>5
  <1> QED BY <1>3, <1>6 DEF y

\* The writable globals in .data.
LEMMA DataIs ==
  ASSUME NEW p \in Programs
  PROVE  LET rw == OfKind(p, "rw")
             w == relro_size(p)
         IN  /\ Len(rw) \in Nat /\ Len(Data(p)) = w + Len(rw) + 2
             /\ \A i \in 1 .. Len(rw) : Data(p)[w + 1 + i] = rw[i].val
  <1> DEFINE rw == OfKind(p, "rw")
             relro == OfKind(p, "relro")
             w == relro_size(p)
             a == [i \in 1 .. w |-> IF i <= Len(relro) THEN relro[i].val ELSE 0]
             b == <<0>>
             c == [i \in DOMAIN rw |-> rw[i].val]
             x == a \o b
             y == x \o c
  <1>1. Data(p) = y \o b
    BY DEF Data
  <1>2. rw \in Seq(Decl) /\ relro \in Seq(Decl) /\ w \in Nat
    BY KindIs, SealedSize
  <1>3. \A d \in Decl : d.val \in Nat
    BY DEF Decl
  <1> HIDE DEF rw, relro, w
  <1>4. a \in Seq(Nat) /\ Len(a) = w
    <2>1. \A i \in 1 .. Len(relro) : relro[i].val \in Nat
      BY <1>2, <1>3
    <2>2. \A i \in 1 .. w : a[i] \in Nat
      <3> TAKE i \in 1 .. w
      <3>1. Len(relro) \in Nat /\ i \in Nat /\ i >= 1
        BY <1>2
      <3>2. i <= Len(relro) => i \in 1 .. Len(relro)
        BY <3>1
      <3> QED BY <2>1, <3>2
    <2>3. a = [i \in 1 .. w |-> a[i]]
      OBVIOUS
    <2> HIDE DEF a
    <2> QED BY <1>2, <2>2, <2>3
  <1>5. c \in Seq(Nat) /\ Len(c) = Len(rw) /\ \A i \in 1 .. Len(rw) : c[i] = rw[i].val
    <2>1. Len(rw) \in Nat /\ DOMAIN rw = 1 .. Len(rw) /\ \A i \in 1 .. Len(rw) : rw[i] \in Decl
      BY <1>2
    <2>2. \A i \in 1 .. Len(rw) : rw[i].val \in Nat
      BY <1>3, <2>1
    <2> QED BY <2>1, <2>2
  <1>6. b \in Seq(Nat) /\ Len(b) = 1
    OBVIOUS
  <1> HIDE DEF a, b, c
  <1>7. x \in Seq(Nat) /\ Len(x) = w + 1
    <2>1. a \in Seq(Nat) /\ b \in Seq(Nat)
      BY <1>4, <1>6
    <2>2. /\ a \o b \in Seq(Nat) /\ Len(a \o b) = Len(a) + Len(b)
          /\ \A i \in 1 .. Len(a) : (a \o b)[i] = a[i]
          /\ \A i \in 1 .. Len(b) : (a \o b)[Len(a) + i] = b[i]
      BY <2>1, Behind
    <2> QED BY <2>2, <1>4, <1>6
  <1> HIDE DEF x
  <1>8. /\ y \in Seq(Nat) /\ Len(y) = Len(x) + Len(c)
        /\ \A i \in 1 .. Len(c) : y[Len(x) + i] = c[i]
    <2>1. x \in Seq(Nat) /\ c \in Seq(Nat)
      BY <1>5, <1>7
    <2>2. /\ x \o c \in Seq(Nat) /\ Len(x \o c) = Len(x) + Len(c)
          /\ \A i \in 1 .. Len(x) : (x \o c)[i] = x[i]
          /\ \A i \in 1 .. Len(c) : (x \o c)[Len(x) + i] = c[i]
      BY <2>1, Behind
    <2> QED BY <2>2, <1>5, <1>7
  <1> HIDE DEF y
  <1>9. /\ Len(y \o b) = Len(y) + 1
        /\ \A i \in 1 .. Len(y) : (y \o b)[i] = y[i]
    <2>1. y \in Seq(Nat) /\ b \in Seq(Nat)
      BY <1>6, <1>8
    <2>2. /\ y \o b \in Seq(Nat) /\ Len(y \o b) = Len(y) + Len(b)
          /\ \A i \in 1 .. Len(y) : (y \o b)[i] = y[i]
          /\ \A i \in 1 .. Len(b) : (y \o b)[Len(y) + i] = b[i]
      BY <2>1, Behind
    <2> QED BY <2>2, <1>6, <1>8
  <1>10. Len(rw) \in Nat
    BY <1>2
  <1>11. \A i \in 1 .. Len(rw) : w + 1 + i \in 1 .. Len(y)
    BY <1>2, <1>5, <1>7, <1>8, <1>10
  <1>12. \A i \in 1 .. Len(rw) : Data(p)[w + 1 + i] = rw[i].val
    BY <1>1, <1>5, <1>7, <1>8, <1>9, <1>11
  <1>13. Len(Data(p)) = w + Len(rw) + 2
    BY <1>1, <1>2, <1>5, <1>7, <1>8, <1>9, <1>10
  <1> QED BY <1>10, <1>12, <1>13 DEF rw, w

LEMMA KernelIsNone ==
  ASSUME NEW p \in Programs, NEW kind
  PROVE  ~(PlaceOf(p, kind, "kernel") > 0)
  BY OneKind

\* What does not lie among the constants has one place in two programs that have
\* the same globals of the two other kinds.
LEMMA OnePlace ==
  ASSUME NEW p \in Programs, NEW q \in Programs, NEW g,
         \A kind \in {"relro", "rw"} :
           /\ Len(OfKind(p, kind)) = Len(OfKind(q, kind))
           /\ \A i \in 1 .. Len(OfKind(p, kind)) : OfKind(p, kind)[i].name = OfKind(q, kind)[i].name,
         g # "kernel" => \E i \in DOMAIN p.globals : p.globals[i].name = g,
         gmap(p, g)[1] = "data"
  PROVE  gmap(q, g) = gmap(p, g)
  <1>1. /\ PlaceOf(p, "relro", g) = PlaceOf(q, "relro", g)
        /\ PlaceOf(p, "rw", g) = PlaceOf(q, "rw", g)
    BY SameNames
  <1>2. relro_size(p) = relro_size(q) /\ Len(OfKind(p, "relro")) = Len(OfKind(q, "relro"))
    BY DEF relro_size
  <1>3. CASE g = "kernel"
    <2>1. /\ ~(PlaceOf(p, "ro", g) > 0) /\ ~(PlaceOf(p, "relro", g) > 0)
          /\ ~(PlaceOf(q, "ro", g) > 0) /\ ~(PlaceOf(q, "relro", g) > 0)
      BY <1>3, KernelIsNone
    <2>2. /\ gmap(p, g) = <<"data", Len(OfKind(p, "relro"))>>
          /\ gmap(q, g) = <<"data", Len(OfKind(q, "relro"))>>
      BY <1>3, <2>1, GmapIs
    <2> QED BY <1>2, <2>2
  <1>4. CASE g # "kernel"
    <2>1. PICK i \in DOMAIN p.globals : p.globals[i].name = g
      BY <1>4
    <2>2. p.globals[i].kind \in {"ro", "relro", "rw"}
      <3>1. p.globals \in Seq(Decl)
        BY DataAssumption
      <3>2. p.globals[i] \in Decl
        BY <3>1
      <3>3. \A d \in Decl : d.kind \in {"ro", "relro", "rw"}
        BY DEF Decl
      <3> QED BY <3>2, <3>3
    <2>3. CASE p.globals[i].kind = "ro"
      <3>1. PlaceOf(p, "ro", g) > 0
        BY <2>1, <2>3, PlaceIs
      <3>2. ~(PlaceOf(p, "relro", g) > 0)
        <4>1. "ro" # "relro"
          OBVIOUS
        <4> QED BY <3>1, <4>1, OneKind
      <3>3. gmap(p, g) = <<"rodata", layout[p].ro_vals + Word * (PlaceOf(p, "ro", g) - 1)>>
        BY <1>4, <3>1, <3>2, GmapIs
      <3> QED BY <3>3
    <2>4. CASE p.globals[i].kind = "relro"
      <3>1. PlaceOf(p, "relro", g) > 0 /\ PlaceOf(q, "relro", g) > 0
        BY <1>1, <2>1, <2>4, PlaceIs
      <3>2. ~(PlaceOf(p, "ro", g) > 0) /\ ~(PlaceOf(q, "ro", g) > 0)
        <4>1. "ro" # "relro"
          OBVIOUS
        <4> QED BY <3>1, <4>1, OneKind
      <3>3. gmap(p, g) = <<"data", PlaceOf(p, "relro", g) - 1>>
        BY <1>4, <3>1, <3>2, GmapIs
      <3>4. gmap(q, g) = <<"data", PlaceOf(q, "relro", g) - 1>>
        BY <1>4, <3>1, <3>2, GmapIs
      <3> QED BY <1>1, <3>3, <3>4
    <2>5. CASE p.globals[i].kind = "rw"
      <3>1. PlaceOf(p, "rw", g) > 0 /\ PlaceOf(q, "rw", g) > 0
        BY <1>1, <2>1, <2>5, PlaceIs
      <3>2. /\ ~(PlaceOf(p, "ro", g) > 0) /\ ~(PlaceOf(q, "ro", g) > 0)
            /\ ~(PlaceOf(p, "relro", g) > 0) /\ ~(PlaceOf(q, "relro", g) > 0)
        <4>1. "ro" # "rw" /\ "relro" # "rw"
          OBVIOUS
        <4> QED BY <3>1, <4>1, OneKind
      <3>3. gmap(p, g) = <<"data", relro_size(p) + PlaceOf(p, "rw", g)>>
        BY <1>4, <3>2, GmapIs
      <3>4. gmap(q, g) = <<"data", relro_size(q) + PlaceOf(q, "rw", g)>>
        BY <1>4, <3>2, GmapIs
      <3> QED BY <1>1, <1>2, <3>3, <3>4
    <2> QED BY <2>2, <2>3, <2>4, <2>5
  <1> QED BY <1>3, <1>4

\* Two programs with one .data have the same globals there.
LEMMA SameData ==
  ASSUME GlobalsToldApart, NEW p \in Programs, NEW q \in Programs, Data(p) = Data(q),
         OfKind(p, "relro") = <<>> <=> OfKind(q, "relro") = <<>>
  PROVE  \A kind \in {"relro", "rw"} :
           /\ Len(OfKind(p, kind)) = Len(OfKind(q, kind))
           /\ \A i \in 1 .. Len(OfKind(p, kind)) : OfKind(p, kind)[i].name = OfKind(q, kind)[i].name
  <1> DEFINE a == OfKind(p, "relro")
             b == OfKind(q, "relro")
             c == OfKind(p, "rw")
             d == OfKind(q, "rw")
             w == relro_size(p)
  <1>1. a \in Seq(Decl) /\ b \in Seq(Decl) /\ c \in Seq(Decl) /\ d \in Seq(Decl)
    BY KindIs
  <1>2. /\ a # <<>> /\ b # <<>> => Len(a) = Len(b) /\ \A i \in DOMAIN a : a[i].name = b[i].name
        /\ \A i \in DOMAIN c \cap DOMAIN d : c[i].val = d[i].val => c[i].name = d[i].name
    BY DEF GlobalsToldApart
  <1>3. w \in Nat
    BY SealedSize
  <1>4. Len(a) = Len(b) => w = relro_size(q)
    BY DEF relro_size
  <1>5. /\ Len(c) \in Nat /\ Len(Data(p)) = w + Len(c) + 2
        /\ \A i \in 1 .. Len(c) : Data(p)[w + 1 + i] = c[i].val
        /\ Len(d) \in Nat /\ Len(Data(q)) = relro_size(q) + Len(d) + 2
        /\ \A i \in 1 .. Len(d) : Data(q)[relro_size(q) + 1 + i] = d[i].val
    BY DataIs
  <1> HIDE DEF a, b, c, d, w
  <1>6. Len(a) = Len(b) /\ \A i \in 1 .. Len(a) : a[i].name = b[i].name
    <2>1. CASE a = <<>>
      <3>1. b = <<>>
        BY <2>1 DEF a, b
      <3> QED BY <2>1, <3>1
    <2>2. CASE a # <<>>
      <3>1. b # <<>>
        BY <2>2 DEF a, b
      <3>2. DOMAIN a = 1 .. Len(a)
        BY <1>1
      <3> QED BY <1>2, <2>2, <3>1, <3>2
    <2> QED BY <2>1, <2>2
  <1>7. Len(c) = Len(d)
    BY <1>3, <1>4, <1>5, <1>6
  <1>8. \A i \in 1 .. Len(c) : c[i].name = d[i].name
    <2> TAKE i \in 1 .. Len(c)
    <2>1. c[i].val = d[i].val
      BY <1>4, <1>5, <1>6, <1>7
    <2>2. i \in DOMAIN c \cap DOMAIN d
      BY <1>1, <1>7
    <2> QED BY <1>2, <2>1, <2>2
  <1> QED BY <1>6, <1>7, <1>8 DEF a, b, c, d

LEMMA PlacesStep ==
  ASSUME GlobalsToldApart, Follows, PlacesFollow, [Next]_vars
  PROVE  PlacesFollow'
  <1>1. CASE UNCHANGED vars
    BY <1>1 DEF vars, PlacesFollow, Built
  <1>2. CASE Next
    <2>1. PICK p \in Programs : src' = p /\ (bin' = codegen(p, Fn, NoFile) \/ Laid(p))
      BY <1>2, Built2
    <2>2. ASSUME NEW f \in Fn, NEW g \in DOMAIN bin'.code[f].globals, gmap(p, g)[1] = "data"
          PROVE  bin'.code[f].globals[g] = gmap(p, g)
      <3>1. ASSUME NEW fresh, NEW prev, f \in fresh, CodeOf(p, fresh, prev, bin')
            PROVE  bin'.code[f].globals[g] = gmap(p, g)
        <4>1. bin'.code[f].globals = [h \in Uses[<<f, p.ver[f]>>] |-> gmap(p, h)]
          BY <3>1 DEF CodeOf
        <4> QED BY <2>2, <4>1
      <3>2. CASE bin' = codegen(p, Fn, NoFile)
        <4>1. CodeOf(p, Fn, NoFile, bin')
          BY <3>2, CodeIs
        <4> QED BY <3>1, <4>1
      <3>3. CASE Laid(p)
        <4> DEFINE fresh == incr_regenerate(p, bin)
        <4>1. Built /\ bin' = codegen(p, fresh, bin) /\ bin'.data = bin.data /\ Initialised(p, bin)
          BY <3>3 DEF Laid, incr_lines_up
        <4>2. CodeOf(p, fresh, bin, bin')
          BY <4>1, CodeIs
        <4>3. CASE f \in fresh
          BY <3>1, <4>2, <4>3
        <4>4. CASE f \notin fresh
          <5>1. bin'.code[f] = bin.code[f]
            BY <4>2, <4>4 DEF CodeOf
          <5>2. bin.code[f].ver = p.ver[f]
            BY <4>4, Regenerated
          <5>3. /\ src \in Programs /\ Data(p) = Data(src) /\ p.ver[f] = src.ver[f]
                /\ DOMAIN bin.code[f].globals = Uses[<<f, p.ver[f]>>]
                /\ (OfKind(p, "relro") = <<>> <=> OfKind(src, "relro") = <<>>)
            <6>1. /\ src \in Programs /\ bin.data = Data(src) /\ bin.code[f].ver = src.ver[f]
                  /\ (bin.inits = 0 <=> OfKind(src, "relro") = <<>>)
                  /\ DOMAIN bin.code[f].globals = Uses[<<f, src.ver[f]>>]
              BY <4>1 DEF Follows
            <6>2. bin'.data = Data(p)
              BY <4>2 DEF CodeOf
            <6>3. (OfKind(p, "relro") = <<>> <=> bin.inits = 0)
              BY <4>1 DEF Initialised
            <6> QED BY <4>1, <5>2, <6>1, <6>2, <6>3
          <5>4. \A kind \in {"relro", "rw"} :
                  /\ Len(OfKind(p, kind)) = Len(OfKind(src, kind))
                  /\ \A i \in 1 .. Len(OfKind(p, kind)) :
                       OfKind(p, kind)[i].name = OfKind(src, kind)[i].name
            BY <5>3, SameData
          <5>5. g \in Uses[<<f, p.ver[f]>>]
            BY <2>2, <5>1, <5>3
          <5>6. g # "kernel" => \E i \in DOMAIN p.globals : p.globals[i].name = g
            BY <5>5, DataAssumption
          <5>7. gmap(src, g) = gmap(p, g)
            BY <2>2, <5>3, <5>4, <5>6, OnePlace
          <5>8. bin.code[f].globals[g] = gmap(src, g)
            BY <2>2, <4>1, <5>1, <5>7 DEF PlacesFollow
          <5> QED BY <5>1, <5>7, <5>8
        <4> QED BY <4>3, <4>4
      <3> QED BY <2>1, <3>2, <3>3
    <2>3. \A f \in Fn : \A g \in DOMAIN bin'.code[f].globals :
            gmap(src', g)[1] = "data" => bin'.code[f].globals[g] = gmap(src', g)
      BY <2>1, <2>2
    <2>4. PlacesFollow' = (Built' => \A f \in Fn : \A g \in DOMAIN bin'.code[f].globals :
            gmap(src', g)[1] = "data" => bin'.code[f].globals[g] = gmap(src', g))
      BY DEF PlacesFollow
    <2> QED BY <2>3, <2>4
  <1> QED BY <1>1, <1>2

\* Where writable globals with one place and one first value in two programs are one
\* global, what a function holds as the place of one is where every function written
\* now takes it to be, however many builds ago its code was written: .data is
\* compared whole, and .data tells such programs apart (incr_lines_up).
THEOREM PlacesStand == GlobalsToldApart => (Spec => []PlacesFollow)
  <1> SUFFICES ASSUME GlobalsToldApart
               PROVE  Spec => []PlacesFollow
    OBVIOUS
  <1> DEFINE I == Follows /\ PlacesFollow
  <1>1. Init => I
    BY DEF Init, Follows, PlacesFollow, Built
  <1>2. I /\ [Next]_vars => I'
    BY FollowsStep, PlacesStep
  <1> QED BY <1>1, <1>2, PTL DEF Spec

-----------------------------------------------------------------------------
\* The jump tables from build to build.

LEMMA HasIs ==
  ASSUME NEW at \in Nat, NEW s \in Seq(Octet), bin.ro \in Seq(Octet),
         at + Len(s) <= Len(bin.ro), \A k \in 1 .. Len(s) : bin.ro[at + k] = s[k]
  PROVE  Has(at, s)
  <1> DEFINE R == bin.ro
             n == Len(s)
             c == SubSeq(R, at + 1, at + n)
  <1>1. R \in Seq(Octet) /\ n \in Nat /\ at + n <= Len(R)
    OBVIOUS
  <1> HIDE DEF n
  <1>2. c \in Seq(Octet) /\ Len(c) = n /\ \A k \in 1 .. n : c[k] = R[at + k]
    BY <1>1, Cut
  <1>3. \A k \in 1 .. n : R[at + k] = s[k]
    BY DEF n
  <1> HIDE DEF c, R
  <1>4. \A k \in 1 .. Len(c) : c[k] = s[k]
    BY <1>2, <1>3
  <1>5. Len(c) = Len(s)
    BY <1>2 DEF n
  <1>6. c = s
    BY <1>2, <1>4, <1>5, AllAlike
  <1> QED BY <1>1, <1>6 DEF Has, n, c, R

\* The table of a function is where it takes it to be, behind what is laid out anew.
InPlace(p, R, f, at) ==
  LET t == TableBytes(f, p.ver[f])
  IN  /\ at \in Nat /\ jt_base(p) <= at /\ at + Len(t) <= Len(R)
      /\ \A k \in 1 .. Len(t) : R[at + k] = t[k]

Tabled == Built => \A f \in Fn : InPlace(src, bin.ro, f, bin.code[f].table)

LEMMA WrittenTable ==
  ASSUME NEW p \in Programs, NEW f \in Fn, NEW fresh, f \in fresh, NEW prev,
         prev # NoFile => prev.ro \in Seq(Octet),
         CodeOf(p, fresh, prev, codegen(p, fresh, prev))
  PROVE  InPlace(p, codegen(p, fresh, prev).ro, f, codegen(p, fresh, prev).code[f].table)
  <1> DEFINE out == codegen(p, fresh, prev)
             O == out.ro
             base == jt_base(p)
             kept == Len(incr_jt_prefix(prev, base))
             all == Tables(p, fresh)
             t == TableBytes(f, p.ver[f])
             j == jt_start(p, fresh, f)
             at == out.code[f].table
  <1>1. at = base + kept + j
    BY DEF CodeOf
  <1>2. /\ O \in Seq(Octet) /\ base \in Nat /\ kept \in Nat
        /\ Len(O) = base + kept + Len(all)
        /\ \A k \in 1 .. Len(all) : O[base + kept + k] = all[k]
    BY Image
  <1>3. /\ j \in Nat /\ j + Len(t) <= Len(all)
        /\ \A k \in 1 .. Len(t) : all[j + k] = t[k]
    BY TablesAre
  <1>4. all \in Seq(Octet)
    BY TablesAre
  <1>5. t \in Seq(Octet)
    <2>1. p.ver[f] \in Version
      BY ProgramIs
    <2> QED BY <2>1, TableIs
  <1> HIDE DEF O, base, kept, all, t, j, at
  <1>6. Len(t) \in Nat /\ Len(all) \in Nat
    BY <1>4, <1>5
  <1>7. at \in Nat /\ base <= at /\ at + Len(t) <= Len(O)
    BY <1>1, <1>2, <1>3, <1>6
  <1>8. \A k \in 1 .. Len(t) : O[at + k] = t[k]
    <2> TAKE k \in 1 .. Len(t)
    <2>1. j + k \in 1 .. Len(all) /\ at + k = base + kept + (j + k)
      BY <1>1, <1>2, <1>3, <1>6
    <2> QED BY <1>2, <1>3, <2>1
  <1> QED BY <1>7, <1>8 DEF InPlace, O, base, t, at

LEMMA SameBase ==
  ASSUME NEW p \in Programs, NEW q \in Programs, AsManyConstants,
         layout[p].ro_vals = layout[q].ro_vals
  PROVE  jt_base(p) = jt_base(q)
  <1>1. layout[p].ro_vals_end = layout[q].ro_vals_end
    <2>1. Len(OfKind(p, "ro")) = Len(OfKind(q, "ro"))
      BY DEF AsManyConstants
    <2> QED BY <2>1, LayoutIs
  <1> QED BY <1>1, LayoutIs DEF jt_base

LEMMA TabledStep ==
  ASSUME StringsEndWithin, AsManyConstants, Follows, Standing, Tabled, [Next]_vars
  PROVE  Tabled'
  <1>1. CASE UNCHANGED vars
    BY <1>1 DEF vars, Tabled, Built
  <1>2. CASE Next
    <2>1. PICK p \in Programs : src' = p /\ (bin' = codegen(p, Fn, NoFile) \/ Laid(p))
      BY <1>2, Built2
    <2>2. ASSUME NEW f \in Fn
          PROVE  InPlace(p, bin'.ro, f, bin'.code[f].table)
      <3>1. CASE bin' = codegen(p, Fn, NoFile)
        <4>1. CodeOf(p, Fn, NoFile, codegen(p, Fn, NoFile))
          BY CodeIs
        <4>2. InPlace(p, codegen(p, Fn, NoFile).ro, f, codegen(p, Fn, NoFile).code[f].table)
          BY <4>1, WrittenTable
        <4> QED BY <3>1, <4>2
      <3>2. CASE Laid(p)
        <4> DEFINE fresh == incr_regenerate(p, bin)
                   R == bin.ro
                   O == bin'.ro
                   base == jt_base(p)
                   kept == Len(incr_jt_prefix(bin, base))
        <4>1. /\ src \in Programs /\ Stands(src, R) /\ Compared(p, R, O)
              /\ R \in Seq(Octet) /\ O \in Seq(Octet)
              /\ CodeOf(p, fresh, bin, bin') /\ Len(R) <= Len(O)
          BY <3>2, Keeps
        <4>2. Built /\ bin' = codegen(p, fresh, bin)
          BY <3>2 DEF Laid
        <4>3. CASE f \in fresh
          <5>1. InPlace(p, codegen(p, fresh, bin).ro, f, codegen(p, fresh, bin).code[f].table)
            BY <4>1, <4>2, <4>3, WrittenTable
          <5> QED BY <4>2, <5>1
        <4>4. CASE f \notin fresh
          <5>1. bin'.code[f] = bin.code[f]
            BY <4>1, <4>4 DEF CodeOf
          <5>2. bin.code[f].ver = p.ver[f]
            BY <4>4, Regenerated
          <5>3. p.ver[f] = src.ver[f]
            BY <4>2, <5>2 DEF Follows
          <5>4. base = jt_base(src)
            <6>1. layout[p].ro_vals = layout[src].ro_vals
              BY <4>1, LinedUp
            <6> QED BY <4>1, <6>1, SameBase
          <5>5. base \in Nat /\ base <= Len(R)
            <6>1. base \in Nat
              BY LayoutIs DEF jt_base
            <6>2. jt_base(src) <= Len(R)
              BY <4>1 DEF Stands
            <6> QED BY <5>4, <6>1, <6>2
          <5>6. \A i \in base + 1 .. Len(R) : O[i] = R[i]
            <6>1. bin # NoFile
              BY <4>2 DEF Built
            <6>2. codegen(p, fresh, bin).ro = O
              BY <4>2
            <6> QED BY <4>1, <5>5, <6>1, <6>2, Image
          <5>7. InPlace(src, R, f, bin.code[f].table)
            BY <4>2 DEF Tabled
          <5> DEFINE at == bin.code[f].table
                     t == TableBytes(f, p.ver[f])
          <5>8. /\ at \in Nat /\ base <= at /\ at + Len(t) <= Len(R)
                /\ \A k \in 1 .. Len(t) : R[at + k] = t[k]
            BY <5>3, <5>4, <5>7 DEF InPlace
          <5>9. t \in Seq(Octet)
            <6>1. p.ver[f] \in Version
              BY ProgramIs
            <6> QED BY <6>1, TableIs
          <5> HIDE DEF R, O, base, at, t
          <5>10. Len(t) \in Nat /\ Len(R) \in Nat /\ Len(O) \in Nat
            BY <4>1, <5>9
          <5>11. at + Len(t) <= Len(O)
            BY <4>1, <5>8, <5>10
          <5>12. \A k \in 1 .. Len(t) : O[at + k] = t[k]
            <6> TAKE k \in 1 .. Len(t)
            <6>1. at + k \in base + 1 .. Len(R)
              BY <5>5, <5>8, <5>10
            <6> QED BY <5>6, <5>8, <6>1
          <5>13. at = bin'.code[f].table
            BY <5>1 DEF at
          <5> QED BY <5>8, <5>11, <5>12, <5>13 DEF InPlace, O, base, t
        <4> QED BY <4>3, <4>4
      <3> QED BY <2>1, <3>1, <3>2
    <2>3. \A f \in Fn : InPlace(src', bin'.ro, f, bin'.code[f].table)
      BY <2>1, <2>2
    <2> QED BY <2>3 DEF Tabled
  <1> QED BY <1>1, <1>2

LEMMA TabledKept ==
  ASSUME Follows, Standing, Tabled
  PROVE  TablesKept
  <1> SUFFICES ASSUME Built, NEW f \in Fn
               PROVE  Has(bin.code[f].table, TableBytes(f, bin.code[f].ver))
    BY DEF TablesKept
  <1>1. src \in Programs /\ bin.code[f].ver = src.ver[f]
    BY DEF Follows
  <1>2. bin.ro \in Seq(Octet)
    BY DEF Standing, Stands
  <1>3. InPlace(src, bin.ro, f, bin.code[f].table)
    BY DEF Tabled
  <1>4. TableBytes(f, src.ver[f]) \in Seq(Octet)
    <2>1. src.ver[f] \in Version
      BY <1>1, ProgramIs
    <2> QED BY <2>1, TableIs
  <1>5. Has(bin.code[f].table, TableBytes(f, src.ver[f]))
    BY <1>2, <1>3, <1>4, HasIs DEF InPlace
  <1> QED BY <1>1, <1>5

\* Where moreover every program has as many constants, the jump table a function
\* goes through is its own, however many builds ago both were written: the tables
\* of all earlier builds lie where they lay (incr_jt_prefix).
THEOREM TablesStand == StringsEndWithin /\ AsManyConstants => (Spec => []TablesKept)
  <1> SUFFICES ASSUME StringsEndWithin, AsManyConstants
               PROVE  Spec => []TablesKept
    OBVIOUS
  <1> DEFINE I == Follows /\ Standing /\ Tabled
  <1>1. Init => I
    BY DEF Init, Follows, Standing, Tabled, Built
  <1>2. I /\ [Next]_vars => I'
    BY FollowsStep, StandingStep, TabledStep
  <1>3. I => TablesKept
    BY TabledKept
  <1> QED BY <1>1, <1>2, <1>3, PTL DEF Spec

-----------------------------------------------------------------------------
\* The constants from build to build.

\* The place of a constant, in every function that reads it.
Valued ==
  Built => \A f \in Fn : \A g \in Uses[<<f, src.ver[f]>>] : PlaceOf(src, "ro", g) > 0 =>
    bin.code[f].globals[g]
      = <<"rodata", layout[src].ro_vals + Word * (PlaceOf(src, "ro", g) - 1)>>

LEMMA ConstantPlace ==
  ASSUME NEW p \in Programs, NEW g, PlaceOf(p, "ro", g) > 0
  PROVE  gmap(p, g) = <<"rodata", layout[p].ro_vals + Word * (PlaceOf(p, "ro", g) - 1)>>
  <1>1. g # "kernel"
    BY OneKind
  <1>2. ~(PlaceOf(p, "relro", g) > 0)
    <2>1. "ro" # "relro"
      OBVIOUS
    <2> QED BY <2>1, OneKind
  <1> QED BY <1>1, <1>2, GmapIs

LEMMA ValuedStep ==
  ASSUME StringsEndWithin, SameConstants, Follows, Standing, Valued, [Next]_vars
  PROVE  Valued'
  <1>1. CASE UNCHANGED vars
    BY <1>1 DEF vars, Valued, Built
  <1>2. CASE Next
    <2>1. PICK p \in Programs : src' = p /\ (bin' = codegen(p, Fn, NoFile) \/ Laid(p))
      BY <1>2, Built2
    <2>2. ASSUME NEW f \in Fn, NEW g \in Uses[<<f, p.ver[f]>>], PlaceOf(p, "ro", g) > 0
          PROVE  bin'.code[f].globals[g]
                   = <<"rodata", layout[p].ro_vals + Word * (PlaceOf(p, "ro", g) - 1)>>
      <3>1. ASSUME NEW fresh, NEW prev, f \in fresh, CodeOf(p, fresh, prev, bin')
            PROVE  bin'.code[f].globals[g] = gmap(p, g)
        <4>1. bin'.code[f].globals = [h \in Uses[<<f, p.ver[f]>>] |-> gmap(p, h)]
          BY <3>1 DEF CodeOf
        <4> QED BY <2>2, <4>1
      <3>2. gmap(p, g) = <<"rodata", layout[p].ro_vals + Word * (PlaceOf(p, "ro", g) - 1)>>
        BY <2>2, ConstantPlace
      <3>3. CASE bin' = codegen(p, Fn, NoFile)
        <4>1. CodeOf(p, Fn, NoFile, bin')
          BY <3>3, CodeIs
        <4> QED BY <3>1, <3>2, <4>1
      <3>4. CASE Laid(p)
        <4> DEFINE fresh == incr_regenerate(p, bin)
        <4>1. /\ src \in Programs /\ Stands(src, bin.ro) /\ Compared(p, bin.ro, bin'.ro)
              /\ CodeOf(p, fresh, bin, bin') /\ Built
          BY <3>4, Keeps DEF Laid
        <4>2. CASE f \in fresh
          BY <3>1, <3>2, <4>1, <4>2
        <4>3. CASE f \notin fresh
          <5>1. bin'.code[f] = bin.code[f]
            BY <4>1, <4>3 DEF CodeOf
          <5>2. bin.code[f].ver = p.ver[f]
            BY <4>3, Regenerated
          <5>3. p.ver[f] = src.ver[f]
            BY <4>1, <5>2 DEF Follows
          <5>4. layout[p].ro_vals = layout[src].ro_vals
            BY <4>1, LinedUp
          <5>5. PlaceOf(p, "ro", g) = PlaceOf(src, "ro", g)
            <6>1. Len(OfKind(p, "ro")) = Len(OfKind(src, "ro"))
              BY <4>1 DEF SameConstants, AsManyConstants
            <6>2. DOMAIN OfKind(p, "ro") = 1 .. Len(OfKind(p, "ro"))
              <7>1. OfKind(p, "ro") \in Seq(Decl)
                BY KindIs
              <7> QED BY <7>1
            <6>3. \A i \in 1 .. Len(OfKind(p, "ro")) :
                    OfKind(p, "ro")[i].name = OfKind(src, "ro")[i].name
              BY <4>1, <6>2 DEF SameConstants
            <6> QED BY <6>1, <6>3, SameNames
          <5>6. bin.code[f].globals[g]
                  = <<"rodata", layout[src].ro_vals + Word * (PlaceOf(src, "ro", g) - 1)>>
            BY <2>2, <4>1, <5>3, <5>5 DEF Valued
          <5> QED BY <5>1, <5>4, <5>5, <5>6
        <4> QED BY <4>2, <4>3
      <3> QED BY <2>1, <3>3, <3>4
    <2>3. \A f \in Fn : \A g \in Uses[<<f, src'.ver[f]>>] : PlaceOf(src', "ro", g) > 0 =>
            bin'.code[f].globals[g]
              = <<"rodata", layout[src'].ro_vals + Word * (PlaceOf(src', "ro", g) - 1)>>
      BY <2>1, <2>2
    <2> QED BY <2>3 DEF Valued
  <1> QED BY <1>1, <1>2

LEMMA ValuedFollow ==
  ASSUME Follows, Standing, Valued
  PROVE  ValuesFollow
  <1> SUFFICES ASSUME Built, NEW f \in Fn, NEW i \in DOMAIN src.globals,
                      src.globals[i].kind = "ro",
                      src.globals[i].name \in Uses[<<f, bin.code[f].ver>>]
               PROVE  LET at == bin.code[f].globals[src.globals[i].name]
                      IN  at[1] = "rodata" /\ Has(at[2], Bytes("value", src.globals[i].val))
    BY DEF ValuesFollow
  <1> DEFINE d == src.globals[i]
             g == d.name
             ro == OfKind(src, "ro")
             m == PlaceOf(src, "ro", g)
             at == layout[src].ro_vals + Word * (m - 1)
             b == Bytes("value", d.val)
             B == layout[src].bytes
             V == layout[src].ro_vals
             n == Len(ro)
  <1>1. src \in Programs /\ bin.code[f].ver = src.ver[f]
    BY DEF Follows
  <1>2. m > 0 /\ m \in 1 .. n /\ ro[m] = d
    <2>1. m > 0
      BY <1>1, PlaceIs
    <2>2. m \in 0 .. n
      BY <1>1, PlaceIs
    <2>3. PICK j \in DOMAIN src.globals : src.globals[j] = ro[m] /\ src.globals[j].name = g
      BY <1>1, <2>1, PlaceIs
    <2>4. j = i
      BY <1>1, <2>3, DataAssumption
    <2>5. n \in Nat
      <3>1. ro \in Seq(Decl)
        BY <1>1, KindIs
      <3> QED BY <3>1
    <2> HIDE DEF m, n, ro
    <2> QED BY <2>1, <2>2, <2>3, <2>4, <2>5
  <1>3. bin.code[f].globals[g] = <<"rodata", at>>
    BY <1>1, <1>2 DEF Valued
  <1>4. /\ bin.ro \in Seq(Octet) /\ Len(B) <= Len(bin.ro)
        /\ \A k \in 1 .. Len(B) : bin.ro[k] = B[k]
    BY DEF Standing, Stands, jt_base
  <1>5. b \in Seq(Octet) /\ Len(b) = Word
    <2>1. d \in Decl
      <3>1. src.globals \in Seq(Decl)
        BY <1>1, DataAssumption
      <3> QED BY <3>1
    <2>2. d.val \in Told /\ "value" \in Tag
      <3>1. \A e \in Decl : e.val \in Nat
        BY DEF Decl
      <3>2. d.val \in Nat
        BY <2>1, <3>1
      <3> QED BY <3>2 DEF Told, Tag
    <2> QED BY <2>2, WordIs
  <1>6. /\ V = layout[src].ro_bt + BtSize
        /\ layout[src].ro_vals_end = V + Word * n
        /\ layout[src].ro_vals_end <= Len(B)
        /\ \A k \in 1 .. Word : B[V + (Word * (m - 1) + k)] = Bytes("value", ro[m].val)[k]
    BY <1>1, <1>2, LayoutIs
  <1>7. V \in Nat /\ n \in Nat /\ Len(B) \in Nat
    <2>1. layout[src].ro_bt \in Nat /\ Len(B) \in Nat
      BY <1>1, Descriptor
    <2>2. ro \in Seq(Decl)
      BY <1>1, KindIs
    <2>3. n \in Nat
      BY <2>2
    <2> QED BY <1>6, <2>1, <2>3, Sizes
  <1>8. Word \in Nat /\ Word >= 1
    BY Sizes
  <1>9. PICK by \in [Nat -> Nat] :
           /\ \A a \in Nat : by[a] = Word * a
           /\ by[0] = 0
           /\ \A x, y \in Nat : by[x + y] = by[x] + by[y]
           /\ \A a \in Nat : by[a + 1] = by[a] + Word
           /\ \A x, y \in Nat : x <= y => by[x] <= by[y]
           /\ \A a \in Nat : a <= by[a]
    BY <1>8, Multiples
  <1> HIDE DEF d, ro, m, b, B, V, n
  <1>10. m - 1 \in Nat /\ m \in Nat /\ m <= n /\ (m - 1) + 1 = m
    BY <1>2, <1>7
  <1>11. /\ by[m - 1] = Word * (m - 1) /\ by[n] = Word * n /\ by[m - 1] \in Nat /\ by[n] \in Nat
         /\ by[m] = by[m - 1] + Word /\ by[m] <= by[n]
    <2>1. by[(m - 1) + 1] = by[m - 1] + Word
      BY <1>9, <1>10
    <2> QED BY <1>7, <1>9, <1>10, <2>1
  <1> DEFINE y == by[m - 1]
             z == by[n]
             NB == Len(B)
  <1>12. at = V + y /\ V + z <= NB /\ y \in Nat /\ z \in Nat /\ y + Word <= z /\ NB \in Nat
    BY <1>6, <1>7, <1>11 DEF V
  <1>13. \A k \in 1 .. Word : B[V + (y + k)] = b[k]
    BY <1>2, <1>6, <1>11 DEF b
  <1> HIDE DEF at, y, z, NB
  <1>14. at \in Nat /\ at + Word <= NB
    BY <1>7, <1>8, <1>12
  <1>15. \A k \in 1 .. Word : bin.ro[at + k] = b[k]
    <2> TAKE k \in 1 .. Word
    <2>1. at + k = V + (y + k) /\ at + k \in 1 .. NB
      BY <1>7, <1>8, <1>12, <1>14
    <2>2. at + k \in 1 .. Len(B)
      BY <2>1 DEF NB
    <2> QED BY <1>4, <1>13, <2>1, <2>2
  <1>16. at + Len(b) <= Len(bin.ro)
    <2>1. Len(bin.ro) \in Nat /\ NB <= Len(bin.ro)
      BY <1>4 DEF NB
    <2>2. Len(b) = Word
      BY <1>5
    <2>3. NB \in Nat
      BY <1>12
    <2>4. at + Word <= NB /\ at \in Nat /\ Word \in Nat
      BY <1>8, <1>14
    <2> DEFINE NR == Len(bin.ro)
    <2>5. NR \in Nat /\ NB <= NR
      BY <2>1
    <2> HIDE DEF NR
    <2>6. at + Word <= NR
      BY <2>3, <2>4, <2>5
    <2> QED BY <2>2, <2>6 DEF NR
  <1>17. Has(at, b)
    <2>1. \A k \in 1 .. Len(b) : bin.ro[at + k] = b[k]
      BY <1>5, <1>15
    <2>2. b \in Seq(Octet) /\ bin.ro \in Seq(Octet)
      BY <1>4, <1>5
    <2> QED BY <1>14, <1>16, <2>1, <2>2, HasIs
  <1>18. <<"rodata", at>>[1] = "rodata" /\ <<"rodata", at>>[2] = at
    OBVIOUS
  <1> QED BY <1>3, <1>17, <1>18 DEF d, b

\* Where moreover these are the same constants in the same order, a function that
\* reads one reads the value the source gives it now, though its code may be older
\* than the value: a value may differ, its place may not (MayDiffer).
THEOREM ValuesStand == StringsEndWithin /\ SameConstants => (Spec => []ValuesFollow)
  <1> SUFFICES ASSUME StringsEndWithin, SameConstants
               PROVE  Spec => []ValuesFollow
    OBVIOUS
  <1> DEFINE I == Follows /\ Standing /\ Valued
  <1>1. Init => I
    BY DEF Init, Follows, Standing, Valued, Built
  <1>2. I /\ [Next]_vars => I'
    BY FollowsStep, StandingStep, ValuedStep
  <1>3. I => ValuesFollow
    BY ValuedFollow
  <1> QED BY <1>1, <1>2, <1>3, PTL DEF Spec

-----------------------------------------------------------------------------
\* The shapes of the structs.

\* How the structs are spelled on the way down from any of them.
Spelling(S, def, sp, t) ==
  IF t \in S THEN <<t>>
  ELSE <<t, [i \in DOMAIN def[t] |->
               <<def[t][i].name,
                 IF def[t][i].of \in Struct THEN sp[S \cup {t}][def[t][i].of]
                 ELSE <<def[t][i].of>> >>]>>
Spelled(def, sp, D) == sp = [S \in D |-> [t \in Struct |-> Spelling(S, def, sp, t)]]

\* There is such a spelling: by the number of structs not met yet.
LEMMA CanSpell ==
  ASSUME NEW def
  PROVE  \E sp : Spelled(def, sp, SUBSET Struct)
  <1> DEFINE left == [S \in SUBSET Struct |-> Cardinality(Struct \ S)]
             D(n) == {S \in SUBSET Struct : left[S] < n}
             Bad == {n \in Nat : ~\E sp : Spelled(def, sp, D(n))}
  <1>1. IsFiniteSet(Struct)
    BY DataAssumption
  <1> DEFINE c == Cardinality(Struct)
  <1>0. \A S \in SUBSET Struct : IsFiniteSet(Struct \ S) /\ left[S] = Cardinality(Struct \ S)
    BY <1>1, FS_Difference
  <1>2. \A S \in SUBSET Struct : left[S] \in Nat
    BY <1>0, FS_CardinalityType
  <1>2b. \A S \in SUBSET Struct : \A t \in Struct : t \notin S =>
           S \cup {t} \in SUBSET Struct /\ left[S \cup {t}] = left[S] - 1
    <2> TAKE S \in SUBSET Struct
    <2> TAKE t \in Struct
    <2> HAVE t \notin S
    <2>1. S \cup {t} \in SUBSET Struct
      OBVIOUS
    <2>2. Struct \ (S \cup {t}) = (Struct \ S) \ {t} /\ t \in Struct \ S
      OBVIOUS
    <2>3. Cardinality((Struct \ S) \ {t}) = Cardinality(Struct \ S) - 1
      BY <1>0, <2>2, FS_RemoveElement
    <2>4. left[S \cup {t}] = Cardinality(Struct \ (S \cup {t})) /\ left[S] = Cardinality(Struct \ S)
      BY <2>1
    <2> QED BY <2>1, <2>2, <2>3, <2>4
  <1>2c. c \in Nat /\ \A S \in SUBSET Struct : left[S] <= c
    <2>1. \A S \in SUBSET Struct : Struct \ S \subseteq Struct
      OBVIOUS
    <2>2. \A S \in SUBSET Struct : Cardinality(Struct \ S) <= c
      BY <1>1, <2>1, FS_Subset
    <2>3. c \in Nat
      BY <1>1, FS_CardinalityType
    <2> QED BY <1>0, <2>2, <2>3
  <1> HIDE DEF left, c
  <1>3. Bad = {}
    <2> SUFFICES ASSUME Bad # {} PROVE FALSE
      OBVIOUS
    <2>1. PICK n \in Bad : \A k \in Bad : n <= k
      <3>1. Bad \subseteq Nat
        OBVIOUS
      <3> HIDE DEF Bad
      <3> QED BY <3>1, LeastOf
    <2>2. n \in Nat /\ ~\E sp : Spelled(def, sp, D(n))
      BY <2>1
    <2>3. n # 0
      <3>1. SUFFICES ASSUME n = 0 PROVE FALSE
        OBVIOUS
      <3>2. D(0) = {}
        BY <1>2
      <3> DEFINE none == [S \in {} |-> [t \in Struct |-> 0]]
      <3>3. Spelled(def, none, {})
        BY DEF Spelled
      <3> HIDE DEF none, D
      <3> QED BY <2>2, <3>1, <3>2, <3>3
    <2>4. n - 1 \in Nat /\ ~(n <= n - 1)
      BY <2>2, <2>3
    <2>5. PICK sp : Spelled(def, sp, D(n - 1))
      <3>1. n - 1 \notin Bad
        BY <2>1, <2>4
      <3> QED BY <2>4, <3>1
    <2> DEFINE new == [S \in D(n) |-> [t \in Struct |-> Spelling(S, def, sp, t)]]
    <2>6. \A S \in D(n - 1) : S \in D(n)
      <3> TAKE S \in D(n - 1)
      <3>1. S \in SUBSET Struct /\ left[S] < n - 1
        OBVIOUS
      <3>2. left[S] \in Nat
        BY <1>2, <3>1
      <3> QED BY <2>2, <3>1, <3>2
    <2>7. \A S \in D(n) : \A t \in Struct : t \notin S => S \cup {t} \in D(n - 1)
      <3> TAKE S \in D(n)
      <3> TAKE t \in Struct
      <3> HAVE t \notin S
      <3>1. S \in SUBSET Struct /\ left[S] < n
        OBVIOUS
      <3>2. S \cup {t} \in SUBSET Struct /\ left[S \cup {t}] = left[S] - 1 /\ left[S] \in Nat
        BY <1>2, <1>2b, <3>1
      <3> DEFINE l == left[S]
                 k == left[S \cup {t}]
      <3>3. l < n /\ k = l - 1 /\ l \in Nat
        BY <3>1, <3>2
      <3> HIDE DEF l, k
      <3>4. k < n - 1
        BY <2>2, <3>3
      <3> QED BY <3>2, <3>4 DEF k
    <2>8. \A S \in D(n - 1) : new[S] = sp[S]
      <3> TAKE S \in D(n - 1)
      <3>1. sp[S] = [t \in Struct |-> Spelling(S, def, sp, t)]
        BY <2>5 DEF Spelled
      <3>2. new[S] = [t \in Struct |-> Spelling(S, def, sp, t)]
        BY <2>6
      <3> QED BY <3>1, <3>2
    <2>9. \A S \in D(n) : \A t \in Struct : Spelling(S, def, sp, t) = Spelling(S, def, new, t)
      <3> TAKE S \in D(n)
      <3> TAKE t \in Struct
      <3>1. CASE t \in S
        BY <3>1 DEF Spelling
      <3>2. CASE t \notin S
        <4>1. new[S \cup {t}] = sp[S \cup {t}]
          BY <2>7, <2>8, <3>2
        <4> HIDE DEF new
        <4> QED BY <3>2, <4>1 DEF Spelling
      <3> QED BY <3>1, <3>2
    <2>10. new = [S \in D(n) |-> [t \in Struct |-> Spelling(S, def, new, t)]]
      <3>1. \A S \in D(n) : [t \in Struct |-> Spelling(S, def, sp, t)]
                              = [t \in Struct |-> Spelling(S, def, new, t)]
        BY <2>9
      <3> DEFINE other == [S \in D(n) |-> [t \in Struct |-> Spelling(S, def, new, t)]]
      <3>2. \A S \in D(n) : new[S] = other[S]
        BY <3>1
      <3>3. DOMAIN new = D(n) /\ DOMAIN other = D(n)
        OBVIOUS
      <3>4. new = [S \in D(n) |-> new[S]] /\ other = [S \in D(n) |-> other[S]]
        OBVIOUS
      <3> HIDE DEF new, other, D
      <3>5. new = other
        BY <3>2, <3>4
      <3> QED BY <3>5 DEF other
    <2>11. Spelled(def, new, D(n))
      BY <2>10 DEF Spelled
    <2> QED BY <2>2, <2>11
  <1>4. c + 1 \in Nat
    BY <1>2c
  <1>5. D(c + 1) = SUBSET Struct
    <2>1. \A S \in SUBSET Struct : left[S] < c + 1
      BY <1>2, <1>2c
    <2> QED BY <2>1
  <1>6. \E sp : Spelled(def, sp, D(c + 1))
    <2>1. c + 1 \notin Bad
      BY <1>3
    <2> QED BY <1>4, <2>1
  <1> QED BY <1>5, <1>6

LEMMA SpelledAt ==
  ASSUME NEW def, NEW sp, NEW D, Spelled(def, sp, D), NEW S \in D, NEW t \in Struct
  PROVE  sp[S][t] = Spelling(S, def, sp, t)
  <1> DEFINE by == [u \in Struct |-> Spelling(S, def, sp, u)]
  <1>1. sp[S] = by
    BY DEF Spelled
  <1>2. by[t] = Spelling(S, def, sp, t)
    OBVIOUS
  <1> QED BY <1>1, <1>2

LEMMA SpeltIs ==
  ASSUME NEW def
  PROVE  \E sp : Spelled(def, sp, SUBSET Struct) /\ struct_sym(def) = sp[{}]
  <1> DEFINE sp == CHOOSE sp : Spelled(def, sp, SUBSET Struct)
  <1>1. Spelled(def, sp, SUBSET Struct)
    BY CanSpell
  <1>2. struct_sym(def) = sp[{}]
    BY DEF struct_sym, Spelled, Spelling
  <1> QED BY <1>1, <1>2

\* What a struct is spelled like tells its fields.
Telling(A, B, sa, sb, S, t) ==
  /\ A[t] = B[t]
  /\ \A i \in DOMAIN A[t] : A[t][i].of \in Struct =>
       sa[S \cup {t}][A[t][i].of] = sb[S \cup {t}][A[t][i].of]

LEMMA SpellingTells ==
  ASSUME NEW A, NEW B, NEW t \in Struct, A[t] \in Seq(Field), B[t] \in Seq(Field),
         NEW S \in SUBSET Struct, t \notin S, NEW sa, NEW sb,
         Spelled(A, sa, SUBSET Struct), Spelled(B, sb, SUBSET Struct),
         sa[S][t] = sb[S][t]
  PROVE  Telling(A, B, sa, sb, S, t)
  <1> DEFINE fa == [i \in DOMAIN A[t] |->
                      <<A[t][i].name,
                        IF A[t][i].of \in Struct THEN sa[S \cup {t}][A[t][i].of]
                        ELSE <<A[t][i].of>> >>]
             fb == [i \in DOMAIN B[t] |->
                      <<B[t][i].name,
                        IF B[t][i].of \in Struct THEN sb[S \cup {t}][B[t][i].of]
                        ELSE <<B[t][i].of>> >>]
  <1>1. sa[S][t] = <<t, fa>> /\ sb[S][t] = <<t, fb>>
    <2>1. sa[S][t] = Spelling(S, A, sa, t) /\ sb[S][t] = Spelling(S, B, sb, t)
      BY SpelledAt
    <2> QED BY <2>1 DEF Spelling
  <1>2. fa = fb
    <2> HIDE DEF fa, fb
    <2>1. <<t, fa>> = <<t, fb>>
      BY <1>1
    <2> QED BY <2>1
  <1>3. DOMAIN A[t] = DOMAIN B[t]
    <2>1. DOMAIN fa = DOMAIN A[t] /\ DOMAIN fb = DOMAIN B[t]
      OBVIOUS
    <2> HIDE DEF fa, fb
    <2> QED BY <1>2, <2>1
  <1>4. S \cup {t} \in SUBSET Struct
    OBVIOUS
  \* Whatever it is of, a field's spelling begins with the name of its type.
  <1>5. ASSUME NEW u \in Struct
        PROVE  sa[S \cup {t}][u][1] = u /\ sb[S \cup {t}][u][1] = u
    <2>1. /\ sa[S \cup {t}][u] = Spelling(S \cup {t}, A, sa, u)
          /\ sb[S \cup {t}][u] = Spelling(S \cup {t}, B, sb, u)
      <3> DEFINE X == S \cup {t}
      <3>1. X \in SUBSET Struct
        BY <1>4
      <3> HIDE DEF X
      <3>2. sa[X][u] = Spelling(X, A, sa, u) /\ sb[X][u] = Spelling(X, B, sb, u)
        BY <3>1, SpelledAt
      <3> QED BY <3>2 DEF X
    <2>2. \A x : <<u>>[1] = u /\ <<u, x>>[1] = u
      OBVIOUS
    <2>3. /\ Spelling(S \cup {t}, A, sa, u)[1] = u
          /\ Spelling(S \cup {t}, B, sb, u)[1] = u
      <3>1. CASE u \in S \cup {t}
        BY <2>2, <3>1 DEF Spelling
      <3>2. CASE u \notin S \cup {t}
        BY <2>2, <3>2 DEF Spelling
      <3> QED BY <3>1, <3>2
    <2> QED BY <2>1, <2>3
  <1>6. ASSUME NEW i \in DOMAIN A[t]
        PROVE  /\ A[t][i].name = B[t][i].name /\ A[t][i].of = B[t][i].of
               /\ A[t][i].of \in Struct =>
                    sa[S \cup {t}][A[t][i].of] = sb[S \cup {t}][A[t][i].of]
    <2> DEFINE a == A[t][i].of
               b == B[t][i].of
               na == A[t][i].name
               nb == B[t][i].name
               xa == sa[S \cup {t}]
               xb == sb[S \cup {t}]
               ya == IF a \in Struct THEN xa[a] ELSE <<a>>
               yb == IF b \in Struct THEN xb[b] ELSE <<b>>
    <2>1. fa[i] = <<na, ya>>
      OBVIOUS
    <2>2. fb[i] = <<nb, yb>>
      BY <1>3
    <2>3. \A u \in Struct : xa[u][1] = u /\ xb[u][1] = u
      BY <1>5
    <2> HIDE DEF fa, fb, a, b, na, nb, xa, xb
    <2>4. na = nb /\ ya = yb
      <3> HIDE DEF ya, yb
      <3>1. <<na, ya>> = <<nb, yb>>
        BY <1>2, <2>1, <2>2
      <3> QED BY <3>1
    <2>5. ya[1] = a /\ yb[1] = b
      <3>1. \A x : <<x>>[1] = x
        OBVIOUS
      <3> QED BY <2>3, <3>1
    <2>6. a = b
      <3> HIDE DEF ya, yb
      <3> QED BY <2>4, <2>5
    <2>7. a \in Struct => xa[a] = xb[a]
      BY <2>4, <2>6
    <2> QED BY <2>4, <2>6, <2>7 DEF a, b, na, nb, xa, xb
  <1> DEFINE x == A[t]
             y == B[t]
  <1>7. x \in Seq(Field) /\ y \in Seq(Field) /\ DOMAIN x = DOMAIN y
        /\ \A i \in DOMAIN x : x[i].name = y[i].name /\ x[i].of = y[i].of
    BY <1>3, <1>6
  <1> HIDE DEF x, y
  <1>8. x = y
    <2>1. Len(x) = Len(y) /\ DOMAIN x = 1 .. Len(x)
      BY <1>7
    <2>2. \A c, d \in Field : c.name = d.name /\ c.of = d.of => c = d
      BY DEF Field
    <2>3. \A i \in 1 .. Len(x) : x[i] \in Field /\ y[i] \in Field
      BY <1>7, <2>1
    <2>4. \A i \in 1 .. Len(x) : x[i] = y[i]
      BY <1>7, <2>1, <2>2, <2>3
    <2> QED BY <1>7, <2>1, <2>4, AllAlike
  <1> QED BY <1>6, <1>8 DEF x, y, Telling

\* So it tells what it is made of, and every definition of that.
LEMMA SameShapes ==
  ASSUME NEW A, NEW B, \A u \in Struct : A[u] \in Seq(Field) /\ B[u] \in Seq(Field),
         NEW t \in Struct, struct_sym(A)[t] = struct_sym(B)[t]
  PROVE  MadeOf(A, t) = MadeOf(B, t) /\ \A u \in MadeOf(A, t) : A[u] = B[u]
  <1>1. PICK sa : Spelled(A, sa, SUBSET Struct) /\ struct_sym(A) = sa[{}]
    BY SpeltIs
  <1>2. PICK sb : Spelled(B, sb, SUBSET Struct) /\ struct_sym(B) = sb[{}]
    BY SpeltIs
  <1> DEFINE Met(X) == \A u \in X : \E S \in SUBSET Struct :
                         S \subseteq X /\ u \notin S /\ sa[S][u] = sb[S][u]
             E == {u \in Struct : \E X \in SUBSET Struct : u \in X /\ Met(X)}
             Of(def, u) == {def[u][i].of : i \in DOMAIN def[u]} \cap Struct
  <1>3. t \in E
    <2>1. Met({t}) /\ {t} \in SUBSET Struct /\ t \in {t}
      BY <1>1, <1>2
    <2> HIDE DEF Met
    <2> QED BY <2>1
  <1>4. ASSUME NEW u \in E
        PROVE  A[u] = B[u] /\ Of(A, u) \subseteq E
    <2>1. PICK X \in SUBSET Struct : u \in X /\ Met(X)
      BY <1>4
    <2>2. PICK S \in SUBSET Struct : S \subseteq X /\ u \notin S /\ sa[S][u] = sb[S][u]
      BY <2>1
    <2>3. u \in Struct /\ A[u] \in Seq(Field) /\ B[u] \in Seq(Field)
      OBVIOUS
    <2>4. /\ A[u] = B[u]
          /\ \A i \in DOMAIN A[u] : A[u][i].of \in Struct =>
               sa[S \cup {u}][A[u][i].of] = sb[S \cup {u}][A[u][i].of]
      <3> HIDE DEF E, Met
      <3>1. Spelled(A, sa, SUBSET Struct) /\ Spelled(B, sb, SUBSET Struct)
        BY <1>1, <1>2
      <3>2. u \in Struct
        BY <2>3
      <3>3. A[u] \in Seq(Field)
        BY <2>3
      <3>4. B[u] \in Seq(Field)
        BY <2>3
      <3>5. S \in SUBSET Struct /\ u \notin S /\ sa[S][u] = sb[S][u]
        BY <2>2
      <3>6. Telling(A, B, sa, sb, S, u)
        BY <3>1, <3>2, <3>3, <3>4, <3>5, SpellingTells
      <3> QED BY <3>6 DEF Telling
    <2>5. ASSUME NEW v \in Of(A, u)
          PROVE  v \in E
      <3>1. v \in Struct /\ sa[S \cup {u}][v] = sb[S \cup {u}][v]
        BY <2>4
      <3>2. CASE v \in S \cup {u}
        <4>1. v \in X
          BY <2>1, <2>2, <3>2
        <4> HIDE DEF Met
        <4> QED BY <2>1, <3>1, <4>1
      <3>3. CASE v \notin S \cup {u}
        <4> DEFINE Y == X \cup {v}
        <4>1. Y \in SUBSET Struct /\ v \in Y /\ S \cup {u} \in SUBSET Struct /\ S \cup {u} \subseteq Y
          BY <2>1, <2>2, <3>1
        <4>2. \A w \in X : \E P \in SUBSET Struct :
                 P \subseteq Y /\ w \notin P /\ sa[P][w] = sb[P][w]
          <5> TAKE w \in X
          <5>1. PICK P \in SUBSET Struct : P \subseteq X /\ w \notin P /\ sa[P][w] = sb[P][w]
            BY <2>1
          <5>2. P \subseteq Y
            BY <5>1
          <5> HIDE DEF Y
          <5> QED BY <5>1, <5>2
        <4>3. \E P \in SUBSET Struct : P \subseteq Y /\ v \notin P /\ sa[P][v] = sb[P][v]
          <5> HIDE DEF Y
          <5> QED BY <3>1, <3>3, <4>1
        <4>4. Met(Y)
          <5> SUFFICES ASSUME NEW w \in Y
                       PROVE  \E P \in SUBSET Struct :
                                P \subseteq Y /\ w \notin P /\ sa[P][w] = sb[P][w]
            OBVIOUS
          <5>1. w \in X \/ w = v
            OBVIOUS
          <5> HIDE DEF Y
          <5> QED BY <4>2, <4>3, <5>1
        <4> HIDE DEF Met, Y
        <4> QED BY <3>1, <4>1, <4>4
      <3> QED BY <3>2, <3>3
    <2> HIDE DEF E, Of
    <2> QED BY <2>4, <2>5
  <1> HIDE DEF E, Met
  <1>5. E \subseteq Struct
    BY DEF E
  <1>6. ASSUME NEW u \in E
        PROVE  Of(A, u) = Of(B, u)
    BY <1>4
  <1> DEFINE Least(def) == {u \in Struct : \A S \in SUBSET Struct :
                              t \in S /\ (\A s \in S : Of(def, s) \subseteq S) => u \in S}
  <1>7. MadeOf(A, t) = Least(A) /\ MadeOf(B, t) = Least(B)
    BY DEF MadeOf
  <1> HIDE DEF Of
  <1>8. Least(A) \subseteq E /\ Least(B) \subseteq E
    <2>1. E \in SUBSET Struct /\ t \in E
      BY <1>3, <1>5
    <2>2. \A s \in E : Of(A, s) \subseteq E /\ Of(B, s) \subseteq E
      BY <1>4, <1>6
    <2> QED BY <2>1, <2>2
  <1>9. ASSUME NEW u \in Least(A)
        PROVE  u \in Least(B)
    <2>1. SUFFICES ASSUME NEW S \in SUBSET Struct, t \in S, \A s \in S : Of(B, s) \subseteq S
                   PROVE  u \in S
      BY <1>9
    <2>2. t \in S \cap E /\ S \cap E \in SUBSET Struct
      BY <1>3, <2>1
    <2>3. \A s \in S \cap E : Of(A, s) \subseteq S \cap E
      BY <1>4, <1>6, <2>1
    <2>4. u \in S \cap E
      BY <1>9, <2>2, <2>3
    <2> QED BY <2>4
  <1>10. ASSUME NEW u \in Least(B)
         PROVE  u \in Least(A)
    <2>1. SUFFICES ASSUME NEW S \in SUBSET Struct, t \in S, \A s \in S : Of(A, s) \subseteq S
                   PROVE  u \in S
      BY <1>10
    <2>2. t \in S \cap E /\ S \cap E \in SUBSET Struct
      BY <1>3, <2>1
    <2>3. \A s \in S \cap E : Of(B, s) \subseteq S \cap E
      BY <1>4, <1>6, <2>1
    <2>4. u \in S \cap E
      BY <1>10, <2>2, <2>3
    <2> QED BY <2>4
  <1> HIDE DEF Least
  <1>11. Least(A) = Least(B)
    BY <1>9, <1>10
  <1> QED BY <1>4, <1>7, <1>8, <1>11
\* What is no struct is made of none.
LEMMA MadeOfNone ==
  ASSUME NEW def, NEW t, t \notin Struct
  PROVE  MadeOf(def, t) = {}
  <1>1. ASSUME NEW u \in MadeOf(def, t)
        PROVE  FALSE
    <2>1. \A S \in SUBSET Struct :
            /\ t \in Struct => t \in S
            /\ \A s \in S : {def[s][i].of : i \in DOMAIN def[s]} \cap Struct \subseteq S
            => u \in S
      BY DEF MadeOf
    <2>2. {} \in SUBSET Struct /\ u \notin {} /\ (t \in Struct => t \in {})
      OBVIOUS
    <2>3. \A s \in {} : {def[s][i].of : i \in DOMAIN def[s]} \cap Struct \subseteq {}
      OBVIOUS
    <2> QED BY <2>1, <2>2, <2>3
  <1> QED BY <1>1

\* Two definitions of the types that give every function the symbol it has agree on
\* every struct that is handed from one to another.
LEMMA SameHanded ==
  ASSUME NEW d \in DOMAIN Types, NEW e \in DOMAIN Types, syms[d] = syms[e]
  PROVE  Handed[d] = Handed[e] /\ \A t \in Handed[d] : Types[d][t] = Types[e][t]
  <1> DEFINE A == Types[d]
             B == Types[e]
  <1>1. \A u \in Struct : A[u] \in Seq(Field) /\ B[u] \in Seq(Field)
    BY DataAssumption
  <1>2. syms[d] = {fn_symbol(A, f) : f \in Fn} /\ syms[e] = {fn_symbol(B, f) : f \in Fn}
    BY DEF syms
  <1>3. ASSUME NEW f \in Fn, NEW i \in DOMAIN Takes[f]
        PROVE  sym_type(A, Takes[f][i]) = sym_type(B, Takes[f][i])
    <2> HIDE DEF A, B
    <2> DEFINE a(g) == [k \in DOMAIN Takes[g] |-> sym_type(A, Takes[g][k])]
               b(g) == [k \in DOMAIN Takes[g] |-> sym_type(B, Takes[g][k])]
    <2>1. \A g \in Fn : fn_symbol(A, g) = <<g, a(g)>> /\ fn_symbol(B, g) = <<g, b(g)>>
      BY DEF fn_symbol
    <2> HIDE DEF a, b
    <2>2. PICK g \in Fn : <<f, a(f)>> = <<g, b(g)>>
      <3>1. fn_symbol(A, f) \in {fn_symbol(B, g) : g \in Fn}
        BY <1>2
      <3>2. \E g \in Fn : fn_symbol(A, f) = fn_symbol(B, g)
        BY <3>1
      <3> QED BY <2>1, <3>2
    <2>3. f = g /\ a(f) = b(g)
      BY <2>2
    <2>4. a(f)[i] = sym_type(A, Takes[f][i]) /\ b(f)[i] = sym_type(B, Takes[f][i])
      BY DEF a, b
    <2> QED BY <2>3, <2>4
  <1>4. ASSUME NEW f \in Fn, NEW i \in DOMAIN Takes[f]
        PROVE  /\ MadeOf(A, Takes[f][i]) = MadeOf(B, Takes[f][i])
               /\ \A u \in MadeOf(A, Takes[f][i]) : A[u] = B[u]
    <2> DEFINE t == Takes[f][i]
    <2>0. sym_type(A, t) = sym_type(B, t)
      BY <1>3
    <2> HIDE DEF A, B, t
    <2>1. CASE t \in Struct
      <3>1. struct_sym(A)[t] = struct_sym(B)[t]
        BY <2>0, <2>1 DEF sym_type
      <3>2. MadeOf(A, t) = MadeOf(B, t) /\ \A u \in MadeOf(A, t) : A[u] = B[u]
        BY <1>1, <2>1, <3>1, SameShapes
      <3> QED BY <3>2 DEF t
    <2>2. CASE t \notin Struct
      <3>1. MadeOf(A, t) = {} /\ MadeOf(B, t) = {}
        BY <2>2, MadeOfNone
      <3> QED BY <3>1 DEF t
    <2> QED BY <2>1, <2>2
  <1>5. /\ Handed[d] = UNION {UNION {MadeOf(A, Takes[f][i]) : i \in DOMAIN Takes[f]} : f \in Fn}
        /\ Handed[e] = UNION {UNION {MadeOf(B, Takes[f][i]) : i \in DOMAIN Takes[f]} : f \in Fn}
    BY DEF Handed
  <1> HIDE DEF A, B
  <1>6. /\ \A t : t \in Handed[d] <=>
             \E f \in Fn : \E i \in DOMAIN Takes[f] : t \in MadeOf(A, Takes[f][i])
        /\ \A t : t \in Handed[e] <=>
             \E f \in Fn : \E i \in DOMAIN Takes[f] : t \in MadeOf(B, Takes[f][i])
    BY <1>5
  <1>7. \A t : t \in Handed[d] <=> t \in Handed[e]
    BY <1>4, <1>6
  <1>8. \A t \in Handed[d] : A[t] = B[t]
    BY <1>4, <1>6
  <1> QED BY <1>7, <1>8 DEF A, B

LEMMA StructsStep ==
  ASSUME Follows, StructsFollow, [Next]_vars
  PROVE  StructsFollow'
  <1>1. CASE UNCHANGED vars
    BY <1>1 DEF vars, StructsFollow, Built
  <1>2. CASE Next
    <2>1. PICK p \in Programs : src' = p /\ (bin' = codegen(p, Fn, NoFile) \/ Laid(p))
      BY <1>2, Built2
    <2>2. ASSUME NEW f \in Fn, NEW t \in DOMAIN bin'.code[f].types, t \in Handed[p.types]
          PROVE  bin'.code[f].types[t] = Types[p.types][t]
      <3>1. ASSUME NEW fresh, NEW prev, f \in fresh, CodeOf(p, fresh, prev, bin')
            PROVE  bin'.code[f].types[t] = Types[p.types][t]
        <4>1. bin'.code[f].types = [u \in Handles[<<f, p.ver[f]>>] |-> Types[p.types][u]]
          BY <3>1 DEF CodeOf, Shapes
        <4> QED BY <2>2, <4>1
      <3>2. CASE bin' = codegen(p, Fn, NoFile)
        <4>1. CodeOf(p, Fn, NoFile, bin')
          BY <3>2, CodeIs
        <4> QED BY <3>1, <4>1
      <3>3. CASE Laid(p)
        <4> DEFINE fresh == incr_regenerate(p, bin)
        <4>1. Built /\ bin' = codegen(p, fresh, bin) /\ bin'.syms = bin.syms
          BY <3>3 DEF Laid, incr_lines_up
        <4>2. CodeOf(p, fresh, bin, bin')
          BY <4>1, CodeIs
        <4>3. CASE f \in fresh
          BY <3>1, <4>2, <4>3
        <4>4. CASE f \notin fresh
          <5>1. bin'.code[f] = bin.code[f]
            BY <4>2, <4>4 DEF CodeOf
          <5>2. syms[p.types] = syms[src.types] /\ src \in Programs
            <6>1. bin.syms = syms[src.types] /\ src \in Programs
              BY <4>1 DEF Follows
            <6>2. bin'.syms = syms[p.types]
              BY <4>2 DEF CodeOf
            <6> QED BY <4>1, <6>1, <6>2
          <5>3. p.types \in DOMAIN Types /\ src.types \in DOMAIN Types
            BY <5>2, DataAssumption
          <5>4. Handed[p.types] = Handed[src.types] /\ Types[p.types][t] = Types[src.types][t]
            BY <2>2, <5>2, <5>3, SameHanded
          <5>5. bin.code[f].types[t] = Types[src.types][t]
            BY <2>2, <4>1, <5>1, <5>4 DEF StructsFollow
          <5> QED BY <5>1, <5>4, <5>5
        <4> QED BY <4>3, <4>4
      <3> QED BY <2>1, <3>2, <3>3
    <2>3. \A f \in Fn : \A t \in DOMAIN bin'.code[f].types \cap Handed[src'.types] :
            bin'.code[f].types[t] = Types[src'.types][t]
      BY <2>1, <2>2
    <2>4. StructsFollow' = (Built' => \A f \in Fn :
            \A t \in DOMAIN bin'.code[f].types \cap Handed[src'.types] :
              bin'.code[f].types[t] = Types[src'.types][t])
      BY DEF StructsFollow
    <2> QED BY <2>3, <2>4
  <1> QED BY <1>1, <1>2

\* Whatever structs are, however deep one is within another and even if it is within
\* itself, what is handed from one function to another has, in the code of every
\* function and however many builds ago it was written, the shape the source gives it
\* now: its hash is in a symbol, and a build that changes the symbols is not laid over
\* the file (struct_sym, incr_lines_up).
THEOREM StructsFollowTheSource == Spec => []StructsFollow
  <1> DEFINE I == Follows /\ StructsFollow
  <1>1. Init => I
    BY DEF Init, Follows, StructsFollow, Built
  <1>2. I /\ [Next]_vars => I'
    BY FollowsStep, StructsStep
  <1> QED BY <1>1, <1>2, PTL DEF Spec
=============================================================================
