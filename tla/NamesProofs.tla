----------------------------- MODULE NamesProofs -----------------------------
(***************************************************************************)
(* The table of names, for every set of names, every hash and every size:  *)
(* it answers as NameTable says, and a walk always has a slot to stop at.  *)
(***************************************************************************)
EXTENDS Names, FiniteSetTheorems, TLAPS

-----------------------------------------------------------------------------
\* Walks.

LEMMA HomeInTable ==
  \A x \in Name, n \in Nat \ {0} : home(x, n) \in 0 .. n - 1
  BY TableAssumption DEF home

LEMMA NextInTable ==
  ASSUME NEW n \in Nat \ {0}, NEW p \in 0 .. n - 1
  PROVE  next(p, n) \in 0 .. n - 1
  BY DEF next

\* A walk that has just begun has passed nothing.
LEMMA BetweenEmpty ==
  ASSUME NEW n \in Nat \ {0}, NEW h \in 0 .. n - 1
  PROVE  Between(h, h, n) = {}
  BY DEF Between

\* A walk that goes on has passed what it had, and where it was.
LEMMA BetweenNext ==
  ASSUME NEW n \in Nat \ {0}, NEW h \in 0 .. n - 1, NEW p \in 0 .. n - 1,
         NEW q \in Between(h, next(p, n), n)
  PROVE  q \in Between(h, p, n) \/ q = p
  BY DEF Between, next

\* Of two slots a walk comes to one before the other.
LEMMA BetweenEither ==
  ASSUME NEW n \in Nat \ {0}, NEW h \in 0 .. n - 1,
         NEW p \in 0 .. n - 1, NEW q \in 0 .. n - 1, p # q
  PROVE  p \in Between(h, q, n) \/ q \in Between(h, p, n)
  BY DEF Between

LEMMA BetweenInTable ==
  ASSUME NEW n \in Nat \ {0}, NEW h, NEW p
  PROVE  Between(h, p, n) \subseteq 0 .. n - 1
  BY DEF Between

LEMMA EvenIsTwice ==
  ASSUME NEW n \in Nat, n % 2 = 0
  PROVE  \E w \in Nat : n = 2 * w
<1>1. n \div 2 \in Nat /\ n = 2 * (n \div 2) + (n % 2)  OBVIOUS
<1> QED  BY <1>1

-----------------------------------------------------------------------------
\* A walk that stops at an empty slot was for a name that is not held; one that
\* stops at a name was for that one.

LEMMA MissedIsAbsent ==
  ASSUME TableInv, pc = "probe", slot[at] = 0
  PROVE  s \notin Held
<1> USE DEF TableInv, TypeOK
<1> DEFINE h == home(s, size)
<1>1. h \in 0 .. size - 1  BY HomeInTable
<1> SUFFICES ASSUME s \in Held PROVE FALSE  OBVIOUS
<1>2. PICK k \in DOMAIN name : name[k] = s  BY DEF Held
<1>3. k \in 1 .. Placed  BY <1>2 DEF Placed
<1>4. PICK p \in DOMAIN slot :
        slot[p] = k /\ \A q \in Between(h, p, size) : slot[q] # 0
  BY <1>2, <1>3 DEF Findable
<1>5. p # at /\ p \in 0 .. size - 1  BY <1>3, <1>4
<1>6. \A q \in Between(h, at, size) : name[slot[q]] # s  BY DEF Walked
<1>7. CASE p \in Between(h, at, size)  BY <1>2, <1>4, <1>6, <1>7
<1>8. CASE at \in Between(h, p, size)  BY <1>4, <1>8
<1> QED  BY <1>1, <1>5, <1>7, <1>8, BetweenEither

LEMMA HitIsHeld ==
  ASSUME TableInv, pc = "probe", slot[at] # 0, name[slot[at]] = s
  PROVE  /\ s \in Held
         /\ slot[at] \in DOMAIN name
         /\ (CHOOSE k \in DOMAIN name : name[k] = s) = slot[at]
<1>1. slot[at] \in DOMAIN name  BY DEF TableInv, TypeOK
<1>2. \A k \in DOMAIN name : name[k] = s => k = slot[at]
  BY <1>1 DEF TableInv, Distinct
<1> QED  BY <1>1, <1>2 DEF Held

-----------------------------------------------------------------------------
\* The invariant.

LEMMA InitInv == Init => TableInv
<1> SUFFICES ASSUME Init PROVE TableInv  OBVIOUS
<1> USE DEF Init, names_new
<1>1. TypeOK  BY TableAssumption DEF TypeOK, None
<1>2. Findable /\ Single /\ Distinct  BY DEF Findable, Single, Distinct, Placed
<1>3. Walked /\ HalfFree  BY TableAssumption DEF Walked, HalfFree
<1> QED  BY <1>1, <1>2, <1>3 DEF TableInv

LEMMA FindInv ==
  ASSUME TableInv, NEW x \in Name, Find(x)
  PROVE  TableInv'
<1> USE DEF TableInv, Find, Walk
<1>1. TypeOK'  BY HomeInTable DEF TypeOK
<1>2. Placed' = Placed  BY DEF Placed
<1>3. Findable' /\ Single' /\ Distinct'
  BY <1>2 DEF Findable, Single, Distinct, home
<1>4. Walked'
  <2>1. Between(home(x, size), home(x, size), size) = {}
    BY HomeInTable, BetweenEmpty DEF TypeOK
  <2> QED  BY <2>1 DEF Walked
<1>5. HalfFree'  BY DEF HalfFree
<1> QED  BY <1>1, <1>3, <1>4, <1>5

LEMMA AddInv ==
  ASSUME TableInv, NEW x \in Name, Add(x)
  PROVE  TableInv'
<1>1. PICK answer \in Answer \cup {Len(name)} : add_at(x, answer)  BY DEF Add
<1>2. answer \in Nat  BY TableAssumption DEF TableInv, TypeOK
<1> USE DEF TableInv
<1>3. CASE 2 * Len(name) >= size
  <2> USE <1>1, <1>3 DEF add_at
  <2>1. size' \in Nat \ {0} /\ size' = 2 * size  BY DEF TypeOK
  <2>2. at' \in 0 .. size' - 1
    <3>1. name # <<>> => name[1] \in Name  BY DEF TypeOK
    <3> QED  BY <2>1, <3>1, HomeInTable
  <2>3. TypeOK'  BY <1>2, <2>1, <2>2 DEF TypeOK
  <2>4. Placed' = 0  BY DEF Placed
  <2>5. Findable' /\ Single' /\ Distinct'
    BY <2>1, <2>4 DEF Findable, Single, Distinct
  <2>6. Walked'
    <3>1. SUFFICES ASSUME 1 <= Len(name)
                   PROVE  Between(home(name[1], size'), at', size') = {}
      BY DEF Walked
    <3>2. name # <<>> /\ name[1] \in Name  BY <3>1 DEF TypeOK
    <3> QED  BY <2>1, <3>2, HomeInTable, BetweenEmpty
  <2>7. HalfFree'  BY <2>1 DEF HalfFree, TypeOK
  <2> QED  BY <2>3, <2>5, <2>6, <2>7
<1>4. CASE ~(2 * Len(name) >= size)
  <2> USE <1>1, <1>4 DEF add_at, Walk
  <2>1. TypeOK'  BY <1>2, HomeInTable DEF TypeOK
  <2>2. Placed' = Placed  BY DEF Placed
  <2>3. Findable' /\ Single' /\ Distinct'
    BY <2>2 DEF Findable, Single, Distinct, home
  <2>4. Walked'
    <3>1. Between(home(x, size), home(x, size), size) = {}
      BY HomeInTable, BetweenEmpty DEF TypeOK
    <3> QED  BY <3>1 DEF Walked
  <2>5. HalfFree'  BY DEF HalfFree, TypeOK
  <2> QED  BY <2>1, <2>3, <2>4, <2>5
<1> QED  BY <1>3, <1>4

LEMMA StepInv ==
  ASSUME TableInv, Step
  PROVE  TableInv'
<1> USE DEF TableInv, Step
<1>1. TypeOK'  BY NextInTable DEF TypeOK
<1>2. Placed' = Placed  BY DEF Placed
<1>3. Findable' /\ Single' /\ Distinct'
  BY <1>2 DEF Findable, Single, Distinct, home
<1>4. Walked'
  <2>1. CASE pc = "probe"
    <3>1. home(s, size) \in 0 .. size - 1  BY HomeInTable DEF TypeOK
    <3>2. \A q \in Between(home(s, size), at', size) :
            q \in Between(home(s, size), at, size) \/ q = at
      BY <3>1, BetweenNext DEF TypeOK
    <3> QED  BY <2>1, <3>2 DEF Walked
  <2>2. CASE pc = "grow"
    <3>1. i \in 1 .. Len(name)  BY <2>2 DEF HalfFree, TypeOK
    <3>2. home(name[i], size) \in 0 .. size - 1
      <4>1. name[i] \in Name /\ size \in Nat \ {0}  BY <3>1 DEF TypeOK
      <4> QED  BY <4>1, HomeInTable
    <3>3. \A q \in Between(home(name[i], size), at', size) :
            q \in Between(home(name[i], size), at, size) \/ q = at
      BY <3>2, BetweenNext DEF TypeOK
    <3> QED  BY <2>2, <3>3 DEF Walked
  <2> QED  BY <2>1, <2>2
<1>5. HalfFree'  BY DEF HalfFree
<1> QED  BY <1>1, <1>3, <1>4, <1>5

LEMMA PlaceInv ==
  ASSUME TableInv, Place
  PROVE  TableInv'
<1> USE DEF TableInv, Place
<1>1. i \in 1 .. Len(name) /\ at \in DOMAIN slot  BY DEF HalfFree, TypeOK
<1>2. TypeOK'
  <2>1. at' \in 0 .. size - 1
    <3>1. size \in Nat \ {0} /\ at \in 0 .. size - 1  BY DEF TypeOK
    <3>2. CASE i = Len(name)  BY <3>1, <3>2
    <3>3. CASE i # Len(name)
      <4>1. name[i + 1] \in Name  BY <1>1, <3>3 DEF TypeOK
      <4> QED  BY <3>1, <3>3, <4>1, HomeInTable
    <3> QED  BY <3>2, <3>3
  <2> QED  BY <1>1, <2>1 DEF TypeOK
<1>3. Placed = i - 1 /\ Placed' = i  BY <1>1 DEF Placed
<1>4. DOMAIN slot' = DOMAIN slot /\ slot'[at] = i
      /\ \A q \in DOMAIN slot : q # at => slot'[q] = slot[q]
  BY <1>1 DEF TypeOK
<1>5. Findable'
  <2> SUFFICES ASSUME NEW k \in 1 .. i
               PROVE  \E p \in DOMAIN slot :
                        /\ slot'[p] = k
                        /\ \A q \in Between(home(name[k], size), p, size) : slot'[q] # 0
    BY <1>3, <1>4 DEF Findable, home
  <2>1. \A q \in DOMAIN slot : slot[q] # 0 => slot'[q] # 0  BY <1>1, <1>4
  <2>2. CASE k = i
    <3>1. \A q \in Between(home(name[i], size), at, size) :
            q \in DOMAIN slot /\ slot[q] # 0
      BY <1>1, BetweenInTable DEF Walked, TypeOK
    <3> QED  BY <1>1, <1>4, <2>1, <2>2, <3>1
  <2>3. CASE k # i
    <3>1. PICK p \in DOMAIN slot :
            /\ slot[p] = k
            /\ \A q \in Between(home(name[k], size), p, size) : slot[q] # 0
      <4>1. k \in 1 .. Placed  BY <1>1, <1>3, <2>3
      <4> QED  BY <4>1 DEF Findable
    <3>2. slot'[p] = k  BY <1>4, <3>1
    <3>3. Between(home(name[k], size), p, size) \subseteq DOMAIN slot
      BY BetweenInTable DEF TypeOK
    <3> QED  BY <2>1, <3>1, <3>2, <3>3
  <2> QED  BY <2>2, <2>3
<1>6. Single'
  <2>1. \A q \in DOMAIN slot : slot[q] \in Nat /\ slot[q] <= i - 1
    BY <1>3 DEF Single, TypeOK
  <2>2. \A q \in DOMAIN slot' : slot'[q] <= i  BY <1>1, <1>4, <2>1
  <2>3. ASSUME NEW p \in DOMAIN slot, NEW q \in DOMAIN slot,
               slot'[p] = slot'[q], slot'[p] # 0
        PROVE  p = q
    BY <1>1, <1>4, <2>1, <2>3 DEF Single
  <2> QED  BY <1>3, <1>4, <2>2, <2>3 DEF Single
<1>7. Distinct'  BY DEF Distinct
<1>8. Walked'
  <2>1. SUFFICES ASSUME i + 1 <= Len(name)
                 PROVE  Between(home(name[i + 1], size), at', size) = {}
    BY <1>1 DEF Walked, home
  <2>2. name[i + 1] \in Name /\ at' = home(name[i + 1], size)
    BY <1>1, <2>1 DEF TypeOK
  <2> QED  BY <2>2, HomeInTable, BetweenEmpty DEF TypeOK
<1>9. HalfFree'  BY <1>1 DEF HalfFree
<1> QED  BY <1>2, <1>5, <1>6, <1>7, <1>8, <1>9

LEMMA GrownInv ==
  ASSUME TableInv, Grown
  PROVE  TableInv'
<1> USE DEF TableInv, Grown, Walk
<1>1. TypeOK'  BY HomeInTable DEF TypeOK
<1>2. Placed' = Placed  BY DEF Placed, TypeOK
<1>3. Findable' /\ Single' /\ Distinct'
  BY <1>2 DEF Findable, Single, Distinct, home
<1>4. Walked'
  <2>1. Between(home(s, size), home(s, size), size) = {}
    BY HomeInTable, BetweenEmpty DEF TypeOK
  <2> QED  BY <2>1 DEF Walked
<1>5. HalfFree'  BY DEF HalfFree
<1> QED  BY <1>1, <1>3, <1>4, <1>5

LEMMA AnswersInv ==
  ASSUME TableInv, Answers
  PROVE  TableInv'
<1> USE DEF TableInv, Answers, Reached
<1>1. TypeOK'  BY DEF TypeOK
<1>2. Placed' = Placed  BY DEF Placed
<1>3. Findable' /\ Single' /\ Distinct'
  BY <1>2 DEF Findable, Single, Distinct, home
<1>4. Walked' /\ HalfFree'  BY DEF Walked, HalfFree
<1> QED  BY <1>1, <1>3, <1>4

LEMMA EntersInv ==
  ASSUME TableInv, Enters
  PROVE  TableInv'
<1> USE DEF TableInv, Enters
<1>1. CASE slot[at] # 0
  <2>1. UNCHANGED <<size, slot, name, val, s, v, at, i, op>> /\ pc' = "idle"
        /\ pc = "probe"
    BY <1>1 DEF Reached
  <2>2. TypeOK'  BY <2>1 DEF TypeOK
  <2>3. Placed' = Placed  BY <2>1 DEF Placed
  <2>4. Findable' /\ Single' /\ Distinct'
    BY <2>1, <2>3 DEF Findable, Single, Distinct, home
  <2>5. Walked' /\ HalfFree'  BY <2>1 DEF Walked, HalfFree
  <2> QED  BY <2>2, <2>4, <2>5
<1>2. CASE slot[at] = 0
  <2> DEFINE n == Len(name) + 1
  <2>1. pc = "probe" /\ pc' = "idle" /\ v \in Nat
    BY TableAssumption DEF Reached, HalfFree, TypeOK
  <2>2. name' = Append(name, s) /\ slot' = [slot EXCEPT ![at] = n]
        /\ size' = size
    BY <1>2
  <2>3. name \in Seq(Name) /\ s \in Name /\ at \in DOMAIN slot /\ n \in Nat
    BY DEF TypeOK
  <2>4. Len(name') = n /\ name'[n] = s /\ name' \in Seq(Name)
        /\ \A k \in 1 .. Len(name) : name'[k] = name[k]
    BY <2>2, <2>3
  <2>5. Placed = Len(name) /\ Placed' = n  BY <2>1, <2>4 DEF Placed
  <2>6. DOMAIN slot' = DOMAIN slot /\ slot'[at] = n
        /\ \A q \in DOMAIN slot : q # at => slot'[q] = slot[q]
    BY <2>2, <2>3 DEF TypeOK
  <2>7. TypeOK'
    <3>1. slot' \in [0 .. size' - 1 -> 0 .. Len(name')]
      BY <2>2, <2>3, <2>4 DEF TypeOK
    <3>2. val' \in Seq(Nat) /\ Len(val') = Len(name')
      <4>1. val \in Seq(Nat) /\ Len(val) = Len(name) /\ v \in Nat
        BY <2>1 DEF TypeOK
      <4>2. val' = Append(val, v)  BY <1>2
      <4> QED  BY <2>4, <4>1, <4>2
    <3> QED  BY <2>1, <2>2, <2>4, <3>1, <3>2 DEF TypeOK
  <2>8. Findable'
    <3> SUFFICES ASSUME NEW k \in 1 .. n
                 PROVE  \E p \in DOMAIN slot :
                          /\ slot'[p] = k
                          /\ \A q \in Between(home(name'[k], size), p, size) : slot'[q] # 0
      BY <2>2, <2>5, <2>6 DEF Findable, home
    <3>1. \A q \in DOMAIN slot : slot[q] # 0 => slot'[q] # 0
      BY <2>3, <2>6 DEF TypeOK
    <3>2. CASE k = n
      <4>1. \A q \in Between(home(s, size), at, size) :
              q \in DOMAIN slot /\ slot[q] # 0
        BY <2>1, BetweenInTable DEF Walked, TypeOK
      <4> QED  BY <2>3, <2>4, <2>6, <3>1, <3>2, <4>1
    <3>3. CASE k # n
      <4>1. k \in 1 .. Placed /\ name'[k] = name[k]  BY <2>3, <2>4, <2>5, <3>3
      <4>2. PICK p \in DOMAIN slot :
              /\ slot[p] = k
              /\ \A q \in Between(home(name[k], size), p, size) : slot[q] # 0
        BY <4>1 DEF Findable
      <4>3. slot'[p] = k  BY <1>2, <2>6, <4>1, <4>2
      <4>4. Between(home(name[k], size), p, size) \subseteq DOMAIN slot
        BY BetweenInTable DEF TypeOK
      <4> QED  BY <3>1, <4>1, <4>2, <4>3, <4>4
    <3> QED  BY <3>2, <3>3
  <2>9. Single'
    <3>1. \A q \in DOMAIN slot : slot[q] \in Nat /\ slot[q] <= n - 1
      BY <2>5 DEF Single, TypeOK
    <3>2. \A q \in DOMAIN slot' : slot'[q] <= n  BY <2>3, <2>6, <3>1
    <3>3. ASSUME NEW p \in DOMAIN slot, NEW q \in DOMAIN slot,
                 slot'[p] = slot'[q], slot'[p] # 0
          PROVE  p = q
      BY <2>3, <2>6, <3>1, <3>3 DEF Single
    <3> QED  BY <2>5, <2>6, <3>2, <3>3 DEF Single
  <2>10. Distinct'
    <3>1. \A k \in 1 .. Len(name) : name[k] # s
      BY <1>2, <2>1, <2>3, MissedIsAbsent DEF Held
    <3>2. ASSUME NEW k \in 1 .. n, NEW l \in 1 .. n, name'[k] = name'[l]
          PROVE  k = l
      BY <2>3, <2>4, <3>1, <3>2 DEF Distinct
    <3>3. DOMAIN name' = 1 .. n  BY <2>4
    <3> QED  BY <3>2, <3>3 DEF Distinct
  <2>11. Walked'  BY <2>1 DEF Walked
  <2>12. HalfFree'
    <3>1. 2 * Len(name) < size /\ size % 2 = 0  BY <2>1 DEF HalfFree
    <3>2. 2 * n <= size
      <4>1. size \in Nat /\ Len(name) \in Nat  BY DEF TypeOK
      <4>2. PICK w \in Nat : size = 2 * w  BY <3>1, <4>1, EvenIsTwice
      <4>3. w >= n  BY <3>1, <4>1, <4>2
      <4> QED  BY <4>1, <4>2, <4>3
    <3> QED  BY <2>1, <2>2, <2>4, <3>1, <3>2 DEF HalfFree
  <2> QED  BY <2>7, <2>8, <2>9, <2>10, <2>11, <2>12
<1> QED  BY <1>1, <1>2

LEMMA StutterInv ==
  ASSUME TableInv, UNCHANGED vars
  PROVE  TableInv'
<1> USE DEF TableInv, vars
<1>1. TypeOK'  BY DEF TypeOK
<1>2. Placed' = Placed  BY DEF Placed
<1>3. Findable' /\ Single' /\ Distinct'
  BY <1>2 DEF Findable, Single, Distinct, home
<1>4. Walked' /\ HalfFree'  BY DEF Walked, HalfFree, home
<1> QED  BY <1>1, <1>3, <1>4

\* The invariant holds in every state of every table (names.ngpl, probe, add_at
\* and grow).
THEOREM TableInvariance == Spec => []TableInv
<1>1. TableInv /\ [Next]_vars => TableInv'
  BY FindInv, AddInv, StepInv, PlaceInv, GrownInv, AnswersInv, EntersInv, StutterInv
  DEF Next, Turn
<1> QED  BY <1>1, InitInv, PTL DEF Spec

-----------------------------------------------------------------------------
\* A walk stops: were every slot taken, each would hold a name of its own, and
\* there are more slots than names.

LEMMA Counted ==
  \A n \in Nat : /\ IsFiniteSet(0 .. n - 1) /\ Cardinality(0 .. n - 1) = n
                /\ IsFiniteSet(1 .. n) /\ Cardinality(1 .. n) = n
<1> TAKE n \in Nat
<1>1. IsFiniteSet(0 .. n - 1) /\ Cardinality(0 .. n - 1) = n  BY FS_Interval
<1>2. IsFiniteSet(1 .. n) /\ Cardinality(1 .. n) = n  BY FS_Interval
<1> QED  BY <1>1, <1>2

LEMMA InvFreeSlot == TableInv => FreeSlot
<1> SUFFICES ASSUME TableInv, ~ FreeSlot PROVE FALSE  OBVIOUS
<1>1. size \in Nat \ {0} /\ Len(name) \in Nat /\ Len(name) < size
      /\ slot \in [0 .. size - 1 -> 0 .. Len(name)]
  BY DEF TableInv, TypeOK, HalfFree
<1>2. slot \in [0 .. size - 1 -> 1 .. Len(name)]  BY <1>1 DEF FreeSlot
<1>3. IsFiniteSet(0 .. size - 1) /\ Cardinality(0 .. size - 1) = size
      /\ IsFiniteSet(1 .. Len(name)) /\ Cardinality(1 .. Len(name)) = Len(name)
  BY <1>1, Counted
<1>4. PICK p, q \in 0 .. size - 1 : p # q /\ slot[p] = slot[q]
  BY <1>1, <1>2, <1>3, FS_PigeonHole
<1> QED  BY <1>1, <1>2, <1>4 DEF TableInv, Single

\* There is always a slot that stops a walk (names.ngpl: a linear probe walks
\* forever in a table that fills up), however many names are added.
THEOREM FreeSlotAlways == Spec => []FreeSlot
  BY TableInvariance, InvFreeSlot, PTL

-----------------------------------------------------------------------------
\* The table implements the promise.

AllAnswered == \A k \in DOMAIN name : answered[name[k]] = val[k]

LEMMA AnsweredHeld == TableInv => AllAnswered
<1> SUFFICES ASSUME TableInv, NEW k \in DOMAIN name
             PROVE  answered[name[k]] = val[k]
  BY DEF AllAnswered
<1>1. name[k] \in Held /\ name[k] \in Name  BY DEF Held, TableInv, TypeOK
<1>2. \A l \in DOMAIN name : name[l] = name[k] => l = k
  BY DEF TableInv, Distinct
<1>3. (CHOOSE l \in DOMAIN name : name[l] = name[k]) = k  BY <1>2
<1> QED  BY <1>1, <1>3 DEF answered

LEMMA AnsweredAbsent ==
  \A x \in Name : x \notin Held => answered[x] = None
  BY DEF answered

LEMMA AnswersRefines ==
  ASSUME TableInv, Answers
  PROVE  NT!Find(s)
<1>1. UNCHANGED answered /\ UNCHANGED name  BY DEF Answers, answered, Held
<1>2. s \in Name  BY DEF TableInv, TypeOK
<1>3. CASE slot[at] = 0
  <2>1. answered[s] = None
    BY <1>2, <1>3, MissedIsAbsent, AnsweredAbsent DEF Answers, Reached
  <2> QED  BY <1>1, <1>3, <2>1 DEF Answers, NT!Find
<1>4. CASE slot[at] # 0
  <2>1. slot[at] \in DOMAIN name /\ name[slot[at]] = s
    BY <1>4, HitIsHeld DEF Answers, Reached
  <2>2. answered[s] = val[slot[at]]  BY <2>1, AnsweredHeld DEF AllAnswered
  <2> QED  BY <1>1, <1>4, <2>2 DEF Answers, NT!Find
<1> QED  BY <1>3, <1>4

LEMMA EntersRefines ==
  ASSUME TableInv, TableInv', Enters
  PROVE  /\ v \in Answer \cup {Len(name)}
         /\ NT!Add(s, v)
<1>1. pc = "probe" /\ op = "add" /\ UNCHANGED said  BY DEF Enters, Reached
<1>2. v \in Answer \cup {Len(name)} /\ s \in Name /\ v \in Nat
  BY <1>1, TableAssumption DEF TableInv, HalfFree, TypeOK
<1>3. CASE slot[at] # 0
  <2>1. slot[at] \in DOMAIN name /\ name[slot[at]] = s
    BY <1>3, HitIsHeld DEF Enters, Reached
  <2>2. answered[s] = val[slot[at]]  BY <2>1, AnsweredHeld DEF AllAnswered
  <2>3. answered[s] # None
    <3>1. val \in Seq(Nat) /\ name \in Seq(Name) /\ Len(val) = Len(name)
      BY DEF TableInv, TypeOK
    <3>2. val[slot[at]] \in Nat  BY <2>1, <3>1
    <3> QED  BY <2>2, <3>2 DEF None
  <2>4. UNCHANGED <<name, val>>  BY <1>3 DEF Enters
  <2>5. UNCHANGED <<answered, Len(name)>>  BY <2>4 DEF answered, Held
  <2> QED  BY <1>1, <1>2, <2>3, <2>5 DEF NT!Add, NT!None, None
<1>4. CASE slot[at] = 0
  <2> DEFINE n == Len(name) + 1
  <2>1. s \notin Held  BY <1>1, <1>4, MissedIsAbsent
  <2>2. answered[s] = None  BY <1>2, <2>1, AnsweredAbsent
  <2>3. name \in Seq(Name) /\ val \in Seq(Nat) /\ Len(val) = Len(name)
    BY DEF TableInv, TypeOK
  <2>4. name' = Append(name, s) /\ val' = Append(val, v)  BY <1>4 DEF Enters
  <2>5. DOMAIN name' = DOMAIN name \cup {n} /\ name'[n] = s /\ val'[n] = v
        /\ Len(name') = n
        /\ \A k \in DOMAIN name : name'[k] = name[k] /\ val'[k] = val[k]
    BY <1>2, <2>3, <2>4
  <2>6. \A k \in DOMAIN name' : (answered')[name'[k]] = val'[k]
    <3>1. AllAnswered'  BY AnsweredHeld, PTL
    <3> QED  BY <3>1 DEF AllAnswered
  <2>7. ASSUME NEW x \in Name
        PROVE  (answered')[x] = IF x = s THEN v ELSE answered[x]
    <3>1. CASE x = s  BY <2>5, <2>6, <3>1
    <3>2. CASE x # s /\ x \in Held
      <4>1. PICK k \in DOMAIN name : name[k] = x  BY <3>2 DEF Held
      <4>2. answered[x] = val[k]  BY <4>1, AnsweredHeld DEF AllAnswered
      <4> QED  BY <2>5, <2>6, <3>2, <4>1, <4>2
    <3>3. CASE x # s /\ x \notin Held
      <4>1. x \notin Held'  BY <2>5, <3>3 DEF Held
      <4> QED  BY <3>3, <4>1 DEF answered
    <3> QED  BY <3>1, <3>2, <3>3
  <2>8. answered' = [answered EXCEPT ![s] = v]
    <3>2. DOMAIN answered = Name /\ DOMAIN (answered') = Name  BY DEF answered
    <3>3. answered = [x \in Name |-> answered[x]]  BY DEF answered
    <3>4. answered' = [x \in Name |-> (answered')[x]]  BY DEF answered
    <3> QED  BY <1>2, <2>7, <3>2, <3>3, <3>4
  <2>9. Len(name)' = Len(name) + 1  BY <2>5
  <2> QED  BY <1>1, <1>2, <2>2, <2>8, <2>9 DEF NT!Add, NT!None, None
<1> QED  BY <1>2, <1>3, <1>4

\* A lookup answers what a walk down the array of names would, a name keeps what
\* it was first added with, and neither a collision nor a growth shows
\* (names.ngpl, find and add_at).
THEOREM AnswersFirstAlways == Spec => AnswersFirst
<1>1. Init => NT!Init
  BY DEF Init, names_new, NT!Init, answered, Held, NT!None, None
<1>2. ASSUME TableInv, TableInv', [Next]_vars PROVE [NT!Next]_(NT!vars)
  <2>1. ASSUME UNCHANGED <<name, val, said>> PROVE UNCHANGED NT!vars
    BY <2>1 DEF NT!vars, answered, Held
  <2>2. CASE UNCHANGED vars  BY <2>1, <2>2 DEF vars
  <2>3. ASSUME NEW x \in Name, Find(x) \/ Add(x) PROVE UNCHANGED NT!vars
    BY <2>1, <2>3 DEF Find, Add, add_at, Walk
  <2>4. CASE Step \/ Place \/ Grown
    BY <2>1, <2>4 DEF Step, Place, Grown, Walk
  <2>5. s \in Name  BY <1>2 DEF TableInv, TypeOK
  <2>6. CASE Answers  BY <1>2, <2>5, <2>6, AnswersRefines DEF NT!Next
  <2>7. CASE Enters  BY <1>2, <2>5, <2>7, EntersRefines DEF NT!Next
  <2> QED  BY <1>2, <2>2, <2>3, <2>4, <2>6, <2>7 DEF Next, Turn
<1> QED  BY <1>1, <1>2, TableInvariance, PTL DEF Spec, AnswersFirst, NT!Spec
=============================================================================
