-------------------------- MODULE IncrBuildProofs --------------------------
(***************************************************************************)
(* The invariants and promises of IncrBuild, proved for every program and  *)
(* every size: first the layout (see IncrBuildInv for the argument), then  *)
(* what code is linked to, then a build that has nothing to move.          *)
(***************************************************************************)
EXTENDS IncrBuildInv, FiniteSetTheorems, WellFoundedInduction, SequenceTheorems, TLAPS

-----------------------------------------------------------------------------
(***************************************************************************)
(* Arithmetic and sets.                                                    *)
(***************************************************************************)

\* The postcondition of incr_padding: at least sixteen bytes, in sixteens.
LEMMA PaddingPost ==
  \A n \in Nat : /\ incr_padding(n) \in Nat
                 /\ incr_padding(n) >= 16
                 /\ incr_padding(n) % 16 = 0
  BY DEF incr_padding, Larger

\* A region is given a room it fits.
LEMMA RoomPost ==
  \A n \in Nat : incr_room(n) \in Nat /\ n <= incr_room(n)
  <1> SUFFICES ASSUME NEW n \in Nat
               PROVE  incr_room(n) \in Nat /\ n <= incr_room(n)
    OBVIOUS
  <1> DEFINE m == n + incr_padding(n)
             k == m + (Page - 1)
             q == k \div Page
  <1>1. m \in Nat /\ n <= m /\ Page \in Nat \ {0}
    BY PaddingPost, CodeAssumption
  <1>2. incr_room(n) = q * Page
    BY DEF incr_room, AlignUp
  <1> HIDE DEF m
  <1>3. k \in Nat
    BY <1>1
  <1>4. q \in Nat /\ k < q * Page + Page
    <2> HIDE DEF k
    <2> QED BY <1>1, <1>3
  <1> HIDE DEF q
  <1>5. q * Page \in Nat
    BY <1>1, <1>4
  <1> DEFINE p == q * Page
  <1>6. p \in Nat /\ m + (Page - 1) < p + Page
    BY <1>4, <1>5
  <1> HIDE DEF p
  <1>7. m <= p
    BY <1>1, <1>6
  <1> QED BY <1>1, <1>2, <1>6, <1>7 DEF p

LEMMA LargerPost ==
  \A m, n \in Int : /\ Larger(m, n) \in {m, n}
                    /\ m <= Larger(m, n) /\ n <= Larger(m, n)
  BY DEF Larger

\* A set of numbers that is not empty has a least one.
LEMMA LeastOf ==
  \A S \in SUBSET Nat : S # {} => \E m \in S : \A n \in S : m <= n
  <1> SUFFICES ASSUME NEW S \in SUBSET Nat, S # {}
               PROVE  \E m \in S : \A n \in S : m <= n
    OBVIOUS
  <1>1. PICK m \in S : \A n \in S : ~(<<n, m>> \in OpToRel(<, Nat))
    BY WFMin, NatLessThanWellFounded
  <1>2. \A n \in S : ~(n < m)
    BY <1>1 DEF OpToRel
  <1> QED BY <1>2

LEMMA AppendElements ==
  ASSUME NEW S, NEW s \in Seq(S), NEW x
  PROVE  Elements(Append(s, x)) = Elements(s) \cup {x}
  BY DEF Elements

LEMMA ConcatElements ==
  ASSUME NEW S, NEW s \in Seq(S), NEW t \in Seq(S)
  PROVE  /\ s \o t \in Seq(S)
         /\ Len(s \o t) = Len(s) + Len(t)
         /\ Elements(s \o t) = Elements(s) \cup Elements(t)
  <1>1. s \o t \in Seq(S) /\ Len(s \o t) = Len(s) + Len(t)
    OBVIOUS
  <1>2. \A i \in DOMAIN (s \o t) :
          (s \o t)[i] = IF i <= Len(s) THEN s[i] ELSE t[i - Len(s)]
    OBVIOUS
  <1>3. Elements(s \o t) \subseteq Elements(s) \cup Elements(t)
    BY <1>1, <1>2 DEF Elements
  <1>4. Elements(s) \subseteq Elements(s \o t)
    BY <1>1, <1>2 DEF Elements
  <1>5. ASSUME NEW j \in DOMAIN t PROVE t[j] \in Elements(s \o t)
    <2>1. Len(s) + j \in DOMAIN (s \o t) /\ (s \o t)[Len(s) + j] = t[j]
      BY <1>1, <1>2
    <2> QED BY <2>1 DEF Elements
  <1> QED BY <1>1, <1>3, <1>4, <1>5 DEF Elements

-----------------------------------------------------------------------------
(***************************************************************************)
(* What the assumptions on the constants say of a program and a runtime.   *)
(***************************************************************************)
LEMMA ProgramFacts ==
  \A p \in Programs :
    /\ p.order \in Seq(Fn)
    /\ p.ver \in [Fn -> Version \cup {NotDefined}]
    /\ p.lams \in Seq(Fn)
    /\ Defined(p) \subseteq Fn
    /\ \A f \in Fn : f \in Defined(p) <=> p.ver[f] \in Version
  <1> SUFFICES ASSUME NEW p \in Programs
               PROVE  /\ p.order \in Seq(Fn)
                      /\ p.ver \in [Fn -> Version \cup {NotDefined}]
                      /\ p.lams \in Seq(Fn)
                      /\ Defined(p) \subseteq Fn
                      /\ \A f \in Fn : f \in Defined(p) <=> p.ver[f] \in Version
    OBVIOUS
  <1>1. p \in ProgramType /\ WellFormed(p)
    BY ProgramAssumption
  <1>2. /\ p.order \in Seq(Fn)
        /\ p.ver \in [Fn -> Version \cup {NotDefined}]
        /\ p.lams \in Seq(Fn)
    BY <1>1 DEF ProgramType
  <1>3. Defined(p) \subseteq Fn
    BY <1>2 DEF Defined
  <1>4. \A f \in Fn : f \in Defined(p) <=> p.ver[f] \in Version
    BY <1>1, <1>2, ProgramAssumption DEF WellFormed
  <1> QED BY <1>2, <1>3, <1>4

LEMMA ProgramCalls ==
  \A p \in Programs : \A f \in Defined(p) : Calls[f, p.ver[f]] \subseteq Defined(p)
  BY ProgramAssumption DEF WellFormed

LEMMA CodeFacts ==
  \A f \in Fn, v \in Version :
    /\ Size[f, v] \in Nat \ {0}
    /\ Needs[f, v] \subseteq Routine
    /\ Calls[f, v] \subseteq Fn
    /\ Lam[f, v] \in Nat
  BY CodeAssumption

\* What is reached is defined, and what it names is reached.
LEMMA ReachedFacts ==
  \A p \in Programs :
    /\ reached_fns(p) \subseteq Defined(p)
    /\ reached_fns(p) \subseteq Fn
    /\ \A f \in reached_fns(p) : /\ p.ver[f] \in Version
                                 /\ p.ver[f] # NotDefined
                                 /\ Calls[f, p.ver[f]] \subseteq reached_fns(p)
  <1> SUFFICES ASSUME NEW p \in Programs
               PROVE  /\ reached_fns(p) \subseteq Defined(p)
                      /\ reached_fns(p) \subseteq Fn
                      /\ \A f \in reached_fns(p) :
                           /\ p.ver[f] \in Version
                           /\ p.ver[f] # NotDefined
                           /\ Calls[f, p.ver[f]] \subseteq reached_fns(p)
    OBVIOUS
  <1>1. reached_fns(p) \subseteq Defined(p) /\ reached_fns(p) \subseteq Fn
    BY ProgramFacts DEF reached_fns
  <1>2. ASSUME NEW f \in reached_fns(p), NEW g \in Calls[f, p.ver[f]]
        PROVE  g \in reached_fns(p)
    <2>1. g \in Defined(p)
      BY <1>1, ProgramCalls
    <2>2. ASSUME NEW S \in SUBSET Defined(p),
                 (Roots \cup Method) \cap Defined(p) \subseteq S,
                 ClosedUnderCalls(p, S)
          PROVE  g \in S
      <3>1. f \in S
        BY <2>2 DEF reached_fns
      <3> QED BY <3>1, <2>2 DEF ClosedUnderCalls
    <2> QED BY <2>1, <2>2 DEF reached_fns
  <1>3. \A f \in reached_fns(p) : p.ver[f] \in Version /\ p.ver[f] # NotDefined
    BY <1>1, ProgramFacts, ProgramAssumption
  <1> QED BY <1>1, <1>2, <1>3

\* Every synthesized function takes some room.
LEMMA SynthFacts ==
  \A p \in Programs :
    /\ SynthCount(p) = 1 + Len(p.lams)
    /\ SynthCount(p) \in Nat \ {0}
    /\ \A j \in 1 .. SynthCount(p) : SynthBytes(p, j) \in Nat \ {0}
  <1> SUFFICES ASSUME NEW p \in Programs
               PROVE  /\ SynthCount(p) = 1 + Len(p.lams)
                      /\ SynthCount(p) \in Nat \ {0}
                      /\ \A j \in 1 .. SynthCount(p) : SynthBytes(p, j) \in Nat \ {0}
    OBVIOUS
  <1>1. p.lams \in Seq(Fn) /\ Len(p.lams) \in Nat
    <2>1. p.lams \in Seq(Fn)
      BY ProgramFacts
    <2> QED BY <2>1
  <1>2. SynthCount(p) = 1 + Len(p.lams)
    BY DEF SynthCount
  <1>3. SynthCount(p) \in Nat \ {0}
    <2> DEFINE k == Len(p.lams)
    <2> HIDE DEF k
    <2>1. k \in Nat /\ SynthCount(p) = 1 + k
      BY <1>1, <1>2 DEF k
    <2> QED BY <2>1
  <1>4. ASSUME NEW j \in 1 .. SynthCount(p), j # 1
        PROVE  SynthBytes(p, j) \in Nat \ {0}
    <2> DEFINE f == p.lams[j - 1]
               n == Lam[f, p.ver[f]]
    <2>1. j - 1 \in DOMAIN p.lams
      BY <1>1, <1>2, <1>4
    <2>2. f \in Fn
      BY <1>1, <2>1
    <2>3. f \in Defined(p) /\ HasLambda(f, p.ver[f])
      BY <2>1, <2>2, ProgramAssumption DEF WellFormed
    <2>4. n \in Nat
      BY <2>2, <2>3, ProgramFacts, CodeFacts
    <2>5. n > 0
      BY <2>3 DEF HasLambda
    <2>6. SynthBytes(p, j) = n
      BY <1>4 DEF SynthBytes
    <2> HIDE DEF n
    <2> QED BY <2>4, <2>5, <2>6
  <1>5. SynthBytes(p, 1) \in Nat \ {0}
    BY CodeAssumption DEF SynthBytes
  <1> QED BY <1>2, <1>3, <1>4, <1>5

\* A runtime of one routine or more begins with one of them.
LEMMA RuntimeFacts ==
  \A S \in SUBSET Routine :
    /\ RtLen[S] \in Nat
    /\ \A r \in S : RtOff[S][r] \in Nat /\ RtOff[S][r] < RtLen[S]
    /\ S # {} => \E r \in S : RtOff[S][r] = 0
  BY RuntimeAssumption

LEMMA CloseOverFacts ==
  \A S \in SUBSET Routine : S \subseteq CloseOver(S) /\ CloseOver(S) \subseteq Routine
  BY DEF CloseOver

LEMMA PositiveConstants ==
  /\ StartSize \in Nat \ {0}
  /\ StartNeeds \subseteq Routine
  /\ StartNeeds # {}
  BY CodeAssumption, RuntimeAssumption

-----------------------------------------------------------------------------
(***************************************************************************)
(* What the invariant says of the old file and of the functions at hand.   *)
(***************************************************************************)
LEMMA LiveFacts ==
  TypeOK /\ live = reached_fns(prog) =>
    /\ live \subseteq Fn
    /\ \A f \in live : /\ prog.ver[f] \in Version
                       /\ CodeSize(f) \in Nat \ {0}
                       /\ incr_padding(CodeSize(f)) \in Nat
                       /\ CodeNeeds(f) \subseteq Routine
                       /\ CodeCalls(f) \subseteq live
  <1> SUFFICES ASSUME TypeOK, live = reached_fns(prog)
               PROVE  /\ live \subseteq Fn
                      /\ \A f \in live : /\ prog.ver[f] \in Version
                                         /\ CodeSize(f) \in Nat \ {0}
                                         /\ incr_padding(CodeSize(f)) \in Nat
                                         /\ CodeNeeds(f) \subseteq Routine
                                         /\ CodeCalls(f) \subseteq live
    OBVIOUS
  <1>1. prog \in Programs
    BY DEF TypeOK
  <1>2. live \subseteq Fn /\ \A f \in live : /\ prog.ver[f] \in Version
                                             /\ CodeCalls(f) \subseteq live
    BY <1>1, ReachedFacts DEF CodeCalls
  <1>3. \A f \in live : CodeSize(f) \in Nat \ {0} /\ CodeNeeds(f) \subseteq Routine
    BY <1>2, CodeFacts DEF CodeSize, CodeNeeds
  <1> QED BY <1>2, <1>3, PaddingPost

\* The sections of a readable file: the runtime ends .text, and the last
\* section ends no sooner.
LEMMA SectionFacts ==
  TypeOK /\ FileInv(bin) /\ bin.ok =>
    /\ bin.rtBase \in Nat /\ TextSize(bin) \in Nat
    /\ StartSize <= bin.rtBase /\ bin.rtBase <= TextSize(bin)
    /\ incr_text_size(bin) = TextSize(bin)
    /\ incr_text_end(bin) \in Nat
    /\ TextSize(bin) <= incr_text_end(bin)
    /\ incr_text_end(bin) \in bin.txEnds
    /\ \A e \in bin.txEnds : e <= incr_text_end(bin)
  <1> SUFFICES ASSUME TypeOK, FileInv(bin), bin.ok
               PROVE  /\ bin.rtBase \in Nat /\ TextSize(bin) \in Nat
                      /\ StartSize <= bin.rtBase /\ bin.rtBase <= TextSize(bin)
                      /\ incr_text_size(bin) = TextSize(bin)
                      /\ incr_text_end(bin) \in Nat
                      /\ TextSize(bin) <= incr_text_end(bin)
                      /\ incr_text_end(bin) \in bin.txEnds
                      /\ \A e \in bin.txEnds : e <= incr_text_end(bin)
    OBVIOUS
  <1>1. bin.rtBase \in Nat /\ bin.rts \in SUBSET Routine /\ bin.txEnds \subseteq Nat
    BY DEF TypeOK, FileType
  <1>2. RtLen[bin.rts] \in Nat
    BY <1>1, RuntimeFacts
  <1>3. TextSize(bin) \in Nat /\ bin.rtBase <= TextSize(bin)
    BY <1>1, <1>2 DEF TextSize
  <1>4. StartSize <= bin.rtBase
    BY DEF FileInv
  <1> DEFINE E == bin.txEnds
             t == TextSize(bin)
  <1>5. /\ t \in E
        /\ \A e \in E : t <= e
        /\ \E m \in E : \A e \in E : e <= m
    <2>1. Sections(bin)
      BY DEF FileInv
    <2> QED BY <2>1 DEF Sections
  <1>6. /\ incr_text_size(bin) \in E
        /\ \A x \in E : incr_text_size(bin) <= x
    BY <1>5 DEF incr_text_size
  <1>7. /\ incr_text_end(bin) \in E
        /\ \A x \in E : x <= incr_text_end(bin)
    BY <1>5 DEF incr_text_end
  <1> HIDE DEF E, t
  <1>8. E \subseteq Nat
    BY <1>1 DEF E
  <1>9. incr_text_size(bin) = t
    <2>1. incr_text_size(bin) \in Nat /\ t \in Nat
      BY <1>5, <1>6, <1>8
    <2>2. incr_text_size(bin) <= t /\ t <= incr_text_size(bin)
      BY <1>5, <1>6
    <2> QED BY <2>1, <2>2
  <1>10. incr_text_end(bin) \in Nat /\ t <= incr_text_end(bin)
    BY <1>5, <1>7, <1>8
  <1> QED BY <1>1, <1>3, <1>4, <1>7, <1>9, <1>10 DEF E, t

\* A function of a readable file fits its slot; in .text the slot ends before
\* the runtime, and one past .text is not at zero.
LEMMA SlotFacts ==
  TypeOK /\ FileInv(bin) /\ bin.ok =>
    \A f \in Fn :
      /\ bin.at[f] \in Int /\ bin.end[f] \in Int
      /\ bin.ver[f] # NotDefined => bin.at[f] > 0
      /\ bin.at[f] >= 0 =>
           /\ bin.at[f] > 0
           /\ bin.ver[f] \in Version
           /\ SizeIn(bin, f) \in Nat \ {0}
           /\ bin.at[f] + SizeIn(bin, f) <= bin.end[f]
           /\ ~IsAway(f) => bin.end[f] <= bin.rtBase
      /\ IsAway(f) => bin.at[f] > 0
  <1> SUFFICES ASSUME TypeOK, FileInv(bin), bin.ok, NEW f \in Fn
               PROVE
      /\ bin.at[f] \in Int /\ bin.end[f] \in Int
      /\ bin.ver[f] # NotDefined => bin.at[f] > 0
      /\ bin.at[f] >= 0 =>
           /\ bin.at[f] > 0
           /\ bin.ver[f] \in Version
           /\ SizeIn(bin, f) \in Nat \ {0}
           /\ bin.at[f] + SizeIn(bin, f) <= bin.end[f]
           /\ ~IsAway(f) => bin.end[f] <= bin.rtBase
      /\ IsAway(f) => bin.at[f] > 0
    OBVIOUS
  <1>1. /\ bin.at[f] \in Int /\ bin.at[f] >= -1
        /\ bin.end[f] \in Int
        /\ bin.ver[f] \in Version \cup {NotDefined}
    BY DEF TypeOK, FileType, Addresses
  <1>2. IF bin.ver[f] = NotDefined THEN bin.at[f] = -1 ELSE bin.at[f] > 0
    BY DEF FileInv
  <1>3. bin.ver[f] \in Version => SizeIn(bin, f) \in Nat \ {0}
    BY CodeFacts DEF SizeIn
  <1>4. bin.at[f] >= 0 =>
           /\ bin.at[f] + SizeIn(bin, f) <= bin.end[f]
           /\ bin.at[f] < TextSize(bin) => bin.end[f] <= bin.rtBase
    BY DEF FileInv, ExtentsFit, FunctionsIn
  <1>5. IsAway(f) <=> bin.at[f] >= TextSize(bin)
    BY SectionFacts DEF IsAway
  <1>6. TextSize(bin) \in Nat /\ TextSize(bin) >= StartSize
    BY SectionFacts, PositiveConstants
  <1> QED BY <1>1, <1>2, <1>3, <1>4, <1>5, <1>6, PositiveConstants

\* What is not written again is, itself and all it names, what it was.
LEMMA KeptFacts ==
  \A f \in Fn : f \notin incr_regenerate /\ f \in live =>
    /\ bin.ver[f] = prog.ver[f] /\ bin.ver[f] # NotDefined
    /\ SizeIn(bin, f) = CodeSize(f)
    /\ \A g \in CodeCalls(f) \ Qualified : ~digest_moved(g)
  BY DEF incr_regenerate, digest_moved, SizeIn, CodeSize

-----------------------------------------------------------------------------
(***************************************************************************)
(* Steps that lay code, in two kinds: those that put a function at a place *)
(* not before the cursor, and those that only take the cursor forward.     *)
(***************************************************************************)
SameFrame ==
  /\ pc' \in Phases /\ RuntimeDone' = RuntimeDone
  /\ prog' = prog /\ live' = live
  /\ rtBase' = rtBase
  /\ RuntimeDone => need' = need

Puts(f, a) ==
  /\ SameFrame
  /\ synAt' = synAt
  /\ at' = [at EXCEPT ![f] = a]
  /\ here <= a
  /\ a + CodeSize(f) <= here'

Goes ==
  /\ SameFrame
  /\ synAt' = synAt
  /\ \A f \in live : at'[f] = at[f] \/ at'[f] <= 0
  /\ here <= here'

\* The symbols there are, one kind at a time.
LEMMA SymbolKinds ==
  \A o : o \in Symbols <=>
    \/ \E f \in Placed : o = at[f]
    \/ \E j \in DOMAIN synAt : o = synAt[j]
    \/ RuntimeDone /\ \E r \in need : o = rtBase + RtOff[need][r]
  BY DEF Symbols

LEMMA SymbolNumbers ==
  TypeOK /\ live = reached_fns(prog) => Symbols \subseteq Nat
  <1> SUFFICES ASSUME TypeOK, live = reached_fns(prog), NEW o \in Symbols
               PROVE  o \in Nat
    OBVIOUS
  <1>1. CASE \E f \in Placed : o = at[f]
    BY <1>1, LiveFacts DEF TypeOK, Addresses, Placed
  <1>2. CASE \E j \in DOMAIN synAt : o = synAt[j]
    BY <1>2 DEF TypeOK
  <1>3. CASE \E r \in need : o = rtBase + RtOff[need][r]
    <2>1. need \in SUBSET Routine /\ rtBase \in Nat
      BY DEF TypeOK
    <2>2. \A r \in need : RtOff[need][r] \in Nat
      BY <2>1, RuntimeFacts
    <2> QED BY <1>3, <2>1, <2>2
  <1> QED BY <1>1, <1>2, <1>3, SymbolKinds

LEMMA PutsSymbols ==
  \A f \in live, a \in Nat :
    TypeOK /\ live \subseteq Fn /\ Puts(f, a) =>
      /\ Placed' \subseteq Placed \cup {f}
      /\ at'[f] = a
      /\ \A g \in Placed' : g # f => at'[g] = at[g]
      /\ Symbols' \subseteq Symbols \cup {a}
  <1> SUFFICES ASSUME NEW f \in live, NEW a \in Nat,
                      TypeOK, live \subseteq Fn, Puts(f, a)
               PROVE  /\ Placed' \subseteq Placed \cup {f}
                      /\ at'[f] = a
                      /\ \A g \in Placed' : g # f => at'[g] = at[g]
                      /\ Symbols' \subseteq Symbols \cup {a}
    OBVIOUS
  <1>1. at'[f] = a /\ \A g \in live : g # f => at'[g] = at[g]
    BY DEF TypeOK, Puts
  <1>2. Placed' \subseteq Placed \cup {f} /\ Placed' \subseteq live
    BY <1>1 DEF Placed, Puts, SameFrame
  <1>3. ASSUME NEW o \in Symbols' PROVE o \in Symbols \cup {a}
    <2>1. CASE \E g \in Placed' : o = at'[g]
      BY <1>1, <1>2, <2>1 DEF Symbols
    <2>2. CASE \E j \in DOMAIN synAt' : o = synAt'[j]
      BY <2>2 DEF Puts, Symbols
    <2>3. CASE RuntimeDone' /\ \E r \in need' : o = rtBase' + RtOff[need'][r]
      BY <2>3 DEF Puts, SameFrame, Symbols
    <2>4. \/ \E g \in Placed' : o = at'[g]
          \/ \E j \in DOMAIN synAt' : o = synAt'[j]
          \/ RuntimeDone' /\ \E r \in need' : o = rtBase' + RtOff[need'][r]
      BY <1>3 DEF Symbols
    <2> QED BY <2>1, <2>2, <2>3, <2>4
  <1> QED BY <1>1, <1>2, <1>3

LEMMA PutsExtents ==
  \A f \in live, a \in Nat :
    TypeOK /\ TypeOK' /\ live = reached_fns(prog) /\ Extents /\ Puts(f, a)
      => Extents'
  <1> SUFFICES ASSUME NEW f \in live, NEW a \in Nat, TypeOK, TypeOK',
                      live = reached_fns(prog), Extents, Puts(f, a)
               PROVE  Extents'
    OBVIOUS
  <1>1. live \subseteq Fn /\ \A g \in live : CodeSize(g) \in Nat \ {0}
    BY LiveFacts
  <1>2. /\ Placed' \subseteq Placed \cup {f}
        /\ at'[f] = a
        /\ \A g \in Placed' : g # f => at'[g] = at[g]
        /\ Symbols' \subseteq Symbols \cup {a}
    BY <1>1, PutsSymbols
  <1>3. \A g \in live : CodeSize(g)' = CodeSize(g)
    BY DEF CodeSize, Puts, SameFrame
  <1>4. here \in Nat /\ here' \in Nat /\ Symbols \subseteq Nat
    BY SymbolNumbers DEF TypeOK
  <1>5. Placed \subseteq live /\ Placed' \subseteq live
    BY DEF Placed, Puts, SameFrame
  <1>6. \A g \in live : at[g] \in Int
    BY <1>1 DEF TypeOK, Addresses
  <1>7. StartSize <= here /\ StartSize \in Nat
    BY PositiveConstants DEF Extents
  <1>8. here <= a /\ a + CodeSize(f) <= here'
    BY DEF Puts
  <1>9. \A o \in Symbols : o <= here
    BY DEF Extents
  <1>10. \A g \in Placed : at[g] + CodeSize(g) <= here
    BY DEF Extents
  <1>11. \A g \in Placed : \A o \in Symbols : o > at[g] => at[g] + CodeSize(g) <= o
    BY DEF Extents
  <1>12. \A g, h \in Placed : g # h => at[g] # at[h]
    BY DEF Extents
  <1>13. here <= here' /\ StartSize <= here'
    BY <1>1, <1>4, <1>7, <1>8
  <1>14. \A o \in Symbols' : o <= here'
    BY <1>1, <1>2, <1>4, <1>8, <1>9, <1>13
  <1>15. \A g \in Placed' : at'[g] + CodeSize(g) <= here'
    BY <1>1, <1>2, <1>4, <1>5, <1>6, <1>8, <1>10, <1>13
  <1>16. ASSUME NEW g \in Placed', NEW o \in Symbols', o > at'[g]
         PROVE  at'[g] + CodeSize(g) <= o
    <2>1. CASE g = f
      BY <1>2, <1>4, <1>8, <1>9, <1>16, <2>1
    <2>2. CASE g # f
      BY <1>1, <1>2, <1>4, <1>5, <1>6, <1>8, <1>10, <1>11, <1>16, <2>2
    <2> QED BY <2>1, <2>2
  <1>17. ASSUME NEW g \in Placed', NEW h \in Placed', g # h
         PROVE  at'[g] # at'[h]
    BY <1>1, <1>2, <1>4, <1>5, <1>6, <1>8, <1>10, <1>12, <1>17
  <1> QED BY <1>3, <1>5, <1>13, <1>14, <1>15, <1>16, <1>17 DEF Extents

LEMMA GoesSymbols ==
  TypeOK /\ TypeOK' /\ live \subseteq Fn /\ Goes =>
    /\ Placed' \subseteq Placed
    /\ \A g \in Placed' : at'[g] = at[g]
    /\ Symbols' \subseteq Symbols
  <1> SUFFICES ASSUME TypeOK, TypeOK', live \subseteq Fn, Goes
               PROVE  /\ Placed' \subseteq Placed
                      /\ \A g \in Placed' : at'[g] = at[g]
                      /\ Symbols' \subseteq Symbols
    OBVIOUS
  <1>1. \A g \in live : at'[g] \in Int /\ (at'[g] > 0 => at'[g] = at[g])
    BY DEF TypeOK, Goes, Addresses
  <1>2. Placed' \subseteq Placed /\ \A g \in Placed' : at'[g] = at[g]
    BY <1>1 DEF Placed, Goes, SameFrame
  <1>3. ASSUME NEW o \in Symbols' PROVE o \in Symbols
    <2>1. CASE \E g \in Placed' : o = at'[g]
      BY <1>2, <2>1 DEF Symbols
    <2>2. CASE \E j \in DOMAIN synAt' : o = synAt'[j]
      BY <2>2 DEF Goes, Symbols
    <2>3. CASE RuntimeDone' /\ \E r \in need' : o = rtBase' + RtOff[need'][r]
      BY <2>3 DEF Goes, SameFrame, Symbols
    <2>4. \/ \E g \in Placed' : o = at'[g]
          \/ \E j \in DOMAIN synAt' : o = synAt'[j]
          \/ RuntimeDone' /\ \E r \in need' : o = rtBase' + RtOff[need'][r]
      BY <1>3 DEF Symbols
    <2> QED BY <2>1, <2>2, <2>3, <2>4
  <1> QED BY <1>2, <1>3

LEMMA GoesExtents ==
  TypeOK /\ TypeOK' /\ live = reached_fns(prog) /\ Extents /\ Goes => Extents'
  <1> SUFFICES ASSUME TypeOK, TypeOK', live = reached_fns(prog), Extents, Goes
               PROVE  Extents'
    OBVIOUS
  <1>1. live \subseteq Fn /\ \A g \in live : CodeSize(g) \in Nat \ {0}
    BY LiveFacts
  <1>2. /\ Placed' \subseteq Placed
        /\ \A g \in Placed' : at'[g] = at[g]
        /\ Symbols' \subseteq Symbols
    BY <1>1, GoesSymbols
  <1>3. \A g \in live : CodeSize(g)' = CodeSize(g)
    BY DEF CodeSize, Goes, SameFrame
  <1>4. here \in Nat /\ here' \in Nat /\ here <= here' /\ Symbols \subseteq Nat
    BY SymbolNumbers DEF TypeOK, Goes
  <1>5. Placed \subseteq live
    BY DEF Placed
  <1>6. \A g \in live : at[g] \in Int
    BY <1>1 DEF TypeOK, Addresses
  <1>7. StartSize <= here' /\ \A o \in Symbols' : o <= here'
    BY <1>2, <1>4, PositiveConstants DEF Extents
  <1>8. \A g \in Placed' : at'[g] + CodeSize(g) <= here'
    BY <1>1, <1>2, <1>4, <1>5, <1>6 DEF Extents
  <1>9. \A g \in Placed' : \A o \in Symbols' : o > at'[g] => at'[g] + CodeSize(g) <= o
    BY <1>2 DEF Extents
  <1>10. \A g, h \in Placed' : g # h => at'[g] # at'[h]
    BY <1>2 DEF Extents
  <1> QED BY <1>2, <1>3, <1>5, <1>7, <1>8, <1>9, <1>10 DEF Extents

LEMMA PutsRuntime ==
  \A f \in live, a \in Nat :
    TypeOK /\ TypeOK' /\ live = reached_fns(prog) /\ RuntimePlaced /\ Puts(f, a)
      => RuntimePlaced'
  <1> SUFFICES ASSUME NEW f \in live, NEW a \in Nat, TypeOK, TypeOK',
                      live = reached_fns(prog), RuntimePlaced, Puts(f, a),
                      RuntimeDone
               PROVE  /\ StartSize <= rtBase'
                      /\ rtBase' + RtLen[need'] <= here'
                      /\ \A g \in Placed' : \/ at'[g] < rtBase'
                                            \/ rtBase' + RtLen[need'] <= at'[g]
    BY DEF RuntimePlaced, Puts, SameFrame
  <1>1. rtBase' = rtBase /\ need' = need
    BY DEF Puts, SameFrame
  <1>2. /\ StartSize <= rtBase
        /\ rtBase + RtLen[need] <= here
        /\ \A g \in Placed : at[g] < rtBase \/ rtBase + RtLen[need] <= at[g]
    BY DEF RuntimePlaced
  <1>3. live \subseteq Fn /\ CodeSize(f) \in Nat \ {0}
    BY LiveFacts
  <1>4. /\ Placed' \subseteq Placed \cup {f}
        /\ at'[f] = a
        /\ \A g \in Placed' : g # f => at'[g] = at[g]
    BY <1>3, PutsSymbols
  <1>5. here \in Nat /\ here' \in Nat /\ here <= a /\ a + CodeSize(f) <= here'
    BY DEF TypeOK, Puts
  <1>6. rtBase + RtLen[need] \in Nat
    <2>1. rtBase \in Nat /\ need \in SUBSET Routine
      BY DEF TypeOK
    <2> QED BY <2>1, RuntimeFacts
  <1>7. rtBase + RtLen[need] <= here' /\ rtBase + RtLen[need] <= a
    BY <1>2, <1>3, <1>5, <1>6
  <1> QED BY <1>1, <1>2, <1>4, <1>7

LEMMA GoesRuntime ==
  TypeOK /\ TypeOK' /\ live \subseteq Fn /\ RuntimePlaced /\ Goes
    => RuntimePlaced'
  <1> SUFFICES ASSUME TypeOK, TypeOK', live \subseteq Fn, RuntimePlaced, Goes,
                      RuntimeDone
               PROVE  /\ StartSize <= rtBase'
                      /\ rtBase' + RtLen[need'] <= here'
                      /\ \A g \in Placed' : \/ at'[g] < rtBase'
                                            \/ rtBase' + RtLen[need'] <= at'[g]
    BY DEF RuntimePlaced, Goes, SameFrame
  <1>1. rtBase' = rtBase /\ need' = need
    BY DEF Goes, SameFrame
  <1>2. /\ StartSize <= rtBase
        /\ rtBase + RtLen[need] <= here
        /\ \A g \in Placed : at[g] < rtBase \/ rtBase + RtLen[need] <= at[g]
    BY DEF RuntimePlaced
  <1>3. Placed' \subseteq Placed /\ \A g \in Placed' : at'[g] = at[g]
    BY GoesSymbols
  <1>4. here \in Nat /\ here' \in Nat /\ here <= here'
    BY DEF TypeOK, Goes
  <1>5. rtBase + RtLen[need] \in Nat
    <2>1. rtBase \in Nat /\ need \in SUBSET Routine
      BY DEF TypeOK
    <2> QED BY <2>1, RuntimeFacts
  <1> QED BY <1>1, <1>2, <1>3, <1>4, <1>5

-----------------------------------------------------------------------------
(***************************************************************************)
(* What a step of a build leaves alone.                                    *)
(***************************************************************************)
Working == UNCHANGED <<src, bin, prog, live, mode, out>>

LEMMA SameFile == bin' = bin /\ FileInv(bin) => FileInv(bin)'
  BY DEF FileInv, ExtentsFit, Apart, Sections, Synthetics, FunctionsIn, SizeIn,
         TextSize

LEMMA SameOut == out' = out /\ FileInv(out) => FileInv(out)'
  BY DEF FileInv, ExtentsFit, Apart, Sections, Synthetics, FunctionsIn, SizeIn,
         TextSize

LEMMA SameJudgement ==
  Working =>
    /\ incr_regenerate' = incr_regenerate
    /\ \A f : /\ CodeSize(f)' = CodeSize(f)
              /\ CodeNeeds(f)' = CodeNeeds(f)
              /\ IsAway(f)' = IsAway(f)
    /\ \A j : SynthWas(j)' = SynthWas(j)
  BY DEF Working, incr_regenerate, digest_moved, CodeSize, CodeCalls, CodeNeeds,
         IsAway, incr_text_size, SynthWas

LEMMA StepFrame ==
  IInv /\ Working /\ TypeOK' /\ BuildInv' => IInv'
  BY SameFile, SameOut DEF IInv, Working

-----------------------------------------------------------------------------
(***************************************************************************)
(* The emission loop.                                                      *)
(***************************************************************************)
LEMMA FunctionStart ==
  \A f \in Fn : IInv /\ AtFunction(f) =>
    /\ Working /\ SameFrame /\ TypeOK
    /\ pc = "functions" /\ pc' = "functions"
    /\ ~RuntimeDone /\ ~RuntimeDone'
    /\ synAt' = synAt /\ again' = again /\ pos' = pos + 1
    /\ live = reached_fns(prog)
    /\ Coverage /\ Extents /\ SyntheticsPlaced /\ NeedsKnown /\ FirstBuild /\ Aligned
    /\ mode = 2 => bin.ok
  <1> SUFFICES ASSUME NEW f \in Fn, IInv, AtFunction(f)
               PROVE
    /\ Working /\ SameFrame /\ TypeOK
    /\ pc = "functions" /\ pc' = "functions"
    /\ ~RuntimeDone /\ ~RuntimeDone'
    /\ synAt' = synAt /\ again' = again /\ pos' = pos + 1
    /\ live = reached_fns(prog)
    /\ Coverage /\ Extents /\ SyntheticsPlaced /\ NeedsKnown /\ FirstBuild /\ Aligned
    /\ mode = 2 => bin.ok
    OBVIOUS
  <1>1. pc = "functions" /\ pc' = "functions" /\ synAt' = synAt /\ again' = again
        /\ pos' = pos + 1 /\ rtBase' = rtBase
    BY DEF AtFunction
  <1>2. Working
    BY DEF AtFunction, Working
  <1>3. ~RuntimeDone /\ ~RuntimeDone'
    BY <1>1 DEF RuntimeDone
  <1>4. SameFrame
    BY <1>1, <1>2 DEF SameFrame, Working, Phases, RuntimeDone
  <1>5. Building
    BY <1>1 DEF Building
  <1>6. TypeOK /\ BuildInv
    BY DEF IInv
  <1>7. /\ live = reached_fns(prog)
        /\ Coverage /\ Extents /\ SyntheticsPlaced /\ NeedsKnown /\ FirstBuild /\ Aligned
    BY <1>5, <1>6 DEF BuildInv
  <1>8. mode = 2 => bin.ok
    BY <1>7 DEF Aligned
  <1> QED BY <1>1, <1>2, <1>3, <1>4, <1>6, <1>7, <1>8

\* What is left to show of an iteration, once the rest is known to hold.
LEMMA FunctionEnd ==
  \A f \in Fn :
    /\ IInv /\ AtFunction(f)
    /\ TypeOK' /\ Extents' /\ NeedsKnown' /\ FirstBuild' /\ Aligned'
    /\ \A g \in live : g # f => at'[g] = at[g]
    /\ f \in live => at'[f] >= 0
    /\ \A g \in live : at'[g] = 0 => g \in away' \cup Moving'
    => IInv'
  <1> SUFFICES ASSUME NEW f \in Fn, IInv, AtFunction(f),
                      TypeOK', Extents', NeedsKnown', FirstBuild', Aligned',
                      \A g \in live : g # f => at'[g] = at[g],
                      f \in live => at'[f] >= 0,
                      \A g \in live : at'[g] = 0 => g \in away' \cup Moving'
               PROVE  IInv'
    OBVIOUS
  <1>1. /\ Working /\ TypeOK
        /\ pc = "functions" /\ pc' = "functions"
        /\ ~RuntimeDone /\ ~RuntimeDone'
        /\ synAt' = synAt /\ pos' = pos + 1
        /\ live = reached_fns(prog)
        /\ Coverage /\ SyntheticsPlaced
    BY FunctionStart
  <1>2. live' = live /\ prog' = prog /\ f = prog.order[pos]
    BY <1>1 DEF Working, AtFunction, Current
  <1>3. Coverage'
    <2>1. ASSUME NEW i \in DOMAIN prog.order, i < pos + 1, prog.order[i] \in live
          PROVE  at'[prog.order[i]] >= 0
      <3>1. pos \in Nat /\ i \in Nat
        BY <1>1, ProgramFacts DEF TypeOK
      <3>2. CASE i < pos
        <4>1. at[prog.order[i]] >= 0
          BY <1>1, <2>1, <3>2 DEF Coverage
        <4> QED BY <2>1, <4>1
      <3>3. CASE i = pos
        BY <1>2, <2>1, <3>3
      <3> QED BY <2>1, <3>1, <3>2, <3>3
    <2> QED BY <1>1, <1>2, <2>1 DEF Coverage
  <1>4. SyntheticsPlaced'
    <2>1. synAt \in Seq(Nat) /\ Len(synAt) = 0
      BY <1>1 DEF SyntheticsPlaced, TypeOK
    <2>2. DOMAIN synAt' = {} /\ Len(synAt') = 0
      BY <1>1, <2>1
    <2> QED BY <1>1, <2>2 DEF SyntheticsPlaced
  <1>5. RuntimePlaced'
    BY <1>1 DEF RuntimePlaced
  <1>6. live' = reached_fns(prog')
    BY <1>1, <1>2
  <1>7. BuildInv'
    BY <1>3, <1>4, <1>5, <1>6 DEF BuildInv
  <1> QED BY <1>1, <1>7, StepFrame

LEMMA StepSkipUnreached ==
  \A f \in Fn : IInv /\ SkipUnreached(f) => IInv'
  <1> SUFFICES ASSUME NEW f \in Fn, IInv, SkipUnreached(f) PROVE IInv'
    OBVIOUS
  <1> USE FunctionStart
  <1>1. AtFunction(f) /\ f \notin live
        /\ UNCHANGED <<why, here, at, copied, away, outgrown, need>>
    BY DEF SkipUnreached
  <1>2. /\ Working /\ SameFrame /\ TypeOK /\ ~RuntimeDone /\ ~RuntimeDone'
        /\ synAt' = synAt /\ again' = again /\ pos' = pos + 1
        /\ live = reached_fns(prog) /\ pc = "functions"
        /\ Coverage /\ Extents /\ NeedsKnown /\ FirstBuild /\ Aligned
    BY <1>1
  <1>3. TypeOK'
    BY <1>1, <1>2 DEF TypeOK, AtFunction
  <1>4. Goes
    BY <1>1, <1>2 DEF Goes, TypeOK
  <1>5. Extents'
    BY <1>2, <1>3, <1>4, GoesExtents
  <1>6. NeedsKnown' /\ FirstBuild'
    BY <1>1, <1>2, SameJudgement DEF NeedsKnown, FirstBuild, Working
  <1>7. Aligned'
    BY <1>1, <1>2, SameJudgement DEF Aligned, Working, Moving, Placed, Elements
  <1>8. \A g \in live : at'[g] = 0 => g \in away' \cup Moving'
    BY <1>1, <1>2 DEF Coverage, Moving, Elements
  <1> QED BY <1>1, <1>2, <1>3, <1>5, <1>6, <1>7, <1>8, FunctionEnd

LEMMA StepWritePadded ==
  \A f \in Fn : IInv /\ WritePadded(f) => IInv'
  <1> SUFFICES ASSUME NEW f \in Fn, IInv, WritePadded(f) PROVE IInv'
    OBVIOUS
  <1>1. /\ AtFunction(f) /\ f \in live /\ mode = 1
        /\ at' = [at EXCEPT ![f] = here]
        /\ here' = here + CodeSize(f) + incr_padding(CodeSize(f))
        /\ need' = need \cup CodeNeeds(f)
        /\ UNCHANGED <<why, copied, away, outgrown>>
    BY DEF WritePadded
  <1>2. /\ Working /\ SameFrame /\ TypeOK /\ ~RuntimeDone /\ ~RuntimeDone'
        /\ synAt' = synAt /\ again' = again /\ pos' = pos + 1
        /\ live = reached_fns(prog) /\ pc = "functions"
        /\ Coverage /\ Extents /\ NeedsKnown /\ FirstBuild
    BY <1>1, FunctionStart
  <1>3. /\ live \subseteq Fn
        /\ CodeSize(f) \in Nat \ {0} /\ incr_padding(CodeSize(f)) \in Nat
        /\ CodeNeeds(f) \subseteq Routine
    BY <1>1, <1>2, LiveFacts
  <1>4. here \in Nat /\ here' \in Nat /\ here > 0
    BY <1>1, <1>2, <1>3, PositiveConstants DEF TypeOK, Extents
  <1>5. TypeOK'
    <2>1. at' \in [Fn -> Addresses]
      BY <1>1, <1>2, <1>4 DEF TypeOK, Addresses
    <2> QED BY <1>1, <1>2, <1>3, <1>4, <2>1 DEF TypeOK, AtFunction
  <1>6. Puts(f, here)
    BY <1>1, <1>2, <1>3, <1>4 DEF Puts
  <1>7. Extents'
    BY <1>1, <1>2, <1>4, <1>5, <1>6, PutsExtents
  <1>8. at'[f] = here /\ \A g \in live : g # f => at'[g] = at[g]
    BY <1>1, <1>2, <1>3 DEF TypeOK
  <1>9. NeedsKnown'
    BY <1>1, <1>2, <1>8, SameJudgement DEF NeedsKnown, Working
  <1>10. FirstBuild' /\ Aligned'
    BY <1>1, <1>2 DEF FirstBuild, Aligned, Working
  <1>11. \A g \in live : at'[g] = 0 => g \in away' \cup Moving'
    BY <1>1, <1>2, <1>4, <1>8 DEF Coverage, Moving, Elements
  <1> QED BY <1>1, <1>4, <1>5, <1>7, <1>8, <1>9, <1>10, <1>11, FunctionEnd

LEMMA StepSetAside ==
  \A f \in Fn : IInv /\ SetAside(f) => IInv'
  <1> SUFFICES ASSUME NEW f \in Fn, IInv, SetAside(f) PROVE IInv'
    OBVIOUS
  <1>1. /\ AtFunction(f) /\ f \in live /\ mode = 2 /\ IsAway(f)
        /\ away' = away \cup {f}
        /\ at' = [at EXCEPT ![f] = 0]
        /\ need' = IF f \in incr_regenerate THEN need \cup CodeNeeds(f) ELSE need
        /\ UNCHANGED <<why, here, copied, outgrown>>
    BY DEF SetAside
  <1>2. /\ Working /\ SameFrame /\ TypeOK /\ ~RuntimeDone /\ ~RuntimeDone'
        /\ synAt' = synAt /\ again' = again /\ pos' = pos + 1
        /\ live = reached_fns(prog) /\ pc = "functions" /\ bin.ok
        /\ Coverage /\ Extents /\ NeedsKnown /\ Aligned
    BY <1>1, FunctionStart
  <1>3. live \subseteq Fn /\ CodeNeeds(f) \subseteq Routine
    BY <1>1, <1>2, LiveFacts
  <1>4. at'[f] = 0 /\ \A g \in live : g # f => at'[g] = at[g]
    BY <1>1, <1>2, <1>3 DEF TypeOK
  <1>5. TypeOK'
    <2>1. at' \in [Fn -> Addresses]
      BY <1>1, <1>2 DEF TypeOK, Addresses
    <2>2. need' \subseteq Routine
      BY <1>1, <1>2, <1>3 DEF TypeOK
    <2> QED BY <1>1, <1>2, <2>1, <2>2 DEF TypeOK, AtFunction
  <1>6. Goes
    BY <1>1, <1>2, <1>4 DEF Goes, TypeOK
  <1>7. Extents'
    BY <1>2, <1>5, <1>6, GoesExtents
  <1>8. NeedsKnown'
    BY <1>1, <1>2, <1>4, SameJudgement DEF NeedsKnown, Working
  <1>9. Placed' \subseteq Placed /\ \A g \in Placed' : at'[g] = at[g]
    BY <1>2, <1>3, <1>5, <1>6, GoesSymbols
  <1>10. Moving' = Moving
    BY <1>1, <1>2 DEF Moving, Elements
  <1>11. Aligned'
    <2>1. bin.at[f] > 0
      BY <1>1, <1>2, SlotFacts DEF IInv
    <2> QED BY <1>1, <1>2, <1>9, <1>10, <2>1, SameJudgement DEF Aligned, Working
  <1>12. FirstBuild'
    BY <1>1, <1>2 DEF FirstBuild, Working
  <1>13. \A g \in live : at'[g] = 0 => g \in away' \cup Moving'
    BY <1>1, <1>2, <1>4, <1>10 DEF Coverage
  <1> QED BY <1>1, <1>4, <1>5, <1>7, <1>8, <1>11, <1>12, <1>13, FunctionEnd

\* A function the old file knows in .text, reached before its place is gone by.
LEMMA InPlaceFacts ==
  \A f \in Fn : IInv /\ InPlace(f) /\ ~why' =>
    /\ ~why
    /\ here <= bin.at[f] /\ bin.at[f] > 0
    /\ Begins(f) = bin.at[f]
    /\ SizeIn(bin, f) \in Nat \ {0}
    /\ bin.at[f] + SizeIn(bin, f) <= bin.end[f]
    /\ bin.end[f] <= bin.rtBase
  <1> SUFFICES ASSUME NEW f \in Fn, IInv, InPlace(f), ~why'
               PROVE  /\ ~why
                      /\ here <= bin.at[f] /\ bin.at[f] > 0
                      /\ Begins(f) = bin.at[f]
                      /\ SizeIn(bin, f) \in Nat \ {0}
                      /\ bin.at[f] + SizeIn(bin, f) <= bin.end[f]
                      /\ bin.end[f] <= bin.rtBase
    OBVIOUS
  <1>1. AtFunction(f) /\ mode = 2 /\ ~IsAway(f)
        /\ ~why /\ ~incr_before_why(bin.at[f])
    BY DEF InPlace
  <1>2. TypeOK /\ FileInv(bin) /\ bin.ok
    BY <1>1, FunctionStart DEF IInv
  <1>3. bin.at[f] \in Int /\ here \in Nat
    BY <1>2, SlotFacts DEF TypeOK
  <1>4. ~(bin.at[f] < 0) /\ ~(here > bin.at[f])
    BY <1>1 DEF incr_before_why
  <1>5. bin.at[f] >= 0 /\ here <= bin.at[f]
    BY <1>3, <1>4
  <1>6. Begins(f) = bin.at[f]
    BY <1>3, <1>5 DEF Begins, incr_before, Larger
  <1> QED BY <1>1, <1>2, <1>5, <1>6, SlotFacts

LEMMA StepCopyInPlace ==
  \A f \in Fn : IInv /\ CopyInPlace(f) => IInv'
  <1> SUFFICES ASSUME NEW f \in Fn, IInv, CopyInPlace(f) PROVE IInv'
    OBVIOUS
  <1> DEFINE a == bin.at[f]
  <1>1. /\ AtFunction(f) /\ f \in live /\ mode = 2 /\ InPlace(f)
        /\ ~why' /\ f \notin incr_regenerate
        /\ at' = [at EXCEPT ![f] = a]
        /\ here' = bin.end[f]
        /\ copied' = copied \cup {f}
        /\ UNCHANGED <<away, outgrown, need>>
    BY DEF CopyInPlace, InPlace
  <1>2. /\ Working /\ SameFrame /\ TypeOK /\ ~RuntimeDone /\ ~RuntimeDone'
        /\ synAt' = synAt /\ again' = again /\ pos' = pos + 1
        /\ live = reached_fns(prog) /\ pc = "functions" /\ bin.ok
        /\ Coverage /\ Extents /\ NeedsKnown /\ Aligned
    BY <1>1, FunctionStart
  <1>3. live \subseteq Fn /\ CodeSize(f) \in Nat \ {0}
    BY <1>1, <1>2, LiveFacts
  <1>4. /\ ~why /\ here <= a /\ a > 0
        /\ a + CodeSize(f) <= bin.end[f] /\ bin.end[f] <= bin.rtBase
    BY <1>1, InPlaceFacts, KeptFacts
  <1>5. a \in Nat /\ here' \in Nat
    <2>1. bin.at[f] \in Int /\ bin.end[f] \in Int
      BY <1>2, SlotFacts DEF IInv
    <2> QED BY <1>1, <1>3, <1>4, <2>1
  <1>6. at'[f] = a /\ \A g \in live : g # f => at'[g] = at[g]
    BY <1>1, <1>2, <1>3 DEF TypeOK
  <1>7. TypeOK'
    <2>1. at' \in [Fn -> Addresses]
      BY <1>1, <1>2, <1>5 DEF TypeOK, Addresses
    <2>2. why' \in BOOLEAN
      BY <1>1 DEF InPlace
    <2> QED BY <1>1, <1>2, <1>5, <2>1, <2>2 DEF TypeOK, AtFunction
  <1>8. Puts(f, a)
    BY <1>1, <1>2, <1>4 DEF Puts
  <1>9. Extents'
    BY <1>1, <1>2, <1>5, <1>7, <1>8, PutsExtents
  <1>10. NeedsKnown'
    BY <1>1, <1>2, <1>6, SameJudgement DEF NeedsKnown, Working
  <1>11. Placed' \subseteq Placed \cup {f}
    BY <1>1, <1>2, <1>3, <1>5, <1>8, PutsSymbols
  <1>12. Moving' = Moving
    BY <1>1, <1>2 DEF Moving, Elements
  <1>13. \A g \in Placed' : g \in live /\ (at'[g] = bin.at[g] \/ g \in Moving)
    BY <1>2, <1>4, <1>6, <1>11, <1>1 DEF Aligned, Placed
  <1>14. Aligned'
    <2>1. here' <= bin.rtBase
      BY <1>1, <1>4
    <2> QED BY <1>1, <1>2, <1>4, <1>12, <1>13, <2>1, SameJudgement
            DEF Aligned, Working
  <1>15. FirstBuild'
    BY <1>1, <1>2 DEF FirstBuild, Working
  <1>16. \A g \in live : at'[g] = 0 => g \in away' \cup Moving'
    BY <1>1, <1>2, <1>4, <1>6, <1>12 DEF Coverage
  <1> QED BY <1>1, <1>5, <1>6, <1>7, <1>9, <1>10, <1>14, <1>15, <1>16, FunctionEnd

LEMMA BeginsFacts ==
  \A f \in Fn : TypeOK /\ FileInv(bin) /\ bin.ok =>
    Begins(f) \in Nat /\ here <= Begins(f) /\ bin.at[f] <= Begins(f)
  <1> SUFFICES ASSUME NEW f \in Fn, TypeOK, FileInv(bin), bin.ok
               PROVE  Begins(f) \in Nat /\ here <= Begins(f) /\ bin.at[f] <= Begins(f)
    OBVIOUS
  <1>1. bin.at[f] \in Int /\ here \in Nat
    BY SlotFacts DEF TypeOK
  <1> QED BY <1>1 DEF Begins, incr_before, Larger

LEMMA StepWriteInPlace ==
  \A f \in Fn : IInv /\ WriteInPlace(f) => IInv'
  <1> SUFFICES ASSUME NEW f \in Fn, IInv, WriteInPlace(f) PROVE IInv'
    OBVIOUS
  <1> DEFINE a == Begins(f)
  <1>1. /\ AtFunction(f) /\ f \in live /\ mode = 2 /\ InPlace(f)
        /\ Fits(f)
        /\ at' = [at EXCEPT ![f] = a]
        /\ here' = incr_after(a + CodeSize(f), bin.end[f])
        /\ need' = need \cup CodeNeeds(f)
        /\ UNCHANGED <<copied, away, outgrown>>
    BY DEF WriteInPlace, InPlace
  <1>2. /\ Working /\ SameFrame /\ TypeOK /\ ~RuntimeDone /\ ~RuntimeDone'
        /\ synAt' = synAt /\ again' = again /\ pos' = pos + 1
        /\ live = reached_fns(prog) /\ pc = "functions" /\ bin.ok
        /\ Coverage /\ Extents /\ NeedsKnown /\ Aligned
    BY <1>1, FunctionStart
  <1>3. /\ live \subseteq Fn /\ CodeSize(f) \in Nat \ {0}
        /\ CodeNeeds(f) \subseteq Routine
    BY <1>1, <1>2, LiveFacts
  <1>4. a \in Nat /\ here <= a /\ bin.end[f] \in Int
    BY <1>2, BeginsFacts, SlotFacts DEF IInv
  <1>5. a + CodeSize(f) <= bin.end[f]
    BY <1>1 DEF Fits
  <1>6. here' = bin.end[f]
    <2>1. a + CodeSize(f) \in Int
      BY <1>3, <1>4
    <2> QED BY <1>1, <1>4, <1>5, <2>1 DEF incr_after, Larger
  <1>7. here' \in Nat /\ a > 0
    <2>1. here > 0 /\ here \in Nat
      BY <1>2, PositiveConstants DEF Extents, TypeOK
    <2> QED BY <1>3, <1>4, <1>5, <1>6, <2>1
  <1>8. at'[f] = a /\ \A g \in live : g # f => at'[g] = at[g]
    BY <1>1, <1>2, <1>3 DEF TypeOK
  <1>9. TypeOK'
    <2>1. at' \in [Fn -> Addresses]
      BY <1>1, <1>2, <1>4 DEF TypeOK, Addresses
    <2>2. why' \in BOOLEAN
      BY <1>1 DEF InPlace
    <2> QED BY <1>1, <1>2, <1>3, <1>7, <2>1, <2>2 DEF TypeOK, AtFunction
  <1>10. Puts(f, a)
    BY <1>1, <1>2, <1>4, <1>5, <1>6 DEF Puts
  <1>11. Extents'
    BY <1>1, <1>2, <1>4, <1>9, <1>10, PutsExtents
  <1>12. NeedsKnown'
    BY <1>1, <1>2, <1>8, SameJudgement DEF NeedsKnown, Working
  <1>13. Placed' \subseteq Placed \cup {f}
    BY <1>1, <1>2, <1>3, <1>4, <1>10, PutsSymbols
  <1>14. Moving' = Moving
    BY <1>1, <1>2 DEF Moving, Elements
  <1>15. Aligned'
    <2>1. ASSUME ~why'
          PROVE  /\ ~why /\ here' <= bin.rtBase
                 /\ \A g \in Placed' : at'[g] = bin.at[g] \/ g \in Moving
      <3>1. ~why /\ a = bin.at[f] /\ bin.end[f] <= bin.rtBase
        BY <1>1, <2>1, InPlaceFacts
      <3> QED BY <1>2, <1>6, <1>8, <1>13, <3>1, <1>1 DEF Aligned, Placed
    <2> QED BY <1>1, <1>2, <1>14, <2>1, SameJudgement DEF Aligned, Working
  <1>16. FirstBuild'
    BY <1>1, <1>2 DEF FirstBuild, Working
  <1>17. \A g \in live : at'[g] = 0 => g \in away' \cup Moving'
    BY <1>1, <1>2, <1>7, <1>8, <1>14 DEF Coverage
  <1> QED BY <1>1, <1>4, <1>8, <1>9, <1>11, <1>12, <1>15, <1>16, <1>17, FunctionEnd

LEMMA StepOutgrow ==
  \A f \in Fn : IInv /\ Outgrow(f) => IInv'
  <1> SUFFICES ASSUME NEW f \in Fn, IInv, Outgrow(f) PROVE IInv'
    OBVIOUS
  <1>1. /\ AtFunction(f) /\ f \in live /\ mode = 2 /\ InPlace(f)
        /\ why' \/ f \in incr_regenerate
        /\ ~Fits(f)
        /\ outgrown' = Append(outgrown, f)
        /\ at' = [at EXCEPT ![f] = 0]
        /\ here' = incr_after(Begins(f), bin.end[f])
        /\ need' = need \cup CodeNeeds(f)
        /\ UNCHANGED <<copied, away>>
    BY DEF Outgrow, InPlace
  <1>2. /\ Working /\ SameFrame /\ TypeOK /\ ~RuntimeDone /\ ~RuntimeDone'
        /\ synAt' = synAt /\ again' = again /\ pos' = pos + 1
        /\ live = reached_fns(prog) /\ pc = "functions" /\ bin.ok
        /\ Coverage /\ Extents /\ NeedsKnown /\ Aligned
    BY <1>1, FunctionStart
  <1>3. /\ live \subseteq Fn /\ CodeSize(f) \in Nat \ {0}
        /\ CodeNeeds(f) \subseteq Routine
    BY <1>1, <1>2, LiveFacts
  <1>4. Begins(f) \in Nat /\ here <= Begins(f) /\ bin.end[f] \in Int
    BY <1>2, BeginsFacts, SlotFacts DEF IInv
  <1>5. here' \in Nat /\ here <= here'
    <2>1. here \in Nat
      BY <1>2 DEF TypeOK
    <2> QED BY <1>1, <1>4, <2>1 DEF incr_after, Larger
  <1>6. at'[f] = 0 /\ \A g \in live : g # f => at'[g] = at[g]
    BY <1>1, <1>2, <1>3 DEF TypeOK
  <1>7. TypeOK'
    <2>1. at' \in [Fn -> Addresses]
      BY <1>1, <1>2 DEF TypeOK, Addresses
    <2>2. why' \in BOOLEAN
      BY <1>1 DEF InPlace
    <2>3. outgrown' \in Seq(live)
      BY <1>1, <1>2 DEF TypeOK
    <2> QED BY <1>1, <1>2, <1>3, <1>5, <2>1, <2>2, <2>3 DEF TypeOK, AtFunction
  <1>8. Goes
    BY <1>1, <1>2, <1>5, <1>6 DEF Goes
  <1>9. Extents'
    BY <1>2, <1>7, <1>8, GoesExtents
  <1>10. NeedsKnown'
    BY <1>1, <1>2, <1>6, SameJudgement DEF NeedsKnown, Working
  <1>11. Placed' \subseteq Placed /\ \A g \in Placed' : at'[g] = at[g]
    BY <1>2, <1>3, <1>7, <1>8, GoesSymbols
  <1>12. Moving' = Moving \cup {f}
    <2>1. outgrown \in Seq(live)
      BY <1>2 DEF TypeOK
    <2>2. Elements(outgrown') = Elements(outgrown) \cup {f}
      BY <1>1, <2>1, AppendElements
    <2>3. Elements(again') = Elements(again)
      BY <1>2 DEF Elements
    <2>4. Moving' = Elements(again') \cup Elements(outgrown')
      BY DEF Moving, Elements
    <2> QED BY <2>2, <2>3, <2>4 DEF Moving
  <1>13. Aligned'
    <2>1. ASSUME ~why'
          PROVE  /\ ~why /\ here' <= bin.rtBase
                 /\ bin.at[f] > 0 /\ f \in incr_regenerate
                 /\ bin.end[f] < bin.at[f] + CodeSize(f)
      <3>1. /\ ~why /\ Begins(f) = bin.at[f] /\ bin.at[f] > 0
            /\ SizeIn(bin, f) \in Nat \ {0}
            /\ bin.at[f] + SizeIn(bin, f) <= bin.end[f]
            /\ bin.end[f] <= bin.rtBase
        BY <1>1, <2>1, InPlaceFacts
      <3>2. here' = bin.end[f]
        BY <1>1, <1>4, <3>1 DEF incr_after, Larger
      <3>3. ~(bin.at[f] + CodeSize(f) <= bin.end[f])
        BY <1>1, <3>1 DEF Fits
      <3>4. bin.end[f] < bin.at[f] + CodeSize(f)
        BY <1>3, <1>4, <3>1, <3>3
      <3> QED BY <1>1, <2>1, <3>1, <3>2, <3>4
    <2> QED BY <1>1, <1>2, <1>11, <1>12, <2>1, SameJudgement DEF Aligned, Working
  <1>14. FirstBuild'
    BY <1>1, <1>2 DEF FirstBuild, Working
  <1>15. \A g \in live : at'[g] = 0 => g \in away' \cup Moving'
    BY <1>1, <1>2, <1>6, <1>12 DEF Coverage
  <1> QED BY <1>1, <1>6, <1>7, <1>9, <1>10, <1>13, <1>14, <1>15, FunctionEnd

LEMMA StepEmitFunction == IInv /\ EmitFunction => IInv'
  BY StepSkipUnreached, StepWritePadded, StepSetAside, StepCopyInPlace,
     StepWriteInPlace, StepOutgrow DEF EmitFunction

LEMMA StepFunctionsDone == IInv /\ FunctionsDone => IInv'
  <1> SUFFICES ASSUME IInv, FunctionsDone PROVE IInv'
    OBVIOUS
  <1>1. /\ pc = "functions" /\ pos > Len(prog.order)
        /\ pc' = "synthetics" /\ pos' = 1
        /\ UNCHANGED <<why, here, at, copied, away, outgrown, again, need,
                       synAt, rtBase>>
        /\ Working
    BY DEF FunctionsDone, Working
  <1>2. Building /\ ~RuntimeDone /\ ~RuntimeDone'
    BY <1>1 DEF Building, RuntimeDone
  <1>3. /\ TypeOK /\ live = reached_fns(prog)
        /\ Coverage /\ Extents /\ SyntheticsPlaced /\ NeedsKnown /\ FirstBuild /\ Aligned
    BY <1>2 DEF IInv, BuildInv
  <1>4. TypeOK'
    BY <1>1, <1>3 DEF TypeOK, Working, Phases
  <1>5. Goes
    BY <1>1, <1>3 DEF Goes, SameFrame, TypeOK, RuntimeDone, Working, Phases
  <1>6. Extents'
    BY <1>3, <1>4, <1>5, GoesExtents
  <1>7. \A f \in live : at[f] >= 0
    <2> SUFFICES ASSUME NEW f \in live PROVE at[f] >= 0
      OBVIOUS
    <2>1. prog \in Programs /\ pos \in Nat
      BY <1>3 DEF TypeOK
    <2>2. prog.order \in Seq(Fn)
      BY <2>1, ProgramFacts
    <2>3. f \in Defined(prog)
      BY <1>3, <2>1, ReachedFacts
    <2>4. PICK i \in DOMAIN prog.order : prog.order[i] = f
      BY <2>3 DEF Defined
    <2>5. i < pos
      BY <1>1, <2>1, <2>2
    <2> QED BY <1>1, <1>3, <2>4, <2>5 DEF Coverage
  <1>8. Coverage'
    BY <1>1, <1>3, <1>7 DEF Coverage, Moving, Elements, Working
  <1>9. SyntheticsPlaced'
    <2>1. synAt \in Seq(Nat) /\ Len(synAt) = 0
      BY <1>1, <1>3 DEF SyntheticsPlaced, TypeOK
    <2>2. DOMAIN synAt' = {} /\ Len(synAt') = 0
      BY <1>1, <2>1
    <2>3. SynthCount(prog') \in Nat \ {0}
      BY <1>4, SynthFacts DEF TypeOK
    <2> QED BY <1>1, <2>2, <2>3 DEF SyntheticsPlaced
  <1>10. NeedsKnown' /\ FirstBuild'
    BY <1>1, <1>3, SameJudgement DEF NeedsKnown, FirstBuild, Working
  <1>11. Aligned'
    BY <1>1, <1>2, <1>3, SameJudgement DEF Aligned, Working, Moving, Placed, Elements
  <1>12. BuildInv'
    BY <1>1, <1>2, <1>3, <1>6, <1>8, <1>9, <1>10, <1>11
    DEF BuildInv, RuntimePlaced, Working
  <1> QED BY <1>1, <1>4, <1>12, StepFrame

-----------------------------------------------------------------------------
(***************************************************************************)
(* The synthesized functions and the runtime.                              *)
(***************************************************************************)
LEMMA SyntheticStart ==
  IInv /\ pc = "synthetics" =>
    /\ TypeOK /\ FileInv(bin) /\ live = reached_fns(prog)
    /\ ~RuntimeDone
    /\ Coverage /\ Extents /\ SyntheticsPlaced /\ NeedsKnown /\ FirstBuild /\ Aligned
    /\ mode = 2 => bin.ok
    /\ SynthCount(prog) \in Nat \ {0}
    /\ pos <= SynthCount(prog) => SynthBytes(prog, pos) \in Nat \ {0}
    /\ Len(synAt) = pos - 1 /\ synAt \in Seq(Nat)
  <1> SUFFICES ASSUME IInv, pc = "synthetics"
               PROVE
    /\ TypeOK /\ FileInv(bin) /\ live = reached_fns(prog)
    /\ ~RuntimeDone
    /\ Coverage /\ Extents /\ SyntheticsPlaced /\ NeedsKnown /\ FirstBuild /\ Aligned
    /\ mode = 2 => bin.ok
    /\ SynthCount(prog) \in Nat \ {0}
    /\ pos <= SynthCount(prog) => SynthBytes(prog, pos) \in Nat \ {0}
    /\ Len(synAt) = pos - 1 /\ synAt \in Seq(Nat)
    OBVIOUS
  <1>1. Building /\ ~RuntimeDone
    BY DEF Building, RuntimeDone
  <1>2. /\ TypeOK /\ FileInv(bin) /\ live = reached_fns(prog)
        /\ Coverage /\ Extents /\ SyntheticsPlaced /\ NeedsKnown /\ FirstBuild /\ Aligned
    BY <1>1 DEF IInv, BuildInv
  <1>3. mode = 2 => bin.ok
    BY <1>2 DEF Aligned
  <1>4. SynthCount(prog) \in Nat \ {0}
    BY <1>2, SynthFacts DEF TypeOK
  <1>5. ASSUME pos <= SynthCount(prog)
        PROVE  SynthBytes(prog, pos) \in Nat \ {0}
    <2>1. pos \in 1 .. SynthCount(prog) /\ prog \in Programs
      BY <1>2, <1>4, <1>5 DEF TypeOK
    <2> QED BY <2>1, SynthFacts
  <1>6. Len(synAt) = pos - 1 /\ synAt \in Seq(Nat)
    BY <1>2 DEF SyntheticsPlaced, TypeOK
  <1> QED BY <1>1, <1>2, <1>3, <1>4, <1>5, <1>6

\* A synthesized function laid no earlier than the cursor, which passes it.
LEMMA SyntheticExtends ==
  \A b \in Nat :
    /\ IInv /\ AtSynthetic /\ TypeOK'
    /\ synAt' = Append(synAt, b) /\ here <= b /\ b < here'
    => /\ Working /\ live' = reached_fns(prog') /\ ~RuntimeDone'
       /\ Placed' = Placed /\ Moving' = Moving
       /\ Coverage' /\ Extents' /\ SyntheticsPlaced' /\ NeedsKnown' /\ FirstBuild'
  <1> SUFFICES ASSUME NEW b \in Nat, IInv, AtSynthetic, TypeOK',
                      synAt' = Append(synAt, b), here <= b, b < here'
               PROVE
       /\ Working /\ live' = reached_fns(prog') /\ ~RuntimeDone'
       /\ Placed' = Placed /\ Moving' = Moving
       /\ Coverage' /\ Extents' /\ SyntheticsPlaced' /\ NeedsKnown' /\ FirstBuild'
    OBVIOUS
  <1>1. /\ pc = "synthetics" /\ pc' = "synthetics"
        /\ pos <= SynthCount(prog) /\ pos' = pos + 1
        /\ UNCHANGED <<at, copied, away, outgrown, again, need, rtBase>>
        /\ Working
    BY DEF AtSynthetic, Working
  <1>2. /\ TypeOK /\ live = reached_fns(prog) /\ ~RuntimeDone
        /\ Coverage /\ Extents /\ SyntheticsPlaced /\ NeedsKnown /\ FirstBuild
        /\ SynthCount(prog) \in Nat \ {0}
        /\ Len(synAt) = pos - 1 /\ synAt \in Seq(Nat)
    BY <1>1, SyntheticStart
  <1>3. ~RuntimeDone'
    BY <1>1 DEF RuntimeDone
  <1>4. Placed' = Placed /\ Moving' = Moving /\ at' = at
    BY <1>1 DEF Placed, Moving, Elements, Working
  <1>5. live' = reached_fns(prog')
    BY <1>1, <1>2 DEF Working
  <1>6. Coverage'
    BY <1>1, <1>2, <1>4 DEF Coverage, Working
  <1>7. NeedsKnown' /\ FirstBuild'
    BY <1>1, <1>2, SameJudgement DEF NeedsKnown, FirstBuild, Working
  <1>8. /\ Len(synAt') = pos
        /\ \A j \in DOMAIN synAt' : synAt'[j] = b \/ \E i \in DOMAIN synAt : synAt'[j] = synAt[i]
    <2>1. synAt \in Seq(Nat) /\ Len(synAt) + 1 = pos /\ pos \in Nat
      BY <1>2 DEF TypeOK
    <2>2. Len(synAt') = pos
      BY <2>1
    <2>3. \A j \in DOMAIN synAt' : IF j \in DOMAIN synAt THEN synAt'[j] = synAt[j]
                                                         ELSE synAt'[j] = b
      BY <2>1
    <2> QED BY <2>2, <2>3
  <1>9. SyntheticsPlaced'
    <2>1. here \in Nat /\ here' \in Nat /\ pos \in Nat
      BY <1>2 DEF TypeOK
    <2>2. \A j \in DOMAIN synAt : synAt[j] < here /\ synAt[j] \in Nat
      BY <1>2 DEF SyntheticsPlaced
    <2>3. \A j \in DOMAIN synAt' : synAt'[j] < here'
      BY <1>8, <2>1, <2>2
    <2>4. pos' <= SynthCount(prog') + 1 /\ Len(synAt') = pos' - 1
      BY <1>1, <1>2, <1>8, <2>1 DEF Working
    <2> QED BY <1>1, <1>3, <2>3, <2>4 DEF SyntheticsPlaced
  <1>10. Symbols' \subseteq Symbols \cup {b}
    <2>1. \A o \in Symbols' : \/ \E f \in Placed' : o = at'[f]
                              \/ \E j \in DOMAIN synAt' : o = synAt'[j]
      BY <1>3 DEF Symbols
    <2>2. \A f \in Placed : at[f] \in Symbols
      BY DEF Symbols
    <2>3. \A j \in DOMAIN synAt : synAt[j] \in Symbols
      BY DEF Symbols
    <2> QED BY <1>4, <1>8, <2>1, <2>2, <2>3
  <1>11. Extents'
    <2>1. here \in Nat /\ here' \in Nat /\ Symbols \subseteq Nat
      BY <1>2, SymbolNumbers DEF TypeOK
    <2>2. \A f \in Placed : CodeSize(f) \in Nat \ {0} /\ at[f] \in Int
      BY <1>2, LiveFacts DEF Placed, TypeOK, Addresses
    <2>3. \A f : CodeSize(f)' = CodeSize(f)
      BY <1>1, SameJudgement
    <2>4. StartSize <= here' /\ \A o \in Symbols' : o <= here'
      BY <1>2, <1>10, <2>1, PositiveConstants DEF Extents
    <2>5. \A f \in Placed : at[f] + CodeSize(f) <= here'
      BY <1>2, <2>1, <2>2 DEF Extents
    <2>6. ASSUME NEW f \in Placed, NEW o \in Symbols', o > at[f]
          PROVE  at[f] + CodeSize(f) <= o
      <3>1. CASE o \in Symbols
        BY <1>2, <2>6, <3>1 DEF Extents
      <3>2. CASE o = b
        BY <1>2, <2>1, <2>2, <3>2 DEF Extents
      <3> QED BY <1>10, <3>1, <3>2
    <2>7. \A f, g \in Placed : f # g => at[f] # at[g]
      BY <1>2 DEF Extents
    <2> QED BY <1>4, <2>3, <2>4, <2>5, <2>6, <2>7 DEF Extents
  <1> QED BY <1>1, <1>3, <1>4, <1>5, <1>6, <1>7, <1>9, <1>11

LEMMA StepWriteSyntheticPadded == IInv /\ WriteSyntheticPadded => IInv'
  <1> SUFFICES ASSUME IInv, WriteSyntheticPadded PROVE IInv'
    OBVIOUS
  <1> DEFINE n == SynthBytes(prog, pos)
  <1>1. /\ AtSynthetic /\ mode = 1 /\ why' = why
        /\ synAt' = Append(synAt, here)
        /\ here' = here + n + incr_padding(n)
        /\ pc = "synthetics" /\ pos <= SynthCount(prog)
    BY DEF WriteSyntheticPadded, AtSynthetic
  <1>2. TypeOK /\ n \in Nat \ {0}
    BY <1>1, SyntheticStart
  <1>3. incr_padding(n) \in Nat
    BY <1>2, PaddingPost
  <1> HIDE DEF n
  <1>4. here \in Nat /\ here' \in Nat /\ here < here'
    BY <1>1, <1>2, <1>3 DEF TypeOK
  <1>5. TypeOK'
    <2>1. synAt' \in Seq(Nat)
      BY <1>1, <1>2, <1>4 DEF TypeOK
    <2> QED BY <1>1, <1>2, <1>4, <2>1 DEF TypeOK, AtSynthetic
  <1>6. /\ Working /\ live' = reached_fns(prog') /\ ~RuntimeDone'
        /\ Coverage' /\ Extents' /\ SyntheticsPlaced' /\ NeedsKnown' /\ FirstBuild'
    BY <1>1, <1>4, <1>5, SyntheticExtends
  <1>7. Aligned' /\ RuntimePlaced'
    BY <1>1, <1>6 DEF Aligned, RuntimePlaced, Working
  <1> QED BY <1>5, <1>6, <1>7, StepFrame DEF BuildInv

LEMMA StepWriteSyntheticInPlace == IInv /\ WriteSyntheticInPlace => IInv'
  <1> SUFFICES ASSUME IInv, WriteSyntheticInPlace PROVE IInv'
    OBVIOUS
  <1> DEFINE n == SynthBytes(prog, pos)
             was == SynthWas(pos)
             b == incr_before(was)
             e == SynthEnd(pos)
  <1>1. /\ AtSynthetic /\ mode = 2
        /\ why' = (why \/ incr_before_why(was) \/ b + n > e)
        /\ synAt' = Append(synAt, b)
        /\ here' = incr_after(b + n, e)
        /\ pc = "synthetics" /\ pos <= SynthCount(prog)
    BY DEF WriteSyntheticInPlace, AtSynthetic
  <1>2. /\ TypeOK /\ FileInv(bin) /\ bin.ok /\ Aligned /\ ~RuntimeDone
        /\ n \in Nat \ {0}
        /\ Len(synAt) = pos - 1 /\ synAt \in Seq(Nat)
    BY <1>1, SyntheticStart
  <1>3. /\ was \in Int /\ e \in Int
        /\ was >= 0 => pos \in DOMAIN bin.synAt /\ was = bin.synAt[pos]
        /\ pos \in DOMAIN bin.synAt => e = bin.synEnd[pos] /\ e <= bin.rtBase
    <2>1. bin.synAt \in Seq(Nat) /\ bin.synEnd \in Seq(Nat)
      BY <1>2 DEF TypeOK, FileType
    <2>2. DOMAIN bin.synEnd = DOMAIN bin.synAt
          /\ \A j \in DOMAIN bin.synAt : bin.synEnd[j] <= bin.rtBase
      BY <1>2 DEF FileInv, Synthetics
    <2>3. IF pos \in DOMAIN bin.synAt
          THEN was = bin.synAt[pos] /\ was \in Nat
          ELSE was = -1
      BY <2>1 DEF SynthWas
    <2>4. IF pos \in DOMAIN bin.synAt
          THEN e = bin.synEnd[pos] /\ e \in Nat
          ELSE e = -1
      BY <2>1, <2>2 DEF SynthEnd
    <2> HIDE DEF was, e
    <2> QED BY <2>2, <2>3, <2>4
  <1> HIDE DEF n, was, e
  <1>4. here \in Nat /\ b \in Nat /\ here <= b /\ b < here' /\ here' \in Nat
    <2>1. here \in Nat
      BY <1>2 DEF TypeOK
    <2>2. b \in Nat /\ here <= b
      BY <1>3, <2>1 DEF incr_before, Larger
    <2> HIDE DEF b
    <2>3. here' \in Nat /\ b < here'
      BY <1>1, <1>2, <1>3, <2>2 DEF incr_after, Larger
    <2> QED BY <2>1, <2>2, <2>3
  <1>5. TypeOK'
    <2>1. synAt' \in Seq(Nat)
      BY <1>1, <1>2, <1>4 DEF TypeOK
    <2>2. why' \in BOOLEAN
      BY <1>1
    <2> QED BY <1>1, <1>2, <1>4, <2>1, <2>2 DEF TypeOK, AtSynthetic
  <1>6. /\ Working /\ live' = reached_fns(prog') /\ ~RuntimeDone'
        /\ Placed' = Placed /\ Moving' = Moving
        /\ Coverage' /\ Extents' /\ SyntheticsPlaced' /\ NeedsKnown' /\ FirstBuild'
    BY <1>1, <1>4, <1>5, SyntheticExtends
  <1>7. ASSUME ~why'
        PROVE  /\ ~why /\ here' <= bin.rtBase
               /\ \A j \in DOMAIN synAt' : synAt'[j] = SynthWas(j)
    <2>1. ~why /\ ~incr_before_why(was) /\ ~(b + n > e)
      BY <1>1, <1>7
    <2>2. ~(was < 0) /\ ~(here > was)
      BY <2>1 DEF incr_before_why
    <2>3. was >= 0 /\ b = was
      BY <1>3, <1>4, <2>2 DEF incr_before, Larger
    <2>4. e <= bin.rtBase
      BY <1>3, <2>3
    <2> HIDE DEF b
    <2>5. here' = e
      BY <1>1, <1>2, <1>3, <1>4, <2>1 DEF incr_after, Larger
    <2>6. \A j \in DOMAIN synAt : synAt[j] = SynthWas(j)
      BY <1>2, <2>1, <1>1 DEF Aligned
    <2>7. ASSUME NEW j \in DOMAIN synAt' PROVE synAt'[j] = SynthWas(j)
      <3>1. CASE j \in DOMAIN synAt
        BY <1>1, <1>2, <1>4, <2>6, <3>1
      <3>2. CASE j \notin DOMAIN synAt
        <4>1. j = pos /\ synAt'[j] = b
          BY <1>1, <1>2, <1>4, <3>2 DEF TypeOK
        <4> QED BY <2>3, <4>1 DEF was
      <3> QED BY <3>1, <3>2
    <2> QED BY <2>1, <2>4, <2>5, <2>7
  <1>8. Aligned'
    <2>1. at' = at /\ copied' = copied /\ away' = away /\ Placed' = Placed
      BY <1>6 DEF AtSynthetic, WriteSyntheticInPlace
    <2> QED BY <1>1, <1>2, <1>6, <1>7, <2>1, SameJudgement DEF Aligned, Working
  <1>9. RuntimePlaced'
    BY <1>6 DEF RuntimePlaced
  <1> QED BY <1>5, <1>6, <1>8, <1>9, StepFrame DEF BuildInv

LEMMA StepEmitRuntime == IInv /\ EmitRuntime => IInv'
  <1> SUFFICES ASSUME IInv, EmitRuntime PROVE IInv'
    OBVIOUS
  <1> DEFINE carried == need \cup (IF mode = 2 THEN bin.rts ELSE {})
  <1>1. /\ pc = "synthetics" /\ pos > SynthCount(prog) /\ pc' = "moved"
        /\ need' = CloseOver(carried)
        /\ rtBase' = here /\ here' = here + RtLen[need']
        /\ UNCHANGED <<why, pos, at, copied, away, outgrown, again, synAt>>
        /\ Working
    BY DEF EmitRuntime, Working
  <1>2. /\ TypeOK /\ FileInv(bin) /\ live = reached_fns(prog) /\ ~RuntimeDone
        /\ Coverage /\ Extents /\ SyntheticsPlaced /\ NeedsKnown /\ FirstBuild /\ Aligned
        /\ mode = 2 => bin.ok
        /\ SynthCount(prog) \in Nat \ {0}
        /\ Len(synAt) = pos - 1 /\ synAt \in Seq(Nat)
    BY <1>1, SyntheticStart
  <1>3. carried \in SUBSET Routine
    BY <1>2 DEF TypeOK, FileType
  <1>4. need \subseteq need' /\ need' \subseteq Routine
    BY <1>1, <1>3, CloseOverFacts
  <1>5. /\ RtLen[need'] \in Nat
        /\ \A r \in need' : RtOff[need'][r] \in Nat /\ RtOff[need'][r] < RtLen[need']
    BY <1>4, RuntimeFacts
  <1>6. here \in Nat /\ here' \in Nat /\ here <= here'
    BY <1>1, <1>2, <1>5 DEF TypeOK
  <1>7. TypeOK'
    BY <1>1, <1>2, <1>4, <1>6 DEF TypeOK, Working, Phases
  <1>8. RuntimeDone' /\ at' = at
    BY <1>1 DEF RuntimeDone
  <1>9. Placed' = Placed /\ Moving' = Moving
    BY <1>1 DEF Placed, Moving, Elements, Working
  <1>10. Coverage'
    BY <1>1, <1>2, <1>9 DEF Coverage, Working
  <1>11. Symbols \subseteq Nat
         /\ \A f \in Placed : CodeSize(f) \in Nat \ {0} /\ at[f] \in Int
    BY <1>2, SymbolNumbers, LiveFacts DEF Placed, TypeOK, Addresses
  <1>12. \A o \in Symbols' : \/ o \in Symbols
                             \/ o \in Nat /\ here <= o /\ o <= here'
    <2>1. ASSUME NEW o \in Symbols'
          PROVE  \/ \E f \in Placed' : o = at'[f]
                 \/ \E j \in DOMAIN synAt' : o = synAt'[j]
                 \/ \E r \in need' : o = rtBase' + RtOff[need'][r]
      BY DEF Symbols
    <2>2. \A f \in Placed' : at'[f] \in Symbols
      BY <1>8, <1>9 DEF Symbols
    <2>3. \A j \in DOMAIN synAt' : synAt'[j] \in Symbols
      BY <1>1 DEF Symbols
    <2>4. ASSUME NEW r \in need', NEW o, o = rtBase' + RtOff[need'][r]
          PROVE  o \in Nat /\ here <= o /\ o <= here'
      <3> DEFINE k == RtOff[need'][r]
                 l == RtLen[need']
      <3>1. k \in Nat /\ l \in Nat /\ k < l
        BY <1>5
      <3>2. o = here + k /\ here' = here + l
        BY <1>1, <2>4
      <3> HIDE DEF k, l
      <3> QED BY <1>6, <3>1, <3>2
    <2> QED BY <2>1, <2>2, <2>3, <2>4
  <1>13. Extents'
    <2>1. \A f : CodeSize(f)' = CodeSize(f)
      BY <1>1, SameJudgement
    <2>2. StartSize <= here' /\ \A o \in Symbols' : o <= here'
      <3>1. StartSize <= here /\ \A o \in Symbols : o <= here
        BY <1>2 DEF Extents
      <3>2. StartSize <= here'
        BY <1>6, <3>1, PositiveConstants
      <3>3. ASSUME NEW o \in Symbols' PROVE o <= here'
        <4>1. CASE o \in Symbols
          <5>1. o \in Nat /\ o <= here
            BY <1>11, <3>1, <4>1
          <5> QED BY <1>6, <5>1
        <4> QED BY <1>12, <4>1
      <3> QED BY <3>2, <3>3
    <2>3. \A f \in Placed : at[f] + CodeSize(f) <= here'
      BY <1>2, <1>6, <1>11 DEF Extents
    <2>4. ASSUME NEW f \in Placed, NEW o \in Symbols', o > at[f]
          PROVE  at[f] + CodeSize(f) <= o
      <3>1. CASE o \in Symbols
        BY <1>2, <2>4, <3>1 DEF Extents
      <3>2. CASE o \in Nat /\ here <= o
        BY <1>2, <1>6, <1>11, <3>2 DEF Extents
      <3> QED BY <1>12, <3>1, <3>2
    <2>5. \A f, g \in Placed : f # g => at[f] # at[g]
      BY <1>2 DEF Extents
    <2> QED BY <1>8, <1>9, <2>1, <2>2, <2>3, <2>4, <2>5 DEF Extents
  <1>14. SyntheticsPlaced'
    <2>1. pos \in Nat /\ pos <= SynthCount(prog) + 1
      BY <1>1, <1>2 DEF SyntheticsPlaced, TypeOK
    <2>2. Len(synAt') = SynthCount(prog')
      BY <1>1, <1>2, <2>1 DEF Working
    <2>3. \A j \in DOMAIN synAt : synAt[j] < here
      BY <1>2 DEF SyntheticsPlaced
    <2> QED BY <1>1, <1>8, <2>2, <2>3 DEF SyntheticsPlaced
  <1>15. NeedsKnown'
    BY <1>1, <1>2, <1>4, SameJudgement DEF NeedsKnown, Working
  <1>16. RuntimePlaced'
    <2>1. \A f \in Placed : at[f] < here
      <3>1. \A f \in Placed : at[f] + CodeSize(f) <= here
        BY <1>2 DEF Extents
      <3> QED BY <1>6, <1>11, <3>1
    <2>2. StartSize <= here
      BY <1>2 DEF Extents
    <2>3. rtBase' + RtLen[need'] <= here'
      BY <1>1, <1>6
    <2> QED BY <1>1, <1>8, <1>9, <2>1, <2>2, <2>3 DEF RuntimePlaced
  <1>17. FirstBuild'
    BY <1>1, <1>2 DEF FirstBuild, Working
  <1>18. Aligned'
    BY <1>1, <1>2, <1>8, <1>9, SameJudgement DEF Aligned, Working
  <1>19. live' = reached_fns(prog')
    BY <1>1, <1>2 DEF Working
  <1> QED BY <1>1, <1>7, <1>10, <1>13, <1>14, <1>15, <1>16, <1>17, <1>18, <1>19,
             StepFrame DEF BuildInv

-----------------------------------------------------------------------------
(***************************************************************************)
(* The overflow.                                                           *)
(***************************************************************************)
LEMMA AwayStart ==
  \A f \in Fn : IInv /\ NextAway(f) =>
    /\ Working /\ SameFrame /\ TypeOK /\ FileInv(bin)
    /\ pc = "moved" /\ pc' = "moved" /\ RuntimeDone /\ RuntimeDone'
    /\ synAt' = synAt /\ outgrown' = outgrown /\ rtBase' = rtBase
    /\ need' = need /\ away' = away \ {f}
    /\ f \in away /\ f \in live /\ live = reached_fns(prog)
    /\ mode = 2 /\ bin.ok /\ bin.at[f] > 0 /\ why' \in BOOLEAN
    /\ Coverage /\ Extents /\ SyntheticsPlaced /\ NeedsKnown /\ RuntimePlaced /\ Aligned
  <1> SUFFICES ASSUME NEW f \in Fn, IInv, NextAway(f)
               PROVE
    /\ Working /\ SameFrame /\ TypeOK /\ FileInv(bin)
    /\ pc = "moved" /\ pc' = "moved" /\ RuntimeDone /\ RuntimeDone'
    /\ synAt' = synAt /\ outgrown' = outgrown /\ rtBase' = rtBase
    /\ need' = need /\ away' = away \ {f}
    /\ f \in away /\ f \in live /\ live = reached_fns(prog)
    /\ mode = 2 /\ bin.ok /\ bin.at[f] > 0 /\ why' \in BOOLEAN
    /\ Coverage /\ Extents /\ SyntheticsPlaced /\ NeedsKnown /\ RuntimePlaced /\ Aligned
    OBVIOUS
  <1>1. /\ pc = "moved" /\ pc' = "moved" /\ f \in away /\ away' = away \ {f}
        /\ UNCHANGED <<outgrown, need, synAt, rtBase>>
        /\ Working /\ why' \in BOOLEAN
    BY DEF NextAway, Working
  <1>2. Building /\ RuntimeDone /\ RuntimeDone'
    BY <1>1 DEF Building, RuntimeDone
  <1>3. /\ TypeOK /\ FileInv(bin) /\ live = reached_fns(prog)
        /\ Coverage /\ Extents /\ SyntheticsPlaced /\ NeedsKnown /\ RuntimePlaced
        /\ FirstBuild /\ Aligned
    BY <1>2 DEF IInv, BuildInv
  <1>4. mode = 2
    BY <1>1, <1>3 DEF FirstBuild, TypeOK
  <1>5. bin.ok /\ bin.at[f] > 0
    BY <1>1, <1>3, <1>4 DEF Aligned
  <1>6. f \in live
    BY <1>1, <1>3 DEF TypeOK
  <1>7. SameFrame
    BY <1>1 DEF SameFrame, Working, Phases, RuntimeDone
  <1> QED BY <1>1, <1>2, <1>3, <1>4, <1>5, <1>6, <1>7

\* A function whose old place is not gone by begins there.
LEMMA AwayBegins ==
  \A f \in Fn : IInv /\ NextAway(f) /\ ~why' => ~why /\ Begins(f) = bin.at[f]
  <1> SUFFICES ASSUME NEW f \in Fn, IInv, NextAway(f), ~why'
               PROVE  ~why /\ Begins(f) = bin.at[f]
    OBVIOUS
  <1>1. ~why /\ ~incr_before_why(bin.at[f])
    BY DEF NextAway
  <1>2. bin.at[f] \in Int /\ here \in Nat
    BY AwayStart, SlotFacts DEF TypeOK
  <1>3. ~(here > bin.at[f])
    BY <1>1 DEF incr_before_why
  <1> QED BY <1>1, <1>2, <1>3 DEF Begins, incr_before, Larger

\* What is left to show once a function of the overflow has been dealt with.
LEMMA AwayEnd ==
  \A f \in Fn :
    /\ IInv /\ NextAway(f)
    /\ TypeOK' /\ Extents' /\ RuntimePlaced' /\ Aligned' /\ NeedsKnown'
    /\ \A g \in live : g # f => at'[g] = at[g]
    /\ at'[f] >= 0 /\ (at'[f] = 0 => f \in Moving')
    /\ Moving \subseteq Moving'
    => IInv'
  <1> SUFFICES ASSUME NEW f \in Fn, IInv, NextAway(f),
                      TypeOK', Extents', RuntimePlaced', Aligned', NeedsKnown',
                      \A g \in live : g # f => at'[g] = at[g],
                      at'[f] >= 0, at'[f] = 0 => f \in Moving',
                      Moving \subseteq Moving'
               PROVE  IInv'
    OBVIOUS
  <1>1. /\ Working /\ TypeOK /\ pc = "moved" /\ pc' = "moved"
        /\ RuntimeDone /\ RuntimeDone'
        /\ synAt' = synAt /\ rtBase' = rtBase /\ away' = away \ {f}
        /\ live = reached_fns(prog) /\ mode = 2
        /\ Coverage /\ SyntheticsPlaced
    BY AwayStart
  <1>2. Coverage'
    <2>1. \A g \in live : at'[g] >= 0
      BY <1>1 DEF Coverage
    <2>2. \A g \in live : at'[g] = 0 => g \in away' \cup Moving'
      BY <1>1 DEF Coverage
    <2> QED BY <1>1, <2>1, <2>2 DEF Coverage, Working
  <1>3. SyntheticsPlaced'
    BY <1>1 DEF SyntheticsPlaced, Working
  <1>4. FirstBuild' /\ live' = reached_fns(prog')
    BY <1>1 DEF FirstBuild, Working
  <1>5. BuildInv'
    BY <1>2, <1>3, <1>4 DEF BuildInv
  <1> QED BY <1>1, <1>5, StepFrame

LEMMA StepCopyAway ==
  \A f \in Fn : IInv /\ CopyAway(f) => IInv'
  <1> SUFFICES ASSUME NEW f \in Fn, IInv, CopyAway(f) PROVE IInv'
    OBVIOUS
  <1> DEFINE a == Begins(f)
  <1>1. /\ NextAway(f) /\ f \notin incr_regenerate
        /\ at' = [at EXCEPT ![f] = a]
        /\ here' = a + (bin.end[f] - bin.at[f])
        /\ copied' = copied \cup {f}
        /\ again' = again
    BY DEF CopyAway
  <1>2. /\ Working /\ SameFrame /\ TypeOK /\ FileInv(bin)
        /\ pc = "moved" /\ pc' = "moved" /\ RuntimeDone /\ RuntimeDone'
        /\ synAt' = synAt /\ outgrown' = outgrown /\ rtBase' = rtBase
        /\ need' = need /\ away' = away \ {f} /\ why' \in BOOLEAN
        /\ f \in away /\ f \in live /\ live = reached_fns(prog)
        /\ mode = 2 /\ bin.ok /\ bin.at[f] > 0
        /\ Extents /\ NeedsKnown /\ RuntimePlaced /\ Aligned
    BY <1>1, AwayStart
  <1>3. live \subseteq Fn /\ CodeSize(f) \in Nat \ {0}
    BY <1>2, LiveFacts
  <1>4. a \in Nat /\ here <= a /\ bin.at[f] <= a
    BY <1>2, BeginsFacts
  <1>5. bin.at[f] \in Nat /\ bin.end[f] \in Int /\ bin.at[f] + CodeSize(f) <= bin.end[f]
    <2>1. bin.at[f] \in Int /\ bin.end[f] \in Int
          /\ bin.at[f] + SizeIn(bin, f) <= bin.end[f]
      BY <1>2, SlotFacts
    <2>2. SizeIn(bin, f) = CodeSize(f)
      BY <1>1, <1>2, KeptFacts
    <2> QED BY <1>2, <2>1, <2>2
  <1>6. here' \in Nat /\ a + CodeSize(f) <= here' /\ a > 0
    BY <1>1, <1>2, <1>3, <1>4, <1>5
  <1> HIDE DEF a
  <1>7. at'[f] = a /\ \A g \in live : g # f => at'[g] = at[g]
    BY <1>1, <1>2, <1>3 DEF TypeOK
  <1>8. TypeOK'
    <2>1. at' \in [Fn -> Addresses]
      BY <1>1, <1>2, <1>4 DEF TypeOK, Addresses
    <2>2. pos' = pos
      BY <1>1 DEF NextAway
    <2> QED BY <1>1, <1>2, <1>6, <2>1, <2>2 DEF TypeOK, Working
  <1>9. Puts(f, a)
    BY <1>1, <1>2, <1>4, <1>6 DEF Puts
  <1>10. Extents' /\ RuntimePlaced'
    BY <1>2, <1>4, <1>8, <1>9, PutsExtents, PutsRuntime
  <1>11. NeedsKnown'
    BY <1>1, <1>2, <1>7, SameJudgement DEF NeedsKnown, Working
  <1>12. Placed' \subseteq Placed \cup {f}
    BY <1>2, <1>3, <1>4, <1>9, PutsSymbols
  <1>13. Moving' = Moving
    BY <1>1, <1>2 DEF Moving, Elements
  <1>14. Aligned'
    <2>1. ASSUME ~why'
          PROVE  /\ ~why
                 /\ \A g \in Placed' : at'[g] = bin.at[g] \/ g \in Moving
      <3>1. ~why /\ a = bin.at[f]
        BY <1>1, <2>1, AwayBegins DEF a
      <3> QED BY <1>2, <1>7, <1>12, <3>1 DEF Aligned, Placed
    <2> QED BY <1>1, <1>2, <1>13, <2>1, SameJudgement DEF Aligned, Working
  <1> QED BY <1>1, <1>4, <1>6, <1>7, <1>8, <1>10, <1>11, <1>13, <1>14, AwayEnd

LEMMA StepWriteAway ==
  \A f \in Fn : IInv /\ WriteAway(f) => IInv'
  <1> SUFFICES ASSUME NEW f \in Fn, IInv, WriteAway(f) PROVE IInv'
    OBVIOUS
  <1> DEFINE a == Begins(f)
  <1>1. /\ NextAway(f) /\ f \in incr_regenerate /\ Fits(f)
        /\ at' = [at EXCEPT ![f] = a]
        /\ here' = incr_after(a + CodeSize(f), bin.end[f])
        /\ copied' = copied /\ again' = again
    BY DEF WriteAway
  <1>2. /\ Working /\ SameFrame /\ TypeOK /\ FileInv(bin)
        /\ pc = "moved" /\ pc' = "moved" /\ RuntimeDone /\ RuntimeDone'
        /\ synAt' = synAt /\ outgrown' = outgrown /\ rtBase' = rtBase
        /\ need' = need /\ away' = away \ {f} /\ why' \in BOOLEAN
        /\ f \in away /\ f \in live /\ live = reached_fns(prog)
        /\ mode = 2 /\ bin.ok /\ bin.at[f] > 0
        /\ Coverage /\ Extents /\ NeedsKnown /\ RuntimePlaced /\ Aligned
    BY <1>1, AwayStart
  <1>3. live \subseteq Fn /\ CodeSize(f) \in Nat \ {0}
    BY <1>2, LiveFacts
  <1>4. a \in Nat /\ here <= a /\ bin.at[f] <= a /\ bin.at[f] \in Int /\ bin.end[f] \in Int
    BY <1>2, BeginsFacts, SlotFacts
  <1>5. a + CodeSize(f) <= bin.end[f]
    BY <1>1 DEF Fits
  <1>6. here' = bin.end[f] /\ here' \in Nat /\ a > 0
    BY <1>1, <1>2, <1>3, <1>4, <1>5 DEF incr_after, Larger
  <1> HIDE DEF a
  <1>7. at'[f] = a /\ \A g \in live : g # f => at'[g] = at[g]
    BY <1>1, <1>2, <1>3 DEF TypeOK
  <1>8. TypeOK'
    <2>1. at' \in [Fn -> Addresses]
      BY <1>1, <1>2, <1>4 DEF TypeOK, Addresses
    <2>2. pos' = pos
      BY <1>1 DEF NextAway
    <2> QED BY <1>1, <1>2, <1>6, <2>1, <2>2 DEF TypeOK, Working
  <1>9. Puts(f, a)
    BY <1>1, <1>2, <1>4, <1>5, <1>6 DEF Puts
  <1>10. Extents' /\ RuntimePlaced'
    BY <1>2, <1>4, <1>8, <1>9, PutsExtents, PutsRuntime
  <1>11. f \in copied \/ CodeNeeds(f) \subseteq need
    BY <1>1, <1>2 DEF NeedsKnown, Coverage
  <1>12. NeedsKnown'
    BY <1>1, <1>2, <1>7, <1>11, SameJudgement DEF NeedsKnown, Working
  <1>13. Placed' \subseteq Placed \cup {f}
    BY <1>2, <1>3, <1>4, <1>9, PutsSymbols
  <1>14. Moving' = Moving
    BY <1>1, <1>2 DEF Moving, Elements
  <1>15. Aligned'
    <2>1. ASSUME ~why'
          PROVE  /\ ~why
                 /\ \A g \in Placed' : at'[g] = bin.at[g] \/ g \in Moving
      <3>1. ~why /\ a = bin.at[f]
        BY <1>1, <2>1, AwayBegins DEF a
      <3> QED BY <1>2, <1>7, <1>13, <3>1 DEF Aligned, Placed
    <2> QED BY <1>1, <1>2, <1>14, <2>1, SameJudgement DEF Aligned, Working
  <1> QED BY <1>1, <1>4, <1>6, <1>7, <1>8, <1>10, <1>12, <1>14, <1>15, AwayEnd

LEMMA StepOutgrowAgain ==
  \A f \in Fn : IInv /\ OutgrowAgain(f) => IInv'
  <1> SUFFICES ASSUME NEW f \in Fn, IInv, OutgrowAgain(f) PROVE IInv'
    OBVIOUS
  <1>1. /\ NextAway(f) /\ f \in incr_regenerate /\ ~Fits(f)
        /\ again' = Append(again, f)
        /\ here' = incr_after(Begins(f), bin.end[f])
        /\ at' = at /\ copied' = copied
    BY DEF OutgrowAgain
  <1>2. /\ Working /\ SameFrame /\ TypeOK /\ FileInv(bin)
        /\ pc = "moved" /\ pc' = "moved" /\ RuntimeDone /\ RuntimeDone'
        /\ synAt' = synAt /\ outgrown' = outgrown /\ rtBase' = rtBase
        /\ need' = need /\ away' = away \ {f} /\ why' \in BOOLEAN
        /\ f \in away /\ f \in live /\ live = reached_fns(prog)
        /\ mode = 2 /\ bin.ok /\ bin.at[f] > 0
        /\ Coverage /\ Extents /\ NeedsKnown /\ RuntimePlaced /\ Aligned
    BY <1>1, AwayStart
  <1>3. live \subseteq Fn /\ CodeSize(f) \in Nat \ {0}
    BY <1>2, LiveFacts
  <1>4. Begins(f) \in Nat /\ here <= Begins(f) /\ bin.at[f] \in Int /\ bin.end[f] \in Int
    BY <1>2, BeginsFacts, SlotFacts
  <1>5. here' \in Nat /\ here <= here'
    <2>1. here \in Nat
      BY <1>2 DEF TypeOK
    <2> QED BY <1>1, <1>4, <2>1 DEF incr_after, Larger
  <1>6. TypeOK'
    <2>1. again' \in Seq(live)
      BY <1>1, <1>2 DEF TypeOK
    <2>2. pos' = pos
      BY <1>1 DEF NextAway
    <2> QED BY <1>1, <1>2, <1>5, <2>1, <2>2 DEF TypeOK, Working
  <1>7. Goes
    BY <1>1, <1>2, <1>5 DEF Goes
  <1>8. Extents' /\ RuntimePlaced'
    BY <1>2, <1>3, <1>6, <1>7, GoesExtents, GoesRuntime
  <1>9. NeedsKnown'
    <2>1. f \in copied \/ CodeNeeds(f) \subseteq need
      BY <1>1, <1>2 DEF NeedsKnown, Coverage
    <2> QED BY <1>1, <1>2, <2>1, SameJudgement DEF NeedsKnown, Working
  <1>10. Placed' \subseteq Placed
    BY <1>2, <1>3, <1>6, <1>7, GoesSymbols
  <1>11. Moving' = Moving \cup {f}
    <2>1. again \in Seq(live)
      BY <1>2 DEF TypeOK
    <2>2. Elements(again') = Elements(again) \cup {f}
      BY <1>1, <2>1, AppendElements
    <2>3. Elements(outgrown') = Elements(outgrown)
      BY <1>2 DEF Elements
    <2>4. Moving' = Elements(again') \cup Elements(outgrown')
      BY DEF Moving, Elements
    <2> QED BY <2>2, <2>3, <2>4 DEF Moving
  <1>12. Aligned'
    <2>1. ASSUME ~why'
          PROVE  ~why /\ bin.end[f] < bin.at[f] + CodeSize(f)
      <3>1. ~why /\ Begins(f) = bin.at[f]
        BY <1>1, <2>1, AwayBegins
      <3>2. ~(bin.at[f] + CodeSize(f) <= bin.end[f])
        BY <1>1, <3>1 DEF Fits
      <3> QED BY <1>3, <1>4, <3>1, <3>2
    <2> QED BY <1>1, <1>2, <1>10, <1>11, <2>1, SameJudgement DEF Aligned, Working
  <1>13. at[f] >= 0
    BY <1>2 DEF Coverage
  <1> QED BY <1>1, <1>6, <1>8, <1>9, <1>11, <1>12, <1>13, AwayEnd

LEMMA StepPlaceAway == IInv /\ PlaceAway => IInv'
  BY StepCopyAway, StepWriteAway, StepOutgrowAgain DEF PlaceAway

\* What a step of the late phase, or the end of the one before, starts from.
LEMMA LateStart ==
  IInv /\ pc \in {"moved", "late"} =>
    /\ TypeOK /\ FileInv(bin) /\ RuntimeDone /\ Building
    /\ live = reached_fns(prog)
    /\ Coverage /\ Extents /\ SyntheticsPlaced /\ NeedsKnown /\ RuntimePlaced
    /\ FirstBuild /\ Aligned
    /\ Late \in Seq(live) /\ Elements(Late) = Moving
    /\ mode = 2 => bin.ok
    /\ Late # <<>> => mode = 2
  <1> SUFFICES ASSUME IInv, pc \in {"moved", "late"}
               PROVE
    /\ TypeOK /\ FileInv(bin) /\ RuntimeDone /\ Building
    /\ live = reached_fns(prog)
    /\ Coverage /\ Extents /\ SyntheticsPlaced /\ NeedsKnown /\ RuntimePlaced
    /\ FirstBuild /\ Aligned
    /\ Late \in Seq(live) /\ Elements(Late) = Moving
    /\ mode = 2 => bin.ok
    /\ Late # <<>> => mode = 2
    OBVIOUS
  <1>1. RuntimeDone /\ Building
    BY DEF Building, RuntimeDone
  <1>2. /\ TypeOK /\ FileInv(bin) /\ live = reached_fns(prog)
        /\ Coverage /\ Extents /\ SyntheticsPlaced /\ NeedsKnown /\ RuntimePlaced
        /\ FirstBuild /\ Aligned
    BY <1>1 DEF IInv, BuildInv
  <1>3. again \in Seq(live) /\ outgrown \in Seq(live)
    BY <1>2 DEF TypeOK
  <1>4. Late \in Seq(live) /\ Elements(Late) = Moving
    BY <1>3, ConcatElements DEF Late, Moving
  <1>5. mode = 2 => bin.ok
    BY <1>2 DEF Aligned
  <1>6. mode = 1 => Late = <<>>
    BY <1>2 DEF FirstBuild, Late
  <1>7. mode \in {1, 2}
    BY <1>2 DEF TypeOK
  <1> QED BY <1>1, <1>2, <1>4, <1>5, <1>6, <1>7

LEMMA StepBeginLate == IInv /\ BeginLate => IInv'
  <1> SUFFICES ASSUME IInv, BeginLate PROVE IInv'
    OBVIOUS
  <1>1. /\ pc = "moved" /\ pc' = "late" /\ away = {} /\ Late # <<>>
        /\ here <= incr_text_end(bin) /\ here' = incr_text_end(bin)
        /\ pos' = 1
        /\ UNCHANGED <<why, at, copied, away, outgrown, again, need, synAt, rtBase>>
        /\ Working
    BY DEF BeginLate, Working
  <1>2. /\ TypeOK /\ FileInv(bin) /\ RuntimeDone
        /\ live = reached_fns(prog)
        /\ Coverage /\ Extents /\ SyntheticsPlaced /\ NeedsKnown /\ RuntimePlaced
        /\ FirstBuild /\ Aligned
        /\ Late \in Seq(live) /\ Elements(Late) = Moving
        /\ mode = 2 /\ bin.ok
    BY <1>1, LateStart
  <1>3. incr_text_end(bin) \in Nat
    BY <1>2, SectionFacts
  <1>4. TypeOK'
    BY <1>1, <1>2, <1>3 DEF TypeOK, Working, Phases
  <1>5. RuntimeDone'
    BY <1>1 DEF RuntimeDone
  <1>6. Goes
    BY <1>1, <1>2 DEF Goes, SameFrame, RuntimeDone, Working, Phases
  <1>7. live \subseteq Fn
    BY <1>2, LiveFacts
  <1>8. Extents' /\ RuntimePlaced'
    BY <1>2, <1>4, <1>6, <1>7, GoesExtents, GoesRuntime
  <1>9. Late' = Late /\ Moving' = Moving /\ Placed' = Placed
    BY <1>1 DEF Late, Moving, Elements, Placed, Working
  <1>10. Coverage'
    <2>1. \A f \in live : at[f] >= 0 /\ (at[f] = 0 => f \in Moving)
      BY <1>1, <1>2 DEF Coverage
    <2>2. \A f \in Moving : \E i \in DOMAIN Late : i >= 1 /\ Late[i] = f
      BY <1>2 DEF Elements
    <2> QED BY <1>1, <1>9, <2>1, <2>2 DEF Coverage, Working
  <1>11. SyntheticsPlaced'
    BY <1>1, <1>2, <1>5 DEF SyntheticsPlaced, Working
  <1>12. NeedsKnown' /\ FirstBuild'
    BY <1>1, <1>2, SameJudgement DEF NeedsKnown, FirstBuild, Working
  <1>13. Aligned'
    BY <1>1, <1>2, <1>5, <1>9, SameJudgement DEF Aligned, Working
  <1>14. BuildInv'
    BY <1>1, <1>2, <1>8, <1>10, <1>11, <1>12, <1>13 DEF BuildInv, Working
  <1> QED BY <1>1, <1>4, <1>14, StepFrame

LEMMA StepPlaceLate == IInv /\ PlaceLate => IInv'
  <1> SUFFICES ASSUME IInv, PlaceLate PROVE IInv'
    OBVIOUS
  <1> DEFINE f == Late[pos]
  <1>1. /\ pc = "late" /\ pc' = "late" /\ pos <= Len(Late)
        /\ at' = [at EXCEPT ![f] = here]
        /\ here' = here + CodeSize(f) + incr_padding(CodeSize(f))
        /\ pos' = pos + 1
        /\ UNCHANGED <<why, copied, away, outgrown, again, need, synAt, rtBase>>
        /\ Working
    BY DEF PlaceLate, Working
  <1>2. /\ TypeOK /\ FileInv(bin) /\ RuntimeDone
        /\ live = reached_fns(prog)
        /\ Coverage /\ Extents /\ SyntheticsPlaced /\ NeedsKnown /\ RuntimePlaced
        /\ FirstBuild /\ Aligned
        /\ Late \in Seq(live) /\ Elements(Late) = Moving
    BY <1>1, LateStart
  <1>3. pos \in DOMAIN Late /\ pos \in Nat /\ here \in Nat
    BY <1>1, <1>2 DEF TypeOK
  <1>4. f \in live /\ f \in Moving
    BY <1>2, <1>3 DEF Elements
  <1> HIDE DEF f
  <1>5. /\ live \subseteq Fn
        /\ CodeSize(f) \in Nat \ {0} /\ incr_padding(CodeSize(f)) \in Nat
    BY <1>2, <1>4, LiveFacts
  <1>6. here' \in Nat /\ here + CodeSize(f) <= here' /\ here > 0
    <2>1. here > 0
      BY <1>2, <1>3, PositiveConstants DEF Extents
    <2> QED BY <1>1, <1>3, <1>5, <2>1
  <1>7. at'[f] = here /\ \A g \in live : g # f => at'[g] = at[g]
    BY <1>1, <1>2, <1>4, <1>5 DEF TypeOK
  <1>8. TypeOK'
    <2>1. at' \in [Fn -> Addresses]
      BY <1>1, <1>2, <1>3 DEF TypeOK, Addresses
    <2> QED BY <1>1, <1>2, <1>6, <2>1 DEF TypeOK, Working
  <1>9. RuntimeDone'
    BY <1>1 DEF RuntimeDone
  <1>10. Puts(f, here)
    BY <1>1, <1>2, <1>3, <1>6 DEF Puts, SameFrame, RuntimeDone, Working, Phases
  <1>11. Extents' /\ RuntimePlaced'
    BY <1>2, <1>3, <1>4, <1>8, <1>10, PutsExtents, PutsRuntime
  <1>12. Late' = Late /\ Moving' = Moving
    BY <1>1 DEF Late, Moving, Elements
  <1>13. Placed' \subseteq Placed \cup {f}
    BY <1>2, <1>3, <1>4, <1>5, <1>10, PutsSymbols
  <1>14. Coverage'
    <2>0. away = {} /\ \A g \in live : at[g] >= 0
      BY <1>1, <1>2 DEF Coverage
    <2>1. \A g \in live : at'[g] >= 0
      BY <1>3, <1>7, <2>0
    <2>2. ASSUME NEW g \in live, at'[g] = 0
          PROVE  \E i \in DOMAIN Late : i >= pos + 1 /\ Late[i] = g
      <3>1. g # f /\ at[g] = 0
        BY <1>6, <1>7, <2>2
      <3>2. PICK i \in DOMAIN Late : i >= pos /\ Late[i] = g
        BY <1>1, <1>2, <3>1 DEF Coverage
      <3>3. i # pos
        BY <3>1, <3>2 DEF f
      <3>4. i \in Nat
        BY <1>2, <3>2
      <3> QED BY <1>3, <3>2, <3>3, <3>4
    <2> QED BY <1>1, <1>12, <2>0, <2>1, <2>2 DEF Coverage, Working
  <1>15. SyntheticsPlaced'
    BY <1>1, <1>2, <1>9 DEF SyntheticsPlaced, Working
  <1>16. NeedsKnown'
    <2>1. \A g \in live : \/ g \in copied
                          \/ CodeNeeds(g) \subseteq need
                          \/ g \in away /\ g \notin incr_regenerate
      BY <1>1, <1>2 DEF NeedsKnown, Coverage
    <2> QED BY <1>1, <1>2, <2>1, SameJudgement DEF NeedsKnown, Working
  <1>17. FirstBuild'
    BY <1>1, <1>2 DEF FirstBuild, Working
  <1>18. Aligned'
    <2>1. \A g \in Placed' : g \in live /\ (g # f => g \in Placed /\ at'[g] = at[g])
      BY <1>1, <1>7, <1>13 DEF Placed, Working
    <2> QED BY <1>1, <1>2, <1>4, <1>9, <1>12, <2>1, SameJudgement DEF Aligned, Working
  <1>19. BuildInv'
    BY <1>1, <1>2, <1>11, <1>14, <1>15, <1>16, <1>17, <1>18 DEF BuildInv, Working
  <1> QED BY <1>1, <1>8, <1>19, StepFrame

-----------------------------------------------------------------------------
(***************************************************************************)
(* The finished image.                                                     *)
(***************************************************************************)
LEMMA FinishedFacts ==
  IInv /\ LaidOut =>
    /\ TypeOK /\ FileInv(bin) /\ live = reached_fns(prog)
    /\ mode = 2 => bin.ok
    /\ pc \in {"moved", "late"}
    /\ away = {} /\ Placed = live
    /\ SymbolAddresses = Symbols \cup {here}
    /\ \A f \in live : f \in copied \/ CodeNeeds(f) \subseteq need
  <1> SUFFICES ASSUME IInv, LaidOut
               PROVE
    /\ TypeOK /\ FileInv(bin) /\ live = reached_fns(prog)
    /\ mode = 2 => bin.ok
    /\ pc \in {"moved", "late"}
    /\ away = {} /\ Placed = live
    /\ SymbolAddresses = Symbols \cup {here}
    /\ \A f \in live : f \in copied \/ CodeNeeds(f) \subseteq need
    OBVIOUS
  <1>1. pc \in {"moved", "late"}
    BY DEF LaidOut
  <1>2. /\ TypeOK /\ FileInv(bin) /\ RuntimeDone /\ live = reached_fns(prog)
        /\ Coverage /\ NeedsKnown
        /\ Late \in Seq(live) /\ Elements(Late) = Moving
        /\ mode = 2 => bin.ok
    BY <1>1, LateStart
  <1>3. away = {}
    BY <1>2 DEF LaidOut, Coverage
  <1>4. \A f \in live : at[f] >= 0
    BY <1>1, <1>2 DEF Coverage
  <1>5. \A f \in live : at[f] # 0
    <2>1. CASE pc = "moved"
      <3>1. Late = <<>>
        BY <2>1 DEF LaidOut
      <3>2. Moving = {}
        BY <1>2, <3>1 DEF Elements
      <3> QED BY <1>2, <1>3, <2>1, <3>2 DEF Coverage
    <2>2. CASE pc = "late"
      <3>1. pos > Len(Late) /\ pos \in Nat
        BY <1>2, <2>2 DEF LaidOut, TypeOK
      <3>2. \A i \in DOMAIN Late : ~(i >= pos)
        BY <1>2, <3>1
      <3> QED BY <1>2, <2>2, <3>2 DEF Coverage
    <2> QED BY <1>1, <2>1, <2>2
  <1>6. \A f \in live : at[f] \in Int
    BY <1>2, LiveFacts DEF TypeOK, Addresses
  <1>7. Placed = live
    BY <1>4, <1>5, <1>6 DEF Placed
  <1>8. \A r \in need : RtAt(rtBase, need)[r] = rtBase + RtOff[need][r]
    BY <1>2 DEF TypeOK, RtAt
  <1>9. SymbolAddresses = Symbols \cup {here}
    BY <1>2, <1>7, <1>8 DEF SymbolAddresses, Symbols
  <1>10. \A f \in live : f \in copied \/ CodeNeeds(f) \subseteq need
    BY <1>2, <1>3, <1>4 DEF NeedsKnown
  <1> QED BY <1>1, <1>2, <1>3, <1>7, <1>9, <1>10

\* A symbol below the cursor has a next one, and it is the nearest.
LEMMA NextSymbolFacts ==
  IInv /\ LaidOut =>
    \A a \in Nat : a < here =>
      /\ NextSymbol(a) \in Symbols \cup {here}
      /\ NextSymbol(a) \in Nat /\ a < NextSymbol(a)
      /\ \A o \in Symbols : o > a => NextSymbol(a) <= o
  <1> SUFFICES ASSUME IInv, LaidOut, NEW a \in Nat, a < here
               PROVE  /\ NextSymbol(a) \in Symbols \cup {here}
                      /\ NextSymbol(a) \in Nat /\ a < NextSymbol(a)
                      /\ \A o \in Symbols : o > a => NextSymbol(a) <= o
    OBVIOUS
  <1> DEFINE S == {e \in SymbolAddresses : e > a}
  <1>1. TypeOK /\ live = reached_fns(prog) /\ SymbolAddresses = Symbols \cup {here}
    BY FinishedFacts
  <1>2. here \in Nat /\ SymbolAddresses \subseteq Nat
    BY <1>1, SymbolNumbers DEF TypeOK
  <1>3. here \in S /\ S \in SUBSET Nat
    BY <1>1, <1>2
  <1>4. PICK m \in S : \A n \in S : m <= n
    BY <1>3, LeastOf
  <1>5. /\ m \in SymbolAddresses /\ m > a
        /\ \A o \in SymbolAddresses : o > a => m <= o
    BY <1>4
  <1>6. /\ NextSymbol(a) \in SymbolAddresses
        /\ NextSymbol(a) > a
        /\ \A o \in SymbolAddresses : o > a => NextSymbol(a) <= o
    BY <1>5 DEF NextSymbol
  <1>7. NextSymbol(a) \in Nat
    BY <1>2, <1>6
  <1> HIDE DEF S
  <1> QED BY <1>1, <1>2, <1>6, <1>7

\* What the image says, one field at a time.
LEMMA ImageFields ==
  /\ Image.ok = TRUE
  /\ Image.ver = [f \in Fn |-> IF f \in live THEN prog.ver[f] ELSE NotDefined]
  /\ Image.at = [f \in Fn |-> IF f \in live THEN at[f] ELSE -1]
  /\ Image.end = [f \in Fn |-> IF f \in live THEN NextSymbol(at[f]) ELSE -1]
  /\ Image.code = [f \in Fn |-> IF f \in copied THEN bin.code[f]
                               ELSE IF f \in live THEN Resolved(f)
                               ELSE NoCode]
  /\ Image.lams = prog.lams
  /\ Image.synAt = synAt
  /\ Image.synEnd = [j \in DOMAIN synAt |-> NextSymbol(synAt[j])]
  /\ Image.rtBase = rtBase
  /\ Image.rts = need
  /\ Image.txEnds = tx_ends
  /\ Image.textEnd = here
  /\ Image.room = IF mode = 2 THEN bin.room ELSE incr_room(here)
  BY DEF Image

\* Where the image has the functions and the synthesized ones, and where
\* their slots end.
LEMMA ImageSlots ==
  IInv /\ LaidOut =>
    /\ \A f \in live :
         /\ f \in Fn
         /\ at[f] \in Nat /\ at[f] > 0 /\ at[f] < here
         /\ NextSymbol(at[f]) \in Nat
         /\ at[f] + CodeSize(f) <= NextSymbol(at[f])
         /\ \A o \in Symbols : o > at[f] => NextSymbol(at[f]) <= o
         /\ at[f] < rtBase \/ rtBase + RtLen[need] <= at[f]
         /\ at[f] < rtBase => NextSymbol(at[f]) <= rtBase
    /\ \A f, g \in live : f # g => at[f] # at[g]
    /\ \A j \in DOMAIN synAt :
         NextSymbol(synAt[j]) \in Nat /\ NextSymbol(synAt[j]) <= rtBase
    /\ StartSize <= rtBase
    /\ RtLen[need] \in Nat
    /\ rtBase + RtLen[need] <= here
    /\ Len(synAt) = SynthCount(prog)
  <1> SUFFICES ASSUME IInv, LaidOut
               PROVE
    /\ \A f \in live :
         /\ f \in Fn
         /\ at[f] \in Nat /\ at[f] > 0 /\ at[f] < here
         /\ NextSymbol(at[f]) \in Nat
         /\ at[f] + CodeSize(f) <= NextSymbol(at[f])
         /\ \A o \in Symbols : o > at[f] => NextSymbol(at[f]) <= o
         /\ at[f] < rtBase \/ rtBase + RtLen[need] <= at[f]
         /\ at[f] < rtBase => NextSymbol(at[f]) <= rtBase
    /\ \A f, g \in live : f # g => at[f] # at[g]
    /\ \A j \in DOMAIN synAt :
         NextSymbol(synAt[j]) \in Nat /\ NextSymbol(synAt[j]) <= rtBase
    /\ StartSize <= rtBase
    /\ RtLen[need] \in Nat
    /\ rtBase + RtLen[need] <= here
    /\ Len(synAt) = SynthCount(prog)
    OBVIOUS
  <1>1. /\ TypeOK /\ live = reached_fns(prog) /\ Placed = live
        /\ pc \in {"moved", "late"}
    BY FinishedFacts
  <1>2. Extents /\ SyntheticsPlaced /\ RuntimePlaced /\ NeedsKnown /\ RuntimeDone
    BY <1>1, LateStart
  <1>3. /\ here \in Nat /\ rtBase \in Nat /\ need \in SUBSET Routine
        /\ synAt \in Seq(Nat)
    BY <1>1 DEF TypeOK
  <1>4. RtLen[need] \in Nat
    BY <1>3, RuntimeFacts
  <1>5. /\ StartSize <= rtBase
        /\ rtBase + RtLen[need] <= here
        /\ \A f \in live : at[f] < rtBase \/ rtBase + RtLen[need] <= at[f]
    BY <1>1, <1>2 DEF RuntimePlaced
  <1>6. rtBase \in Symbols
    <2>1. need # {}
      BY <1>2, PositiveConstants DEF NeedsKnown
    <2>2. PICK r \in need : RtOff[need][r] = 0
      BY <1>3, <2>1, RuntimeFacts
    <2>3. rtBase = rtBase + RtOff[need][r]
      BY <1>3, <2>2
    <2> QED BY <1>2, <2>3 DEF Symbols
  <1>7. Len(synAt) = SynthCount(prog) /\ \A j \in DOMAIN synAt : synAt[j] < rtBase
    BY <1>1, <1>2 DEF SyntheticsPlaced
  <1>8. ASSUME NEW f \in live
        PROVE  /\ f \in Fn
               /\ at[f] \in Nat /\ at[f] > 0 /\ at[f] < here
               /\ NextSymbol(at[f]) \in Nat
               /\ at[f] + CodeSize(f) <= NextSymbol(at[f])
               /\ \A o \in Symbols : o > at[f] => NextSymbol(at[f]) <= o
               /\ at[f] < rtBase => NextSymbol(at[f]) <= rtBase
    <2>1. f \in Fn /\ CodeSize(f) \in Nat \ {0}
      BY <1>1, LiveFacts
    <2>2. at[f] \in Nat /\ at[f] > 0
      BY <1>1, <2>1 DEF Placed, TypeOK, Addresses
    <2>3. at[f] + CodeSize(f) <= here
      BY <1>1, <1>2 DEF Extents
    <2>4. at[f] < here
      BY <1>3, <2>1, <2>2, <2>3
    <2>5. /\ NextSymbol(at[f]) \in Symbols \cup {here}
          /\ NextSymbol(at[f]) \in Nat /\ at[f] < NextSymbol(at[f])
          /\ \A o \in Symbols : o > at[f] => NextSymbol(at[f]) <= o
      BY <2>2, <2>4, NextSymbolFacts
    <2>6. \A o \in Symbols : o > at[f] => at[f] + CodeSize(f) <= o
      BY <1>1, <1>2 DEF Extents
    <2>7. at[f] + CodeSize(f) <= NextSymbol(at[f])
      BY <2>2, <2>3, <2>5, <2>6
    <2>8. at[f] < rtBase => NextSymbol(at[f]) <= rtBase
      BY <1>3, <1>6, <2>2, <2>5
    <2> QED BY <2>1, <2>2, <2>4, <2>5, <2>7, <2>8
  <1>9. \A f, g \in live : f # g => at[f] # at[g]
    BY <1>1, <1>2 DEF Extents
  <1>10. ASSUME NEW j \in DOMAIN synAt
         PROVE  NextSymbol(synAt[j]) \in Nat /\ NextSymbol(synAt[j]) <= rtBase
    <2>1. synAt[j] \in Nat /\ synAt[j] < rtBase /\ synAt[j] < here
      BY <1>3, <1>4, <1>5, <1>7
    <2> QED BY <1>3, <1>6, <2>1, NextSymbolFacts
  <1> QED BY <1>4, <1>5, <1>7, <1>8, <1>9, <1>10

LEMMA ImageType == IInv /\ LaidOut => FileType(Image)
  <1> SUFFICES ASSUME IInv, LaidOut PROVE FileType(Image)
    OBVIOUS
  <1>1. /\ TypeOK /\ live = reached_fns(prog) /\ (mode = 2 => bin.ok)
    BY FinishedFacts
  <1>2. \A f \in live : f \in Fn /\ at[f] \in Nat /\ NextSymbol(at[f]) \in Nat
    BY ImageSlots
  <1>3. \A f \in live : prog.ver[f] \in Version
    BY <1>1, LiveFacts
  <1>4. /\ Image.ver \in [Fn -> Version \cup {NotDefined}]
        /\ Image.at \in [Fn -> Addresses]
        /\ Image.end \in [Fn -> Addresses]
        /\ DOMAIN Image.code = Fn
    BY <1>2, <1>3, ImageFields DEF Addresses
  <1>5. Image.lams \in Seq(Fn)
    BY <1>1, ProgramFacts, ImageFields DEF TypeOK
  <1>6. synAt \in Seq(Nat) /\ here \in Nat /\ rtBase \in Nat /\ need \in SUBSET Routine
    BY <1>1 DEF TypeOK
  <1>7. Image.synEnd \in Seq(Nat)
    <2>1. \A j \in DOMAIN synAt : NextSymbol(synAt[j]) \in Nat
      BY ImageSlots
    <2>2. Image.synEnd = [j \in 1 .. Len(synAt) |-> NextSymbol(synAt[j])]
      BY <1>6, ImageFields
    <2>3. Len(synAt) \in Nat /\ DOMAIN synAt = 1 .. Len(synAt)
      BY <1>6
    <2> QED BY <2>1, <2>2, <2>3
  <1>8. Image.synAt \in Seq(Nat) /\ Image.rtBase \in Nat /\ Image.rts \subseteq Routine
        /\ Image.textEnd \in Nat
    BY <1>6, ImageFields
  <1>9. Image.txEnds \in SUBSET Nat
    <2>1. RtLen[need] \in Nat
      BY <1>6, RuntimeFacts
    <2>2. mode = 2 => bin.txEnds \in SUBSET Nat
      BY <1>1 DEF TypeOK, FileType
    <2>3. tx_ends \in SUBSET Nat
      BY <1>6, <2>1, <2>2 DEF tx_ends
    <2> QED BY <2>3, ImageFields
  <1>10. Image.room \in Nat
    <2>1. mode = 2 => bin.room \in Nat
      BY <1>1 DEF TypeOK, FileType
    <2>2. incr_room(here) \in Nat
      BY <1>6, RoomPost
    <2> QED BY <2>1, <2>2, ImageFields
  <1> QED BY <1>4, <1>5, <1>7, <1>8, <1>9, <1>10 DEF FileType

LEMMA ImageSections == IInv /\ LaidOut => Sections(Image)
  <1> SUFFICES ASSUME IInv, LaidOut PROVE Sections(Image)
    OBVIOUS
  <1>1. TypeOK /\ FileInv(bin) /\ (mode = 2 => bin.ok)
    BY FinishedFacts
  <1> DEFINE t == rtBase + RtLen[need]
             old == IF mode = 2 THEN {e \in bin.txEnds : e > t} ELSE {}
  <1>2. t \in Nat /\ here \in Nat /\ t <= here
    BY <1>1, ImageSlots DEF TypeOK
  <1>3. TextSize(Image) = t
    BY ImageFields DEF TextSize
  <1>4. Image.txEnds = {t} \cup old \cup (IF Late # <<>> THEN {here} ELSE {})
    BY ImageFields DEF tx_ends
  <1>5. PICK m \in {t} \cup old : \A e \in {t} \cup old : e <= m
    <2>1. CASE old = {}
      BY <1>2, <2>1
    <2>2. CASE old # {}
      <3>1. mode = 2 /\ bin.ok /\ old = {e \in bin.txEnds : e > t}
        BY <1>1, <2>2
      <3>2. bin.txEnds \in SUBSET Nat
        BY <1>1, <3>1 DEF TypeOK, FileType
      <3> DEFINE x == incr_text_end(bin)
      <3>3. x \in Nat /\ x \in bin.txEnds /\ \A e \in bin.txEnds : e <= x
        BY <1>1, <3>1, SectionFacts
      <3> HIDE DEF t, x
      <3>4. PICK e \in bin.txEnds : e > t
        BY <2>2, <3>1
      <3>5. x > t
        BY <1>2, <3>2, <3>3, <3>4
      <3>6. x \in old /\ \A d \in {t} \cup old : d <= x
        BY <1>2, <3>1, <3>3, <3>5
      <3> QED BY <3>6
    <2> QED BY <2>1, <2>2
  <1>6. old \subseteq Nat
    BY <1>1 DEF TypeOK, FileType
  <1> HIDE DEF t
  <1>7. \A e \in old : t <= e
    BY <1>6, <1>2
  <1> HIDE DEF old
  <1>8. t \in Image.txEnds /\ \A e \in Image.txEnds : t <= e
    BY <1>2, <1>4, <1>7
  <1>9. \E x \in Image.txEnds : \A e \in Image.txEnds : e <= x
    <2>1. CASE Late = <<>> \/ here <= m
      BY <1>4, <1>5, <2>1
    <2>2. CASE Late # <<>> /\ here > m
      <3>1. m \in Nat
        BY <1>2, <1>5, <1>6
      <3>2. \A e \in {t} \cup old : e <= here
        BY <1>2, <1>5, <1>6, <2>2, <3>1
      <3>5. here <= here
        BY <1>2
      <3>3. Image.txEnds = {t} \cup old \cup {here}
        BY <1>4, <2>2
      <3>4. here \in Image.txEnds /\ \A e \in Image.txEnds : e <= here
        <4>1. here \in Image.txEnds
          BY <3>3
        <4>2. ASSUME NEW e \in Image.txEnds PROVE e <= here
          <5>1. e \in {t} \cup old \/ e = here
            BY <3>3
          <5>2. CASE e \in {t} \cup old
            BY <3>2, <5>2
          <5>3. CASE e = here
            BY <3>5, <5>3
          <5> QED BY <5>1, <5>2, <5>3
        <4> QED BY <4>1, <4>2
      <3> QED BY <3>4
    <2>3. m \in Nat
      BY <1>2, <1>5, <1>6
    <2> QED BY <1>2, <2>1, <2>2, <2>3
  <1> QED BY <1>3, <1>8, <1>9 DEF Sections

LEMMA ImageInv == IInv /\ LaidOut /\ MayReplace => FileInv(Image)
  <1> SUFFICES ASSUME IInv, LaidOut, MayReplace PROVE FileInv(Image)
    OBVIOUS
  <1>1. /\ TypeOK /\ live = reached_fns(prog)
        /\ SymbolAddresses = Symbols \cup {here} /\ Placed = live
    BY FinishedFacts
  <1>2. /\ \A f \in live :
             /\ f \in Fn
             /\ at[f] \in Nat /\ at[f] > 0
             /\ NextSymbol(at[f]) \in Nat
             /\ at[f] + CodeSize(f) <= NextSymbol(at[f])
             /\ \A o \in Symbols : o > at[f] => NextSymbol(at[f]) <= o
             /\ at[f] < rtBase \/ rtBase + RtLen[need] <= at[f]
             /\ at[f] < rtBase => NextSymbol(at[f]) <= rtBase
        /\ \A f, g \in live : f # g => at[f] # at[g]
        /\ StartSize <= rtBase /\ RtLen[need] \in Nat
        /\ Len(synAt) = SynthCount(prog)
    BY ImageSlots
  <1>3. \A f \in live : prog.ver[f] \in Version /\ prog.ver[f] # NotDefined
    BY <1>1, LiveFacts, ProgramAssumption
  <1>4. /\ \A f \in live : Image.at[f] = at[f] /\ Image.end[f] = NextSymbol(at[f])
                          /\ Image.ver[f] = prog.ver[f]
        /\ \A f \in Fn : f \notin live => Image.at[f] = -1 /\ Image.ver[f] = NotDefined
    BY <1>2, ImageFields
  <1>5. FunctionsIn(Image) = live
    BY <1>2, <1>4 DEF FunctionsIn
  <1>6. \A f \in Fn : IF Image.ver[f] = NotDefined THEN Image.at[f] = -1
                                                    ELSE Image.at[f] > 0
    BY <1>2, <1>3, <1>4
  <1>7. ExtentsFit(Image)
    <2> SUFFICES ASSUME NEW f \in live
                 PROVE  /\ Image.at[f] + SizeIn(Image, f) <= Image.end[f]
                        /\ Image.at[f] < TextSize(Image) => Image.end[f] <= Image.rtBase
      BY <1>5 DEF ExtentsFit
    <2>1. SizeIn(Image, f) = CodeSize(f)
      BY <1>4 DEF SizeIn, CodeSize
    <2>2. TextSize(Image) = rtBase + RtLen[need] /\ Image.rtBase = rtBase
      BY ImageFields DEF TextSize
    <2>3. rtBase + RtLen[need] \in Nat /\ rtBase \in Nat
      BY <1>1, <1>2 DEF TypeOK
    <2>4. at[f] < rtBase + RtLen[need] => at[f] < rtBase
      BY <1>2, <2>3
    <2> QED BY <1>2, <1>4, <2>1, <2>2, <2>4
  <1>8. Apart(Image)
    <2>1. ASSUME NEW f \in live, NEW g \in live, at[f] < at[g]
          PROVE  NextSymbol(at[f]) <= at[g]
      <3>1. at[g] \in Symbols
        BY <1>1 DEF Symbols
      <3> QED BY <1>2, <2>1, <3>1
    <2>2. ASSUME NEW f \in live, NEW g \in live, f # g
          PROVE  NextSymbol(at[f]) <= at[g] \/ NextSymbol(at[g]) <= at[f]
      <3>1. at[f] < at[g] \/ at[g] < at[f]
        BY <1>2, <2>2
      <3> QED BY <2>1, <3>1
    <2>3. Image.textEnd <= Image.room
      <3>1. CASE mode = 2
        <4>1. Image.textEnd <= bin.room
          BY <3>1 DEF MayReplace, incr_lines_up
        <4> QED BY <3>1, <4>1, ImageFields
      <3>2. CASE mode # 2
        BY <1>1, <3>2, RoomPost, ImageFields DEF TypeOK
      <3> QED BY <3>1, <3>2
    <2> QED BY <1>4, <1>5, <2>2, <2>3 DEF Apart
  <1>9. Synthetics(Image)
    <2>1. prog \in Programs /\ SynthCount(prog) = 1 + Len(prog.lams)
      BY <1>1, SynthFacts DEF TypeOK
    <2>2. DOMAIN Image.synEnd = DOMAIN Image.synAt
      BY ImageFields
    <2>3. \A j \in DOMAIN Image.synAt : Image.synEnd[j] <= Image.rtBase
      BY ImageSlots, ImageFields
    <2>4. Len(Image.synAt) = 1 + Len(Image.lams)
      BY <1>2, <2>1, ImageFields
    <2> QED BY <2>1, <2>2, <2>3, <2>4, ImageFields DEF Synthetics
  <1>10. StartSize <= Image.rtBase
    BY <1>2, ImageFields
  <1> QED BY <1>6, <1>7, <1>8, <1>9, <1>10, ImageSections DEF FileInv

LEMMA StepAccept == IInv /\ Accept => IInv'
  <1> SUFFICES ASSUME IInv, Accept PROVE IInv'
    OBVIOUS
  <1>1. LaidOut /\ MayReplace /\ out' = Image /\ pc' = "create"
        /\ UNCHANGED <<src, bin, build>>
    BY DEF Accept
  <1>2. FileType(Image) /\ FileInv(Image)
    BY <1>1, ImageType, ImageInv
  <1>3. FileType(out') /\ FileInv(out')
    BY <1>1, <1>2
  <1>4. FileType(out)' /\ FileInv(out)'
    BY <1>3 DEF FileType, FileInv, ExtentsFit, Apart, Sections, Synthetics,
                FunctionsIn, SizeIn, TextSize
  <1>5. TypeOK /\ FileInv(bin)
    BY DEF IInv
  <1>6. TypeOK'
    BY <1>1, <1>4, <1>5 DEF TypeOK, build, Phases, FileType
  <1>7. FileInv(bin)'
    BY <1>1, <1>5, SameFile
  <1>8. BuildInv'
    BY <1>1 DEF BuildInv, Building
  <1> QED BY <1>4, <1>6, <1>7, <1>8 DEF IInv

-----------------------------------------------------------------------------
(***************************************************************************)
(* The beginning and the end of a build.                                   *)
(***************************************************************************)

\* A build that has only just begun, for whatever program it read.
LEMMA BeginFacts ==
  \A m \in {1, 2} :
    /\ TypeOK /\ BeginCodegen(m)
    /\ src' \in Programs /\ prog' \in Programs /\ live' = reached_fns(prog')
    /\ bin' = bin /\ FileInv(bin) /\ (m = 2 => bin.ok)
    => IInv'
  <1> SUFFICES ASSUME NEW m \in {1, 2}, TypeOK, BeginCodegen(m),
                      src' \in Programs, prog' \in Programs,
                      live' = reached_fns(prog'),
                      bin' = bin, FileInv(bin), m = 2 => bin.ok
               PROVE  IInv'
    OBVIOUS
  <1>1. /\ pc' = "functions" /\ mode' = m /\ why' = FALSE /\ pos' = 1
        /\ here' = StartSize /\ at' = [f \in Fn |-> -1]
        /\ copied' = {} /\ away' = {} /\ outgrown' = <<>> /\ again' = <<>>
        /\ need' = StartNeeds /\ synAt' = <<>> /\ rtBase' = 0 /\ out' = prev_none
    BY DEF BeginCodegen
  <1>2. live' \subseteq Defined(prog') /\ live' \subseteq Fn
    BY ReachedFacts
  <1>3. FileType(bin')
    BY DEF TypeOK
  <1>4. FileType(bin)'
    BY <1>3 DEF FileType
  <1>5. FileType(out)'
    BY <1>1 DEF FileType, prev_none
  <1>6. TypeOK'
    <2>1. at' \in [Fn -> Addresses]
      BY <1>1 DEF Addresses
    <2>2. outgrown' \in Seq(live') /\ again' \in Seq(live') /\ synAt' \in Seq(Nat)
      BY <1>1
    <2>3. here' \in Nat /\ need' \subseteq Routine
      BY <1>1, PositiveConstants
    <2>4. /\ src' \in Programs /\ prog' \in Programs /\ pc' \in Phases
          /\ live' \subseteq Defined(prog')
      BY <1>1, <1>2 DEF Phases
    <2>6. mode' \in {1, 2} /\ pos' \in Nat \ {0}
      BY <1>1
    <2>7. why' \in BOOLEAN
      BY <1>1
    <2>5. copied' \subseteq live' /\ away' \subseteq live' /\ rtBase' \in Nat
      BY <1>1
    <2> QED BY <1>4, <1>5, <2>1, <2>2, <2>3, <2>4, <2>5, <2>6, <2>7 DEF TypeOK
  <1>7. FileInv(bin)' /\ FileInv(out)'
    <2>1. FileInv(bin)'
      BY SameFile
    <2>2. FileInv(out)'
      BY <1>1 DEF FileInv, prev_none
    <2> QED BY <2>1, <2>2
  <1>8. ~RuntimeDone'
    BY <1>1 DEF RuntimeDone
  <1>9. Placed' = {}
    BY <1>1, <1>2 DEF Placed
  <1>10. Symbols' = {} /\ DOMAIN synAt' = {} /\ Len(synAt') = 0
    BY <1>1, <1>8, <1>9 DEF Symbols
  <1>11. Moving' = {}
    BY <1>1 DEF Moving, Elements
  <1>12. Coverage'
    <2>1. \A i \in DOMAIN prog'.order : ~(i < pos')
      BY <1>1, ProgramFacts
    <2>2. \A f \in live' : at'[f] # 0
      BY <1>1, <1>2
    <2> QED BY <1>1, <2>1, <2>2 DEF Coverage
  <1>13. Extents'
    <2>1. StartSize <= here'
      BY <1>1, PositiveConstants
    <2> QED BY <1>9, <1>10, <2>1 DEF Extents
  <1>14. SyntheticsPlaced'
    BY <1>1, <1>10 DEF SyntheticsPlaced
  <1>15. NeedsKnown'
    <2>1. \A f \in live' : ~(at'[f] >= 0)
      BY <1>1, <1>2
    <2> QED BY <1>1, <2>1 DEF NeedsKnown
  <1>16. RuntimePlaced' /\ FirstBuild'
    BY <1>1, <1>8 DEF RuntimePlaced, FirstBuild
  <1>17. Aligned'
    <2>1. m = 2 => here' <= bin'.rtBase
      BY <1>1 DEF FileInv
    <2> QED BY <1>1, <1>8, <1>9, <1>10, <1>11, <2>1 DEF Aligned
  <1>18. BuildInv'
    BY <1>12, <1>13, <1>14, <1>15, <1>16, <1>17 DEF BuildInv
  <1> QED BY <1>6, <1>7, <1>18 DEF IInv

LEMMA StepStartBuild == IInv /\ StartBuild => IInv'
  <1> SUFFICES ASSUME IInv, StartBuild PROVE IInv'
    OBVIOUS
  <1> DEFINE m == IF bin.ok THEN 2 ELSE 1
  <1>1. /\ BeginCodegen(m) /\ prog' = src /\ live' = reached_fns(src)
        /\ src' = src /\ bin' = bin
    BY DEF StartBuild
  <1>2. TypeOK /\ FileInv(bin) /\ src \in Programs
    BY DEF IInv, TypeOK
  <1>3. m \in {1, 2} /\ (m = 2 => bin.ok)
    OBVIOUS
  <1> HIDE DEF m
  <1> QED BY <1>1, <1>2, <1>3, BeginFacts

LEMMA StepFallback == IInv /\ Fallback => IInv'
  <1> SUFFICES ASSUME IInv, Fallback PROVE IInv'
    OBVIOUS
  <1>1. /\ LaidOut /\ BeginCodegen(1)
        /\ src' = src /\ bin' = bin /\ prog' = prog /\ live' = live
    BY DEF Fallback
  <1>2. TypeOK /\ FileInv(bin) /\ live = reached_fns(prog)
    BY <1>1, FinishedFacts
  <1>3. src \in Programs /\ prog \in Programs
    BY <1>2 DEF TypeOK
  <1> QED BY <1>1, <1>2, <1>3, BeginFacts

\* A step after which no code is being laid, and that writes no file.
LEMMA StepAside ==
  /\ IInv /\ UNCHANGED <<bin, build, out>>
  /\ src' \in Programs /\ pc' \in Phases
  /\ Building' => pc' = pc
  => IInv'
  <1> SUFFICES ASSUME IInv, UNCHANGED <<bin, build, out>>,
                      src' \in Programs, pc' \in Phases,
                      Building' => pc' = pc
               PROVE  IInv'
    OBVIOUS
  <1>1. TypeOK /\ FileInv(bin) /\ FileInv(out) /\ BuildInv
    BY DEF IInv
  <1>2. TypeOK'
    BY <1>1 DEF TypeOK, build, FileType
  <1>3. FileInv(bin)' /\ FileInv(out)'
    BY <1>1, SameFile, SameOut
  <1>4. BuildInv'
    <2> SUFFICES ASSUME Building' PROVE BuildInv'
      BY DEF BuildInv
    <2>1. pc' = pc /\ Building
      BY DEF Building
    <2>2. /\ live = reached_fns(prog) /\ Coverage /\ Extents /\ SyntheticsPlaced
          /\ NeedsKnown /\ RuntimePlaced /\ FirstBuild /\ Aligned
      BY <1>1, <2>1 DEF BuildInv
    <2>3. Moving' = Moving /\ Late' = Late /\ Placed' = Placed /\ Symbols' = Symbols
      BY <2>1 DEF Moving, Elements, Late, Placed, Symbols, RuntimeDone, build
    <2>4. /\ incr_regenerate' = incr_regenerate
          /\ \A f : CodeSize(f)' = CodeSize(f) /\ CodeNeeds(f)' = CodeNeeds(f)
          /\ \A j : SynthWas(j)' = SynthWas(j)
      BY DEF incr_regenerate, digest_moved, CodeSize, CodeCalls, CodeNeeds, SynthWas, build
    <2>5. Coverage' /\ SyntheticsPlaced' /\ FirstBuild' /\ live' = reached_fns(prog')
      BY <2>1, <2>2, <2>3 DEF Coverage, SyntheticsPlaced, FirstBuild, RuntimeDone, build
    <2>6. Extents' /\ RuntimePlaced' /\ NeedsKnown'
      BY <2>1, <2>2, <2>3, <2>4
      DEF Extents, RuntimePlaced, NeedsKnown, RuntimeDone, build
    <2>7. Aligned'
      BY <2>1, <2>2, <2>3, <2>4 DEF Aligned, RuntimeDone, build
    <2> QED BY <2>5, <2>6, <2>7 DEF BuildInv
  <1> QED BY <1>2, <1>3, <1>4 DEF IInv

LEMMA StepOutside ==
  IInv /\ (Edit \/ StopOnAssertion \/ Kill \/ UNCHANGED vars) => IInv'
  <1> SUFFICES ASSUME IInv, Edit \/ StopOnAssertion \/ Kill \/ UNCHANGED vars
               PROVE  IInv'
    OBVIOUS
  <1>1. src \in Programs /\ pc \in Phases
    BY DEF IInv, TypeOK
  <1>2. CASE Edit
    BY <1>1, <1>2, StepAside DEF Edit
  <1>3. CASE StopOnAssertion
    <2>1. ~Building' /\ pc' \in Phases
      BY <1>3 DEF StopOnAssertion, Building, Phases
    <2> QED BY <1>1, <1>3, <2>1, StepAside DEF StopOnAssertion
  <1>4. CASE Kill
    <2>1. ~Building' /\ pc' \in Phases
      BY <1>4 DEF Kill, Building, Phases
    <2> QED BY <1>1, <1>4, <2>1, StepAside DEF Kill
  <1>5. CASE UNCHANGED vars
    BY <1>1, <1>5, StepAside DEF vars
  <1> QED BY <1>2, <1>3, <1>4, <1>5

LEMMA StepWrite == IInv /\ (CreateFile \/ Writev) => IInv'
  <1> SUFFICES ASSUME IInv, CreateFile \/ Writev PROVE IInv'
    OBVIOUS
  <1>1. bin' \in {prev_none, out} /\ pc' \in {"writev", "idle"}
        /\ UNCHANGED <<src, build, out>>
    BY DEF CreateFile, Writev
  <1>2. TypeOK /\ FileInv(out)
    BY DEF IInv
  <1>3. FileType(bin') /\ FileInv(bin')
    BY <1>1, <1>2 DEF TypeOK, FileType, FileInv, prev_none
  <1>4. FileType(bin)' /\ FileInv(bin)'
    BY <1>3 DEF FileType, FileInv, ExtentsFit, Apart, Sections, Synthetics,
                FunctionsIn, SizeIn, TextSize
  <1>5. FileInv(out)'
    BY <1>1, <1>2, SameOut
  <1>6. TypeOK'
    BY <1>1, <1>2, <1>4 DEF TypeOK, build, FileType, Phases
  <1>7. BuildInv'
    BY <1>1 DEF BuildInv, Building
  <1> QED BY <1>4, <1>5, <1>6, <1>7 DEF IInv

-----------------------------------------------------------------------------
(***************************************************************************)
(* The theorems.                                                           *)
(***************************************************************************)
LEMMA InitInv == Init => IInv
  <1> SUFFICES ASSUME Init PROVE IInv
    OBVIOUS
  <1>1. TypeOK
    <2>1. at \in [Fn -> Addresses]
      BY DEF Init, Addresses
    <2>2. FileType(bin) /\ FileType(out)
      BY DEF Init, FileType, prev_none
    <2>3. /\ src \in Programs /\ prog \in Programs /\ pc \in Phases
          /\ live \subseteq Defined(prog)
      BY DEF Init, Phases
    <2>6. mode \in {1, 2} /\ pos \in Nat \ {0} /\ here \in Nat
      BY DEF Init
    <2>7. why \in BOOLEAN
      BY DEF Init
    <2>4. /\ copied \subseteq live /\ away \subseteq live /\ rtBase \in Nat
          /\ need \subseteq Routine
      BY DEF Init
    <2>5. outgrown \in Seq(live) /\ again \in Seq(live) /\ synAt \in Seq(Nat)
      BY DEF Init
    <2> QED BY <2>1, <2>2, <2>3, <2>4, <2>5, <2>6, <2>7 DEF TypeOK
  <1>2. FileInv(bin) /\ FileInv(out)
    BY DEF Init, FileInv, prev_none
  <1>3. BuildInv
    BY DEF Init, BuildInv, Building
  <1> QED BY <1>1, <1>2, <1>3 DEF IInv

LEMMA NextInv == IInv /\ [Next]_vars => IInv'
  BY StepStartBuild, StepEmitFunction, StepFunctionsDone, StepWriteSyntheticPadded,
     StepWriteSyntheticInPlace, StepEmitRuntime, StepPlaceAway, StepBeginLate,
     StepPlaceLate, StepAccept, StepFallback, StepOutside, StepWrite
  DEF Next, BuildStep

\* The inductive invariant of incremental compilation.
THEOREM Invariance == Spec => []IInv
  <1>1. Init => IInv
    BY InitInv
  <1>2. IInv /\ [Next]_vars => IInv'
    BY NextInv
  <1> QED BY <1>1, <1>2, PTL DEF Spec

\* Every variable stays in its type, for every program and every size.
THEOREM TypeCorrect == Spec => []TypeOK
  <1>1. IInv => TypeOK
    BY DEF IInv
  <1> QED BY <1>1, Invariance, PTL

\* Every function fits the slot its symbol describes, no two slots overlap and
\* the code ends before the next region, however often functions grow, move
\* and grow again (incr_before, incr_after, incr_lines_up).
THEOREM SlotsHold == Spec => []InRoom
  <1>1. IInv => InRoom
    BY DEF IInv, FileInv, ExtentsFit, Apart, InRoom
  <1> QED BY <1>1, Invariance, PTL

-----------------------------------------------------------------------------
(***************************************************************************)
(* A file put together from old and new code works: Faithful, and with it  *)
(* the promise of Compiler, for every program and every size, as long as   *)
(* every call is by a name the scan of incr_regenerate can see (NamesSeen) *)
(* and no two programs number as many lambdas differently (LambdasFixed).  *)
(* Then what a build laid over a file leaves where it was, and where the   *)
(* assertion about the overflow holds.                                     *)
(***************************************************************************)

-----------------------------------------------------------------------------
(***************************************************************************)
(* What the code of a function is linked to, one kind at a time.           *)
(***************************************************************************)
CallsIn(file, f) == Calls[f, file.ver[f]]
NeedsIn(file, f) == Needs[f, file.ver[f]]
LambdaIn(file, f) == HasLambda(f, file.ver[f])
LambdaAt(file, f) == file.synAt[LambdaPlace(file.lams, f)]

LEMMA LinkedKinds ==
  \A file, f :
    Linked(file, f) <=>
      /\ file.code[f].ver = file.ver[f]
      /\ \A g \in CallsIn(file, f) : file.code[f].call[g] = file.at[g]
      /\ \A r \in NeedsIn(file, f) :
           r \in file.rts /\ file.code[f].rt[r] = RtAt(file.rtBase, file.rts)[r]
      /\ LambdaIn(file, f) => file.code[f].lam = LambdaAt(file, f)
  BY DEF Linked, CallsIn, NeedsIn, LambdaIn, LambdaAt

\* The image holds the functions the program reaches, in the versions and at
\* the places this build gave them.
LEMMA ImageHolds ==
  IInv /\ LaidOut =>
    /\ FunctionsIn(Image) = live
    /\ \A f \in live :
         /\ f \in Fn
         /\ Image.at[f] = at[f] /\ Image.ver[f] = prog.ver[f]
         /\ Image.code[f] = IF f \in copied THEN bin.code[f] ELSE Resolved(f)
         /\ CallsIn(Image, f) = CodeCalls(f) /\ CodeCalls(f) \subseteq live
         /\ NeedsIn(Image, f) = CodeNeeds(f)
  <1> SUFFICES ASSUME IInv, LaidOut
               PROVE
    /\ FunctionsIn(Image) = live
    /\ \A f \in live :
         /\ f \in Fn
         /\ Image.at[f] = at[f] /\ Image.ver[f] = prog.ver[f]
         /\ Image.code[f] = IF f \in copied THEN bin.code[f] ELSE Resolved(f)
         /\ CallsIn(Image, f) = CodeCalls(f) /\ CodeCalls(f) \subseteq live
         /\ NeedsIn(Image, f) = CodeNeeds(f)
    OBVIOUS
  <1>1. TypeOK /\ live = reached_fns(prog)
    BY FinishedFacts
  <1>2. live \subseteq Fn /\ \A f \in live : CodeCalls(f) \subseteq live
    BY <1>1, LiveFacts
  <1>3. \A f \in live : at[f] \in Nat
    BY ImageSlots
  <1>4. \A f \in live :
          /\ Image.at[f] = at[f] /\ Image.ver[f] = prog.ver[f]
          /\ Image.code[f] = IF f \in copied THEN bin.code[f] ELSE Resolved(f)
    BY <1>2, ImageFields
  <1>5. \A f \in Fn : f \notin live => Image.at[f] = -1
    BY ImageFields
  <1>6. FunctionsIn(Image) = live
    BY <1>2, <1>3, <1>4, <1>5 DEF FunctionsIn
  <1>7. \A f \in live : CallsIn(Image, f) = CodeCalls(f) /\ NeedsIn(Image, f) = CodeNeeds(f)
    BY <1>4 DEF CallsIn, NeedsIn, CodeCalls, CodeNeeds
  <1> QED BY <1>2, <1>4, <1>6, <1>7

\* What a build writes, it links to what it placed.
LEMMA WrittenLinked ==
  IInv /\ LaidOut => \A f \in live \ copied : Linked(Image, f)
  <1> SUFFICES ASSUME IInv, LaidOut, NEW f \in live, f \notin copied
               PROVE  Linked(Image, f)
    OBVIOUS
  <1>1. /\ Image.ver[f] = prog.ver[f] /\ Image.code[f] = Resolved(f)
        /\ CallsIn(Image, f) = CodeCalls(f) /\ CodeCalls(f) \subseteq live
        /\ NeedsIn(Image, f) = CodeNeeds(f)
        /\ \A g \in live : Image.at[g] = at[g]
    BY ImageHolds
  <1>2. CodeNeeds(f) \subseteq need
    BY FinishedFacts
  <1>3. Image.rts = need /\ Image.rtBase = rtBase /\ Image.lams = prog.lams /\ Image.synAt = synAt
    BY ImageFields
  <1>4. Resolved(f).ver = prog.ver[f]
    BY DEF Resolved
  <1>5. \A g \in CodeCalls(f) : Resolved(f).call[g] = at[g]
    BY DEF Resolved
  <1>6. \A r \in CodeNeeds(f) : Resolved(f).rt[r] = RtAt(rtBase, need)[r]
    BY DEF Resolved
  <1>7. HasLambda(f, prog.ver[f]) => Resolved(f).lam = synAt[LambdaPlace(prog.lams, f)]
    BY DEF Resolved
  <1>8. LambdaIn(Image, f) => Image.code[f].lam = LambdaAt(Image, f)
    BY <1>1, <1>3, <1>7 DEF LambdaIn, LambdaAt
  <1> QED BY <1>1, <1>2, <1>3, <1>4, <1>5, <1>6, <1>8, LinkedKinds

-----------------------------------------------------------------------------
(***************************************************************************)
(* A build that lined up: what the check of incr_lines_up leaves the same. *)
(***************************************************************************)

\* The counts agree only if each of the three kinds agrees.
LEMMA SameCounts ==
  \A fi, fb, ni, nb, ri, rb \in Nat :
    fi + ni + ri = fb + nb + rb /\ fi <= fb /\ ni <= nb /\ ri <= rb
      => ni = nb /\ ri = rb
  OBVIOUS

LEMMA LinedUp ==
  IInv /\ LaidOut /\ mode = 2 /\ incr_lines_up(Image) =>
    need = bin.rts /\ Len(synAt) = Len(bin.synAt)
  <1> SUFFICES ASSUME IInv, LaidOut, mode = 2, incr_lines_up(Image)
               PROVE  need = bin.rts /\ Len(synAt) = Len(bin.synAt)
    OBVIOUS
  <1>1. TypeOK /\ bin.ok
    BY FinishedFacts
  <1>2. /\ synAt \in Seq(Nat) /\ bin.synAt \in Seq(Nat)
        /\ bin.rts \subseteq Routine
    BY <1>1 DEF TypeOK, FileType
  <1>3. Image.rts = need /\ Image.synAt = synAt
    BY ImageFields
  <1>4. /\ Cardinality(FunctionsIn(Image)) + Len(synAt) + Cardinality(need)
             = Cardinality(FunctionsIn(bin)) + Len(bin.synAt) + Cardinality(bin.rts)
        /\ \A f \in FunctionsIn(Image) : bin.at[f] >= 0
        /\ \A j \in DOMAIN synAt : SynthWas(j) >= 0
        /\ need \subseteq bin.rts
    BY <1>3 DEF incr_lines_up, SymbolHolds
  <1>5. FunctionsIn(Image) \subseteq FunctionsIn(bin) /\ FunctionsIn(bin) \subseteq Fn
    BY <1>4 DEF FunctionsIn
  <1>6. IsFiniteSet(FunctionsIn(bin)) /\ IsFiniteSet(bin.rts)
    BY <1>2, <1>5, FS_Subset, RuntimeAssumption
  <1>7. /\ Cardinality(FunctionsIn(Image)) \in Nat /\ Cardinality(FunctionsIn(bin)) \in Nat
        /\ Cardinality(FunctionsIn(Image)) <= Cardinality(FunctionsIn(bin))
    BY <1>5, <1>6, FS_Subset, FS_CardinalityType
  <1>8. /\ Cardinality(need) \in Nat /\ Cardinality(bin.rts) \in Nat
        /\ Cardinality(need) <= Cardinality(bin.rts)
        /\ Cardinality(bin.rts) = Cardinality(need) => bin.rts = need
    BY <1>4, <1>6, FS_Subset, FS_CardinalityType
  <1>9. Len(synAt) \in Nat /\ Len(bin.synAt) \in Nat /\ Len(synAt) <= Len(bin.synAt)
    <2>1. \A j \in DOMAIN synAt : j \in DOMAIN bin.synAt
      BY <1>4 DEF SynthWas
    <2>2. \A j \in 1 .. Len(synAt) : j \in 1 .. Len(bin.synAt)
      BY <1>2, <2>1
    <2>3. Len(synAt) \in Nat /\ Len(bin.synAt) \in Nat
      BY <1>2
    <2> QED BY <2>2, <2>3
  <1> QED BY <1>4, <1>7, <1>8, <1>9, SameCounts

\* The runtime begins where it did: its first routine either stands where it
\* stood or has gone past the old text, and the build has not come so far.
LEMMA RuntimeStays ==
  IInv /\ LaidOut /\ mode = 2 /\ ~why /\ incr_lines_up(Image) => rtBase = bin.rtBase
  <1> SUFFICES ASSUME IInv, LaidOut, mode = 2, ~why, incr_lines_up(Image)
               PROVE  rtBase = bin.rtBase
    OBVIOUS
  <1>1. TypeOK /\ FileInv(bin) /\ bin.ok /\ pc \in {"moved", "late"}
    BY FinishedFacts
  <1>2. /\ bin.rtBase \in Nat /\ bin.rtBase <= incr_text_end(bin)
        /\ incr_text_end(bin) \in Nat /\ TextSize(bin) \in Nat
    <2>1. /\ bin.rtBase \in Nat /\ bin.rtBase <= TextSize(bin) /\ TextSize(bin) \in Nat
          /\ incr_text_end(bin) \in Nat /\ TextSize(bin) <= incr_text_end(bin)
      BY <1>1, SectionFacts
    <2> QED BY <2>1
  <1>3. Aligned /\ NeedsKnown /\ RuntimeDone
    BY <1>1, LateStart
  <1>4. rtBase <= bin.rtBase /\ rtBase \in Nat
    BY <1>1, <1>3 DEF Aligned, TypeOK
  <1>5. need = bin.rts /\ need \in SUBSET Routine /\ need # {}
    <2>1. need = bin.rts
      BY LinedUp
    <2> QED BY <1>1, <1>3, <2>1, PositiveConstants DEF TypeOK, NeedsKnown
  <1>6. PICK r \in need : RtOff[need][r] = 0
    BY <1>5, RuntimeFacts
  <1>7. RtAt(rtBase, need)[r] = rtBase /\ RtAt(bin.rtBase, bin.rts)[r] = bin.rtBase
    <2>1. r \in Routine
      BY <1>5
    <2>2. RtAt(rtBase, need)[r] = rtBase + RtOff[need][r]
      BY <2>1 DEF RtAt
    <2>3. RtAt(bin.rtBase, bin.rts)[r] = bin.rtBase + RtOff[need][r]
      BY <1>5, <2>1 DEF RtAt
    <2> QED BY <1>2, <1>4, <1>6, <2>2, <2>3
  <1>8. RtAt(rtBase, need)[r] = RtAt(bin.rtBase, bin.rts)[r]
          \/ RtAt(rtBase, need)[r] >= incr_text_end(bin)
    BY ImageFields DEF incr_lines_up
  <1> QED BY <1>2, <1>4, <1>7, <1>8

\* A function that is as it was is where it was: it fits its slot, and only
\* what does not fit is moved.
LEMMA UnchangedStays ==
  IInv /\ LaidOut /\ mode = 2 /\ ~why =>
    \A g \in live : ~digest_moved(g) => at[g] = bin.at[g]
  <1> SUFFICES ASSUME IInv, LaidOut, mode = 2, ~why, NEW g \in live, ~digest_moved(g)
               PROVE  at[g] = bin.at[g]
    OBVIOUS
  <1>1. /\ TypeOK /\ FileInv(bin) /\ bin.ok /\ pc \in {"moved", "late"}
        /\ Placed = live /\ live = reached_fns(prog)
    BY FinishedFacts
  <1>2. g \in Fn
    BY <1>1, LiveFacts
  <1>3. bin.ver[g] = prog.ver[g] /\ bin.ver[g] # NotDefined
    BY DEF digest_moved
  <1>4. SizeIn(bin, g) = CodeSize(g)
    BY <1>3 DEF SizeIn, CodeSize
  <1>5. bin.at[g] + CodeSize(g) <= bin.end[g] /\ bin.end[g] \in Int /\ bin.at[g] \in Int
        /\ CodeSize(g) \in Nat
    BY <1>1, <1>2, <1>3, <1>4, SlotFacts
  <1>6. Aligned
    BY <1>1, LateStart
  <1>7. g \notin Moving
    BY <1>5, <1>6 DEF Aligned
  <1> QED BY <1>1, <1>6, <1>7 DEF Aligned

LEMMA SyntheticsStay ==
  IInv /\ LaidOut /\ mode = 2 /\ ~why /\ incr_lines_up(Image) => synAt = bin.synAt
  <1> SUFFICES ASSUME IInv, LaidOut, mode = 2, ~why, incr_lines_up(Image)
               PROVE  synAt = bin.synAt
    OBVIOUS
  <1>1. /\ TypeOK /\ pc \in {"moved", "late"} /\ bin.ok
    BY FinishedFacts
  <1>2. Aligned /\ Len(synAt) = Len(bin.synAt)
    BY <1>1, LateStart, LinedUp
  <1>3. synAt \in Seq(Nat) /\ bin.synAt \in Seq(Nat)
    BY <1>1 DEF TypeOK, FileType
  <1>4. \A j \in DOMAIN synAt : synAt[j] = SynthWas(j)
    BY <1>2 DEF Aligned
  <1>5. \A j \in 1 .. Len(synAt) : synAt[j] = bin.synAt[j]
    BY <1>2, <1>3, <1>4 DEF SynthWas
  <1> QED BY <1>2, <1>3, <1>5, SeqEqual

LEMMA LambdasStay ==
  IInv /\ LaidOut /\ mode = 2 /\ ~why /\ incr_lines_up(Image) /\ LambdasFixed
    => prog.lams = bin.lams
  <1> SUFFICES ASSUME IInv, LaidOut, mode = 2, ~why, incr_lines_up(Image), LambdasFixed
               PROVE  prog.lams = bin.lams
    OBVIOUS
  <1>1. /\ TypeOK /\ FileInv(bin) /\ pc \in {"moved", "late"} /\ bin.ok
    BY FinishedFacts
  <1>2. SyntheticsPlaced /\ RuntimeDone /\ Len(synAt) = Len(bin.synAt)
    BY <1>1, LateStart, LinedUp
  <1>3. Synthetics(bin)
    BY <1>1 DEF FileInv
  <1>4. PICK p \in Programs : bin.lams = p.lams
    BY <1>3 DEF Synthetics
  <1>5. prog \in Programs /\ SynthCount(prog) = 1 + Len(prog.lams)
    BY <1>1, SynthFacts DEF TypeOK
  <1>6. Len(synAt) = SynthCount(prog) /\ Len(bin.synAt) = 1 + Len(bin.lams)
    BY <1>1, <1>2, <1>3 DEF SyntheticsPlaced, Synthetics
  <1>7. prog.lams \in Seq(Fn) /\ bin.lams \in Seq(Fn)
    BY <1>4, <1>5, ProgramFacts
  <1>8. Len(prog.lams) = Len(bin.lams)
    <2>1. 1 + Len(prog.lams) = 1 + Len(bin.lams)
      BY <1>2, <1>5, <1>6
    <2>2. Len(prog.lams) \in Nat /\ Len(bin.lams) \in Nat
      BY <1>7
    <2> QED BY <2>1, <2>2
  <1> QED BY <1>4, <1>5, <1>8 DEF LambdasFixed

\* What a build copies is still linked to what it names.
LEMMA CopiedLinked ==
  /\ IInv /\ AllLinked(bin) /\ LaidOut /\ MayReplace
  /\ NamesSeen /\ LambdasFixed
  => \A f \in live \cap copied : Linked(Image, f)
  <1> SUFFICES ASSUME IInv, AllLinked(bin), LaidOut, MayReplace,
                      NamesSeen, LambdasFixed, NEW f \in live, f \in copied
               PROVE  Linked(Image, f)
    OBVIOUS
  <1>1. /\ TypeOK /\ FileInv(bin) /\ live = reached_fns(prog)
        /\ mode = 2 => bin.ok
        /\ pc \in {"moved", "late"}
    BY FinishedFacts
  <1>2. Aligned /\ FirstBuild /\ SyntheticsPlaced /\ RuntimeDone
    BY <1>1, LateStart
  <1>3. mode = 2 /\ bin.ok /\ ~why /\ incr_lines_up(Image)
    BY <1>1, <1>2 DEF FirstBuild, MayReplace, TypeOK
  <1>4. /\ Image.ver[f] = prog.ver[f] /\ Image.code[f] = bin.code[f] /\ f \in Fn
        /\ CallsIn(Image, f) = CodeCalls(f) /\ CodeCalls(f) \subseteq live
        /\ NeedsIn(Image, f) = CodeNeeds(f)
        /\ \A g \in live : Image.at[g] = at[g]
    BY ImageHolds
  <1>5. bin.at[f] > 0 /\ f \notin incr_regenerate
    BY <1>2, <1>3 DEF Aligned
  <1>6. bin.ver[f] = prog.ver[f] /\ \A g \in CodeCalls(f) \ Qualified : ~digest_moved(g)
    BY <1>4, <1>5, KeptFacts
  <1>7. Linked(bin, f)
    <2>1. f \in FunctionsIn(bin)
      BY <1>1, <1>3, <1>4, <1>5, SlotFacts DEF FunctionsIn
    <2> QED BY <1>3, <2>1 DEF AllLinked
  <1>8. /\ CallsIn(bin, f) = CodeCalls(f) /\ NeedsIn(bin, f) = CodeNeeds(f)
        /\ LambdaIn(bin, f) <=> LambdaIn(Image, f)
    BY <1>4, <1>6 DEF CallsIn, NeedsIn, LambdaIn, CodeCalls, CodeNeeds
  <1>9. /\ bin.code[f].ver = prog.ver[f]
        /\ \A g \in CodeCalls(f) : bin.code[f].call[g] = bin.at[g]
        /\ \A r \in CodeNeeds(f) :
             r \in bin.rts /\ bin.code[f].rt[r] = RtAt(bin.rtBase, bin.rts)[r]
        /\ LambdaIn(Image, f) => bin.code[f].lam = LambdaAt(bin, f)
    BY <1>6, <1>7, <1>8, LinkedKinds
  <1>10. \A g \in CodeCalls(f) : bin.at[g] = at[g]
    <2>1. CodeCalls(f) \cap Qualified = {}
      <3>1. prog.ver[f] \in Version
        BY <1>1, LiveFacts
      <3> QED BY <1>4, <3>1 DEF NamesSeen, CodeCalls
    <2>2. \A g \in CodeCalls(f) : g \in live /\ ~digest_moved(g)
      BY <1>4, <1>6, <2>1
    <2> QED BY <1>3, <2>2, UnchangedStays
  <1>11. need = bin.rts /\ rtBase = bin.rtBase /\ Len(synAt) = Len(bin.synAt)
    BY <1>3, LinedUp, RuntimeStays
  <1>12. synAt = bin.synAt
    BY <1>3, SyntheticsStay
  <1>13. prog.lams = bin.lams
    BY <1>3, LambdasStay
  <1>14. LambdaAt(bin, f) = LambdaAt(Image, f)
    BY <1>12, <1>13, ImageFields DEF LambdaAt
  <1>15. Image.rts = need /\ Image.rtBase = rtBase
    BY ImageFields
  <1>16. \A g \in CodeCalls(f) : Image.code[f].call[g] = Image.at[g]
    BY <1>4, <1>9, <1>10
  <1>17. \A r \in CodeNeeds(f) :
           r \in Image.rts /\ Image.code[f].rt[r] = RtAt(Image.rtBase, Image.rts)[r]
    BY <1>4, <1>9, <1>11, <1>15
  <1> QED BY <1>4, <1>9, <1>14, <1>16, <1>17, LinkedKinds

-----------------------------------------------------------------------------
(***************************************************************************)
(* The invariant and the theorem.                                          *)
(***************************************************************************)

\* Whatever stands in an accepted image, it is linked.
LEMMA ImageLinked ==
  NamesSeen /\ LambdasFixed /\ LInv /\ LaidOut /\ MayReplace => AllLinked(Image)
  <1> SUFFICES ASSUME NamesSeen, LambdasFixed, LInv, LaidOut, MayReplace, NEW f \in live
               PROVE  Linked(Image, f)
    BY ImageHolds DEF AllLinked, LInv
  <1>1. IInv /\ AllLinked(bin)
    BY DEF LInv
  <1> QED BY <1>1, WrittenLinked, CopiedLinked

\* The file changes by being emptied and by being replaced, what replaces it
\* by being thrown away and by the acceptance of an image.
LEMMA FilesMove ==
  [Next]_vars =>
    /\ bin' \in {bin, prev_none, out}
    /\ out' \in {out, prev_none} \/ (LaidOut /\ MayReplace /\ out' = Image)
  <1> SUFFICES ASSUME [Next]_vars
               PROVE
    /\ bin' \in {bin, prev_none, out}
    /\ out' \in {out, prev_none} \/ (LaidOut /\ MayReplace /\ out' = Image)
    OBVIOUS
  <1>1. CASE Edit \/ Kill \/ StopOnAssertion \/ UNCHANGED vars
    BY <1>1 DEF Edit, Kill, StopOnAssertion, vars
  <1>2. CASE StartBuild \/ Fallback
    BY <1>2 DEF StartBuild, Fallback, BeginCodegen
  <1>3. CASE EmitFunction
    BY <1>3 DEF EmitFunction, SkipUnreached, WritePadded, SetAside, InPlace,
           CopyInPlace, WriteInPlace, Outgrow, AtFunction
  <1>4. CASE FunctionsDone \/ WriteSyntheticPadded \/ WriteSyntheticInPlace \/ EmitRuntime
    BY <1>4 DEF FunctionsDone, AtSynthetic, WriteSyntheticPadded,
           WriteSyntheticInPlace, EmitRuntime
  <1>5. CASE PlaceAway \/ BeginLate \/ PlaceLate
    BY <1>5 DEF PlaceAway, NextAway, CopyAway, WriteAway, OutgrowAgain,
           BeginLate, PlaceLate
  <1>6. CASE Accept \/ CreateFile \/ Writev
    BY <1>6 DEF Accept, CreateFile, Writev
  <1> QED BY <1>1, <1>2, <1>3, <1>4, <1>5, <1>6 DEF Next, BuildStep

\* The steps that are not the acceptance of an image leave what is about to
\* replace the file alone.
LEMMA CreateFrame ==
  [Next]_vars /\ pc' \in {"create", "writev"} =>
    \/ LaidOut /\ MayReplace /\ pc' = "create" /\ out' = Image
         /\ UNCHANGED <<src, bin, build>>
    \/ pc = "create" /\ pc' = "create" /\ UNCHANGED <<bin, build, out>>
    \/ pc = "create" /\ pc' = "writev" /\ bin' = prev_none /\ UNCHANGED <<build, out>>
    \/ pc = "writev" /\ pc' = "writev" /\ UNCHANGED <<bin, build, out>>
  <1> SUFFICES ASSUME [Next]_vars, pc' \in {"create", "writev"}
               PROVE
    \/ LaidOut /\ MayReplace /\ pc' = "create" /\ out' = Image
         /\ UNCHANGED <<src, bin, build>>
    \/ pc = "create" /\ pc' = "create" /\ UNCHANGED <<bin, build, out>>
    \/ pc = "create" /\ pc' = "writev" /\ bin' = prev_none /\ UNCHANGED <<build, out>>
    \/ pc = "writev" /\ pc' = "writev" /\ UNCHANGED <<bin, build, out>>
    OBVIOUS
  <1>1. CASE Accept
    BY <1>1 DEF Accept
  <1>2. CASE Edit \/ UNCHANGED vars
    BY <1>2 DEF Edit, vars
  <1>3. CASE CreateFile
    BY <1>3 DEF CreateFile
  <1>4. CASE Kill \/ StopOnAssertion \/ Writev \/ StartBuild \/ Fallback
    BY <1>4 DEF Kill, StopOnAssertion, Writev, StartBuild, Fallback, BeginCodegen
  <1>5. CASE EmitFunction
    BY <1>5 DEF EmitFunction, SkipUnreached, WritePadded, SetAside, InPlace,
           CopyInPlace, WriteInPlace, Outgrow, AtFunction
  <1>6. CASE FunctionsDone \/ WriteSyntheticPadded \/ WriteSyntheticInPlace \/ EmitRuntime
    BY <1>6 DEF FunctionsDone, AtSynthetic, WriteSyntheticPadded,
           WriteSyntheticInPlace, EmitRuntime
  <1>7. CASE PlaceAway \/ BeginLate \/ PlaceLate
    BY <1>7 DEF PlaceAway, NextAway, CopyAway, WriteAway, OutgrowAgain,
           BeginLate, PlaceLate
  <1> QED BY <1>1, <1>2, <1>3, <1>4, <1>5, <1>6, <1>7 DEF Next, BuildStep

LEMMA NextLinked ==
  NamesSeen /\ LambdasFixed /\ LInv /\ [Next]_vars => LInv'
  <1> SUFFICES ASSUME NamesSeen, LambdasFixed, LInv, [Next]_vars PROVE LInv'
    OBVIOUS
  <1>1. IInv /\ AllLinked(bin) /\ AllLinked(out)
    BY DEF LInv
  <1>2. IInv'
    BY <1>1, NextInv
  <1>3. AllLinked(prev_none)
    BY DEF AllLinked, prev_none
  <1>4. AllLinked(bin') /\ AllLinked(out')
    BY <1>1, <1>3, FilesMove, ImageLinked
  <1>5. AllLinked(bin)' /\ AllLinked(out)'
    BY <1>4 DEF AllLinked, FunctionsIn, Linked
  <1> QED BY <1>2, <1>5 DEF LInv

\* Every function of every readable file runs the source its digest names and
\* calls what that source calls, whichever build wrote it and however often it
\* has been copied since (incr_regenerate, incr_copy, incr_lines_up): for every
\* program in which the scan sees each name and lambdas keep their numbers.
THEOREM EveryFileIsFaithful ==
  NamesSeen /\ LambdasFixed => (Spec => []Faithful)
  <1> SUFFICES ASSUME NamesSeen, LambdasFixed PROVE Spec => []Faithful
    OBVIOUS
  <1>1. Init => LInv
    <2> SUFFICES ASSUME Init PROVE LInv
      OBVIOUS
    <2>1. AllLinked(bin) /\ AllLinked(out)
      BY DEF Init, AllLinked, prev_none
    <2> QED BY <2>1, InitInv DEF LInv
  <1>2. LInv /\ [Next]_vars => LInv'
    BY NextLinked
  <1>3. LInv => Faithful
    BY DEF LInv, AllLinked, Faithful
  <1> QED BY <1>1, <1>2, <1>3, PTL DEF Spec

-----------------------------------------------------------------------------
(***************************************************************************)
(* The refinement of Compiler.                                             *)
(***************************************************************************)

LEMMA ImageMeans ==
  NamesSeen /\ LambdasFixed /\ LInv /\ LaidOut /\ MayReplace =>
    Runs(Image) = MeaningOf(prog)
  <1> SUFFICES ASSUME NamesSeen, LambdasFixed, LInv, LaidOut, MayReplace
               PROVE  Runs(Image) = MeaningOf(prog)
    OBVIOUS
  <1>1. IInv /\ AllLinked(Image) /\ Image.ok
    BY ImageLinked, ImageFields DEF LInv
  <1>2. /\ live = reached_fns(prog)
        /\ FunctionsIn(Image) = live
        /\ \A f \in live : Image.at[f] > 0 /\ Image.ver[f] = prog.ver[f]
        /\ \A f \in Fn : f \notin live => Image.at[f] < 0
    BY <1>1, FinishedFacts, ImageHolds, ImageSlots, ImageFields
  <1>3. \A f \in live : Linked(Image, f) /\ Image.code[f].ver = prog.ver[f]
    BY <1>1, <1>2, LinkedKinds DEF AllLinked
  <1>4. \A f \in live : ~(Image.at[f] < 0)
    BY <1>1, <1>2, ImageHolds, ImageSlots
  <1>5. \A f \in Fn : (IF Image.at[f] < 0 THEN NotDefined
                       ELSE IF Linked(Image, f) THEN Image.code[f].ver
                       ELSE "astray")
                    = (IF f \in live THEN prog.ver[f] ELSE NotDefined)
    BY <1>2, <1>3, <1>4
  <1> QED BY <1>2, <1>5 DEF Runs, MeaningOf

LEMMA SameMeaning ==
  out' = out /\ prog' = prog /\ MeansTheProgram => MeansTheProgram'
  <1> SUFFICES ASSUME out' = out, prog' = prog, MeansTheProgram PROVE MeansTheProgram'
    OBVIOUS
  <1>1. out'.ok /\ Runs(out') = MeaningOf(prog')
    BY DEF MeansTheProgram
  <1> QED BY <1>1 DEF MeansTheProgram, Runs, MeaningOf, Linked

LEMMA NextMeant ==
  NamesSeen /\ LambdasFixed /\ PInv /\ [Next]_vars => PInv'
  <1> SUFFICES ASSUME NamesSeen, LambdasFixed, PInv, [Next]_vars PROVE PInv'
    OBVIOUS
  <1>1. LInv /\ Meant /\ LInv'
    BY NextLinked DEF PInv
  <1> SUFFICES Meant'
    BY <1>1 DEF PInv
  <1>2. CASE pc' \in {"create", "writev"}
    <2>1. CASE LaidOut /\ MayReplace /\ pc' = "create" /\ out' = Image /\ prog' = prog
      <3>1. Image.ok /\ Runs(Image) = MeaningOf(prog)
        BY <1>1, <2>1, ImageMeans, ImageFields
      <3>2. out'.ok /\ Runs(out') = MeaningOf(prog')
        BY <2>1, <3>1
      <3>3. MeansTheProgram'
        BY <3>2 DEF MeansTheProgram, Runs, MeaningOf, Linked
      <3> QED BY <2>1, <3>3 DEF Meant
    <2>2. CASE pc = "create" /\ out' = out /\ prog' = prog /\ (pc' = "create" \/ bin' = prev_none)
      <3>1. MeansTheProgram'
        BY <1>1, <2>2, SameMeaning DEF Meant
      <3> QED BY <1>2, <2>2, <3>1 DEF Meant
    <2>3. CASE pc = "writev" /\ out' = out /\ prog' = prog /\ bin' = bin
      <3>1. MeansTheProgram'
        BY <1>1, <2>3, SameMeaning DEF Meant
      <3> QED BY <1>1, <2>3, <3>1 DEF Meant
    <2> QED BY <1>2, <2>1, <2>2, <2>3, CreateFrame DEF build
  <1>3. CASE pc' \notin {"create", "writev"}
    BY <1>3 DEF Meant
  <1> QED BY <1>2, <1>3

\* Every step of a build is a step the promise allows.
LEMMA StepKept ==
  PInv /\ [Next]_vars => [Promise!Next]_(Promise!vars)
  <1> SUFFICES ASSUME PInv, [Next]_vars PROVE [Promise!Next]_(Promise!vars)
    OBVIOUS
  <1> USE DEF Promise!Next, Promise!vars
  <1>1. CASE Edit
    <2>1. src' \in Programs /\ prog' = prog /\ pc' = pc /\ bin' = bin
      BY <1>1 DEF Edit, build
    <2> QED BY <2>1 DEF Promise!Save, Runs, Linked
  <1>2. CASE StartBuild
    <2>1. src' = src /\ prog' = src /\ pc = "idle" /\ pc' # "idle" /\ bin' = bin
      BY <1>2 DEF StartBuild, BeginCodegen
    <2> QED BY <2>1 DEF Promise!Begin, Runs, Linked
  <1>3. CASE CreateFile
    <2>1. src' = src /\ prog' = prog /\ pc # "idle" /\ pc' # "idle" /\ ~bin'.ok
      BY <1>3 DEF CreateFile, build, prev_none
    <2> QED BY <2>1 DEF Promise!Empty
  <1>4. CASE Writev
    <2>1. /\ src' = src /\ prog' = prog /\ pc # "idle" /\ pc' = "idle"
          /\ bin' = out /\ ~bin.ok /\ out.ok /\ Runs(out) = MeaningOf(prog)
      BY <1>4 DEF Writev, build, prev_none, PInv, Meant, MeansTheProgram
    <2>2. bin'.ok /\ Runs(bin') = MeaningOf(prog)
      BY <2>1
    <2>3. bin.ok' /\ Runs(bin)' = MeaningOf(prog)
      BY <2>2 DEF Runs, Linked
    <2> QED BY <2>1, <2>3 DEF Promise!Replace
  <1>5. CASE Kill
    <2>1. src' = src /\ prog' = prog /\ pc # "idle" /\ pc' = "idle" /\ bin' = bin
      BY <1>5 DEF Kill, build
    <2> QED BY <2>1 DEF Promise!GiveUp, Runs, Linked
  <1>6. CASE src' = src /\ prog' = prog /\ pc # "idle" /\ pc' # "idle" /\ bin' = bin
    BY <1>6 DEF Runs, Linked
  <1>7. CASE UNCHANGED vars
    <2>1. src' = src /\ prog' = prog /\ pc' = pc /\ bin' = bin
      BY <1>7 DEF vars, build
    <2> QED BY <2>1 DEF Runs, Linked
  <1>8. CASE EmitFunction
    <2>1. src' = src /\ prog' = prog /\ pc # "idle" /\ pc' # "idle" /\ bin' = bin
      BY <1>8 DEF EmitFunction, SkipUnreached, WritePadded, SetAside, InPlace,
             CopyInPlace, WriteInPlace, Outgrow, AtFunction
    <2> QED BY <1>6, <2>1
  <1>9. CASE FunctionsDone \/ WriteSyntheticPadded \/ WriteSyntheticInPlace \/ EmitRuntime
    <2>1. src' = src /\ prog' = prog /\ pc # "idle" /\ pc' # "idle" /\ bin' = bin
      BY <1>9 DEF FunctionsDone, AtSynthetic, WriteSyntheticPadded,
             WriteSyntheticInPlace, EmitRuntime
    <2> QED BY <1>6, <2>1
  <1>10. CASE PlaceAway \/ BeginLate \/ PlaceLate \/ StopOnAssertion
    <2>1. src' = src /\ prog' = prog /\ pc # "idle" /\ pc' # "idle" /\ bin' = bin
      BY <1>10 DEF PlaceAway, NextAway, CopyAway, WriteAway, OutgrowAgain,
             BeginLate, PlaceLate, StopOnAssertion, build
    <2> QED BY <1>6, <2>1
  <1>11. CASE Accept \/ Fallback
    <2>1. src' = src /\ prog' = prog /\ pc # "idle" /\ pc' # "idle" /\ bin' = bin
      BY <1>11 DEF Accept, Fallback, LaidOut, BeginCodegen, build
    <2> QED BY <1>6, <2>1
  <1> QED BY <1>1, <1>2, <1>3, <1>4, <1>5, <1>7, <1>8, <1>9, <1>10, <1>11
          DEF Next, BuildStep

\* However often it is run, edited under and killed, an incremental compiler
\* leaves no file at all or one that means what some source it read meant
\* (INCREMENTAL.md): for every program in which the scan sees each name and
\* lambdas keep their numbers.
THEOREM PromiseKept == NamesSeen /\ LambdasFixed => (Spec => KeepsThePromise)
  <1> SUFFICES ASSUME NamesSeen, LambdasFixed PROVE Spec => KeepsThePromise
    OBVIOUS
  <1>1. Init => PInv
    <2> SUFFICES ASSUME Init PROVE PInv
      OBVIOUS
    <2>1. AllLinked(bin) /\ AllLinked(out)
      BY DEF Init, AllLinked, prev_none
    <2>2. Meant
      BY DEF Init, Meant
    <2> QED BY <2>1, <2>2, InitInv DEF PInv, LInv
  <1>2. PInv /\ [Next]_vars => PInv'
    BY NextMeant
  <1>3. Init => Promise!Init
    BY DEF Init, Promise!Init, prev_none
  <1>4. PInv /\ [Next]_vars => [Promise!Next]_(Promise!vars)
    BY StepKept
  <1> QED BY <1>1, <1>2, <1>3, <1>4, PTL DEF Spec, KeepsThePromise, Promise!Spec

-----------------------------------------------------------------------------
(***************************************************************************)
(* What a build that is laid over a file leaves where it was.              *)
(***************************************************************************)

\* A function that is not where it was did not fit, so it is written again and
\* so is everything that names it.
LEMMA MovedWritten ==
  NamesSeen /\ IInv /\ LaidOut /\ mode = 2 /\ ~why =>
    \A f \in live : at[f] # bin.at[f] =>
      \A g \in live : g = f \/ f \in CodeCalls(g) => g \notin copied
  <1> SUFFICES ASSUME NamesSeen, IInv, LaidOut, mode = 2, ~why,
                      NEW f \in live, at[f] # bin.at[f],
                      NEW g \in live, g = f \/ f \in CodeCalls(g), g \in copied
               PROVE  FALSE
    OBVIOUS
  <1>1. digest_moved(f)
    BY UnchangedStays
  <1>2. /\ TypeOK /\ live = reached_fns(prog) /\ pc \in {"moved", "late"}
    BY FinishedFacts
  <1>3. g \notin incr_regenerate
    BY <1>2, LateStart DEF Aligned
  <1>4. CASE g = f
    BY <1>1, <1>3, <1>4 DEF incr_regenerate
  <1>5. CASE f \in CodeCalls(g)
    <2>1. f \notin Qualified
      <3>1. g \in Fn /\ prog.ver[g] \in Version
        BY <1>2, LiveFacts
      <3> QED BY <1>5, <3>1 DEF NamesSeen, CodeCalls
    <2> QED BY <1>1, <1>3, <1>5, <2>1 DEF incr_regenerate
  <1> QED BY <1>4, <1>5

LEMMA LaidKeepsPlaces ==
  NamesSeen /\ IInv /\ LaidOut /\ MayReplace /\ mode = 2 =>
    \A f \in FunctionsIn(Image) :
      \/ Image.at[f] = bin.at[f] /\ Image.end[f] >= bin.end[f]
      \/ /\ Image.at[f] >= incr_text_end(bin)
         /\ \A g \in FunctionsIn(Image) :
              g = f \/ f \in Calls[g, Image.ver[g]] => g \notin copied
  <1> SUFFICES ASSUME NamesSeen, IInv, LaidOut, MayReplace, mode = 2, NEW f \in FunctionsIn(Image)
               PROVE
      \/ Image.at[f] = bin.at[f] /\ Image.end[f] >= bin.end[f]
      \/ /\ Image.at[f] >= incr_text_end(bin)
         /\ \A g \in FunctionsIn(Image) :
              g = f \/ f \in Calls[g, Image.ver[g]] => g \notin copied
    OBVIOUS
  <1>1. ~why /\ SymbolHolds(bin.at[f], bin.end[f], Image.at[f], Image.end[f])
    BY DEF MayReplace, incr_lines_up
  <1>2. f \in live /\ FunctionsIn(Image) = live /\ Image.at[f] = at[f]
        /\ \A g \in live : Calls[g, Image.ver[g]] = CodeCalls(g)
    BY ImageHolds DEF CallsIn
  <1>3. CASE Image.at[f] = bin.at[f]
    BY <1>1, <1>3 DEF SymbolHolds
  <1>4. CASE Image.at[f] # bin.at[f]
    BY <1>1, <1>2, <1>4, MovedWritten DEF SymbolHolds
  <1> QED BY <1>3, <1>4

\* A build laid over a file leaves every function where it was with no less
\* room, or out past everything the file used and written again with everything
\* that calls it (incr_lines_up, the overflow of codegen.ngpl): for every
\* program in which the scan sees each name.
THEOREM PlacesAreKept ==
  NamesSeen => (Spec => []KeepsPlaces)
  <1> SUFFICES ASSUME NamesSeen PROVE Spec => []KeepsPlaces
    OBVIOUS
  <1>1. Init => KeepsPlaces
    BY DEF Init, KeepsPlaces, Overlaid
  <1>2. IInv /\ KeepsPlaces /\ [Next]_vars => KeepsPlaces'
    <2> SUFFICES ASSUME IInv, KeepsPlaces, [Next]_vars, pc' = "create", mode' = 2
                 PROVE  KeepsPlaces'
      BY DEF KeepsPlaces, Overlaid
    <2>1. CASE LaidOut /\ MayReplace /\ out' = Image /\ UNCHANGED <<src, bin, build>>
      <3>1. mode' = mode /\ bin' = bin /\ copied' = copied
        BY <2>1 DEF build
      <3> DEFINE Kept(file) ==
            \A f \in FunctionsIn(file) :
              \/ file.at[f] = bin.at[f] /\ file.end[f] >= bin.end[f]
              \/ /\ file.at[f] >= incr_text_end(bin)
                 /\ \A g \in FunctionsIn(file) :
                      g = f \/ f \in Calls[g, file.ver[g]] => g \notin copied
      <3>2. Kept(Image)
        BY <2>1, <3>1, LaidKeepsPlaces
      <3>3. Kept(out')
        <4> HIDE DEF Kept
        <4> QED BY <2>1, <3>2
      <3> QED BY <3>1, <3>3 DEF KeepsPlaces, FunctionsIn, incr_text_end
    <2>2. CASE pc = "create" /\ UNCHANGED <<bin, build, out>>
      BY <2>2 DEF KeepsPlaces, Overlaid, build, FunctionsIn, incr_text_end
    <2> QED BY <2>1, <2>2, CreateFrame
  <1> QED BY <1>1, <1>2, Invariance, PTL DEF Spec

-----------------------------------------------------------------------------
(***************************************************************************)
(* The assertion about the overflow.                                       *)
(***************************************************************************)

\* The last section of a file ends past the others.
LEMMA LastSection ==
  \A file :
    Sections(file) =>
      /\ incr_text_end(file) \in file.txEnds
      /\ \A e \in file.txEnds : e <= incr_text_end(file)
  <1> SUFFICES ASSUME NEW file, Sections(file)
               PROVE  /\ incr_text_end(file) \in file.txEnds
                      /\ \A e \in file.txEnds : e <= incr_text_end(file)
    OBVIOUS
  <1>1. \E m \in file.txEnds : \A e \in file.txEnds : e <= m
    BY DEF Sections
  <1> QED BY <1>1 DEF incr_text_end

\* The overflow of the old file is still there, in the new one.
LEMMA OverflowKept ==
  IInv /\ LaidOut /\ mode = 2 /\ ~why /\ incr_lines_up(Image) =>
    incr_text_end(bin) \in Image.txEnds
  <1> SUFFICES ASSUME IInv, LaidOut, mode = 2, ~why, incr_lines_up(Image)
               PROVE  incr_text_end(bin) \in Image.txEnds
    OBVIOUS
  <1>1. TypeOK /\ FileInv(bin) /\ bin.ok
    BY FinishedFacts
  <1>2. need = bin.rts /\ rtBase = bin.rtBase
    BY LinedUp, RuntimeStays
  <1> DEFINE t == TextSize(bin)
             x == incr_text_end(bin)
  <1>3. t \in Nat /\ x \in Nat /\ t <= x /\ x \in bin.txEnds
    BY <1>1, SectionFacts
  <1>4. /\ rtBase + RtLen[need] = t
        /\ Image.txEnds = {t} \cup {e \in bin.txEnds : e > t}
                            \cup (IF Late # <<>> THEN {here} ELSE {})
    BY <1>2, ImageFields DEF tx_ends, TextSize
  <1> HIDE DEF t, x
  <1>5. x = t \/ x > t
    BY <1>3
  <1>6. x \in {t} \cup {e \in bin.txEnds : e > t}
    BY <1>3, <1>5
  <1> QED BY <1>4, <1>6 DEF x

LEMMA ImageEndsWithin ==
  SInv /\ LaidOut /\ MayReplace => EndsWithin(Image)
  <1> SUFFICES ASSUME SInv, LaidOut, MayReplace PROVE EndsWithin(Image)
    OBVIOUS
  <1>1. IInv /\ LaidWithin
    BY DEF SInv
  <1>2. /\ TypeOK /\ FileInv(bin) /\ live = reached_fns(prog)
        /\ SymbolAddresses = Symbols \cup {here}
        /\ pc \in {"moved", "late"}
    BY <1>1, FinishedFacts
  <1>3. FileType(Image) /\ Sections(Image) /\ Image.ok
    BY <1>1, ImageType, ImageSections, ImageFields
  <1>4. here \in Nat /\ Image.textEnd = here
    BY <1>2, ImageFields DEF TypeOK
  <1>5. /\ Image.txEnds \in SUBSET Nat
        /\ incr_text_end(Image) \in Nat
        /\ \A e \in Image.txEnds : e <= incr_text_end(Image)
    BY <1>3, LastSection DEF FileType
  <1>6. here <= incr_text_end(Image)
    <2>1. CASE Late # <<>>
      <3>1. here \in Image.txEnds
        BY <2>1, ImageFields DEF tx_ends
      <3> QED BY <1>5, <3>1
    <2>2. CASE Late = <<>> /\ mode = 1
      <3>1. here = rtBase + RtLen[need]
        BY <1>1, <1>2, <2>2 DEF LaidWithin
      <3>2. here \in Image.txEnds
        BY <3>1, ImageFields DEF tx_ends
      <3> QED BY <1>5, <3>2
    <2>3. CASE Late = <<>> /\ mode = 2
      <3>1. ~why /\ incr_lines_up(Image)
        BY <2>3 DEF MayReplace
      <3>2. need = bin.rts /\ incr_text_end(bin) \in Image.txEnds
        BY <1>1, <2>3, <3>1, LinedUp, OverflowKept
      <3>3. here <= incr_text_end(bin)
        BY <1>1, <1>2, <2>3, <3>1, <3>2 DEF LaidWithin
      <3>4. incr_text_end(bin) \in Nat /\ incr_text_end(bin) <= incr_text_end(Image)
        BY <1>5, <3>2
      <3> QED BY <1>4, <1>5, <3>3, <3>4
    <2> QED BY <1>2, <2>1, <2>2, <2>3 DEF TypeOK
  <1>7. \A f \in live : Image.end[f] <= here
    <2> SUFFICES ASSUME NEW f \in live PROVE Image.end[f] <= here
      OBVIOUS
    <2>1. f \in Fn /\ at[f] \in Nat /\ at[f] < here
      BY <1>1, ImageSlots
    <2>2. NextSymbol(at[f]) \in Symbols \cup {here}
      BY <1>1, <2>1, NextSymbolFacts
    <2>3. \A o \in Symbols : o <= here
      BY <1>1, <1>2, LateStart DEF Extents
    <2>4. Image.end[f] = NextSymbol(at[f])
      BY <2>1, ImageFields
    <2> QED BY <1>4, <2>2, <2>3, <2>4
  <1>8. FunctionsIn(Image) = live
    BY <1>1, ImageHolds
  <1> QED BY <1>4, <1>6, <1>7, <1>8 DEF EndsWithin

\* The steps that take the cursor along the overflow of the old file.
LEMMA AwayWithin ==
  \A f \in Fn :
    SInv /\ NextAway(f) /\ (CopyAway(f) \/ WriteAway(f) \/ OutgrowAgain(f)) =>
      LaidWithin'
  <1> SUFFICES ASSUME NEW f \in Fn, SInv, NextAway(f),
                      CopyAway(f) \/ WriteAway(f) \/ OutgrowAgain(f)
               PROVE  LaidWithin'
    OBVIOUS
  <1>1. IInv /\ EndsWithin(bin)
    BY DEF SInv
  <1>2. /\ TypeOK /\ FileInv(bin) /\ bin.ok /\ mode = 2 /\ bin.at[f] > 0
        /\ pc' = "moved" /\ mode' = mode /\ bin' = bin
    BY <1>1, AwayStart DEF Working
  <1> SUFFICES ASSUME ~why' PROVE here' <= incr_text_end(bin)
    BY <1>2 DEF LaidWithin, incr_text_end
  <1>3. Begins(f) = bin.at[f]
    BY <1>1, AwayBegins
  <1>4. /\ bin.at[f] \in Int /\ bin.end[f] \in Int /\ SizeIn(bin, f) \in Nat
        /\ bin.at[f] + SizeIn(bin, f) <= bin.end[f]
    BY <1>2, SlotFacts
  <1>5. bin.end[f] <= bin.textEnd /\ bin.textEnd <= incr_text_end(bin)
    BY <1>1, <1>2, <1>4 DEF EndsWithin, FunctionsIn
  <1>6. bin.textEnd \in Nat /\ incr_text_end(bin) \in Nat
    BY <1>2, SectionFacts DEF TypeOK, FileType
  <1>7. here' = bin.end[f]
    <2>1. CASE CopyAway(f)
      BY <1>3, <1>4, <2>1 DEF CopyAway
    <2>2. CASE WriteAway(f)
      <3>1. here' = Larger(bin.at[f] + CodeSize(f), bin.end[f])
            /\ bin.at[f] + CodeSize(f) <= bin.end[f]
        BY <1>3, <2>2 DEF WriteAway, Fits, incr_after
      <3>2. CodeSize(f) \in Nat
        BY <1>1, AwayStart, LiveFacts
      <3> QED BY <1>4, <3>1, <3>2 DEF Larger
    <2>3. CASE OutgrowAgain(f)
      <3>1. here' = Larger(bin.at[f], bin.end[f])
        BY <1>3, <2>3 DEF OutgrowAgain, incr_after
      <3> QED BY <1>4, <3>1 DEF Larger
    <2> QED BY <2>1, <2>2, <2>3
  <1> QED BY <1>4, <1>5, <1>6, <1>7

\* The runtime an overlaid file already carried ends where it ended.
LEMMA RuntimeWithin ==
  SInv /\ EmitRuntime => LaidWithin'
  <1> SUFFICES ASSUME SInv, EmitRuntime PROVE LaidWithin'
    OBVIOUS
  <1>1. IInv
    BY DEF SInv
  <1>2. /\ pc = "synthetics" /\ pc' = "moved" /\ mode' = mode /\ bin' = bin
        /\ why' = why /\ rtBase' = here /\ here' = here + RtLen[need']
    BY DEF EmitRuntime
  <1>3. /\ TypeOK /\ FileInv(bin) /\ Aligned /\ ~RuntimeDone /\ (mode = 2 => bin.ok)
    BY <1>1, <1>2, SyntheticStart
  <1>4. mode = 2 /\ ~why /\ need' = bin.rts => here' <= incr_text_end(bin)
    <2> SUFFICES ASSUME mode = 2, ~why, need' = bin.rts PROVE here' <= incr_text_end(bin)
      OBVIOUS
    <2>1. here <= bin.rtBase /\ bin.ok
      BY <1>3 DEF Aligned
    <2>2. /\ bin.rtBase \in Nat /\ TextSize(bin) \in Nat /\ incr_text_end(bin) \in Nat
          /\ TextSize(bin) <= incr_text_end(bin)
      BY <1>3, <2>1, SectionFacts
    <2>3. bin.rts \in SUBSET Routine
      BY <1>3, <2>1 DEF TypeOK, FileType
    <2>4. RtLen[bin.rts] \in Nat /\ here \in Nat
      BY <1>3, <2>3, RuntimeFacts DEF TypeOK
    <2>5. here' = here + RtLen[bin.rts] /\ TextSize(bin) = bin.rtBase + RtLen[bin.rts]
      BY <1>2 DEF TextSize
    <2> QED BY <2>1, <2>2, <2>4, <2>5
  <1> QED BY <1>2, <1>4 DEF LaidWithin, incr_text_end

LEMMA StopWithin ==
  SInv /\ StopOnAssertion => StopsOnlyWhenAstray'
  <1> SUFFICES ASSUME SInv, StopOnAssertion PROVE StopsOnlyWhenAstray'
    OBVIOUS
  <1>1. IInv /\ LaidWithin
    BY DEF SInv
  <1>2. /\ pc = "moved" /\ Late # <<>> /\ here > incr_text_end(bin)
        /\ why' = why /\ need' = need /\ bin' = bin
    BY DEF StopOnAssertion, build
  <1>3. mode = 2 /\ bin.ok /\ TypeOK /\ FileInv(bin)
    BY <1>1, <1>2, LateStart
  <1>4. here \in Nat /\ incr_text_end(bin) \in Nat
    BY <1>3, SectionFacts DEF TypeOK
  <1>5. ~(here <= incr_text_end(bin))
    BY <1>2, <1>4
  <1>6. why \/ need # bin.rts
    BY <1>1, <1>2, <1>3, <1>5 DEF LaidWithin
  <1> QED BY <1>2, <1>6 DEF StopsOnlyWhenAstray

LEMMA NextWithin == SInv /\ [Next]_vars => SInv'
  <1> SUFFICES ASSUME SInv, [Next]_vars PROVE SInv'
    OBVIOUS
  <1>1. /\ IInv /\ EndsWithin(bin) /\ EndsWithin(out) /\ LaidWithin
        /\ StopsOnlyWhenAstray
    BY DEF SInv
  <1>2. IInv'
    BY <1>1, NextInv
  <1>3. EndsWithin(bin)' /\ EndsWithin(out)'
    <2>1. EndsWithin(prev_none)
      BY DEF EndsWithin, prev_none
    <2>2. EndsWithin(bin') /\ EndsWithin(out')
      BY <1>1, <2>1, FilesMove, ImageEndsWithin
    <2> QED BY <2>2 DEF EndsWithin, FunctionsIn, incr_text_end
  <1>4. LaidWithin' /\ StopsOnlyWhenAstray'
    <2>1. CASE EmitRuntime
      <3>1. pc' = "moved"
        BY <2>1 DEF EmitRuntime
      <3> QED BY <2>1, <3>1, RuntimeWithin DEF StopsOnlyWhenAstray
    <2>2. CASE PlaceAway
      <3>1. PICK f \in Fn : CopyAway(f) \/ WriteAway(f) \/ OutgrowAgain(f)
        BY <2>2 DEF PlaceAway
      <3>2. NextAway(f)
        BY <3>1 DEF CopyAway, WriteAway, OutgrowAgain
      <3>3. pc' = "moved"
        BY <3>2 DEF NextAway
      <3> QED BY <3>1, <3>2, <3>3, AwayWithin DEF StopsOnlyWhenAstray
    <2>3. CASE StopOnAssertion
      <3>1. pc' = "stopped"
        BY <2>3 DEF StopOnAssertion
      <3> QED BY <2>3, <3>1, StopWithin DEF LaidWithin
    <2>4. CASE BeginLate \/ PlaceLate
      <3>1. pc' = "late" /\ Late # <<>> /\ UNCHANGED <<again, outgrown>>
        BY <1>1, <2>4 DEF BeginLate, PlaceLate, LaidWithin
      <3> QED BY <3>1 DEF LaidWithin, StopsOnlyWhenAstray, Late
    <2>5. CASE Edit \/ UNCHANGED vars
      <3>1. UNCHANGED <<pc, bin, build>>
        BY <2>5 DEF Edit, vars
      <3>2. UNCHANGED <<mode, here, rtBase, need, why, again, outgrown>>
        BY <3>1 DEF build
      <3> QED BY <1>1, <3>1, <3>2 DEF LaidWithin, StopsOnlyWhenAstray, Late, incr_text_end
    <2>6. CASE EmitFunction
      <3>1. pc' = pc /\ pc = "functions"
        BY <2>6 DEF EmitFunction, SkipUnreached, WritePadded, SetAside, InPlace,
               CopyInPlace, WriteInPlace, Outgrow, AtFunction
      <3> QED BY <3>1 DEF LaidWithin, StopsOnlyWhenAstray
    <2>7. CASE \/ StartBuild \/ FunctionsDone \/ WriteSyntheticPadded
               \/ WriteSyntheticInPlace \/ Fallback
      <3>1. pc' \in {"functions", "synthetics"}
        BY <2>7 DEF StartBuild, Fallback, BeginCodegen, FunctionsDone, AtSynthetic,
               WriteSyntheticPadded, WriteSyntheticInPlace
      <3> QED BY <3>1 DEF LaidWithin, StopsOnlyWhenAstray
    <2>8. CASE Accept \/ CreateFile \/ Writev \/ Kill
      <3>1. pc' \in {"create", "writev", "idle"}
        BY <2>8 DEF Accept, CreateFile, Writev, Kill
      <3> QED BY <3>1 DEF LaidWithin, StopsOnlyWhenAstray
    <2> QED BY <2>1, <2>2, <2>3, <2>4, <2>5, <2>6, <2>7, <2>8 DEF Next, BuildStep
  <1> QED BY <1>2, <1>3, <1>4 DEF SInv

\* The compiler stops on its assertion about the overflow only in a build that
\* had already gone astray or needs a routine the file does not carry: what is
\* laid over a file ends, the runtime and the old overflow with it, where the
\* file's code ended (codegen.ngpl, the assertion), for every program.
THEOREM AssertionHolds == Spec => []StopsOnlyWhenAstray
  <1>1. Init => SInv
    <2> SUFFICES ASSUME Init PROVE SInv
      OBVIOUS
    <2>1. EndsWithin(bin) /\ EndsWithin(out)
      BY DEF Init, EndsWithin, prev_none
    <2>2. LaidWithin /\ StopsOnlyWhenAstray
      BY DEF Init, LaidWithin, StopsOnlyWhenAstray
    <2> QED BY <2>1, <2>2, InitInv DEF SInv
  <1>2. SInv /\ [Next]_vars => SInv'
    BY NextWithin
  <1>3. SInv => StopsOnlyWhenAstray
    BY DEF SInv
  <1> QED BY <1>1, <1>2, <1>3, PTL DEF Spec

-----------------------------------------------------------------------------
(***************************************************************************)
(* A build that has nothing to move: rebuilding what the file was built    *)
(* from writes the same file, and a program whose every piece fits its     *)
(* slot is laid over the file and never compiled whole.                    *)
(*                                                                         *)
(* The argument.  A file is Orderly: every slot runs to the next symbol,   *)
(* and the symbols are in the order they are written in.  As long as       *)
(* nothing outgrows its slot the cursor then goes from the end of one slot *)
(* to the beginning of the next, so that it ends where the file's code     *)
(* does and every symbol is again where it was.                            *)
(***************************************************************************)

-----------------------------------------------------------------------------
(***************************************************************************)
(* Symbols and the slots between them.                                     *)
(***************************************************************************)
LEMMA NextOfFacts ==
  \A S \in SUBSET Nat, a \in Int, e \in Nat :
    e \in S /\ a < e =>
      /\ NextOf(S, a) \in S /\ NextOf(S, a) \in Nat /\ a < NextOf(S, a)
      /\ \A o \in S : o > a => NextOf(S, a) <= o
  <1> SUFFICES ASSUME NEW S \in SUBSET Nat, NEW a \in Int, NEW e \in S, a < e
               PROVE
      /\ NextOf(S, a) \in S /\ NextOf(S, a) \in Nat /\ a < NextOf(S, a)
      /\ \A o \in S : o > a => NextOf(S, a) <= o
    OBVIOUS
  <1> DEFINE T == {o \in S : o > a}
  <1>1. e \in T /\ T \in SUBSET Nat
    OBVIOUS
  <1>2. PICK m \in T : \A n \in T : m <= n
    BY <1>1, LeastOf
  <1>3. m \in S /\ m > a /\ \A o \in S : o > a => m <= o
    BY <1>2
  <1>4. NextOf(S, a) \in S /\ NextOf(S, a) > a /\ \A o \in S : o > a => NextOf(S, a) <= o
    BY <1>3 DEF NextOf
  <1> QED BY <1>4

LEMMA NextSymbolIs == \A a : NextSymbol(a) = NextOf(SymbolAddresses, a)
  BY DEF NextSymbol, NextOf

LEMMA ImageSymbols == IInv /\ LaidOut => SymbolsOf(Image) = SymbolAddresses
  <1> SUFFICES ASSUME IInv, LaidOut PROVE SymbolsOf(Image) = SymbolAddresses
    OBVIOUS
  <1>1. FunctionsIn(Image) = live /\ \A f \in live : Image.at[f] = at[f]
    BY ImageHolds
  <1>2. {Image.at[f] : f \in FunctionsIn(Image)} = {at[f] : f \in live}
    BY <1>1
  <1>3. /\ Image.synAt = synAt /\ Image.rtBase = rtBase /\ Image.rts = need
        /\ Image.textEnd = here
    BY ImageFields
  <1> QED BY <1>2, <1>3 DEF SymbolsOf, SymbolAddresses

LEMMA ImageWritten == IInv /\ LaidOut => Written(Image)
  <1> SUFFICES ASSUME IInv, LaidOut PROVE Written(Image)
    OBVIOUS
  <1>1. FunctionsIn(Image) = live /\ SymbolsOf(Image) = SymbolAddresses
        /\ \A f \in live : Image.at[f] = at[f]
    BY ImageHolds, ImageSymbols
  <1>2. copied \subseteq live
    BY FinishedFacts DEF TypeOK
  <1>3. Image = [ok |-> TRUE, ver |-> Image.ver, at |-> Image.at, end |-> Image.end,
                 code |-> Image.code, lams |-> Image.lams, synAt |-> Image.synAt,
                 synEnd |-> Image.synEnd, rtBase |-> Image.rtBase, rts |-> Image.rts,
                 txEnds |-> Image.txEnds, textEnd |-> Image.textEnd,
                 room |-> Image.room]
    BY DEF Image
  <1>4. Image.end = [f \in Fn |-> IF f \in FunctionsIn(Image)
                                  THEN NextOf(SymbolsOf(Image), Image.at[f]) ELSE -1]
    BY <1>1, NextSymbolIs, ImageFields
  <1>5. Image.code = [f \in Fn |-> Image.code[f]]
    BY ImageFields
  <1>6. \A f \in Fn \ FunctionsIn(Image) : Image.code[f] = NoCode
    BY <1>1, <1>2, ImageFields
  <1>7. Image.synEnd = [j \in DOMAIN Image.synAt |->
                          NextOf(SymbolsOf(Image), Image.synAt[j])]
    BY <1>1, NextSymbolIs, ImageFields
  <1> QED BY <1>3, <1>4, <1>5, <1>6, <1>7 DEF Written

LEMMA ImageInOrder ==
  IInv /\ LaidInOrder /\ LaidOut => InOrder(Image)
  <1> SUFFICES ASSUME IInv, LaidInOrder, LaidOut PROVE InOrder(Image)
    OBVIOUS
  <1>1. /\ TypeOK /\ Placed = live /\ pc \in {"moved", "late"}
    BY FinishedFacts
  <1>2. RuntimeDone /\ Building /\ NeedsKnown /\ SyntheticsPlaced
    BY <1>1, LateStart
  <1>3. FunctionsIn(Image) = live /\ \A f \in live : Image.at[f] = at[f]
    BY ImageHolds
  <1>4. /\ Image.synAt = synAt /\ Image.rtBase = rtBase /\ Image.rts = need
        /\ Image.textEnd = here /\ TextSize(Image) = rtBase + RtLen[need]
    BY ImageFields DEF TextSize
  <1>5. /\ \A f \in live : /\ at[f] \in Nat /\ at[f] < here
                           /\ at[f] < rtBase \/ rtBase + RtLen[need] <= at[f]
        /\ RtLen[need] \in Nat /\ rtBase \in Nat
        /\ rtBase + RtLen[need] <= here
    BY <1>1, ImageSlots DEF TypeOK
  <1>6. ASSUME NEW f \in live
        PROVE  /\ StartSize <= at[f]
               /\ at[f] < rtBase + RtLen[need] => \A j \in DOMAIN synAt : at[f] < synAt[j]
    <2>1. /\ StartSize <= at[f]
          /\ at[f] < rtBase => \A j \in DOMAIN synAt : at[f] < synAt[j]
      BY <1>1, <1>2 DEF LaidInOrder
    <2>2. at[f] < rtBase + RtLen[need] => at[f] < rtBase
      BY <1>5
    <2> QED BY <2>1, <2>2
  <1>7. \A j \in DOMAIN synAt :
          /\ StartSize <= synAt[j] /\ synAt[j] < rtBase
          /\ \A k \in DOMAIN synAt : j < k => synAt[j] < synAt[k]
    BY <1>2 DEF LaidInOrder, SyntheticsPlaced
  <1>8. StartNeeds \subseteq need /\ CloseOver(need) = need
    BY <1>2 DEF LaidInOrder, NeedsKnown
  <1>9. here = rtBase + RtLen[need] \/ \E f \in live : at[f] >= rtBase + RtLen[need]
    <2>1. CASE pc = "moved"
      <3>1. Late = <<>>
        BY <2>1 DEF LaidOut
      <3>2. again = <<>>
        <4>1. again \in Seq(live) /\ outgrown \in Seq(live)
          BY <1>1 DEF TypeOK
        <4>2. Len(again \o outgrown) = Len(again) + Len(outgrown)
              /\ Len(again) \in Nat /\ Len(outgrown) \in Nat
          BY <4>1, ConcatElements
        <4>3. Len(again) = 0
          BY <3>1, <4>2 DEF Late
        <4> QED BY <4>1, <4>3
      <3> QED BY <1>1, <1>2, <2>1, <3>2 DEF LaidInOrder
    <2>2. CASE pc = "late"
      <3>1. Late # <<>> /\ pos > Len(Late)
        BY <1>2, <2>2 DEF LaidInOrder, LaidOut
      <3>2. Late \in Seq(live) /\ pos \in Nat
        BY <1>1, LateStart DEF TypeOK
      <3>3. pos > 1
        BY <3>1, <3>2
      <3> QED BY <1>1, <1>2, <2>2, <3>3 DEF LaidInOrder
    <2> QED BY <1>1, <2>1, <2>2
  <1>10. \A f \in FunctionsIn(Image) :
           /\ StartSize <= Image.at[f] /\ Image.at[f] < Image.textEnd
           /\ Image.at[f] < TextSize(Image) =>
                \A j \in DOMAIN Image.synAt : Image.at[f] < Image.synAt[j]
    BY <1>3, <1>4, <1>5, <1>6
  <1>11. \A j \in DOMAIN Image.synAt :
           /\ StartSize <= Image.synAt[j] /\ Image.synAt[j] < Image.rtBase
           /\ \A k \in DOMAIN Image.synAt : j < k => Image.synAt[j] < Image.synAt[k]
    BY <1>4, <1>7
  <1>12. \/ Image.textEnd = TextSize(Image)
         \/ \E f \in FunctionsIn(Image) : Image.at[f] >= TextSize(Image)
    BY <1>3, <1>4, <1>9
  <1>13. /\ StartNeeds \subseteq Image.rts /\ CloseOver(Image.rts) = Image.rts
         /\ TextSize(Image) <= Image.textEnd
    BY <1>4, <1>5, <1>8
  <1> QED BY <1>10, <1>11, <1>12, <1>13 DEF InOrder

-----------------------------------------------------------------------------
(***************************************************************************)
(* The order code is laid in.                                              *)
(***************************************************************************)

\* What has a place keeps it or is put past the cursor.
Onward == \A g \in Placed' : (g \in Placed /\ at'[g] = at[g]) \/ here <= at'[g]

\* A step that gives f the place a, or takes the one it has away.
LEMMA PutOnward ==
  \A f \in Fn, a \in Int :
    TypeOK /\ live' = live /\ at' = [at EXCEPT ![f] = a] /\ (here <= a \/ a <= 0)
      => Onward
  <1> SUFFICES ASSUME NEW f \in Fn, NEW a \in Int, TypeOK, live' = live,
                      at' = [at EXCEPT ![f] = a], here <= a \/ a <= 0,
                      NEW g \in Placed'
               PROVE  (g \in Placed /\ at'[g] = at[g]) \/ here <= at'[g]
    BY DEF Onward
  <1>1. g \in live /\ at'[g] > 0
    BY DEF Placed
  <1>2. CASE g = f
    <2>1. at'[g] = a
      BY <1>2 DEF TypeOK
    <2> QED BY <1>1, <2>1
  <1>3. CASE g # f
    <2>1. at'[g] = at[g]
      BY <1>3 DEF TypeOK
    <2> QED BY <1>1, <2>1 DEF Placed
  <1> QED BY <1>2, <1>3

LEMMA StillOnward == UNCHANGED <<live, at>> => Onward
  BY DEF Onward, Placed

LEMMA FunctionOnward == IInv /\ EmitFunction => Onward
  <1> SUFFICES ASSUME NEW f \in Fn, IInv,
                      \/ SkipUnreached(f) \/ WritePadded(f) \/ SetAside(f)
                      \/ CopyInPlace(f) \/ WriteInPlace(f) \/ Outgrow(f)
               PROVE  Onward
    BY DEF EmitFunction
  <1>1. AtFunction(f)
    BY DEF SkipUnreached, WritePadded, SetAside, InPlace, CopyInPlace, WriteInPlace, Outgrow
  <1>2. /\ TypeOK /\ FileInv(bin) /\ live' = live /\ here \in Int
        /\ mode = 2 => bin.ok
    BY <1>1, FunctionStart DEF Working, IInv, TypeOK
  <1>3. CASE SkipUnreached(f)
    BY <1>2, <1>3, StillOnward DEF SkipUnreached
  <1>4. CASE WritePadded(f)
    <2>1. at' = [at EXCEPT ![f] = here]
      BY <1>4 DEF WritePadded
    <2>2. here <= here
      BY <1>2
    <2> QED BY <1>2, <2>1, <2>2, PutOnward
  <1>5. CASE SetAside(f)
    <2>1. at' = [at EXCEPT ![f] = 0]
      BY <1>5 DEF SetAside
    <2>2. 0 \in Int /\ 0 <= 0
      OBVIOUS
    <2> QED BY <1>2, <2>1, <2>2, PutOnward
  <1>6. CASE CopyInPlace(f)
    <2>1. InPlace(f) /\ ~why' /\ at' = [at EXCEPT ![f] = bin.at[f]] /\ bin.ok
      BY <1>2, <1>6 DEF CopyInPlace, InPlace
    <2>2. here <= bin.at[f] /\ bin.at[f] \in Int
      BY <1>2, <2>1, InPlaceFacts, SlotFacts
    <2> QED BY <1>2, <2>1, <2>2, PutOnward
  <1>7. CASE WriteInPlace(f)
    <2>1. at' = [at EXCEPT ![f] = Begins(f)] /\ bin.ok
      BY <1>2, <1>7 DEF WriteInPlace, InPlace
    <2>2. Begins(f) \in Int /\ here <= Begins(f)
      BY <1>2, <2>1, BeginsFacts
    <2> QED BY <1>2, <2>1, <2>2, PutOnward
  <1>8. CASE Outgrow(f)
    <2>1. at' = [at EXCEPT ![f] = 0]
      BY <1>8 DEF Outgrow
    <2>2. 0 \in Int /\ 0 <= 0
      OBVIOUS
    <2> QED BY <1>2, <2>1, <2>2, PutOnward
  <1> QED BY <1>3, <1>4, <1>5, <1>6, <1>7, <1>8

LEMMA FunctionInOrder == IInv /\ LaidInOrder /\ EmitFunction => LaidInOrder'
  <1> SUFFICES ASSUME IInv, LaidInOrder, EmitFunction PROVE LaidInOrder'
    OBVIOUS
  <1>1. PICK f \in Fn : AtFunction(f)
    BY DEF EmitFunction, SkipUnreached, WritePadded, SetAside, InPlace, CopyInPlace,
           WriteInPlace, Outgrow
  <1>2. /\ TypeOK /\ pc = "functions" /\ pc' = "functions" /\ synAt' = synAt
        /\ ~RuntimeDone' /\ Extents /\ SyntheticsPlaced
    BY <1>1, FunctionStart
  <1>3. synAt' \in Seq(Nat) /\ Len(synAt') = 0 /\ here \in Nat /\ StartSize <= here
    BY <1>2 DEF TypeOK, SyntheticsPlaced, Extents
  <1>4. DOMAIN synAt' = {}
    BY <1>3
  <1>5. \A g \in Placed : StartSize <= at[g]
    BY <1>2 DEF LaidInOrder, Building
  <1>6. ASSUME NEW g \in Placed' PROVE StartSize <= at'[g]
    <2>1. (g \in Placed /\ at'[g] = at[g]) \/ here <= at'[g]
      BY FunctionOnward DEF Onward
    <2>2. at'[g] \in Int
      <3>1. TypeOK' /\ g \in Fn
        BY <1>6, StepEmitFunction, ProgramFacts DEF IInv, Placed, TypeOK
      <3> QED BY <3>1 DEF TypeOK, Addresses
    <2> QED BY <1>3, <1>5, <2>1, <2>2, PositiveConstants
  <1> QED BY <1>2, <1>4, <1>6 DEF LaidInOrder

LEMMA SyntheticInOrder ==
  \A b \in Nat :
    IInv /\ LaidInOrder /\ AtSynthetic /\ synAt' = Append(synAt, b) /\ here <= b
      => LaidInOrder'
  <1> SUFFICES ASSUME NEW b \in Nat, IInv, LaidInOrder, AtSynthetic,
                      synAt' = Append(synAt, b), here <= b
               PROVE  LaidInOrder'
    OBVIOUS
  <1>1. /\ pc = "synthetics" /\ pc' = pc /\ UNCHANGED <<live, at>>
    BY DEF AtSynthetic
  <1>2. /\ TypeOK /\ ~RuntimeDone /\ live = reached_fns(prog)
        /\ Extents /\ SyntheticsPlaced /\ synAt \in Seq(Nat)
    BY <1>1, SyntheticStart
  <1>3. here \in Nat /\ StartSize <= here /\ StartSize \in Nat
    BY <1>2, PositiveConstants DEF TypeOK, Extents
  <1>4. Placed' = Placed /\ ~RuntimeDone' /\ Building
    BY <1>1 DEF Placed, RuntimeDone, Building
  <1>5. ASSUME NEW g \in Placed
        PROVE  StartSize <= at[g] /\ at[g] < b /\ \A j \in DOMAIN synAt : at[g] < synAt[j]
    <2>1. at[g] + CodeSize(g) <= here /\ CodeSize(g) \in Nat \ {0} /\ at[g] \in Int
      BY <1>2, LiveFacts DEF Extents, Placed, TypeOK, Addresses
    <2> QED BY <1>2, <1>3, <1>4, <2>1 DEF LaidInOrder
  <1>6. ASSUME NEW j \in DOMAIN synAt
        PROVE  /\ StartSize <= synAt[j] /\ synAt[j] < b
               /\ \A k \in DOMAIN synAt : j < k => synAt[j] < synAt[k]
    <2>1. synAt[j] \in Nat /\ synAt[j] < here
      BY <1>2 DEF SyntheticsPlaced
    <2> QED BY <1>3, <1>4, <2>1 DEF LaidInOrder
  <1>7. /\ DOMAIN synAt' = DOMAIN synAt \cup {Len(synAt) + 1}
        /\ \A j \in DOMAIN synAt : synAt'[j] = synAt[j] /\ j < Len(synAt) + 1 /\ j \in Nat
        /\ synAt'[Len(synAt) + 1] = b
    BY <1>2
  <1>8. \A g \in Placed : StartSize <= at[g] /\ \A j \in DOMAIN synAt' : at[g] < synAt'[j]
    BY <1>5, <1>7
  <1>9. \A j \in DOMAIN synAt' : StartSize <= synAt'[j]
    BY <1>3, <1>6, <1>7
  <1>10. ASSUME NEW j \in DOMAIN synAt', NEW k \in DOMAIN synAt', j < k
         PROVE  synAt'[j] < synAt'[k]
    <2>1. j \in DOMAIN synAt
      <3>1. Len(synAt) \in Nat /\ j \in Int /\ k \in Int /\ k <= Len(synAt) + 1
        BY <1>2, <1>7
      <3> QED BY <1>7, <1>10, <3>1
    <2>2. CASE k \in DOMAIN synAt
      BY <1>6, <1>7, <1>10, <2>1, <2>2
    <2>3. CASE k = Len(synAt) + 1
      BY <1>6, <1>7, <2>1, <2>3
    <2> QED BY <1>7, <2>2, <2>3
  <1> QED BY <1>1, <1>4, <1>8, <1>9, <1>10 DEF LaidInOrder

LEMMA SyntheticsInOrder ==
  IInv /\ LaidInOrder /\ (WriteSyntheticPadded \/ WriteSyntheticInPlace)
    => LaidInOrder'
  <1> SUFFICES ASSUME IInv, LaidInOrder, WriteSyntheticPadded \/ WriteSyntheticInPlace
               PROVE  LaidInOrder'
    OBVIOUS
  <1>1. here \in Nat /\ AtSynthetic
    BY DEF IInv, TypeOK, WriteSyntheticPadded, WriteSyntheticInPlace
  <1>2. CASE WriteSyntheticPadded
    BY <1>1, <1>2, SyntheticInOrder DEF WriteSyntheticPadded
  <1>3. CASE WriteSyntheticInPlace
    <2> DEFINE b == incr_before(SynthWas(pos))
    <2>1. SynthWas(pos) \in Int
      <3>1. mode = 2 /\ bin.ok /\ TypeOK
        BY <1>1, <1>3, SyntheticStart DEF WriteSyntheticInPlace, AtSynthetic
      <3>2. bin.synAt \in Seq(Nat)
        BY <3>1 DEF TypeOK, FileType
      <3> QED BY <3>2 DEF SynthWas
    <2>2. b \in Nat /\ here <= b
      BY <1>1, <2>1 DEF incr_before, Larger
    <2>3. synAt' = Append(synAt, b)
      BY <1>3 DEF WriteSyntheticInPlace
    <2> HIDE DEF b
    <2> QED BY <1>1, <2>2, <2>3, SyntheticInOrder
  <1> QED BY <1>2, <1>3

LEMMA CloseOverTwice ==
  \A S \in SUBSET Routine : CloseOver(CloseOver(S)) = CloseOver(S)
  BY DEF CloseOver

LEMMA RuntimeInOrder == IInv /\ LaidInOrder /\ EmitRuntime => LaidInOrder'
  <1> SUFFICES ASSUME IInv, LaidInOrder, EmitRuntime PROVE LaidInOrder'
    OBVIOUS
  <1> DEFINE X == need \cup (IF mode = 2 THEN bin.rts ELSE {})
  <1>1. /\ pc = "synthetics" /\ pc' = "moved" /\ UNCHANGED <<live, at, synAt>>
        /\ need' = CloseOver(X) /\ rtBase' = here /\ here' = here + RtLen[need']
    BY DEF EmitRuntime
  <1>2. TypeOK /\ ~RuntimeDone /\ Building /\ (mode = 2 => bin.ok)
    BY <1>1, SyntheticStart DEF Building
  <1>3. X \subseteq Routine
    BY <1>2 DEF TypeOK, FileType
  <1>4. CloseOver(need') = need'
    BY <1>1, <1>3, CloseOverTwice
  <1>5. Placed' = Placed
    BY <1>1 DEF Placed
  <1> QED BY <1>1, <1>2, <1>4, <1>5 DEF LaidInOrder

\* The overflow: nothing of .text is touched.
LEMMA MovedInOrder ==
  /\ IInv /\ LaidInOrder /\ RuntimeDone /\ RuntimeDone'
  /\ Onward /\ UNCHANGED <<synAt, rtBase, need, live>> /\ at' \in [Fn -> Int]
  /\ pc' = "moved" => \/ here' = rtBase + RtLen[need] \/ again' # <<>>
                      \/ \E f \in Placed' : here <= at'[f]
                      \/ Placed' = Placed /\ at' = at /\ pc = "moved"
                           /\ again' = again /\ here' = here
  /\ pc' = "late" => /\ Late' # <<>>
                     /\ pos' > 1 => \E f \in Placed' : here <= at'[f]
  => LaidInOrder'
  <1> SUFFICES ASSUME
        IInv, LaidInOrder, RuntimeDone, RuntimeDone', Onward,
        UNCHANGED <<synAt, rtBase, need, live>>, at' \in [Fn -> Int],
        pc' = "moved" => \/ here' = rtBase + RtLen[need] \/ again' # <<>>
                         \/ \E f \in Placed' : here <= at'[f]
                         \/ Placed' = Placed /\ at' = at /\ pc = "moved"
                              /\ again' = again /\ here' = here,
        pc' = "late" => /\ Late' # <<>>
                        /\ pos' > 1 => \E f \in Placed' : here <= at'[f]
               PROVE LaidInOrder'
    BY DEF LaidInOrder
  <1>1. TypeOK /\ RuntimePlaced /\ SyntheticsPlaced /\ Building /\ Extents
    BY LateStart DEF RuntimeDone
  <1>2. /\ here \in Nat /\ rtBase \in Nat /\ RtLen[need] \in Nat
        /\ StartSize <= here /\ StartSize \in Nat
        /\ rtBase + RtLen[need] <= here
    BY <1>1, RuntimeFacts, PositiveConstants DEF TypeOK, RuntimePlaced, Extents
  <1>3. ASSUME NEW g \in Placed', here <= at'[g]
        PROVE  StartSize <= at'[g] /\ ~(at'[g] < rtBase) /\ at'[g] >= rtBase + RtLen[need]
    <2>1. g \in Fn
      <3>1. g \in live /\ live \subseteq Fn
        BY <1>1, ProgramFacts DEF Placed, TypeOK
      <3> QED BY <3>1
    <2>2. at'[g] \in Int
      BY <2>1
    <2> QED BY <1>2, <1>3, <2>2
  <1>4. ASSUME NEW g \in Placed'
        PROVE  /\ StartSize <= at'[g]
               /\ at'[g] < rtBase => \A j \in DOMAIN synAt : at'[g] < synAt[j]
    <2>1. CASE g \in Placed /\ at'[g] = at[g]
      BY <1>1, <2>1 DEF LaidInOrder
    <2>2. CASE here <= at'[g]
      BY <1>3, <2>2
    <2> QED BY <2>1, <2>2 DEF Onward
  <1>5. \A j \in DOMAIN synAt :
          /\ StartSize <= synAt[j]
          /\ \A k \in DOMAIN synAt : j < k => synAt[j] < synAt[k]
    BY <1>1 DEF LaidInOrder
  <1>6. CloseOver(need) = need
    BY <1>1 DEF LaidInOrder
  <1>7. pc' = "moved" =>
          \/ here' = rtBase + RtLen[need] \/ again' # <<>>
          \/ \E f \in Placed' : at'[f] >= rtBase + RtLen[need]
    BY <1>1, <1>3 DEF LaidInOrder
  <1>8. pc' = "late" =>
          /\ Late' # <<>>
          /\ pos' > 1 => \E f \in Placed' : at'[f] >= rtBase + RtLen[need]
    BY <1>3
  <1> QED BY <1>4, <1>5, <1>6, <1>7, <1>8 DEF LaidInOrder

LEMMA AppendNotEmpty == \A S : \A s \in Seq(S), x \in S : Append(s, x) # <<>>
  <1> SUFFICES ASSUME NEW S, NEW s \in Seq(S), NEW x \in S PROVE Append(s, x) # <<>>
    OBVIOUS
  <1>1. Len(Append(s, x)) = Len(s) + 1 /\ Len(s) \in Nat
    OBVIOUS
  <1>2. Len(Append(s, x)) # 0
    BY <1>1
  <1>3. Len(<<>>) = 0
    OBVIOUS
  <1> QED BY <1>2, <1>3

LEMMA AwayInOrder == IInv /\ LaidInOrder /\ PlaceAway => LaidInOrder'
  <1> SUFFICES ASSUME IInv, LaidInOrder, NEW f \in Fn,
                      CopyAway(f) \/ WriteAway(f) \/ OutgrowAgain(f)
               PROVE  LaidInOrder'
    BY DEF PlaceAway
  <1>1. NextAway(f)
    BY DEF CopyAway, WriteAway, OutgrowAgain
  <1>2. /\ Working /\ TypeOK /\ FileInv(bin) /\ bin.ok /\ Extents
        /\ pc = "moved" /\ pc' = "moved" /\ RuntimeDone /\ RuntimeDone'
        /\ synAt' = synAt /\ rtBase' = rtBase /\ need' = need /\ f \in live
    BY <1>1, AwayStart
  <1>3. Begins(f) \in Nat /\ here <= Begins(f) /\ here \in Nat
    BY <1>2, BeginsFacts DEF TypeOK
  <1>4. TypeOK' /\ at' \in [Fn -> Int]
    <2>1. IInv'
      BY StepPlaceAway DEF PlaceAway
    <2> QED BY <2>1 DEF IInv, TypeOK, Addresses
  <1>5. CASE CopyAway(f) \/ WriteAway(f)
    <2>1. at' = [at EXCEPT ![f] = Begins(f)]
      BY <1>5 DEF CopyAway, WriteAway
    <2>2. Onward
      <3>1. Begins(f) \in Int /\ live' = live
        BY <1>2, <1>3 DEF Working
      <3> QED BY <1>2, <1>3, <2>1, <3>1, PutOnward
    <2>3. at'[f] = Begins(f) /\ f \in Placed'
      <3>1. at'[f] = Begins(f)
        BY <1>2, <2>1 DEF TypeOK
      <3>2. here > 0
        BY <1>2, <1>3, PositiveConstants DEF Extents
      <3> QED BY <1>2, <1>3, <3>1, <3>2 DEF Placed, Working
    <2>4. \E g \in Placed' : here <= at'[g]
      BY <1>3, <2>3
    <2> QED BY <1>2, <1>4, <2>2, <2>4, MovedInOrder DEF Working
  <1>6. CASE OutgrowAgain(f)
    <2>1. at' = at /\ again' = Append(again, f)
      BY <1>6 DEF OutgrowAgain
    <2>2. again' # <<>>
      BY <1>2, <2>1, AppendNotEmpty DEF TypeOK
    <2>3. Onward
      BY <1>2, <2>1, StillOnward DEF Working
    <2> QED BY <1>2, <1>4, <2>2, <2>3, MovedInOrder DEF Working
  <1> QED BY <1>5, <1>6

LEMMA LateInOrder == IInv /\ LaidInOrder /\ (BeginLate \/ PlaceLate) => LaidInOrder'
  <1> SUFFICES ASSUME IInv, LaidInOrder, BeginLate \/ PlaceLate PROVE LaidInOrder'
    OBVIOUS
  <1>1. /\ pc \in {"moved", "late"} /\ pc' = "late"
        /\ UNCHANGED <<synAt, rtBase, need, live, again, outgrown>>
    BY DEF BeginLate, PlaceLate
  <1>2. /\ TypeOK /\ FileInv(bin) /\ RuntimeDone /\ Building /\ Extents
        /\ Late \in Seq(live)
    BY <1>1, LateStart
  <1>3. RuntimeDone' /\ Late' = Late /\ Late # <<>>
    BY <1>1, <1>2 DEF RuntimeDone, Late, BeginLate, PlaceLate, LaidInOrder
  <1>4. at' \in [Fn -> Int]
    <2>1. IInv'
      BY StepBeginLate, StepPlaceLate
    <2> QED BY <2>1 DEF IInv, TypeOK, Addresses
  <1>5. CASE BeginLate
    <2>1. at' = at /\ ~(pos' > 1)
      BY <1>5 DEF BeginLate
    <2>2. Onward
      BY <1>1, <2>1, StillOnward
    <2> QED BY <1>1, <1>2, <1>3, <1>4, <2>1, <2>2, MovedInOrder
  <1>6. CASE PlaceLate
    <2>1. at' = [at EXCEPT ![Late[pos]] = here] /\ pos <= Len(Late)
      BY <1>6 DEF PlaceLate
    <2>2. here \in Nat /\ here > 0 /\ here <= here
      BY <1>2, PositiveConstants DEF TypeOK, Extents
    <2>3. Late[pos] \in live /\ Late[pos] \in Fn
      <3>1. pos \in 1 .. Len(Late)
        BY <1>2, <2>1 DEF TypeOK
      <3>2. live \subseteq Fn
        BY <1>2, ProgramFacts DEF TypeOK
      <3> QED BY <1>2, <3>1, <3>2
    <2> DEFINE f == Late[pos]
    <2> HIDE DEF f
    <2>4. f \in live /\ f \in Fn /\ at' = [at EXCEPT ![f] = here]
      BY <2>1, <2>3 DEF f
    <2>5. at'[f] = here
      BY <1>2, <2>4 DEF TypeOK
    <2>6. f \in Placed'
      BY <1>1, <2>2, <2>4, <2>5 DEF Placed
    <2>7. Onward
      <3>1. here \in Int /\ live' = live
        BY <1>1, <2>2
      <3> QED BY <1>2, <2>2, <2>4, <3>1, PutOnward
    <2>8. \E g \in Placed' : here <= at'[g]
      BY <2>2, <2>5, <2>6
    <2> QED BY <1>1, <1>2, <1>3, <1>4, <2>7, <2>8, MovedInOrder
  <1> QED BY <1>5, <1>6

\* Nothing is laid yet.
LEMMA StartInOrder ==
  IInv /\ (StartBuild \/ Fallback) => LaidInOrder' /\ Placed' = {}
  <1> SUFFICES ASSUME IInv, StartBuild \/ Fallback PROVE LaidInOrder' /\ Placed' = {}
    OBVIOUS
  <1>1. pc' = "functions" /\ at' = [f \in Fn |-> -1] /\ synAt' = <<>>
    BY DEF StartBuild, Fallback, BeginCodegen
  <1>2. live' \subseteq Fn
    <2>1. IInv'
      BY StepStartBuild, StepFallback
    <2> QED BY <2>1, ProgramFacts DEF IInv, TypeOK
  <1>3. Placed' = {}
    BY <1>1, <1>2 DEF Placed
  <1>4. DOMAIN synAt' = {}
    BY <1>1
  <1>5. ~RuntimeDone'
    BY <1>1 DEF RuntimeDone
  <1> QED BY <1>1, <1>3, <1>4, <1>5 DEF LaidInOrder

LEMMA NextInOrder == IInv /\ LaidInOrder /\ [Next]_vars => LaidInOrder'
  <1> SUFFICES ASSUME IInv, LaidInOrder, [Next]_vars PROVE LaidInOrder'
    OBVIOUS
  <1>1. CASE FunctionsDone
    <2>1. /\ pc = "functions" /\ pc' = "synthetics"
          /\ UNCHANGED <<live, at, synAt, rtBase, need>>
      BY <1>1 DEF FunctionsDone
    <2>2. Placed' = Placed /\ Building /\ ~RuntimeDone /\ ~RuntimeDone'
      BY <2>1 DEF Placed, Building, RuntimeDone
    <2> QED BY <2>1, <2>2 DEF LaidInOrder
  <1>2. CASE Edit \/ UNCHANGED vars
    <2>1. UNCHANGED <<pc, build>>
      BY <1>2 DEF Edit, vars
    <2>2. UNCHANGED <<live, pos, here, at, again, outgrown, need, synAt, rtBase>>
      BY <2>1 DEF build
    <2>3. Placed' = Placed /\ Late' = Late /\ RuntimeDone' = RuntimeDone
          /\ Building' = Building
      BY <2>1, <2>2 DEF Placed, Late, RuntimeDone, Building
    <2> QED BY <2>1, <2>2, <2>3 DEF LaidInOrder
  <1>3. CASE StopOnAssertion \/ Accept \/ CreateFile \/ Writev \/ Kill
    <2>1. ~Building'
      BY <1>3 DEF StopOnAssertion, Accept, CreateFile, Writev, Kill, Building
    <2> QED BY <2>1 DEF LaidInOrder
  <1> QED BY <1>1, <1>2, <1>3, FunctionInOrder, SyntheticsInOrder, RuntimeInOrder,
             AwayInOrder, LateInOrder, StartInOrder DEF Next, BuildStep

-----------------------------------------------------------------------------
(***************************************************************************)
(* What is laid where the file had it.                                     *)
(***************************************************************************)

\* One function of the emission loop, in a build laid over a file.
LEMMA FunctionFromTheFile ==
  IInv /\ LaidFromTheFile /\ EmitFunction => LaidFromTheFile'
  <1> SUFFICES ASSUME IInv, LaidFromTheFile, NEW f \in Fn, mode' = 2,
                      \/ SkipUnreached(f) \/ WritePadded(f) \/ SetAside(f)
                      \/ CopyInPlace(f) \/ WriteInPlace(f) \/ Outgrow(f)
               PROVE  LaidFromTheFile'
    BY DEF EmitFunction, LaidFromTheFile
  <1>1. AtFunction(f)
    BY DEF SkipUnreached, WritePadded, SetAside, InPlace, CopyInPlace, WriteInPlace, Outgrow
  <1>2. /\ Working /\ TypeOK /\ pc = "functions" /\ pc' = "functions"
        /\ again' = again /\ pos' = pos + 1 /\ prog' = prog /\ live' = live
        /\ mode = 2 /\ f = prog.order[pos] /\ pos \in Nat \ {0} /\ Building
    BY <1>1, FunctionStart DEF Working, AtFunction, Current, TypeOK, Building
  <1>3. ~WritePadded(f)
    BY <1>2 DEF WritePadded
  <1>4. /\ incr_regenerate' = incr_regenerate
        /\ \A g : IsAway(g)' = IsAway(g)
    BY <1>2, SameJudgement
  <1>5. /\ again = <<>> /\ \A g \in away : IsAway(g)
        /\ \A i \in DOMAIN prog.order :
             i < pos /\ prog.order[i] \in live /\ IsAway(prog.order[i])
               => prog.order[i] \in away
        /\ ~why => Placed \ copied \subseteq incr_regenerate
    BY <1>2 DEF LaidFromTheFile
  <1>6. away \subseteq away' /\ \A g \in away' : IsAway(g)
    BY <1>3, <1>5 DEF SkipUnreached, SetAside, CopyInPlace, WriteInPlace, Outgrow
  <1>7. f \in live /\ IsAway(f) => f \in away'
    BY <1>3 DEF SkipUnreached, SetAside, InPlace, CopyInPlace, WriteInPlace, Outgrow
  <1>8. ASSUME NEW i \in DOMAIN prog.order, i < pos + 1, prog.order[i] \in live,
               IsAway(prog.order[i])
        PROVE  prog.order[i] \in away'
    <2>1. i \in Nat
      BY <1>2, ProgramFacts DEF TypeOK
    <2>2. CASE i = pos
      BY <1>2, <1>7, <1>8, <2>2
    <2>3. CASE i < pos
      BY <1>5, <1>6, <1>8, <2>3
    <2> QED BY <1>2, <1>8, <2>1, <2>2, <2>3
  <1>9. ASSUME ~why', NEW g \in Placed', g \notin copied'
        PROVE  g \in incr_regenerate
    <2>1. /\ ~why /\ copied \subseteq copied'
          /\ \A h \in live : h # f => at'[h] = at[h]
      <3>0. why' = why \/ why' = (why \/ incr_before_why(bin.at[f]))
        BY <1>3 DEF SkipUnreached, SetAside, InPlace, CopyInPlace, WriteInPlace, Outgrow
      <3>1. ~why /\ copied \subseteq copied'
        <4>1. ~why
          BY <1>9, <3>0
        <4>2. copied' = copied \/ copied' = copied \cup {f}
          BY <1>3 DEF SkipUnreached, SetAside, CopyInPlace, WriteInPlace, Outgrow
        <4> QED BY <4>1, <4>2
      <3>2. \/ at' = at
            \/ \E a \in {0, bin.at[f], Begins(f)} : at' = [at EXCEPT ![f] = a]
        BY <1>3 DEF SkipUnreached, SetAside, CopyInPlace, WriteInPlace, Outgrow
      <3>3. at \in [Fn -> Addresses] /\ live \subseteq Fn
        BY <1>2, ProgramFacts DEF TypeOK
      <3> QED BY <3>1, <3>2, <3>3
    <2>2. g \in live /\ at'[g] > 0
      BY <1>2, <1>9 DEF Placed
    <2>3. CASE g # f
      BY <1>5, <1>9, <2>1, <2>2, <2>3 DEF Placed
    <2>4. CASE g = f
      <3>1. ~SkipUnreached(f)
        BY <2>2, <2>4 DEF SkipUnreached
      <3>2. ~SetAside(f) /\ ~Outgrow(f)
        <4>1. at' = [at EXCEPT ![f] = 0] => at'[f] = 0
          BY <1>2 DEF TypeOK
        <4> QED BY <2>2, <2>4, <4>1 DEF SetAside, Outgrow
      <3> QED BY <1>3, <1>9, <2>4, <3>1, <3>2 DEF CopyInPlace, WriteInPlace
    <2> QED BY <2>3, <2>4
  <1> QED BY <1>2, <1>4, <1>5, <1>6, <1>8, <1>9 DEF LaidFromTheFile

LEMMA AllSetAside == IInv /\ LaidFromTheFile /\ FunctionsDone => LaidFromTheFile'
  <1> SUFFICES ASSUME IInv, LaidFromTheFile, FunctionsDone, mode' = 2
               PROVE  LaidFromTheFile'
    BY DEF LaidFromTheFile
  <1>1. /\ Working /\ pc = "functions" /\ pc' = "synthetics" /\ pos > Len(prog.order)
        /\ UNCHANGED <<why, at, copied, away, again>> /\ mode = 2 /\ Building
    BY DEF FunctionsDone, Working, Building
  <1>2. TypeOK /\ prog.order \in Seq(Fn) /\ live \subseteq Defined(prog) /\ pos \in Nat
    BY ProgramFacts DEF IInv, TypeOK
  <1>3. ASSUME NEW f \in live, IsAway(f) PROVE f \in away
    <2>1. PICK i \in DOMAIN prog.order : prog.order[i] = f
      BY <1>2 DEF Defined
    <2>2. i < pos
      BY <1>1, <1>2
    <2> QED BY <1>1, <1>3, <2>1, <2>2 DEF LaidFromTheFile
  <1>4. /\ incr_regenerate' = incr_regenerate
        /\ \A g : IsAway(g)' = IsAway(g)
        /\ Placed' = Placed /\ live' = live
    BY <1>1, SameJudgement DEF Placed, Working
  <1> QED BY <1>1, <1>3, <1>4 DEF LaidFromTheFile

LEMMA SyntheticsFromTheFile ==
  IInv /\ LaidFromTheFile
    /\ (WriteSyntheticPadded \/ WriteSyntheticInPlace \/ EmitRuntime)
    => LaidFromTheFile'
  <1> SUFFICES ASSUME IInv, LaidFromTheFile, mode' = 2,
                      WriteSyntheticPadded \/ WriteSyntheticInPlace \/ EmitRuntime
               PROVE  LaidFromTheFile'
    BY DEF LaidFromTheFile
  <1>1. /\ Working /\ pc = "synthetics" /\ UNCHANGED <<at, copied, away, again>>
        /\ mode = 2 /\ Building /\ (~why' => ~why)
        /\ pc' = "synthetics" \/ (pc' = "moved" /\ here' = rtBase' + RtLen[need'])
    <2>1. CASE WriteSyntheticPadded \/ WriteSyntheticInPlace
      <3>1. AtSynthetic /\ (why => why')
        <4>1. CASE WriteSyntheticPadded
          BY <4>1 DEF WriteSyntheticPadded
        <4>2. CASE WriteSyntheticInPlace
          <5> DEFINE X == \/ incr_before_why(SynthWas(pos))
                          \/ incr_before(SynthWas(pos)) + SynthBytes(prog, pos)
                               > SynthEnd(pos)
          <5>1. AtSynthetic /\ why' = (why \/ X)
            BY <4>2 DEF WriteSyntheticInPlace
          <5> HIDE DEF X
          <5> QED BY <5>1
        <4> QED BY <2>1, <4>1, <4>2
      <3> QED BY <3>1 DEF AtSynthetic, Working, Building
    <2>2. CASE EmitRuntime
      BY <2>2 DEF EmitRuntime, Working, Building
    <2> QED BY <2>1, <2>2
  <1>2. /\ incr_regenerate' = incr_regenerate
        /\ \A g : IsAway(g)' = IsAway(g)
        /\ Placed' = Placed /\ live' = live
    BY <1>1, SameJudgement DEF Placed, Working
  <1> QED BY <1>1, <1>2 DEF LaidFromTheFile

\* One function of the old overflow: they are gone through from the first.
LEMMA AwayFromTheFile == IInv /\ LaidFromTheFile /\ PlaceAway => LaidFromTheFile'
  <1> SUFFICES ASSUME IInv, LaidFromTheFile, NEW f \in Fn,
                      CopyAway(f) \/ WriteAway(f) \/ OutgrowAgain(f)
               PROVE  LaidFromTheFile'
    BY DEF PlaceAway
  <1>1. NextAway(f)
    BY DEF CopyAway, WriteAway, OutgrowAgain
  <1>2. /\ Working /\ TypeOK /\ FileInv(bin) /\ bin.ok /\ mode = 2
        /\ pc = "moved" /\ pc' = "moved" /\ Building
        /\ need' = need /\ rtBase' = rtBase /\ away' = away \ {f}
        /\ f \in away /\ f \in live /\ away \subseteq live /\ live \subseteq Fn
        /\ CodeSize(f) \in Nat
    BY <1>1, AwayStart, LiveFacts DEF Building, TypeOK
  <1>3. /\ incr_regenerate' = incr_regenerate
        /\ \A g : IsAway(g)' = IsAway(g)
        /\ live' = live
    BY <1>2, SameJudgement DEF Working
  <1>4. /\ \A g \in away : IsAway(g)
        /\ ~why => Placed \ copied \subseteq incr_regenerate
    BY <1>2 DEF LaidFromTheFile
  <1>5. ~why' => ~why /\ Begins(f) = bin.at[f]
    BY <1>1, AwayBegins
  <1>6. ASSUME ~why', NEW g \in Placed', g \notin copied'
        PROVE  g \in incr_regenerate
    <2>1. /\ ~why /\ copied \subseteq copied'
          /\ \A h \in live : h # f => at'[h] = at[h]
      BY <1>2, <1>5, <1>6 DEF CopyAway, WriteAway, OutgrowAgain, TypeOK
    <2>2. g \in live /\ at'[g] > 0
      BY <1>3, <1>6 DEF Placed
    <2>3. CASE g # f
      BY <1>4, <1>6, <2>1, <2>2, <2>3 DEF Placed
    <2>4. CASE g = f
      BY <1>6, <2>4 DEF CopyAway, WriteAway, OutgrowAgain
    <2> QED BY <2>3, <2>4
  <1>7. ASSUME ~why', again' = <<>>
        PROVE  /\ here' = bin.end[f]
               /\ \A g \in live : IsAway(g) => (g \in away' <=> bin.at[g] > bin.at[f])
    <2>1. again = <<>> /\ (CopyAway(f) \/ WriteAway(f))
      <3>1. ~OutgrowAgain(f)
        BY <1>2, <1>7, AppendNotEmpty DEF OutgrowAgain, TypeOK
      <3> QED BY <1>7, <3>1 DEF CopyAway, WriteAway
    <2>2. ~why /\ Begins(f) = bin.at[f]
      BY <1>5, <1>7
    <2>3. bin.at[f] \in Int /\ bin.end[f] \in Int
      BY <1>2, SlotFacts
    <2>4. here' = bin.end[f]
      <3>1. CASE CopyAway(f)
        BY <2>2, <2>3, <3>1 DEF CopyAway
      <3>2. CASE WriteAway(f)
        BY <1>2, <2>2, <2>3, <3>2 DEF WriteAway, Fits, incr_after, Larger
      <3> QED BY <2>1, <3>1, <3>2
    <2>5. \/ \A g \in live : IsAway(g) => g \in away
          \/ \E h \in live :
               /\ IsAway(h)
               /\ \A g \in live : IsAway(g) => (g \in away <=> bin.at[g] > bin.at[h])
      BY <1>2, <2>1, <2>2 DEF LaidFromTheFile
    <2>6. ASSUME NEW g \in live, IsAway(g)
          PROVE  /\ g \in away /\ g # f => bin.at[g] > bin.at[f]
                 /\ bin.at[g] > bin.at[f] => g \in away /\ g # f
      <3>1. /\ bin.at[g] \in Int /\ bin.at[g] > 0 /\ bin.at[f] > 0 /\ IsAway(f)
            /\ bin.end[g] \in Int /\ g \in FunctionsIn(bin) /\ f \in FunctionsIn(bin)
            /\ bin.at[f] < bin.end[f] /\ bin.at[g] < bin.end[g]
        <4>1. ASSUME NEW h \in Fn, IsAway(h)
              PROVE  /\ bin.at[h] \in Int /\ bin.end[h] \in Int /\ bin.at[h] > 0
                     /\ h \in FunctionsIn(bin) /\ bin.at[h] < bin.end[h]
          <5>1. /\ bin.at[h] \in Int /\ bin.end[h] \in Int /\ bin.at[h] > 0
                /\ bin.at[h] >= 0 =>
                     /\ SizeIn(bin, h) \in Nat \ {0}
                     /\ bin.at[h] + SizeIn(bin, h) <= bin.end[h]
            BY <1>2, <4>1, SlotFacts
          <5> QED BY <5>1 DEF FunctionsIn
        <4>2. IsAway(f)
          BY <1>2, <1>4
        <4> QED BY <1>2, <2>6, <4>1, <4>2
      <3>2. g # f => bin.at[g] # bin.at[f]
        <4>1. g # f => bin.end[f] <= bin.at[g] \/ bin.end[g] <= bin.at[f]
          BY <1>2, <3>1 DEF FileInv, Apart
        <4> QED BY <2>3, <3>1, <4>1
      <3>3. g \in away => bin.at[f] <= bin.at[g]
        BY <1>1 DEF NextAway
      <3>4. bin.at[g] > bin.at[f] => g \in away
        <4>1. CASE \A h \in live : IsAway(h) => h \in away
          BY <2>6, <4>1
        <4>2. ASSUME NEW h \in live, IsAway(h),
                     \A k \in live : IsAway(k) => (k \in away <=> bin.at[k] > bin.at[h])
              PROVE  bin.at[g] > bin.at[f] => g \in away
          <5>1. bin.at[f] > bin.at[h] /\ bin.at[h] \in Int
            BY <1>2, <1>4, <4>2, SlotFacts
          <5> QED BY <2>3, <2>6, <3>1, <4>2, <5>1
        <4> QED BY <2>5, <4>1, <4>2
      <3> QED BY <2>3, <3>1, <3>2, <3>3, <3>4
    <2> QED BY <1>2, <2>4, <2>6
  <1> QED BY <1>2, <1>3, <1>4, <1>6, <1>7 DEF LaidFromTheFile, Working

LEMMA LateFromTheFile ==
  IInv /\ LaidFromTheFile /\ (BeginLate \/ PlaceLate) => LaidFromTheFile'
  <1> SUFFICES ASSUME IInv, LaidFromTheFile, BeginLate \/ PlaceLate, mode' = 2
               PROVE  LaidFromTheFile'
    BY DEF LaidFromTheFile
  <1>1. /\ Working /\ pc \in {"moved", "late"} /\ pc' = "late" /\ Building
        /\ UNCHANGED <<why, copied, away>> /\ mode = 2
    BY DEF BeginLate, PlaceLate, Working, Building
  <1>2. /\ incr_regenerate' = incr_regenerate
        /\ \A g : IsAway(g)' = IsAway(g)
        /\ live' = live
    BY <1>1, SameJudgement DEF Working
  <1>3. /\ \A g \in away : IsAway(g)
        /\ ~why => Placed \ copied \subseteq incr_regenerate
    BY <1>1 DEF LaidFromTheFile
  <1>4. ASSUME ~why, NEW g \in Placed', g \notin copied
        PROVE  g \in incr_regenerate
    <2>1. CASE BeginLate
      BY <1>2, <1>3, <1>4, <2>1 DEF BeginLate, Placed
    <2>2. CASE PlaceLate
      <3>1. at' = [at EXCEPT ![Late[pos]] = here] /\ pos <= Len(Late)
        BY <2>2 DEF PlaceLate
      <3>2. /\ TypeOK /\ Aligned /\ Late \in Seq(live) /\ Elements(Late) = Moving
        BY <1>1, LateStart
      <3>3. pos \in DOMAIN Late
        BY <3>1, <3>2 DEF TypeOK
      <3>4. Late[pos] \in incr_regenerate
        <4>1. Late[pos] \in Moving
          BY <3>2, <3>3 DEF Elements
        <4> QED BY <1>1, <1>4, <3>2, <4>1 DEF Aligned
      <3>5. g # Late[pos] => g \in Placed
        <4>1. g \in live /\ at'[g] > 0 /\ g \in Fn
          BY <1>2, <1>4, <3>2, ProgramFacts DEF Placed, TypeOK
        <4>2. g # Late[pos] => at'[g] = at[g]
          BY <3>1, <3>2, <4>1 DEF TypeOK
        <4> QED BY <4>1, <4>2 DEF Placed
      <3> QED BY <1>3, <1>4, <3>4, <3>5
    <2> QED BY <2>1, <2>2
  <1> QED BY <1>1, <1>2, <1>3, <1>4 DEF LaidFromTheFile

LEMMA NextFromTheFile ==
  IInv /\ LaidFromTheFile /\ [Next]_vars => LaidFromTheFile'
  <1> SUFFICES ASSUME IInv, LaidFromTheFile, [Next]_vars PROVE LaidFromTheFile'
    OBVIOUS
  <1>1. CASE StartBuild \/ Fallback
    <2>1. /\ pc' = "functions" /\ pos' = 1 /\ away' = {} /\ again' = <<>>
      BY <1>1 DEF StartBuild, Fallback, BeginCodegen
    <2>2. Placed' = {}
      BY <1>1, StartInOrder
    <2>3. \A i \in DOMAIN prog'.order : ~(i < pos')
      <3>1. prog'.order \in Seq(Fn)
        <4>1. IInv'
          BY NextInv
        <4> QED BY <4>1, ProgramFacts DEF IInv, TypeOK
      <3> QED BY <2>1, <3>1
    <2> QED BY <2>1, <2>2, <2>3 DEF LaidFromTheFile
  <1>2. CASE Edit \/ UNCHANGED vars
    <2>1. UNCHANGED <<pc, bin, build>>
      BY <1>2 DEF Edit, vars
    <2>2. /\ UNCHANGED <<bin, prog, live, mode, why, pos, here, at, copied, away, again>>
          /\ UNCHANGED <<need, rtBase>>
      BY <2>1 DEF build
    <2>3. /\ Placed' = Placed /\ Building' = Building
          /\ incr_regenerate' = incr_regenerate
          /\ \A g : IsAway(g)' = IsAway(g)
      BY <2>1, <2>2 DEF Placed, Building, incr_regenerate, digest_moved, CodeCalls,
             IsAway, incr_text_size
    <2> QED BY <2>1, <2>2, <2>3 DEF LaidFromTheFile
  <1>3. CASE StopOnAssertion \/ Accept \/ CreateFile \/ Writev \/ Kill
    <2>1. ~Building'
      BY <1>3 DEF StopOnAssertion, Accept, CreateFile, Writev, Kill, Building
    <2> QED BY <2>1 DEF LaidFromTheFile
  <1> QED BY <1>1, <1>2, <1>3, FunctionFromTheFile, AllSetAside, SyntheticsFromTheFile,
             AwayFromTheFile, LateFromTheFile DEF Next, BuildStep

-----------------------------------------------------------------------------
(***************************************************************************)
(* Every file there is, and every one about to replace it, is Orderly.     *)
(***************************************************************************)
LEMMA ImageOrderly == IInv /\ LaidInOrder /\ LaidOut => Orderly(Image)
  BY ImageWritten, ImageInOrder DEF Orderly

LEMMA InitOrder == Init => OInv
  <1> SUFFICES ASSUME Init PROVE OInv
    OBVIOUS
  <1>1. Orderly(bin) /\ Orderly(out)
    BY DEF Init, Orderly, prev_none
  <1>2. LaidInOrder /\ LaidFromTheFile
    BY DEF Init, LaidInOrder, LaidFromTheFile, Building
  <1> QED BY <1>1, <1>2, InitInv DEF OInv

LEMMA NextOrder == OInv /\ [Next]_vars => OInv'
  <1> SUFFICES ASSUME OInv, [Next]_vars PROVE OInv'
    OBVIOUS
  <1>1. IInv /\ Orderly(bin) /\ Orderly(out) /\ LaidInOrder /\ LaidFromTheFile
    BY DEF OInv
  <1>2. IInv' /\ LaidInOrder' /\ LaidFromTheFile'
    BY <1>1, NextInv, NextInOrder, NextFromTheFile
  <1>3. Orderly(prev_none)
    BY DEF Orderly, prev_none
  <1>4. Orderly(bin') /\ Orderly(out')
    BY <1>1, <1>3, FilesMove, ImageOrderly
  <1>5. Orderly(bin)' /\ Orderly(out)'
    BY <1>4 DEF Orderly, Written, InOrder, FunctionsIn, SymbolsOf, TextSize
  <1> QED BY <1>2, <1>5 DEF OInv

\* In every file a slot runs to the next symbol and the symbols are in the order
\* codegen.ngpl lays them in, whichever builds the file is made of.
THEOREM FilesAreOrderly == Spec => []OInv
  BY InitOrder, NextOrder, PTL DEF Spec

-----------------------------------------------------------------------------
(***************************************************************************)
(* A build of what the file was built from.                                *)
(***************************************************************************)

\* Two files that are written like one another in what decides the rest.
LEMMA WrittenAlike ==
  \A a, b :
    /\ Written(a) /\ Written(b)
    /\ a.ver = b.ver /\ a.at = b.at /\ a.lams = b.lams /\ a.synAt = b.synAt
    /\ a.rtBase = b.rtBase /\ a.rts = b.rts /\ a.txEnds = b.txEnds
    /\ a.textEnd = b.textEnd /\ a.room = b.room
    /\ \A f \in FunctionsIn(b) : a.code[f] = b.code[f]
    => a = b
  <1> SUFFICES ASSUME NEW a, NEW b, Written(a), Written(b),
        a.ver = b.ver, a.at = b.at, a.lams = b.lams, a.synAt = b.synAt,
        a.rtBase = b.rtBase, a.rts = b.rts, a.txEnds = b.txEnds,
        a.textEnd = b.textEnd, a.room = b.room,
        \A f \in FunctionsIn(b) : a.code[f] = b.code[f]
               PROVE  a = b
    OBVIOUS
  <1>1. FunctionsIn(a) = FunctionsIn(b) /\ SymbolsOf(a) = SymbolsOf(b)
    BY DEF FunctionsIn, SymbolsOf
  <1>2. a.end = b.end
    BY <1>1 DEF Written
  <1>3. a.synEnd = b.synEnd
    BY <1>1 DEF Written
  <1>4. a.code = b.code
    <2>1. \A f \in Fn : a.code[f] = b.code[f]
      BY <1>1 DEF Written
    <2>2. a.code = [f \in Fn |-> a.code[f]] /\ b.code = [f \in Fn |-> b.code[f]]
      BY DEF Written
    <2> QED BY <2>1, <2>2
  <1> DEFINE Whole(file) ==
        [ok |-> TRUE, ver |-> file.ver, at |-> file.at, end |-> file.end,
         code |-> file.code, lams |-> file.lams, synAt |-> file.synAt,
         synEnd |-> file.synEnd, rtBase |-> file.rtBase, rts |-> file.rts,
         txEnds |-> file.txEnds, textEnd |-> file.textEnd, room |-> file.room]
  <1>5. a = Whole(a) /\ b = Whole(b)
    BY DEF Written
  <1>6. Whole(a) = Whole(b)
    BY <1>2, <1>3, <1>4
  <1> QED BY <1>5, <1>6

\* Nothing is written again, so nothing is moved.
LEMMA NothingMoved ==
  IInv /\ LaidOut /\ mode = 2 /\ Image.ver = bin.ver =>
    /\ live = FunctionsIn(bin)
    /\ \A f \in live : ~digest_moved(f)
    /\ incr_regenerate = {}
  <1> SUFFICES ASSUME IInv, LaidOut, mode = 2, Image.ver = bin.ver
               PROVE  /\ live = FunctionsIn(bin)
                      /\ \A f \in live : ~digest_moved(f)
                      /\ incr_regenerate = {}
    OBVIOUS
  <1>1. /\ TypeOK /\ FileInv(bin) /\ live = reached_fns(prog) /\ bin.ok
    BY FinishedFacts
  <1>2. /\ live \subseteq Fn
        /\ \A f \in live : prog.ver[f] # NotDefined /\ CodeCalls(f) \subseteq live
    BY <1>1, LiveFacts, ReachedFacts DEF TypeOK
  <1>3. \A f \in Fn : bin.ver[f] = IF f \in live THEN prog.ver[f] ELSE NotDefined
    BY ImageFields
  <1>4. \A f \in Fn : f \in live <=> bin.ver[f] # NotDefined
    BY <1>2, <1>3
  <1>5. \A f \in Fn : bin.at[f] >= 0 <=> bin.ver[f] # NotDefined
    <2> SUFFICES ASSUME NEW f \in Fn PROVE bin.at[f] >= 0 <=> bin.ver[f] # NotDefined
      OBVIOUS
    <2>1. bin.at[f] \in Int
      BY <1>1, SlotFacts
    <2>2. IF bin.ver[f] = NotDefined THEN bin.at[f] = -1 ELSE bin.at[f] > 0
      BY <1>1 DEF FileInv
    <2> QED BY <2>1, <2>2
  <1>6. \A f \in live : ~digest_moved(f)
    BY <1>2, <1>3 DEF digest_moved
  <1>7. live = FunctionsIn(bin)
    BY <1>2, <1>4, <1>5 DEF FunctionsIn
  <1>8. incr_regenerate = {}
    BY <1>2, <1>6 DEF incr_regenerate
  <1> QED BY <1>6, <1>7, <1>8

\* Whatever is moved was written again, so here nothing is: the build goes
\* straight from the runtime through the old overflow to its end.
LEMMA NothingLate ==
  /\ IInv /\ LaidInOrder /\ LaidFromTheFile /\ LaidOut
  /\ mode = 2 /\ ~why /\ incr_regenerate = {}
  => /\ pc = "moved" /\ Late = <<>> /\ again = <<>> /\ away = {}
     /\ copied = live
  <1> SUFFICES ASSUME IInv, LaidInOrder, LaidFromTheFile, LaidOut,
                      mode = 2, ~why, incr_regenerate = {}
               PROVE  /\ pc = "moved" /\ Late = <<>> /\ again = <<>> /\ away = {}
                      /\ copied = live
    OBVIOUS
  <1>1. /\ TypeOK /\ Placed = live /\ away = {} /\ pc \in {"moved", "late"}
        /\ copied \subseteq live
    BY FinishedFacts DEF TypeOK
  <1>2. /\ Aligned /\ Building /\ Late \in Seq(live) /\ Elements(Late) = Moving
    BY <1>1, LateStart
  <1>3. Moving = {}
    BY <1>2 DEF Aligned
  <1>4. Late = <<>> /\ again = <<>>
    <2>1. Len(Late) = 0
      <3>1. Len(Late) \in Nat /\ (Len(Late) # 0 => 1 \in DOMAIN Late)
        BY <1>2
      <3>2. 1 \notin DOMAIN Late
        BY <1>2, <1>3 DEF Elements
      <3> QED BY <3>1, <3>2
    <2>2. again \in Seq(live) /\ outgrown \in Seq(live)
      BY <1>1 DEF TypeOK
    <2>3. Len(Late) = Len(again) + Len(outgrown)
          /\ Len(again) \in Nat /\ Len(outgrown) \in Nat
      BY <2>2, ConcatElements DEF Late
    <2>4. Len(again) = 0
      BY <2>1, <2>3
    <2>5. Late = <<>>
      BY <1>2, <2>1
    <2>6. again = <<>>
      BY <2>2, <2>4
    <2> QED BY <2>5, <2>6
  <1>5. pc = "moved"
    BY <1>1, <1>2, <1>4 DEF LaidInOrder
  <1>6. live \subseteq copied
    BY <1>1, <1>2 DEF LaidFromTheFile
  <1> QED BY <1>1, <1>4, <1>5, <1>6

LEMMA FileSymbols ==
  TypeOK /\ FileInv(bin) /\ bin.ok => SymbolsOf(bin) \in SUBSET Nat
  <1> SUFFICES ASSUME TypeOK, FileInv(bin), bin.ok PROVE SymbolsOf(bin) \in SUBSET Nat
    OBVIOUS
  <1>1. \A g \in FunctionsIn(bin) : bin.at[g] \in Nat
    BY SlotFacts DEF FunctionsIn
  <1>2. /\ bin.synAt \in Seq(Nat) /\ bin.textEnd \in Nat /\ bin.rts \in SUBSET Routine
        /\ bin.rtBase \in Nat
    BY DEF TypeOK, FileType
  <1>3. \A r \in bin.rts : RtAt(bin.rtBase, bin.rts)[r] \in Nat
    BY <1>2, RuntimeFacts DEF RtAt
  <1> QED BY <1>1, <1>2, <1>3 DEF SymbolsOf

\* The last function of the old overflow is the last of the file's code.
LEMMA LastSlot ==
  TypeOK /\ FileInv(bin) /\ bin.ok /\ Written(bin) /\ InOrder(bin) =>
    \A f \in FunctionsIn(bin) :
      /\ IsAway(f)
      /\ \A g \in FunctionsIn(bin) : IsAway(g) => ~(bin.at[g] > bin.at[f])
      => bin.end[f] = bin.textEnd
  <1> SUFFICES ASSUME TypeOK, FileInv(bin), bin.ok, Written(bin), InOrder(bin),
                      NEW f \in FunctionsIn(bin), IsAway(f),
                      \A g \in FunctionsIn(bin) : IsAway(g) => ~(bin.at[g] > bin.at[f])
               PROVE  bin.end[f] = bin.textEnd
    OBVIOUS
  <1>1. /\ incr_text_size(bin) = TextSize(bin) /\ TextSize(bin) \in Nat
        /\ bin.rtBase \in Nat /\ bin.rtBase <= TextSize(bin)
    BY SectionFacts
  <1>2. f \in Fn /\ bin.at[f] \in Int /\ bin.at[f] >= TextSize(bin)
    BY <1>1, SlotFacts DEF FunctionsIn, IsAway
  <1>3. SymbolsOf(bin) \in SUBSET Nat
    BY FileSymbols
  <1>4. bin.textEnd \in SymbolsOf(bin) /\ bin.textEnd \in Nat /\ bin.at[f] < bin.textEnd
    BY DEF SymbolsOf, InOrder, TypeOK, FileType
  <1>5. ASSUME NEW o \in SymbolsOf(bin), o > bin.at[f] PROVE o = bin.textEnd
    <2>1. ASSUME NEW g \in FunctionsIn(bin), o = bin.at[g] PROVE FALSE
      <3>1. bin.at[g] \in Int
        BY SlotFacts DEF FunctionsIn
      <3>2. IsAway(g)
        BY <1>1, <1>2, <1>5, <2>1, <3>1 DEF IsAway
      <3> QED BY <1>5, <2>1, <3>2
    <2>2. ASSUME NEW j \in DOMAIN bin.synAt, o = bin.synAt[j] PROVE FALSE
      <3>1. bin.synAt[j] \in Nat /\ bin.synAt[j] < bin.rtBase
        BY DEF InOrder, TypeOK, FileType
      <3> QED BY <1>1, <1>2, <1>5, <2>2, <3>1
    <2>3. ASSUME NEW r \in bin.rts, o = RtAt(bin.rtBase, bin.rts)[r] PROVE FALSE
      <3>1. bin.rts \in SUBSET Routine
        BY DEF TypeOK, FileType
      <3>2. o = bin.rtBase + RtOff[bin.rts][r]
        BY <2>3, <3>1 DEF RtAt
      <3>3. RtOff[bin.rts][r] \in Nat /\ RtOff[bin.rts][r] < RtLen[bin.rts]
            /\ RtLen[bin.rts] \in Nat
        BY <3>1, RuntimeFacts
      <3> QED BY <1>1, <1>2, <1>5, <3>2, <3>3 DEF TextSize
    <2> QED BY <2>1, <2>2, <2>3 DEF SymbolsOf
  <1>6. NextOf(SymbolsOf(bin), bin.at[f]) = bin.textEnd
    <2>1. NextOf(SymbolsOf(bin), bin.at[f]) \in SymbolsOf(bin)
          /\ NextOf(SymbolsOf(bin), bin.at[f]) > bin.at[f]
      BY <1>2, <1>3, <1>4, NextOfFacts
    <2> QED BY <1>5, <2>1
  <1> QED BY <1>2, <1>6 DEF Written

\* So it ends where the file's code ended.
LEMMA HereIsEnd ==
  /\ OInv /\ LaidOut /\ mode = 2 /\ ~why /\ pc = "moved" /\ again = <<>>
  /\ live = FunctionsIn(bin) /\ need = bin.rts /\ rtBase = bin.rtBase
  => here = bin.textEnd
  <1> SUFFICES ASSUME OInv, LaidOut, mode = 2, ~why, pc = "moved", again = <<>>,
                      live = FunctionsIn(bin), need = bin.rts, rtBase = bin.rtBase
               PROVE  here = bin.textEnd
    OBVIOUS
  <1>1. IInv /\ LaidFromTheFile /\ Orderly(bin)
    BY DEF OInv
  <1>2. TypeOK /\ FileInv(bin) /\ bin.ok /\ away = {} /\ Building
    BY <1>1, FinishedFacts DEF Building
  <1>3. Written(bin) /\ InOrder(bin)
    BY <1>1, <1>2 DEF Orderly
  <1>4. rtBase + RtLen[need] = TextSize(bin) /\ incr_text_size(bin) = TextSize(bin)
    BY <1>2, SectionFacts DEF TextSize
  <1>5. CASE here = rtBase + RtLen[need] /\ \A f \in live : IsAway(f) => f \in away
    <2>1. \A f \in FunctionsIn(bin) : ~(bin.at[f] >= TextSize(bin))
      BY <1>2, <1>4, <1>5 DEF IsAway
    <2> QED BY <1>3, <1>4, <1>5, <2>1 DEF InOrder
  <1>6. ASSUME NEW f \in live, IsAway(f), here = bin.end[f],
               \A g \in live : IsAway(g) => (g \in away <=> bin.at[g] > bin.at[f])
        PROVE  here = bin.textEnd
    BY <1>2, <1>3, <1>6, LastSlot
  <1> QED BY <1>1, <1>2, <1>5, <1>6 DEF LaidFromTheFile

LEMMA LaidReproduces ==
  /\ LambdasFixed /\ OInv /\ LaidOut /\ MayReplace /\ mode = 2
  /\ Image.ver = bin.ver
  => Image = bin
  <1> SUFFICES ASSUME LambdasFixed, OInv, LaidOut, MayReplace, mode = 2,
                      Image.ver = bin.ver
               PROVE  Image = bin
    OBVIOUS
  <1>1. IInv /\ LaidInOrder /\ LaidFromTheFile /\ Orderly(bin)
        /\ ~why /\ incr_lines_up(Image)
    BY DEF OInv, MayReplace
  <1>2. TypeOK /\ FileInv(bin) /\ bin.ok
    BY <1>1, FinishedFacts
  <1>3. /\ live = FunctionsIn(bin) /\ incr_regenerate = {}
        /\ \A f \in live : ~digest_moved(f)
    BY <1>1, NothingMoved
  <1>4. Late = <<>> /\ copied = live /\ pc = "moved" /\ again = <<>>
    BY <1>1, <1>3, NothingLate
  <1>5. /\ need = bin.rts /\ rtBase = bin.rtBase /\ synAt = bin.synAt
        /\ prog.lams = bin.lams /\ here = bin.textEnd
    <2>1. need = bin.rts /\ rtBase = bin.rtBase
      BY <1>1, LinedUp, RuntimeStays
    <2> QED BY <1>1, <1>3, <1>4, <2>1, SyntheticsStay, LambdasStay, HereIsEnd
  <1>6. Image.at = bin.at
    <2>1. \A f \in live : at[f] = bin.at[f]
      BY <1>1, <1>3, UnchangedStays
    <2>2. \A f \in Fn \ live : bin.at[f] = -1
      <3>1. \A f \in Fn : IF bin.ver[f] = NotDefined THEN bin.at[f] = -1
                                                     ELSE bin.at[f] > 0
        BY <1>2 DEF FileInv
      <3> QED BY <1>2, <1>3, <3>1, SlotFacts DEF FunctionsIn
    <2>3. bin.at = [f \in Fn |-> bin.at[f]]
      BY <1>2 DEF TypeOK, FileType
    <2>4. Image.at = [f \in Fn |-> IF f \in live THEN at[f] ELSE -1]
      BY ImageFields
    <2> QED BY <2>1, <2>2, <2>3, <2>4
  <1>7. Image.txEnds = bin.txEnds
    <2>1. /\ TextSize(bin) \in bin.txEnds /\ bin.txEnds \in SUBSET Nat
          /\ \A e \in bin.txEnds : TextSize(bin) <= e
      BY <1>2 DEF FileInv, Sections, TypeOK, FileType
    <2>2. tx_ends = {TextSize(bin)} \cup {e \in bin.txEnds : e > TextSize(bin)}
      BY <1>4, <1>5 DEF tx_ends, TextSize
    <2>3. TextSize(bin) \in Nat
      BY <2>1
    <2>4. tx_ends = bin.txEnds
      BY <2>1, <2>2, <2>3
    <2> QED BY <2>4, ImageFields
  <1>8. \A f \in FunctionsIn(bin) : Image.code[f] = bin.code[f]
    BY <1>1, <1>3, <1>4, ImageHolds
  <1>9. /\ Image.lams = bin.lams /\ Image.synAt = bin.synAt
        /\ Image.rtBase = bin.rtBase /\ Image.rts = bin.rts
        /\ Image.textEnd = bin.textEnd /\ Image.room = bin.room
    BY <1>5, ImageFields
  <1>10. Written(Image) /\ Written(bin)
    BY <1>1, <1>2, ImageWritten DEF Orderly
  <1> QED BY <1>6, <1>7, <1>8, <1>9, <1>10, WrittenAlike

\* A rebuild of the program the file was built from writes the same file, slots
\* that absorbed a hole and old overflow sections and all (incr_lines_up,
\* incr_copy, the overflow of codegen.ngpl): whatever was built before, for
\* every program whose lambdas stay in their order.
THEOREM RebuildsReproduce == LambdasFixed => (Spec => []RebuildReproduces)
  <1> SUFFICES ASSUME LambdasFixed PROVE Spec => []RebuildReproduces
    OBVIOUS
  <1>1. Init => RebuildReproduces
    BY DEF Init, RebuildReproduces, Overlaid
  <1>2. OInv /\ RebuildReproduces /\ [Next]_vars => RebuildReproduces'
    <2> SUFFICES ASSUME OInv, RebuildReproduces, [Next]_vars,
                        pc' = "create", mode' = 2, out'.ver = bin'.ver
                 PROVE  out' = bin'
      BY DEF RebuildReproduces, Overlaid
    <2>1. CASE LaidOut /\ MayReplace /\ out' = Image /\ UNCHANGED <<src, bin, build>>
      <3>1. mode' = mode /\ bin' = bin
        BY <2>1 DEF build
      <3>2. Image.ver = bin.ver
        BY <2>1, <3>1
      <3> QED BY <2>1, <3>1, <3>2, LaidReproduces
    <2>2. CASE pc = "create" /\ UNCHANGED <<bin, build, out>>
      BY <2>2 DEF RebuildReproduces, Overlaid, build
    <2> QED BY <2>1, <2>2, CreateFrame
  <1> QED BY <1>1, <1>2, FilesAreOrderly, PTL DEF Spec

-----------------------------------------------------------------------------
(***************************************************************************)
(* A program whose every piece fits its slot.                              *)
(***************************************************************************)

\* What the file is then.
LEMMA SlotEnds ==
  TypeOK /\ FileInv(bin) /\ bin.ok /\ Written(bin) /\ InOrder(bin) =>
    /\ \A f \in FunctionsIn(bin) : \A o \in SymbolsOf(bin) :
         o > bin.at[f] => bin.end[f] <= o
    /\ \A j \in DOMAIN bin.synAt :
         /\ bin.synAt[j] \in Nat /\ bin.synEnd[j] \in SymbolsOf(bin)
         /\ bin.synEnd[j] \in Nat /\ bin.synEnd[j] > bin.synAt[j]
         /\ \A o \in SymbolsOf(bin) : o > bin.synAt[j] => bin.synEnd[j] <= o
  <1> SUFFICES ASSUME TypeOK, FileInv(bin), bin.ok, Written(bin), InOrder(bin)
               PROVE
    /\ \A f \in FunctionsIn(bin) : \A o \in SymbolsOf(bin) :
         o > bin.at[f] => bin.end[f] <= o
    /\ \A j \in DOMAIN bin.synAt :
         /\ bin.synAt[j] \in Nat /\ bin.synEnd[j] \in SymbolsOf(bin)
         /\ bin.synEnd[j] \in Nat /\ bin.synEnd[j] > bin.synAt[j]
         /\ \A o \in SymbolsOf(bin) : o > bin.synAt[j] => bin.synEnd[j] <= o
    OBVIOUS
  <1>1. /\ SymbolsOf(bin) \in SUBSET Nat
        /\ bin.textEnd \in SymbolsOf(bin) /\ bin.textEnd \in Nat
        /\ bin.rtBase <= TextSize(bin) /\ TextSize(bin) <= bin.textEnd
        /\ bin.rtBase \in Nat /\ TextSize(bin) \in Nat
    BY FileSymbols, SectionFacts DEF SymbolsOf, InOrder, TypeOK, FileType
  <1>2. ASSUME NEW f \in FunctionsIn(bin), NEW o \in SymbolsOf(bin), o > bin.at[f]
        PROVE  bin.end[f] <= o
    <2>1. f \in Fn /\ bin.at[f] \in Int /\ bin.end[f] = NextOf(SymbolsOf(bin), bin.at[f])
      BY SlotFacts DEF FunctionsIn, Written
    <2>2. o \in Nat /\ bin.at[f] < o
      BY <1>1, <1>2, <2>1
    <2> QED BY <1>1, <2>1, <2>2, NextOfFacts
  <1>3. ASSUME NEW j \in DOMAIN bin.synAt
        PROVE  /\ bin.synAt[j] \in Nat /\ bin.synEnd[j] \in SymbolsOf(bin)
               /\ bin.synEnd[j] \in Nat /\ bin.synEnd[j] > bin.synAt[j]
               /\ \A o \in SymbolsOf(bin) : o > bin.synAt[j] => bin.synEnd[j] <= o
    <2>1. bin.synAt[j] \in Nat /\ bin.synAt[j] < bin.rtBase
          /\ bin.synEnd[j] = NextOf(SymbolsOf(bin), bin.synAt[j])
      BY DEF TypeOK, FileType, InOrder, Written
    <2>2. bin.synAt[j] < bin.textEnd /\ bin.synAt[j] \in Int
      BY <1>1, <2>1
    <2> QED BY <1>1, <2>1, <2>2, NextOfFacts
  <1> QED BY <1>2, <1>3

LEMMA FittingFile ==
  OInv /\ Building /\ StillFits =>
    /\ IInv /\ TypeOK /\ FileInv(bin) /\ bin.ok /\ Written(bin) /\ InOrder(bin)
    /\ live = FunctionsIn(bin) /\ live \subseteq Fn
    /\ DOMAIN bin.synAt = 1 .. SynthCount(prog)
    /\ \A f \in live :
         /\ bin.at[f] \in Nat /\ bin.at[f] > 0 /\ bin.end[f] \in Int
         /\ CodeSize(f) \in Nat \ {0} /\ bin.at[f] + CodeSize(f) <= bin.end[f]
         /\ CodeNeeds(f) \subseteq bin.rts
         /\ bin.at[f] \in SymbolsOf(bin)
         /\ \A o \in SymbolsOf(bin) : o > bin.at[f] => bin.end[f] <= o
    /\ \A j \in DOMAIN bin.synAt :
         /\ bin.synAt[j] \in Nat /\ bin.synEnd[j] \in Nat
         /\ bin.synAt[j] + SynthBytes(prog, j) <= bin.synEnd[j]
         /\ bin.synAt[j] \in SymbolsOf(bin) /\ bin.synEnd[j] \in SymbolsOf(bin)
         /\ bin.synEnd[j] > bin.synAt[j]
         /\ \A o \in SymbolsOf(bin) : o > bin.synAt[j] => bin.synEnd[j] <= o
  <1> SUFFICES ASSUME OInv, Building, StillFits PROVE
    /\ IInv /\ TypeOK /\ FileInv(bin) /\ bin.ok /\ Written(bin) /\ InOrder(bin)
    /\ live = FunctionsIn(bin) /\ live \subseteq Fn
    /\ DOMAIN bin.synAt = 1 .. SynthCount(prog)
    /\ \A f \in live :
         /\ bin.at[f] \in Nat /\ bin.at[f] > 0 /\ bin.end[f] \in Int
         /\ CodeSize(f) \in Nat \ {0} /\ bin.at[f] + CodeSize(f) <= bin.end[f]
         /\ CodeNeeds(f) \subseteq bin.rts
         /\ bin.at[f] \in SymbolsOf(bin)
         /\ \A o \in SymbolsOf(bin) : o > bin.at[f] => bin.end[f] <= o
    /\ \A j \in DOMAIN bin.synAt :
         /\ bin.synAt[j] \in Nat /\ bin.synEnd[j] \in Nat
         /\ bin.synAt[j] + SynthBytes(prog, j) <= bin.synEnd[j]
         /\ bin.synAt[j] \in SymbolsOf(bin) /\ bin.synEnd[j] \in SymbolsOf(bin)
         /\ bin.synEnd[j] > bin.synAt[j]
         /\ \A o \in SymbolsOf(bin) : o > bin.synAt[j] => bin.synEnd[j] <= o
    OBVIOUS
  <1>1. IInv /\ TypeOK /\ FileInv(bin) /\ bin.ok /\ Orderly(bin) /\ SameShape
    BY DEF OInv, IInv, StillFits
  <1>2. Written(bin) /\ InOrder(bin)
    BY <1>1 DEF Orderly
  <1>3. live = FunctionsIn(bin) /\ live = reached_fns(prog) /\ live \subseteq Fn
    BY <1>1, LiveFacts DEF SameShape, IInv, BuildInv
  <1>4. DOMAIN bin.synAt = 1 .. SynthCount(prog)
    <2>1. bin.synAt \in Seq(Nat)
      BY <1>1 DEF TypeOK, FileType
    <2>2. Len(bin.synAt) = SynthCount(prog)
      BY <1>1 DEF SameShape
    <2> QED BY <2>1, <2>2
  <1>5. ASSUME NEW f \in live
        PROVE  /\ bin.at[f] \in Nat /\ bin.at[f] > 0 /\ bin.end[f] \in Int
               /\ CodeSize(f) \in Nat \ {0} /\ bin.at[f] + CodeSize(f) <= bin.end[f]
               /\ CodeNeeds(f) \subseteq bin.rts
               /\ bin.at[f] \in SymbolsOf(bin)
               /\ \A o \in SymbolsOf(bin) : o > bin.at[f] => bin.end[f] <= o
    <2>1. bin.at[f] \in Nat /\ bin.at[f] > 0 /\ bin.end[f] \in Int
      <3>1. f \in Fn /\ bin.at[f] >= 0
        BY <1>3 DEF FunctionsIn
      <3> QED BY <1>1, <3>1, SlotFacts
    <2>2. CodeSize(f) \in Nat \ {0}
      BY <1>1, <1>3, LiveFacts
    <2>3. bin.at[f] + CodeSize(f) <= bin.end[f]
      BY DEF StillFits
    <2>4. CodeNeeds(f) \subseteq bin.rts
      BY <1>1 DEF SameShape, CodeNeeds
    <2>5. bin.at[f] \in SymbolsOf(bin)
      BY <1>3 DEF SymbolsOf
    <2> QED BY <1>1, <1>2, <1>3, <2>1, <2>2, <2>3, <2>4, <2>5, SlotEnds
  <1>6. ASSUME NEW j \in DOMAIN bin.synAt
        PROVE  /\ bin.synAt[j] + SynthBytes(prog, j) <= bin.synEnd[j]
               /\ bin.synAt[j] \in SymbolsOf(bin)
    BY DEF StillFits, SymbolsOf
  <1> QED BY <1>1, <1>2, <1>3, <1>4, <1>5, <1>6, SlotEnds

\* A build that goes on is about the same program and the same file.
LEMMA StillFitting ==
  UNCHANGED <<bin, prog, live>> => StillFits' = StillFits
  BY DEF StillFits, SameShape, IsAway, incr_text_size, CodeSize, FunctionsIn

LEMMA FunctionFits == EInv /\ EmitFunction => NothingInTheWay'
  <1> SUFFICES ASSUME EInv, NEW f \in Fn, mode' = 2, StillFits',
                      \/ SkipUnreached(f) \/ WritePadded(f) \/ SetAside(f)
                      \/ CopyInPlace(f) \/ WriteInPlace(f) \/ Outgrow(f)
               PROVE  NothingInTheWay'
    BY DEF EmitFunction, NothingInTheWay
  <1>1. AtFunction(f) /\ ~WritePadded(f)
    BY DEF SkipUnreached, WritePadded, SetAside, InPlace, CopyInPlace, WriteInPlace,
           Outgrow, AtFunction
  <1>2. OInv /\ NothingInTheWay /\ IInv
    BY DEF EInv, OInv
  <1>3. /\ Working /\ pc = "functions" /\ pc' = "functions" /\ TypeOK
        /\ again' = again /\ pos' = pos + 1 /\ prog' = prog /\ live' = live /\ bin' = bin
        /\ mode = 2 /\ f = prog.order[pos] /\ pos \in Nat \ {0} /\ Building
        /\ pos \in DOMAIN prog.order
    <2>1. prog.order \in Seq(Fn)
      BY <1>2, ProgramFacts DEF IInv, TypeOK
    <2> QED BY <1>1, <1>2, <2>1, FunctionStart DEF Working, AtFunction, Current, TypeOK, Building
  <1>4. StillFits /\ \A g : IsAway(g)' = IsAway(g)
    BY <1>3, StillFitting, SameJudgement
  <1>5. /\ ~why /\ again = <<>> /\ outgrown = <<>> /\ need \subseteq bin.rts
        /\ \A j \in DOMAIN bin.synAt : here <= bin.synAt[j]
        /\ \A i \in DOMAIN prog.order :
             i >= pos /\ prog.order[i] \in live /\ ~IsAway(prog.order[i])
               => here <= bin.at[prog.order[i]]
    BY <1>2, <1>3, <1>4 DEF NothingInTheWay
  <1>6. /\ FileInv(bin) /\ bin.ok /\ InOrder(bin) /\ SameShape
        /\ live = FunctionsIn(bin)
        /\ \A g \in live :
             /\ bin.at[g] \in Nat /\ bin.at[g] > 0 /\ bin.end[g] \in Int
             /\ CodeSize(g) \in Nat \ {0} /\ bin.at[g] + CodeSize(g) <= bin.end[g]
             /\ CodeNeeds(g) \subseteq bin.rts
             /\ bin.at[g] \in SymbolsOf(bin)
             /\ \A o \in SymbolsOf(bin) : o > bin.at[g] => bin.end[g] <= o
        /\ \A j \in DOMAIN bin.synAt :
             bin.synAt[j] \in SymbolsOf(bin) /\ bin.synAt[j] \in Nat
    BY <1>2, <1>3, <1>4, FittingFile DEF StillFits
  <1>7. ASSUME ~IsAway(f), f \in live
        PROVE  /\ here <= bin.at[f] /\ Begins(f) = bin.at[f] /\ Fits(f)
               /\ ~incr_before_why(bin.at[f])
               /\ \A j \in DOMAIN bin.synAt : bin.end[f] <= bin.synAt[j]
               /\ \A i \in DOMAIN prog.order :
                    i >= pos + 1 /\ prog.order[i] \in live /\ ~IsAway(prog.order[i])
                      => bin.end[f] <= bin.at[prog.order[i]]
    <2>1. here <= bin.at[f] /\ here \in Nat
      BY <1>3, <1>5, <1>7 DEF TypeOK
    <2>2. Begins(f) = bin.at[f] /\ ~incr_before_why(bin.at[f])
      BY <1>6, <1>7, <2>1 DEF Begins, incr_before, incr_before_why, Larger
    <2>3. Fits(f)
      BY <1>6, <1>7, <2>2 DEF Fits
    <2>4. ASSUME NEW j \in DOMAIN bin.synAt PROVE bin.end[f] <= bin.synAt[j]
      <3>1. incr_text_size(bin) = TextSize(bin) /\ TextSize(bin) \in Nat
        BY <1>3, <1>6, SectionFacts
      <3>2. bin.at[f] < TextSize(bin)
        BY <1>6, <1>7, <3>1 DEF IsAway
      <3>3. bin.at[f] < bin.synAt[j]
        BY <1>6, <1>7, <3>2 DEF InOrder
      <3> QED BY <1>6, <1>7, <3>3
    <2>5. ASSUME NEW i \in DOMAIN prog.order, i >= pos + 1, prog.order[i] \in live,
                 ~IsAway(prog.order[i])
          PROVE  bin.end[f] <= bin.at[prog.order[i]]
      <3>1. pos < i /\ {prog.order[pos], prog.order[i]} \subseteq live
        <4>1. i \in Nat
          BY <1>3, ProgramFacts DEF TypeOK
        <4> QED BY <1>3, <1>7, <2>5, <4>1
      <3>2. bin.at[f] < bin.at[prog.order[i]]
        BY <1>3, <1>6, <1>7, <2>5, <3>1 DEF SameShape
      <3> QED BY <1>6, <1>7, <2>5, <3>2
    <2> QED BY <2>1, <2>2, <2>3, <2>4, <2>5
  <1>8. CASE SkipUnreached(f) \/ SetAside(f)
    <2>1. ~why' /\ outgrown' = outgrown /\ here' = here /\ need' \subseteq bin.rts
      <3>1. UNCHANGED <<why, outgrown, here>>
        BY <1>8 DEF SkipUnreached, SetAside
      <3>2. need' = need \/ (f \in live /\ need' = need \cup CodeNeeds(f))
        BY <1>8 DEF SkipUnreached, SetAside
      <3> QED BY <1>5, <1>6, <3>1, <3>2
    <2>2. \A i \in DOMAIN prog.order : i >= pos + 1 => i >= pos
      BY <1>3, ProgramFacts DEF TypeOK
    <2> QED BY <1>3, <1>4, <1>5, <2>1, <2>2 DEF NothingInTheWay
  <1>9. CASE CopyInPlace(f) \/ WriteInPlace(f) \/ Outgrow(f)
    <2>1. f \in live /\ ~IsAway(f) /\ why' = (why \/ incr_before_why(bin.at[f]))
      BY <1>9 DEF CopyInPlace, WriteInPlace, Outgrow, InPlace
    <2>2. ~Outgrow(f)
      BY <1>7, <2>1 DEF Outgrow
    <2>3. ~why'
      BY <1>5, <1>7, <2>1
    <2>4. here' = bin.end[f]
      BY <1>6, <1>7, <1>9, <2>1, <2>2 DEF CopyInPlace, WriteInPlace, incr_after, Larger
    <2>5. outgrown' = outgrown /\ need' \subseteq bin.rts
      BY <1>5, <1>6, <1>9, <2>1, <2>2 DEF CopyInPlace, WriteInPlace
    <2> QED BY <1>3, <1>4, <1>5, <1>7, <2>1, <2>3, <2>4, <2>5 DEF NothingInTheWay
  <1> QED BY <1>1, <1>8, <1>9

LEMMA SyntheticFits ==
  EInv /\ (FunctionsDone \/ WriteSyntheticPadded \/ WriteSyntheticInPlace)
    => NothingInTheWay'
  <1> SUFFICES ASSUME EInv, mode' = 2, StillFits',
                      FunctionsDone \/ WriteSyntheticPadded \/ WriteSyntheticInPlace
               PROVE  NothingInTheWay'
    BY DEF NothingInTheWay
  <1>1. /\ UNCHANGED <<bin, prog, live, need, again, outgrown>> /\ pc' = "synthetics"
        /\ mode = 2 /\ Building
    BY DEF FunctionsDone, WriteSyntheticPadded, WriteSyntheticInPlace, AtSynthetic, Building
  <1>2. StillFits /\ OInv /\ NothingInTheWay
    BY <1>1, StillFitting DEF EInv
  <1>3. ~why /\ again = <<>> /\ outgrown = <<>> /\ need \subseteq bin.rts
    BY <1>1, <1>2 DEF NothingInTheWay
  <1>4. CASE FunctionsDone
    <2>1. pc = "functions" /\ pos' = 1 /\ UNCHANGED <<why, here>>
      BY <1>4 DEF FunctionsDone
    <2>2. \A j \in DOMAIN bin.synAt : here <= bin.synAt[j]
      BY <1>1, <1>2, <2>1 DEF NothingInTheWay
    <2> QED BY <1>1, <1>3, <2>1, <2>2 DEF NothingInTheWay
  <1>5. CASE WriteSyntheticPadded \/ WriteSyntheticInPlace
    <2> DEFINE was == SynthWas(pos)
               n == SynthBytes(prog, pos)
    <2>1. ~WriteSyntheticPadded
      BY <1>1 DEF WriteSyntheticPadded
    <2>2. /\ AtSynthetic
          /\ why' = (why \/ incr_before_why(was) \/ incr_before(was) + n > SynthEnd(pos))
          /\ here' = incr_after(incr_before(was) + n, SynthEnd(pos))
      BY <1>5, <2>1 DEF WriteSyntheticInPlace
    <2>3. pc = "synthetics" /\ pos <= SynthCount(prog) /\ pos' = pos + 1
      BY <2>2 DEF AtSynthetic
    <2>4. /\ IInv /\ InOrder(bin) /\ FileInv(bin) /\ bin.ok
          /\ DOMAIN bin.synAt = 1 .. SynthCount(prog)
          /\ \A j \in DOMAIN bin.synAt :
               /\ bin.synAt[j] \in Nat /\ bin.synEnd[j] \in Nat
               /\ bin.synAt[j] + SynthBytes(prog, j) <= bin.synEnd[j]
               /\ bin.synAt[j] \in SymbolsOf(bin)
               /\ \A o \in SymbolsOf(bin) : o > bin.synAt[j] => bin.synEnd[j] <= o
      BY <1>1, <1>2, FittingFile
    <2>5. n \in Nat \ {0} /\ SynthCount(prog) \in Nat \ {0} /\ pos \in Nat \ {0}
          /\ here \in Nat
      BY <2>3, <2>4, SyntheticStart DEF IInv, TypeOK
    <2>6. pos \in DOMAIN bin.synAt /\ DOMAIN bin.synEnd = DOMAIN bin.synAt
      <3>1. DOMAIN bin.synEnd = DOMAIN bin.synAt
        BY <2>4 DEF FileInv, Synthetics
      <3> QED BY <2>3, <2>4, <2>5, <3>1
    <2>7. was = bin.synAt[pos] /\ SynthEnd(pos) = bin.synEnd[pos]
      BY <2>6 DEF SynthWas, SynthEnd
    <2>8. here <= bin.synAt[pos]
      <3>1. pos >= pos
        BY <2>5
      <3> QED BY <1>1, <1>2, <2>3, <2>6, <3>1 DEF NothingInTheWay
    <2>9. bin.synAt[pos] + n <= bin.synEnd[pos]
      BY <2>4, <2>6
    <2> HIDE DEF n, was
    <2>10. incr_before(was) = bin.synAt[pos] /\ ~incr_before_why(was)
      BY <2>4, <2>5, <2>6, <2>7, <2>8 DEF incr_before, incr_before_why, Larger
    <2>11. ~(bin.synAt[pos] + n > bin.synEnd[pos])
      BY <2>4, <2>5, <2>6, <2>9
    <2>12. ~why'
      BY <1>3, <2>2, <2>7, <2>10, <2>11
    <2>13. here' = bin.synEnd[pos]
      BY <2>2, <2>4, <2>5, <2>6, <2>7, <2>9, <2>10 DEF incr_after, Larger
    <2>14. ASSUME NEW j \in DOMAIN bin.synAt, j >= pos + 1
           PROVE  bin.synEnd[pos] <= bin.synAt[j]
      <3>1. pos < j
        BY <2>4, <2>5, <2>14
      <3>2. bin.synAt[pos] < bin.synAt[j]
        BY <2>4, <2>6, <2>14, <3>1 DEF InOrder
      <3> QED BY <2>4, <2>6, <2>14, <3>2
    <2>15. pos' - 1 = pos
      BY <2>3, <2>5
    <2> QED BY <1>1, <1>3, <2>3, <2>12, <2>13, <2>14, <2>15 DEF NothingInTheWay
  <1> QED BY <1>4, <1>5

\* The synthesized functions fill the file up to its runtime.
LEMMA LastSynthetic ==
  OInv /\ Building /\ StillFits => bin.synEnd[SynthCount(prog)] = bin.rtBase
  <1> SUFFICES ASSUME OInv, Building, StillFits
               PROVE  bin.synEnd[SynthCount(prog)] = bin.rtBase
    OBVIOUS
  <1> DEFINE n == SynthCount(prog)
             a == bin.synAt[n]
             e == bin.synEnd[n]
  <1>1. /\ TypeOK /\ FileInv(bin) /\ bin.ok /\ InOrder(bin)
        /\ DOMAIN bin.synAt = 1 .. n
        /\ \A j \in DOMAIN bin.synAt :
             /\ bin.synAt[j] \in Nat /\ bin.synEnd[j] \in Nat
             /\ bin.synEnd[j] \in SymbolsOf(bin) /\ bin.synEnd[j] > bin.synAt[j]
             /\ \A o \in SymbolsOf(bin) : o > bin.synAt[j] => bin.synEnd[j] <= o
    BY FittingFile
  <1>2. n \in Nat \ {0}
    BY <1>1, SynthFacts DEF TypeOK
  <1> HIDE DEF n
  <1>3. n \in DOMAIN bin.synAt
    BY <1>1, <1>2
  <1>4. /\ a \in Nat /\ e \in Nat /\ e \in SymbolsOf(bin) /\ e > a
        /\ \A o \in SymbolsOf(bin) : o > a => e <= o
        /\ a < bin.rtBase
    BY <1>1, <1>3 DEF InOrder
  <1>5. /\ bin.rtBase \in Nat /\ bin.rts \in SUBSET Routine
        /\ TextSize(bin) \in Nat /\ bin.rtBase <= TextSize(bin)
    BY <1>1, SectionFacts DEF TypeOK, FileType
  <1>6. bin.rtBase \in SymbolsOf(bin)
    <2>1. bin.rts # {}
      BY <1>1, PositiveConstants DEF InOrder
    <2>2. PICK r \in bin.rts : RtOff[bin.rts][r] = 0
      BY <1>5, <2>1, RuntimeFacts
    <2>3. RtAt(bin.rtBase, bin.rts)[r] = bin.rtBase
      BY <1>5, <2>2 DEF RtAt
    <2> QED BY <2>3 DEF SymbolsOf
  <1>7. e <= bin.rtBase
    BY <1>4, <1>6
  <1>8. bin.rtBase <= e
    <2>1. ASSUME NEW f \in FunctionsIn(bin), e = bin.at[f] PROVE bin.rtBase <= e
      <3>1. CASE bin.at[f] < TextSize(bin)
        <4>1. bin.at[f] < a
          BY <1>1, <1>3, <3>1 DEF InOrder
        <4> QED BY <1>4, <2>1, <4>1
      <3>2. CASE ~(bin.at[f] < TextSize(bin))
        BY <1>4, <1>5, <2>1, <3>2
      <3> QED BY <3>1, <3>2
    <2>2. ASSUME NEW j \in DOMAIN bin.synAt, e = bin.synAt[j] PROVE bin.rtBase <= e
      <3>1. j = n \/ j < n
        BY <1>1, <1>2
      <3>2. j < n => bin.synAt[j] < a
        BY <1>1, <1>3 DEF InOrder
      <3> QED BY <1>1, <1>4, <2>2, <3>1, <3>2
    <2>3. ASSUME NEW r \in bin.rts, e = RtAt(bin.rtBase, bin.rts)[r] PROVE bin.rtBase <= e
      <3>1. RtOff[bin.rts][r] \in Nat /\ e = bin.rtBase + RtOff[bin.rts][r]
        BY <1>5, <2>3, RuntimeFacts DEF RtAt
      <3> QED BY <1>5, <3>1
    <2>4. ASSUME e = bin.textEnd PROVE bin.rtBase <= e
      <3>1. TextSize(bin) <= bin.textEnd
        BY <1>1 DEF InOrder
      <3> QED BY <1>4, <1>5, <2>4, <3>1
    <2> HIDE DEF a, e
    <2> QED BY <1>4, <2>1, <2>2, <2>3, <2>4 DEF SymbolsOf
  <1>9. e = bin.rtBase
    BY <1>4, <1>5, <1>7, <1>8
  <1> QED BY <1>9 DEF n

LEMMA RuntimeFits == EInv /\ EmitRuntime => NothingInTheWay'
  <1> SUFFICES ASSUME EInv, mode' = 2, StillFits', EmitRuntime PROVE NothingInTheWay'
    BY DEF NothingInTheWay
  <1>1. /\ UNCHANGED <<bin, prog, live, why, again, outgrown, away>>
        /\ pc = "synthetics" /\ pc' = "moved" /\ pos > SynthCount(prog)
        /\ mode = 2 /\ Building
        /\ need' = CloseOver(need \cup bin.rts)
        /\ rtBase' = here /\ here' = here + RtLen[need']
    BY DEF EmitRuntime, Building
  <1>2. StillFits /\ OInv /\ NothingInTheWay /\ IInv
    BY <1>1, StillFitting DEF EInv, OInv
  <1>3. /\ ~why /\ again = <<>> /\ outgrown = <<>> /\ need \subseteq bin.rts
        /\ pos > 1 => here = bin.synEnd[pos - 1]
    BY <1>1, <1>2 DEF NothingInTheWay
  <1>4. TypeOK /\ FileInv(bin) /\ bin.ok /\ InOrder(bin)
    BY <1>1, <1>2, FittingFile
  <1>5. pos - 1 = SynthCount(prog) /\ pos > 1
    <2>1. pos <= SynthCount(prog) + 1 /\ SynthCount(prog) \in Nat \ {0}
      BY <1>1, <1>2, SyntheticStart DEF SyntheticsPlaced
    <2> QED BY <1>1, <1>4, <2>1 DEF TypeOK
  <1>6. rtBase' = bin.rtBase
    BY <1>1, <1>2, <1>3, <1>5, LastSynthetic
  <1>7. need' = bin.rts
    <2>1. need \cup bin.rts = bin.rts
      BY <1>3
    <2> QED BY <1>1, <1>4, <2>1 DEF InOrder
  <1>8. here' = TextSize(bin)
    BY <1>1, <1>6, <1>7 DEF TextSize
  <1>9. \A f \in away : here' <= bin.at[f]
    <2>1. \A f \in away : IsAway(f)
      BY <1>1, <1>2 DEF OInv, LaidFromTheFile
    <2>2. incr_text_size(bin) = TextSize(bin) /\ TextSize(bin) \in Nat
      BY <1>4, SectionFacts
    <2>3. \A f \in away : bin.at[f] \in Int
      BY <1>4, <1>1, <1>2, FittingFile DEF TypeOK
    <2> QED BY <1>8, <2>1, <2>2, <2>3 DEF IsAway
  <1> QED BY <1>1, <1>3, <1>6, <1>7, <1>9 DEF NothingInTheWay

LEMMA AwayFits == EInv /\ PlaceAway => NothingInTheWay'
  <1> SUFFICES ASSUME EInv, mode' = 2, StillFits', NEW f \in Fn,
                      CopyAway(f) \/ WriteAway(f) \/ OutgrowAgain(f)
               PROVE  NothingInTheWay'
    BY DEF NothingInTheWay, PlaceAway
  <1>1. NextAway(f)
    BY DEF CopyAway, WriteAway, OutgrowAgain
  <1>2. OInv /\ NothingInTheWay /\ IInv
    BY DEF EInv, OInv
  <1>3. /\ UNCHANGED <<bin, prog, live, outgrown, need, rtBase>> /\ away' = away \ {f}
        /\ pc = "moved" /\ pc' = "moved" /\ mode = 2 /\ Building
        /\ f \in away /\ f \in live /\ away \subseteq live /\ TypeOK
        /\ why' = (why \/ incr_before_why(bin.at[f]))
        /\ \A g \in away : bin.at[f] <= bin.at[g]
    BY <1>1, <1>2, AwayStart DEF Working, Building, NextAway, TypeOK
  <1>4. StillFits
    BY <1>3, StillFitting
  <1>5. /\ ~why /\ again = <<>> /\ outgrown = <<>>
        /\ need = bin.rts /\ rtBase = bin.rtBase /\ need \subseteq bin.rts
        /\ here <= bin.at[f]
    BY <1>2, <1>3, <1>4 DEF NothingInTheWay
  <1>6. /\ FileInv(bin) /\ bin.ok /\ live = FunctionsIn(bin) /\ live \subseteq Fn
        /\ \A g \in live :
             /\ bin.at[g] \in Nat /\ bin.at[g] > 0 /\ bin.end[g] \in Int
             /\ CodeSize(g) \in Nat \ {0} /\ bin.at[g] + CodeSize(g) <= bin.end[g]
    BY <1>2, <1>3, <1>4, FittingFile
  <1>7. here \in Nat
    BY <1>3 DEF TypeOK
  <1>8. Begins(f) = bin.at[f] /\ ~incr_before_why(bin.at[f]) /\ Fits(f)
    <2>1. Begins(f) = bin.at[f] /\ ~incr_before_why(bin.at[f])
      BY <1>3, <1>5, <1>6, <1>7 DEF Begins, incr_before, incr_before_why, Larger
    <2> QED BY <1>3, <1>6, <2>1 DEF Fits
  <1>9. ~OutgrowAgain(f) /\ ~why'
    BY <1>3, <1>5, <1>8 DEF OutgrowAgain
  <1>10. here' = bin.end[f] /\ again' = again
    <2>1. CASE CopyAway(f)
      BY <1>3, <1>6, <1>8, <2>1 DEF CopyAway
    <2>2. CASE WriteAway(f)
      BY <1>3, <1>6, <1>8, <2>2 DEF WriteAway, incr_after, Larger
    <2> QED BY <1>9, <2>1, <2>2
  <1>11. ASSUME NEW g \in away, g # f PROVE bin.end[f] <= bin.at[g]
    <2>1. bin.end[f] <= bin.at[g] \/ bin.end[g] <= bin.at[f]
      BY <1>3, <1>6, <1>11 DEF FileInv, Apart
    <2>2. g \in live /\ bin.at[f] <= bin.at[g]
      BY <1>3
    <2> QED BY <1>3, <1>6, <2>1, <2>2
  <1> QED BY <1>3, <1>5, <1>9, <1>10, <1>11 DEF NothingInTheWay

LEMMA StartFits == EInv /\ StartBuild => NothingInTheWay'
  <1> SUFFICES ASSUME EInv, mode' = 2, StillFits', StartBuild PROVE NothingInTheWay'
    BY DEF NothingInTheWay
  <1>1. /\ ~why' /\ again' = <<>> /\ outgrown' = <<>> /\ pc' = "functions"
        /\ need' = StartNeeds /\ here' = StartSize /\ bin' = bin
    BY DEF StartBuild, BeginCodegen
  <1>2. OInv' /\ Building'
    BY <1>1, NextOrder DEF EInv, Next, Building
  <1>3. /\ live' = FunctionsIn(bin) /\ bin.ok
    BY <1>1 DEF StillFits, SameShape, FunctionsIn
  <1>4. InOrder(bin)
    BY <1>3 DEF EInv, OInv, Orderly
  <1>5. \A f \in live' : StartSize <= bin.at[f]
    BY <1>3, <1>4 DEF InOrder
  <1>6. \A j \in DOMAIN bin.synAt : StartSize <= bin.synAt[j]
    BY <1>4 DEF InOrder
  <1>7. StartNeeds \subseteq bin.rts
    BY <1>4 DEF InOrder
  <1> QED BY <1>1, <1>5, <1>6, <1>7 DEF NothingInTheWay

\* A build that meets nothing may replace the file.
LEMMA LaidFits == EInv /\ LaidOut /\ mode = 2 /\ StillFits => MayReplace
  <1> SUFFICES ASSUME EInv, LaidOut, mode = 2, StillFits PROVE MayReplace
    OBVIOUS
  <1>1. OInv /\ NothingInTheWay /\ IInv /\ LaidInOrder
    BY DEF EInv, OInv
  <1>2. /\ TypeOK /\ Placed = live /\ pc \in {"moved", "late"} /\ Building
        /\ Aligned /\ RuntimeDone /\ SyntheticsPlaced
    BY <1>1, FinishedFacts, LateStart
  <1>3. /\ ~why /\ again = <<>> /\ outgrown = <<>> /\ pc = "moved"
        /\ need = bin.rts /\ rtBase = bin.rtBase
    BY <1>1, <1>2 DEF NothingInTheWay
  <1>4. /\ FileInv(bin) /\ bin.ok /\ Written(bin) /\ live = FunctionsIn(bin)
        /\ live \subseteq Fn /\ DOMAIN bin.synAt = 1 .. SynthCount(prog)
        /\ \A f \in live : bin.at[f] \in Nat /\ bin.end[f] \in Int
        /\ \A j \in DOMAIN bin.synAt : bin.synAt[j] \in Nat /\ bin.synEnd[j] \in Nat
    BY <1>1, <1>2, FittingFile
  <1>5. here = bin.textEnd
    BY <1>1, <1>3, <1>4, HereIsEnd
  <1>6. \A f \in live : at[f] = bin.at[f]
    <2>1. Moving = {}
      <3>1. DOMAIN again = {} /\ DOMAIN outgrown = {}
        BY <1>3
      <3> QED BY <3>1 DEF Moving, Elements
    <2> QED BY <1>2, <1>3, <2>1 DEF Aligned
  <1>7. synAt = bin.synAt /\ Len(bin.synAt) = SynthCount(prog)
    <2>1. synAt \in Seq(Nat) /\ bin.synAt \in Seq(Nat)
      BY <1>2, <1>4 DEF TypeOK, FileType
    <2>2. Len(synAt) = SynthCount(prog)
      BY <1>2, <1>3 DEF SyntheticsPlaced
    <2>3. Len(bin.synAt) = SynthCount(prog)
      BY DEF StillFits, SameShape
    <2>4. \A j \in DOMAIN synAt : synAt[j] = SynthWas(j)
      BY <1>2, <1>3 DEF Aligned
    <2>5. \A j \in 1 .. Len(synAt) : synAt[j] = bin.synAt[j]
      BY <2>1, <2>2, <2>3, <2>4 DEF SynthWas
    <2>6. Len(synAt) = Len(bin.synAt)
      BY <2>2, <2>3
    <2> QED BY <2>1, <2>3, <2>5, <2>6, SeqEqual
  <1>8. /\ FunctionsIn(Image) = live /\ \A f \in live : Image.at[f] = bin.at[f]
        /\ Image.synAt = bin.synAt /\ Image.rts = bin.rts /\ Image.rtBase = bin.rtBase
        /\ Image.textEnd = bin.textEnd
    BY <1>1, <1>3, <1>5, <1>6, <1>7, ImageHolds, ImageFields
  <1>9. SymbolsOf(Image) = SymbolsOf(bin)
    <2>1. {Image.at[f] : f \in FunctionsIn(Image)} = {bin.at[f] : f \in FunctionsIn(bin)}
      BY <1>4, <1>8
    <2> QED BY <1>8, <2>1 DEF SymbolsOf
  <1>10. Written(Image)
    BY <1>1, ImageWritten
  <1>11. \A f \in live : Image.end[f] = bin.end[f]
    BY <1>4, <1>8, <1>9, <1>10 DEF Written
  <1>12. Image.synEnd = bin.synEnd /\ DOMAIN bin.synEnd = DOMAIN bin.synAt
    BY <1>4, <1>8, <1>9, <1>10 DEF Written
  <1>13. Image.textEnd <= bin.room
    BY <1>4, <1>8 DEF FileInv, Apart
  <1>14. Cardinality(FunctionsIn(Image)) + Len(Image.synAt) + Cardinality(Image.rts)
           = Cardinality(FunctionsIn(bin)) + Len(bin.synAt) + Cardinality(bin.rts)
    BY <1>4, <1>8
  <1>15. \A f \in FunctionsIn(Image) :
           SymbolHolds(bin.at[f], bin.end[f], Image.at[f], Image.end[f])
    BY <1>4, <1>8, <1>11 DEF SymbolHolds
  <1>16. \A j \in DOMAIN Image.synAt :
           SymbolHolds(SynthWas(j), SynthEnd(j), Image.synAt[j], Image.synEnd[j])
    <2> SUFFICES ASSUME NEW j \in DOMAIN bin.synAt
                 PROVE  SymbolHolds(SynthWas(j), SynthEnd(j), Image.synAt[j], Image.synEnd[j])
      BY <1>8
    <2>1. SynthWas(j) = bin.synAt[j] /\ SynthEnd(j) = bin.synEnd[j]
      BY <1>12 DEF SynthWas, SynthEnd
    <2>2. Image.synAt[j] = bin.synAt[j] /\ Image.synEnd[j] = bin.synEnd[j]
      BY <1>8, <1>12
    <2> QED BY <1>4, <2>1, <2>2 DEF SymbolHolds
  <1>17. \A r \in Image.rts :
           /\ r \in bin.rts
           /\ RtAt(Image.rtBase, Image.rts)[r] = RtAt(bin.rtBase, bin.rts)[r]
    BY <1>8
  <1>18. incr_lines_up(Image)
    BY <1>13, <1>14, <1>15, <1>16, <1>17 DEF incr_lines_up
  <1> QED BY <1>3, <1>18 DEF MayReplace

LEMMA NothingComesInTheWay == EInv /\ [Next]_vars => NothingInTheWay'
  <1> SUFFICES ASSUME EInv, [Next]_vars PROVE NothingInTheWay'
    OBVIOUS
  <1>1. NothingInTheWay
    BY DEF EInv
  <1>2. CASE BeginLate \/ PlaceLate
    <2>1. /\ pc \in {"moved", "late"} /\ Building /\ UNCHANGED <<bin, prog, live, mode>>
      BY <1>2 DEF BeginLate, PlaceLate, Building
    <2>2. pc = "late" \/ Late # <<>>
      BY <1>2 DEF BeginLate, PlaceLate
    <2>3. again = <<>> /\ outgrown = <<>> => Late = <<>>
      BY DEF Late
    <2>4. ~(mode = 2 /\ StillFits)
      BY <1>1, <2>1, <2>2, <2>3 DEF NothingInTheWay
    <2>5. StillFits' = StillFits
      BY <2>1, StillFitting
    <2> QED BY <2>1, <2>4, <2>5 DEF NothingInTheWay
  <1>3. CASE Edit \/ UNCHANGED vars
    <2>1. UNCHANGED <<pc, bin, build>>
      BY <1>3 DEF Edit, vars
    <2>2. /\ UNCHANGED <<pc, bin, prog, live, mode, why, pos, here, away, outgrown, again>>
          /\ UNCHANGED <<need, rtBase>>
      BY <2>1 DEF build
    <2>3. /\ StillFits' = StillFits /\ Building' = Building
          /\ \A g : IsAway(g)' = IsAway(g)
      BY <2>2, StillFitting DEF Building, IsAway, incr_text_size
    <2> QED BY <1>1, <2>2, <2>3 DEF NothingInTheWay
  <1>4. CASE StopOnAssertion \/ Accept \/ CreateFile \/ Writev \/ Kill
    <2>1. ~Building'
      BY <1>4 DEF StopOnAssertion, Accept, CreateFile, Writev, Kill, Building
    <2> QED BY <2>1 DEF NothingInTheWay
  <1>5. CASE Fallback
    <2>1. mode' = 1
      BY <1>5 DEF Fallback, BeginCodegen
    <2> QED BY <2>1 DEF NothingInTheWay
  <1> QED BY <1>2, <1>3, <1>4, <1>5, FunctionFits, SyntheticFits, RuntimeFits, AwayFits,
             StartFits DEF Next, BuildStep

LEMMA OnlyIfItMust == EInv /\ [Next]_vars => WholeOnlyIfItMust'
  <1> SUFFICES ASSUME EInv, [Next]_vars PROVE WholeOnlyIfItMust'
    OBVIOUS
  <1>1. WholeOnlyIfItMust /\ mode \in {1, 2}
    BY DEF EInv, OInv, IInv, TypeOK
  <1>2. ASSUME UNCHANGED <<bin, prog, live, mode>>, Building \/ pc = "create"
        PROVE  WholeOnlyIfItMust'
    BY <1>1, <1>2, StillFitting DEF WholeOnlyIfItMust
  <1>3. CASE EmitFunction
    BY <1>2, <1>3 DEF EmitFunction, SkipUnreached, WritePadded, SetAside, InPlace,
           CopyInPlace, WriteInPlace, Outgrow, AtFunction, Building
  <1>4. CASE FunctionsDone \/ WriteSyntheticPadded \/ WriteSyntheticInPlace \/ EmitRuntime
    BY <1>2, <1>4 DEF FunctionsDone, WriteSyntheticPadded, WriteSyntheticInPlace,
           AtSynthetic, EmitRuntime, Building
  <1>5. CASE PlaceAway
    BY <1>2, <1>5 DEF PlaceAway, CopyAway, WriteAway, OutgrowAgain, NextAway, Building
  <1>6. CASE BeginLate \/ PlaceLate
    BY <1>2, <1>6 DEF BeginLate, PlaceLate, Building
  <1>7. CASE Accept
    <2>1. UNCHANGED <<bin, prog, live, mode>> /\ Building
      BY <1>7 DEF Accept, LaidOut, Building, build
    <2> QED BY <1>2, <2>1
  <1>8. CASE Edit \/ UNCHANGED vars
    <2>1. UNCHANGED <<pc, bin, build>>
      BY <1>8 DEF Edit, vars
    <2>2. UNCHANGED <<bin, prog, live, mode, pc>>
      BY <2>1 DEF build
    <2>3. CASE Building \/ pc = "create"
      BY <1>2, <2>2, <2>3
    <2>4. CASE ~(Building \/ pc = "create")
      BY <2>2, <2>4 DEF WholeOnlyIfItMust, Building
    <2> QED BY <2>3, <2>4
  <1>9. CASE StopOnAssertion \/ CreateFile \/ Writev \/ Kill
    <2>1. pc' \in {"stopped", "writev", "idle"}
      BY <1>9 DEF StopOnAssertion, CreateFile, Writev, Kill
    <2> QED BY <2>1 DEF WholeOnlyIfItMust, Building
  <1>10. CASE StartBuild
    <2>1. bin' = bin /\ (mode' = 1 => ~bin.ok)
      BY <1>10 DEF StartBuild, BeginCodegen
    <2> QED BY <2>1 DEF WholeOnlyIfItMust, StillFits
  <1>11. CASE Fallback
    <2>1. LaidOut /\ ~MayReplace /\ UNCHANGED <<bin, prog, live>>
      BY <1>11 DEF Fallback
    <2>2. mode = 2 /\ ~StillFits
      BY <1>1, <2>1, LaidFits DEF MayReplace
    <2> QED BY <2>1, <2>2, StillFitting DEF WholeOnlyIfItMust
  <1> QED BY <1>3, <1>4, <1>5, <1>6, <1>7, <1>8, <1>9, <1>10, <1>11 DEF Next, BuildStep

\* As long as every piece fits its slot nothing is in the way of a build laid
\* over the file, and one that is not laid over it has met a piece that does not.
THEOREM OnlyWhatDoesNotFit == Spec => []EInv
  <1>1. Init => EInv
    <2> SUFFICES ASSUME Init PROVE EInv
      OBVIOUS
    <2>1. NothingInTheWay /\ WholeOnlyIfItMust
      BY DEF Init, NothingInTheWay, WholeOnlyIfItMust, Building
    <2> QED BY <2>1, InitOrder DEF EInv
  <1>2. EInv /\ [Next]_vars => EInv'
    <2> SUFFICES ASSUME EInv, [Next]_vars PROVE EInv'
      OBVIOUS
    <2>1. OInv'
      BY NextOrder DEF EInv
    <2> QED BY <2>1, NothingComesInTheWay, OnlyIfItMust DEF EInv
  <1> QED BY <1>1, <1>2, PTL DEF Spec

\* A program whose every piece fits the slot the file has for it is laid over
\* the file and never compiled whole: the slots a fallback hands out are there
\* to be used (incr_before, incr_after, incr_lines_up), for every program and
\* every history of builds.
THEOREM WhatFitsIsLaidOver == Spec => []EditThatFitsIsLaidOver
  <1>1. EInv => EditThatFitsIsLaidOver
    <2> SUFFICES ASSUME EInv, pc = "create", StillFits PROVE mode = 2
      BY DEF EditThatFitsIsLaidOver, StillFits
    <2>1. mode \in {1, 2} /\ WholeOnlyIfItMust
      BY DEF EInv, OInv, IInv, TypeOK
    <2> QED BY <2>1 DEF WholeOnlyIfItMust
  <1> QED BY <1>1, OnlyWhatDoesNotFit, PTL
=============================================================================
