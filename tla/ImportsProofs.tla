---------------------------- MODULE ImportsProofs ----------------------------
(***************************************************************************)
(* The readers, for every tree of files.  However an editor saves them the *)
(* compiler's reads a file once, its modules are there, and a line is      *)
(* known to be of the file it was written in; and where nobody saves one   *)
(* both it and the interpreter's answer what the files say.                *)
(***************************************************************************)
EXTENDS Readers, SequenceTheorems, FiniteSetTheorems, TLAPS

-----------------------------------------------------------------------------
\* Lists.

LEMMA EmptyListed == Listed(<<>>) /\ Len(<<>>) = 0
  BY EmptySeq DEF Listed

LEMMA SeqListed ==
  ASSUME NEW S, NEW s \in Seq(S)
  PROVE  Listed(s)
<1> DEFINE R == {s[k] : k \in DOMAIN s}
<1>1. Len(s) \in Nat /\ s \in [1 .. Len(s) -> S] /\ DOMAIN s = 1 .. Len(s)
  BY LenProperties
<1>2. s \in [1 .. Len(s) -> R]  BY <1>1
<1>3. s \in Seq(R)  BY <1>1, <1>2, SeqDef
<1> QED  BY <1>3 DEF Listed

LEMMA OneListed ==
  ASSUME NEW x
  PROVE  Listed(<<x>>) /\ Len(<<x>>) = 1
<1>1. <<x>> \in Seq({x})  OBVIOUS
<1> QED  BY <1>1, SeqListed

LEMMA ListedFacts ==
  ASSUME NEW s, Listed(s)
  PROVE  Len(s) \in Nat /\ DOMAIN s = 1 .. Len(s)
  BY LenProperties DEF Listed

\* What is listed is a sequence over whatever holds its elements.
LEMMA ListedOver ==
  ASSUME NEW s, Listed(s), NEW S, \A k \in DOMAIN s : s[k] \in S
  PROVE  s \in Seq(S)
<1>1. {s[k] : k \in DOMAIN s} \subseteq S  OBVIOUS
<1> QED  BY <1>1, SeqMonotonic DEF Listed

LEMMA AppendListed ==
  ASSUME NEW s, NEW x, Listed(s)
  PROVE  /\ Listed(Append(s, x))
         /\ Len(Append(s, x)) = Len(s) + 1
         /\ DOMAIN Append(s, x) = 1 .. Len(s) + 1
         /\ \A k \in 1 .. Len(s) : Append(s, x)[k] = s[k]
         /\ Append(s, x)[Len(s) + 1] = x
<1> DEFINE S == {s[k] : k \in DOMAIN s} \cup {x}
<1>1. s \in Seq(S) /\ x \in S  BY ListedOver
<1> HIDE DEF S
<1>2. /\ Append(s, x) \in Seq(S)
      /\ Len(Append(s, x)) = Len(s) + 1
      /\ \A k \in 1 .. Len(s) : Append(s, x)[k] = s[k]
      /\ Append(s, x)[Len(s) + 1] = x
  BY <1>1, AppendProperties
<1>3. DOMAIN Append(s, x) = 1 .. Len(Append(s, x))  BY <1>2, LenProperties
<1>4. Listed(Append(s, x))  BY <1>2, SeqListed
<1> QED  BY <1>2, <1>3, <1>4

LEMMA ConcatListed ==
  ASSUME NEW s, NEW t, Listed(s), Listed(t)
  PROVE  /\ Listed(s \o t)
         /\ Len(s \o t) = Len(s) + Len(t)
         /\ DOMAIN (s \o t) = 1 .. Len(s) + Len(t)
         /\ \A k \in 1 .. Len(s) : (s \o t)[k] = s[k]
         /\ \A k \in 1 .. Len(t) : (s \o t)[Len(s) + k] = t[k]
<1> DEFINE S == {s[k] : k \in DOMAIN s} \cup {t[k] : k \in DOMAIN t}
<1>1. s \in Seq(S) /\ t \in Seq(S)  BY ListedOver
<1>2. Len(s) \in Nat /\ Len(t) \in Nat  BY ListedFacts
<1> HIDE DEF S
<1>3. s \o t \in Seq(S) /\ Len(s \o t) = Len(s) + Len(t)  BY <1>1, ConcatProperties
<1>4. Listed(s \o t)  BY <1>3, SeqListed
<1>5. DOMAIN (s \o t) = 1 .. Len(s) + Len(t)  BY <1>3, LenProperties
<1>6. \A k \in 1 .. Len(s) : (s \o t)[k] = s[k]  BY <1>1, <1>2, ConcatProperties
<1>7. ASSUME NEW k \in 1 .. Len(t) PROVE (s \o t)[Len(s) + k] = t[k]
  <2>1. Len(s) + k \in 1 .. Len(s) + Len(t)  BY <1>2
  <2>2. ~(Len(s) + k <= Len(s)) /\ (Len(s) + k) - Len(s) = k  BY <1>2
  <2> QED  BY <1>1, <2>1, <2>2, ConcatProperties
<1> QED  BY <1>3, <1>4, <1>5, <1>6, <1>7

\* A text that ends its last line is lines in order, the last of them ended.
LEMMA EndedListed ==
  ASSUME NEW t, Listed(t)
  PROVE  /\ Listed(Ended(t))
         /\ Len(Ended(t)) # 0 => Ended(t)[Len(Ended(t))] = nl
<1>1. CASE t # <<>> /\ t[Len(t)] # nl
  BY <1>1, AppendListed DEF Ended
<1>2. CASE ~(t # <<>> /\ t[Len(t)] # nl)
  BY <1>2, EmptyListed DEF Ended
<1> QED  BY <1>1, <1>2

-----------------------------------------------------------------------------
\* The inductive invariant.  What the three properties need of each other: the
\* lists kept beside one another are as long, and what is in hand was found.

Lists ==
  /\ \A f \in Ino : Listed(text[f])
  /\ Listed(src) /\ Listed(names) /\ Listed(offs) /\ Listed(fmod)
  /\ Listed(cino) /\ Listed(cmod) /\ Listed(mroot) /\ Listed(bind)

\* A reading that was given up goes no further; what a file's module is is kept
\* twice; there is a module from the start.
InHand ==
  /\ why # "nothing" => pc = "done"
  /\ cmod = fmod
  /\ Len(mroot) >= 1

\* No file having been put in another's place, what was found is still what it was.
StillFound ==
  (saves = 0 \/ busy # "anyhow") /\ pc = "take" => found.ino = imp_ident(fs, found.path)

\* The number a file was read under no other was, and without such a save it is
\* still what its name finds.
NumbersOnce == \A j, k \in DOMAIN cino : cino[j] = cino[k] => j = k
NamesStand ==
  busy # "anyhow" => \A k \in DOMAIN cino : cino[k] = imp_ident(fs, names[k])

\* File k and the text read of it.
TextOf(k) == Ended(text[cino[k]])
EndOf(k) == offs[k] + Len(TextOf(k))

\* Every line read is in the text of some file, files begin in the order they
\* were read and where the ones before them end, and every end ends a line.  Of
\* a file that was given up on no line was kept.
Blocks ==
  saves = 0 =>
    /\ \A k \in DOMAIN offs : offs[k] \in 0 .. Len(src)
    /\ \A k \in DOMAIN cino : cino[k] \in Ino
    /\ \A k, l \in DOMAIN offs : k < l => EndOf(k) <= offs[l]
    /\ \A k \in DOMAIN offs :
         \/ EndOf(k) <= Len(src) /\ \A i \in 1 .. Len(TextOf(k)) :
                                      src[offs[k] + i] = TextOf(k)[i]
         \/ why # "nothing" /\ k = Len(offs) /\ offs[k] = Len(src)
    /\ \A p \in DOMAIN src : \E k \in DOMAIN offs : offs[k] < p /\ p <= EndOf(k)
    /\ \A k \in DOMAIN offs : offs[k] # 0 => src[offs[k]] = nl
    /\ src # <<>> => src[Len(src)] = nl

ReadInv ==
  /\ Lists /\ InHand /\ ModulesAreThere /\ NumbersOnce
  /\ NamesStand /\ StillFound /\ Blocks

-----------------------------------------------------------------------------
\* Before anything is read.

LEMMA InitRead == Init => ReadInv
<1> SUFFICES ASSUME Init PROVE ReadInv  OBVIOUS
<1>1. PICK tree \in Trees : fs = tree.fs /\ text = tree.text  BY DEF Init
<1>2. /\ DOMAIN text = Ino /\ \A f \in Ino : Listed(text[f])
      /\ \A p \in DOMAIN fs : fs[p] \in Ino
  BY <1>1, TreesAssumption
<1>3. Len(mroot) = 1 /\ Listed(mroot)  BY OneListed DEF Init
<1>4. saves = 0 /\ pc = "next" /\ phase = "roots" /\ why = "nothing" /\ found.ino = NoFile
  BY DEF Init
<1>5. DOMAIN <<>> = {}  BY EmptyListed, ListedFacts
<1>6. /\ Listed(src) /\ Listed(names) /\ Listed(offs) /\ Listed(fmod)
      /\ Listed(cino) /\ Listed(cmod) /\ Listed(bind)
      /\ Len(names) = 0 /\ Len(offs) = 0 /\ Len(fmod) = 0 /\ Len(cino) = 0 /\ Len(cmod) = 0
      /\ DOMAIN src = {} /\ DOMAIN offs = {} /\ DOMAIN fmod = {}
      /\ DOMAIN cino = {} /\ DOMAIN bind = {}
      /\ cmod = fmod
  BY <1>5, EmptyListed, Zenon DEF Init
<1>7. src = <<>>  BY DEF Init
<1>8. Lists  BY <1>2, <1>3, <1>6 DEF Lists
<1>9. InHand  BY <1>3, <1>4, <1>6 DEF InHand
<1>10. MaxSaves \in Nat  BY TreesAssumption
<1>11. TypeOK  BY <1>2, <1>4, <1>6, <1>10 DEF TypeOK
<1>12. ModulesAreThere  BY <1>3, <1>4, <1>6, <1>11 DEF ModulesAreThere
<1>13. NumbersOnce /\ NamesStand /\ StillFound /\ Blocks
  BY <1>4, <1>6, <1>7 DEF NumbersOnce, NamesStand, StillFound, Blocks
<1> QED  BY <1>8, <1>9, <1>12, <1>13 DEF ReadInv

-----------------------------------------------------------------------------
\* The editor touches what is in files and what is at a path, and nothing the
\* reader has.

LEMMA SaveRead == ReadInv /\ Save => ReadInv'
<1> SUFFICES ASSUME ReadInv, Save PROVE ReadInv'  OBVIOUS
<1> USE DEF ReadInv, editorVars, readerVars, programVars
<1>0. TypeOK  BY DEF ModulesAreThere
<1>1. PICK p \in Saved, t \in Texts : SaveInPlace(p, t) \/ SaveByRename(p, t)  BY DEF Save
<1>2. Listed(t)  BY TreesAssumption
<1>3. /\ saves' = saves + 1 /\ saves < MaxSaves
      /\ UNCHANGED readerVars /\ UNCHANGED programVars
  BY <1>1 DEF SaveInPlace, SaveByRename
<1>4. /\ DOMAIN text' = Ino /\ \A f \in Ino : Listed(text'[f])
      /\ \A q \in DOMAIN fs' : fs'[q] \in Ino \cup {NoFile}
  <2>1. CASE SaveInPlace(p, t)
    BY <1>0, <1>2, <2>1 DEF SaveInPlace, TypeOK, Lists
  <2>2. CASE SaveByRename(p, t)
    BY <1>0, <1>2, <2>2 DEF SaveByRename, TypeOK, Lists
  <2> QED  BY <1>1, <2>1, <2>2
<1>5. saves' # 0 /\ saves' \in 0 .. MaxSaves
  <2>1. MaxSaves \in Nat /\ saves \in 0 .. MaxSaves  BY <1>0, TreesAssumption DEF TypeOK
  <2> QED  BY <1>3, <2>1
<1>6. Lists'  BY <1>3, <1>4 DEF Lists
<1>7. TypeOK'  BY <1>0, <1>3, <1>4, <1>5 DEF TypeOK
<1>8. ModulesAreThere'  BY <1>3, <1>7 DEF ModulesAreThere
<1>9. InHand' /\ NumbersOnce'  BY <1>3 DEF InHand, NumbersOnce
<1>10. busy' = busy /\ (busy # "anyhow" => fs' = fs)
  BY <1>1 DEF SaveInPlace, SaveByRename
<1>11. NamesStand'  BY <1>3, <1>10 DEF NamesStand
<1>12. StillFound' /\ Blocks'  BY <1>3, <1>5, <1>10 DEF StillFound, Blocks
<1> QED  BY <1>6, <1>7, <1>8, <1>9, <1>11, <1>12

-----------------------------------------------------------------------------
\* Looking for a file leaves what was read as it is.

LEMMA LookRead ==
  ASSUME ReadInv,
         UNCHANGED editorVars, UNCHANGED programVars,
         pc # "done" \/ UNCHANGED why,
         pc' \in {"next", "probe", "take", "done"}, phase' \in {"roots", "bindings"},
         why' # "nothing" => pc' = "done",
         found'.ino \in Ino \cup {NoFile},
         pc' = "take" => found'.ino = imp_ident(fs, found'.path)
  PROVE  ReadInv'
<1> USE DEF ReadInv, editorVars, programVars
<1>0. TypeOK  BY DEF ModulesAreThere
<1>1. why' # "nothing" \/ why = "nothing"  BY DEF InHand
<1>2. Lists'  BY DEF Lists
<1>3. InHand' /\ NumbersOnce' /\ NamesStand' /\ StillFound'
  BY DEF InHand, NumbersOnce, NamesStand, StillFound
<1>4. TypeOK'  BY <1>0, <1>1 DEF TypeOK
<1>5. ModulesAreThere'  BY <1>1, <1>4 DEF ModulesAreThere
<1>6. Blocks'  BY <1>1 DEF Blocks, EndOf, TextOf
<1> QED  BY <1>2, <1>3, <1>5, <1>6

LEMMA IdentIsFile ==
  ASSUME TypeOK, NEW p
  PROVE  imp_ident(fs, p) \in Ino \cup {NoFile}
  BY DEF TypeOK, imp_ident

LEMMA FindRead ==
  ReadInv /\ (FindRoot \/ RootsDone \/ FindBinding \/ Probe \/ NotFound
              \/ BindingsDone \/ CannotOpen) => ReadInv'
<1> SUFFICES ASSUME ReadInv,
                    FindRoot \/ RootsDone \/ FindBinding \/ Probe \/ NotFound
                      \/ BindingsDone \/ CannotOpen
             PROVE  ReadInv'
  OBVIOUS
<1>0. /\ TypeOK /\ InHand /\ phase \in {"roots", "bindings"}
      /\ found.ino \in Ino \cup {NoFile}
  BY DEF ReadInv, ModulesAreThere, TypeOK
<1>1. CASE FindRoot  BY <1>0, <1>1, LookRead, IdentIsFile DEF FindRoot, InHand
<1>2. CASE RootsDone  BY <1>0, <1>2, LookRead DEF RootsDone, InHand
<1>3. CASE FindBinding  BY <1>0, <1>3, LookRead DEF FindBinding, InHand
<1>4. CASE Probe  BY <1>0, <1>4, LookRead, IdentIsFile DEF Probe, InHand
<1>5. CASE NotFound  BY <1>0, <1>5, LookRead DEF NotFound, InHand
<1>6. CASE BindingsDone  BY <1>0, <1>6, LookRead DEF BindingsDone, InHand
<1>7. CASE CannotOpen  BY <1>0, <1>7, LookRead DEF CannotOpen, InHand
<1> QED  BY <1>1, <1>2, <1>3, <1>4, <1>5, <1>6, <1>7

-----------------------------------------------------------------------------
\* A file that is known.

\* What a binding reaches is the one thing following it adds.
LEMMA LandedBinds ==
  ASSUME NEW m, Listed(bind), Landed(m)
  PROVE  /\ Listed(bind') /\ pc' = "next"
         /\ \A k \in DOMAIN bind' :
              bind'[k].mod = m \/ (k \in DOMAIN bind /\ bind'[k].mod = bind[k].mod)
<1> DEFINE met == [name |-> pend[n].name, mod |-> m, owner |-> pend[n].owner]
<1>1. CASE phase = "roots"  BY <1>1 DEF Landed
<1>2. CASE phase # "roots"
  <2>1. bind' = Append(bind, met) /\ pc' = "next"  BY <1>2 DEF Landed
  <2>2. met.mod = m  OBVIOUS
  <2> HIDE DEF met
  <2>3. /\ Listed(Append(bind, met))
        /\ DOMAIN Append(bind, met) = 1 .. Len(bind) + 1
        /\ \A k \in 1 .. Len(bind) : Append(bind, met)[k] = bind[k]
        /\ Append(bind, met)[Len(bind) + 1] = met
    BY AppendListed
  <2>4. Len(bind) \in Nat /\ DOMAIN bind = 1 .. Len(bind)  BY ListedFacts
  <2>5. ASSUME NEW k \in 1 .. Len(bind) + 1
        PROVE  bind'[k].mod = m \/ (k \in DOMAIN bind /\ bind'[k].mod = bind[k].mod)
    <3>1. CASE k = Len(bind) + 1  BY <2>1, <2>2, <2>3, <3>1
    <3>2. CASE k \in 1 .. Len(bind)  BY <2>1, <2>3, <2>4, <3>2
    <3> QED  BY <2>4, <3>1, <3>2
  <2> QED  BY <2>1, <2>3, <2>5
<1> QED  BY <1>1, <1>2

LEMMA ModuleInRange ==
  ASSUME ReadInv, why = "nothing", NEW k \in DOMAIN cino
  PROVE  cmod[k] \in 0 .. Len(mroot) - 1
<1>1. TypeOK /\ cmod = fmod /\ Listed(cino) /\ Listed(fmod)
  BY DEF ReadInv, ModulesAreThere, InHand, Lists
<1>2. k \in DOMAIN fmod  BY <1>1, ListedFacts DEF TypeOK
<1> QED  BY <1>1, <1>2 DEF TypeOK

LEMMA KnownRead == ReadInv /\ Known => ReadInv'
<1> SUFFICES ASSUME ReadInv, Known PROVE ReadInv'  OBVIOUS
<1> USE DEF editorVars
<1>1. PICK k \in seen_at(found.ino) : Landed(cmod[k])  BY DEF Known
<1>2. /\ UNCHANGED <<phase, left, found, why>> /\ UNCHANGED editorVars
      /\ UNCHANGED <<src, names, offs, fmod, cino, cmod, mroot, pend>>
      /\ why = "nothing"
  BY DEF Known, ReadInv, InHand
<1>3. TypeOK /\ Lists /\ InHand /\ ModulesAreThere /\ NumbersOnce /\ NamesStand /\ Blocks
  BY DEF ReadInv, ModulesAreThere
<1>4. cmod[k] \in 0 .. Len(mroot) - 1  BY <1>2, ModuleInRange DEF seen_at
<1>5. /\ Listed(bind') /\ pc' = "next"
      /\ \A j \in DOMAIN bind' :
           bind'[j].mod = cmod[k] \/ (j \in DOMAIN bind /\ bind'[j].mod = bind[j].mod)
  BY <1>1, <1>3, LandedBinds DEF Lists
<1>6. Lists'  BY <1>2, <1>3, <1>5 DEF Lists
<1>7. InHand' /\ NumbersOnce' /\ NamesStand' /\ StillFound'
  BY <1>2, <1>3, <1>5 DEF InHand, NumbersOnce, NamesStand, StillFound
<1>8. TypeOK'  BY <1>2, <1>3, <1>5 DEF TypeOK
<1>9. \A j \in DOMAIN bind' : bind'[j].mod \in 0 .. Len(mroot) - 1
  BY <1>2, <1>3, <1>4, <1>5 DEF ModulesAreThere
<1>10. ModulesAreThere'  BY <1>2, <1>3, <1>8, <1>9 DEF ModulesAreThere
<1>11. Blocks'  BY <1>2, <1>3 DEF Blocks, EndOf, TextOf
<1> QED  BY <1>6, <1>7, <1>10, <1>11 DEF ReadInv

-----------------------------------------------------------------------------
\* A file that is read.

Got == Ended(text[fs[found.path]])

LEMMA GotListed ==
  ASSUME ReadInv, imp_ident(fs, found.path) # NoFile
  PROVE  /\ fs[found.path] \in Ino /\ imp_ident(fs, found.path) = fs[found.path]
         /\ Listed(Got) /\ Len(Got) \in Nat /\ DOMAIN Got = 1 .. Len(Got)
         /\ Len(Got) # 0 => Got[Len(Got)] = nl
<1>1. fs[found.path] \in Ino /\ imp_ident(fs, found.path) = fs[found.path]
  BY DEF ReadInv, ModulesAreThere, TypeOK, imp_ident
<1>2. Listed(text[fs[found.path]])  BY <1>1 DEF ReadInv, Lists
<1> QED  BY <1>1, <1>2, EndedListed, ListedFacts DEF Got

\* What reading does to the lists, whether or not it can be gone on with.
LEMMA ReadFileLists ==
  ASSUME ReadInv, ReadFile
  PROVE  /\ why = "nothing" /\ pc = "take"
         /\ UNCHANGED <<phase, left, found>> /\ UNCHANGED editorVars
         /\ imp_ident(fs, found.path) # NoFile /\ seen_at(found.ino) = {}
         /\ names' = Append(names, found.path) /\ offs' = Append(offs, Len(src))
         /\ fmod' = Append(fmod, me) /\ cmod' = Append(cmod, me)
         /\ cino' = Append(cino, found.ino)
         /\ \/ why' = "not one file name" /\ pc' = "done" /\ UNCHANGED <<src, mroot, bind>>
            \/ /\ src' = src \o Got /\ Landed(me) /\ UNCHANGED why
               /\ mroot' = IF phase = "roots" THEN mroot ELSE Append(mroot, found.path)
  BY DEF ReadFile, Got, ReadInv, InHand

\* The files are one more than they were, the lists kept beside them as long.
LEMMA ReadFileAppends ==
  ASSUME ReadInv, ReadFile
  PROVE  /\ Len(names) \in Nat
         /\ Len(offs) = Len(names) /\ Len(fmod) = Len(names) /\ Len(cino) = Len(names)
         /\ DOMAIN offs = 1 .. Len(names) /\ DOMAIN cino = 1 .. Len(names)
         /\ DOMAIN fmod = 1 .. Len(names) /\ DOMAIN names = 1 .. Len(names)
         /\ Listed(names') /\ Listed(offs') /\ Listed(fmod') /\ Listed(cino') /\ Listed(cmod')
         /\ Len(names') = Len(names) + 1 /\ Len(offs') = Len(names) + 1
         /\ Len(fmod') = Len(names) + 1 /\ Len(cino') = Len(names) + 1
         /\ Len(cmod') = Len(names) + 1
         /\ DOMAIN offs' = 1 .. Len(names) + 1 /\ DOMAIN cino' = 1 .. Len(names) + 1
         /\ DOMAIN fmod' = 1 .. Len(names) + 1 /\ DOMAIN names' = 1 .. Len(names) + 1
         /\ \A k \in 1 .. Len(names) :
              /\ names'[k] = names[k] /\ offs'[k] = offs[k] /\ fmod'[k] = fmod[k]
              /\ cino'[k] = cino[k]
         /\ names'[Len(names) + 1] = found.path /\ offs'[Len(names) + 1] = Len(src)
         /\ fmod'[Len(names) + 1] = me /\ cino'[Len(names) + 1] = found.ino
<1>1. /\ names' = Append(names, found.path) /\ offs' = Append(offs, Len(src))
      /\ fmod' = Append(fmod, me) /\ cmod' = Append(cmod, me)
      /\ cino' = Append(cino, found.ino)
  BY ReadFileLists
<1>2. /\ Listed(names) /\ Listed(offs) /\ Listed(fmod) /\ Listed(cino) /\ Listed(cmod)
      /\ Len(offs) = Len(names) /\ Len(fmod) = Len(names) /\ Len(cino) = Len(names)
      /\ cmod = fmod
  BY DEF ReadInv, Lists, InHand, ModulesAreThere, TypeOK
<1>3. /\ Listed(names') /\ Len(names') = Len(names) + 1
      /\ DOMAIN names' = 1 .. Len(names) + 1
      /\ \A k \in 1 .. Len(names) : names'[k] = names[k]
      /\ names'[Len(names) + 1] = found.path
  BY <1>1, <1>2, AppendListed
<1>4. /\ Listed(offs') /\ Len(offs') = Len(names) + 1
      /\ DOMAIN offs' = 1 .. Len(names) + 1
      /\ \A k \in 1 .. Len(names) : offs'[k] = offs[k]
      /\ offs'[Len(names) + 1] = Len(src)
  BY <1>1, <1>2, AppendListed
<1>5. /\ Listed(fmod') /\ Len(fmod') = Len(names) + 1
      /\ DOMAIN fmod' = 1 .. Len(names) + 1
      /\ \A k \in 1 .. Len(names) : fmod'[k] = fmod[k]
      /\ fmod'[Len(names) + 1] = me
  BY <1>1, <1>2, AppendListed
<1>6. /\ Listed(cino') /\ Len(cino') = Len(names) + 1
      /\ DOMAIN cino' = 1 .. Len(names) + 1
      /\ \A k \in 1 .. Len(names) : cino'[k] = cino[k]
      /\ cino'[Len(names) + 1] = found.ino
  BY <1>1, <1>2, AppendListed
<1>7. /\ Len(names) \in Nat /\ DOMAIN names = 1 .. Len(names)
      /\ DOMAIN offs = 1 .. Len(names) /\ DOMAIN cino = 1 .. Len(names)
      /\ DOMAIN fmod = 1 .. Len(names)
  BY <1>2, ListedFacts
<1>8. cmod' = fmod'  BY <1>1, <1>2
<1> QED  BY <1>2, <1>3, <1>4, <1>5, <1>6, <1>7, <1>8

\* The module of the file read is the one in hand, with room made for it.
LEMMA ReadFileModules ==
  ASSUME ReadInv, ReadFile
  PROVE  Lists' /\ InHand' /\ ModulesAreThere'
<1> DEFINE N == Len(names)
<1>1. /\ why = "nothing" /\ UNCHANGED <<phase, found>> /\ UNCHANGED editorVars
      /\ fmod' = Append(fmod, me) /\ cmod' = Append(cmod, me)
      /\ \/ why' = "not one file name" /\ pc' = "done" /\ UNCHANGED <<src, mroot, bind>>
         \/ /\ src' = src \o Got /\ Landed(me) /\ UNCHANGED why
            /\ mroot' = IF phase = "roots" THEN mroot ELSE Append(mroot, found.path)
  BY ReadFileLists
<1>2. TypeOK /\ Lists /\ InHand /\ ModulesAreThere
  BY DEF ReadInv, ModulesAreThere
<1>3. Listed(mroot) /\ Len(mroot) \in Nat /\ DOMAIN mroot = 1 .. Len(mroot)
  BY <1>2, ListedFacts DEF Lists
<1>4. Listed(src') /\ Listed(bind')
  <2>1. CASE UNCHANGED <<src, mroot, bind>>  BY <1>2, <2>1 DEF Lists
  <2>2. CASE src' = src \o Got /\ Landed(me)
    BY <1>2, <2>2, GotListed, ReadFileLists, ConcatListed, LandedBinds DEF Lists
  <2> QED  BY <1>1, <2>1, <2>2
<1>5. /\ Listed(mroot') /\ DOMAIN mroot' = 1 .. Len(mroot')
      /\ Len(mroot') \in Nat /\ Len(mroot') >= Len(mroot)
      /\ \A m \in DOMAIN mroot : mroot'[m] = mroot[m]
  <2>1. CASE mroot' = mroot  BY <1>3, <2>1
  <2>2. CASE mroot' = Append(mroot, found.path)
    <3>1. /\ Listed(mroot') /\ Len(mroot') = Len(mroot) + 1
          /\ DOMAIN mroot' = 1 .. Len(mroot) + 1
          /\ \A m \in 1 .. Len(mroot) : mroot'[m] = mroot[m]
      BY <1>3, <2>2, AppendListed
    <3> QED  BY <1>3, <3>1
  <2> QED  BY <1>1, <2>1, <2>2
<1>6. Lists'  BY <1>1, <1>2, <1>4, <1>5, ReadFileAppends DEF Lists, editorVars
<1>7. cmod' = fmod'  BY <1>1, <1>2 DEF InHand
<1>8. pc' \in {"next", "done"} /\ (why' # "nothing" => pc' = "done")
  BY <1>1, <1>2, LandedBinds DEF Lists
<1>9. InHand'  BY <1>2, <1>3, <1>5, <1>7, <1>8 DEF InHand
<1>10. why' = "nothing" => me \in 0 .. Len(mroot') - 1
  <2>1. CASE phase = "roots"
    BY <1>1, <1>2, <1>3, <2>1 DEF me, InHand
  <2>2. CASE phase # "roots"
    BY <1>1, <1>3, <2>2, AppendListed DEF me
  <2> QED  BY <2>1, <2>2
<1>11. why' = "nothing" => \A k \in DOMAIN fmod' : fmod'[k] \in 0 .. Len(mroot') - 1
  <2> SUFFICES ASSUME why' = "nothing", NEW k \in DOMAIN fmod'
               PROVE  fmod'[k] \in 0 .. Len(mroot') - 1
    OBVIOUS
  <2>1. CASE k = N + 1  BY <1>10, <2>1, ReadFileAppends
  <2>2. CASE k # N + 1
    <3>1. k \in DOMAIN fmod /\ fmod'[k] = fmod[k]  BY <2>2, ReadFileAppends
    <3>2. fmod[k] \in 0 .. Len(mroot) - 1  BY <1>1, <1>2, <3>1 DEF TypeOK
    <3> QED  BY <1>3, <1>5, <3>1, <3>2
  <2> QED  BY <2>1, <2>2
<1>12. TypeOK'
  BY <1>1, <1>2, <1>7, <1>8, <1>11, ReadFileAppends DEF TypeOK, editorVars
<1>13. ASSUME why' = "nothing", NEW m \in 2 .. Len(mroot')
       PROVE  \E k \in DOMAIN fmod' : fmod'[k] = m - 1 /\ names'[k] = mroot'[m]
  <2>1. CASE m \in 2 .. Len(mroot)
    <3>1. PICK k \in DOMAIN fmod : fmod[k] = m - 1 /\ names[k] = mroot[m]
      BY <1>1, <1>2, <2>1 DEF ModulesAreThere
    <3>2. k \in DOMAIN fmod' /\ fmod'[k] = fmod[k] /\ names'[k] = names[k]
      BY ReadFileAppends
    <3>3. mroot'[m] = mroot[m]  BY <1>3, <1>5, <2>1
    <3> QED  BY <3>1, <3>2, <3>3
  <2>2. CASE m \notin 2 .. Len(mroot)
    <3>1. mroot' = Append(mroot, found.path) /\ phase # "roots"
      BY <1>1, <1>13, <2>2
    <3>2. m = Len(mroot) + 1 /\ mroot'[m] = found.path
      BY <1>3, <2>2, <3>1, AppendListed
    <3>3. me = m - 1  BY <1>3, <3>1, <3>2 DEF me
    <3> QED  BY <3>2, <3>3, ReadFileAppends
  <2> QED  BY <2>1, <2>2
<1>14. ASSUME why' = "nothing"
       PROVE  \A k \in DOMAIN bind' : bind'[k].mod \in 0 .. Len(mroot') - 1
  <2>1. Landed(me)  BY <1>1, <1>14
  <2>2. \A k \in DOMAIN bind : bind[k].mod \in 0 .. Len(mroot) - 1
    BY <1>1, <1>2 DEF ModulesAreThere
  <2>3. \A k \in DOMAIN bind' :
          bind'[k].mod = me \/ (k \in DOMAIN bind /\ bind'[k].mod = bind[k].mod)
    BY <1>2, <2>1, LandedBinds DEF Lists
  <2> QED  BY <1>3, <1>5, <1>10, <1>14, <2>2, <2>3
<1> QED  BY <1>6, <1>9, <1>12, <1>13, <1>14 DEF ModulesAreThere

LEMMA ReadFileOnce ==
  ASSUME ReadInv, ReadFile
  PROVE  NumbersOnce' /\ NamesStand' /\ StillFound'
<1>1. \A k \in 1 .. Len(names) : cino[k] # found.ino
  BY ReadFileLists, ReadFileAppends DEF seen_at
<1>2. NumbersOnce  BY DEF ReadInv
<1>3. NumbersOnce'
  <2> SUFFICES ASSUME NEW j \in DOMAIN cino', NEW k \in DOMAIN cino', cino'[j] = cino'[k]
               PROVE  j = k
    BY DEF NumbersOnce
  <2> QED  BY <1>1, <1>2, ReadFileAppends DEF NumbersOnce
<1>4. pc' \in {"next", "done"}
  BY ReadFileLists, LandedBinds DEF ReadInv, Lists
<1>5. NamesStand'
  <2>1. UNCHANGED editorVars /\ pc = "take"  BY ReadFileLists DEF ReadFile
  <2> SUFFICES ASSUME busy # "anyhow", NEW k \in DOMAIN cino'
               PROVE  cino'[k] = imp_ident(fs, names'[k])
    BY <2>1 DEF NamesStand, editorVars
  <2>2. found.ino = imp_ident(fs, found.path)  BY <2>1 DEF ReadInv, StillFound
  <2>3. CASE k = Len(names) + 1  BY <2>2, <2>3, ReadFileAppends
  <2>4. CASE k # Len(names) + 1
    <3>1. k \in DOMAIN cino /\ cino'[k] = cino[k] /\ names'[k] = names[k]
      BY <2>4, ReadFileAppends
    <3> QED  BY <3>1 DEF ReadInv, NamesStand
  <2> QED  BY <2>3, <2>4
<1> QED  BY <1>3, <1>4, <1>5 DEF StillFound

\* The lines of the file read stand behind those of the files before it.
LEMMA ReadFileBlocks ==
  ASSUME ReadInv, ReadFile
  PROVE  Blocks'
<1>0. PICK N \in Nat :
        /\ N = Len(names)
        /\ DOMAIN offs = 1 .. N /\ DOMAIN cino = 1 .. N
        /\ Len(offs') = N + 1 /\ DOMAIN offs' = 1 .. N + 1 /\ DOMAIN cino' = 1 .. N + 1
        /\ \A k \in 1 .. N : offs'[k] = offs[k] /\ cino'[k] = cino[k]
        /\ offs'[N + 1] = Len(src) /\ cino'[N + 1] = found.ino
  BY ReadFileAppends
<1> SUFFICES ASSUME saves' = 0 PROVE Blocks'  BY DEF Blocks
<1>1. /\ saves = 0 /\ saves' = 0 /\ text' = text /\ why = "nothing" /\ pc = "take"
      /\ imp_ident(fs, found.path) # NoFile
  BY ReadFileLists DEF editorVars
<1>2. found.ino = fs[found.path] /\ found.ino \in Ino
  BY <1>0, <1>1, GotListed DEF ReadInv, StillFound
<1>3. Listed(src) /\ Len(src) \in Nat /\ DOMAIN src = 1 .. Len(src)
  BY ListedFacts DEF ReadInv, Lists
<1>4. /\ Listed(Got) /\ Len(Got) \in Nat /\ DOMAIN Got = 1 .. Len(Got)
      /\ Len(Got) # 0 => Got[Len(Got)] = nl
  BY <1>0, <1>1, GotListed
<1>5. \A k \in 1 .. N : TextOf(k)' = TextOf(k) /\ EndOf(k)' = EndOf(k)
  BY <1>0, <1>1 DEF TextOf, EndOf
<1>6. TextOf(N + 1)' = Got /\ EndOf(N + 1)' = Len(src) + Len(Got)
  BY <1>0, <1>1, <1>2 DEF TextOf, EndOf, Got
<1>7. /\ \A k \in 1 .. N : offs[k] \in 0 .. Len(src) /\ cino[k] \in Ino
      /\ \A k, l \in 1 .. N : k < l => EndOf(k) <= offs[l]
      /\ \A k \in 1 .. N : EndOf(k) <= Len(src) /\ \A i \in 1 .. Len(TextOf(k)) :
                                                     src[offs[k] + i] = TextOf(k)[i]
      /\ \A p \in DOMAIN src : \E k \in 1 .. N : offs[k] < p /\ p <= EndOf(k)
      /\ \A k \in 1 .. N : offs[k] # 0 => src[offs[k]] = nl
      /\ src # <<>> => src[Len(src)] = nl
  BY <1>0, <1>1 DEF ReadInv, Blocks
<1>8. \A k \in 1 .. N : Listed(TextOf(k)) /\ Len(TextOf(k)) \in Nat
  BY <1>0, <1>7, EndedListed, ListedFacts DEF TextOf, ReadInv, Lists
<1>9. \/ why' # "nothing" /\ src' = src
      \/ /\ Listed(src') /\ Len(src') = Len(src) + Len(Got)
         /\ DOMAIN src' = 1 .. Len(src) + Len(Got)
         /\ \A p \in 1 .. Len(src) : src'[p] = src[p]
         /\ \A i \in 1 .. Len(Got) : src'[Len(src) + i] = Got[i]
  <2>1. CASE why' = "not one file name" /\ src' = src  BY <2>1
  <2>2. CASE src' = src \o Got
    <3>1. /\ Listed(src \o Got)
          /\ Len(src \o Got) = Len(src) + Len(Got)
          /\ DOMAIN (src \o Got) = 1 .. Len(src) + Len(Got)
          /\ \A p \in 1 .. Len(src) : (src \o Got)[p] = src[p]
          /\ \A i \in 1 .. Len(Got) : (src \o Got)[Len(src) + i] = Got[i]
      <4> HIDE DEF Got
      <4> QED  BY <1>3, <1>4, ConcatListed
    <3> QED  BY <2>2, <3>1, Zenon
  <2>3. \/ why' = "not one file name" /\ src' = src
        \/ src' = src \o Got
    BY ReadFileLists
  <2> QED  BY <2>1, <2>2, <2>3
<1>10. /\ Len(src') \in Nat /\ Len(src') >= Len(src) /\ DOMAIN src' = 1 .. Len(src')
       /\ \A p \in 1 .. Len(src) : src'[p] = src[p]
  BY <1>0, <1>3, <1>4, <1>9
<1>11. \A k \in 1 .. N + 1 : k \in 1 .. N \/ k = N + 1  BY <1>0
<1>12. \A k \in DOMAIN offs' : offs'[k] \in 0 .. Len(src')
  <2>1. \A k \in 1 .. N : offs'[k] \in 0 .. Len(src')
    BY <1>0, <1>3, <1>7, <1>10
  <2>2. offs'[N + 1] \in 0 .. Len(src')  BY <1>0, <1>3, <1>10
  <2> QED  BY <1>0, <1>11, <2>1, <2>2
<1>13. \A k \in DOMAIN cino' : cino'[k] \in Ino
  BY <1>0, <1>2, <1>7, <1>11
<1>14. ASSUME NEW k \in DOMAIN offs', NEW l \in DOMAIN offs', k < l
       PROVE  EndOf(k)' <= offs'[l]
  <2>1. k \in 1 .. N  BY <1>0, <1>14
  <2>2. CASE l = N + 1
    BY <1>0, <1>5, <1>7, <2>1, <2>2
  <2>3. CASE l \in 1 .. N
    BY <1>0, <1>5, <1>7, <1>14, <2>1, <2>3
  <2> QED  BY <1>0, <1>11, <2>2, <2>3
<1>15. ASSUME NEW k \in DOMAIN offs'
       PROVE  \/ EndOf(k)' <= Len(src') /\ \A i \in 1 .. Len(TextOf(k)') :
                                             src'[offs'[k] + i] = TextOf(k)'[i]
              \/ why' # "nothing" /\ k = Len(offs') /\ offs'[k] = Len(src')
  <2>1. CASE k \in 1 .. N
    <3>1. EndOf(k)' <= Len(src')
      <4>1. EndOf(k) <= Len(src)  BY <1>0, <1>7, <2>1
      <4>2. EndOf(k) \in Int  BY <1>0, <1>7, <1>8, <2>1 DEF EndOf
      <4> QED  BY <1>0, <1>3, <1>5, <1>10, <2>1, <4>1, <4>2
    <3>2. ASSUME NEW i \in 1 .. Len(TextOf(k)')
          PROVE  src'[offs'[k] + i] = TextOf(k)'[i]
      <4>1. TextOf(k)' = TextOf(k) /\ offs'[k] = offs[k]  BY <1>0, <1>5, <2>1
      <4>2. offs[k] + i \in 1 .. Len(src)
        BY <1>0, <1>3, <1>7, <1>8, <2>1, <4>1 DEF EndOf
      <4> QED  BY <1>0, <1>7, <1>10, <2>1, <4>1, <4>2
    <3> QED  BY <3>1, <3>2
  <2>2. CASE k = N + 1
    <3>0. /\ offs'[k] = Len(src) /\ k = Len(offs')
          /\ TextOf(k)' = Got /\ EndOf(k)' = Len(src) + Len(Got)
      BY <1>0, <1>1, <1>2, <2>2 DEF TextOf, EndOf, Got
    <3>1. CASE why' # "nothing" /\ src' = src  BY <3>0, <3>1
    <3>2. CASE /\ Len(src') = Len(src) + Len(Got)
               /\ \A i \in 1 .. Len(Got) : src'[Len(src) + i] = Got[i]
      <4>1. EndOf(k)' <= Len(src')  BY <1>3, <1>4, <3>0, <3>2
      <4>2. \A i \in 1 .. Len(TextOf(k)') : src'[offs'[k] + i] = TextOf(k)'[i]
        BY <3>0, <3>2, Zenon
      <4> QED  BY <4>1, <4>2
    <3> QED  BY <1>0, <1>9, <3>1, <3>2
  <2> QED  BY <1>0, <1>11, <2>1, <2>2
<1>16. ASSUME NEW p \in DOMAIN src'
       PROVE  \E k \in DOMAIN offs' : offs'[k] < p /\ p <= EndOf(k)'
  <2>1. CASE p \in DOMAIN src
    <3>1. PICK k \in 1 .. N : offs[k] < p /\ p <= EndOf(k)  BY <1>0, <1>7, <2>1
    <3>2. k \in DOMAIN offs' /\ offs'[k] = offs[k] /\ EndOf(k)' = EndOf(k)
      BY <1>0, <1>5
    <3> QED  BY <3>1, <3>2
  <2>2. CASE p \notin DOMAIN src
    <3>1. p > Len(src) /\ p <= Len(src) + Len(Got)
      BY <1>0, <1>3, <1>9, <2>2
    <3>2. /\ N + 1 \in DOMAIN offs' /\ offs'[N + 1] = Len(src)
          /\ EndOf(N + 1)' = Len(src) + Len(Got)
      BY <1>0, <1>6
    <3> QED  BY <3>1, <3>2
  <2> QED  BY <2>1, <2>2
<1>17. ASSUME NEW k \in DOMAIN offs', offs'[k] # 0
       PROVE  src'[offs'[k]] = nl
  <2>1. CASE k \in 1 .. N
    <3>1. offs'[k] = offs[k] /\ offs[k] \in 1 .. Len(src)
      BY <1>0, <1>3, <1>7, <1>17, <2>1
    <3> QED  BY <1>0, <1>7, <1>10, <1>17, <2>1, <3>1
  <2>2. CASE k = N + 1
    <3>1. offs'[k] = Len(src) /\ Len(src) # 0  BY <1>0, <1>17, <2>2
    <3>2. src # <<>>  BY <3>1, EmptyListed
    <3> QED  BY <1>0, <1>3, <1>7, <1>10, <3>1, <3>2
  <2> QED  BY <1>0, <1>11, <2>1, <2>2
<1>18. ASSUME src' # <<>> PROVE src'[Len(src')] = nl
  <2>1. CASE src' = src  BY <1>0, <1>7, <1>18, <2>1
  <2>2. CASE /\ Listed(src') /\ Len(src') = Len(src) + Len(Got)
             /\ \A p \in 1 .. Len(src) : src'[p] = src[p]
             /\ \A i \in 1 .. Len(Got) : src'[Len(src) + i] = Got[i]
    <3>1. CASE Len(Got) # 0  BY <1>0, <1>3, <1>4, <2>2, <3>1
    <3>2. CASE Len(Got) = 0
      <4>1. Len(src') = Len(src)  BY <1>0, <1>3, <2>2, <3>2
      <4>2. Len(src) # 0
        <5>1. src' \in Seq({src'[k] : k \in DOMAIN src'})  BY <2>2 DEF Listed
        <5> QED  BY <1>0, <1>18, <4>1, <5>1, EmptySeq
      <4>3. src # <<>>  BY <4>2, EmptyListed
      <4> QED  BY <1>0, <1>3, <1>7, <2>2, <4>1, <4>2, <4>3
    <3> QED  BY <3>1, <3>2
  <2> QED  BY <1>0, <1>9, <2>1, <2>2
<1> QED  BY <1>0, <1>12, <1>13, <1>14, <1>15, <1>16, <1>17, <1>18 DEF Blocks

LEMMA ReadFileRead == ReadInv /\ ReadFile => ReadInv'
  BY ReadFileModules, ReadFileOnce, ReadFileBlocks DEF ReadInv

LEMMA StutterRead == ReadInv /\ UNCHANGED vars => ReadInv'
  BY DEF vars, ReadInv, Lists, InHand, ModulesAreThere, TypeOK, NumbersOnce,
         NamesStand, StillFound, Blocks, EndOf, TextOf

\* The invariant holds whatever is read, and however it is saved meanwhile.
LEMMA ReadInvariant == Spec => []ReadInv
<1>1. Init => ReadInv  BY InitRead
<1>2. ReadInv /\ [Next]_vars => ReadInv'
  BY SaveRead, FindRead, KnownRead, ReadFileRead, StutterRead DEF Next, Reader
<1> QED  BY <1>1, <1>2, PTL DEF Spec

-----------------------------------------------------------------------------
\* The theorems.

\* However many names a file has and whatever rings it is in, the program has it
\* under one of them, though it is saved over while it is found and opened: as
\* long as no save puts another file in its place (Reader.seen_at).
THEOREM OneNameEach == Spec => []OneNameOfAFile
<1>1. ReadInv => OneNameOfAFile
  <2> SUFFICES ASSUME ReadInv, busy # "anyhow",
                      NEW j \in DOMAIN names, NEW k \in DOMAIN names,
                      imp_ident(fs, names[j]) = imp_ident(fs, names[k])
               PROVE  j = k
    BY DEF OneNameOfAFile
  <2>1. DOMAIN names = DOMAIN cino
    BY ListedFacts DEF ReadInv, Lists, ModulesAreThere, TypeOK
  <2>2. cino[j] = cino[k]  BY <2>1 DEF ReadInv, NamesStand
  <2> QED  BY <2>1, <2>2 DEF ReadInv, NumbersOnce
<1> QED  BY <1>1, ReadInvariant, PTL

\* Every module is rooted in a file that was read into it and every binding
\* followed reaches one, through rings and readings given up (take_module).
THEOREM ModulesStand == Spec => []ModulesAreThere
  BY ReadInvariant, PTL DEF ReadInv

\* The file that is looked up for a line is the one the line was read from, and
\* so is its module (diag.file_of, Parser.mod_at).
LEMMA BlocksTellLines == ReadInv => LinesKnowTheirFile
<1> SUFFICES ASSUME ReadInv, saves = 0, NEW p \in DOMAIN src
             PROVE  LET k == FileAt(p)
                    IN /\ src[p] = Ended(text[cino[k]])[p - offs[k]]
                       /\ fmod[k] = cmod[k]
                       /\ offs[k] # 0 => src[offs[k]] = nl
  BY DEF LinesKnowTheirFile
<1>1. p \in 1 .. Len(src) /\ Len(src) \in Nat
  BY ListedFacts DEF ReadInv, Lists
<1>2. PICK k \in DOMAIN offs : offs[k] < p /\ p <= EndOf(k)
  BY DEF ReadInv, Blocks
<1>3. /\ DOMAIN offs = 1 .. Len(offs) /\ Len(offs) \in Nat
      /\ DOMAIN offs = DOMAIN cino /\ cmod = fmod
  BY ListedFacts DEF ReadInv, Lists, InHand, ModulesAreThere, TypeOK
<1>4. offs[k] \in Nat /\ Len(TextOf(k)) \in Nat
  <2>1. offs[k] \in Nat /\ cino[k] \in Ino  BY <1>1, <1>3 DEF ReadInv, Blocks
  <2> QED  BY <2>1, EndedListed, ListedFacts DEF TextOf, ReadInv, Lists
<1>5. \A l \in DOMAIN offs : offs[l] \in Int /\ (k < l => p <= offs[l])
  <2> SUFFICES ASSUME NEW l \in DOMAIN offs
               PROVE  offs[l] \in Int /\ (k < l => p <= offs[l])
    OBVIOUS
  <2>1. offs[l] \in Int /\ (k < l => EndOf(k) <= offs[l])  BY <1>1 DEF ReadInv, Blocks
  <2>2. EndOf(k) \in Int  BY <1>4 DEF EndOf
  <2> QED  BY <1>1, <1>2, <2>1, <2>2
<1>6. ASSUME NEW j \in DOMAIN offs,
             j = 1 \/ offs[j] < p, \A l \in DOMAIN offs : l > j => offs[l] >= p
      PROVE  j = k
  <2>1. j \in Nat /\ k \in Nat /\ k >= 1  BY <1>3
  <2>2. ~(j < k)  BY <1>1, <1>2, <1>4, <1>6, <2>1
  <2>3. ~(k < j)  BY <1>1, <1>5, <1>6, <2>1
  <2> QED  BY <2>1, <2>2, <2>3
<1>7. FileAt(p) = k
  <2>1. \A l \in DOMAIN offs : l > k => offs[l] >= p  BY <1>1, <1>3, <1>5
  <2> QED  BY <1>2, <1>6, <2>1 DEF FileAt
<1>8. src[p] = TextOf(k)[p - offs[k]]
  <2>1. offs[k] # Len(src)  BY <1>1, <1>2, <1>4
  <2>2. \A i \in 1 .. Len(TextOf(k)) : src[offs[k] + i] = TextOf(k)[i]
    BY <2>1 DEF ReadInv, Blocks
  <2>3. p - offs[k] \in 1 .. Len(TextOf(k)) /\ offs[k] + (p - offs[k]) = p
    BY <1>1, <1>2, <1>4 DEF EndOf
  <2> QED  BY <2>2, <2>3
<1>9. offs[k] # 0 => src[offs[k]] = nl  BY DEF ReadInv, Blocks
<1> QED  BY <1>3, <1>7, <1>8, <1>9 DEF TextOf

\* Wherever files meet in the one text, a line is of the file it is said to be of.
THEOREM LinesAreTold == Spec => []LinesKnowTheirFile
  BY ReadInvariant, BlocksTellLines, PTL

-----------------------------------------------------------------------------
(***************************************************************************)
(* The compiler's reader answers what the files say: for every tree in     *)
(* which the names of a file are in one directory, and whatever binds      *)
(* what, the files, the modules and the bindings it ends with are the ones *)
(* the tree has, and it refuses exactly where the tree has a name that is  *)
(* nobody's or a binding that is not one.                                  *)
(***************************************************************************)

-----------------------------------------------------------------------------
\* Lists that are written as functions.

LEMMA FunctionListed ==
  ASSUME NEW s, NEW m \in Nat, s = [k \in 1 .. m |-> s[k]]
  PROVE  Listed(s) /\ Len(s) = m /\ DOMAIN s = 1 .. m
<1> DEFINE R == {s[k] : k \in 1 .. m}
<1>1. s \in [1 .. m -> R]  OBVIOUS
<1>2. s \in Seq(R)  BY <1>1, SeqDef
<1>3. DOMAIN s = 1 .. m  OBVIOUS
<1>4. Len(s) \in Nat /\ DOMAIN s = 1 .. Len(s)  BY <1>2, LenProperties
<1>5. Len(s) = m  BY <1>3, <1>4
<1> QED  BY <1>2, <1>3, <1>5, SeqListed

LEMMA TwoListed ==
  ASSUME NEW x, NEW y
  PROVE  Listed(<<x, y>>)
<1>1. <<x, y>> \in Seq({x, y})  OBVIOUS
<1> QED  BY <1>1, SeqListed

-----------------------------------------------------------------------------
\* The numbers of a finite set by their rank.

Rank(S, p) == Cardinality({q \in S : q <= p})

LEMMA RankFacts ==
  ASSUME NEW m \in Nat, NEW S \in SUBSET (1 .. m)
  PROVE  /\ Cardinality(S) \in Nat
         /\ \A p \in S : Rank(S, p) \in 1 .. Cardinality(S)
         /\ \A k \in 1 .. Cardinality(S) : \E p \in S : Rank(S, p) = k
         /\ \A p, q \in S : Rank(S, p) = Rank(S, q) => p = q
<1> DEFINE r == [p \in S |-> Rank(S, p)]
           upto(p) == {q \in S : q <= p}
<1>1. IsFiniteSet(S) /\ Cardinality(S) \in Nat
  <2>1. IsFiniteSet(1 .. m)  BY FS_Interval
  <2> QED  BY <2>1, FS_Subset, FS_CardinalityType
<1>2. ASSUME NEW p \in S
      PROVE  /\ IsFiniteSet(upto(p)) /\ Cardinality(upto(p)) \in Nat
             /\ Cardinality(upto(p)) <= Cardinality(S) /\ Cardinality(upto(p)) # 0
  <2>1. upto(p) \in SUBSET S /\ p \in upto(p)  OBVIOUS
  <2>2. IsFiniteSet(upto(p)) /\ Cardinality(upto(p)) <= Cardinality(S)
    BY <1>1, <2>1, FS_Subset
  <2>3. Cardinality(upto(p)) \in Nat  BY <2>2, FS_CardinalityType
  <2>4. Cardinality(upto(p)) # 0  BY <2>1, <2>2, FS_EmptySet
  <2> QED  BY <2>2, <2>3, <2>4
<1>3. \A p \in S : Rank(S, p) = Cardinality(upto(p))  BY DEF Rank
<1>4. \A p \in S : Rank(S, p) \in 1 .. Cardinality(S)
  <2> SUFFICES ASSUME NEW p \in S PROVE Rank(S, p) \in 1 .. Cardinality(S)  OBVIOUS
  <2> HIDE DEF upto
  <2> QED  BY <1>1, <1>2, <1>3
<1>5. ASSUME NEW p \in S, NEW q \in S, Rank(S, p) = Rank(S, q), p < q
      PROVE  FALSE
  <2>1. upto(p) \in SUBSET upto(q) /\ q \in upto(q) /\ q \notin upto(p)
    <3>1. S \subseteq Int /\ p \in Int /\ q \in Int  OBVIOUS
    <3>2. \A x \in S : x <= p => x <= q  BY <1>5, <3>1
    <3>3. p <= q /\ q <= q /\ ~(q <= p)  BY <1>5, <3>1
    <3> QED  BY <3>2, <3>3
  <2>2. Cardinality(upto(p)) = Cardinality(upto(q))  BY <1>3, <1>5
  <2> HIDE DEF upto
  <2>3. upto(p) = upto(q)  BY <1>2, <2>1, <2>2, FS_Subset
  <2> QED  BY <2>1, <2>3
<1>6. \A p, q \in S : Rank(S, p) = Rank(S, q) => p = q
  <2> SUFFICES ASSUME NEW p \in S, NEW q \in S, Rank(S, p) = Rank(S, q) PROVE p = q
    OBVIOUS
  <2> QED  BY <1>5
<1>7. r \in Injection(S, 1 .. Cardinality(S))
  BY <1>4, <1>6 DEF Injection, IsInjective
<1>8. IsFiniteSet(1 .. Cardinality(S)) /\ Cardinality(1 .. Cardinality(S)) = Cardinality(S)
  BY <1>1, FS_Interval
<1>9. r \in Surjection(S, 1 .. Cardinality(S))
  <2> HIDE DEF r
  <2> QED  BY <1>7, <1>8, FS_Injection
<1>10. \A k \in 1 .. Cardinality(S) : \E p \in S : Rank(S, p) = k
  BY <1>9 DEF Surjection
<1> QED  BY <1>1, <1>4, <1>6, <1>10

-----------------------------------------------------------------------------
\* What a text binds, in order, is what it binds.

BindsAt(t) == {p \in DOMAIN t : t[p].kind = "bind"}

\* The lines of t that stand at the places S, in order.
LinesAt(t, S) == [k \in 1 .. Cardinality(S) |-> t[CHOOSE p \in S : Rank(S, p) = k]]

LEMMA BindsFacts ==
  ASSUME NEW t, Listed(t)
  PROVE  /\ BindsAt(t) \in SUBSET (1 .. Len(t)) /\ Len(t) \in Nat
         /\ Cardinality(BindsAt(t)) \in Nat
         /\ BindsOf(t) = LinesAt(t, BindsAt(t))
<1>1. DOMAIN t = 1 .. Len(t) /\ Len(t) \in Nat  BY ListedFacts
<1>2. BindsAt(t) \in SUBSET (1 .. Len(t))  BY <1>1 DEF BindsAt
<1>3. Cardinality(BindsAt(t)) \in Nat  BY <1>1, <1>2, RankFacts
<1> QED  BY <1>1, <1>2, <1>3 DEF BindsOf, BindsAt, LinesAt, Rank

LEMMA BindsListed ==
  ASSUME NEW t, Listed(t)
  PROVE  /\ Listed(BindsOf(t))
         /\ {BindsOf(t)[k] : k \in DOMAIN BindsOf(t)} = BoundBy(t)
<1> DEFINE at == BindsAt(t)
           nth(k) == CHOOSE p \in at : Rank(at, p) = k
<1>1. /\ at \in SUBSET (1 .. Len(t)) /\ Len(t) \in Nat /\ Cardinality(at) \in Nat
      /\ BindsOf(t) = [k \in 1 .. Cardinality(at) |-> t[nth(k)]]
  BY BindsFacts DEF LinesAt
<1>2. /\ \A p \in at : Rank(at, p) \in 1 .. Cardinality(at)
      /\ \A k \in 1 .. Cardinality(at) : \E p \in at : Rank(at, p) = k
      /\ \A p, q \in at : Rank(at, p) = Rank(at, q) => p = q
  BY <1>1, RankFacts
<1>3. BoundBy(t) = {t[p] : p \in at}  BY DEF BoundBy, BindsAt
<1> HIDE DEF at
<1>4. \A k \in 1 .. Cardinality(at) : nth(k) \in at  BY <1>2
<1>5. \A p \in at : nth(Rank(at, p)) = p  BY <1>2
<1> HIDE DEF nth
<1>6. Listed(BindsOf(t)) /\ DOMAIN BindsOf(t) = 1 .. Cardinality(at)
  BY <1>1, FunctionListed
<1>7. \A k \in 1 .. Cardinality(at) : BindsOf(t)[k] = t[nth(k)]  BY <1>1
<1>8. {BindsOf(t)[k] : k \in DOMAIN BindsOf(t)} = {t[p] : p \in at}
  <2>1. ASSUME NEW k \in 1 .. Cardinality(at)
        PROVE  \E p \in at : BindsOf(t)[k] = t[p]
    BY <1>4, <1>7
  <2>2. ASSUME NEW p \in at
        PROVE  \E k \in 1 .. Cardinality(at) : BindsOf(t)[k] = t[p]
    BY <1>2, <1>5, <1>7
  <2> QED  BY <1>6, <2>1, <2>2
<1> QED  BY <1>3, <1>6, <1>8

\* The end put to the last line binds nothing and stops nobody.
LEMMA EndedBinds ==
  ASSUME NEW t, Listed(t)
  PROVE  BindsOf(Ended(t)) = BindsOf(t) /\ (Readable(Ended(t)) <=> Readable(t))
<1> DEFINE e == Append(t, nl)
<1>1. CASE ~(t # <<>> /\ t[Len(t)] # nl)  BY <1>1 DEF Ended
<1>2. CASE t # <<>> /\ t[Len(t)] # nl
  <2>1. Ended(t) = e  BY <1>2 DEF Ended
  <2>2. /\ DOMAIN e = 1 .. Len(t) + 1 /\ DOMAIN t = 1 .. Len(t) /\ Len(t) \in Nat
        /\ \A k \in 1 .. Len(t) : e[k] = t[k]
        /\ e[Len(t) + 1] = nl /\ Listed(e)
    BY AppendListed, ListedFacts
  <2> HIDE DEF e
  <2>3. nl.kind = "nl"  BY DEF nl
  <2>4. \A k \in DOMAIN e : k \in DOMAIN t \/ k = Len(t) + 1  BY <2>2
  <2>5. BindsAt(e) = BindsAt(t)
    BY <2>2, <2>3, <2>4 DEF BindsAt
  <2>6. Readable(e) <=> Readable(t)
    BY <2>2, <2>3, <2>4 DEF Readable
  <2>7. BindsOf(e) = BindsOf(t)
    <3> DEFINE at == BindsAt(t)
               nth(k) == CHOOSE p \in at : Rank(at, p) = k
    <3>1. /\ Cardinality(at) \in Nat /\ at \in SUBSET (1 .. Len(t))
          /\ BindsOf(t) = [k \in 1 .. Cardinality(at) |-> t[nth(k)]]
          /\ BindsOf(e) = [k \in 1 .. Cardinality(at) |-> e[nth(k)]]
      <4>1. BindsOf(t) = LinesAt(t, at) /\ BindsOf(e) = LinesAt(e, at)
        BY <2>2, <2>5, BindsFacts
      <4> QED  BY <4>1, BindsFacts DEF LinesAt
    <3>2. \A k \in 1 .. Cardinality(at) : \E p \in at : Rank(at, p) = k
      BY <2>2, <3>1, RankFacts
    <3> HIDE DEF at
    <3>3. \A k \in 1 .. Cardinality(at) : nth(k) \in at  BY <3>2
    <3> HIDE DEF nth
    <3>4. \A k \in 1 .. Cardinality(at) : e[nth(k)] = t[nth(k)]
      BY <2>2, <3>1, <3>3
    <3> QED  BY <3>1, <3>4
  <2> QED  BY <2>1, <2>6, <2>7
<1> QED  BY <1>1, <1>2

\* A set of numbers that is not empty has a least one.
LEMMA Least ==
  ASSUME NEW S \in SUBSET Nat, S # {}
  PROVE  \E m \in S : \A k \in S : m <= k
<1>1. PICK m \in S : \A k \in S : ~(<<k, m>> \in OpToRel(<, Nat))
  BY WFMin, NatLessThanWellFounded
<1>2. \A k \in S : ~(k < m)  BY <1>1 DEF OpToRel
<1> QED  BY <1>2

\* The reader gets to the end of a text that it can read.
LEMMA ReadsToTheEnd ==
  ASSUME NEW t, Listed(t)
  PROVE  /\ ReadUpTo(t) \in 0 .. Len(t) /\ Len(t) \in Nat
         /\ ReadUpTo(t) = Len(t) <=> Readable(t)
<1> DEFINE stops(k) == /\ \A l \in 1 .. k : t[l].kind # "bad"
                       /\ IF k = Len(t) THEN TRUE ELSE t[k + 1].kind = "bad"
           bads == {k \in 1 .. Len(t) : t[k].kind = "bad"}
<1>1. DOMAIN t = 1 .. Len(t) /\ Len(t) \in Nat  BY ListedFacts
<1>2. \E k \in 0 .. Len(t) : stops(k)
  <2>1. CASE bads = {}
    <3>1. \A l \in 1 .. Len(t) : t[l].kind # "bad"  BY <2>1
    <3>2. stops(Len(t))  BY <3>1
    <3>3. Len(t) \in 0 .. Len(t)  BY <1>1
    <3> HIDE DEF stops
    <3> QED  BY <3>2, <3>3
  <2>2. CASE bads # {}
    <3>1. PICK m \in bads : \A k \in bads : m <= k
      <4>1. bads \in SUBSET Nat  BY <1>1
      <4> QED  BY <2>2, <4>1, Least
    <3>2. m - 1 \in 0 .. Len(t) /\ (m - 1) + 1 = m /\ m - 1 # Len(t)  BY <1>1
    <3>3. \A l \in 1 .. m - 1 : t[l].kind # "bad"  BY <1>1, <3>1
    <3>4. stops(m - 1)  BY <3>2, <3>3
    <3> HIDE DEF stops
    <3> QED  BY <3>2, <3>4
  <2> QED  BY <2>1, <2>2
<1>3. ReadUpTo(t) = CHOOSE k \in 0 .. Len(t) : stops(k)  BY DEF ReadUpTo
<1>4. ReadUpTo(t) \in 0 .. Len(t) /\ stops(ReadUpTo(t))
  <2> HIDE DEF stops
  <2> QED  BY <1>2, <1>3
<1>5. ASSUME Readable(t) PROVE ReadUpTo(t) = Len(t)
  <2> SUFFICES ASSUME ReadUpTo(t) # Len(t) PROVE FALSE  OBVIOUS
  <2>1. t[ReadUpTo(t) + 1].kind = "bad"  BY <1>4
  <2>2. ReadUpTo(t) + 1 \in DOMAIN t  BY <1>1, <1>4
  <2> QED  BY <1>5, <2>1, <2>2 DEF Readable
<1>6. ASSUME ReadUpTo(t) = Len(t) PROVE Readable(t)
  BY <1>1, <1>4, <1>6 DEF Readable
<1> QED  BY <1>1, <1>4, <1>5, <1>6

-----------------------------------------------------------------------------
\* Looking for a name one path at a time finds what the name resolves to.

Hits(f, s) == {k \in DOMAIN s : imp_ident(f, s[k]) # NoFile}
FirstHit(f, s) ==
  IF Hits(f, s) = {} THEN NoFile
  ELSE imp_ident(f, s[CHOOSE k \in Hits(f, s) : \A l \in Hits(f, s) : k <= l])

LEMMA ResolveIsFirst ==
  \A f, name, base : Resolve(f, name, base) = FirstHit(f, Candidates(name, base))
  BY DEF Resolve, FirstHit, Hits

LEMMA FirstAt ==
  ASSUME NEW f, NEW s, Hits(f, s) \in SUBSET Nat,
         NEW m \in Hits(f, s), \A k \in Hits(f, s) : m <= k
  PROVE  FirstHit(f, s) = imp_ident(f, s[m])
<1>1. \A k \in Hits(f, s) : (\A l \in Hits(f, s) : k <= l) => k = m  OBVIOUS
<1>2. (CHOOSE k \in Hits(f, s) : \A l \in Hits(f, s) : k <= l) = m  BY <1>1
<1> QED  BY <1>2 DEF FirstHit

LEMMA TailListed ==
  ASSUME NEW s, Listed(s), s # <<>>
  PROVE  /\ Listed(Tail(s)) /\ Len(s) \in Nat \ {0} /\ DOMAIN s = 1 .. Len(s)
         /\ DOMAIN Tail(s) = 1 .. Len(s) - 1
         /\ \A k \in 1 .. Len(s) - 1 : Tail(s)[k] = s[k + 1]
         /\ Head(s) = s[1]
<1> DEFINE S == {s[k] : k \in DOMAIN s}
<1>1. s \in Seq(S)  BY DEF Listed
<1> HIDE DEF S
<1>2. Len(s) \in Nat \ {0} /\ DOMAIN s = 1 .. Len(s)
  BY <1>1, EmptySeq, LenProperties
<1>3. /\ Tail(s) \in Seq(S) /\ Len(Tail(s)) = Len(s) - 1
      /\ \A k \in 1 .. Len(Tail(s)) : Tail(s)[k] = s[k + 1]
  BY <1>1, HeadTailProperties
<1>4. DOMAIN Tail(s) = 1 .. Len(s) - 1  BY <1>3, LenProperties
<1>5. Head(s) = s[1]  BY <1>1
<1> QED  BY <1>2, <1>3, <1>4, <1>5, SeqListed

LEMMA FirstOfNone ==
  ASSUME NEW f
  PROVE  FirstHit(f, <<>>) = NoFile
<1>1. DOMAIN <<>> = {}  BY EmptyListed, ListedFacts
<1>2. Hits(f, <<>>) = {}  BY <1>1 DEF Hits
<1> QED  BY <1>2 DEF FirstHit

LEMMA FirstOfMore ==
  ASSUME NEW f, NEW s, Listed(s), s # <<>>
  PROVE  FirstHit(f, s) = IF imp_ident(f, Head(s)) # NoFile THEN imp_ident(f, Head(s))
                          ELSE FirstHit(f, Tail(s))
<1> DEFINE H == Hits(f, s)
           T == Hits(f, Tail(s))
<1>1. /\ Listed(Tail(s)) /\ Len(s) \in Nat \ {0} /\ DOMAIN s = 1 .. Len(s)
      /\ DOMAIN Tail(s) = 1 .. Len(s) - 1
      /\ \A k \in 1 .. Len(s) - 1 : Tail(s)[k] = s[k + 1]
      /\ Head(s) = s[1]
  BY TailListed
<1>2. H \in SUBSET Nat /\ T \in SUBSET Nat /\ \A k \in H : 1 <= k
  BY <1>1 DEF Hits
<1>3. CASE imp_ident(f, Head(s)) # NoFile
  <2>1. 1 \in H  BY <1>1, <1>3 DEF Hits
  <2> QED  BY <1>1, <1>2, <1>3, <2>1, FirstAt
<1>4. CASE imp_ident(f, Head(s)) = NoFile
  <2>1. \A k \in 1 .. Len(s) - 1 : k \in T <=> k + 1 \in H
    BY <1>1 DEF Hits
  <2>2. \A k \in H : k - 1 \in 1 .. Len(s) - 1 /\ (k - 1) + 1 = k
    BY <1>1, <1>4 DEF Hits
  <2>3. \A k \in T : k \in 1 .. Len(s) - 1  BY <1>1 DEF Hits
  <2> HIDE DEF H, T
  <2>4. CASE T = {}
    <3>1. H = {}  BY <2>1, <2>2, <2>4
    <3> QED  BY <1>4, <2>4, <3>1 DEF FirstHit, H, T
  <2>5. CASE T # {}
    <3>1. PICK m \in T : \A k \in T : m <= k  BY <1>2, <2>5, Least
    <3>2. m + 1 \in H /\ m \in 1 .. Len(s) - 1  BY <2>1, <2>3, <3>1
    <3>3. ASSUME NEW k \in H PROVE m + 1 <= k
      <4>1. k - 1 \in T  BY <2>1, <2>2
      <4>2. m <= k - 1  BY <3>1, <4>1
      <4> QED  BY <1>2, <3>2, <4>2
    <3>4. FirstHit(f, s) = imp_ident(f, s[m + 1])
      BY <1>2, <3>2, <3>3, FirstAt DEF H
    <3>5. FirstHit(f, Tail(s)) = imp_ident(f, Tail(s)[m])
      BY <1>2, <3>1, FirstAt DEF T
    <3> QED  BY <1>1, <1>4, <3>2, <3>4, <3>5
  <2> QED  BY <2>4, <2>5
<1> QED  BY <1>3, <1>4

LEMMA CandidatesListed ==
  ASSUME NEW name, NEW base
  PROVE  Listed(Candidates(name, base))
<1>1. \A where : Listed(imp_try(where, name))  BY TwoListed DEF imp_try
<1> DEFINE dirs == <<base>> \o SearchPath \o <<LibDir>>
           paths == [k \in 1 .. 2 * Len(dirs) |->
                       imp_try(dirs[(k + 1) \div 2], name)[IF k % 2 = 1 THEN 1 ELSE 2]]
<1>2. Listed(dirs)  BY FilesAssumption, OneListed, ConcatListed
<1>3. 2 * Len(dirs) \in Nat  BY <1>2, ListedFacts
<1>4. Listed(paths)
  <2> HIDE DEF dirs
  <2>1. paths = [k \in 1 .. 2 * Len(dirs) |-> paths[k]]  OBVIOUS
  <2> HIDE DEF paths
  <2> QED  BY <1>3, <2>1, FunctionListed
<1> QED  BY <1>1, <1>4 DEF Candidates

-----------------------------------------------------------------------------
\* What the files of a program are: the roots, and what a file of it reaches.

Closed(f, t, r, F) ==
  /\ F \subseteq Ino \cup {NoFile} /\ RootFiles(f, r) \subseteq F
  /\ \A g \in F \cap {f[p] : p \in DOMAIN f} : \A b \in BoundBy(t[g]) : Reaches(f, g, b) \in F

LEMMA ReachedIff ==
  ASSUME NEW f, NEW t, NEW r, NEW g
  PROVE  g \in Reached(f, t, r) <=>
           g \in Ino \cup {NoFile} /\ \A F : Closed(f, t, r, F) => g \in F
  BY DEF Reached, Closed

LEMMA RootsReached ==
  ASSUME NEW f, NEW t, NEW r, NEW i \in DOMAIN r, \A p \in DOMAIN f : f[p] \in Ino
  PROVE  imp_ident(f, r[i]) \in Reached(f, t, r)
<1>1. imp_ident(f, r[i]) \in RootFiles(f, r)  BY DEF RootFiles
<1>2. imp_ident(f, r[i]) \in Ino \cup {NoFile}  BY DEF imp_ident
<1> QED  BY <1>1, <1>2, ReachedIff DEF Closed

LEMMA BoundReached ==
  ASSUME NEW f, NEW t, NEW r, NEW g \in Reached(f, t, r), NEW p \in DOMAIN f, f[p] = g,
         NEW b \in BoundBy(t[g]), Reaches(f, g, b) \in Ino \cup {NoFile}
  PROVE  Reaches(f, g, b) \in Reached(f, t, r)
<1>1. \A F : Closed(f, t, r, F) => g \in F  BY ReachedIff
<1>2. \A F : Closed(f, t, r, F) => Reaches(f, g, b) \in F  BY <1>1 DEF Closed
<1> QED  BY <1>2, ReachedIff

LEMMA ResolveIsFile ==
  ASSUME NEW f, NEW name, NEW base, \A p \in DOMAIN f : f[p] \in Ino
  PROVE  Resolve(f, name, base) \in Ino \cup {NoFile}
<1>1. \A p : imp_ident(f, p) \in Ino \cup {NoFile}  BY DEF imp_ident
<1> QED  BY <1>1, ResolveIsFirst DEF FirstHit

-----------------------------------------------------------------------------
\* The inductive invariant.  While nobody saves a file and nothing stopped the
\* reading, what was read is what the tree says of the files read, and what is
\* in hand is the next thing that was asked for.

\* What the name of binding j finds.
Asked(j) == Resolve(fs, pend[j].file, pend[j].from.dir)

Held ==
  /\ \A p \in DOMAIN fs : fs[p] \in Ino
  /\ OneDirectory(fs)
  /\ Listed(roots) /\ Len(roots) >= 1
  /\ Listed(pend)

Turn ==
  /\ n \in Nat \ {0}
  /\ phase = "roots" => /\ bind = <<>> /\ pc # "probe" /\ n <= Len(roots) + 1
                        /\ pc = "take" => n <= Len(roots) /\ found.path = roots[n]
  /\ phase = "bindings" => /\ n = Len(bind) + 1 /\ n <= Len(pend) + 1
                           /\ pc \in {"probe", "take"} => n <= Len(pend)

\* The first of the paths that are left is the first there was.
Looked ==
  phase = "bindings" =>
    /\ pc = "probe" => Listed(left) /\ FirstHit(fs, left) = Asked(n)
    /\ pc = "take" => found.ino = Asked(n) /\ found.ino # NoFile

FilesRead ==
  \A k \in DOMAIN cino :
    /\ names[k] \in DOMAIN fs /\ fs[names[k]] = cino[k]
    /\ cino[k] \in Reached(fs, text, roots) /\ Readable(text[cino[k]])
    /\ cmod[k] = 0 <=> cino[k] \in RootFiles(fs, roots)
    /\ \A j \in DOMAIN cino : cmod[j] = cmod[k] /\ cmod[k] # 0 => j = k

RootsRead ==
  \A i \in DOMAIN roots : phase = "bindings" \/ i < n =>
    \E k \in DOMAIN cino : cino[k] = imp_ident(fs, roots[i])

\* What is pending is what the files read bind, no less and no more.
PendIs(j, k, b) ==
  pend[j] = [name |-> b.name, file |-> b.file, from |-> names[k], owner |-> cmod[k]]
Met ==
  /\ \A j \in DOMAIN pend :
       \E k \in DOMAIN cino : \E b \in BoundBy(text[cino[k]]) : PendIs(j, k, b)
  /\ \A k \in DOMAIN cino : \A b \in BoundBy(text[cino[k]]) :
       \E j \in DOMAIN pend : PendIs(j, k, b)

\* What was followed reached the file its name finds.
Followed ==
  \A j \in DOMAIN bind :
    /\ bind[j].name = pend[j].name /\ bind[j].owner = pend[j].owner
    /\ \E k \in DOMAIN cino : cino[k] = Asked(j) /\ cmod[k] = bind[j].mod

ReadSoFar == Turn /\ Looked /\ FilesRead /\ RootsRead /\ Met /\ Followed
AnswerInv ==
  /\ ReadInv
  /\ saves = 0 => Held /\ (why = "nothing" => ReadSoFar)

LEMMA InitAnswer == LinksStay /\ Init => AnswerInv
<1> SUFFICES ASSUME LinksStay, Init PROVE AnswerInv  OBVIOUS
<1>1. PICK tree \in Trees : fs = tree.fs /\ roots = tree.roots  BY DEF Init
<1>2. /\ \A p \in DOMAIN fs : fs[p] \in Ino
      /\ OneDirectory(fs) /\ Listed(roots) /\ roots # <<>>
  BY <1>1, TreesAssumption DEF LinksStay
<1>3. Len(roots) >= 1 /\ Len(roots) \in Nat
  <2>1. roots \in Seq({roots[k] : k \in DOMAIN roots})  BY <1>2 DEF Listed
  <2> QED  BY <1>2, <2>1, EmptySeq, LenProperties
<1>4. DOMAIN <<>> = {}  BY EmptyListed, ListedFacts
<1>5. Listed(pend) /\ DOMAIN pend = {} /\ DOMAIN cino = {} /\ DOMAIN bind = {}
  BY <1>4, EmptyListed, Zenon DEF Init
<1>6. pc = "next" /\ phase = "roots" /\ n = 1 /\ bind = <<>>  BY DEF Init
<1>7. Held  BY <1>2, <1>3, <1>5 DEF Held
<1>8. Turn /\ Looked  BY <1>3, <1>6 DEF Turn, Looked
<1>9. RootsRead
  <2>1. DOMAIN roots = 1 .. Len(roots)  BY <1>2, ListedFacts
  <2> QED  BY <1>6, <2>1 DEF RootsRead
<1>10. FilesRead /\ Met /\ Followed  BY <1>5 DEF FilesRead, Met, Followed
<1> QED  BY <1>7, <1>8, <1>9, <1>10, InitRead DEF AnswerInv, ReadSoFar

\* Once a file was saved nothing is said of the answer any more.
LEMMA SaveAnswer == AnswerInv /\ Save => AnswerInv'
<1> SUFFICES ASSUME AnswerInv, Save PROVE AnswerInv'  OBVIOUS
<1>1. ReadInv'  BY SaveRead DEF AnswerInv
<1>2. saves' = saves + 1  BY DEF Save, SaveInPlace, SaveByRename
<1>3. saves \in Nat
  <2>1. MaxSaves \in Nat /\ saves \in 0 .. MaxSaves
    BY TreesAssumption DEF AnswerInv, ReadInv, ModulesAreThere, TypeOK
  <2> QED  BY <2>1
<1>4. saves' # 0  BY <1>2, <1>3
<1> QED  BY <1>1, <1>4 DEF AnswerInv

-----------------------------------------------------------------------------
\* Looking for a file.

\* A step of the looking has to show only what it changes.
LEMMA LookAnswer ==
  ASSUME AnswerInv, saves = 0, why = "nothing", ReadInv',
         UNCHANGED editorVars, UNCHANGED programVars,
         why' = "nothing" => Turn' /\ Looked' /\ RootsRead'
  PROVE  AnswerInv'
<1> USE DEF editorVars, programVars
<1>1. Held /\ FilesRead /\ Met /\ Followed  BY DEF AnswerInv, ReadSoFar
<1>2. Held'  BY <1>1 DEF Held, OneDirectory
<1>3. FilesRead'  BY <1>1 DEF FilesRead
<1>4. Met'  BY <1>1 DEF Met, PendIs
<1>5. Followed'  BY <1>1 DEF Followed, Asked
<1> QED  BY <1>2, <1>3, <1>4, <1>5 DEF AnswerInv, ReadSoFar

LEMMA AskedFirst ==
  ASSUME NEW j
  PROVE  Asked(j) = FirstHit(fs, Candidates(pend[j].file, pend[j].from.dir))
  BY ResolveIsFirst DEF Asked

LEMMA FindAnswer ==
  ASSUME AnswerInv, saves = 0, why = "nothing",
         FindRoot \/ RootsDone \/ FindBinding \/ Probe \/ NotFound
           \/ BindingsDone \/ CannotOpen
  PROVE  AnswerInv'
<1> USE DEF editorVars, programVars
<1>0. /\ ReadInv' /\ Held /\ Turn /\ Looked /\ RootsRead
      /\ phase \in {"roots", "bindings"}
  BY FindRead DEF AnswerInv, ReadSoFar, ReadInv, ModulesAreThere, TypeOK
<1>1. Len(roots) \in Nat /\ DOMAIN roots = 1 .. Len(roots) /\ Len(pend) \in Nat
  BY <1>0, ListedFacts DEF Held
<1>2. CASE FindRoot
  <2>1. Turn' /\ Looked'  BY <1>0, <1>2 DEF FindRoot, Turn, Looked
  <2>2. RootsRead'  BY <1>0, <1>2 DEF FindRoot, RootsRead
  <2> QED  BY <1>0, <1>2, <2>1, <2>2, LookAnswer DEF FindRoot
<1>3. CASE RootsDone
  <2>1. bind = <<>> /\ Len(bind) = 0  BY <1>0, <1>3, EmptyListed DEF RootsDone, Turn
  <2>2. Turn' /\ Looked'  BY <1>0, <1>1, <1>3, <2>1 DEF RootsDone, Turn, Looked
  <2>3. \A i \in DOMAIN roots : i < n  BY <1>0, <1>1, <1>3 DEF RootsDone, Turn
  <2>4. RootsRead'  BY <1>0, <1>3, <2>3 DEF RootsDone, RootsRead
  <2> QED  BY <1>0, <1>3, <2>2, <2>4, LookAnswer DEF RootsDone
<1>4. CASE FindBinding
  <2>1. Turn'  BY <1>0, <1>4 DEF FindBinding, Turn
  <2>2. Looked'
    <3>1. left' = Candidates(pend[n].file, pend[n].from.dir) /\ pc' = "probe"
          /\ UNCHANGED <<fs, pend, n>>
      BY <1>4 DEF FindBinding
    <3>2. FirstHit(fs, left') = Asked(n)  BY <3>1, AskedFirst
    <3>3. Listed(left')  BY <3>1, CandidatesListed
    <3>4. FirstHit(fs', left') = FirstHit(fs, left') /\ Asked(n)' = Asked(n)
      BY <3>1 DEF Asked
    <3> QED  BY <3>1, <3>2, <3>3, <3>4 DEF Looked
  <2>3. RootsRead'  BY <1>0, <1>4 DEF FindBinding, RootsRead
  <2> QED  BY <1>0, <1>4, <2>1, <2>2, <2>3, LookAnswer DEF FindBinding
<1>5. CASE Probe
  <2>1. phase = "bindings" /\ pc = "probe" /\ left # <<>> /\ left' = Tail(left)
        /\ UNCHANGED <<fs, pend, n, phase>>
    BY <1>0, <1>5 DEF Probe, Turn
  <2>2. Turn'  BY <1>0, <1>5, <2>1 DEF Probe, Turn
  <2>3. Listed(left) /\ FirstHit(fs, left) = Asked(n)  BY <1>0, <2>1 DEF Looked
  <2>4. /\ Listed(left')
        /\ Asked(n) = IF imp_ident(fs, Head(left)) # NoFile
                      THEN imp_ident(fs, Head(left)) ELSE FirstHit(fs, left')
    BY <2>1, <2>3, TailListed, FirstOfMore
  <2>5. Asked(n)' = Asked(n) /\ FirstHit(fs', left') = FirstHit(fs, left')
    BY <2>1 DEF Asked
  <2>6. CASE imp_ident(fs, Head(left)) # NoFile
    <3>1. pc' = "take" /\ found'.ino = imp_ident(fs, Head(left))
      BY <1>5, <2>6 DEF Probe
    <3> QED
      <4>1. Looked'  BY <2>4, <2>5, <2>6, <3>1 DEF Looked
      <4>2. RootsRead'  BY <1>0, <1>5 DEF Probe, RootsRead
      <4> QED  BY <1>0, <1>5, <2>2, <4>1, <4>2, LookAnswer DEF Probe
  <2>7. CASE imp_ident(fs, Head(left)) = NoFile
    <3>1. pc' = "probe"  BY <1>5, <2>1, <2>7 DEF Probe
    <3>2. Looked'  BY <2>4, <2>5, <2>7, <3>1 DEF Looked
    <3>3. RootsRead'  BY <1>0, <1>5 DEF Probe, RootsRead
    <3> QED  BY <1>0, <1>5, <2>2, <3>2, <3>3, LookAnswer DEF Probe
  <2> QED  BY <2>6, <2>7
<1>6. CASE NotFound  BY <1>0, <1>6, LookAnswer DEF NotFound
<1>7. CASE BindingsDone
  <2>1. Turn' /\ Looked' /\ RootsRead'
    BY <1>0, <1>7 DEF BindingsDone, Turn, Looked, RootsRead
  <2> QED  BY <1>0, <1>7, <2>1, LookAnswer DEF BindingsDone
<1>8. CASE CannotOpen  BY <1>0, <1>8, LookAnswer DEF CannotOpen
<1> QED  BY <1>2, <1>3, <1>4, <1>5, <1>6, <1>7, <1>8, FindRead

-----------------------------------------------------------------------------
\* The file in hand is in a module.

\* What landing does, wherever the file's module was told from.
LEMMA LandedAnswer ==
  ASSUME AnswerInv, saves = 0, why = "nothing", pc = "take",
         NEW m, Landed(m), phase' = phase, UNCHANGED editorVars,
         NEW k, k \in DOMAIN cino', cino'[k] = found.ino, cmod'[k] = m,
         \A l \in DOMAIN cino : /\ l \in DOMAIN cino'
                                /\ cino'[l] = cino[l] /\ cmod'[l] = cmod[l],
         Len(pend') \in Nat, Len(pend') >= Len(pend),
         \A j \in DOMAIN pend : pend'[j] = pend[j]
  PROVE  Turn' /\ Looked' /\ RootsRead' /\ Followed'
<1> USE DEF editorVars
<1>0. /\ ReadInv /\ Held /\ Turn /\ Looked /\ RootsRead /\ Followed
      /\ StillFound /\ phase \in {"roots", "bindings"} /\ Listed(bind)
  BY DEF AnswerInv, ReadSoFar, ReadInv, ModulesAreThere, TypeOK, Lists
<1>1. /\ Len(roots) \in Nat /\ DOMAIN roots = 1 .. Len(roots)
      /\ Len(pend) \in Nat /\ DOMAIN pend = 1 .. Len(pend)
      /\ Len(bind) \in Nat /\ DOMAIN bind = 1 .. Len(bind)
  BY <1>0, ListedFacts DEF Held
<1>2. n' = n + 1 /\ pc' = "next" /\ n \in Nat \ {0}
  BY <1>0 DEF Landed, Turn
<1>3. Looked'  BY <1>2 DEF Looked
<1>4. CASE phase = "roots"
  <2>1. n <= Len(roots) /\ found.path = roots[n] /\ bind' = bind /\ bind = <<>>
    BY <1>0, <1>4 DEF Turn, Landed
  <2>2. found.ino = imp_ident(fs, roots[n])  BY <1>0, <2>1 DEF StillFound
  <2>3. Turn'  BY <1>1, <1>2, <1>4, <2>1 DEF Turn
  <2>4. ASSUME NEW i \in DOMAIN roots, i < n + 1
        PROVE  \E l \in DOMAIN cino' : cino'[l] = imp_ident(fs, roots[i])
    <3>1. CASE i = n  BY <2>2, <3>1
    <3>2. CASE i < n  BY <1>0, <3>2 DEF RootsRead
    <3> QED  BY <1>1, <1>2, <2>4, <3>1, <3>2
  <2>5. RootsRead'  BY <1>2, <1>4, <2>4 DEF RootsRead
  <2>6. DOMAIN bind' = {}  BY <2>1, EmptyListed, ListedFacts
  <2>7. Followed'  BY <2>6 DEF Followed
  <2> QED  BY <1>3, <2>3, <2>5, <2>7
<1>5. CASE phase = "bindings"
  <2> DEFINE b == [name |-> pend[n].name, mod |-> m, owner |-> pend[n].owner]
  <2>1. /\ n = Len(bind) + 1 /\ n <= Len(pend) /\ found.ino = Asked(n)
        /\ bind' = Append(bind, b)
    BY <1>0, <1>5 DEF Turn, Looked, Landed
  <2>2. b.name = pend[n].name /\ b.mod = m /\ b.owner = pend[n].owner  OBVIOUS
  <2> HIDE DEF b
  <2>3. /\ Len(bind') = Len(bind) + 1 /\ DOMAIN bind' = 1 .. Len(bind) + 1
        /\ \A j \in 1 .. Len(bind) : bind'[j] = bind[j]
        /\ bind'[Len(bind) + 1] = b
    BY <1>0, <2>1, AppendListed
  <2>4. Turn'  BY <1>1, <1>2, <1>5, <2>1, <2>3 DEF Turn
  <2>5. RootsRead'  BY <1>0, <1>5 DEF RootsRead
  <2>6. ASSUME NEW j \in 1 .. Len(bind) + 1
        PROVE  /\ bind'[j].name = pend'[j].name /\ bind'[j].owner = pend'[j].owner
               /\ \E l \in DOMAIN cino' : cino'[l] = Asked(j)' /\ cmod'[l] = bind'[j].mod
    <3>1. j \in DOMAIN pend /\ pend'[j] = pend[j]  BY <1>1, <2>1
    <3>2. Asked(j)' = Asked(j)  BY <3>1 DEF Asked
    <3>3. CASE j = n  BY <2>1, <2>2, <2>3, <3>1, <3>2, <3>3
    <3>4. CASE j \in DOMAIN bind
      BY <1>0, <1>1, <2>3, <3>1, <3>2, <3>4 DEF Followed
    <3> QED  BY <1>1, <2>1, <3>3, <3>4
  <2>7. Followed'  BY <2>3, <2>6 DEF Followed
  <2> QED  BY <1>3, <2>4, <2>5, <2>7
<1> QED  BY <1>0, <1>4, <1>5

LEMMA KnownAnswer ==
  ASSUME AnswerInv, saves = 0, Known
  PROVE  AnswerInv'
<1> USE DEF editorVars
<1>1. PICK k \in seen_at(found.ino) : Landed(cmod[k])  BY DEF Known
<1>2. /\ UNCHANGED <<phase, found, why>> /\ UNCHANGED editorVars
      /\ UNCHANGED <<names, cino, cmod, pend>>
      /\ why = "nothing" /\ pc = "take"
  BY DEF Known, AnswerInv, ReadInv, InHand
<1>3. Held /\ ReadSoFar /\ ReadInv'  BY <1>2, KnownRead DEF AnswerInv
<1>4. Len(pend) \in Nat  BY <1>3, ListedFacts DEF Held
<1>5. k \in DOMAIN cino /\ cino[k] = found.ino  BY DEF seen_at
<1>6. Turn' /\ Looked' /\ RootsRead' /\ Followed'
  <2> DEFINE m == cmod[k]
  <2>1. Landed(m)  BY <1>1
  <2>2. cmod'[k] = m  BY <1>2
  <2> HIDE DEF m
  <2> QED  BY <1>2, <1>4, <1>5, <2>1, <2>2, LandedAnswer
<1>7. Held'  BY <1>2, <1>3 DEF Held, OneDirectory
<1>8. FilesRead'  BY <1>2, <1>3 DEF ReadSoFar, FilesRead
<1>9. Met'  BY <1>2, <1>3 DEF ReadSoFar, Met, PendIs
<1> QED  BY <1>3, <1>6, <1>7, <1>8, <1>9 DEF AnswerInv, ReadSoFar

-----------------------------------------------------------------------------
\* What is read of a file is what the tree says of it.

\* A binding is looked for where the file that was read stands.
LEMMA AskedIs ==
  ASSUME Held, NEW j, NEW k, NEW b, PendIs(j, k, b),
         names[k] \in DOMAIN fs, fs[names[k]] = cino[k]
  PROVE  Asked(j) = Reaches(fs, cino[k], b)
<1> DEFINE first == CHOOSE p \in DOMAIN fs : fs[p] = cino[k]
<1>1. first \in DOMAIN fs /\ fs[first] = cino[k]  OBVIOUS
<1> HIDE DEF first
<1>2. first.dir = names[k].dir  BY <1>1 DEF Held, OneDirectory
<1>3. DirOf(fs, cino[k]) = names[k].dir  BY <1>2 DEF DirOf, first
<1>4. pend[j].file = b.file /\ pend[j].from = names[k]  BY DEF PendIs
<1> QED  BY <1>3, <1>4 DEF Asked, Reaches

\* What is asked for is in the program.
LEMMA AskedReached ==
  ASSUME Held, FilesRead, Met, NEW j \in DOMAIN pend
  PROVE  Asked(j) \in Reached(fs, text, roots)
<1>1. PICK k \in DOMAIN cino : \E b \in BoundBy(text[cino[k]]) : PendIs(j, k, b)
  BY DEF Met
<1>2. PICK b \in BoundBy(text[cino[k]]) : PendIs(j, k, b)  BY <1>1
<1>3. /\ names[k] \in DOMAIN fs /\ fs[names[k]] = cino[k]
      /\ cino[k] \in Reached(fs, text, roots)
  BY DEF FilesRead
<1>4. Asked(j) = Reaches(fs, cino[k], b)  BY <1>2, <1>3, AskedIs
<1>5. \A p \in DOMAIN fs : fs[p] \in Ino  BY DEF Held
<1>6. Reaches(fs, cino[k], b) \in Ino \cup {NoFile}  BY <1>5, ResolveIsFile DEF Reaches
<1> QED  BY <1>3, <1>4, <1>5, <1>6, BoundReached

\* What is in hand is in the program.
LEMMA HandReached ==
  ASSUME AnswerInv, saves = 0, why = "nothing", pc = "take"
  PROVE  found.ino \in Reached(fs, text, roots)
<1>1. /\ Held /\ Turn /\ Looked /\ FilesRead /\ Met /\ StillFound
      /\ phase \in {"roots", "bindings"}
  BY DEF AnswerInv, ReadSoFar, ReadInv, ModulesAreThere, TypeOK
<1>2. /\ Len(roots) \in Nat /\ DOMAIN roots = 1 .. Len(roots)
      /\ Len(pend) \in Nat /\ DOMAIN pend = 1 .. Len(pend)
  BY <1>1, ListedFacts DEF Held
<1>3. CASE phase = "roots"
  <2>1. n \in DOMAIN roots /\ found.ino = imp_ident(fs, roots[n])
    BY <1>1, <1>2, <1>3 DEF Turn, StillFound
  <2> QED  BY <1>1, <2>1, RootsReached DEF Held
<1>4. CASE phase = "bindings"
  <2>1. n \in DOMAIN pend /\ found.ino = Asked(n)
    BY <1>1, <1>2, <1>4 DEF Turn, Looked
  <2> QED  BY <1>1, <2>1, AskedReached
<1> QED  BY <1>1, <1>3, <1>4

LEMMA PendingFacts ==
  ASSUME NEW t, Listed(t), NEW m
  PROVE  /\ Listed(Pending(t, m))
         /\ \A j \in DOMAIN Pending(t, m) : \E b \in BoundBy(t) :
              Pending(t, m)[j] =
                [name |-> b.name, file |-> b.file, from |-> found.path, owner |-> m]
         /\ \A b \in BoundBy(t) : \E j \in DOMAIN Pending(t, m) :
              Pending(t, m)[j] =
                [name |-> b.name, file |-> b.file, from |-> found.path, owner |-> m]
<1> DEFINE met == BindsOf(t)
           as(b) == [name |-> b.name, file |-> b.file, from |-> found.path, owner |-> m]
           pending == [k \in DOMAIN met |-> as(met[k])]
<1>1. Listed(met) /\ {met[k] : k \in DOMAIN met} = BoundBy(t)  BY BindsListed
<1>2. Pending(t, m) = pending  BY DEF Pending
<1> HIDE DEF met, as
<1>3. DOMAIN met = 1 .. Len(met) /\ Len(met) \in Nat  BY <1>1, ListedFacts
<1>4. Listed(pending)
  <2>1. pending = [k \in 1 .. Len(met) |-> pending[k]]  BY <1>3
  <2> HIDE DEF pending
  <2> QED  BY <1>3, <2>1, FunctionListed
<1>5. \A j \in DOMAIN met : pending[j] = as(met[j]) /\ met[j] \in BoundBy(t)
  BY <1>1
<1>6. \A b \in BoundBy(t) : \E j \in DOMAIN met : pending[j] = as(b)
  BY <1>1
<1>7. DOMAIN pending = DOMAIN met  OBVIOUS
<1> HIDE DEF pending
<1>8. /\ \A j \in DOMAIN pending : \E b \in BoundBy(t) : pending[j] = as(b)
      /\ \A b \in BoundBy(t) : \E j \in DOMAIN pending : pending[j] = as(b)
  BY <1>5, <1>6, <1>7
<1> QED  BY <1>2, <1>4, <1>8 DEF as

LEMMA SameBound ==
  ASSUME NEW t, Listed(t)
  PROVE  BoundBy(Ended(t)) = BoundBy(t)
<1>1. Listed(Ended(t)) /\ BindsOf(Ended(t)) = BindsOf(t)  BY EndedListed, EndedBinds
<1> QED  BY <1>1, BindsListed

\* What was read was read to its end, or the reading was given up.
LEMMA ReadFilePend ==
  ASSUME ReadInv, ReadFile
  PROVE  /\ \E s : Listed(s) /\ pend' = pend \o Pending(s, me)
         /\ \/ why' = "nothing" /\ pend' = pend \o Pending(Got, me) /\ Landed(me)
               /\ Readable(text[fs[found.path]])
            \/ why' # "nothing" /\ pc' = "done" /\ ~Readable(text[fs[found.path]])
<1> DEFINE k == ReadUpTo(Got)
<1>1. /\ why = "nothing" /\ imp_ident(fs, found.path) # NoFile
      /\ pend' = pend \o Pending(SubSeq(Got, 1, k), me)
      /\ k < Len(Got) => why' = "not one file name" /\ pc' = "done"
      /\ ~(k < Len(Got)) => Landed(me) /\ UNCHANGED why
  BY DEF ReadFile, Got, ReadInv, InHand
<1>2. fs[found.path] \in Ino /\ Listed(Got) /\ Len(Got) \in Nat
  BY <1>1, GotListed
<1>3. k \in 0 .. Len(Got) /\ (k = Len(Got) <=> Readable(Got))
  BY <1>2, ReadsToTheEnd
<1>4. Readable(Got) <=> Readable(text[fs[found.path]])
  <2>1. Listed(text[fs[found.path]])  BY <1>2 DEF ReadInv, Lists
  <2> QED  BY <2>1, EndedBinds DEF Got
<1> HIDE DEF k
<1>5. Got \in Seq({Got[i] : i \in DOMAIN Got})  BY <1>2 DEF Listed
<1>6. Listed(SubSeq(Got, 1, k))
  <2> DEFINE S == {Got[i] : i \in DOMAIN Got}
  <2>1. DOMAIN Got = 1 .. Len(Got)  BY <1>2, ListedFacts
  <2>2. \A i \in 1 .. k : Got[i] \in S
    <3>1. \A i \in 1 .. k : i \in 1 .. Len(Got)
      <4>1. k \in 0 .. Len(Got) /\ Len(Got) \in Nat  BY <1>2, <1>3
      <4> QED  BY <4>1
    <3>2. \A i \in 1 .. k : i \in DOMAIN Got  BY <2>1, <3>1
    <3> QED  BY <3>2, Zenon
  <2> HIDE DEF S
  <2>3. SubSeq(Got, 1, k) \in Seq(S)
    BY <1>2, <1>3, <1>5, <2>2, SubSeqProperties DEF S
  <2> QED  BY <2>3, SeqListed
<1>7. CASE k = Len(Got)
  <2>1. SubSeq(Got, 1, k) = Got
    <3>1. SubSeq(Got, 1, Len(Got)) = Got  BY <1>5, SubSeqFull
    <3> QED  BY <1>7, <3>1
  <2>2. ~(k < Len(Got))  BY <1>2, <1>7
  <2>3. pend' = pend \o Pending(Got, me)  BY <1>1, <2>1
  <2>4. Readable(text[fs[found.path]])  BY <1>3, <1>4, <1>7
  <2> QED  BY <1>1, <1>2, <2>2, <2>3, <2>4, Zenon
<1>8. CASE k # Len(Got)
  <2>1. k < Len(Got)  BY <1>2, <1>3, <1>8
  <2>2. why' # "nothing" /\ pc' = "done"  BY <1>1, <2>1
  <2>3. ~Readable(text[fs[found.path]])  BY <1>3, <1>4, <1>8
  <2> QED  BY <1>1, <1>6, <2>2, <2>3, Zenon
<1> QED  BY <1>7, <1>8

\* The files read with the one in hand among them.
LEMMA ReadFileFiles ==
  ASSUME AnswerInv, saves = 0, ReadFile, Readable(text[fs[found.path]])
  PROVE  FilesRead'
<1>0. PICK N \in Nat :
        /\ N = Len(names)
        /\ DOMAIN cino = 1 .. N /\ DOMAIN cino' = 1 .. N + 1
        /\ \A k \in 1 .. N : names'[k] = names[k] /\ cino'[k] = cino[k] /\ cmod'[k] = cmod[k]
        /\ names'[N + 1] = found.path /\ cino'[N + 1] = found.ino /\ cmod'[N + 1] = me
  <2>1. cmod = fmod /\ cmod' = fmod'
    BY ReadFileModules DEF AnswerInv, ReadInv, InHand
  <2> QED  BY <2>1, ReadFileAppends DEF AnswerInv
<1>1. /\ ReadInv /\ why = "nothing" /\ pc = "take"
      /\ seen_at(found.ino) = {} /\ imp_ident(fs, found.path) # NoFile
      /\ UNCHANGED <<fs, text, roots>>
  BY ReadFileLists DEF AnswerInv, editorVars
<1>2. /\ Held /\ Turn /\ FilesRead /\ RootsRead /\ StillFound
      /\ phase \in {"roots", "bindings"} /\ TypeOK /\ Len(mroot) >= 1
  BY <1>1 DEF AnswerInv, ReadSoFar, ReadInv, ModulesAreThere, TypeOK, InHand
<1>3. fs[found.path] = found.ino /\ found.path \in DOMAIN fs
  BY <1>0, <1>1, <1>2, GotListed DEF StillFound, imp_ident
<1>4. found.ino \in Reached(fs, text, roots)
  BY <1>0, <1>1, HandReached
<1>5. me = 0 <=> found.ino \in RootFiles(fs, roots)
  <2>1. DOMAIN roots = 1 .. Len(roots) /\ Len(roots) \in Nat
    BY <1>2, ListedFacts DEF Held
  <2>2. CASE phase = "roots"
    <3>1. n \in DOMAIN roots /\ found.ino = imp_ident(fs, roots[n])
      BY <1>0, <1>1, <1>2, <2>1, <2>2 DEF Turn, StillFound
    <3> QED  BY <2>2, <3>1 DEF me, RootFiles
  <2>3. CASE phase = "bindings"
    <3>1. \A k \in DOMAIN cino : cino[k] # found.ino  BY <1>1 DEF seen_at
    <3>2. found.ino \notin RootFiles(fs, roots)
      BY <1>2, <2>3, <3>1 DEF RootsRead, RootFiles
    <3>3. me # 0  BY <1>2, <2>3 DEF me
    <3> QED  BY <3>2, <3>3
  <2> QED  BY <1>2, <2>2, <2>3
<1>6. me # 0 => \A k \in 1 .. N : cmod[k] # me
  <2> SUFFICES ASSUME me # 0, NEW k \in 1 .. N PROVE cmod[k] # me  OBVIOUS
  <2>1. me = Len(mroot)  BY DEF me
  <2>2. cmod[k] \in 0 .. Len(mroot) - 1  BY <1>0, <1>1, ModuleInRange
  <2>3. Len(mroot) \in Nat  BY <1>1, ListedFacts DEF ReadInv, Lists
  <2> QED  BY <2>1, <2>2, <2>3
<1>7. \A k \in 1 .. N + 1 : k \in 1 .. N \/ k = N + 1  BY <1>0
<1>8. ASSUME NEW k \in 1 .. N + 1
      PROVE  /\ names'[k] \in DOMAIN fs /\ fs[names'[k]] = cino'[k]
             /\ cino'[k] \in Reached(fs, text, roots) /\ Readable(text[cino'[k]])
             /\ cmod'[k] = 0 <=> cino'[k] \in RootFiles(fs, roots)
  <2>1. CASE k \in 1 .. N  BY <1>0, <1>2, <2>1 DEF FilesRead
  <2>2. CASE k = N + 1
    BY <1>0, <1>3, <1>4, <1>5, <2>2
  <2> QED  BY <1>7, <2>1, <2>2
<1>9. ASSUME NEW k \in 1 .. N + 1, NEW j \in 1 .. N + 1, cmod'[j] = cmod'[k], cmod'[k] # 0
      PROVE  j = k
  <2>1. CASE k \in 1 .. N /\ j \in 1 .. N
    BY <1>0, <1>2, <1>9, <2>1 DEF FilesRead
  <2>2. CASE k = N + 1 /\ j \in 1 .. N  BY <1>0, <1>6, <1>9, <2>2
  <2>3. CASE j = N + 1 /\ k \in 1 .. N  BY <1>0, <1>6, <1>9, <2>3
  <2> QED  BY <1>7, <2>1, <2>2, <2>3
<1> QED  BY <1>0, <1>1, <1>8, <1>9 DEF FilesRead

\* What is pending with what the file in hand binds.
LEMMA ReadFileMet ==
  ASSUME AnswerInv, saves = 0, ReadFile, pend' = pend \o Pending(Got, me)
  PROVE  Met' /\ Listed(pend') /\ Len(pend') >= Len(pend)
         /\ \A j \in DOMAIN pend : pend'[j] = pend[j]
<1>0. PICK N \in Nat :
        /\ N = Len(names)
        /\ DOMAIN cino = 1 .. N /\ DOMAIN cino' = 1 .. N + 1
        /\ \A k \in 1 .. N : names'[k] = names[k] /\ cino'[k] = cino[k] /\ cmod'[k] = cmod[k]
        /\ names'[N + 1] = found.path /\ cino'[N + 1] = found.ino /\ cmod'[N + 1] = me
  <2>1. cmod = fmod /\ cmod' = fmod'
    BY ReadFileModules DEF AnswerInv, ReadInv, InHand
  <2> QED  BY <2>1, ReadFileAppends DEF AnswerInv
<1>1. /\ ReadInv /\ why = "nothing" /\ pc = "take"
      /\ imp_ident(fs, found.path) # NoFile /\ text' = text
  BY ReadFileLists DEF AnswerInv, editorVars
<1>2. Held /\ Met /\ StillFound
  BY <1>1 DEF AnswerInv, ReadSoFar, ReadInv
<1>3. /\ fs[found.path] = found.ino /\ found.ino \in Ino
      /\ Listed(Got) /\ Listed(text[found.ino])
  BY <1>0, <1>1, <1>2, GotListed DEF StillFound, ReadInv, Lists
<1>4. BoundBy(Got) = BoundBy(text[found.ino])  BY <1>3, SameBound DEF Got
<1> DEFINE more == Pending(Got, me)
           as(b) == [name |-> b.name, file |-> b.file, from |-> found.path, owner |-> me]
<1>5. /\ Listed(more)
      /\ \A j \in DOMAIN more : \E b \in BoundBy(Got) : more[j] = as(b)
      /\ \A b \in BoundBy(Got) : \E j \in DOMAIN more : more[j] = as(b)
  BY <1>3, PendingFacts
<1>6. pend' = pend \o more  OBVIOUS
<1> HIDE DEF more, as
<1>7. /\ DOMAIN pend = 1 .. Len(pend) /\ Len(pend) \in Nat
      /\ DOMAIN more = 1 .. Len(more) /\ Len(more) \in Nat
  BY <1>2, <1>5, ListedFacts DEF Held
<1>8. /\ Listed(pend') /\ Len(pend') = Len(pend) + Len(more)
      /\ DOMAIN pend' = 1 .. Len(pend) + Len(more)
      /\ \A j \in 1 .. Len(pend) : pend'[j] = pend[j]
      /\ \A j \in 1 .. Len(more) : pend'[Len(pend) + j] = more[j]
  <2>1. Listed(pend)  BY <1>2 DEF Held
  <2>2. /\ Listed(pend \o more) /\ Len(pend \o more) = Len(pend) + Len(more)
        /\ DOMAIN (pend \o more) = 1 .. Len(pend) + Len(more)
        /\ \A j \in 1 .. Len(pend) : (pend \o more)[j] = pend[j]
        /\ \A j \in 1 .. Len(more) : (pend \o more)[Len(pend) + j] = more[j]
    BY <1>5, <2>1, ConcatListed
  <2> QED  BY <1>6, <2>2, Zenon
<1>9. \A k \in 1 .. N : text'[cino'[k]] = text[cino[k]]  BY <1>0, <1>1
<1>10. BoundBy(text'[cino'[N + 1]]) = BoundBy(Got)  BY <1>0, <1>1, <1>4
<1>11. ASSUME NEW j \in DOMAIN pend, NEW k \in 1 .. N, NEW b
       PROVE  PendIs(j, k, b)' <=> PendIs(j, k, b)
  BY <1>0, <1>7, <1>8 DEF PendIs
<1>12. PICK L \in Nat : L = Len(pend)  BY <1>7
<1>13. ASSUME NEW j \in DOMAIN more, NEW b
       PROVE  PendIs(L + j, N + 1, b)' <=> more[j] = as(b)
  <2>1. pend'[L + j] = more[j]  BY <1>7, <1>8, <1>12
  <2> QED  BY <1>0, <2>1 DEF PendIs, as
<1>14. \A j \in DOMAIN pend' : j \in DOMAIN pend \/ \E i \in DOMAIN more : j = L + i
  <2> SUFFICES ASSUME NEW j \in DOMAIN pend', j \notin DOMAIN pend
               PROVE  \E i \in DOMAIN more : j = L + i
    OBVIOUS
  <2>1. j - L \in DOMAIN more /\ j = L + (j - L)  BY <1>7, <1>8, <1>12
  <2> QED  BY <2>1
<1>15. \A k \in 1 .. N + 1 : k \in 1 .. N \/ k = N + 1  BY <1>0
<1>16. ASSUME NEW j \in DOMAIN pend'
       PROVE  \E k \in DOMAIN cino' : \E b \in BoundBy(text'[cino'[k]]) : PendIs(j, k, b)'
  <2>1. CASE j \in DOMAIN pend
    <3>1. PICK k \in 1 .. N : \E b \in BoundBy(text[cino[k]]) : PendIs(j, k, b)
      BY <1>0, <1>2, <2>1 DEF Met
    <3>2. PICK b \in BoundBy(text[cino[k]]) : PendIs(j, k, b)  BY <3>1
    <3>3. PendIs(j, k, b)' /\ b \in BoundBy(text'[cino'[k]])
      BY <1>9, <1>11, <2>1, <3>2
    <3>4. k \in DOMAIN cino'  BY <1>0
    <3> QED  BY <3>3, <3>4
  <2>2. ASSUME NEW i \in DOMAIN more, j = L + i
        PROVE  \E k \in DOMAIN cino' : \E b \in BoundBy(text'[cino'[k]]) : PendIs(j, k, b)'
    <3>1. PICK b \in BoundBy(Got) : more[i] = as(b)  BY <1>5
    <3>2. PendIs(j, N + 1, b)'  BY <1>13, <2>2, <3>1
    <3>3. b \in BoundBy(text'[cino'[N + 1]]) /\ N + 1 \in DOMAIN cino'
      BY <1>0, <1>10, <3>1
    <3> QED  BY <3>2, <3>3
  <2> QED  BY <1>14, <2>1, <2>2
<1>17. ASSUME NEW k \in DOMAIN cino', NEW b \in BoundBy(text'[cino'[k]])
       PROVE  \E j \in DOMAIN pend' : PendIs(j, k, b)'
  <2>1. CASE k \in 1 .. N
    <3>1. b \in BoundBy(text[cino[k]])  BY <1>9, <2>1
    <3>2. PICK j \in DOMAIN pend : PendIs(j, k, b)  BY <1>0, <1>2, <2>1, <3>1 DEF Met
    <3>3. PendIs(j, k, b)' /\ j \in DOMAIN pend'  BY <1>7, <1>8, <1>11, <2>1, <3>2
    <3> QED  BY <3>3
  <2>2. CASE k = N + 1
    <3>1. PICK i \in DOMAIN more : more[i] = as(b)  BY <1>5, <1>10, <2>2
    <3>2. PendIs(L + i, k, b)'  BY <1>13, <2>2, <3>1
    <3>3. L + i \in DOMAIN pend'  BY <1>7, <1>8, <1>12
    <3> QED  BY <3>2, <3>3
  <2> QED  BY <1>0, <1>15, <2>1, <2>2
<1>18. Met'  BY <1>16, <1>17 DEF Met
<1> QED  BY <1>7, <1>8, <1>18

LEMMA ReadFileAnswer ==
  ASSUME AnswerInv, saves = 0, ReadFile
  PROVE  AnswerInv'
<1> USE DEF editorVars
<1>1. /\ ReadInv /\ ReadInv' /\ why = "nothing" /\ pc = "take"
      /\ phase' = phase /\ UNCHANGED editorVars
  BY ReadFileLists, ReadFileRead DEF AnswerInv
<1>2. Held  BY DEF AnswerInv
<1>3. PICK s : Listed(s) /\ pend' = pend \o Pending(s, me)  BY <1>1, ReadFilePend
<1>4. Held'
  <2> DEFINE more == Pending(s, me)
  <2>1. Listed(more)  BY <1>3, PendingFacts
  <2>2. pend' = pend \o more  BY <1>3
  <2> HIDE DEF more
  <2>3. Listed(pend \o more)  BY <1>2, <2>1, ConcatListed DEF Held
  <2> QED  BY <1>1, <1>2, <2>2, <2>3 DEF Held, OneDirectory
<1>5. CASE why' # "nothing"  BY <1>1, <1>4, <1>5 DEF AnswerInv
<1>6. CASE why' = "nothing"
  <2>1. /\ pend' = pend \o Pending(Got, me) /\ Landed(me)
        /\ Readable(text[fs[found.path]])
    BY <1>1, <1>6, ReadFilePend
  <2>2. FilesRead'  BY <2>1, ReadFileFiles
  <2>3. /\ Met' /\ Listed(pend') /\ Len(pend') >= Len(pend)
        /\ \A j \in DOMAIN pend : pend'[j] = pend[j]
    BY <2>1, ReadFileMet
  <2>4. Turn' /\ Looked' /\ RootsRead' /\ Followed'
    <3> DEFINE m == me
               k == Len(names) + 1
    <3>1. Landed(m)  BY <2>1
    <3>2. cmod = fmod /\ cmod' = fmod'  BY <1>1 DEF ReadInv, InHand
    <3>3. /\ k \in DOMAIN cino' /\ cino'[k] = found.ino /\ cmod'[k] = m
          /\ \A l \in DOMAIN cino : /\ l \in DOMAIN cino'
                                    /\ cino'[l] = cino[l] /\ cmod'[l] = cmod[l]
      BY <1>1, <3>2, ReadFileAppends
    <3>4. Len(pend') \in Nat  BY <2>3, ListedFacts
    <3> HIDE DEF m, k
    <3> QED  BY <1>1, <2>3, <3>1, <3>3, <3>4, LandedAnswer
  <2> QED  BY <1>1, <1>4, <2>2, <2>3, <2>4 DEF AnswerInv, ReadSoFar
<1> QED  BY <1>5, <1>6

LEMMA StutterAnswer == AnswerInv /\ UNCHANGED vars => AnswerInv'
  BY StutterRead
  DEF vars, AnswerInv, ReadSoFar, Held, OneDirectory, Turn, Looked, FilesRead, RootsRead,
      Met, PendIs, Followed, Asked

LEMMA NextAnswer == AnswerInv /\ [Next]_vars => AnswerInv'
<1> SUFFICES ASSUME AnswerInv, [Next]_vars PROVE AnswerInv'  OBVIOUS
<1>1. CASE Save  BY <1>1, SaveAnswer
<1>2. CASE Reader /\ saves # 0
  <2>1. ReadInv'
    BY <1>2, FindRead, KnownRead, ReadFileRead DEF AnswerInv, Reader
  <2>2. saves' = saves
    BY <1>2 DEF Reader, FindRoot, RootsDone, FindBinding, Probe, NotFound, BindingsDone,
                Known, CannotOpen, ReadFile, editorVars
  <2> QED  BY <1>2, <2>1, <2>2 DEF AnswerInv
<1>3. CASE Reader /\ saves = 0
  <2>1. why = "nothing"
    BY <1>3 DEF Reader, FindRoot, RootsDone, FindBinding, Probe, NotFound, BindingsDone,
                Known, CannotOpen, ReadFile, AnswerInv, ReadInv, InHand
  <2> QED  BY <1>3, <2>1, FindAnswer, KnownAnswer, ReadFileAnswer DEF Reader
<1>4. CASE UNCHANGED vars  BY <1>4, StutterAnswer
<1> QED  BY <1>1, <1>2, <1>3, <1>4 DEF Next

-----------------------------------------------------------------------------
\* What is answered when everything was followed.

\* Where there is nothing left to follow, the files read are those the roots
\* reach.
LEMMA AllRead ==
  ASSUME AnswerInv, saves = 0, BindingsDone
  PROVE  /\ Reached(fs, text, roots) = {cino[k] : k \in DOMAIN cino}
         /\ Len(bind) = Len(pend)
<1> DEFINE C == {cino[k] : k \in DOMAIN cino}
<1>1. /\ why = "nothing" /\ phase = "bindings" /\ n > Len(pend)
      /\ ReadInv /\ Held /\ ReadSoFar
  BY DEF BindingsDone, AnswerInv, ReadInv, InHand
<1>2. /\ DOMAIN pend = 1 .. Len(pend) /\ Len(pend) \in Nat
      /\ DOMAIN bind = 1 .. Len(bind) /\ Len(bind) \in Nat
  BY <1>1, ListedFacts DEF Held, ReadInv, Lists
<1>3. Len(bind) = Len(pend)
  <2>1. n \in Nat /\ n = Len(bind) + 1 /\ n <= Len(pend) + 1 /\ n > Len(pend)
    BY <1>1 DEF ReadSoFar, Turn
  <2>2. Len(pend) \in Nat /\ Len(bind) \in Nat  BY <1>2
  <2>3. \A x, y, z \in Nat : z = x + 1 /\ z <= y + 1 /\ z > y => x = y  OBVIOUS
  <2> QED  BY <2>1, <2>2, <2>3
<1>4. \A k \in DOMAIN cino : cino[k] \in Ino
  BY <1>1 DEF ReadSoFar, FilesRead, Held
<1>5. RootFiles(fs, roots) \subseteq C
  BY <1>1 DEF ReadSoFar, RootsRead, RootFiles
<1>6. ASSUME NEW k \in DOMAIN cino, NEW b \in BoundBy(text[cino[k]])
      PROVE  Reaches(fs, cino[k], b) \in C
  <2>1. PICK j \in DOMAIN pend : PendIs(j, k, b)  BY <1>1 DEF ReadSoFar, Met
  <2>2. j \in DOMAIN bind  BY <1>2, <1>3
  <2>3. \E l \in DOMAIN cino : cino[l] = Asked(j)  BY <1>1, <2>2 DEF ReadSoFar, Followed
  <2>4. Asked(j) = Reaches(fs, cino[k], b)
    BY <1>1, <2>1, AskedIs DEF ReadSoFar, FilesRead
  <2> QED  BY <2>3, <2>4
<1>7. Closed(fs, text, roots, C)
  <2>1. C \subseteq Ino \cup {NoFile}  BY <1>4
  <2>2. ASSUME NEW g \in C, NEW b \in BoundBy(text[g]) PROVE Reaches(fs, g, b) \in C
    <3>1. PICK k \in DOMAIN cino : g = cino[k]  OBVIOUS
    <3> HIDE DEF C
    <3> QED  BY <1>6, <2>2, <3>1
  <2> HIDE DEF C
  <2> QED  BY <1>5, <2>1, <2>2 DEF Closed
<1>8. Reached(fs, text, roots) \subseteq C
  <2> HIDE DEF C
  <2> QED  BY <1>7, ReachedIff
<1>9. C \subseteq Reached(fs, text, roots)  BY <1>1 DEF ReadSoFar, FilesRead
<1> QED  BY <1>3, <1>8, <1>9

\* A module as the reader has it is the module the tree says a file is in.
LEMMA SameModule ==
  ASSUME AnswerInv, saves = 0, why = "nothing", phase = "bindings",
         NEW k \in DOMAIN cino
  PROVE  InModule(cmod[k]) = ModuleOf(fs, roots, cino[k])
<1>1. /\ FilesRead /\ RootsRead /\ TypeOK /\ Listed(cino) /\ Listed(cmod)
  BY DEF AnswerInv, ReadSoFar, ReadInv, ModulesAreThere, Lists
<1>2. DOMAIN cmod = DOMAIN cino  BY <1>1, ListedFacts DEF TypeOK
<1>3. InModule(cmod[k]) = {cino[j] : j \in {i \in DOMAIN cino : cmod[i] = cmod[k]}}
  BY <1>2 DEF InModule
<1>4. CASE cmod[k] = 0
  <2>1. ModuleOf(fs, roots, cino[k]) = RootFiles(fs, roots)
    BY <1>1, <1>4 DEF FilesRead, ModuleOf
  <2>2. \A j \in DOMAIN cino : cmod[j] = 0 <=> cino[j] \in RootFiles(fs, roots)
    BY <1>1 DEF FilesRead
  <2>3. \A f \in RootFiles(fs, roots) : \E j \in DOMAIN cino : cino[j] = f
    BY <1>1 DEF RootsRead, RootFiles
  <2> QED  BY <1>3, <1>4, <2>1, <2>2, <2>3
<1>5. CASE cmod[k] # 0
  <2>1. ModuleOf(fs, roots, cino[k]) = {cino[k]}
    BY <1>1, <1>5 DEF FilesRead, ModuleOf
  <2>2. \A j \in DOMAIN cino : cmod[j] = cmod[k] => j = k
    BY <1>1, <1>5 DEF FilesRead
  <2> QED  BY <1>3, <2>1, <2>2
<1> QED  BY <1>4, <1>5

LEMMA SameModules ==
  ASSUME AnswerInv, saves = 0, BindingsDone
  PROVE  {InModule(m - 1) : m \in DOMAIN mroot} =
           {ModuleOf(fs, roots, f) : f \in Reached(fs, text, roots)}
<1> DEFINE M == {InModule(m - 1) : m \in DOMAIN mroot}
           A == {ModuleOf(fs, roots, f) : f \in Reached(fs, text, roots)}
<1>1. /\ why = "nothing" /\ phase = "bindings"
      /\ ReadInv /\ Held /\ ReadSoFar /\ TypeOK /\ ModulesAreThere /\ cmod = fmod
  BY DEF BindingsDone, AnswerInv, ReadInv, InHand, ModulesAreThere
<1>2. /\ DOMAIN mroot = 1 .. Len(mroot) /\ Len(mroot) \in Nat /\ Len(mroot) >= 1
      /\ DOMAIN cino = DOMAIN fmod /\ DOMAIN roots = 1 .. Len(roots) /\ Len(roots) >= 1
      /\ Len(roots) \in Nat
  BY <1>1, ListedFacts DEF Held, ReadInv, Lists, InHand, TypeOK
<1>3. \A k \in DOMAIN cino : InModule(cmod[k]) = ModuleOf(fs, roots, cino[k])
  BY <1>1, SameModule
<1>4. Reached(fs, text, roots) = {cino[k] : k \in DOMAIN cino}  BY AllRead
<1>5. ASSUME NEW m \in DOMAIN mroot
      PROVE  \E k \in DOMAIN cino : cmod[k] = m - 1
  <2>1. CASE m = 1
    <3>1. PICK k \in DOMAIN cino : cino[k] = imp_ident(fs, roots[1])
      BY <1>1, <1>2 DEF ReadSoFar, RootsRead
    <3>2. cino[k] \in RootFiles(fs, roots)  BY <1>2, <3>1 DEF RootFiles
    <3> QED  BY <1>1, <2>1, <3>2 DEF ReadSoFar, FilesRead
  <2>2. CASE m # 1
    <3>1. m \in 2 .. Len(mroot)  BY <1>2, <2>2
    <3> QED  BY <1>1, <1>2, <3>1 DEF ModulesAreThere
  <2> QED  BY <2>1, <2>2
<1>6. ASSUME NEW k \in DOMAIN cino PROVE \E m \in DOMAIN mroot : cmod[k] = m - 1
  <2>1. cmod[k] \in 0 .. Len(mroot) - 1  BY <1>1, ModuleInRange
  <2>2. cmod[k] + 1 \in DOMAIN mroot /\ cmod[k] = (cmod[k] + 1) - 1  BY <1>2, <2>1
  <2> QED  BY <2>2
<1>7. ASSUME NEW m \in DOMAIN mroot PROVE InModule(m - 1) \in A
  <2>1. PICK k \in DOMAIN cino : cmod[k] = m - 1  BY <1>5
  <2>2. InModule(m - 1) = ModuleOf(fs, roots, cino[k])  BY <1>3, <2>1
  <2> QED  BY <1>4, <2>2
<1>8. ASSUME NEW k \in DOMAIN cino PROVE ModuleOf(fs, roots, cino[k]) \in M
  <2>1. PICK m \in DOMAIN mroot : cmod[k] = m - 1  BY <1>6
  <2>2. InModule(m - 1) = ModuleOf(fs, roots, cino[k])  BY <1>3, <2>1
  <2> QED  BY <2>2
<1>9. M \subseteq A
  <2> HIDE DEF A
  <2> QED  BY <1>7
<1>10. A \subseteq M
  <2> HIDE DEF M
  <2> QED  BY <1>4, <1>8
<1> QED  BY <1>9, <1>10

LEMMA SameBindings ==
  ASSUME AnswerInv, saves = 0, BindingsDone
  PROVE  {[owner |-> InModule(bind[k].owner), name |-> bind[k].name,
           to |-> InModule(bind[k].mod)] : k \in DOMAIN bind} =
           UNION {BindingsOf(fs, text, roots, f) : f \in Reached(fs, text, roots)}
<1> DEFINE met(j) == [owner |-> InModule(bind[j].owner), name |-> bind[j].name,
                      to |-> InModule(bind[j].mod)]
           says(f, b) == [owner |-> ModuleOf(fs, roots, f), name |-> b.name,
                          to |-> ModuleOf(fs, roots, Reaches(fs, f, b))]
           B == {met(j) : j \in DOMAIN bind}
           A == UNION {BindingsOf(fs, text, roots, f) : f \in Reached(fs, text, roots)}
<1>1. /\ why = "nothing" /\ phase = "bindings" /\ ReadInv /\ Held
      /\ FilesRead /\ Met /\ Followed
  BY DEF BindingsDone, AnswerInv, ReadSoFar, ReadInv, InHand
<1>2. DOMAIN bind = DOMAIN pend
  BY <1>1, AllRead, ListedFacts DEF Held, ReadInv, Lists
<1>3. \A k \in DOMAIN cino : InModule(cmod[k]) = ModuleOf(fs, roots, cino[k])
  BY <1>1, SameModule
<1>4. Reached(fs, text, roots) = {cino[k] : k \in DOMAIN cino}  BY AllRead
<1>5. ASSUME NEW j \in DOMAIN bind, NEW k \in DOMAIN cino, NEW b, PendIs(j, k, b)
      PROVE  met(j) = says(cino[k], b)
  <2>1. bind[j].owner = cmod[k] /\ bind[j].name = b.name
    BY <1>1, <1>5 DEF Followed, PendIs
  <2>2. PICK l \in DOMAIN cino : cino[l] = Asked(j) /\ cmod[l] = bind[j].mod
    BY <1>1 DEF Followed
  <2>3. Asked(j) = Reaches(fs, cino[k], b)  BY <1>1, <1>5, AskedIs DEF FilesRead
  <2>4. InModule(bind[j].owner) = ModuleOf(fs, roots, cino[k])  BY <1>3, <2>1
  <2>5. InModule(bind[j].mod) = ModuleOf(fs, roots, Reaches(fs, cino[k], b))
    BY <1>3, <2>2, <2>3
  <2> QED  BY <2>1, <2>4, <2>5
<1>6. \A e : e \in A <=>
        \E k \in DOMAIN cino : \E b \in BoundBy(text[cino[k]]) : e = says(cino[k], b)
  BY <1>4 DEF BindingsOf
<1>7. \A e : e \in B <=> \E j \in DOMAIN bind : e = met(j)  OBVIOUS
<1> HIDE DEF met, says, A, B
<1>8. ASSUME NEW j \in DOMAIN bind PROVE met(j) \in A
  <2>1. PICK k \in DOMAIN cino : \E b \in BoundBy(text[cino[k]]) : PendIs(j, k, b)
    BY <1>1, <1>2 DEF Met
  <2>2. PICK b \in BoundBy(text[cino[k]]) : PendIs(j, k, b)  BY <2>1
  <2>3. met(j) = says(cino[k], b)  BY <1>5, <2>2
  <2> QED  BY <1>6, <2>2, <2>3
<1>9. ASSUME NEW k \in DOMAIN cino, NEW b \in BoundBy(text[cino[k]])
      PROVE  says(cino[k], b) \in B
  <2>1. PICK j \in DOMAIN bind : PendIs(j, k, b)  BY <1>1, <1>2 DEF Met
  <2>2. met(j) = says(cino[k], b)  BY <1>5, <2>1
  <2> QED  BY <1>7, <2>1, <2>2
<1>10. A \subseteq B  BY <1>6, <1>9
<1>11. B \subseteq A  BY <1>7, <1>8
<1>12. A = B  BY <1>10, <1>11
<1> QED  BY <1>12 DEF A, B, met

\* A name that finds nothing, and a file that holds a binding nobody can follow,
\* are the tree's reasons to refuse and the only ones.
LEMMA AnswerRefused ==
  ASSUME NEW f \in Reached(fs, text, roots), f = NoFile \/ ~Readable(text[f])
  PROVE  Answer(fs, text, roots) = Refused
  BY DEF Answer

LEMMA AnswerRead ==
  ASSUME AnswerInv, saves = 0, BindingsDone
  PROVE  Answer(fs, text, roots) =
           Program({InModule(m - 1) : m \in DOMAIN mroot},
                   {[owner |-> InModule(bind[k].owner), name |-> bind[k].name,
                     to |-> InModule(bind[k].mod)] : k \in DOMAIN bind})
<1>1. FilesRead /\ Held
  BY DEF BindingsDone, AnswerInv, ReadSoFar, ReadInv, InHand
<1>2. Reached(fs, text, roots) = {cino[k] : k \in DOMAIN cino}  BY AllRead
<1>3. \A k \in DOMAIN cino : cino[k] \in Ino /\ Readable(text[cino[k]])
  BY <1>1 DEF FilesRead, Held
<1>4. NoFile \notin Ino  BY FilesAssumption DEF NoFile
<1>5. /\ NoFile \notin Reached(fs, text, roots)
      /\ \A f \in Reached(fs, text, roots) : Readable(text[f])
  BY <1>2, <1>3, <1>4
<1> QED  BY <1>5, SameModules, SameBindings DEF Answer

\* Where the reading stops short the tree is refused.
LEMMA StoppedRefused ==
  ASSUME AnswerInv, saves = 0, why = "nothing",
         NotFound \/ CannotOpen \/ (ReadFile /\ why' # "nothing")
  PROVE  Answer(fs, text, roots) = Refused /\ pc' = "done" /\ why' # "nothing"
<1>1. /\ ReadInv /\ StillFound /\ Held /\ Turn /\ Looked /\ FilesRead /\ Met
      /\ phase \in {"roots", "bindings"}
  BY DEF AnswerInv, ReadSoFar, ReadInv, ModulesAreThere, TypeOK
<1>2. CASE NotFound
  <2>1. pc = "probe" /\ left = <<>> /\ phase = "bindings" /\ n <= Len(pend)
    BY <1>1, <1>2 DEF NotFound, Turn
  <2>2. n \in DOMAIN pend  BY <1>1, <2>1, ListedFacts DEF Held, Turn
  <2>3. Asked(n) = NoFile  BY <1>1, <2>1, FirstOfNone DEF Looked
  <2>4. NoFile \in Reached(fs, text, roots)  BY <1>1, <2>2, <2>3, AskedReached
  <2> QED  BY <1>2, <2>4, AnswerRefused DEF NotFound
<1>3. CASE CannotOpen
  <2>1. pc = "take" /\ found.ino = NoFile
    BY <1>1, <1>3 DEF CannotOpen, StillFound
  <2>2. NoFile \in Reached(fs, text, roots)  BY <2>1, HandReached
  <2> QED  BY <1>3, <2>2, AnswerRefused DEF CannotOpen
<1>4. CASE ReadFile /\ why' # "nothing"
  <2>1. pc = "take" /\ imp_ident(fs, found.path) # NoFile
    BY <1>1, <1>4, ReadFileLists
  <2>2. found.ino = fs[found.path]
    BY <1>1, <2>1, GotListed DEF StillFound
  <2>3. ~Readable(text[found.ino]) /\ pc' = "done"
    BY <1>1, <1>4, <2>2, ReadFilePend
  <2>4. found.ino \in Reached(fs, text, roots)  BY <2>1, HandReached
  <2> QED  BY <1>4, <2>3, <2>4, AnswerRefused
<1> QED  BY <1>2, <1>3, <1>4

-----------------------------------------------------------------------------
\* The theorem.

LEMMA SameAnswer ==
  ASSUME NEW f, NEW t, NEW r
  PROVE  PR!Answer(f, t, r) = Answer(f, t, r)
  BY DEF PR!imp_ident, imp_ident, PR!NoFile, NoFile, PR!imp_try, imp_try,
         PR!imp_join, imp_join, PR!Candidates, Candidates, PR!Resolve, Resolve,
         PR!BoundBy, BoundBy, PR!RootFiles, RootFiles, PR!DirOf, DirOf,
         PR!Reaches, Reaches, PR!Reached, Reached, PR!ModuleOf, ModuleOf,
         PR!BindingsOf, BindingsOf, PR!Readable, Readable,
         PR!Refused, Refused, PR!Program, Program, PR!Answer, Answer

\* What the abstract specification sees.
Said ==
  IF pc # "done" \/ saves > 0 THEN NotRead
  ELSE IF why # "nothing" THEN Refused
  ELSE Program({InModule(m - 1) : m \in DOMAIN mroot},
               {[owner |-> InModule(bind[k].owner), name |-> bind[k].name,
                 to |-> InModule(bind[k].mod)] : k \in DOMAIN bind})

LEMMA AnswerIsSaid == \A f, t, r : Answer(f, t, r) # NotRead
  BY DEF Answer, Refused, Program, NotRead

LEMMA NextSays ==
  AnswerInv /\ [Next]_vars =>
    Said' = Said \/ (Said = NotRead /\ Said' = Answer(fs, text, roots))
<1> SUFFICES ASSUME AnswerInv, [Next]_vars
             PROVE  Said' = Said \/ (Said = NotRead /\ Said' = Answer(fs, text, roots))
  OBVIOUS
<1>0. /\ ReadInv /\ saves \in Nat /\ (why # "nothing" => pc = "done")
  <2>1. MaxSaves \in Nat /\ saves \in 0 .. MaxSaves
    BY TreesAssumption DEF AnswerInv, ReadInv, ModulesAreThere, TypeOK
  <2> QED  BY <2>1 DEF AnswerInv, ReadInv, InHand
<1>1. CASE UNCHANGED vars  BY <1>1 DEF Said, InModule, vars
<1>2. CASE Save
  <2>1. pc # "done" /\ saves' = saves + 1
    BY <1>2 DEF Save, SaveInPlace, SaveByRename
  <2>2. saves' > 0  BY <1>0, <2>1
  <2> QED  BY <2>1, <2>2 DEF Said
<1>3. CASE Reader
  <2>1. pc # "done" /\ saves' = saves /\ why = "nothing"
    BY <1>0, <1>3 DEF Reader, FindRoot, RootsDone, FindBinding, Probe, NotFound,
                      BindingsDone, Known, CannotOpen, ReadFile, editorVars
  <2>2. Said = NotRead  BY <2>1 DEF Said
  <2>3. CASE saves # 0  BY <1>0, <2>1, <2>2, <2>3 DEF Said
  <2>4. CASE saves = 0 /\ pc' # "done"  BY <2>2, <2>4 DEF Said
  <2>5. CASE saves = 0 /\ pc' = "done"
    <3>1. CASE BindingsDone
      <4>1. /\ why' = why /\ mroot' = mroot /\ bind' = bind /\ cino' = cino /\ cmod' = cmod
        BY <3>1 DEF BindingsDone, programVars
      <4>2. \A m : InModule(m)' = InModule(m)  BY <4>1 DEF InModule
      <4>3. Said' = Program({InModule(m - 1) : m \in DOMAIN mroot},
                            {[owner |-> InModule(bind[k].owner), name |-> bind[k].name,
                              to |-> InModule(bind[k].mod)] : k \in DOMAIN bind})
        BY <2>1, <2>5, <4>1 DEF Said, InModule
      <4> QED  BY <2>2, <2>5, <3>1, <4>3, AnswerRead
    <3>2. CASE NotFound \/ CannotOpen \/ (ReadFile /\ why' # "nothing")
      <4>1. Answer(fs, text, roots) = Refused /\ why' # "nothing"
        BY <2>1, <2>5, <3>2, StoppedRefused
      <4> QED  BY <2>1, <2>2, <2>5, <4>1 DEF Said
    <3>3. CASE Known \/ (ReadFile /\ why' = "nothing")
      <4>1. pc' = "next"
        BY <1>0, <3>3, ReadFilePend DEF Known, Landed
      <4> QED  BY <2>5, <4>1
    <3>4. CASE FindRoot \/ RootsDone \/ FindBinding \/ Probe
      BY <2>5, <3>4 DEF FindRoot, RootsDone, FindBinding, Probe
    <3> QED  BY <1>3, <3>1, <3>2, <3>3, <3>4 DEF Reader
  <2> QED  BY <2>3, <2>4, <2>5
<1> QED  BY <1>1, <1>2, <1>3 DEF Next

\* Reading answers what the files say (read_program): the answer, given once, is
\* the one the tree has, whatever order the files are met in.
THEOREM ReaderReadsTheProgram == LinksStay => (Spec => ReadsTheProgram)
<1> SUFFICES ASSUME LinksStay PROVE Spec => ReadsTheProgram  OBVIOUS
<1>1. Init => AnswerInv  BY InitAnswer
<1>2. AnswerInv /\ [Next]_vars => AnswerInv'  BY NextAnswer
<1>3. Init => PR!Init  BY DEF Init, PR!Init, NotRead, PR!NotRead
<1>4. AnswerInv /\ [Next]_vars => [PR!Read]_Said
  <2> SUFFICES ASSUME AnswerInv, [Next]_vars, Said' # Said
               PROVE  PR!Read
    OBVIOUS
  <2>1. Said = NotRead /\ Said' = PR!Answer(fs, text, roots)
    BY NextSays, SameAnswer
  <2> QED  BY <2>1 DEF PR!Read, Said, NotRead, PR!NotRead
<1> QED  BY <1>1, <1>2, <1>3, <1>4, PTL DEF Spec, ReadsTheProgram, PR!Spec, Said

-----------------------------------------------------------------------------
(***************************************************************************)
(* The interpreter's reader answers what the files say too.  What is       *)
(* loaded is what the tree says of the files loaded: a binding of one is   *)
(* followed, or it is left to a call of its module, and a call waits at    *)
(* the binding that the one above it was made for.                         *)
(***************************************************************************)

-----------------------------------------------------------------------------
\* The inductive invariant.

\* The tree in front of it: nobody saves a file, and each can be loaded.
Quiet ==
  Loaded => saves = 0 /\ DOMAIN text = Ino
            /\ \A f \in Ino : Listed(text[f]) /\ Followable(text[f])

FileOf(m) == l_mods[m].file
Rest(call) == {call.left[k] : k \in DOMAIN call.left}

ModulesLoaded ==
  /\ Listed(l_mods)
  /\ \A m \in DOMAIN l_mods :
       /\ l_mods[m] = [file |-> FileOf(m), bindings |-> l_mods[m].bindings]
       /\ \E p \in DOMAIN fs : fs[p] = FileOf(m)
       /\ FileOf(m) \in Reached(fs, text, roots)

\* Every binding followed reached the file its name finds.
BindingsLoaded ==
  \A m \in DOMAIN l_mods : \A name \in DOMAIN l_mods[m].bindings :
    /\ l_mods[m].bindings[name] \in DOMAIN l_mods
    /\ \E b \in BoundBy(text[FileOf(m)]) :
         b.name = name /\ FileOf(l_mods[m].bindings[name]) = Reaches(fs, FileOf(m), b)

\* The calls are of modules there are, each beside its file.
CallsStand(calls) ==
  /\ Listed(calls)
  /\ \A k \in DOMAIN calls :
       /\ calls[k] = [mod |-> calls[k].mod, dir |-> calls[k].dir, left |-> calls[k].left]
       /\ calls[k].mod \in DOMAIN l_mods
       /\ calls[k].dir = DirOf(fs, FileOf(calls[k].mod))
       /\ Listed(calls[k].left)
       /\ Rest(calls[k]) \subseteq BoundBy(text[FileOf(calls[k].mod)])

\* What call k asks for.
Asks(calls, k) == Reaches(fs, FileOf(calls[k].mod), Head(calls[k].left))

CallsWait(calls) ==
  \A k \in 1 .. Len(calls) - 1 :
    calls[k].left # <<>> /\ FileOf(calls[k + 1].mod) = Asks(calls, k)

\* No binding is forgotten.
NoneForgotten(calls) ==
  \A m \in DOMAIN l_mods : \A b \in BoundBy(text[FileOf(m)]) :
    \/ b.name \in DOMAIN l_mods[m].bindings
    \/ \E k \in DOMAIN calls : calls[k].mod = m /\ b \in Rest(calls[k])

RootLoaded == \E m \in DOMAIN l_mods : FileOf(m) = imp_ident(fs, roots[1])
RootTurn ==
  \/ l_n = 1 /\ l_stack = <<>> /\ l_mods = <<>> /\ (l_pc = "take" => l_path = roots[1])
  \/ l_n = 1 /\ l_stack # <<>> /\ RootLoaded
  \/ l_n = 2 /\ l_stack = <<>> /\ RootLoaded /\ l_pc # "take"

\* The path in hand is what the call on top asked for.
InTurn ==
  l_pc = "take" /\ l_stack # <<>> =>
    /\ l_stack[Len(l_stack)].left # <<>>
    /\ imp_ident(fs, l_path) = Asks(l_stack, Len(l_stack))

Loading ==
  /\ ModulesLoaded /\ BindingsLoaded
  /\ CallsStand(l_stack) /\ CallsWait(l_stack) /\ NoneForgotten(l_stack)
  /\ RootTurn /\ InTurn

LoadInv ==
  /\ AnswerInv /\ Quiet
  /\ l_pc \in {"next", "take", "done"}
  /\ Loaded => IF l_why = "nothing" THEN Loading
               ELSE l_pc = "done" /\ Answer(fs, text, roots) = Refused

\* The tree the interpreter is run over, with what stands in it.
Quietly == Loaded /\ Held /\ Quiet

LEMMA SameFiles ==
  /\ \A f, p : Interp!imp_ident(f, p) = imp_ident(f, p)
  /\ \A name, base : Interp!Candidates(name, base) = Candidates(name, base)
  /\ Interp!NoFile = NoFile
<1>1. \A f, p : Interp!imp_ident(f, p) = imp_ident(f, p)
  BY DEF Interp!imp_ident, imp_ident, Interp!NoFile, NoFile
<1>2. \A name, base : Interp!Candidates(name, base) = Candidates(name, base)
  BY DEF Interp!Candidates, Candidates, Interp!imp_try, imp_try, Interp!imp_join, imp_join
<1>3.. Interp!NoFile = NoFile  BY DEF Interp!NoFile, NoFile
<1> QED  BY <1>1, <1>2, <1>3

LEMMA SameBinds ==
  ASSUME NEW t, Listed(t)
  PROVE  Interp!BindsOf(t) = BindsOf(t)
<1> DEFINE at == BindsAt(t)
           nth(k) == CHOOSE p \in at : Rank(at, p) = k
           inth(k) == CHOOSE p \in at : Interp!Cardinality({q \in at : q <= p}) = k
<1>1. \A S : Interp!Cardinality(S) = Cardinality(S)
  BY Zenon DEF Interp!Cardinality, Cardinality
<1>2. \A p : Interp!Cardinality({q \in at : q <= p}) = Rank(at, p)  BY <1>1 DEF Rank
<1>3. /\ \A k \in 1 .. Cardinality(at) : \E p \in at : Rank(at, p) = k
      /\ \A p, q \in at : Rank(at, p) = Rank(at, q) => p = q
  BY BindsFacts, RankFacts
<1>4. BindsOf(t) = [k \in 1 .. Cardinality(at) |-> t[nth(k)]]
  BY BindsFacts DEF LinesAt
<1>5. Interp!BindsOf(t) = [k \in 1 .. Interp!Cardinality(at) |-> t[inth(k)]]
  BY DEF Interp!BindsOf, BindsAt
<1>6. \A k \in 1 .. Cardinality(at) : inth(k) = nth(k)
  <2> HIDE DEF at
  <2> SUFFICES ASSUME NEW k \in 1 .. Cardinality(at) PROVE inth(k) = nth(k)  OBVIOUS
  <2>1. PICK p \in at : Rank(at, p) = k  BY <1>3
  <2>2. nth(k) = p  BY <1>3, <2>1
  <2>3. inth(k) = p  BY <1>2, <1>3, <2>1
  <2> QED  BY <2>2, <2>3
<1> HIDE DEF nth, inth, at
<1> QED  BY <1>1, <1>4, <1>5, <1>6

LEMMA LoadsStill == Loads => UNCHANGED vars
  BY DEF Loads, Interp!Next, Interp!NextRoot, Interp!Finish, Interp!Follow, Interp!TakeKnown,
         Interp!TakeRefused, Interp!Load, Interp!Return, readerVars, programVars, vars

LEMMA StillQuiet ==
  ASSUME Quietly, UNCHANGED vars
  PROVE  Quietly' /\ Loaded' /\ imp_ident(fs, roots[1])' = imp_ident(fs, roots[1])
  BY DEF Quietly, Quiet, Held, OneDirectory, Loaded, vars

\* A list with other elements.
LEMMA ChangedListed ==
  ASSUME NEW s, Listed(s), NEW t, t = [k \in DOMAIN s |-> t[k]]
  PROVE  Listed(t) /\ Len(t) = Len(s)
<1>1. Len(s) \in Nat /\ DOMAIN s = 1 .. Len(s)  BY ListedFacts
<1>2. t = [k \in 1 .. Len(s) |-> t[k]]  BY <1>1
<1> QED  BY <1>1, <1>2, FunctionListed

\* The calls below the one on top.
LEMMA BelowListed ==
  ASSUME NEW s, Listed(s), s # <<>>
  PROVE  /\ Len(s) \in Nat \ {0} /\ DOMAIN s = 1 .. Len(s)
         /\ Listed(SubSeq(s, 1, Len(s) - 1)) /\ Len(SubSeq(s, 1, Len(s) - 1)) = Len(s) - 1
         /\ \A k \in 1 .. Len(s) - 1 : SubSeq(s, 1, Len(s) - 1)[k] = s[k]
<1>1. Len(s) \in Nat \ {0} /\ DOMAIN s = 1 .. Len(s)  BY TailListed
<1>2. PICK S : s \in Seq(S)  BY DEF Listed
<1>3. 1 \in 1 .. Len(s) + 1 /\ Len(s) - 1 \in 1 - 1 .. Len(s)  BY <1>1
<1>4. /\ SubSeq(s, 1, Len(s) - 1) \in Seq(S)
      /\ Len(SubSeq(s, 1, Len(s) - 1)) = Len(s) - 1
      /\ \A k \in 1 .. Len(s) - 1 : SubSeq(s, 1, Len(s) - 1)[k] = s[k]
  BY <1>1, <1>2, <1>3, SubSeqProperties
<1> QED  BY <1>1, <1>4, SeqListed

\* What stays true of the calls below the one on top.
LEMMA BelowStands ==
  ASSUME NEW calls, calls # <<>>, CallsStand(calls), CallsWait(calls), NoneForgotten(calls),
         NEW below, below = SubSeq(calls, 1, Len(calls) - 1), calls[Len(calls)].left = <<>>
  PROVE  CallsStand(below) /\ CallsWait(below) /\ NoneForgotten(below)
<1>1. /\ Len(calls) \in Nat \ {0} /\ DOMAIN calls = 1 .. Len(calls)
      /\ Listed(below) /\ Len(below) = Len(calls) - 1
      /\ \A k \in 1 .. Len(calls) - 1 : below[k] = calls[k]
  BY BelowListed DEF CallsStand
<1>2. DOMAIN below = 1 .. Len(calls) - 1  BY <1>1, ListedFacts
<1>3. \A k \in DOMAIN below : k \in DOMAIN calls /\ below[k] = calls[k]  BY <1>1, <1>2
<1>4. CallsStand(below)  BY <1>1, <1>3 DEF CallsStand
<1>5. CallsWait(below)
  <2> SUFFICES ASSUME NEW k \in 1 .. Len(below) - 1
               PROVE  below[k].left # <<>> /\ FileOf(below[k + 1].mod) = Asks(below, k)
    BY DEF CallsWait
  <2>1. k \in 1 .. Len(calls) - 1 /\ k + 1 \in 1 .. Len(calls) - 1  BY <1>1
  <2> QED  BY <1>1, <2>1 DEF CallsWait, Asks
<1>6. NoneForgotten(below)
  <2> SUFFICES ASSUME NEW m \in DOMAIN l_mods, NEW b \in BoundBy(text[FileOf(m)]),
                      b.name \notin DOMAIN l_mods[m].bindings
               PROVE  \E k \in DOMAIN below : below[k].mod = m /\ b \in Rest(below[k])
    BY DEF NoneForgotten
  <2>1. PICK k \in DOMAIN calls : calls[k].mod = m /\ b \in Rest(calls[k])
    BY DEF NoneForgotten
  <2>2. Rest(calls[Len(calls)]) = {}  BY EmptyListed, ListedFacts DEF Rest
  <2>3. k # Len(calls)  BY <2>1, <2>2
  <2>4. k \in 1 .. Len(calls) - 1  BY <1>1, <2>3
  <2> QED  BY <1>1, <1>2, <2>1, <2>4
<1> QED  BY <1>4, <1>5, <1>6

\* What answering a module to the call on top does.
LEMMA BoundChanges ==
  ASSUME ModulesLoaded, NEW calls, CallsStand(calls), calls # <<>>,
         calls[Len(calls)].left # <<>>, NEW m, Interp!Bound(calls, m, l_mods)
  PROVE  /\ Len(calls) \in Nat \ {0} /\ DOMAIN calls = 1 .. Len(calls)
         /\ Listed(l_mods') /\ DOMAIN l_mods' = DOMAIN l_mods
         /\ \A k \in DOMAIN l_mods :
              /\ l_mods'[k] = [file |-> FileOf(k), bindings |-> l_mods'[k].bindings]
              /\ l_mods'[k].file = FileOf(k)
              /\ k # calls[Len(calls)].mod => l_mods'[k].bindings = l_mods[k].bindings
         /\ l_mods'[calls[Len(calls)].mod].bindings =
              [known \in DOMAIN l_mods[calls[Len(calls)].mod].bindings
                           \cup {Head(calls[Len(calls)].left).name} |->
                 IF known = Head(calls[Len(calls)].left).name THEN m
                 ELSE l_mods[calls[Len(calls)].mod].bindings[known]]
         /\ Listed(l_stack') /\ Len(l_stack') = Len(calls) /\ DOMAIN l_stack' = DOMAIN calls
         /\ \A k \in 1 .. Len(calls) - 1 : l_stack'[k] = calls[k]
         /\ l_stack'[Len(calls)] = [calls[Len(calls)] EXCEPT !.left = Tail(@)]
<1> DEFINE top == calls[Len(calls)]
           name == Head(top.left).name
           old == l_mods[top.mod].bindings
           new == [known \in DOMAIN old \cup {name} |-> IF known = name THEN m ELSE old[known]]
<1>1. /\ Len(calls) \in Nat \ {0} /\ DOMAIN calls = 1 .. Len(calls)
      /\ top.mod \in DOMAIN l_mods
      /\ \A k \in DOMAIN calls :
           calls[k] = [mod |-> calls[k].mod, dir |-> calls[k].dir, left |-> calls[k].left]
  BY TailListed DEF CallsStand
<1>2. l_mods' = [l_mods EXCEPT ![top.mod].bindings = new]  BY DEF Interp!Bound
<1>3. l_stack' = [calls EXCEPT ![Len(calls)].left = Tail(@)]  BY DEF Interp!Bound
<1>4. \A k \in DOMAIN l_mods : l_mods[k] = [file |-> FileOf(k), bindings |-> l_mods[k].bindings]
  BY DEF ModulesLoaded
<1> HIDE DEF new, top
<1>5. l_mods' = [k \in DOMAIN l_mods |-> l_mods'[k]]  BY <1>2
<1>6. Listed(l_mods') /\ DOMAIN l_mods' = DOMAIN l_mods
  BY <1>5, ChangedListed DEF ModulesLoaded
<1>7. /\ l_mods'[top.mod] = [file |-> FileOf(top.mod), bindings |-> new]
      /\ \A k \in DOMAIN l_mods : k # top.mod => l_mods'[k] = l_mods[k]
  BY <1>1, <1>2, <1>4
<1>8. \A k \in DOMAIN l_mods :
        /\ l_mods'[k] = [file |-> FileOf(k), bindings |-> l_mods'[k].bindings]
        /\ l_mods'[k].file = FileOf(k)
        /\ k # top.mod => l_mods'[k].bindings = l_mods[k].bindings
  BY <1>4, <1>7 DEF FileOf
<1>9. l_mods'[top.mod].bindings = new  BY <1>7
<1>10. l_stack' = [k \in DOMAIN calls |-> l_stack'[k]]  BY <1>3
<1>11. Listed(l_stack') /\ Len(l_stack') = Len(calls) /\ DOMAIN l_stack' = DOMAIN calls
  BY <1>10, ChangedListed DEF CallsStand
<1>12. /\ \A k \in 1 .. Len(calls) - 1 : l_stack'[k] = calls[k]
       /\ l_stack'[Len(calls)] = [top EXCEPT !.left = Tail(@)]
  <2>1. Len(calls) \in DOMAIN calls
        /\ \A k \in 1 .. Len(calls) - 1 : k \in DOMAIN calls /\ k # Len(calls)
    <3> DEFINE N == Len(calls)
    <3>1. N \in Nat \ {0} /\ DOMAIN calls = 1 .. N  BY <1>1
    <3> HIDE DEF N
    <3>2. N \in 1 .. N /\ \A k \in 1 .. N - 1 : k \in 1 .. N /\ k # N  BY <3>1
    <3> QED  BY <3>1, <3>2 DEF N
  <2>2. l_stack' = [calls EXCEPT ![Len(calls)] = [top EXCEPT !.left = Tail(@)]]
    BY <1>3 DEF top
  <2> QED  BY <2>1, <2>2
<1> QED  BY <1>1, <1>6, <1>8, <1>9, <1>11, <1>12 DEF new, top

\* The binding on top is followed to the file its name finds.
LEMMA BoundLoads ==
  ASSUME Quietly, UNCHANGED vars, ModulesLoaded, BindingsLoaded,
         NEW calls, CallsStand(calls), CallsWait(calls), NoneForgotten(calls), calls # <<>>,
         calls[Len(calls)].left # <<>>,
         NEW m \in DOMAIN l_mods, FileOf(m) = Asks(calls, Len(calls)),
         Interp!Bound(calls, m, l_mods)
  PROVE  /\ ModulesLoaded' /\ BindingsLoaded'
         /\ CallsStand(l_stack)' /\ CallsWait(l_stack)' /\ NoneForgotten(l_stack)'
         /\ l_stack' # <<>> /\ (RootLoaded => RootLoaded')
<1> DEFINE N == Len(calls)
           top == calls[N]
           name == Head(top.left).name
           old == l_mods[top.mod].bindings
           new == l_mods'[top.mod].bindings
<1>1. /\ N \in Nat \ {0} /\ DOMAIN calls = 1 .. N
      /\ Listed(l_mods') /\ DOMAIN l_mods' = DOMAIN l_mods
      /\ \A k \in DOMAIN l_mods :
           /\ l_mods'[k] = [file |-> FileOf(k), bindings |-> l_mods'[k].bindings]
           /\ l_mods'[k].file = FileOf(k)
           /\ k # top.mod => l_mods'[k].bindings = l_mods[k].bindings
      /\ new = [known \in DOMAIN old \cup {name} |-> IF known = name THEN m ELSE old[known]]
      /\ Listed(l_stack') /\ Len(l_stack') = N /\ DOMAIN l_stack' = DOMAIN calls
      /\ \A k \in 1 .. N - 1 : l_stack'[k] = calls[k]
      /\ l_stack'[N] = [top EXCEPT !.left = Tail(@)]
  BY BoundChanges
<1>2. /\ fs' = fs /\ text' = text /\ roots' = roots  BY DEF vars
<1>3. \A k \in DOMAIN l_mods : FileOf(k)' = FileOf(k)  BY <1>1 DEF FileOf
<1>4. /\ top = [mod |-> top.mod, dir |-> top.dir, left |-> top.left]
      /\ top.mod \in DOMAIN l_mods /\ Listed(top.left)
      /\ Rest(top) \subseteq BoundBy(text[FileOf(top.mod)])
  BY <1>1 DEF CallsStand
<1>5. l_stack'[N] = [mod |-> top.mod, dir |-> top.dir, left |-> Tail(top.left)]
  BY <1>1, <1>4
<1>6. /\ Listed(Tail(top.left))
      /\ \A b : b \in Rest(top) <=>
           b = Head(top.left) \/ b \in {Tail(top.left)[k] : k \in DOMAIN Tail(top.left)}
  <2>1. /\ Listed(Tail(top.left)) /\ Len(top.left) \in Nat \ {0}
        /\ DOMAIN top.left = 1 .. Len(top.left)
        /\ DOMAIN Tail(top.left) = 1 .. Len(top.left) - 1
        /\ \A k \in 1 .. Len(top.left) - 1 : Tail(top.left)[k] = top.left[k + 1]
        /\ Head(top.left) = top.left[1]
    BY <1>4, TailListed
  <2> DEFINE L == Len(top.left)
             s == top.left
             t == Tail(top.left)
  <2> HIDE DEF s, t, L
  <2>2. /\ L \in Nat \ {0} /\ DOMAIN s = 1 .. L /\ DOMAIN t = 1 .. L - 1
        /\ \A k \in 1 .. L - 1 : t[k] = s[k + 1]
    BY <2>1 DEF s, t, L
  <2>3. ASSUME NEW k \in DOMAIN s PROVE s[k] = s[1] \/ \E i \in DOMAIN t : t[i] = s[k]
    <3>1. k = 1 \/ (k - 1 \in 1 .. L - 1 /\ (k - 1) + 1 = k)  BY <2>2
    <3> QED  BY <2>2, <3>1
  <2>4. ASSUME NEW i \in DOMAIN t PROVE \E k \in DOMAIN s : s[k] = t[i]
    <3>1. i + 1 \in DOMAIN s  BY <2>2
    <3> QED  BY <2>2, <3>1
  <2>5. 1 \in DOMAIN s  BY <2>2
  <2>6. Head(top.left) = s[1] /\ Listed(t)  BY <2>1 DEF s, t
  <2>7. Rest(top) = {s[k] : k \in DOMAIN s}  BY DEF Rest, s
  <2>8. Head(top.left) = s[1] /\ Rest(top) = {s[k] : k \in DOMAIN s} /\ Listed(t)
        /\ \A b : b \in {s[k] : k \in DOMAIN s} <=>
                    b = s[1] \/ b \in {t[k] : k \in DOMAIN t}
    BY <2>3, <2>4, <2>5, <2>6, <2>7
  <2> QED  BY <2>8 DEF t
<1> HIDE DEF N, top, name, old, new
<1>7. ModulesLoaded'
  <2> SUFFICES ASSUME NEW k \in DOMAIN l_mods
               PROVE  /\ l_mods'[k] = [file |-> FileOf(k), bindings |-> l_mods[k].bindings]'
                      /\ \E p \in DOMAIN fs : fs[p] = FileOf(k)
                      /\ FileOf(k) \in Reached(fs, text, roots)
    BY <1>1, <1>2, <1>3 DEF ModulesLoaded
  <2> QED  BY <1>1, <1>3 DEF ModulesLoaded
<1>8. BindingsLoaded'
  <2> SUFFICES ASSUME NEW k \in DOMAIN l_mods, NEW x \in DOMAIN l_mods'[k].bindings
               PROVE  /\ l_mods'[k].bindings[x] \in DOMAIN l_mods
                      /\ \E b \in BoundBy(text[FileOf(k)]) :
                           /\ b.name = x
                           /\ l_mods'[l_mods'[k].bindings[x]].file = Reaches(fs, FileOf(k), b)
    BY <1>1, <1>2, <1>3 DEF BindingsLoaded, FileOf
  <2>1. CASE k = top.mod /\ x = name
    <3>1. l_mods'[k].bindings[x] = m  BY <1>1, <2>1 DEF new
    <3>2. Head(top.left) \in BoundBy(text[FileOf(k)]) /\ Head(top.left).name = x
      BY <1>4, <1>6, <2>1 DEF name
    <3>3. l_mods'[m].file = Reaches(fs, FileOf(k), Head(top.left))
      BY <1>1, <2>1 DEF Asks, N, top
    <3> QED  BY <3>1, <3>2, <3>3
  <2>2. CASE ~(k = top.mod /\ x = name)
    <3>1. x \in DOMAIN l_mods[k].bindings /\ l_mods'[k].bindings[x] = l_mods[k].bindings[x]
      BY <1>1, <2>2 DEF new, old
    <3>2. /\ l_mods[k].bindings[x] \in DOMAIN l_mods
          /\ \E b \in BoundBy(text[FileOf(k)]) :
               b.name = x /\ FileOf(l_mods[k].bindings[x]) = Reaches(fs, FileOf(k), b)
      BY <3>1 DEF BindingsLoaded
    <3>3. l_mods'[l_mods[k].bindings[x]].file = FileOf(l_mods[k].bindings[x])  BY <1>1, <3>2
    <3> QED  BY <3>1, <3>2, <3>3
  <2> QED  BY <2>1, <2>2
<1>9. \A k \in DOMAIN calls : l_stack'[k].mod = calls[k].mod
  <2> SUFFICES ASSUME NEW k \in DOMAIN calls PROVE l_stack'[k].mod = calls[k].mod  OBVIOUS
  <2>1. k = N \/ k \in 1 .. N - 1  BY <1>1
  <2> QED  BY <1>1, <1>5, <2>1 DEF top
<1>10. CallsStand(l_stack)'
  <2> SUFFICES ASSUME NEW k \in DOMAIN calls
               PROVE  /\ l_stack'[k] = [mod |-> l_stack'[k].mod, dir |-> l_stack'[k].dir,
                                        left |-> l_stack'[k].left]
                      /\ l_stack'[k].mod \in DOMAIN l_mods
                      /\ l_stack'[k].dir = DirOf(fs, FileOf(l_stack'[k].mod))
                      /\ Listed(l_stack'[k].left)
                      /\ {l_stack'[k].left[i] : i \in DOMAIN l_stack'[k].left}
                           \subseteq BoundBy(text[FileOf(l_stack'[k].mod)])
    <3>1. \A k \in DOMAIN calls : l_stack'[k].mod \in DOMAIN l_mods =>
                                    FileOf(l_stack[k].mod)' = FileOf(l_stack'[k].mod)
      BY <1>1 DEF FileOf
    <3>2. \A k \in DOMAIN calls : l_stack'[k].mod \in DOMAIN l_mods =>
            DirOf(fs, FileOf(l_stack[k].mod))' = DirOf(fs, FileOf(l_stack'[k].mod))
      BY <1>2, <3>1 DEF DirOf
    <3>3. \A k \in DOMAIN calls : l_stack'[k].mod \in DOMAIN l_mods =>
            BoundBy(text[FileOf(l_stack[k].mod)])' = BoundBy(text[FileOf(l_stack'[k].mod)])
      BY <1>2, <3>1 DEF BoundBy
    <3> QED  BY <1>1, <1>2, <3>2, <3>3 DEF CallsStand, Rest
  <2>1. CASE k # N
    <3>1. l_stack'[k] = calls[k]  BY <1>1, <2>1
    <3> QED  BY <3>1 DEF CallsStand, Rest
  <2>2. CASE k = N
    <3>1. top.dir = DirOf(fs, FileOf(top.mod))  BY <2>2 DEF CallsStand, top
    <3>2. {Tail(top.left)[i] : i \in DOMAIN Tail(top.left)} \subseteq Rest(top)  BY <1>6
    <3>3. /\ l_stack'[k].mod = top.mod /\ l_stack'[k].dir = top.dir
          /\ l_stack'[k].left = Tail(top.left)
          /\ l_stack'[k] = [mod |-> l_stack'[k].mod, dir |-> l_stack'[k].dir,
                            left |-> l_stack'[k].left]
      <4> DEFINE c == l_stack'[k]
                 m0 == top.mod
                 d0 == top.dir
                 l0 == Tail(top.left)
      <4>1. c = [mod |-> m0, dir |-> d0, left |-> l0]  BY <1>5, <2>2
      <4> HIDE DEF c, m0, d0, l0
      <4>2. c.mod = m0 /\ c.dir = d0 /\ c.left = l0  BY <4>1
      <4>3. c = [mod |-> c.mod, dir |-> c.dir, left |-> c.left]  BY <4>1, <4>2
      <4> QED  BY <4>2, <4>3 DEF c, m0, d0, l0
    <3>4. {Tail(top.left)[i] : i \in DOMAIN Tail(top.left)} \subseteq BoundBy(text[FileOf(top.mod)])
      BY <1>4, <3>2
    <3> QED  BY <1>4, <1>6, <3>1, <3>3, <3>4
  <2> QED  BY <2>1, <2>2
<1>11. CallsWait(l_stack)'
  <2> SUFFICES ASSUME NEW k \in 1 .. N - 1
               PROVE  /\ l_stack'[k].left # <<>>
                      /\ l_mods'[l_stack'[k + 1].mod].file =
                           Reaches(fs, l_mods'[l_stack'[k].mod].file, Head(l_stack'[k].left))
    BY <1>1, <1>2 DEF CallsWait, Asks, FileOf, N
  <2>1. k \in DOMAIN calls /\ k + 1 \in DOMAIN calls /\ l_stack'[k] = calls[k]  BY <1>1
  <2>2. l_stack'[k + 1].mod = calls[k + 1].mod  BY <1>9, <2>1
  <2>3. calls[k].mod \in DOMAIN l_mods /\ calls[k + 1].mod \in DOMAIN l_mods
    BY <2>1 DEF CallsStand
  <2>4. calls[k].left # <<>> /\ FileOf(calls[k + 1].mod) = Asks(calls, k)
    BY DEF CallsWait, N
  <2> QED  BY <1>1, <2>1, <2>2, <2>3, <2>4 DEF Asks
<1>12. NoneForgotten(l_stack)'
  <2> SUFFICES ASSUME NEW j \in DOMAIN l_mods, NEW b \in BoundBy(text[FileOf(j)]),
                      b.name \notin DOMAIN l_mods'[j].bindings
               PROVE  \E k \in DOMAIN calls :
                        /\ l_stack'[k].mod = j
                        /\ b \in {l_stack'[k].left[i] : i \in DOMAIN l_stack'[k].left}
    BY <1>1, <1>2, <1>3 DEF NoneForgotten, Rest
  <2>1. b.name \notin DOMAIN l_mods[j].bindings /\ (j = top.mod => b.name # name)
    BY <1>1 DEF new, old
  <2>2. PICK k \in DOMAIN calls : calls[k].mod = j /\ b \in Rest(calls[k])
    BY <2>1 DEF NoneForgotten
  <2>3. CASE k # N
    <3>1. l_stack'[k] = calls[k]  BY <1>1, <2>3
    <3> QED  BY <2>2, <3>1 DEF Rest
  <2>4. CASE k = N
    <3>1. j = top.mod /\ b \in Rest(top)  BY <2>2, <2>4 DEF top
    <3>2. b # Head(top.left)  BY <2>1, <3>1 DEF name
    <3> QED  BY <1>5, <1>6, <2>4, <3>1, <3>2
  <2> QED  BY <2>3, <2>4
<1>13. l_stack' # <<>>  BY <1>1, EmptyListed
<1>14. RootLoaded => RootLoaded'  BY <1>1, <1>2 DEF RootLoaded, FileOf
<1> QED  BY <1>7, <1>8, <1>10, <1>11, <1>12, <1>13, <1>14

\* What is said of the modules and the calls is said of them still.
LEMMA StillLoaded ==
  ASSUME UNCHANGED <<fs, text, roots>>, l_mods' = l_mods, ModulesLoaded, BindingsLoaded
  PROVE  ModulesLoaded' /\ BindingsLoaded' /\ (RootLoaded => RootLoaded')
<1>1. fs' = fs /\ text' = text /\ roots' = roots  OBVIOUS
<1>2. \A m : FileOf(m)' = FileOf(m)  BY DEF FileOf
<1>3. ModulesLoaded'  BY <1>1 DEF ModulesLoaded, FileOf
<1>4. BindingsLoaded'  BY <1>1 DEF BindingsLoaded, FileOf
<1>5. RootLoaded => RootLoaded'  BY <1>1 DEF RootLoaded, FileOf
<1> QED  BY <1>3, <1>4, <1>5

LEMMA StillCalled ==
  ASSUME UNCHANGED <<fs, text, roots>>, l_mods' = l_mods, NEW calls, l_stack' = calls,
         CallsStand(calls), CallsWait(calls), NoneForgotten(calls)
  PROVE  CallsStand(l_stack)' /\ CallsWait(l_stack)' /\ NoneForgotten(l_stack)'
<1>1. fs' = fs /\ text' = text  OBVIOUS
<1>2. CallsStand(l_stack)'  BY <1>1 DEF CallsStand, FileOf, Rest
<1>3. CallsWait(l_stack)'  BY <1>1 DEF CallsWait, Asks, FileOf
<1>4. NoneForgotten(l_stack)'  BY <1>1 DEF NoneForgotten, FileOf, Rest
<1> QED  BY <1>2, <1>3, <1>4

\* What the call on top asks for is a file of the program, or there is none.
LEMMA AsksReached ==
  ASSUME Held, ModulesLoaded, CallsStand(l_stack), l_stack # <<>>,
         l_stack[Len(l_stack)].left # <<>>
  PROVE  /\ Asks(l_stack, Len(l_stack)) \in Reached(fs, text, roots)
         /\ Asks(l_stack, Len(l_stack)) =
              Resolve(fs, Head(l_stack[Len(l_stack)].left).file, l_stack[Len(l_stack)].dir)
<1> DEFINE top == l_stack[Len(l_stack)]
           b == Head(top.left)
           g == FileOf(top.mod)
<1>1. Len(l_stack) \in DOMAIN l_stack
  <2> DEFINE N == Len(l_stack)
  <2>1. N \in Nat \ {0} /\ DOMAIN l_stack = 1 .. N  BY TailListed DEF CallsStand
  <2> HIDE DEF N
  <2>2. N \in 1 .. N  BY <2>1
  <2> QED  BY <2>1, <2>2 DEF N
<1>2. /\ top.mod \in DOMAIN l_mods /\ top.dir = DirOf(fs, g) /\ Listed(top.left)
      /\ Rest(top) \subseteq BoundBy(text[g])
  BY <1>1 DEF CallsStand
<1>3. b \in Rest(top)
  <2> DEFINE s == top.left
  <2>1. Listed(s) /\ s # <<>>  BY <1>2
  <2> HIDE DEF s
  <2>2. Len(s) \in Nat \ {0} /\ DOMAIN s = 1 .. Len(s) /\ Head(s) = s[1]
    BY <2>1, TailListed
  <2>3. 1 \in DOMAIN s  BY <2>2
  <2>4. Head(s) \in {s[k] : k \in DOMAIN s}  BY <2>2, <2>3
  <2> QED  BY <2>4 DEF s, Rest
<1>4. b \in BoundBy(text[g]) /\ g \in Reached(fs, text, roots) /\ \E p \in DOMAIN fs : fs[p] = g
  BY <1>2, <1>3 DEF ModulesLoaded
<1>5. Asks(l_stack, Len(l_stack)) = Reaches(fs, g, b)  BY DEF Asks
<1>6. Reaches(fs, g, b) = Resolve(fs, b.file, top.dir)  BY <1>2 DEF Reaches
<1> HIDE DEF top, b, g
<1>7. \A p \in DOMAIN fs : fs[p] \in Ino  BY DEF Held
<1>8. Reaches(fs, g, b) \in Ino \cup {NoFile}  BY <1>6, <1>7, ResolveIsFile
<1>9. PICK p \in DOMAIN fs : fs[p] = g  BY <1>4
<1>10. Reaches(fs, g, b) \in Reached(fs, text, roots)
  BY <1>4, <1>8, <1>9, BoundReached
<1> QED  BY <1>5, <1>6, <1>10 DEF b, top

\* The path in hand is a file of the program, or there is none.
LEMMA HandLoaded ==
  ASSUME Quietly, Loading, l_pc = "take"
  PROVE  /\ imp_ident(fs, l_path) \in Reached(fs, text, roots)
         /\ l_stack = <<>> => l_n = 1 /\ l_mods = <<>> /\ l_path = roots[1]
<1>1. CASE l_stack # <<>>
  <2>1. l_stack[Len(l_stack)].left # <<>> /\ imp_ident(fs, l_path) = Asks(l_stack, Len(l_stack))
    BY <1>1 DEF Loading, InTurn
  <2> QED  BY <1>1, <2>1, AsksReached DEF Quietly, Loading
<1>2. CASE l_stack = <<>>
  <2>1. l_n = 1 /\ l_mods = <<>> /\ l_path = roots[1]
    BY <1>2 DEF Loading, RootTurn
  <2>2. 1 \in DOMAIN roots  BY ListedFacts DEF Quietly, Held
  <2>3. \A p \in DOMAIN fs : fs[p] \in Ino  BY DEF Quietly, Held
  <2> QED  BY <2>1, <2>2, <2>3, RootsReached
<1> QED  BY <1>1, <1>2

\* What a step of the loader comes to.
LoadedOn ==
  /\ l_pc' \in {"next", "take", "done"}
  /\ IF l_why' = "nothing" THEN Loading'
     ELSE l_pc' = "done" /\ Answer(fs, text, roots)' = Refused

LEMMA SameAnswerStill ==
  UNCHANGED vars => Answer(fs, text, roots)' = Answer(fs, text, roots)
  BY DEF vars

\* A step that changes neither modules nor calls.
LEMMA TurnLoads ==
  ASSUME UNCHANGED <<fs, text, roots>>, Loading, l_mods' = l_mods, l_stack' = l_stack,
         RootTurn', InTurn'
  PROVE  Loading'
<1>1. ModulesLoaded' /\ BindingsLoaded'  BY StillLoaded DEF Loading
<1>2. CallsStand(l_stack)' /\ CallsWait(l_stack)' /\ NoneForgotten(l_stack)'
  BY StillCalled DEF Loading
<1> QED  BY <1>1, <1>2 DEF Loading

LEMMA NextRootLoads ==
  ASSUME Quietly, UNCHANGED vars, Loading, l_why = "nothing", Interp!NextRoot
  PROVE  LoadedOn
<1>1. /\ l_stack = <<>> /\ l_n <= Len(roots) /\ l_path' = roots[l_n] /\ l_pc' = "take"
      /\ l_n' = l_n /\ l_mods' = l_mods /\ l_stack' = l_stack /\ l_why' = l_why
  BY DEF Interp!NextRoot
<1>2. Len(roots) = 1 /\ roots' = roots  BY DEF Quietly, Loaded, vars
<1>3. l_n = 1 /\ l_mods = <<>>  BY <1>1, <1>2 DEF Loading, RootTurn
<1>4. RootTurn' /\ InTurn'  BY <1>1, <1>2, <1>3 DEF RootTurn, InTurn
<1> QED  BY <1>1, <1>4, TurnLoads DEF LoadedOn, vars

LEMMA FinishLoads ==
  ASSUME Quietly, UNCHANGED vars, Loading, l_why = "nothing", Interp!Finish
  PROVE  LoadedOn /\ l_why' = "nothing" /\ l_pc' = "done" /\ l_stack = <<>> /\ RootLoaded
         /\ l_mods' = l_mods
<1>1. /\ l_stack = <<>> /\ l_n > Len(roots) /\ l_pc' = "done"
      /\ l_n' = l_n /\ l_mods' = l_mods /\ l_stack' = l_stack /\ l_why' = l_why
  BY DEF Interp!Finish
<1>2. Len(roots) = 1 /\ roots' = roots  BY DEF Quietly, Loaded, vars
<1>3. l_n = 2 /\ RootLoaded  BY <1>1, <1>2 DEF Loading, RootTurn
<1>4. RootLoaded'  BY <1>1, <1>3, StillLoaded DEF Loading, vars
<1>5. RootTurn' /\ InTurn'  BY <1>1, <1>3, <1>4 DEF RootTurn, InTurn
<1> QED  BY <1>1, <1>3, <1>5, TurnLoads DEF LoadedOn, vars

LEMMA FollowLoads ==
  ASSUME Quietly, UNCHANGED vars, Loading, l_why = "nothing", Interp!Follow
  PROVE  LoadedOn
<1> DEFINE top == l_stack[Len(l_stack)]
           s == Candidates(Head(top.left).file, top.dir)
<1>1. /\ l_pc = "next" /\ l_stack # <<>> /\ top.left # <<>>
      /\ l_n' = l_n /\ l_mods' = l_mods /\ l_stack' = l_stack
      /\ IF Hits(fs, s) = {} THEN l_why' = "cannot find" /\ l_pc' = "done"
         ELSE /\ l_path' = s[CHOOSE k \in Hits(fs, s) : \A l \in Hits(fs, s) : k <= l]
              /\ l_pc' = "take" /\ l_why' = l_why
  <2> HIDE DEF top
  <2>1. Interp!Top = top  BY DEF Interp!Top, top
  <2>2. \A f, p : Interp!imp_ident(f, p) = imp_ident(f, p)  BY SameFiles
  <2>3. Interp!Candidates(Head(top.left).file, top.dir) = s  BY SameFiles
  <2> HIDE DEF s
  <2>4. {k \in DOMAIN s : Interp!imp_ident(fs, s[k]) # Interp!NoFile} = Hits(fs, s)
    BY <2>2, SameFiles DEF Hits
  <2> QED  BY <2>1, <2>3, <2>4 DEF Interp!Follow
<1>2. /\ Asks(l_stack, Len(l_stack)) \in Reached(fs, text, roots)
      /\ Asks(l_stack, Len(l_stack)) = FirstHit(fs, s)
  BY <1>1, AsksReached, ResolveIsFirst DEF Quietly, Loading
<1> HIDE DEF s
<1>3. CASE Hits(fs, s) = {}
  <2>1. Asks(l_stack, Len(l_stack)) = NoFile  BY <1>2, <1>3 DEF FirstHit
  <2>2. Answer(fs, text, roots) = Refused  BY <1>2, <2>1, AnswerRefused
  <2> QED  BY <1>1, <1>3, <2>2, SameAnswerStill DEF LoadedOn
<1>4. CASE Hits(fs, s) # {}
  <2>1. l_pc' = "take" /\ l_why' = l_why /\ imp_ident(fs, l_path') = FirstHit(fs, s)
    BY <1>1, <1>4 DEF FirstHit
  <2>2. fs' = fs /\ text' = text  BY DEF vars
  <2>3. InTurn'  BY <1>1, <1>2, <2>1, <2>2 DEF InTurn, Asks, FileOf
  <2>4. RootLoaded'  BY <1>1, StillLoaded DEF Loading, RootTurn, vars
  <2>5. RootTurn'  BY <1>1, <2>4 DEF Loading, RootTurn
  <2> QED  BY <1>1, <2>1, <2>3, <2>5, TurnLoads DEF LoadedOn, vars
<1> QED  BY <1>3, <1>4

\* After an answer a call goes on, or the command line does.
LEMMA AnsweredLoads ==
  ASSUME Quietly, UNCHANGED vars, ModulesLoaded, BindingsLoaded, RootLoaded,
         l_n = 1, l_why' = "nothing",
         NEW calls, CallsStand(calls), CallsWait(calls), NoneForgotten(calls),
         NEW m \in DOMAIN l_mods,
         calls # <<>> => /\ calls[Len(calls)].left # <<>>
                         /\ FileOf(m) = Asks(calls, Len(calls)),
         Interp!Answered(calls, m, l_mods)
  PROVE  LoadedOn
<1>1. l_pc' = "next"  BY DEF Interp!Answered
<1>2. CASE calls = <<>>
  <2>1. l_n' = 2 /\ l_mods' = l_mods /\ l_stack' = <<>>  BY <1>2 DEF Interp!Answered
  <2>2. ModulesLoaded' /\ BindingsLoaded' /\ RootLoaded'  BY <2>1, StillLoaded DEF vars
  <2>3. CallsStand(l_stack)' /\ CallsWait(l_stack)' /\ NoneForgotten(l_stack)'
    BY <1>2, <2>1, StillCalled DEF vars
  <2>4. RootTurn' /\ InTurn'  BY <1>1, <2>1, <2>2 DEF RootTurn, InTurn
  <2> QED  BY <1>1, <2>2, <2>3, <2>4 DEF LoadedOn, Loading
<1>3. CASE calls # <<>>
  <2>1. Interp!Bound(calls, m, l_mods) /\ l_n' = l_n  BY <1>3 DEF Interp!Answered
  <2>2. /\ ModulesLoaded' /\ BindingsLoaded'
        /\ CallsStand(l_stack)' /\ CallsWait(l_stack)' /\ NoneForgotten(l_stack)'
        /\ l_stack' # <<>> /\ RootLoaded'
    BY <1>3, <2>1, BoundLoads
  <2>3. RootTurn' /\ InTurn'  BY <1>1, <2>1, <2>2 DEF RootTurn, InTurn
  <2> QED  BY <1>1, <2>2, <2>3 DEF LoadedOn, Loading
<1> QED  BY <1>2, <1>3

LEMMA KnownLoads ==
  ASSUME Quietly, UNCHANGED vars, Loading, l_why = "nothing", Interp!TakeKnown
  PROVE  LoadedOn
<1>1. PICK m \in Interp!by_path(Interp!imp_ident(fs, l_path)) : Interp!Answered(l_stack, m, l_mods)
  BY DEF Interp!TakeKnown
<1>2. l_pc = "take" /\ l_why' = "nothing"  BY DEF Interp!TakeKnown
<1>3. m \in DOMAIN l_mods /\ FileOf(m) = imp_ident(fs, l_path)
  BY SameFiles DEF Interp!by_path, FileOf
<1>4. l_stack # <<>>
  <2>1. DOMAIN <<>> = {}  BY EmptyListed, ListedFacts
  <2> QED  BY <1>2, <1>3, <2>1, HandLoaded
<1>5. /\ l_stack[Len(l_stack)].left # <<>> /\ FileOf(m) = Asks(l_stack, Len(l_stack))
      /\ l_n = 1 /\ RootLoaded
  BY <1>2, <1>3, <1>4 DEF Loading, InTurn, RootTurn
<1> QED  BY <1>1, <1>2, <1>3, <1>5, AnsweredLoads DEF Loading

LEMMA RefusedLoads ==
  ASSUME Quietly, UNCHANGED vars, Loading, l_why = "nothing", Interp!TakeRefused
  PROVE  LoadedOn
<1> DEFINE f == imp_ident(fs, l_path)
<1>1. /\ l_pc = "take" /\ l_pc' = "done" /\ Interp!by_path(f) = {}
      /\ f \in Interp!being \cup {NoFile}
  BY SameFiles DEF Interp!TakeRefused
<1>2. l_why' # "nothing"  BY DEF Interp!TakeRefused
<1>3. f \notin Interp!being
  <2> SUFFICES ASSUME NEW k \in DOMAIN l_stack, f = l_mods[l_stack[k].mod].file PROVE FALSE
    BY DEF Interp!being
  <2>1. l_stack[k].mod \in DOMAIN l_mods  BY DEF Loading, CallsStand
  <2>2. l_stack[k].mod \in Interp!by_path(f)  BY <2>1 DEF Interp!by_path
  <2> QED  BY <1>1, <2>2
<1>4. NoFile \in Reached(fs, text, roots)  BY <1>1, <1>3, HandLoaded
<1>5. Answer(fs, text, roots) = Refused  BY <1>4, AnswerRefused
<1> QED  BY <1>1, <1>2, <1>5, SameAnswerStill DEF LoadedOn

LEMMA ReturnLoads ==
  ASSUME Quietly, UNCHANGED vars, Loading, l_why = "nothing", Interp!Return
  PROVE  LoadedOn
<1> DEFINE N == Len(l_stack)
           m == l_stack[N].mod
           below == SubSeq(l_stack, 1, N - 1)
<1>1. /\ l_stack # <<>> /\ l_stack[N].left = <<>> /\ l_why' = "nothing"
      /\ Interp!Answered(below, m, l_mods)
  BY DEF Interp!Return, Interp!Top, Interp!Below
<1>2. CallsStand(below) /\ CallsWait(below) /\ NoneForgotten(below)
  BY <1>1, BelowStands DEF Loading
<1>3. /\ N \in Nat \ {0} /\ DOMAIN l_stack = 1 .. N
      /\ Listed(below) /\ Len(below) = N - 1
      /\ \A k \in 1 .. N - 1 : below[k] = l_stack[k]
  BY <1>1, BelowListed DEF Loading, CallsStand
<1> HIDE DEF N, below
<1>4. N \in DOMAIN l_stack  BY <1>3
<1>5. m \in DOMAIN l_mods  BY <1>4 DEF Loading, CallsStand
<1>6. l_n = 1 /\ RootLoaded  BY <1>1 DEF Loading, RootTurn
<1>7. ASSUME below # <<>>
      PROVE  below[Len(below)].left # <<>> /\ FileOf(m) = Asks(below, Len(below))
  <2>1. Len(below) # 0
    <3>1. PICK S : below \in Seq(S)  BY <1>3 DEF Listed
    <3> QED  BY <1>7, <3>1, EmptySeq
  <2>2. N - 1 \in 1 .. N - 1 /\ (N - 1) + 1 = N  BY <1>3, <2>1
  <2>3. l_stack[N - 1].left # <<>> /\ FileOf(l_stack[N].mod) = Asks(l_stack, N - 1)
    BY <2>2 DEF Loading, CallsWait, N
  <2>4. below[Len(below)] = l_stack[N - 1] /\ Len(below) = N - 1  BY <1>3, <2>2
  <2> QED  BY <2>3, <2>4 DEF Asks
<1> HIDE DEF m
<1> QED  BY <1>1, <1>2, <1>5, <1>6, <1>7, AnsweredLoads DEF Loading

\* A new file is a module that has bound nothing, and a call that has all of it
\* to follow.
LEMMA LoadLoads ==
  ASSUME Quietly, UNCHANGED vars, Loading, l_why = "nothing", Interp!Load
  PROVE  LoadedOn
<1> DEFINE f == imp_ident(fs, l_path)
           M == Len(l_mods)
           N == Len(l_stack)
           met == BindsOf(text[f])
<1>1. /\ l_pc = "take" /\ l_pc' = "next" /\ f # NoFile
      /\ l_mods' = Append(l_mods, [file |-> f, bindings |-> <<>>])
      /\ l_n' = l_n /\ l_why' = l_why
  BY SameFiles DEF Interp!Load
<1>2. fs' = fs /\ text' = text /\ roots' = roots  BY DEF vars
<1>3. /\ l_path \in DOMAIN fs /\ fs[l_path] = f /\ f \in Ino
      /\ f \in Reached(fs, text, roots)
  BY <1>1, HandLoaded DEF imp_ident, Quietly, Held
<1>4. l_path.dir = DirOf(fs, f)
  <2>1. \A p \in DOMAIN fs : fs[p] = f => p.dir = l_path.dir
    BY <1>3 DEF Quietly, Held, OneDirectory
  <2> QED  BY <1>3, <2>1 DEF DirOf
<1>5. Listed(met) /\ {met[k] : k \in DOMAIN met} = BoundBy(text[f])
  BY <1>3, BindsListed DEF Quietly, Quiet
<1>6. l_stack' = Append(l_stack, [mod |-> M + 1, dir |-> l_path.dir, left |-> met])
  <2>1. Interp!BindsOf(text[f]) = met  BY <1>3, SameBinds DEF Quietly, Quiet
  <2>2. Interp!imp_ident(fs, l_path) = f  BY SameFiles
  <2> HIDE DEF f, met
  <2> QED  BY <2>1, <2>2 DEF Interp!Load
<1> HIDE DEF f, met
<1>7. /\ Listed(l_mods') /\ M \in Nat /\ DOMAIN l_mods = 1 .. M
      /\ DOMAIN l_mods' = 1 .. M + 1
      /\ \A k \in 1 .. M : l_mods'[k] = l_mods[k]
      /\ l_mods'[M + 1] = [file |-> f, bindings |-> <<>>]
  BY <1>1, AppendListed, ListedFacts DEF Loading, ModulesLoaded
<1>8. /\ Listed(l_stack') /\ N \in Nat /\ DOMAIN l_stack = 1 .. N
      /\ Len(l_stack') = N + 1 /\ DOMAIN l_stack' = 1 .. N + 1
      /\ \A k \in 1 .. N : l_stack'[k] = l_stack[k]
      /\ l_stack'[N + 1] = [mod |-> M + 1, dir |-> l_path.dir, left |-> met]
  BY <1>6, AppendListed, ListedFacts DEF Loading, CallsStand
<1> HIDE DEF M, N
<1>9. /\ DOMAIN l_mods \subseteq DOMAIN l_mods' /\ M + 1 \in DOMAIN l_mods'
      /\ \A k \in DOMAIN l_mods' : k \in DOMAIN l_mods \/ k = M + 1
      /\ \A k \in DOMAIN l_mods : l_mods'[k] = l_mods[k]
      /\ l_mods'[M + 1].file = f /\ DOMAIN l_mods'[M + 1].bindings = {}
  BY <1>7, EmptyListed, ListedFacts
<1>10. /\ \A k \in DOMAIN l_stack' : k \in DOMAIN l_stack \/ k = N + 1
       /\ \A k \in DOMAIN l_stack : k \in DOMAIN l_stack' /\ l_stack'[k] = l_stack[k]
       /\ N + 1 \in DOMAIN l_stack'
       /\ l_stack'[N + 1].mod = M + 1 /\ l_stack'[N + 1].dir = l_path.dir
       /\ l_stack'[N + 1].left = met
  BY <1>8
<1>11. ModulesLoaded'
  <2> SUFFICES ASSUME NEW k \in DOMAIN l_mods'
               PROVE  /\ l_mods'[k] = [file |-> l_mods'[k].file, bindings |-> l_mods'[k].bindings]
                      /\ \E p \in DOMAIN fs : fs[p] = l_mods'[k].file
                      /\ l_mods'[k].file \in Reached(fs, text, roots)
    BY <1>2, <1>7 DEF ModulesLoaded, FileOf
  <2>1. CASE k \in DOMAIN l_mods
    BY <1>9, <2>1 DEF Loading, ModulesLoaded, FileOf
  <2>2. CASE k = M + 1
    BY <1>3, <1>7, <1>9, <2>2
  <2> QED  BY <1>9, <2>1, <2>2
<1>12. BindingsLoaded'
  <2> SUFFICES ASSUME NEW k \in DOMAIN l_mods', NEW x \in DOMAIN l_mods'[k].bindings
               PROVE  /\ l_mods'[k].bindings[x] \in DOMAIN l_mods'
                      /\ \E b \in BoundBy(text[l_mods'[k].file]) :
                           /\ b.name = x
                           /\ l_mods'[l_mods'[k].bindings[x]].file
                                = Reaches(fs, l_mods'[k].file, b)
    BY <1>2 DEF BindingsLoaded, FileOf
  <2>1. k \in DOMAIN l_mods  BY <1>9
  <2>2. l_mods'[k] = l_mods[k]  BY <1>9, <2>1
  <2>3. /\ l_mods[k].bindings[x] \in DOMAIN l_mods
        /\ \E b \in BoundBy(text[l_mods[k].file]) :
             b.name = x /\ l_mods[l_mods[k].bindings[x]].file = Reaches(fs, l_mods[k].file, b)
    BY <2>1, <2>2 DEF Loading, BindingsLoaded, FileOf
  <2> QED  BY <1>9, <2>2, <2>3
<1>13. CallsStand(l_stack)'
  <2> SUFFICES ASSUME NEW k \in DOMAIN l_stack'
               PROVE  /\ l_stack'[k] = [mod |-> l_stack'[k].mod, dir |-> l_stack'[k].dir,
                                        left |-> l_stack'[k].left]
                      /\ l_stack'[k].mod \in DOMAIN l_mods'
                      /\ l_stack'[k].dir = DirOf(fs, l_mods'[l_stack'[k].mod].file)
                      /\ Listed(l_stack'[k].left)
                      /\ Rest(l_stack'[k]) \subseteq BoundBy(text[l_mods'[l_stack'[k].mod].file])
    BY <1>2, <1>8 DEF CallsStand, FileOf
  <2>1. CASE k \in DOMAIN l_stack
    <3>1. l_stack'[k] = l_stack[k] /\ l_stack[k].mod \in DOMAIN l_mods
      BY <1>10, <2>1 DEF Loading, CallsStand
    <3>2. l_mods'[l_stack[k].mod] = l_mods[l_stack[k].mod]  BY <1>9, <3>1
    <3> QED  BY <1>9, <2>1, <3>1, <3>2 DEF Loading, CallsStand, FileOf
  <2>2. CASE k = N + 1
    <3>1. Rest(l_stack'[k]) = BoundBy(text[f])  BY <1>5, <1>10, <2>2 DEF Rest
    <3>2. l_stack'[k] = [mod |-> l_stack'[k].mod, dir |-> l_stack'[k].dir,
                         left |-> l_stack'[k].left]
      BY <1>8, <1>10, <2>2
    <3>3. l_mods'[l_stack'[k].mod].file = f /\ l_stack'[k].mod \in DOMAIN l_mods'
      BY <1>9, <1>10, <2>2
    <3> QED  BY <1>4, <1>5, <1>10, <2>2, <3>1, <3>2, <3>3
  <2> QED  BY <1>10, <2>1, <2>2
<1>14. CallsWait(l_stack)'
  <2> SUFFICES ASSUME NEW k \in 1 .. N
               PROVE  /\ l_stack'[k].left # <<>>
                      /\ l_mods'[l_stack'[k + 1].mod].file =
                           Reaches(fs, l_mods'[l_stack'[k].mod].file, Head(l_stack'[k].left))
    <3>1. Len(l_stack') - 1 = N  BY <1>8
    <3> QED  BY <1>2, <3>1 DEF CallsWait, Asks, FileOf
  <2>1. k \in DOMAIN l_stack /\ l_stack'[k] = l_stack[k]  BY <1>8
  <2>2. l_stack[k].mod \in DOMAIN l_mods  BY <2>1 DEF Loading, CallsStand
  <2>3. l_mods'[l_stack[k].mod] = l_mods[l_stack[k].mod]  BY <1>9, <2>2
  <2>4. CASE k = N
    <3>1. l_stack # <<>>
      <4>1. 0 \notin 1 .. 0 /\ N # 0  BY <1>8, <2>4
      <4> QED  BY <4>1, EmptyListed DEF N
    <3>2. l_stack[k].left # <<>> /\ f = Asks(l_stack, k)
      BY <1>1, <2>4, <3>1 DEF Loading, InTurn, f, N
    <3>3. l_mods'[l_stack'[k + 1].mod].file = f  BY <1>9, <1>10, <2>4
    <3> QED  BY <2>1, <2>3, <3>2, <3>3 DEF Asks, FileOf
  <2>5. CASE k # N
    <3>1. k \in 1 .. N - 1 /\ k + 1 \in 1 .. N  BY <1>8, <2>5
    <3>2. k + 1 \in DOMAIN l_stack /\ l_stack'[k + 1] = l_stack[k + 1]  BY <1>8, <3>1
    <3>3. l_stack[k + 1].mod \in DOMAIN l_mods  BY <3>2 DEF Loading, CallsStand
    <3>4. l_mods'[l_stack[k + 1].mod] = l_mods[l_stack[k + 1].mod]  BY <1>9, <3>3
    <3>5. l_stack[k].left # <<>> /\ FileOf(l_stack[k + 1].mod) = Asks(l_stack, k)
      BY <3>1 DEF Loading, CallsWait, N
    <3> QED  BY <2>1, <2>3, <3>2, <3>4, <3>5 DEF Asks, FileOf
  <2> QED  BY <2>4, <2>5
<1>15. NoneForgotten(l_stack)'
  <2> SUFFICES ASSUME NEW j \in DOMAIN l_mods', NEW b \in BoundBy(text[l_mods'[j].file]),
                      b.name \notin DOMAIN l_mods'[j].bindings
               PROVE  \E k \in DOMAIN l_stack' : l_stack'[k].mod = j /\ b \in Rest(l_stack'[k])
    BY <1>2 DEF NoneForgotten, FileOf, Rest
  <2>1. CASE j = M + 1
    <3>1. b \in {met[k] : k \in DOMAIN met}  BY <1>5, <1>9, <2>1
    <3>2. b \in Rest(l_stack'[N + 1])  BY <1>10, <3>1 DEF Rest
    <3> QED  BY <1>10, <2>1, <3>2
  <2>2. CASE j \in DOMAIN l_mods
    <3>1. l_mods'[j] = l_mods[j]  BY <1>9, <2>2
    <3>2. PICK k \in DOMAIN l_stack : l_stack[k].mod = j /\ b \in Rest(l_stack[k])
      BY <2>2, <3>1 DEF Loading, NoneForgotten, FileOf
    <3> QED  BY <1>10, <3>2
  <2> QED  BY <1>9, <2>1, <2>2
<1>16. RootLoaded' /\ l_n = 1
  <2>1. CASE l_stack = <<>>
    <3>1. l_path = roots[1] /\ l_n = 1  BY <1>1, <2>1, HandLoaded
    <3>2. l_mods'[M + 1].file = imp_ident(fs, roots[1])  BY <1>9, <3>1 DEF f
    <3> QED  BY <1>2, <1>9, <3>1, <3>2 DEF RootLoaded, FileOf
  <2>2. CASE l_stack # <<>>
    <3>1. RootLoaded /\ l_n = 1  BY <1>1, <2>2 DEF Loading, RootTurn
    <3>2. PICK m \in DOMAIN l_mods : l_mods[m].file = imp_ident(fs, roots[1])
      BY <3>1 DEF RootLoaded, FileOf
    <3>3. m \in DOMAIN l_mods' /\ l_mods'[m].file = imp_ident(fs, roots[1])  BY <1>9, <3>2
    <3> QED  BY <1>2, <3>1, <3>3 DEF RootLoaded, FileOf
  <2> QED  BY <2>1, <2>2
<1>17. l_stack' # <<>>  BY <1>8, EmptyListed
<1>18. RootTurn' /\ InTurn'  BY <1>1, <1>16, <1>17 DEF RootTurn, InTurn
<1> QED  BY <1>1, <1>11, <1>12, <1>13, <1>14, <1>15, <1>18 DEF LoadedOn, Loading

-----------------------------------------------------------------------------
\* The interpreter's reader answers what the files say.

LEMMA InitLoads == LinksStay /\ LoadableTrees /\ ReadersInit => LoadInv
<1> SUFFICES ASSUME LinksStay, LoadableTrees, ReadersInit PROVE LoadInv  OBVIOUS
<1>1. AnswerInv  BY InitAnswer DEF ReadersInit
<1>2. /\ l_pc = "next" /\ l_n = 1 /\ l_mods = <<>> /\ l_stack = <<>> /\ l_why = "nothing"
  BY DEF ReadersInit, Interp!Start
<1>3. PICK tree \in Trees : fs = tree.fs /\ text = tree.text /\ roots = tree.roots
                            /\ busy = tree.busy
  BY DEF ReadersInit, Init
<1>4. Quiet
  BY <1>3, TreesAssumption DEF ReadersInit, Init, Quiet, Loaded, LoadableTrees
<1>5. DOMAIN l_mods = {} /\ DOMAIN l_stack = {} /\ Listed(l_mods) /\ Listed(l_stack)
      /\ Len(l_stack) = 0
  BY <1>2, EmptyListed, ListedFacts
<1>6. ModulesLoaded /\ BindingsLoaded /\ CallsStand(l_stack) /\ NoneForgotten(l_stack)
  BY <1>5 DEF ModulesLoaded, BindingsLoaded, CallsStand, NoneForgotten
<1>7. CallsWait(l_stack)  BY <1>5 DEF CallsWait
<1>8. RootTurn /\ InTurn  BY <1>2 DEF RootTurn, InTurn
<1> QED  BY <1>1, <1>2, <1>4, <1>6, <1>7, <1>8 DEF LoadInv, Loading

\* Nobody saves a file of a tree the interpreter is run over.
LEMMA NextQuiet ==
  ASSUME LoadInv, [Next]_vars, UNCHANGED loaderVars
  PROVE  LoadInv'
<1>1. AnswerInv'  BY NextAnswer DEF LoadInv
<1>2. roots' = roots /\ busy' = busy
  BY DEF Next, Save, SaveInPlace, SaveByRename, Reader, FindRoot, RootsDone, FindBinding,
         Probe, NotFound, BindingsDone, Known, CannotOpen, ReadFile, editorVars, vars
<1>3. l_pc' = l_pc /\ l_n' = l_n /\ l_path' = l_path /\ l_mods' = l_mods
      /\ l_stack' = l_stack /\ l_why' = l_why
  BY DEF loaderVars
<1>4. CASE ~Loaded
  <2>1. ~Loaded'  BY <1>2, <1>4 DEF Loaded
  <2> QED  BY <1>1, <1>3, <2>1 DEF LoadInv, Quiet
<1>5. CASE Loaded
  <2>1. fs' = fs /\ text' = text /\ saves' = saves
    BY <1>5 DEF Loaded, Next, Save, SaveInPlace, SaveByRename, Reader, FindRoot, RootsDone,
                FindBinding, Probe, NotFound, BindingsDone, Known, CannotOpen, ReadFile,
                editorVars, vars
  <2>2. Quiet'  BY <1>2, <2>1 DEF LoadInv, Quiet, Loaded
  <2>3. Loading => Loading'
    <3> SUFFICES ASSUME Loading PROVE Loading'  OBVIOUS
    <3>1. RootLoaded => RootLoaded'  BY <1>2, <1>3, <2>1, StillLoaded DEF Loading
    <3>2. RootTurn'  BY <1>2, <1>3, <3>1 DEF Loading, RootTurn
    <3>3. InTurn'  BY <1>3, <2>1 DEF Loading, InTurn, Asks, FileOf
    <3> QED  BY <1>2, <1>3, <2>1, <3>2, <3>3, TurnLoads
  <2>4. Answer(fs, text, roots)' = Answer(fs, text, roots)  BY <1>2, <2>1
  <2> QED  BY <1>1, <1>3, <1>5, <2>2, <2>3, <2>4 DEF LoadInv
<1> QED  BY <1>4, <1>5

LEMMA LoadsQuietly ==
  ASSUME LoadInv, Loads
  PROVE  /\ Quietly /\ Loading /\ l_why = "nothing" /\ UNCHANGED vars
         /\ l_pc # "done" /\ Interp!Next
<1>1. Loaded /\ Interp!Next /\ l_pc # "done"
  BY DEF Loads, Interp!Next, Interp!NextRoot, Interp!Finish, Interp!Follow, Interp!TakeKnown,
         Interp!TakeRefused, Interp!Load, Interp!Return
<1>2. Quietly  BY <1>1 DEF LoadInv, AnswerInv, Quiet, Quietly
<1> QED  BY <1>1, <1>2, LoadsStill DEF LoadInv

LEMMA NextLoads ==
  ASSUME LoadInv, Loads
  PROVE  LoadInv'
<1>1. /\ Quietly /\ Loading /\ l_why = "nothing" /\ UNCHANGED vars /\ Interp!Next
  BY LoadsQuietly
<1>2. LoadedOn
  BY <1>1, NextRootLoads, FinishLoads, FollowLoads, KnownLoads, RefusedLoads, LoadLoads,
     ReturnLoads DEF Interp!Next
<1>3. AnswerInv'  BY <1>1, NextAnswer DEF LoadInv
<1> QED  BY <1>1, <1>2, <1>3, StillQuiet DEF LoadInv, LoadedOn, Quietly

\* What loading answers, as the abstract specification sees it.
FileBinds(m) ==
  {[owner |-> {l_mods[m].file}, name |-> name,
    to |-> {l_mods[l_mods[m].bindings[name]].file}] : name \in DOMAIN l_mods[m].bindings}
LoadSaid ==
  IF l_pc # "done" THEN Interp!NotRead
  ELSE IF l_why # "nothing" THEN Interp!Refused
  ELSE Interp!Program({{l_mods[m].file} : m \in DOMAIN l_mods},
                      UNION {FileBinds(m) : m \in DOMAIN l_mods})

LEMMA SameSaid ==
  /\ Interp!NotRead = NotRead /\ Interp!PR!NotRead = NotRead
  /\ Interp!Refused = Refused
  /\ \A modules, binds : Interp!Program(modules, binds) = Program(modules, binds)
  BY DEF Interp!NotRead, NotRead, Interp!PR!NotRead, Interp!Refused, Refused,
         Interp!Program, Program

\* When the command line has been answered, the files loaded are those it reaches.
LEMMA AllLoaded ==
  ASSUME Quietly, Loading, l_stack = <<>>, RootLoaded
  PROVE  Reached(fs, text, roots) = {FileOf(m) : m \in DOMAIN l_mods}
<1> DEFINE F == {FileOf(m) : m \in DOMAIN l_mods}
<1>1. \A p \in DOMAIN fs : fs[p] \in Ino  BY DEF Quietly, Held
<1>2. F \subseteq Ino \cup {NoFile}  BY <1>1 DEF Loading, ModulesLoaded
<1>3. RootFiles(fs, roots) \subseteq F
  <2>1. DOMAIN roots = 1 .. 1  BY ListedFacts DEF Quietly, Held, Loaded
  <2>2. \A i \in DOMAIN roots : i = 1  BY <2>1
  <2> QED  BY <2>2 DEF RootFiles, RootLoaded
<1>4. ASSUME NEW m \in DOMAIN l_mods, NEW b \in BoundBy(text[FileOf(m)])
      PROVE  Reaches(fs, FileOf(m), b) \in F
  <2>1. DOMAIN l_stack = {}  BY EmptyListed, ListedFacts
  <2>2. b.name \in DOMAIN l_mods[m].bindings  BY <2>1 DEF Loading, NoneForgotten
  <2>3. PICK c \in BoundBy(text[FileOf(m)]) :
          /\ c.name = b.name
          /\ l_mods[m].bindings[b.name] \in DOMAIN l_mods
          /\ FileOf(l_mods[m].bindings[b.name]) = Reaches(fs, FileOf(m), c)
    BY <2>2 DEF Loading, BindingsLoaded
  <2>4. FileOf(m) \in Ino  BY <1>1 DEF Loading, ModulesLoaded
  <2>5. c = b  BY <2>3, <2>4 DEF Quietly, Quiet, Followable
  <2> QED  BY <2>3, <2>5
<1>5. Closed(fs, text, roots, F)
  <2>1. ASSUME NEW g \in F, NEW b \in BoundBy(text[g]) PROVE Reaches(fs, g, b) \in F
    <3>1. PICK m \in DOMAIN l_mods : g = FileOf(m)  OBVIOUS
    <3> HIDE DEF F
    <3> QED  BY <1>4, <2>1, <3>1
  <2> HIDE DEF F
  <2> QED  BY <1>2, <1>3, <2>1 DEF Closed
<1>6. Reached(fs, text, roots) \subseteq F
  <2> HIDE DEF F
  <2> QED  BY <1>5, ReachedIff
<1>7. F \subseteq Reached(fs, text, roots)  BY DEF Loading, ModulesLoaded
<1> QED  BY <1>6, <1>7

\* With one file on the command line every file is a module of its own.
LEMMA OwnModule ==
  ASSUME Quietly, NEW f
  PROVE  ModuleOf(fs, roots, f) = {f}
<1>1. DOMAIN roots = 1 .. 1  BY ListedFacts DEF Quietly, Held, Loaded
<1>2. \A i : i \in DOMAIN roots <=> i = 1  BY <1>1
<1>3. RootFiles(fs, roots) = {imp_ident(fs, roots[1])}  BY <1>2 DEF RootFiles
<1> QED  BY <1>3 DEF ModuleOf

LEMMA SameLoaded ==
  ASSUME Quietly, Loading, l_stack = <<>>, NEW m \in DOMAIN l_mods
  PROVE  FileBinds(m) = BindingsOf(fs, text, roots, FileOf(m))
<1> DEFINE f == FileOf(m)
           says(b) == [owner |-> ModuleOf(fs, roots, f), name |-> b.name,
                       to |-> ModuleOf(fs, roots, Reaches(fs, f, b))]
           met(x) == [owner |-> {l_mods[m].file}, name |-> x,
                      to |-> {l_mods[l_mods[m].bindings[x]].file}]
<1>1. f \in Ino /\ l_mods[m].file = f
  BY DEF Quietly, Held, Loading, ModulesLoaded, FileOf
<1>2. DOMAIN l_stack = {}  BY EmptyListed, ListedFacts
<1>3. \A b, c \in BoundBy(text[f]) : b.name = c.name => b = c
  BY <1>1 DEF Quietly, Quiet, Followable
<1>4. ASSUME NEW x \in DOMAIN l_mods[m].bindings, NEW b \in BoundBy(text[f]), b.name = x
      PROVE  met(x) = says(b)
  <2>1. PICK c \in BoundBy(text[f]) :
          c.name = x /\ FileOf(l_mods[m].bindings[x]) = Reaches(fs, f, c)
    BY DEF Loading, BindingsLoaded
  <2>2. c = b  BY <1>3, <1>4, <2>1
  <2>3. l_mods[l_mods[m].bindings[x]].file = Reaches(fs, f, b)  BY <2>1, <2>2 DEF FileOf
  <2>4. ModuleOf(fs, roots, f) = {f}
        /\ ModuleOf(fs, roots, Reaches(fs, f, b)) = {Reaches(fs, f, b)}
    BY OwnModule
  <2> QED  BY <1>1, <1>4, <2>3, <2>4
<1>5. \A x \in DOMAIN l_mods[m].bindings : \E b \in BoundBy(text[f]) : b.name = x
  BY DEF Loading, BindingsLoaded
<1>6. \A b \in BoundBy(text[f]) : b.name \in DOMAIN l_mods[m].bindings
  BY <1>2 DEF Loading, NoneForgotten
<1>7. FileBinds(m) = {met(x) : x \in DOMAIN l_mods[m].bindings}  BY DEF FileBinds
<1>8. BindingsOf(fs, text, roots, f) = {says(b) : b \in BoundBy(text[f])}
  BY DEF BindingsOf
<1> HIDE DEF met, says, f
<1>9. ASSUME NEW x \in DOMAIN l_mods[m].bindings
      PROVE  \E b \in BoundBy(text[f]) : met(x) = says(b)
  BY <1>4, <1>5
<1>10. ASSUME NEW b \in BoundBy(text[f])
       PROVE  \E x \in DOMAIN l_mods[m].bindings : met(x) = says(b)
  BY <1>4, <1>6
<1>11. {met(x) : x \in DOMAIN l_mods[m].bindings} = {says(b) : b \in BoundBy(text[f])}
  BY <1>9, <1>10
<1> QED  BY <1>7, <1>8, <1>11 DEF f

LEMMA LoadedAnswer ==
  ASSUME Quietly, Loading, l_stack = <<>>, RootLoaded
  PROVE  Answer(fs, text, roots) =
           Program({{l_mods[m].file} : m \in DOMAIN l_mods},
                   UNION {FileBinds(m) : m \in DOMAIN l_mods})
<1>1. Reached(fs, text, roots) = {FileOf(m) : m \in DOMAIN l_mods}  BY AllLoaded
<1>2. \A m \in DOMAIN l_mods : FileOf(m) \in Ino /\ Readable(text[FileOf(m)])
  BY DEF Loading, ModulesLoaded, Quietly, Quiet, Held, Followable
<1>3. NoFile \notin Ino  BY FilesAssumption DEF NoFile
<1>4. /\ NoFile \notin Reached(fs, text, roots)
      /\ \A f \in Reached(fs, text, roots) : Readable(text[f])
  BY <1>1, <1>2, <1>3
<1>5. {ModuleOf(fs, roots, f) : f \in Reached(fs, text, roots)}
        = {{l_mods[m].file} : m \in DOMAIN l_mods}
  <2>1. \A f \in Reached(fs, text, roots) : ModuleOf(fs, roots, f) = {f}  BY OwnModule
  <2>2. \A m \in DOMAIN l_mods : FileOf(m) = l_mods[m].file  BY DEF FileOf
  <2>3. ASSUME NEW f \in Reached(fs, text, roots)
        PROVE  \E m \in DOMAIN l_mods : ModuleOf(fs, roots, f) = {l_mods[m].file}
    BY <1>1, <2>1, <2>2
  <2>4. ASSUME NEW m \in DOMAIN l_mods
        PROVE  \E f \in Reached(fs, text, roots) : ModuleOf(fs, roots, f) = {l_mods[m].file}
    BY <1>1, <2>1, <2>2
  <2>5. {ModuleOf(fs, roots, f) : f \in Reached(fs, text, roots)}
          \subseteq {{l_mods[m].file} : m \in DOMAIN l_mods}
    BY <2>3
  <2>6. {{l_mods[m].file} : m \in DOMAIN l_mods}
          \subseteq {ModuleOf(fs, roots, f) : f \in Reached(fs, text, roots)}
    BY <2>4
  <2> QED  BY <2>5, <2>6
<1>6. \A m \in DOMAIN l_mods : FileBinds(m) = BindingsOf(fs, text, roots, FileOf(m))
  BY SameLoaded
<1>7. UNION {BindingsOf(fs, text, roots, f) : f \in Reached(fs, text, roots)}
        = UNION {FileBinds(m) : m \in DOMAIN l_mods}
  BY <1>1, <1>6
<1> QED  BY <1>4, <1>5, <1>7 DEF Answer

LEMMA LoadsSay ==
  ASSUME LoadInv, Loads
  PROVE  LoadSaid' = LoadSaid
         \/ (LoadSaid = NotRead /\ LoadSaid' = Answer(fs, text, roots))
<1>1. /\ Quietly /\ Loading /\ l_why = "nothing" /\ UNCHANGED vars
      /\ l_pc # "done" /\ Interp!Next
  BY LoadsQuietly
<1>2. LoadSaid = NotRead  BY <1>1, SameSaid DEF LoadSaid
<1>3. CASE l_pc' # "done"  BY <1>2, <1>3, SameSaid DEF LoadSaid
<1>4. CASE Interp!Finish
  <2>1. /\ l_why' = "nothing" /\ l_pc' = "done" /\ l_stack = <<>> /\ RootLoaded
        /\ l_mods' = l_mods
    BY <1>1, <1>4, FinishLoads
  <2>2. \A m : FileBinds(m)' = FileBinds(m)  BY <2>1 DEF FileBinds
  <2>3. LoadSaid' = Program({{l_mods[m].file} : m \in DOMAIN l_mods},
                            UNION {FileBinds(m) : m \in DOMAIN l_mods})
    BY <2>1, SameSaid DEF LoadSaid, FileBinds
  <2> QED  BY <1>1, <1>2, <2>1, <2>3, LoadedAnswer
<1>5. CASE l_pc' = "done" /\ ~Interp!Finish
  <2>1. l_why' # "nothing"
    BY <1>1, <1>5 DEF Interp!Next, Interp!NextRoot, Interp!Follow, Interp!TakeKnown,
       Interp!TakeRefused, Interp!Load, Interp!Return, Interp!Answered
  <2>2. LoadInv' /\ Loaded'  BY <1>1, NextLoads, StillQuiet
  <2>3. Answer(fs, text, roots)' = Refused  BY <2>1, <2>2 DEF LoadInv
  <2>4. Answer(fs, text, roots) = Refused  BY <1>1, <2>3, SameAnswerStill
  <2> QED  BY <1>2, <1>5, <2>1, <2>4, SameSaid DEF LoadSaid
<1> QED  BY <1>3, <1>4, <1>5

LEMMA SameLoadAnswer ==
  ASSUME NEW f, NEW t, NEW r
  PROVE  Interp!PR!Answer(f, t, r) = Answer(f, t, r)
  BY DEF Interp!PR!imp_ident, imp_ident, Interp!PR!NoFile, NoFile, Interp!PR!imp_try, imp_try,
         Interp!PR!imp_join, imp_join, Interp!PR!Candidates, Candidates,
         Interp!PR!Resolve, Resolve, Interp!PR!BoundBy, BoundBy,
         Interp!PR!RootFiles, RootFiles, Interp!PR!DirOf, DirOf,
         Interp!PR!Reaches, Reaches, Interp!PR!Reached, Reached,
         Interp!PR!ModuleOf, ModuleOf, Interp!PR!BindingsOf, BindingsOf,
         Interp!PR!Readable, Readable, Interp!PR!Refused, Refused,
         Interp!PR!Program, Program, Interp!PR!Answer, Answer

\* Loading answers what the files say (modules.py's load): following a binding
\* as soon as it is met comes to the program that putting it off comes to, over
\* every tree of files that one file of the command line begins.
THEOREM LoaderReadsTheProgram ==
  LinksStay /\ LoadableTrees => (ReadersSpec => LoadsTheProgram)
<1> SUFFICES ASSUME LinksStay, LoadableTrees PROVE ReadersSpec => LoadsTheProgram  OBVIOUS
<1>1. ReadersInit => LoadInv  BY InitLoads
<1>2. LoadInv /\ [ReadersNext]_<<vars, loaderVars>> => LoadInv'
  <2> SUFFICES ASSUME LoadInv, [ReadersNext]_<<vars, loaderVars>> PROVE LoadInv'  OBVIOUS
  <2>1. CASE Loads  BY <2>1, NextLoads
  <2>2. CASE ~Loads  BY <2>2, NextQuiet DEF ReadersNext
  <2> QED  BY <2>1, <2>2
<1>3. ReadersInit => Interp!PR!Init
  BY DEF ReadersInit, Interp!Start, Interp!PR!Init, Interp!NotRead, Interp!PR!NotRead
<1>4. LoadInv /\ [ReadersNext]_<<vars, loaderVars>> => [Interp!PR!Read]_LoadSaid
  <2> SUFFICES ASSUME LoadInv, [ReadersNext]_<<vars, loaderVars>>, LoadSaid' # LoadSaid
               PROVE  Interp!PR!Read
    OBVIOUS
  <2>1. Loads
    <3> SUFFICES ASSUME UNCHANGED loaderVars PROVE LoadSaid' = LoadSaid  BY DEF ReadersNext
    <3> QED  BY DEF loaderVars, LoadSaid, FileBinds
  <2>2. LoadSaid = NotRead /\ LoadSaid' = Interp!PR!Answer(fs, text, roots)
    BY <2>1, LoadsSay, SameLoadAnswer
  <2>3. LoadSaid' # NotRead  BY <2>2, SameLoadAnswer, AnswerIsSaid
  <2>4. /\ LoadSaid = Interp!PR!NotRead /\ LoadSaid' # Interp!PR!NotRead
        /\ LoadSaid' = Interp!PR!Answer(fs, text, roots)
    BY <2>2, <2>3, SameSaid
  <2> QED  BY <2>4 DEF Interp!PR!Read, LoadSaid, FileBinds
<1> QED  BY <1>1, <1>2, <1>3, <1>4, PTL
         DEF ReadersSpec, LoadsTheProgram, Interp!ReadsTheProgram, Interp!PR!Spec,
             LoadSaid, FileBinds
=============================================================================
