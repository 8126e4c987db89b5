------------------------------- MODULE Imports -------------------------------
(***************************************************************************)
(* The compiler's reader (src/src/imports.ngpl): the files of a program    *)
(* are found and read one at a time, while an editor may save them.  A     *)
(* name is tried one path at a time, and between the finding of a file and *)
(* its reading nothing holds it still.                                     *)
(***************************************************************************)
EXTENDS Files

CONSTANTS
  Trees,     \* what there may be to begin with: the files, the command line, and
             \* how an editor at work on them saves: [fs, text, roots, busy]
  Saved,     \* the paths the editor saves
  Texts,     \* what a save may leave in a file
  MaxSaves   \* bound: how many saves there are while the program is read

\* A text is lines in order, what is at a path is a file, and the command line
\* names one at least.
ASSUME TreesAssumption ==
  /\ MaxSaves \in Nat
  /\ \A t \in Texts : Listed(t)
  /\ \A tree \in Trees :
       /\ DOMAIN tree.text = Ino /\ \A f \in Ino : Listed(tree.text[f])
       /\ \A p \in DOMAIN tree.fs : tree.fs[p] \in Ino
       /\ Listed(tree.roots) /\ tree.roots # <<>>
       /\ tree.busy \in {"nobody", "in place", "anyhow"}

\* All the names of a file are in one directory: where they are not, what it
\* binds depends on the name it was found under.
OneDirectory(f) == \A p, q \in DOMAIN f : f[p] = f[q] => p.dir = q.dir
LinksStay == \A tree \in Trees : OneDirectory(tree.fs)

VARIABLES
  fs,      \* the number of the file at a path
  text,    \* what is in a file: its lines, "nl" after every line that ends
  roots,   \* the files named on the command line
  busy,    \* how files are saved: by "nobody", "in place", or "anyhow"
  saves,   \* how many saves there were
  pc,      \* "next", "probe", "take", or "done"
  phase,   \* whether "roots" or "bindings" are being followed
  n,       \* the root or the binding in hand
  left,    \* the paths its name is still to be tried under
  found,   \* the path and the number it was found to be
  why,     \* what stopped the reading; "nothing" while nothing has
  src, names, offs, fmod,   \* the text read, its files, where each begins,
                            \* the module each is in
  cino, cmod,               \* the numbers of the files read, their modules
  mroot,                    \* the file each module is rooted in
  pend,                     \* the bindings met
  bind                      \* those followed, with the module each reaches
editorVars == <<fs, text, roots, busy, saves>>
readerVars == <<pc, phase, n, left, found, why>>
programVars == <<src, names, offs, fmod, cino, cmod, mroot, pend, bind>>
vars == <<fs, text, roots, busy, saves, pc, phase, n, left, found, why,
          src, names, offs, fmod, cino, cmod, mroot, pend, bind>>

Init ==
  /\ \E tree \in Trees :
       fs = tree.fs /\ text = tree.text /\ roots = tree.roots /\ busy = tree.busy
  /\ saves = 0
  /\ pc = "next" /\ phase = "roots" /\ n = 1 /\ left = <<>>
  /\ found = [path |-> roots[1], ino |-> NoFile]
  /\ why = "nothing"
  /\ src = <<>> /\ names = <<>> /\ offs = <<>> /\ fmod = <<>>
  /\ cino = <<>> /\ cmod = <<>>
  /\ mroot = <<roots[1]>>
  /\ pend = <<>> /\ bind = <<>>

-----------------------------------------------------------------------------
\* The editor.

SaveInPlace(p, t) ==
  /\ busy # "nobody" /\ saves < MaxSaves /\ pc # "done"
  /\ p \in DOMAIN fs
  /\ text' = [text EXCEPT ![fs[p]] = t]
  /\ saves' = saves + 1
  /\ UNCHANGED <<fs, roots, busy>> /\ UNCHANGED readerVars /\ UNCHANGED programVars

\* A new file is written and renamed over the old one; it has a number no file
\* has at that moment.
SaveByRename(p, t) ==
  /\ busy = "anyhow" /\ saves < MaxSaves /\ pc # "done"
  /\ \E f \in Ino \ {fs[q] : q \in DOMAIN fs} :
       /\ fs' = [q \in DOMAIN fs \cup {p} |-> IF q = p THEN f ELSE fs[q]]
       /\ text' = [text EXCEPT ![f] = t]
  /\ saves' = saves + 1
  /\ UNCHANGED <<roots, busy>>
  /\ UNCHANGED readerVars /\ UNCHANGED programVars

Save == \E p \in Saved, t \in Texts : SaveInPlace(p, t) \/ SaveByRename(p, t)

-----------------------------------------------------------------------------
\* Finding a file.

\* A root was not looked for: what it is is asked as it is written.
FindRoot ==
  /\ pc = "next" /\ phase = "roots" /\ n <= Len(roots)
  /\ found' = [path |-> roots[n], ino |-> imp_ident(fs, roots[n])]
  /\ pc' = "take"
  /\ UNCHANGED <<phase, n, left, why>>
  /\ UNCHANGED editorVars /\ UNCHANGED programVars

RootsDone ==
  /\ pc = "next" /\ phase = "roots" /\ n > Len(roots)
  /\ phase' = "bindings" /\ n' = 1
  /\ UNCHANGED <<pc, left, found, why>>
  /\ UNCHANGED editorVars /\ UNCHANGED programVars

\* Mutant: looked for beside the file the program is rooted in.
FindBinding_beside_root ==
  /\ pc = "next" /\ phase = "bindings" /\ n <= Len(pend)
  /\ left' = Candidates(pend[n].file, roots[1].dir)
  /\ pc' = "probe"
  /\ UNCHANGED <<phase, n, found, why>>
  /\ UNCHANGED editorVars /\ UNCHANGED programVars

\* A binding met while reading is followed after everything met before it; its
\* name is looked for beside the file it was written in.
FindBinding ==
  /\ pc = "next" /\ phase = "bindings" /\ n <= Len(pend)
  /\ left' = Candidates(pend[n].file, pend[n].from.dir)
  /\ pc' = "probe"
  /\ UNCHANGED <<phase, n, found, why>>
  /\ UNCHANGED editorVars /\ UNCHANGED programVars

Probe ==
  /\ pc = "probe" /\ left # <<>>
  /\ left' = Tail(left)
  /\ IF imp_ident(fs, Head(left)) # NoFile
     THEN pc' = "take" /\ found' = [path |-> Head(left), ino |-> imp_ident(fs, Head(left))]
     ELSE UNCHANGED <<pc, found>>
  /\ UNCHANGED <<phase, n, why>>
  /\ UNCHANGED editorVars /\ UNCHANGED programVars

NotFound ==
  /\ pc = "probe" /\ left = <<>>
  /\ why' = "cannot find" /\ pc' = "done"
  /\ UNCHANGED <<phase, n, left, found>>
  /\ UNCHANGED editorVars /\ UNCHANGED programVars

BindingsDone ==
  /\ pc = "next" /\ phase = "bindings" /\ n > Len(pend)
  /\ pc' = "done"
  /\ UNCHANGED <<phase, n, left, found, why>>
  /\ UNCHANGED editorVars /\ UNCHANGED programVars

-----------------------------------------------------------------------------
\* Reading it.

\* A module's files are the roots, or the file a binding reached.
me == IF phase = "roots" THEN 0 ELSE Len(mroot)

\* Mutant: what was in hand is not let go of.
Landed_again(m) ==
  /\ bind' = IF phase = "roots" THEN bind
             ELSE Append(bind, [name |-> pend[n].name, mod |-> m, owner |-> pend[n].owner])
  /\ pc' = "next" /\ UNCHANGED n

\* The file in hand is in module m: the binding reaches it.
Landed(m) ==
  /\ bind' = IF phase = "roots" THEN bind
             ELSE Append(bind, [name |-> pend[n].name, mod |-> m, owner |-> pend[n].owner])
  /\ n' = n + 1 /\ pc' = "next"

\* Mutant: a file is told by the name it was found under.
seen_at_by_name(f) == {k \in DOMAIN names : names[k] = found.path}

\* Where a file already read is in the list.
seen_at(f) == {k \in DOMAIN cino : cino[k] = f}

\* Mutant: the room made for its module is not given back.
Known_keeping_room ==
  /\ pc = "take" /\ seen_at(found.ino) # {}
  /\ \E k \in seen_at(found.ino) :
       (\A l \in seen_at(found.ino) : k <= l) /\ Landed(cmod[k])
  /\ mroot' = IF phase = "roots" THEN mroot ELSE Append(mroot, found.path)
  /\ UNCHANGED <<phase, left, found, why>> /\ UNCHANGED editorVars
  /\ UNCHANGED <<src, names, offs, fmod, cino, cmod, pend>>

\* A file known under any name is not read again.
Known ==
  /\ pc = "take" /\ seen_at(found.ino) # {}
  /\ \E k \in seen_at(found.ino) :
       (\A l \in seen_at(found.ino) : k <= l) /\ Landed(cmod[k])
  /\ UNCHANGED <<phase, left, found, why>> /\ UNCHANGED editorVars
  /\ UNCHANGED <<src, names, offs, fmod, cino, cmod, mroot, pend>>

CannotOpen ==
  /\ pc = "take" /\ seen_at(found.ino) = {} /\ imp_ident(fs, found.path) = NoFile
  /\ why' = "cannot open" /\ pc' = "done"
  /\ UNCHANGED <<phase, n, left, found>>
  /\ UNCHANGED editorVars /\ UNCHANGED programVars

\* Mutant: the text as it stands.
Ended_as_is(t) == t

\* A text ends its last line before the next begins.
Ended(t) == IF t # <<>> /\ t[Len(t)] # nl THEN Append(t, nl) ELSE t

\* How many lines there are before a binding the reader cannot follow.
ReadUpTo(t) ==
  CHOOSE k \in 0 .. Len(t) :
    /\ \A l \in 1 .. k : t[l].kind # "bad"
    /\ IF k = Len(t) THEN TRUE ELSE t[k + 1].kind = "bad"

Pending(t, m) ==
  LET met == BindsOf(t)
  IN [k \in DOMAIN met |->
        [name |-> met[k].name, file |-> met[k].file, from |-> found.path, owner |-> m]]

ReadFile ==
  /\ pc = "take" /\ seen_at(found.ino) = {} /\ imp_ident(fs, found.path) # NoFile
  /\ LET t == Ended(text[fs[found.path]])
         k == ReadUpTo(t)
     IN /\ names' = Append(names, found.path)
        /\ offs' = Append(offs, Len(src))
        /\ fmod' = Append(fmod, me)
        /\ cino' = Append(cino, found.ino)
        /\ cmod' = Append(cmod, me)
        /\ pend' = pend \o Pending(SubSeq(t, 1, k), me)
        /\ IF k < Len(t)
           THEN /\ why' = "not one file name" /\ pc' = "done"
                /\ UNCHANGED <<src, mroot, bind, n>>
           ELSE /\ src' = src \o t
                /\ mroot' = IF phase = "roots" THEN mroot
                            ELSE Append(mroot, found.path)
                /\ Landed(me)
                /\ UNCHANGED why
  /\ UNCHANGED <<phase, left, found>> /\ UNCHANGED editorVars

Reader ==
  \/ FindRoot \/ RootsDone \/ FindBinding \/ Probe \/ NotFound \/ BindingsDone
  \/ Known \/ CannotOpen \/ ReadFile

Next == Save \/ Reader
Spec == Init /\ [][Next]_vars
\* A reader that was started goes on.
FairSpec == Spec /\ WF_vars(Reader)

-----------------------------------------------------------------------------
\* What is made of a program that was read.

Rooted == \E k \in DOMAIN bind : bind[k].mod = 0
imp_stem(p) == IF p.ext > 0 THEN [p EXCEPT !.ext = @ - 1] ELSE p
Stem(k) == [stem |-> imp_stem(mroot[k]).stem, ext |-> imp_stem(mroot[k]).ext]

\* What a module is called: nothing for the root unless something binds it, the
\* stem of its file for another, with its number after it where an earlier
\* module has that name.
NameOf(k, out) ==
  IF k = 1 /\ ~Rooted THEN [stem |-> <<>>, ext |-> 0]
  ELSE IF \E j \in DOMAIN out : out[j] = Stem(k)
       THEN [Stem(k) EXCEPT !.stem = Append(@, k - 1)]
       ELSE Stem(k)

mod_names[k \in 0 .. Len(mroot)] ==
  IF k = 0 THEN <<>> ELSE Append(mod_names[k - 1], NameOf(k, mod_names[k - 1]))

\* The file the line at place p falls in: the last that begins at or before it.
FileAt(p) == CHOOSE k \in DOMAIN offs :
  /\ k = 1 \/ offs[k] < p
  /\ \A l \in DOMAIN offs : l > k => offs[l] >= p

\* The checker refuses a function whose name another has, whatever modules the
\* two are in.
Functions == {p \in DOMAIN src : src[p].kind = "fn"}
Redefined == \E p, q \in Functions : p # q /\ src[p].name = src[q].name

-----------------------------------------------------------------------------
\* Properties.

TypeOK ==
  /\ DOMAIN text = Ino
  /\ \A p \in DOMAIN fs : fs[p] \in Ino \cup {NoFile}
  /\ saves \in 0 .. MaxSaves
  /\ pc \in {"next", "probe", "take", "done"} /\ phase \in {"roots", "bindings"}
  /\ found.ino \in Ino \cup {NoFile}
  /\ Len(names) = Len(offs) /\ Len(fmod) = Len(names)
  /\ Len(cino) = Len(names) /\ Len(cmod) = Len(names)
  /\ why = "nothing" => \A k \in DOMAIN fmod : fmod[k] \in 0 .. Len(mroot) - 1

\* The modules are told by number through rings, names met again and readings
\* that were given up: every module is rooted in a file that was read into it,
\* and every binding followed reaches one (take_module makes room for a module
\* and gives it back).
ModulesAreThere ==
  TypeOK /\ (why = "nothing" =>
    /\ \A m \in 2 .. Len(mroot) :
         \E k \in DOMAIN fmod : fmod[k] = m - 1 /\ names[k] = mroot[m]
    /\ \A k \in DOMAIN bind : bind[k].mod \in 0 .. Len(mroot) - 1)

\* Wherever files meet in the one text, empty ones and ones whose last line does
\* not end among them, a line is found to be of the file and the module it was
\* written in (Parser.mod_at and diag.file_of look it up by where files begin).
LinesKnowTheirFile ==
  saves = 0 => \A p \in DOMAIN src :
    LET k == FileAt(p)
    IN /\ src[p] = Ended(text[cino[k]])[p - offs[k]]
       /\ fmod[k] = cmod[k]
       /\ offs[k] # 0 => src[offs[k]] = nl

\* No two modules have one name (mod_names): spec.md says two that would share
\* a stem are told apart, and a module's name is what qualifies what it defines.
ModulesToldApart ==
  pc = "done" /\ why = "nothing" =>
    LET out == mod_names[Len(mroot)]
    IN \A j, k \in DOMAIN out : j # k => out[j] # out[k]

\* One file, not one name: of all the names a file has the program has read it
\* under one, in whatever order they were met and though it was saved over between
\* being found and being opened (Reader.seen_at).  A save that puts another file
\* in its place is another matter, which ReadOnceWhateverIsSaved is about.
OneNameOfAFile ==
  busy # "anyhow" =>
    \A j, k \in DOMAIN names :
      imp_ident(fs, names[j]) = imp_ident(fs, names[k]) => j = k

\* "A file that is changed underneath a compiler was never going to be read twice
\* into the same program anyway" (imports.ngpl, Reader.take): whatever is saved,
\* and however, no text is read twice under one name.
LinesOf(k) == SubSeq(src, offs[k] + 1, IF k = Len(offs) THEN Len(src) ELSE offs[k + 1])
ReadOnceWhateverIsSaved ==
  \A j, k \in DOMAIN names : names[j] = names[k] /\ LinesOf(j) = LinesOf(k) => j = k

\* What a file defines is its own: a program whose modules each define a name
\* once is not refused for it (spec.md, "A File Is a Module").
NamesAreAModulesOwn ==
  pc = "done" /\ why = "nothing" /\ Redefined =>
    \E p, q \in Functions :
      /\ p # q /\ src[p].name = src[q].name
      /\ fmod[FileAt(p)] = fmod[FileAt(q)]

\* All three are promised.  One program breaks them all: it is not even so that of
\* every program one is kept (Reader.take, mod_names and the checker).
ModulesKeepAPromise ==
  ModulesToldApart \/ NamesAreAModulesOwn \/ ReadOnceWhateverIsSaved

\* Reading answers what the files say, in whatever order they were met, where
\* nobody saves one meanwhile.
InModule(m) == {cino[k] : k \in {j \in DOMAIN cmod : cmod[j] = m}}
PR == INSTANCE ProgramRead WITH answer <-
  IF pc # "done" \/ saves > 0 THEN NotRead
  ELSE IF why # "nothing" THEN Refused
  ELSE Program({InModule(m - 1) : m \in DOMAIN mroot},
               {[owner |-> InModule(bind[k].owner), name |-> bind[k].name,
                 to |-> InModule(bind[k].mod)] : k \in DOMAIN bind})
ReadsTheProgram == PR!Spec
=============================================================================
