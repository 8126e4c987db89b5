-------------------------------- MODULE Files --------------------------------
(***************************************************************************)
(* Source files, what they bind, and where a name is looked for            *)
(* (src/src/imports.ngpl, src/interp/__main__.py).  A path is a directory, *)
(* a stem and how many times `.ngpl' stands after it; a stem is a sequence *)
(* of words, so that the digits some stems end in can be told.             *)
(***************************************************************************)
EXTENDS Integers, Sequences, FiniteSets

CONSTANTS
  Ino,         \* the numbers a file may have; 0 is none
  SearchPath,  \* the directories --path named
  LibDir       \* where the library lives

\* What is listed in order, whatever it is that is listed.
Listed(s) == s \in Seq({s[k] : k \in DOMAIN s})

ASSUME FilesAssumption == 0 \notin Ino /\ Listed(SearchPath)

NoFile == 0

\* The end of a line.
nl == [kind |-> "nl"]

\* What number a path has among the files there are.
imp_ident(fs, p) == IF p \in DOMAIN fs THEN fs[p] ELSE NoFile

\* An asked-for name joined to a directory, as written and with the suffix.
imp_join(base, name) ==
  [dir |-> base \o name.dir, stem |-> name.stem, ext |-> name.ext]
imp_try(base, name) ==
  LET p == imp_join(base, name) IN <<p, [p EXCEPT !.ext = @ + 1]>>

\* The paths a name is tried under, in order.  What the name says decides: one
\* that begins with a slash, one that holds one, and one that holds none, a bare
\* one.
Candidates(name, base) ==
  CASE name.where = "root"   -> imp_try(<<>>, name)
    [] name.where = "beside" -> imp_try(base, name)
    [] OTHER ->
         LET dirs == <<base>> \o SearchPath \o <<LibDir>>
         IN [k \in 1 .. 2 * Len(dirs) |->
               imp_try(dirs[(k + 1) \div 2], name)[IF k % 2 = 1 THEN 1 ELSE 2]]

\* What a name finds among the files there are: the first that is one.
Resolve(fs, name, base) ==
  LET tried == Candidates(name, base)
      hit == {k \in DOMAIN tried : imp_ident(fs, tried[k]) # NoFile}
  IN IF hit = {} THEN NoFile
     ELSE imp_ident(fs, tried[CHOOSE k \in hit : \A l \in hit : k <= l])

\* The imports a text binds, and the same in order.
BoundBy(text) == {text[k] : k \in {k \in DOMAIN text : text[k].kind = "bind"}}
BindsOf(text) ==
  LET at == {p \in DOMAIN text : text[p].kind = "bind"}
  IN [k \in 1 .. Cardinality(at) |->
        text[CHOOSE p \in at : Cardinality({q \in at : q <= p}) = k]]

-----------------------------------------------------------------------------
\* What a program is, without an order to read it in: the files that the ones
\* on the command line reach, a module for these and one for every other, and
\* what each name a module binds reaches.  A file is known by its number, and
\* all its names are in one directory.

RootFiles(fs, roots) == {imp_ident(fs, roots[k]) : k \in DOMAIN roots}

DirOf(fs, f) == (CHOOSE p \in DOMAIN fs : fs[p] = f).dir

Reaches(fs, f, b) == Resolve(fs, b.file, DirOf(fs, f))

Reached(fs, text, roots) ==
  LET closed == {F \in SUBSET (Ino \cup {NoFile}) :
                   /\ RootFiles(fs, roots) \subseteq F
                   /\ \A f \in F \cap {fs[p] : p \in DOMAIN fs} :
                        \A b \in BoundBy(text[f]) : Reaches(fs, f, b) \in F}
  IN {f \in Ino \cup {NoFile} : \A F \in closed : f \in F}

ModuleOf(fs, roots, f) ==
  IF f \in RootFiles(fs, roots) THEN RootFiles(fs, roots) ELSE {f}

NotRead == [is |-> "not read"]
Refused == [is |-> "refused"]
Program(modules, binds) == [is |-> "program", modules |-> modules, binds |-> binds]

\* What a file binds, as its module binds it.
BindingsOf(fs, text, roots, f) ==
  {[owner |-> ModuleOf(fs, roots, f), name |-> b.name,
    to |-> ModuleOf(fs, roots, Reaches(fs, f, b))] : b \in BoundBy(text[f])}

\* A binding that is not one file name is followed by nobody.
Readable(t) == \A k \in DOMAIN t : t[k].kind # "bad"

\* The program, or a refusal where some name in it finds nothing.
Answer(fs, text, roots) ==
  LET files == Reached(fs, text, roots)
  IN IF NoFile \in files \/ (\E f \in files : ~Readable(text[f])) THEN Refused
     ELSE Program({ModuleOf(fs, roots, f) : f \in files},
                  UNION {BindingsOf(fs, text, roots, f) : f \in files})
=============================================================================
