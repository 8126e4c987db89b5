-------------------------------- MODULE Loader --------------------------------
(***************************************************************************)
(* The interpreter's reader (src/interp/modules.py, load): it follows a    *)
(* binding as soon as it meets it, one call inside another, where the      *)
(* compiler reads a whole file first and what it binds afterwards.         *)
(***************************************************************************)
EXTENDS Files

VARIABLES
  fs, text, roots,  \* the files, and the command line
  pc,       \* "next", "take", or "done"
  n,        \* which file of the command line is in hand
  path,     \* the file that is to be taken
  mods,     \* the modules: the number of the file each is rooted in, and what
            \* module each name it binds is
  stack,    \* the calls under way: a module and the bindings it still has
  why       \* what stopped the reading; "nothing" while nothing has

Start ==
  /\ pc = "next" /\ n = 1 /\ path = roots[1]
  /\ mods = <<>> /\ stack = <<>> /\ why = "nothing"

Top == stack[Len(stack)]
Below == SubSeq(stack, 1, Len(stack) - 1)

-----------------------------------------------------------------------------

\* A file of the command line is taken when the one before it has been.
NextRoot ==
  /\ pc = "next" /\ stack = <<>> /\ n <= Len(roots)
  /\ path' = roots[n] /\ pc' = "take"
  /\ UNCHANGED <<fs, text, roots, n, mods, stack, why>>

Finish ==
  /\ pc = "next" /\ stack = <<>> /\ n > Len(roots)
  /\ pc' = "done"
  /\ UNCHANGED <<fs, text, roots, n, path, mods, stack, why>>

\* The next binding of the module in hand is resolved, beside the file it is in.
Follow ==
  /\ pc = "next" /\ stack # <<>> /\ Top.left # <<>>
  /\ LET tried == Candidates(Head(Top.left).file, Top.dir)
         hit == {k \in DOMAIN tried : imp_ident(fs, tried[k]) # NoFile}
     IN IF hit = {}
        THEN why' = "cannot find" /\ pc' = "done" /\ UNCHANGED path
        ELSE /\ path' = tried[CHOOSE k \in hit : \A l \in hit : k <= l]
             /\ pc' = "take" /\ UNCHANGED why
  /\ UNCHANGED <<fs, text, roots, n, mods, stack>>

\* The call on top binds the name it is at to module m: the last binding of a
\* name is the one that stands.
Bound(calls, m, before) ==
  LET asking == calls[Len(calls)]
      name == Head(asking.left).name
  IN /\ mods' = [before EXCEPT ![asking.mod].bindings =
                    [known \in DOMAIN @ \cup {name} |-> IF known = name THEN m ELSE @[known]]]
     /\ stack' = [calls EXCEPT ![Len(calls)].left = Tail(@)]

\* take answers module m to the call that asked, or to the command line.
Answered(calls, m, before) ==
  /\ pc' = "next"
  /\ IF calls = <<>>
     THEN n' = n + 1 /\ mods' = before /\ stack' = <<>>
     ELSE Bound(calls, m, before) /\ UNCHANGED n

\* Mutant: a module is known by its file once all it binds has been loaded.
by_path_when_done(f) ==
  {m \in DOMAIN mods : mods[m].file = f} \ {stack[k].mod : k \in DOMAIN stack}

\* The modules known by the file they are rooted in.
by_path(f) == {m \in DOMAIN mods : mods[m].file = f}

\* The files whose calls are under way.
being == {mods[stack[k].mod].file : k \in DOMAIN stack}

\* A file that was loaded, or is being loaded, is the module it is.
TakeKnown ==
  /\ pc = "take"
  /\ \E m \in by_path(imp_ident(fs, path)) : Answered(stack, m, mods)
  /\ UNCHANGED <<fs, text, roots, path, why>>

\* One that is being loaded and is not known is a ring, and one that is not there
\* cannot be opened.
TakeRefused ==
  /\ pc = "take" /\ by_path(imp_ident(fs, path)) = {}
  /\ imp_ident(fs, path) \in being \cup {NoFile}
  /\ why' = IF imp_ident(fs, path) = NoFile THEN "cannot open"
            ELSE "these modules import one another"
  /\ pc' = "done"
  /\ UNCHANGED <<fs, text, roots, n, path, mods, stack>>

\* A new file is a module, known before what it binds is followed.
Load ==
  /\ pc = "take" /\ by_path(imp_ident(fs, path)) = {}
  /\ imp_ident(fs, path) \notin being \cup {NoFile}
  /\ LET f == imp_ident(fs, path)
     IN /\ mods' = Append(mods, [file |-> f, bindings |-> <<>>])
        /\ stack' = Append(stack, [mod |-> Len(mods) + 1, dir |-> path.dir,
                                   left |-> BindsOf(text[f])])
  /\ pc' = "next"
  /\ UNCHANGED <<fs, text, roots, n, path, why>>

\* All a module binds has been followed: its call answers it.
Return ==
  /\ pc = "next" /\ stack # <<>> /\ Top.left = <<>>
  /\ Answered(Below, Top.mod, mods)
  /\ UNCHANGED <<fs, text, roots, path, why>>

Next == NextRoot \/ Finish \/ Follow \/ TakeKnown \/ TakeRefused \/ Load \/ Return

-----------------------------------------------------------------------------
\* Properties.

\* Loading one file answers what the files say, although it follows a binding
\* where the compiler puts it off: the two readers agree (modules.py's load,
\* imports.ngpl's read_program).
PR == INSTANCE ProgramRead WITH answer <-
  IF pc # "done" THEN NotRead
  ELSE IF why # "nothing" THEN Refused
  ELSE Program({{mods[m].file} : m \in DOMAIN mods},
               UNION {{[owner |-> {mods[m].file}, name |-> name,
                        to |-> {mods[mods[m].bindings[name]].file}]
                       : name \in DOMAIN mods[m].bindings} : m \in DOMAIN mods})
ReadsTheProgram == PR!Spec
=============================================================================
