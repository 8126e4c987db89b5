------------------------------- MODULE Readers -------------------------------
(***************************************************************************)
(* The compiler's reader, and then the interpreter's over the same files.  *)
(***************************************************************************)
EXTENDS Imports

VARIABLES l_pc, l_n, l_path, l_mods, l_stack, l_why
loaderVars == <<l_pc, l_n, l_path, l_mods, l_stack, l_why>>

Interp == INSTANCE Loader WITH
  pc <- l_pc, n <- l_n, path <- l_path, mods <- l_mods, stack <- l_stack, why <- l_why

\* The interpreter makes each file of the command line a module of its own, where
\* the compiler joins them: it is run over the programs that have one, and
\* which nobody saves meanwhile.
Loaded == Len(roots) = 1 /\ busy = "nobody"

ReadersInit == Init /\ Interp!Start
Loads == pc = "done" /\ Loaded /\ Interp!Next
        /\ UNCHANGED <<busy, saves, readerVars, programVars>>
ReadersNext == (Next /\ UNCHANGED loaderVars) \/ Loads

\* Both are sequential programs that go on; nothing is assumed of the editor.
ReadersSpec ==
  /\ ReadersInit /\ [][ReadersNext]_<<vars, loaderVars>>
  /\ WF_vars(Reader) /\ WF_loaderVars(Loads)

\* A file the interpreter is run over is one whose bindings can be followed, and
\* a name it binds is bound to one file: of two the interpreter keeps the last.
Followable(t) ==
  Readable(t) /\ \A b, c \in BoundBy(t) : b.name = c.name => b = c
LoadableTrees ==
  \A tree \in Trees : Len(tree.roots) = 1 /\ tree.busy = "nobody" =>
    \A f \in Ino : Followable(tree.text[f])

\* Following a binding as soon as it is met comes to the program that putting it
\* off comes to (modules.py's load, imports.ngpl's read_program).
LoadsTheProgram == Interp!ReadsTheProgram

\* Every ring is followed to its end: the compiler's reader knows a file it has
\* read (Reader.take), the interpreter's answers one that is being loaded
\* (load.take).
RingsEnd == <>(pc = "done") /\ (Loaded ~> l_pc = "done")
=============================================================================
