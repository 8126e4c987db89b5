# NGPL: a verification project

NGPL is a language with two implementations kept in one repository: a
compiler written in the language itself (`src/src/*.ngpl`, six targets) and
the interpreter it is bootstrapped with (`src/interp/*.py`). This directory
holds TLA+ modules translated from that source, TLC configurations that check
them on small instances, and TLAPS proofs of theorems about them.

## The system

| Part | Source | State it keeps | Operations | What is hard |
|---|---|---|---|---|
| driver | `main.ngpl` | options, one program at a time | `compile_one`, the recipe of `--build` | order of reading and replacing the output, falling back |
| imports | `imports.ngpl`, `modules.py` | files read, the order of their text, what each file sees of which | `read_program`, `imp_resolve` | rings of imports, one file under two names |
| lexer | `lex.ngpl`, `lexer.py`, `scanner.c` | the stack of indentations, bracket depth; the scanner's serialized state | one token at a time | three implementations that must agree on layout |
| parser, checker, lowering | `parse`, `check`, `types`, `dispatch`, `comptime`, `lower`, `ir` | the tree, tables of names, types and globals | passes over the tree | ownership and borrows, overloads, constant evaluation |
| code emitter | `emit.ngpl`, `arch_*`, `tdriver.ngpl` | bytes, fixup lists, per-function labels | emit, `mark`, `rewind`, patch | a function emitted and taken back |
| code generation | `codegen.ngpl`, `codegen_t.ngpl` | offsets of functions, routines needed, moved functions | one run over the program | the order in which things find their place |
| incremental build | `incr.ngpl` | the old file read back, what to write again | `read_prev`, `incr_prev`, `incr_before`, `incr_after`, `incr_copy`, `incr_lines_up` | code copied from a file several builds old |
| ELF writer, bill | `elf.ngpl`, `sbom.ngpl`, `sha256.ngpl` | none | `plan_elf`, `sbom_sources` | regions that may not overlap |
| runtime | `rt_*.ngpl` | the allocator, open files, signal stacks | one routine per operation | memory given back while something reads it, short writes, signals |
| interpreter | `eval.py`, `env.py`, `value.py`, `repl.py` ... | scopes, borrows, modules, a session | evaluation, import, redefinition | moves and borrows across calls and failures |
| bootstrap | `build/bootstrap.sh` | three compilers | stage by stage | a fixed point |

How they meet: the driver calls imports, lexer, parser, checker, code
generation and the ELF writer in that order, once per program. Nothing in the
compiler runs concurrently; what is concurrent is the world around it: the
editor that saves the source while a build runs, the user who kills a build,
and the output file, which is the one piece of state that one run of the
compiler leaves to the next. That file is where a mistake lasts, because
under `--incremental` (INCREMENTAL.md) a build copies code out of it that was
linked against a layout of an earlier build. The project begins there.

## What is modelled

### IncrBuild: incremental compilation, the text region

`IncrBuild.tla` is one run of the compiler after another over one output
file, with the program edited in between and the compiler killed at any step.

| TLA+ | Source |
|---|---|
| `src`, `Edit` | the source file, and the editor |
| `bin` | the output file as `read_prev` and `incr_prev` read it: digests, symbols and their slots, sections, the code at each address |
| `prog`, `live` | the program read, `reached_fns` |
| `pc`, `pos` | where `codegen` is: the emission loop, the synthesized functions, the runtime and the functions moved earlier, the functions moved now, the driver creating and writing the file |
| `here`, `at` | `em.here()`, `em.fn_off` |
| `mode`, `why` | `incr.mode`, whether `incr_why` is non-empty |
| `away`, `outgrown`, `again` | `dfr_fn` with `dfr_at >= 0`, with `dfr_at < 0`, and the part of `ov_late` found while placing the first |
| `need`, `rtBase` | `em.rt_need`, where `emit_runtime` begins |
| `synAt` | offsets of `<args>` and `<tests>` (as one) and of every lambda |
| `out` | the image handed to `plan_elf` |

One action is one iteration of a loop of the code or one decision of it:
`SkipUnreached`, `WritePadded`, `SetAside`, `CopyInPlace`, `WriteInPlace` and
`Outgrow` are the ways through the body of the emission loop;
`WriteSyntheticPadded`/`InPlace` the synthesized functions; `EmitRuntime` the
closure over `RT_EDGES`; `CopyAway`, `WriteAway`, `OutgrowAgain`, `BeginLate`,
`StopOnAssertion`, `PlaceLate` the overflow; `Accept` and `Fallback` what
`compile_one` does with `incr_lines_up`; `CreateFile` and `Writev` how the
file is replaced. Padding, rooms and page rounding are the program's own
integer arithmetic on bytes.

What a function's source says is one of a few versions; a version has a size,
a set of callees, a lambda or none and a set of routines it needs. The code
of a function in a file is the version it was generated from and the
addresses that were resolved into it, so that a copy with a stale address can
be told from a good one.

Left out here: `.rodata` and `.data` (`IncrData`), the backtrace table,
`<globals>` and the shims of partial applications, which are laid exactly as
lambdas are, and `-O` levels, under which the layout works the same.

### Compiler: the promise

`Compiler.tla` is the abstract specification: the output file is at every
moment no program or means what the source meant that some run read, and a
run replaces it by the meaning of the source that run read. `KeepsThePromise`
(module `IncrBuildProps`) is that specification under the refinement mapping
that reads the file as a program and takes a function that calls an address
its callee is not at as gone `"astray"`.

`IncrBuildProps.tla` states its properties. `Faithful`: every function of a readable
file is linked to what it names. `InRoom`: slots are large enough, disjoint,
and end before the next region. `KeepsPlaces`: what a build moves goes past
everything the file used and none of its callers is copied.
`RebuildReproduces`: building an unchanged program over a file writes the same
file. `EditThatFitsIsLaidOver`: the mode is not a sequence of fallbacks. `BuildEnds`: falling back is tried
once. `StopsOnlyWhenAstray`: the assertion about the overflow fails only in a
build whose runtime or functions do not line up. `CallersFollow` and
`LambdasFollow` are what INCREMENTAL.md says and the code does not do: one edit
breaks both, which is what `CodeKeepsAPromise`, violated in `incr_promises`, comes
to. Lambdas that are numbered anew are the business of `LambdasFollow` alone: the
programs of `incr_builds` have lambdas in one function only, so that a number
always means the same lambda there (`LambdasFixed`).

That the assertion fails at all is not what INCREMENTAL.md:242 says ("Each of
these makes the build fall back to a whole one, which is always correct", and
among these are a new function, line 247, and a change of the runtime, line 253):
a function that is new or has outgrown its slot, in a build whose runtime or
lambdas take more room than the old file's, stops the compiler at
codegen.ngpl:859 without a file. `StopsOnlyWhenAstray` is what remains true.

### IncrData: incremental compilation, the data regions

`IncrData.tla` has the same builds over the same file, with every function
where it is and the regions behind the text modelled byte by byte: the pool
of literals and its descriptors, the constants, the jump tables kept from
earlier builds and those written now (`.rodata`), the sealed globals, the
kernel's block and the writable globals (`.data`). `codegen` is the second
half of the code generator, `incr_lines_up` the comparison, `First`, `Overlay`
and `Whole` what the driver does with it. A copied function is a record of the
addresses an earlier build resolved into it. Bytes matter here: a word is four
bytes of which the upper two are zero, so that a word read at the wrong place
differs from what was there or, as in the program, does not.

`LengthsKept`, `TablesKept`, `ValuesFollow` and `PlacesFollow` say that copied
code finds what it names; they hold over edits that change functions, values
and declarations at the end of their kind. `StringsFollow` and `EnumsFollow`, and
`TablesKept`, `ValuesFollow` and `PlacesFollow` under other edits, are what
INCREMENTAL.md promises and the comparison does not see. `data_promises` is one
program laid over another in which all five fail at once
(`DataKeepsAPromise`), and all five were seen on the compiler itself. `LengthsKept` has
an exception too, which came of proving it: when the strings end exactly where the
old read-only data did, `codegen.ngpl:308` lets the build through and there is nothing
left to compare. It is the hypothesis `StringsEndWithin` of the theorem, and no run
shows it.

What a type is defined to be is in no function's tokens, so what decides that a
function is written again does not see it change. `Symbols.tla` is what does: a
function's symbol spells the structs of its signature with a hash of what they
are, structs within them and rings of structs included (`struct_sym`), and a
build one of whose symbols the file does not have is a whole one (`syms`).
`StructsFollow` says that this is enough for what one function hands to another.
It is not for enumerations, which are spelled by name (`EnumsFollow`), nor for what a definition says beside its
fields (`@repr(C)`, `@invariant`), which `Symbols` leaves out. The hash is taken
to tell definitions apart; `Shapes` is what code was compiled for, the places of
fields and the numbers of variants.

### Names: the table of names

`Names.tla` is `names.ngpl`: one action is one turn of a loop (`Step`,
`Place`) or the beginning or end of a call. `NameTable.tla` is what it
promises, a function from names to first answers. The hash is any function to
the naturals; the number of slots any even number, where the code has powers
of two.

### Imports and Loader: reading a program

`Files.tla` has what a path, a text and a name's search are, and says what a
program is without an order to read it in: the least set of files closed under
bindings, one module for the command line and one for every other file.
`ProgramRead.tla` is the abstract specification: reading answers that program
or a refusal.

`Imports.tla` is the compiler's reader. `FindRoot`, `FindBinding`, `Probe`,
`NotFound`, `Known`, `CannotOpen`, `ReadFile` are the steps of `take_all`,
`imp_resolve` and `take`, one system call each, because between them an editor
may save a file in place (`SaveInPlace`) or by renaming a new one over it
(`SaveByRename`). `mod_names` is how modules are named, `FileAt` how a line is
given back its file, `Redefined` what the checker refuses. A text is a
sequence of bindings, functions, ends of line and one kind of line that the
reader refuses. A tree says what the files are, which of them are on the
command line (`roots`) and what an editor does meanwhile (`busy`): nothing,
saving into files, or renaming new ones over them as well.

`OneNameOfAFile` is that a file is read under one of its names, in whatever order
they are met and though it is saved over between being found and being opened. A
rename at that moment is another matter: what is read is the new text, what is
noted is the number of the file that was found, and the next binding of the same
name finds a number nobody has noted. `ReadOnceWhateverIsSaved` says of that what
the comment `imports.ngpl:380` says, and fails: one text, two modules. So do
`ModulesToldApart` and `NamesAreAModulesOwn`, of what modules are named and of
what is refused; the program of `imports_promises` breaks the three
(`ModulesKeepAPromise`).

`Loader.tla` is the interpreter's: `load` calls itself for every binding, so
its state is the stack of calls (`Follow`, `Load`, `TakeKnown`, `Return`). The
arm of `TakeRefused` for a ring is in the code and is never taken, since a file
is known before its bindings are followed. With more than one file on the
command line the interpreter makes each a module of its own, where the compiler
joins them; it is run over trees that have one.

`Readers.tla` puts the two together: when the compiler has read the files the
interpreter loads the same ones, and both are shown to implement `ProgramRead`
over the same trees (`FileTrees.tla`), the interpreter as `LoadsTheProgram`.
A name that one module binds twice is the last binding in the interpreter, whose
bindings are a dictionary, and the first in the compiler, which walks a list; no
document says which it should be, and the trees bind a name once (`Followable`).
`RingsEnd`: both readers come to the end of every ring. The type invariants of
`Names`, `Imports`, `Arrays` and `IncrBuild` are conjuncts of `TableInv`,
`ModulesAreThere`, `HeapSound` and `IInv`.

### LexCompiler, LexInterp, Scanner and Layout: three readers of one layout

Blocks are opened and closed by indentation, and three programs work it out: the
compiler's lexer, the interpreter's, and the external scanner of the editor
grammar. `LayoutText.tla` says what a text is (a sequence of pieces: spaces, comments,
line ends, tokens of a few kinds) and what its layout means, from spec.md's "Layout-Driven
Blocks" and without an order to read it in: which tokens begin a line of the
program (`Begins`), and how many blocks each is in (`Meaning`).

| TLA+ | Source |
|---|---|
| `LexCompiler`: `SkipGap`, `LineFeed`, `AstrayLine`, `Take`, `Finish` | a turn of the loop of `lex`: `skip_gaps`, the arm of a line feed, `handle_indent`, a token, the end |
| `LexInterp`: `LineFeed`, `Take`, `PassToken`, `PassLineEnd`, `EndLine` | `tokenize`, whose newline carries the next line's indentation; `process_indentation` over the tokens |
| `Scanner`: `saved`, `serialize`, `deserialize` | what the parser keeps of the scanner between two calls |
| `Scanner`: `OpenBlock`, `CloseBlock`, `EndFile`, `CloseAtEnd`, `EndLine`, `ReadString` | the answers of `scan`, one a call |
| `Scanner`: `Declines`, `Shift` | `scan` answering false: the state is not kept, and the grammar's own lexer reads a token from the same place |
| `valid_symbols`, `AfterToken` | what the generated parser asks for, as far as the grammar has layout in it |

`Laid` is a text as the rules have it: its lines begin with spaces or with tabs
and not with both (`Even`), a line that is less deep is as deep as a line around
it (`Matched`), and a block stands under a head (`Headed`).
`InterpreterReads` and `EditorReads` say that each reads such a text
as its layout means it. `CompilerReads` says that what the compiler accepts is
such a text and read as it is meant, and that it refuses none but for two things
rules 3 and 5 allow, which have properties of their own. `LinesContinue`: a line
that ends with an operator goes on; the interpreter and the editor take it so, and
the compiler, whose lexer knows only of brackets, refuses it. `TabsIndent`: a text
may be indented by tabs; the compiler refuses the first of them. Both fail in
`layout_rules`.
`BlocksInStep` is about the scanner, which lives between calls
only as a buffer: what it restores is a state, and it counts the blocks the
parser has. `LinesEndOnce` is that the scanner, asked over and over at the end
of a file, gives it one newline.

A literal is read by its characters, and the escapes each reader knows are its
own: the compiler knows `\r` (lex.ngpl:489) and no `\u{...}`, the interpreter
`\u{...}` (lexer.py:383) and no `\r`, and the editor passes over any. `StringsAgree`
is that a literal which the compiler and the interpreter both take ends in one
place, that neither refuses what the other takes except for these two, and that the
editor ends it where either does. That `\r` is an escape of a string (spec.md:503)
is `InterpreterTakesEscapes`, and one text of `layout_rules` breaks it together
with the two rules of layout (`ReadersKeepARule`). That `\u{...}` is one is said in
TODO-language.md:43, checked off, and is not so of the compiler's strings
(lex.ngpl:493), whose characters know it; it is one of the two exceptions that
`StringsAgree` names and has no run, since a text whose literal the compiler refuses
there is not read on to the tab.

What the modules leave apart, each stated where a property has it as a premise.
`Even`: when something other than indentation stands
before the first token of a line (a comment), the compiler measures that
token's column and the others what the line begins with. `Headed`: the first line of a file
begins in column zero, since the interpreter measures a line at the end of the one before
and so never the first. The parser behind each lexer is there as far as it
takes layout (`Parsed`, `MeaningOf`, `AfterToken`); how the generated one mends
what does not parse is not.

### Emit, Writev and Output: from functions to the file

`Emit.tla` is the emitter and the second half of `codegen`: functions written one
behind another before anything has a place, each reference a hole and a fixup;
a function that does not fit unwritten by `rewind`; the routines of the runtime,
of which those nobody calls are passed over; the functions that moved; and at
the end the constant data laid out and every hole filled. `Writev.tla` is the
runtime routine that writes the parts of the file with one system call, and
with more when the kernel takes less. `Output.tla` hands the one's result to the
other, and reads the file back.

| TLA+ | Source |
|---|---|
| `em` | the struct `Emit`; `fix` is its pairs of lists, a kind to a pair |
| `Unreached`, `Measure`, `EmitFn` | the ways through the emission loop of `codegen` |
| `CloseOver`, `emit_runtime` | `rt_need` closed over `RT_EDGES`; the routines, `rt_begin` |
| `PlaceAway`, `PlaceLate` | the overflow |
| `Link`, `Target`, `Runs` | the patching of every list, in its order; `plan_elf` and `elf_file64` |
| `Fill`, `Takes`, `Drop`, `Shorten` | RT_WRITEV: the vector filled, the call, an entry walked off, an entry shortened |

A cell of the model stands for an instruction, a character or a word alike; a
body is a few operations that between them leave every kind of fixup. What the
file says is read back without the lists of fixups: `SaysWhatTheProgramSays`
goes through every operation of every function and follows what the file holds
there (a jump to its label, a descriptor to its string's bytes, a table to its
function's labels). `TrapsStand`: where a function was unwritten there are only
traps. `RuntimeIsWhatIsCalled`: exactly the routines that are reached, and none
passed over. `BacktraceNames`: an address in a function has that function's name
in the backtrace table, one in the runtime none. `NothingLost`: what was written
and what is still to be written is the file, wherever the kernel stops.

Functions that are copied out of the earlier build are `IncrBuild`'s; here every
reached function is written. The rooms of the earlier build are large enough
(running out of them is a fallback, which is `IncrBuild`'s as well). Instruction
encodings, and the other five targets, which have no overflow, are left out.

### Heap, Allocator, ArrayValues and Arrays: memory in a compiled program

`Heap.tla` is what an allocator promises, `Allocator.tla` the one the compiler
writes into every program: operators on a record (the words, the region in
hand, the heads of the free lists), each answering the set of what the routine
may come to, because the kernel chooses where a region is. A word of the model
is eight bytes. The free lists lie in the words of the blocks that are free,
as in the program, so that a stale pointer reads what the program would read.

`ArrayValues.tla` says what arrays are to a program: a name holds a sequence,
and a walk walks what it took. `Arrays.tla` is how they are made: descriptors,
slots inside the descriptor and slots of their own, and the statements that
`lower.ngpl` turns into calls.

| TLA+ | Source |
|---|---|
| `heap` | the words; `AL_NEXT`, `AL_LIM`, `AL_FREE`; `regions` and `live` are history |
| `names`, `walks` | the frame slots of bindings; of a walk, its `desc` and `iv` |
| `joining` | the registers of `rt_push_all` while `v ← v ⧺ w` runs |
| `Literal`, `Copy`, `Join` | `lower_arrlit`, `lower_let_value`, `acat` |
| `Push`, `Pop`, `Negate` | `apush`, `apop`, `lower_thread_op` with an operand that is the destination |
| `BeginExtend`, `ExtendStep`, `ExtendDone` | `extends_itself`, `RT_AEXT` |
| `GiveBack` | `reclaim_after` |
| `BeginWalk`, `Turn`, `EndWalk` | `lower_foreacha`; what it gives back at the end is never emitted, since `nfree` stays 0 |

`HeapSound` (blocks apart, each on one list once) and `HandsOutApart` say that
the heap holds; `ArraysAreValues` is about what a program sees. There are two
things a program must not do for that, each a constant that lets programs do it.
One is to join an array onto itself
(`SelfJoin`): the compiled program reads slots it gave back, which is the
finding `NothingHeldWhileItGrows`, though it writes none of them. The other is to
write the name of the very array a walk took (`WritesWalked`). The checker lets it
through as a write to the name, and `v ← v ⧺ w` and `v ← v + w` write into that array
(`BeginExtend`, `Negate`), although spec.md, "Writing the Name
Is Not Writing the Object", says that `v ← …` does not reach into it.
`WalkedStaysAsLong` and `WalkedStaysAsItWas` are what it says, of the length and
of the elements: a walk notes what it took in the history field `took`. One program
of `arrays_promises` breaks all three (`ArraysKeepAPromise`).
Compiled, a walk over three elements that joins one more in each turn does not
end after three, where the interpreter's does; with `v ← v + 10` both change
what is walked. The heap is sound through all of it, which is proved with both
constants any.

What `GiveBack` gives back, and where, is the checker's to work out and not
modelled: the action asks that no walk over the name is under way and leaves the
name with nothing. That a place worked out too early would do harm is therefore
nothing any property here would catch.

Not modelled: arrays of references and of arrays, sized arrays (which live in
the frame), borrows of arrays, the other routines that make arrays, and
running out of memory, which ends the program.

## Runs

| Run | What it checks | Bounds and why |
|---|---|---|
| `incr_builds` | `InRoom`, `KeepsPlaces`, `RebuildReproduces`, `IInv`, `Faithful`, `EditThatFitsIsLaidOver`, `StopsOnlyWhenAstray`, `KeepsThePromise`, `BuildEnds` | Three functions and the programs `EditPrograms`. `a` comes in three sizes: its slot, more than its slot, more than the room it is then moved into; `b` in two, and owning a lambda, needing a routine nothing else needs, defined first, defined and not reached, or gone. Sizes are real bytes and the page 4096; the compiler's own function (`SynthSize`) is so large that the region has room for two moves and not for a third, so a third falls back |
| `incr_promises` | `CodeKeepsAPromise` (`CallersFollow`, `LambdasFollow`), violated | two programs (`PromisePrograms`): the method `a` outgrows its slot and drops its lambda, `b` gains one as large as `main`'s, and `main` is as it was |
| `data_edits` | `LengthsKept`, `TablesKept`, `ValuesFollow`, `PlacesFollow`, `StructsFollow` | three functions, three literals of two lengths, eight sets of declarations; five structs, one of another twice, two of one another, one that no signature has, and each in turn with its fields the other way about |
| `data_promises` | `DataKeepsAPromise` (`StringsFollow`, `TablesKept`, `ValuesFollow`, `PlacesFollow`, `EnumsFollow`), violated | two programs (`PromisePrograms`): in the second a literal is dropped here and written there, there is a constant more, and two constants, two writable globals and two variants have changed places; `pick`, which is the same in both, is copied. With `BtSize` 4 the table lies so that the constant is not noticed |
| `names` | `FreeSlot`, `TableInv`, `AnswersFirst`, `WalksEnd` | four names, two slots to begin with, so that the table grows twice; hashes that collide in every table, that part when it grows and that wrap around |
| `imports` | `OneNameOfAFile`, `ModulesAreThere`, `LinesKnowTheirFile`, `ReadsTheProgram`, of the interpreter `LoadsTheProgram`, and of both `RingsEnd` | `RingTrees`: every choice of up to two bindings in two of four files, three names for two of them. `RootTrees`: two files on the command line, one of which may be missing, and an editor that saves once (`MaxSaves`), before a file is found or after; that a file is read under one name, and that its modules are there, is proved for any number of saves. The interpreter loads each tree that has one file on the command line and no editor |
| `imports_promises` | `ModulesKeepAPromise` (`ModulesToldApart`, `NamesAreAModulesOwn`, `ReadOnceWhateverIsSaved`), violated | `StemTrees`: three modules, stems `a`, `a3`, `a`, one of which is bound twice, and one new file to put in its place (`StemSaved`) |
| `arrays` | `HeapSound`, `HandsOutApart`, `ArraysAreValues` | two names, six statements (`MaxStatements`), up to four elements (`MaxLen`), one walk at a time (`MaxWalks`). A region is 16 words, and there is room for two; the least capacity is 2, so an array of three elements has grown twice and given slots back; the two sizes that are given back share a place of the table. Six statements are two arrays that grow and one that takes what the other gave back. |
| `arrays_promises` | `ArraysKeepAPromise` (`NothingHeldWhileItGrows`, `WalkedStaysAsLong`, `WalkedStaysAsItWas`), violated | as `arrays`, with an array joined onto itself (`SelfJoin`) and a name written in place under a walk over it (`WritesWalked`) |
| `layout` | `CompilerReads`, `InterpreterReads`, `EditorReads`, `BlocksInStep`, `StringsAgree`, `LinesEndOnce`, `ReadingEnds` | `ThreeLines`: lines in column 0, 1 or 4, of five shapes (a word, a head, a head with its statement, an operator continued, brackets over two lines), with blank and comment lines between, with and without an end to the last. `FourLines`: one block more than the scanner has room for. `Oddities`: a tab, a comment before a token, a comment over two lines, a slash. Literals of up to four characters of every kind, and behind three quotes two of every kind or five without letters and wrong escapes, which is room for a continued line and the closing quotes. `MaxDepth` is 3 for 128, a byte (`Byte`) has 4 values for 256, so that column 4 needs both bytes of two, and the buffer 10 for 1024: as in the program, the deepest state just fits |
| `layout_rules` | `ReadersKeepARule` (`LinesContinue`, `TabsIndent`, `InterpreterTakesEscapes`), violated | `RulePrograms`: a line continued behind an operator by a literal of one or two characters of every kind, and a block indented by spaces or by tabs |
| `output` | `SaysWhatTheProgramSays`, `TrapsStand`, `RuntimeIsWhatIsCalled`, `BacktraceNames`, `NothingLost`, `WritingEnds` | Three functions, two of them any of three bodies, and the one the compiler adds; modes 0 and 1 with the first function reached or not; mode 2 with each of the two fitting, outgrown, away, or away and outgrown, in either order past `.text`, over a file that had three of the four routines or all. A page (`Page`) is 8 cells and the first is at 100 (`IMAGE_BASE`). Two programs' files are taken in pieces that end at a run's end or one cell to either side (`Near`), since between two ends one place is like another; the others' at once |

A run that is violated checks one property, made of what documents and comments of
the repository say and the code does not do. Each of them is said on its own and of
every program, so the property is their disjunction, which is far less than is said:
that of whatever happens at least one is kept. TLC refutes it, and a state that does
breaks each of them: one counterexample shows every finding of its run. The
properties are state predicates with their names on them, and the last state of the
trace says of each what is wrong.

The reading of files stops when it is done, and so does the system: the runs
over `Imports` and `Readers`, over `Layout` and over `Output` do not look for
deadlock. Nor do those over `Arrays`, whose programs end after `MaxStatements`
or when there is no memory. The number of edits of a
program under incremental compilation is not bounded: the state space is finite because
programs and addresses are. Three functions are enough for a caller, a callee
and a function that is in the way of neither; a fourth repeats one of them.

Fairness: `FairSpec` has `WF_vars(BuildStep)`: the compiler is a sequential
program that goes on once it has been started. Nothing is assumed of the
editor, of starting a build, or of kills. `Names`, `Imports` and `Loader` have
the same fairness of the program's own steps and none of its callers' or of
the editor's; `Readers` has it of either reader, and `Layout` of three programs
that only read. In `Output` the routine's own steps have it, and of the kernel
it is assumed that one asked over and over takes something in the end (`SF` of
`TakesSome`), not that it does on any one call: it may answer nothing any number
of times in between, or refuse, which ends the write with a message. `Arrays`
states safety only.

## Proofs

| Module | Theorem | Says |
|---|---|---|
| `IncrBuildProofs` | `Invariance` | `Spec => []IInv` |
| | `TypeCorrect` | `Spec => []TypeOK` |
| | `SlotsHold` | `Spec => []InRoom` |
| | `EveryFileIsFaithful` | `NamesSeen /\ LambdasFixed => (Spec => []Faithful)` |
| | `PromiseKept` | `NamesSeen /\ LambdasFixed => (Spec => KeepsThePromise)`: `IncrBuild` implements `Compiler` |
| | `PlacesAreKept` | `NamesSeen => (Spec => []KeepsPlaces)` |
| | `AssertionHolds` | `Spec => []StopsOnlyWhenAstray` |
| | `FilesAreOrderly` | `Spec => []OInv` |
| | `OnlyWhatDoesNotFit` | `Spec => []EInv` |
| | `RebuildsReproduce` | `LambdasFixed => (Spec => []RebuildReproduces)` |
| | `WhatFitsIsLaidOver` | `Spec => []EditThatFitsIsLaidOver` |
| `IncrDataProofs` | `EveryBuildFollows` | `Spec => []Follows` |
| | `LengthsStand` | `StringsEndWithin => (Spec => []LengthsKept)` |
| | `PlacesStand` | `GlobalsToldApart => (Spec => []PlacesFollow)` |
| | `TablesStand` | `StringsEndWithin /\ AsManyConstants => (Spec => []TablesKept)` |
| | `ValuesStand` | `StringsEndWithin /\ SameConstants => (Spec => []ValuesFollow)` |
| | `StructsFollowTheSource` | `Spec => []StructsFollow` |
| `NamesProofs` | `TableInvariance` | `Spec => []TableInv` |
| | `FreeSlotAlways` | `Spec => []FreeSlot` |
| | `AnswersFirstAlways` | `Spec => AnswersFirst`: `Names` implements `NameTable` |
| `ImportsProofs` | `OneNameEach` | `Spec => []OneNameOfAFile` |
| | `ModulesStand` | `Spec => []ModulesAreThere` |
| | `LinesAreTold` | `Spec => []LinesKnowTheirFile` |
| | `ReaderReadsTheProgram` | `LinksStay => (Spec => ReadsTheProgram)`: `Imports` implements `ProgramRead` |
| | `LoaderReadsTheProgram` | `LinksStay /\ LoadableTrees => (ReadersSpec => LoadsTheProgram)`: `Loader` implements `ProgramRead` |
| `LayoutProofs` | `ScannerInStep` | `Spec => []BlocksInStep` |
| | `NewlinesOnce` | `Spec => []LinesEndOnce` |
| `WritevProofs` | `NothingIsLost` | `WriteSpec(Seq(Seq(C))) => []NothingLost`, whatever a cell `C` is |
| | `EndIsWhole` | `WriteSpec(Seq(Seq(C))) => []AllIsWritten` |
| `ArraysProofs` | `HeapIsSound` | `Spec => []HeapSound` |
| | `HeapIsHeap` | `Spec => HandsOutApart`: `Allocator` under `Arrays` implements `Heap` |
| | `ArraysArePlain` | `~SelfJoin /\ ~WritesWalked => (Spec => ArraysAreValues)`: `Arrays` implements `ArrayValues` |

### Incremental compilation

The theorems of `IncrBuildProofs` hold for every set of functions,
versions, sizes, call graphs, runtimes, pages and programs that meet the
assumptions `ProgramAssumption`,
`CodeAssumption` and `RuntimeAssumption` of `IncrBuild.tla` (a program defines
what it calls; code takes at least a byte; a runtime of some routines begins
with one of them). `NamesSeen` (every name a program calls is one
the scan can see) and `LambdasFixed` (as many lambdas means the same lambdas)
are hypotheses where a theorem names them, and only there; `incr_promises` shows
what happens without them.

The argument (`IncrBuildInv.tla`). `InRoom` is not inductive: that slots are
disjoint holds because the cursor only goes forward and a slot runs to the
next symbol, which is `Extents`, a statement about the build under way; and
that the cursor is never past a slot it has to fill is `Aligned`, which
relates the build to the file. `IInv` is these with what every function is
waiting for (`Coverage`), what the runtime is going to hold (`NeedsKnown`) and
what a file carries from one build to the next (`FileInv`: every function
fits its own slot, a slot in `.text` ends before the runtime). One lemma per
action shows that it is kept. Four invariants stand on it.

- `LInv` and `PInv`: the files are linked, and the one about to be written means
  what was read. A function is copied only when neither it nor what it names
  changed; what did not change fits the slot the file gives it and so has not
  moved; the counts in `incr_lines_up` leave the same routines and as many
  lambdas as the file has. `KeepsPlaces` follows from the same lemmas. The
  refinement is then step by step: replacing the file is the step in which
  `Compiler` replaces the image, emptying it the one in which there is none, and
  every other step stutters.
- `SInv`: the code of a file ends where its last section does (`EndsWithin`), and
  a build that lines up and needs no new routine has not come past that
  (`LaidWithin`), because each function of the old overflow ends where it ended.
- `OInv`: a file is `Orderly`, in that a slot runs to the next symbol (`Written`)
  and the symbols are in the order codegen.ngpl lays them in (`InOrder`); a build
  under way lays them so (`LaidInOrder`), and what it leaves where it was it takes
  from the file, in the file's order (`LaidFromTheFile`). When nothing changed
  nothing is written again, so nothing is moved, so the cursor ends where the
  file's code ended, so there are the same symbols, and slots that run to the next
  symbol are the same slots.
- `EInv`: as long as everything fits, the cursor is never past what is next
  (`NothingInTheWay`), since from the end of one slot it is never further than the
  beginning of the following one; so `incr_lines_up` finds nothing, and a build
  that is whole has met something that does not fit (`WholeOnlyIfItMust`).

### The data that copied code names

`DataAssumption` is what `IncrDataProofs` assumes of the constants: a program
gives every function a version, declares its globals once and by names that are
not that of the kernel's block, and declares what a function uses; a word has
bytes, and its low ones tell what it says. The definitions of types are any,
over finitely many structs. Programs, words, texts and sizes are any as well, so
what is said is said of bytes: `Flattening` has where each of a sequence of
sequences is when they are put one behind the other (`Places`), which is the one
lemma about the folds that lay out the data.

`LinedUp` is the lemma everything stands on: if an image lines up with a file and
something is left to compare, the strings of the two end at one place, there are as
many, and each is as long as the one in its place. Where the new strings end the
comparison meets the new program's first descriptor; the first byte of a word says
what it is about, so that in the file a descriptor begins there too, of a string
that begins at 0, and from there on the descriptors go side by side to the constants
of the runtime behind the last. `Stands` says of the file what the last program
built put there, with the tables of earlier builds behind it, and `LengthsKept`
follows.

Four hypotheses say which programs are meant, and each is one the code needs: a
case it excludes goes wrong: the first is the boundary at `codegen.ngpl:308`, the
others are shown by `data_promises`.

- `StringsEndWithin`: no program's strings are exactly as long as the read-only
  data of another. Then nothing would be compared.
- `AsManyConstants`: programs declare as many constants. One more, and the tables
  that are kept begin a word further.
- `SameConstants`: and they are the same, whatever their values. Two that change
  places are compared by nothing.
- `GlobalsToldApart`: of two programs that seal globals before `@start` both seal
  the same; and two writable globals with one place and one first value are one.

The programs of `data_edits` satisfy the first and the last (`MCAssumption`), and
there a constant more is seen because something behind the tables differs; that
whether this happens depends on bytes is why the theorems ask for more.

`StructsFollow` needs no hypothesis. `SpellingTells` says that two spellings of a
struct that are equal are of equal fields, whose spellings are equal in turn, with
the struct among those met. A struct met again is spelled by its name alone, and
so the lemma cannot go down a ring; `SameShapes` takes instead all structs that
are spelled alike somewhere on the way, shows that the fields of each are among
them, and so has everything the struct is made of (`MadeOf`, a least set). That
there is a spelling at all, a recursion over what has not been met, is `CanSpell`.

### The table of names

The invariant is `TableInv`: every name placed so far stands in one
slot, all slots from where its walk begins to where it stands are taken, and
fewer than all slots are. While a walk runs, everything between its beginning
and where it is belongs to other names; so when it stops at a free slot the
name is nowhere. The number of taken slots is bounded by counting them
(`FiniteSetTheorems`), and every step of `Names` is a step of `NameTable` or
changes nothing of it. It assumes of the constants only `TableAssumption`.

### Reading a program

`FilesAssumption` and `TreesAssumption` say that texts, roots and the search
path are sequences, that a file has a number and a program a root. `ReadInv`
relates the lists the reader keeps: what is pending, the numbers and modules of
what was read, and the blocks of the one text (`Blocks`), with what the step
in hand has found and has yet to note (`InHand`). `OneNameEach` needs two more:
the numbers noted are all different (`NumbersOnce`), and as long as nobody renames
a new file over another a name that was read still has the number that was noted
for it (`NamesStand`), as has the name in hand (`StillFound`), whatever is saved in
between. So if a file had been read under two names, its one number would have
been noted twice.
`LinesAreTold` is about trees nobody saves into: with an editor a line may be of a file
that is no longer what it was.

`AnswerInv` is what `ReadsTheProgram` needs: what has been read is reachable, and
everything bound by what has been dealt with is among what is pending or read
(`FilesRead` and the other parts of `ReadSoFar`), so that when nothing is pending the files are the
least set closed under bindings, which is how `Files` says what a program is. The
bindings of a text are numbered by counting those before, in the definition as in
the proof, so that no induction over a text is needed. The hypothesis `LinksStay`
says that the names of a file are in one directory; where they are not, what a
name in the file finds depends on the name the file was met under. The trees of
the run satisfy it (`MCLinksStay`).

The interpreter's reader implements the same specification
(`LoaderReadsTheProgram`), though it follows a binding as soon as it meets it.
Its invariant, `Loading`, says of each module that every binding of its file has
been followed to the file its name finds (`BindingsLoaded`) or is left to a call
of that module (`NoneForgotten`), and of each call that it waits at the binding
the call above it was made for (`CallsWait`). So when a call returns, what it
answers is what the call below had asked for, through any ring; and when the last
one returns nothing is left to any call, the files loaded are closed under
bindings, and they are all reached. `AnsweredLoads` is the one lemma behind
`TakeKnown` and `Return`, which end in the same answer. The hypothesis
`LoadableTrees` is about trees with one file on the command line and no editor,
the ones the interpreter is run over: no text in them holds a line the reader
refuses, and a name is bound to one file, since of two the interpreter keeps the
last. The trees of the run satisfy it (`MCLoadableTrees`).

### The editor's scanner

`SizesAssumption` says of the constants what makes a state fit the buffer: the
deepest leaves room for its indents and is a byte, and a byte holds the two flags.
`ComesBack` is the lemma the rest stands on: a state in `Kept` is what reading
its serialization gives, byte for byte; `InBytes` says that what is written are
bytes. `BlocksInStep` is not inductive: that a line is not begun before its
indentation is settled needs that nothing is pending behind a token that opens a
block (`Settling`), and that the state fits needs that what is measured does
(`IndentFits`). `BlocksInv` has both. `LinesInv` counts: every newline given is one
of a line that ended before where the scanner stands, or it is the one at the end
of the file, and then the flag that survives in the buffer says so. The texts are any
sequences of pieces (`ProgramsAssumption`).

### The vectored write

`WriteSpec` is the routine under any runs and a kernel that stops anywhere; in
`Output` the runs are the ones the emitter made. `WriteInv` is `NothingLost` and
what is true in the middle: between two calls the vector still names what the
kernel took of it, and what was written and the rest past that are the runs.
`Counted` is that the kernel counts what is there; an entry is walked off or cut
by what `HeadFirst` and `PastFirst` say of sequences put one behind the other.
There is no assumption.

### The heap and its arrays

The theorems hold for every `Limit`, page, least region, table of lists and mix
(`AllocatorAssumption`), and for every set of names, values and literals that are
integers, every number of statements and of walks, and every growth
(`ArraysAssumption`, which asks of the least capacities only that they are
numbers, the one an array grows to not 0).

`HeapSound` is not inductive. It says what following the lists finds, and taking
a block off a list is sound only if the list does not come by that block again;
and it says nothing of who has a block, though giving slots back is sound only if
they are a block and nobody else's. `HeapInv(h, F)` says of a heap which blocks
`F` are free: every block is in its place (`Placed`), and each list goes
through blocks of `F`, each the successor of one and no more (`Listed`). `OwnInv`
says that every array in use lies in blocks of its own (`Home`), its descriptor
in one and its slots in it or in another. What each routine leaves is one notion,
`Serves`: a sound heap, the array in its blocks, every other block as it was.
`Allocated`, `PushServes` and `FreshServes` are the lemmas for `RT_ALLOC`,
`RT_ARRPUSH` and the routines that make arrays; `ProgramInv` adds what names,
walks and a join under way hold, and there is one lemma a statement. That
following the lists never leaves `F` (`FollowFinds`) is proved of the first step
that would, since there is no induction.

For `ArraysArePlain` the same lemmas say what arrays contain. A join grows an
array one element at a time and is one step of `ArrayValues`, its last: while it
runs the name is seen to hold what it held, which is the first part of what its
array contains (`Joins`), and the array joined is another name's and stands.
That fails of an array joined onto itself, whose slots go back when it
grows, so `~SelfJoin` is a hypothesis here, and `arrays_promises` shows what
happens without it; and `~WritesWalked` is one because a walk over the name would
see the join half done. The heap is sound without either.

### What is left to TLC

What is said of the two lexers, of what the texts mean to the three
readers, and of `Emit`. What a run shows violated is not
true of the code, and has no theorem. What a text means is defined by recursion over it, and what
`Emit` comes to is a fold of a fold over the operations of every function, over a
record that all of them change. Liveness
under fairness is out of the prover's reach, and so is induction over data: the
library's induction theorems cannot be instantiated, and what stands in for them
here is the least element of a set of numbers (`LeastOf`), which serves where
there is a number to be least and not where a definition recurs over a structure.

## Plan

1. `IncrBuild` and its proofs (done), `Compiler` (done).
2. `IncrData` (done), `Names` with its proofs (done), `Imports` and `Loader` (done),
   the two over the same files in `Readers` (done).
3. The heap and arrays (done), `Layout` and the three readers (done), `Emit`,
   `Writev` and `Output` (done).
4. Theorems: those of `IncrBuild`, `Imports`, `Scanner` and `Arrays` (done); of
   `IncrData` and `Writev` (done); that `Imports` and `Loader` both implement
   `ProgramRead` (done).
5. Definitions of types under `--incremental` (`Symbols`, done); its options;
   `ElfPlan`: the headers and the tables at the end of the file.
6. The hash table of `rt_hash.ngpl`, signals.
7. `Borrows` (`env.py`, `check.ngpl`): scopes, moves, lends, and which arrays
   are given back after which statement.
8. `Bootstrap`, `Repl`, `Abi`, `Dispatch`.

## Not modelled

The parser, the checker's typing rules, lowering and the instruction
encoders are functions over trees and tables: a model of one would be a
transcription. SHA-256 is taken to tell sources apart. `parser.c` of the
editor grammar, which is nearly all of the repository's C, is generated from
`grammar.js`: tables, whose layout rules `Scanner` has as `valid_symbols` and
`AfterToken`; `scanner.c` is modelled whole. The scanner's error sentinel, which
is valid only while the parser mends a text that does not parse, is not.
