------------------------------ MODULE IncrData ------------------------------
(***************************************************************************)
(* The data of a program built under --incremental (src/src/incr.ngpl, the *)
(* second half of codegen in src/src/codegen.ngpl): the string literals    *)
(* and their descriptors, the globals, the jump tables, and the check that *)
(* allows a build to be laid over the file of an earlier one.              *)
(*                                                                         *)
(* Copied code holds addresses of data that an earlier build resolved.     *)
(* IncrBuild follows the text region; here every function stays where it   *)
(* is and the regions behind the text are followed instead.  Both are laid *)
(* out by real byte arithmetic: whether a mistake is noticed can depend on *)
(* how long the names of the functions are, modulo a word.                 *)
(***************************************************************************)
EXTENDS SequencesExt, Symbols

CONSTANTS
  Order,      \* the functions of the program, in the order they are parsed
  Version,    \* what the source of a function may say
  Literal,    \* texts of string literals
  LitLen,     \* their lengths in bytes
  Lits,       \* the literals written in a function, in order
  Names,      \* the functions a function names
  Uses,       \* the globals a function reads, or "kernel"
  Handles,    \* the named types whose values a function takes apart or makes
  Table,      \* the targets of a function's jump table, <<>> for none
  Word,       \* bytes in a word
  Significant,\* bytes of a word that are not always zero
  BtSize,     \* bytes of the table a backtrace reads
  Spare,      \* bytes a first build reserves beyond its read-only data
  RelroWords, \* words in the page that is sealed before @start
  NoFile,     \* there is no output file
  Types,      \* what the named types of a program may be defined as
  Programs    \* what may be built: versions, declarations of globals, types

Fn == {Order[i] : i \in DOMAIN Order}

\* A program is the version of every function and its globals in the order
\* they are declared: "ro" is never written, "relro" is written before @start,
\* "rw" is written throughout.
\* No two have one name, and none is the kernel's block, which is "kernel" here.  And
\* it has its definitions of the named types.
Decl == [name : STRING, kind : {"ro", "relro", "rw"}, val : Nat]

ASSUME DataAssumption ==
  /\ Word \in Nat \ {0} /\ BtSize \in Nat /\ Spare \in Nat
  /\ Significant \in 1 .. Word /\ RelroWords \in Nat \ {0}
  /\ LitLen \in [Literal -> Nat]
  /\ Order \in Seq(Fn) /\ \A i, j \in DOMAIN Order : Order[i] = Order[j] => i = j
  /\ \A f \in Fn : \A v \in Version : Lits[<<f, v>>] \in Seq(Literal) /\ Table[<<f, v>>] \in Seq(Nat)
  /\ \A p \in Programs :
       /\ p.ver \in [Fn -> Version]
       /\ p.globals \in Seq(Decl)
       /\ \A i, j \in DOMAIN p.globals : p.globals[i].name = p.globals[j].name => i = j
       /\ \A i \in DOMAIN p.globals : p.globals[i].name # "kernel"
       /\ p.types \in DOMAIN Types
       /\ \A f \in Fn : \A g \in Uses[<<f, p.ver[f]>>] \ {"kernel"} :
            \E i \in DOMAIN p.globals : p.globals[i].name = g
  /\ IsFiniteSet(Struct)
  /\ \A d \in DOMAIN Types :
       /\ \A t \in Struct : Types[d][t] \in Seq(Field)
       /\ \A t \in Enum : Types[d][t] \in Seq(STRING)

VARIABLES
  src,   \* the program last built
  bin    \* the output file: .rodata and its room, .data, and the code
vars == <<src, bin>>

-----------------------------------------------------------------------------
\* The layout of .rodata and .data.

\* A word is written low byte first and its upper bytes are zero, as padding
\* is; other bytes of different things are taken to be different.
Zero == <<"zero", 0, 0>>
Bytes(tag, w) ==
  [k \in 1 .. Word |-> IF k <= Significant THEN <<tag, w, k>> ELSE Zero]
Aligned(s) == s \o [k \in 1 .. (Word - (Len(s) % Word)) % Word |-> Zero]

\* Every literal the source wrote, place by place; code that reads one reads
\* the first place with the same text.
strs(p) == FlattenSeq([i \in DOMAIN Order |-> Lits[<<Order[i], p.ver[Order[i]]>>]])
intern(pool, s) == SelectInSeq(pool, LAMBDA t : t = s)
stroffs(pool, i) ==
  FoldLeft(LAMBDA n, s : n + LitLen[s], 0, SubSeq(pool, 1, i - 1))

StringBytes(pool) ==
  FlattenSeq([i \in DOMAIN pool |->
                [k \in 1 .. LitLen[pool[i]] |-> <<"char", pool[i], k>>]])
Descriptors(pool) ==
  FlattenSeq([i \in DOMAIN pool |->
     Bytes("address", stroffs(pool, i)) \o Bytes("length", LitLen[pool[i]])])

OfKind(p, kind) ==
  FlattenSeq([i \in DOMAIN p.globals |->
                IF p.globals[i].kind = kind THEN <<p.globals[i]>> ELSE <<>>])
ReadOnlyValues(p) ==
  FlattenSeq([i \in DOMAIN OfKind(p, "ro") |-> Bytes("value", OfKind(p, "ro")[i].val)])

\* .rodata up to the jump tables: strings, descriptors, the constant tables of
\* the runtime, the table a backtrace reads, the globals never written.
layout == [p \in Programs |->
  LET pool == strs(p)
      chars == Aligned(StringBytes(pool))
      head == chars \o Descriptors(pool) \o Bytes("utf8", 0)
      bt_to == Len(head) + BtSize
      values == ReadOnlyValues(p)
  IN  [strs |-> pool,
       ro_fixed |-> Len(chars),
       ro_bt |-> Len(head), ro_bt_end |-> bt_to,
       ro_vals |-> bt_to, ro_vals_end |-> bt_to + Len(values),
       bytes |-> Aligned(head \o [k \in 1 .. BtSize |-> <<"backtrace", 0, k>>]
                                \o values)]]
jt_base(p) == Len(layout[p].bytes)

\* .data in words: what is sealed before @start, with the kernel's block
\* behind the globals of that kind and the rest of the page behind that, the
\* signal structures, the writable globals, the allocator.
relro_size(p) ==
  LET n == Len(OfKind(p, "relro")) + 1
  IN  ((n + RelroWords - 1) \div RelroWords) * RelroWords
Data(p) ==
  [i \in 1 .. relro_size(p) |->
     IF i <= Len(OfKind(p, "relro")) THEN OfKind(p, "relro")[i].val ELSE 0]
  \o <<0>> \o [i \in DOMAIN OfKind(p, "rw") |-> OfKind(p, "rw")[i].val] \o <<0>>

\* A slip: the place among all globals instead of among those of its kind.
gmap_by_declaration(p, g) ==
  LET at == SelectInSeq(p.globals, LAMBDA d : d.name = g)
  IN  CASE g = "kernel" -> <<"data", Len(OfKind(p, "relro"))>>
        [] p.globals[at].kind = "ro" -> <<"rodata", layout[p].ro_vals + Word * (at - 1)>>
        [] p.globals[at].kind = "relro" -> <<"data", at - 1>>
        [] OTHER -> <<"data", relro_size(p) + at>>

\* Where a global lives: the segment and the offset in it.
gmap(p, g) ==
  LET at(kind) == SelectInSeq(OfKind(p, kind), LAMBDA d : d.name = g)
  IN  CASE g = "kernel" -> <<"data", Len(OfKind(p, "relro"))>>
        [] at("ro") > 0 -> <<"rodata", layout[p].ro_vals + Word * (at("ro") - 1)>>
        [] at("relro") > 0 -> <<"data", at("relro") - 1>>
        [] OTHER -> <<"data", relro_size(p) + at("rw")>>

-----------------------------------------------------------------------------
\* Code generation.

Labels(f, v) == [j \in DOMAIN Table[<<f, v>>] |-> <<f, v, j>>]
TableBytes(f, v) ==
  FlattenSeq([j \in DOMAIN Table[<<f, v>>] |-> Bytes("code", Labels(f, v)[j])])

\* The tables of the functions this build writes, one behind the other.
Tables(p, fresh) ==
  FlattenSeq([i \in DOMAIN Order |->
     IF Order[i] \in fresh THEN TableBytes(Order[i], p.ver[Order[i]]) ELSE <<>>])
jt_start(p, fresh, f) ==
  LET here == SelectInSeq(Order, LAMBDA g : g = f)
      earlier == {Order[i] : i \in 1 .. here - 1}
  IN  Len(Tables(p, fresh \cap earlier))

\* The tables of the previous build are kept whole, from where this build's
\* own tables would begin.
incr_jt_prefix(prev, base) ==
  IF prev = NoFile \/ Len(prev.ro) <= base
  THEN <<>> ELSE SubSeq(prev.ro, base + 1, Len(prev.ro))

\* The symbols of the functions, under each definition of the types.
syms == [d \in DOMAIN Types |-> {fn_symbol(Types[d], f) : f \in Fn}]

\* What the code of a function takes its values to be: where a field is, which
\* number is a variant's.
Shapes(p, f) == [t \in Handles[<<f, p.ver[f]>>] |-> Types[p.types][t]]

\* Code as it is written: the version, the addresses resolved into it, and the
\* shapes of what it handles.
Written(p, f, table) ==
  LET lits == Lits[<<f, p.ver[f]>>]
  IN  [ver |-> p.ver[f],
       strings |-> [k \in DOMAIN lits |->
                      layout[p].ro_fixed
                        + 2 * Word * (intern(layout[p].strs, lits[k]) - 1)],
       globals |-> [g \in Uses[<<f, p.ver[f]>>] |-> gmap(p, g)],
       types |-> Shapes(p, f),
       table |-> table]

\* A slip: the new tables are taken to begin where the kept ones do.
codegen_over_kept(p, fresh, prev) ==
  LET kept == incr_jt_prefix(prev, jt_base(p))
      ro == layout[p].bytes \o kept \o Tables(p, fresh)
  IN  [ro |-> ro,
       room |-> IF prev = NoFile THEN Len(ro) + Spare ELSE prev.room,
       data |-> Data(p),
       syms |-> syms[p.types],
       inits |-> IF prev = NoFile THEN Len(OfKind(p, "relro")) ELSE prev.inits,
       code |-> [f \in Fn |->
                   IF f \in fresh
                   THEN Written(p, f, jt_base(p) + jt_start(p, fresh, f))
                   ELSE prev.code[f]]]

\* The image of p with the functions of fresh written and the rest copied.
codegen(p, fresh, prev) ==
  LET kept == incr_jt_prefix(prev, jt_base(p))
      base == jt_base(p) + Len(kept)
      ro == layout[p].bytes \o kept \o Tables(p, fresh)
  IN  [ro |-> ro,
       room |-> IF prev = NoFile THEN Len(ro) + Spare ELSE prev.room,
       data |-> Data(p),
       syms |-> syms[p.types],
       inits |-> IF prev = NoFile THEN Len(OfKind(p, "relro")) ELSE prev.inits,
       code |-> [f \in Fn |->
                   IF f \in fresh THEN Written(p, f, base + jt_start(p, fresh, f))
                   ELSE prev.code[f]]]

\* What a build over a file writes again: what changed and what names it.
incr_regenerate(p, prev) ==
  LET moved == {f \in Fn : prev.code[f].ver # p.ver[f]}
  IN  moved \cup {f \in Fn : Names[<<f, p.ver[f]>>] \cap moved # {}}

\* A byte that need not be what it was: a value, or a backtrace's table.
MayDiffer(p, i) ==
  \/ layout[p].ro_vals < i /\ i <= layout[p].ro_vals_end
  \/ layout[p].ro_bt < i /\ i <= layout[p].ro_bt_end

\* <globals>, which builds what is sealed before @start, is a symbol of both
\* or of neither, and fits the slot it was given, which is no larger than what
\* it held when the program was last built whole.
Initialised(p, prev) ==
  /\ OfKind(p, "relro") = <<>> <=> prev.inits = 0
  /\ Len(OfKind(p, "relro")) <= prev.inits

\* Slips: only the sizes of .rodata are compared; .data is not compared.
lines_up_by_size(p, prev, out) ==
  /\ Len(out.ro) >= Len(prev.ro) /\ Len(out.ro) <= prev.room
  /\ out.data = prev.data
  /\ out.syms = prev.syms
  /\ Initialised(p, prev)
lines_up_without_data(p, prev, out) ==
  /\ layout[p].ro_fixed <= Len(prev.ro)
  /\ Len(out.ro) >= Len(prev.ro) /\ Len(out.ro) <= prev.room
  /\ \A i \in layout[p].ro_fixed + 1 .. Len(prev.ro) :
       out.ro[i] # prev.ro[i] => MayDiffer(p, i)
  /\ out.syms = prev.syms
  /\ Initialised(p, prev)

\* Whether the image may be laid over the file.
incr_lines_up(p, prev, out) ==
  /\ layout[p].ro_fixed <= Len(prev.ro)
  /\ Len(out.ro) >= Len(prev.ro)
  /\ Len(out.ro) <= prev.room
  /\ \A i \in layout[p].ro_fixed + 1 .. Len(prev.ro) :
       out.ro[i] # prev.ro[i] => MayDiffer(p, i)
  /\ out.data = prev.data
  /\ out.syms = prev.syms
  /\ Initialised(p, prev)

-----------------------------------------------------------------------------
\* One build after another over the same file.

Init == src = NoFile /\ bin = NoFile

\* There is no file to line up with.
First(p) ==
  /\ bin = NoFile
  /\ src' = p
  /\ bin' = codegen(p, Fn, NoFile)

\* The image lines up with the file and is written over it.
Overlay(p) ==
  /\ bin # NoFile
  /\ LET out == codegen(p, incr_regenerate(p, bin), bin)
     IN  incr_lines_up(p, bin, out) /\ bin' = out
  /\ src' = p

\* It does not: the program is built whole.
Whole(p) ==
  /\ bin # NoFile
  /\ ~incr_lines_up(p, bin, codegen(p, incr_regenerate(p, bin), bin))
  /\ bin' = codegen(p, Fn, NoFile)
  /\ src' = p

Next == \E p \in Programs : First(p) \/ Overlay(p) \/ Whole(p)
Spec == Init /\ [][Next]_vars

-----------------------------------------------------------------------------
\* Properties.

Built == bin # NoFile
Has(at, s) == at + Len(s) <= Len(bin.ro) /\ SubSeq(bin.ro, at + 1, at + Len(s)) = s

\* What a function of the file says its literals are.
Literals(f) == Lits[<<f, bin.code[f].ver>>]

\* Every literal a function names is described by a descriptor at the address
\* the function holds, with the length the literal has (codegen.ngpl: comparing
\* the descriptors checks every string's offset at once).
LengthsKept ==
  Built => \A f \in Fn : \A k \in DOMAIN Literals(f) :
    LET at == bin.code[f].strings[k]
    IN  Has(at + Word, Bytes("length", LitLen[Literals(f)[k]]))

\* And it describes the text the function names, which the copied code prints
\* (INCREMENTAL.md: the new message is the true one).
StringsFollow ==
  Built => \A f \in Fn : \A k \in DOMAIN Literals(f) :
    LET at == bin.code[f].strings[k]
        s == Literals(f)[k]
    IN  \E off \in 0 .. Len(bin.ro) :
          /\ Has(at, Bytes("address", off))
          /\ Has(off, [j \in 1 .. LitLen[s] |-> <<"char", s, j>>])

\* The jump table a function goes through is its own, however many builds ago
\* the function and its table were written (incr_jt_prefix).
TablesKept ==
  Built => \A f \in Fn :
    Has(bin.code[f].table, TableBytes(f, bin.code[f].ver))

\* A function that reads a global that is never written reads the value the
\* source gives it now, which may have changed since its code was written.
ValuesFollow ==
  Built => \A f \in Fn : \A i \in DOMAIN src.globals :
    LET d == src.globals[i]
    IN  d.kind = "ro" /\ d.name \in Uses[<<f, bin.code[f].ver>>] =>
          LET at == bin.code[f].globals[d.name]
          IN  at[1] = "rodata" /\ Has(at[2], Bytes("value", d.val))

\* What a function holds as the place of a written global, or of the kernel's
\* block, is where <globals>, the runtime and every function written now take
\* it to be (INCREMENTAL.md: a build whose globals moved is not laid over).
PlacesFollow ==
  Built => \A f \in Fn : \A g \in DOMAIN bin.code[f].globals :
    gmap(src, g)[1] = "data" => bin.code[f].globals[g] = gmap(src, g)

\* The structs that are handed from one function to another.
Handed == [d \in DOMAIN Types |->
  UNION {UNION {MadeOf(Types[d], Takes[f][i]) : i \in DOMAIN Takes[f]} : f \in Fn}]

\* Only a changed definition changes what copied code would have to be, and no
\* function's source says it: what is handed from one to another has the shape
\* the source gives it now to every function, for a struct that changed is in
\* the symbol of whoever takes it, however deep (incr_lines_up, struct_sym).
StructsFollow ==
  Built => \A f \in Fn : \A t \in DOMAIN bin.code[f].types \cap Handed[src.types] :
    bin.code[f].types[t] = Types[src.types][t]

\* The same of enumerations: "two definitions that agree in name and differ in
\* shape are two different symbols" (symbols.ngpl).
EnumsFollow ==
  Built => \A f \in Fn : \A t \in DOMAIN bin.code[f].types \cap Enum :
    bin.code[f].types[t] = Types[src.types][t]

\* All of these but LengthsKept are promised of whatever is edited.  One edit breaks
\* the five at once: it is not even so that of every file one is kept
\* (incr_lines_up).
DataKeepsAPromise ==
  StringsFollow \/ TablesKept \/ ValuesFollow \/ PlacesFollow \/ EnumsFollow

-----------------------------------------------------------------------------
\* What the programs of a run may have to be for this to hold.

\* The strings of none are as long as the read-only data of another: from where
\* its strings end there is something to compare.
StringsEndWithin ==
  \A p, q \in Programs : layout[p].ro_fixed < jt_base(q)

\* They have as many constants, and so the jump tables begin at one place if the
\* constants do; or these are the same too, in the same order, whatever their values.
AsManyConstants ==
  \A p, q \in Programs : Len(OfKind(p, "ro")) = Len(OfKind(q, "ro"))
SameConstants ==
  /\ AsManyConstants
  /\ \A p, q \in Programs : \A i \in DOMAIN OfKind(p, "ro") :
       OfKind(p, "ro")[i].name = OfKind(q, "ro")[i].name

\* Two that seal something seal the same, and two writable globals that have one
\* place in two programs and begin with one value are one.
GlobalsToldApart ==
  \A p, q \in Programs :
    /\ OfKind(p, "relro") # <<>> /\ OfKind(q, "relro") # <<>> =>
         /\ Len(OfKind(p, "relro")) = Len(OfKind(q, "relro"))
         /\ \A i \in DOMAIN OfKind(p, "relro") :
              OfKind(p, "relro")[i].name = OfKind(q, "relro")[i].name
    /\ \A i \in DOMAIN OfKind(p, "rw") \cap DOMAIN OfKind(q, "rw") :
         OfKind(p, "rw")[i].val = OfKind(q, "rw")[i].val =>
           OfKind(p, "rw")[i].name = OfKind(q, "rw")[i].name
=============================================================================
