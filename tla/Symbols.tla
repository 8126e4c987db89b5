------------------------------- MODULE Symbols -------------------------------
(***************************************************************************)
(* What a function is called in the object file (src/src/symbols.ngpl):    *)
(* its name and the types of its signature, where a struct is spelled with *)
(* a hash of its definition and an enumeration by its name.  The hash is   *)
(* taken to tell definitions apart, so it is the definition here.          *)
(***************************************************************************)
EXTENDS Naturals, Sequences

CONSTANTS
  Struct,  \* the structs of a program
  Enum,    \* its enumerations
  Takes    \* the types of a function's parameters and of its answer, in order

\* A program defines its named types: a struct is its fields in order, each a
\* name and the type it is of, an enumeration its variants in order.
Field == [name : STRING, of : STRING]

-----------------------------------------------------------------------------
\* Mutant: a field is spelled with the name of its type.
struct_sym_by_names(def) ==
  [t \in Struct |-> <<t, def[t]>>]

\* A struct is spelled by its name and its fields, one within it in turn, and one
\* met again on the way down by its name alone, as any other type is.
struct_sym(def) ==
  LET spelled[seen \in SUBSET Struct] ==
        [t \in Struct |->
           IF t \in seen THEN <<t>>
           ELSE <<t, [i \in DOMAIN def[t] |->
                        <<def[t][i].name,
                          IF def[t][i].of \in Struct
                          THEN spelled[seen \cup {t}][def[t][i].of]
                          ELSE <<def[t][i].of>> >>]>>]
  IN  spelled[{}]

sym_type(def, t) == IF t \in Struct THEN struct_sym(def)[t] ELSE <<t>>

fn_symbol(def, f) == <<f, [i \in DOMAIN Takes[f] |-> sym_type(def, Takes[f][i])]>>

-----------------------------------------------------------------------------
\* The structs a value of type t is made of: the least set that has t and what
\* the fields of its structs are of.
MadeOf(def, t) ==
  {u \in Struct : \A S \in SUBSET Struct :
     /\ t \in Struct => t \in S
     /\ \A s \in S : {def[s][i].of : i \in DOMAIN def[s]} \cap Struct \subseteq S
     => u \in S}
=============================================================================
