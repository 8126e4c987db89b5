----------------------------- MODULE MCIncrData -----------------------------
(***************************************************************************)
(* Small instances of IncrData: a word is four bytes of which two are      *)
(* significant, in place of eight and three.  BtSize settles how a jump    *)
(* table lies behind the globals: with 5 a constant more is noticed by the *)
(* bytes of the table it covers, with 4 it is not.                         *)
(***************************************************************************)
EXTENDS IncrData

CONSTANTS main, pick, shown, v1, v2, v3, hello, there, longer

MCOrder == <<main, pick, shown>>
MCVersion == {v1, v2, v3}
MCLiteral == {hello, there, longer}
MCLitLen == [s \in MCLiteral |-> IF s = longer THEN 4 ELSE 3]

MCCode == {main, pick, shown} \X MCVersion
\* main names "hello" or nothing, pick always "there", shown the longer text,
\* "hello" or nothing.
MCLits == [fv \in MCCode |->
  CASE fv[1] = main -> IF fv[2] = v3 THEN <<>> ELSE <<hello>>
    [] fv[1] = pick -> <<there>>
    [] OTHER -> CASE fv[2] = v1 -> <<>> [] fv[2] = v2 -> <<longer>>
                  [] OTHER -> <<hello>>]
MCNames == [fv \in MCCode |-> IF fv[1] = main THEN {shown} ELSE {}]
MCUses == [fv \in MCCode |->
  CASE fv[1] = main -> {"K", "n"}
    [] fv[1] = pick -> {"K", "n", "kernel"}
    [] OTHER -> {"K", "n", "kernel"}]
MCHandles == [fv \in MCCode |->
  CASE fv[1] = main -> {"Pair", "Span", "List", "Tree", "Side"}
    [] fv[1] = pick -> {"Pair", "Span", "Side", "Own"}
    [] OTHER -> {"List", "Tree"}]
MCTakes == [f \in {main, pick, shown} |->
  CASE f = main -> <<>> [] f = pick -> <<"Span", "Side">> [] OTHER -> <<"List", "i64">>]
MCTable == [fv \in MCCode |->
  CASE fv[1] = main -> <<>>
    [] fv[1] = pick -> IF fv[2] = v1 THEN <<1, 2>> ELSE <<2, 1, 2>>
    [] OTHER -> IF fv[2] = v3 THEN <<1>> ELSE <<>>]

\* A span is two pairs, a list and a tree are made of one another, and nobody is
\* handed what pick has for itself.
F(n, t) == [name |-> n, of |-> t]
Declared ==
  [Pair |-> <<F("x", "i64"), F("y", "i64")>>, Span |-> <<F("from", "Pair"), F("to", "Pair")>>,
   List |-> <<F("tree", "Tree"), F("next", "List")>>,
   Tree |-> <<F("left", "List"), F("right", "List")>>,
   Own |-> <<F("a", "i64"), F("b", "i64")>>, Side |-> <<"near", "far">>]
MCTypes == [t \in Struct \cup Enum \cup {"declared"} |->
  IF t = "declared" THEN Declared ELSE [Declared EXCEPT ![t] = Reverse(@)]]

Turned(p, t) == [p EXCEPT !.types = t]
Program(m, p, s, globals) ==
  [types |-> "declared",
   ver |-> [f \in {main, pick, shown} |->
              CASE f = main -> m [] f = pick -> p [] OTHER -> s],
   globals |-> globals]
Ro(n, v) == [name |-> n, kind |-> "ro", val |-> v]
Relro(n) == [name |-> n, kind |-> "relro", val |-> 0]
Rw(n, v) == [name |-> n, kind |-> "rw", val |-> v]

\* Functions change and so do values; a global is added or taken away behind
\* the others of its kind, two of different kinds change places, and two
\* writable ones that differ.  The fields of a struct change places.
Declarations == {
  <<Rw("n", 5), Ro("K", 1)>>,
  <<Ro("K", 1), Rw("n", 5)>>, <<Ro("K", 2), Rw("n", 5)>>,
  <<Ro("K", 1), Ro("L", 7), Rw("n", 5)>>,
  <<Ro("K", 1), Rw("n", 5), Rw("m", 6)>>,
  <<Ro("K", 1), Rw("m", 6), Rw("n", 5)>>,
  <<Ro("K", 1), Rw("n", 5), Relro("r")>>,
  <<Ro("K", 2), Rw("n", 5), Relro("r")>>}
EditPrograms ==
  {Program(m, p, s, g) : m \in {v1, v2}, p \in {v1, v2}, s \in {v1, v2, v3},
                         g \in Declarations}
  \cup {Turned(Program(m, p, v1, <<Ro("K", 1), Rw("n", 5)>>), t) :
          m \in {v1, v2}, p \in {v1, v2}, t \in {"Pair", "Span", "List", "Tree", "Own"}}

\* The programs of the promises run.  In the second main drops its literal and
\* shown gains it; the two constants change places and there is one more, and so
\* do two writable globals of one value and the variants of an enumeration.  pick
\* is as it was.
Plain == Program(v1, v1, v1, <<Ro("K", 1), Ro("L", 7), Rw("n", 5), Rw("m", 5)>>)
PromisePrograms ==
  {Plain,
   Turned(Program(v3, v1, v3,
                  <<Ro("L", 7), Ro("K", 1), Ro("M", 9), Rw("m", 5), Rw("n", 5)>>), "Side")}

ASSUME MCAssumption ==
  Programs = EditPrograms => StringsEndWithin /\ GlobalsToldApart
=============================================================================
