------------------------------- MODULE MCNames -------------------------------
(***************************************************************************)
(* Names that collide, that wrap around the end of the table, and that     *)
(* part ways when it is doubled; a table of two slots grows twice.         *)
(***************************************************************************)
EXTENDS Names
CONSTANTS a, b, c, d
MCName == {a, b, c, d}
MCHash == [x \in MCName |-> CASE x = a -> 3 [] x = b -> 7 [] x = c -> 11 [] OTHER -> 0]
=============================================================================
