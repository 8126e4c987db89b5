----------------------------- MODULE ProgramRead -----------------------------
(***************************************************************************)
(* What reading a program promises (src/spec/spec.md, "A File Is a         *)
(* Module"): the answer depends on the files and not on the order they are *)
(* met in, and a ring of imports is answered like anything else.           *)
(***************************************************************************)
EXTENDS Files

VARIABLES
  fs, text,  \* the files, and what is in each
  roots,     \* the files named on the command line
  answer     \* what reading answered

Init == answer = NotRead
Read ==
  /\ answer = NotRead /\ answer' # NotRead
  /\ answer' = Answer(fs, text, roots)
Spec == Init /\ [][Read]_answer
=============================================================================
