------------------------------- MODULE Compiler -------------------------------
(***************************************************************************)
(* What a compiler promises whoever runs it over and over on a program     *)
(* that is being edited: at every moment the output file is either no      *)
(* program at all or means what one of the sources meant that some run     *)
(* read, and a run that replaces it replaces it by the meaning of the      *)
(* source that run read.  Nothing is said of how the file comes about.     *)
(***************************************************************************)
CONSTANTS
  Programs,    \* what the editor may save
  Meaning(_),  \* what a program means
  NoProgram    \* a file that is not one

VARIABLES
  src,    \* the source as last saved
  read,   \* the source the compiler last read
  busy,   \* whether a run is under way
  image   \* what the output file means

vars == <<src, read, busy, image>>

Init ==
  /\ src \in Programs
  /\ read = src
  /\ busy = FALSE
  /\ image = NoProgram

Save ==
  /\ src' \in Programs
  /\ UNCHANGED <<read, busy, image>>

Begin ==
  /\ ~busy
  /\ busy' = TRUE
  /\ read' = src
  /\ UNCHANGED <<src, image>>

\* The file is emptied before it is written.
Empty ==
  /\ busy
  /\ image' = NoProgram
  /\ UNCHANGED <<src, read, busy>>

Replace ==
  /\ busy
  /\ image = NoProgram
  /\ image' = Meaning(read)
  /\ busy' = FALSE
  /\ UNCHANGED <<src, read>>

\* A run that stops early leaves the file as it stands.
GiveUp ==
  /\ busy
  /\ busy' = FALSE
  /\ UNCHANGED <<src, read, image>>

Next == Save \/ Begin \/ Empty \/ Replace \/ GiveUp

Spec == Init /\ [][Next]_vars
===============================================================================
