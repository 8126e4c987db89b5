------------------------------ MODULE MCImports ------------------------------
(***************************************************************************)
(* The compiler's reader over small trees, and what an editor saves.       *)
(***************************************************************************)
EXTENDS Imports, FileTrees

MCTrees == RingTrees \cup RootTrees
MCSaved == {main, more, a}
MCTexts == {<<To(<<"a">>), nl, To(<<"main">>)>>}

\* In the promises run the file that is bound twice is saved, with a function more.
StemSaved == {xa}
StemTexts == {<<Fn(<<"f">>), nl, Fn(<<"h">>), nl>>}
=============================================================================
