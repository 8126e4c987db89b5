------------------------------ MODULE MCReaders ------------------------------
(***************************************************************************)
(* The readers over small trees, and what an editor saves.                 *)
(***************************************************************************)
EXTENDS Readers, FileTrees

MCTrees == RingTrees \cup RootTrees
MCSaved == {main, more, a}
\* The small trees are ones ReaderReadsTheProgram speaks of.
ASSUME MCLinksStay == LinksStay
ASSUME MCLoadableTrees == LoadableTrees

MCTexts == {<<To(<<"a">>), nl, To(<<"main">>)>>}
=============================================================================
