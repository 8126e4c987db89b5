--------------------------------- MODULE Heap ---------------------------------
(***************************************************************************)
(* What an allocator promises (src/spec/spec.md, "Memory a Program Gives   *)
(* Back"): a block handed out shares no word with any block somebody has.  *)
(* What is taken back in the same step is taken back after.                *)
(***************************************************************************)
EXTENDS Integers

VARIABLE live   \* the blocks handed out and not taken back: [at, size]

Words(block) == block.at .. block.at + block.size - 1

Init == live = {}
HandOutAndTakeBack ==
  \A block \in live' \ live : \A other \in (live \cup live') \ {block} :
    Words(block) \cap Words(other) = {}
Spec == Init /\ [][HandOutAndTakeBack]_live
=============================================================================
