------------------------- MODULE MCBTreeRefinement -------------------------
(***************************************************************************)
(* BTreeRefinement for TLC.  The code never looks at a T, so it treats all *)
(* items alike: one item that can be told from the others shows where any  *)
(* item goes.                                                              *)
(***************************************************************************)
EXTENDS BTreeRefinement, MCBTreeVec

CONSTANT Marked   \* the item that can be told from the others

\* Constraint: at most one Marked item at a time.
OneMarked ==
  pc = "seek" /\ request.item = Marked => Marked \notin ToSet(Items)
=============================================================================
