---------------------------- MODULE MCBTreeIter ----------------------------
(***************************************************************************)
(* BTreeIter for TLC, with the view and the marked item of the other       *)
(* models.                                                                 *)
(***************************************************************************)
EXTENDS BTreeIter, MCBTreeRefinement

\* An open iterator adds its fields to the view: the vector is idle, so its
\* own view names the nodes in preorder, and so must the iterator's leaf.
IterView ==
  <<View, yielded, [iter EXCEPT !.leaf =
      IF @ = None THEN 0
      ELSE CHOOSE k \in DOMAIN Preorder(heap, root) : Preorder(heap, root)[k] = @]>>
=============================================================================
