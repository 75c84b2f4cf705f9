---------------------------- MODULE MCBTreeClone -----------------------------
(***************************************************************************)
(* BTreeClone for TLC.  Between calls the view numbers the nodes of both   *)
(* trees, and leaves out `dropped` and what no step of CloneSpec reads     *)
(* once the copy is made: the `next` pointers of its leaves.               *)
(***************************************************************************)
EXTENDS BTreeClone, MCBTreeRefinement

CloneView ==
  IF ~ Quiet THEN <<allvars>>
  ELSE LET copyNodes == Named(Preorder(heap, copyRoot))
       IN  <<size, copySize, alive, unwinding, Cardinality(Allocated(heap)),
             Cardinality(leaked), Named(Preorder(heap, root)),
             [k \in DOMAIN copyNodes |-> [copyNodes[k] EXCEPT !.next = None]]>>

\* Constraint: at most one Marked item at a time in each vector.
OneMarkedEach ==
  pc = "seek" /\ request.item = Marked =>
    Marked \notin ToSet(IF callee = "original" THEN Items
                       ELSE ItemsOf(heap, Preorder(heap, copyRoot)))

\* Constraint: the original only grows, at its end.
GrowsAtEnd ==
  callee = "original" /\ request.op # "none" =>
    request.op = "insert" /\ request.index = size
=============================================================================
