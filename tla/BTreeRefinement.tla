-------------------------- MODULE BTreeRefinement --------------------------
(***************************************************************************)
(* BTreeVec implements VecSpec.  The vector is what the leaf list holds; a *)
(* call takes effect in the step that changes or reads its leaf, and the   *)
(* climb that follows changes the tree but not the vector.                 *)
(***************************************************************************)
EXTENDS BTreeShape

Phase == CASE pc = "seek"               -> "called"
           [] pc \in {"climb", "return"} -> "done"
           [] OTHER                      -> pc

\* What insert holds before its item has its place is its argument.
Result == IF pc \in {"climb", "return"} THEN held ELSE None

Vec == INSTANCE VecSpec WITH vec <- Items, call <- request, phase <- Phase,
                             result <- Result

\* Every call does what the method's doc says to the sequence of items and
\* returns what it says, whatever splits, moves and merges it takes
\* (BTreeVec::insert, remove, get and get_mut in lib.rs).
ImplementsVec == Vec!Spec

\* Every call ends: the loops of leaf_for, insert and remove go down a finite
\* tree once and up it once.
CallsEnd == Vec!EveryCallEnds
=============================================================================
