----------------------------- MODULE BTreeExact -----------------------------
(***************************************************************************)
(* The inductive invariant behind SizesExact.  Like the heights of         *)
(* TreeInv, the number of items that a walk over a subtree would count is  *)
(* a function that exists: the value of each node agrees with those of its *)
(* children.                                                               *)
(***************************************************************************)
EXTENDS BTreeTree

\* w[c] is what the parent of c has for it in `sizes`.
Sized(h, w) ==
  \A p \in Allocated(h) : IsInternal(h, p) =>
    \A i \in Position : i < h[p].length => h[p].sizes[i] = w[h[p].children[i]]

\* The nodes that a RemovalKind reported for n names.
SourceOf(h, n, r) ==
  IF r.kind = "Absorbed" THEN n ELSE h[h[n].parent].children[r.src]
TargetOf(h, n, r) ==
  IF r.kind = "Absorbed" THEN n ELSE h[h[n].parent].children[r.dest]

\* By how much w[p] exceeds what p weighs when insert_once has changed n and
\* split off `half`: one item came in, the half went out.
InsertExcess(h, n, half, p) ==
  IF p # n THEN 0 ELSE (IF half = None THEN 0 ELSE Weight(h, half)) - 1

\* The same when remove_once has changed n and reported r: what went from the
\* source to the target, all of it in a merge, and the item that is gone.
RemoveExcess(h, n, r, w, p) ==
  LET source == SourceOf(h, n, r)
      moved  == IF r.kind = "Merged" THEN w[source] ELSE r.size
  IN  (IF p = source THEN moved ELSE 0)
      + (IF p = TargetOf(h, n, r) THEN 1 - moved ELSE 0)

Excess(w, p) ==
  IF Inserting THEN InsertExcess(heap, node, split, p)
  ELSE IF Removing THEN RemoveExcess(heap, node, removal, w, p)
  ELSE 0

\* The index looked for is below the current node; an insertion may be at the
\* end of it.
SeekOK ==
  pc = "seek" =>
    \/ index < Weight(heap, node)
    \/ request.op = "insert" /\ index = Weight(heap, node)

SizesInvAt(w) ==
  /\ w \in [Ptr -> Nat]
  /\ Sized(heap, w)
  /\ \A p \in Allocated(heap) : w[p] = Weight(heap, p) + Excess(w, p)
  /\ size = IF root = None THEN 0 ELSE w[Top]
  /\ split # None => NodeSize(heap, split) = Weight(heap, split)
  /\ SeekOK
  /\ pc = "climb" => Inserting \/ Removing
  /\ Removing => removal.kind = "Moved" \/ removal.size = 0

\* Every size is right, up to what the running call has still to account for.
SizesInv == ~ Ended => \E w \in [Ptr -> Nat] : SizesInvAt(w)
=============================================================================
