----------------------------- MODULE BTreeOrder -----------------------------
(***************************************************************************)
(* The inductive invariant behind the order of the leaf list, which merge  *)
(* asserts of two leaves.  The nodes of each level form a list, of which   *)
(* the code stores the one of the leaves: `after` says which node follows. *)
(* A walk to the last leaf of a subtree is not needed: what follows the    *)
(* last child of a node is the first child of what follows the node.       *)
(***************************************************************************)
EXTENDS BTreeExact

\* What follows child i of p, if after[p] follows p.
NextChild(h, after, p, i) ==
  IF i + 1 < h[p].length THEN h[p].children[i + 1]
  ELSE IF after[p] = None THEN None
  ELSE h[after[p]].children[0]

\* p leads to a node of its kind that no other leads to, and not to one that
\* is `gone`.
LeadsOn(h, after, gone, p) ==
  /\ after[p] # None => /\ after[p] \in Allocated(h) \ gone
                        /\ h[after[p]].kind = h[p].kind
  /\ \A q \in Allocated(h) : after[q] = after[p] /\ after[p] # None => q = p
  /\ IsLeaf(h, p) => h[p].next = after[p]

\* The levels are lists.  `over` is the order of a level as the level above
\* has it; nothing comes before or after `top`.
Levels(h, over, after, top, gone) ==
  /\ after \in [Ptr -> PtrOrNone]
  /\ \A p \in Allocated(h) :
       /\ LeadsOn(h, after, gone \cup {top}, p)
       /\ IsInternal(h, p) => \A i \in Position :
            i < h[p].length => over[h[p].children[i]] = NextChild(h, after, p, i)
  /\ top # None => over[top] = None

\* The two orders are one.
SameOrder(h, over, after) == \A p \in Allocated(h) : over[p] = after[p]

\* The level above does not know of `half`, which follows n.
HalfApart(h, over, after, n, half) ==
  /\ after[n] = half /\ over[n] = after[half]
  /\ \A p \in Allocated(h) \ {n} : over[p] = after[p]

\* It still has src behind dest.
StillOver(h, over, after, dest, src) ==
  /\ over[dest] = src /\ over[src] = after[dest] /\ dest # src
  /\ \A p \in Allocated(h) \ {dest, src} : over[p] = after[p]

-----------------------------------------------------------------------------
\* A report of a merge: the emptied child is to the right of the other, and
\* still in its place.
MergeOrder(h, over, after, n, r) ==
  IF r.kind = "Merged"
  THEN /\ r.src = r.dest + 1
       /\ StillOver(h, over, after, TargetOf(h, n, r), SourceOf(h, n, r))
  ELSE SameOrder(h, over, after)

\* The node that a report says is emptied.
GoneIn(h, n, r) == IF r.kind = "Merged" THEN {SourceOf(h, n, r)} ELSE {}

OrderInvAt(over, after) ==
  /\ Levels(heap, over, after, Top,
            IF Removing THEN GoneIn(heap, node, removal) ELSE {})
  /\ IF split # None THEN HalfApart(heap, over, after, node, split)
     ELSE IF Removing THEN MergeOrder(heap, over, after, node, removal)
     ELSE SameOrder(heap, over, after)

\* The nodes of a level, and so the leaves, are linked in the order of the
\* tree.
OrderInv == ~ Ended => \E over, after \in [Ptr -> PtrOrNone] : OrderInvAt(over, after)
=============================================================================
