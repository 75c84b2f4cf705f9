----------------------------- MODULE BTreeTree ------------------------------
(***************************************************************************)
(* The inductive invariant behind Initialised and Linked.  That the nodes  *)
(* form a tree is said without following a path: there is a height for     *)
(* every node, one less for each child than for its parent.                *)
(***************************************************************************)
EXTENDS BTreeVecInv

\* c is child i of internal node p, seen from both sides, and lev counts the
\* levels below a node.
IsChild(h, lev, p, i) ==
  LET c == h[p].children[i]
  IN  /\ c \in Allocated(h)
      /\ h[c].parent = p
      /\ h[c].index = i
      /\ lev[p] = lev[c] + 1

\* The slots of p: items in a leaf, children below `length` and nothing above
\* in an internal node.
SlotsOK(h, lev, p) ==
  /\ IsLeaf(h, p) => \A i \in Position :
       i < h[p].length => h[p].children[i] \in Item
  /\ IsInternal(h, p) => \A i \in Position :
       IF i < h[p].length THEN IsChild(h, lev, p, i)
                          ELSE h[p].children[i] = None

\* p hangs where its parent pointer and its index say.
Hangs(h, p) ==
  LET q == h[p].parent
  IN  IF q = None THEN h[p].index = 0
      ELSE /\ q \in Allocated(h) /\ IsInternal(h, q)
           /\ h[p].index < h[q].length
           /\ h[q].children[h[p].index] = p

\* The allocated nodes form trees whose leaves are all at level 0.
Tree(h, lev) ==
  /\ lev \in [Ptr -> Nat]
  /\ \A p \in Allocated(h) : /\ IsLeaf(h, p) <=> lev[p] = 0
                             /\ SlotsOK(h, lev, p)
                             /\ Hangs(h, p)

\* The nodes without a parent.
Roots(h) == {p \in Allocated(h) : h[p].parent = None}

-----------------------------------------------------------------------------
\* The half that waits to be linked is a tree as high as the one it was split
\* from.
SplitOK(lev) ==
  split # None => /\ Inserting
                  /\ split \in Roots(heap)
                  /\ split \notin {node, Top}
                  /\ lev[split] = lev[node]

\* There is one tree, and that half.  The new root is above `root` until insert
\* stores it.
RootsOK ==
  /\ Roots(heap) = {Top, split} \ {None}
  /\ root # None => root \in Allocated(heap)
  /\ root # None /\ heap[root].parent # None =>
       Inserting /\ split = None /\ node = heap[root].parent
  /\ pc \in {"seek", "climb"} => node \in Allocated(heap)

\* r names n, or two siblings of which n is one.
RemovalFits(h, n, r) ==
  LET q == h[n].parent
  IN  IF r.kind = "Absorbed" THEN r.src = h[n].index /\ r.dest = h[n].index
      ELSE /\ q # None
           /\ r.src < h[q].length /\ r.dest < h[q].length /\ r.src # r.dest
           /\ r.kind = "Merged" => h[h[q].children[r.src]].length = 0

\* handle_removal has them still to account for.
RemovalOK == Removing => RemovalFits(heap, node, removal)

\* Only the node a merge has emptied has no child.
NonEmpty ==
  \A p \in Allocated(heap) :
    IsInternal(heap, p) => heap[p].length >= 1 \/ IsEmptied(p)

\* Ended: the program has stopped, or a failed check has unwound a call.
Ended == pc \in {"aborted", "panicked"}

\* On its way to the leaf a call holds the item it is to put there.
HeldOK == pc = "seek" /\ request.op \in {"insert", "set"} => held \in Item

\* Together, for the heights `lev`.  A failed allocation or check leaves trees,
\* but no longer one tree with a known root.
TreeInvAt(lev) ==
  /\ Tree(heap, lev)
  /\ SplitOK(lev)
  /\ HeldOK
  /\ ~ Ended => RootsOK /\ RemovalOK /\ NonEmpty

\* The inductive invariant behind Initialised and Linked.
TreeInv == \E lev \in [Ptr -> Nat] : TreeInvAt(lev)
=============================================================================
