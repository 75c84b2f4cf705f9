----------------------------- MODULE BTreeShape -----------------------------
(***************************************************************************)
(* What BTreeVec's nodes form as a whole: one tree of equal-length paths,  *)
(* owning every node once, over one list of leaves.                        *)
(***************************************************************************)
EXTENDS BTreeVecInv, SequencesExt

\* The children of n, in order.
Children(h, n) == [i \in 1..h[n].length |-> h[n].children[i - 1]]

\* How many of p's slots name nodes.
Degree(h, p) == IF IsInternal(h, p) THEN h[p].length ELSE 0

\* The nodes in S of the trees with the given roots, parents first, children in
\* order.
NodesIn(S, h, roots) ==
  LET nodes[p \in Ptr] ==
        LET part[k \in 0..Degree(h, p)] ==
              IF k = 0 THEN (IF p \in S THEN <<p>> ELSE <<>>)
              ELSE part[k - 1] \o nodes[h[p].children[k - 1]]
        IN  part[Degree(h, p)]
      forest[k \in 0..Len(roots)] ==
        IF k = 0 THEN <<>> ELSE forest[k - 1] \o nodes[roots[k]]
  IN  forest[Len(roots)]

PreorderOf(h, roots) == NodesIn(Ptr, h, roots)

\* The roots of the tree that starts at n, if any does.
Root(n) == IF n = None THEN <<>> ELSE <<n>>

Preorder(h, n) == PreorderOf(h, Root(n))

Leaves(h, n) == NodesIn({p \in Ptr : IsLeaf(h, p)}, h, Root(n))

\* The leaf list as the iterators walk it, from leaf n.
Chain(h, n) ==
  LET list[p \in PtrOrNone] ==
        IF p = None THEN <<>>
        ELSE <<p>> \o (IF IsLeaf(h, p) THEN list[h[p].next] ELSE <<>>)
  IN  list[n]

\* A leaf and an index in it, and the place that leaf_for ends at.
Place(leaf, i) == [leaf |-> leaf, index |-> i]

LeafFor(h, n, i) ==
  LET place[at \in [leaf : Ptr, index : Nat]] ==
        IF IsInternal(h, at.leaf)
        THEN LET c == ChildFor(h, at.leaf, at.index)
             IN  place[Place(h[at.leaf].children[c],
                             at.index - PrefixSums(h[at.leaf].sizes)[c])]
        ELSE at
  IN  place[Place(n, i)]

\* The leaf at the left end of the tree.
FirstLeaf(h, n) ==
  LET first[p \in PtrOrNone] ==
        IF p # None /\ IsInternal(h, p) THEN first[h[p].children[0]] ELSE p
  IN  first[n]

\* The items from leaf n on, in the order of the leaf list.
ItemsFrom(h, n) ==
  LET items[p \in PtrOrNone] ==
        IF p # None /\ IsLeaf(h, p) THEN Children(h, p) \o items[h[p].next]
                                    ELSE <<>>
  IN  items[n]

\* The vector's items.
Items == ItemsFrom(heap, FirstLeaf(heap, root))

Depth(h, n) ==
  LET depth[p \in Allocated(h)] ==
        IF h[p].parent = None THEN 0 ELSE 1 + depth[h[p].parent]
  IN  depth[n]

-----------------------------------------------------------------------------
\* Every node the allocator handed out is in the tree, or in the half that
\* split_off waits to be linked, and exactly once: nothing leaks and nothing
\* would be dropped twice (BTreeVec::drop, NodeRef::destroy).  After a failed
\* allocation the tree still owns its nodes, none of them freed, but the half
\* that was to be linked is lost.
OwnedOnce ==
  pc # "panicked" =>
    LET owned == Preorder(heap, Top) \o Preorder(heap, split)
    IN  /\ IsInjective(owned)
        /\ ToSet(owned) \subseteq Allocated(heap)
        /\ pc # "aborted" => ToSet(owned) = Allocated(heap)

\* All leaves of the tree are at the same depth, also while a call is adding or
\* removing a level.
Balanced ==
  \A p, q \in ToSet(Leaves(heap, Top)) : Depth(heap, p) = Depth(heap, q)

\* The leaf list is the leaves of the tree from left to right, and ends
\* there: LeafNode::split and LeafNode::merge relink `next` while the tree
\* above changes on its own (Iter, IterMut and IntoIter rely on it).
LeafChain ==
  pc \in {"idle", "seek", "return"} =>
    Chain(heap, FirstLeaf(heap, root)) = Leaves(heap, root)
=============================================================================
