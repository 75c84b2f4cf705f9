---------------------------- MODULE MCBTreeVec -----------------------------
(***************************************************************************)
(* BTreeShape for TLC.  The addresses the allocator returns do not matter  *)
(* to the vector, so between calls two heaps that differ in them only are  *)
(* one state: the view numbers the nodes in preorder.                      *)
(***************************************************************************)
EXTENDS BTreeShape, BTreeOrder

\* The nodes, with their positions in this sequence for their addresses.
Named(nodes) ==
  LET name == [p \in Slot |-> IF p \in ToSet(nodes)
                              THEN CHOOSE k \in DOMAIN nodes : nodes[k] = p
                              ELSE p]
  IN  [k \in DOMAIN nodes |->
         [heap[nodes[k]] EXCEPT
            !.parent = name[@], !.next = name[@],
            !.children = [i \in Position |-> name[@[i]]]]]

View ==
  IF pc # "idle" THEN <<vars>>
  ELSE <<size, Cardinality(Allocated(heap)), Named(Preorder(heap, root))>>

\* The height of each node, read along its first children; a node without any
\* is as high as its siblings.
Heights ==
  LET height[p \in Slot] ==
        IF p \notin Allocated(heap) \/ IsLeaf(heap, p) THEN 0
        ELSE IF heap[p].length > 0 THEN height[heap[p].children[0]] + 1
        ELSE IF heap[p].parent = None THEN 1
        ELSE height[heap[p].parent] - 1
  IN  [p \in Ptr |-> height[p]]

\* What is below each node, as its parent, or BTreeVec.size, has it.
Counts ==
  [p \in Ptr |->
     IF p \notin Allocated(heap) THEN 0
     ELSE IF heap[p].parent # None THEN heap[heap[p].parent].sizes[heap[p].index]
     ELSE IF p = Top THEN size
     ELSE Weight(heap, p)]

\* The node that a report says is emptied.
Gone == IF Removing THEN GoneIn(heap, node, removal) ELSE {}

\* Half a node that was split off, which the level above does not know of.
IsHalf(p) == split # None /\ p = split

\* What follows each node on its level, read off the level above: the order as
\* that level has it, and as the nodes themselves are linked.
FollowOver ==
  LET over[p \in Slot] ==
        IF p \notin Allocated(heap) \/ heap[p].parent = None THEN None
        ELSE LET q    == heap[p].parent
                 i    == heap[p].index
                 next == IF split # None /\ q = node THEN split
                         ELSE IF IsHalf(q) THEN over[node]
                         ELSE IF over[q] \in Gone THEN over[over[q]]
                         ELSE over[q]
             IN  IF i + 1 < heap[q].length THEN heap[q].children[i + 1]
                 ELSE IF next = None THEN None
                 ELSE heap[next].children[0]
  IN  [p \in Ptr |-> over[p]]

Afters ==
  [p \in Ptr |->
     IF split # None /\ p = node THEN split
     ELSE IF IsHalf(p) THEN FollowOver[node]
     ELSE IF p \in Gone THEN None
     ELSE IF FollowOver[p] \in Gone THEN FollowOver[FollowOver[p]]
     ELSE FollowOver[p]]

Overs == [p \in Ptr |-> IF IsHalf(p) THEN Afters[p] ELSE FollowOver[p]]

\* TreeInv, SizesInv and OrderInv, the inductive invariants of the proofs, with
\* heights, counts and orders that can be computed: back pointers, positions,
\* kinds and levels agree in every state, the half split off and the siblings
\* merged or moved are where insert.rs and remove.rs take them to be, only a
\* node a merge has emptied is empty, every size is right up to what the call
\* owes, and the leaves are linked in the order of the tree above them.
InductiveFound ==
  /\ TreeInvAt(Heights)
  /\ ~ Ended => SizesInvAt(Counts)
  /\ ~ Ended => OrderInvAt(Overs, Afters)

\* Constraint: calls at either end and in the middle only.
AtEndsOrMiddle ==
  request.op # "none" => request.index \in {0, size \div 2, size - 1, size}

\* Constraint: calls anywhere in a small vector, at the back of a large one.
AtBackIfLarge ==
  request.op # "none" /\ size > 7 => request.index \in {size - 1, size}
=============================================================================
