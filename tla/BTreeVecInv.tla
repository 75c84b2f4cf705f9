---------------------------- MODULE BTreeVecInv ----------------------------
(***************************************************************************)
(* The safety invariants of BTreeVec that speak of a node and its          *)
(* neighbours only.  They hold in the middle of a call as well as between  *)
(* calls: each names the one node or the one edge a running call may have  *)
(* out of order.                                                           *)
(***************************************************************************)
EXTENDS BTreeVec

\* The number of items below n by n's own account: the entries of `sizes`
\* past `length` do not count.
Weight(h, n) == IF IsLeaf(h, n) THEN h[n].length
                                ELSE PrefixSums(h[n].sizes)[h[n].length]

\* The top of the tree: handle_insertion gives the old root a parent before
\* BTreeVec.root is assigned.
Top == IF root = None \/ heap[root].parent = None THEN root
                                                  ELSE heap[root].parent

\* The child handle_removal has emptied into its sibling and not yet unlinked.
IsEmptied(p) ==
  /\ Removing /\ removal.kind = "Merged"
  /\ heap[p].parent # None /\ heap[p].parent = heap[node].parent
  /\ heap[p].index = removal.src

-----------------------------------------------------------------------------
\* No unwrap, assertion, bounds check or overflow check of insert, remove, get
\* and get_mut fails once the arguments are in range: the panics the docs
\* announce are the only ones (lib.rs, insert.rs, remove.rs, node/*.rs).
NoPanic == pc # "panicked"

\* The slots below `length` hold what the kind of node stores: an initialised
\* item in a leaf (leaf.rs "Items at 0..length are always initialized"), the
\* address of a live node in an internal node, and the children of one node
\* are all leaves or all internal, as the casts in siblings_mut require.
Initialised ==
  \A p \in Allocated(heap) : \A i \in 0..(heap[p].length - 1) :
    /\ IsLeaf(heap, p) => heap[p].children[i] \in Item
    /\ IsInternal(heap, p) =>
         /\ heap[p].children[i] \in Allocated(heap)
         /\ heap[heap[p].children[i]].kind = heap[heap[p].children[0]].kind

\* parent, index and children agree: a node is child number `index` of its
\* parent and a child's parent is the node it hangs from (simple_insert,
\* simple_remove, split and merge of internal.rs keep both sides).
Linked ==
  \A p \in Allocated(heap) :
    /\ heap[p].parent # None =>
         LET q == heap[p].parent
         IN  /\ IsInternal(heap, q)
             /\ heap[p].index < heap[q].length
             /\ heap[q].children[heap[p].index] = p
    /\ heap[p].parent = None => heap[p].index = 0
    /\ IsInternal(heap, p) =>
         \A i \in Position :
           IF i < heap[p].length
           THEN heap[heap[p].children[i]].parent = p
           ELSE heap[p].children[i] = None

\* By how much sizes[i] of a node exceeds what its child i weighs while
\* handle_insertion or handle_removal has yet to bring the change of the
\* child `node`, or of the siblings src and dest, to its parent.
Lag(p, i) ==
  IF pc # "climb" \/ heap[node].parent # p THEN 0
  ELSE IF request.op = "insert"
  THEN IF i # heap[node].index THEN 0
       ELSE IF split = None THEN -1
       ELSE Weight(heap, split) - 1
  ELSE LET moved == IF removal.kind = "Merged" THEN heap[p].sizes[removal.src]
                    ELSE removal.size
       IN  (IF i = removal.src THEN moved ELSE 0)
           + (IF i = removal.dest THEN 1 - moved ELSE 0)

\* `sizes` is exact: leaf_for and nth find the item at an index by it.  It
\* stays exact through splits, moves and merges, on every edge but the one
\* the running call is about to bring up to date (a failed allocation can
\* leave the edges above that one out of date for good).
SizesExact ==
  /\ pc # "aborted" =>
       \A p \in Allocated(heap) : IsInternal(heap, p) =>
         \A i \in 0..(heap[p].length - 1) :
           heap[p].sizes[i] = Weight(heap, heap[p].children[i]) + Lag(p, i)
  /\ pc \in {"idle", "seek", "return"} =>
       size = IF root = None THEN 0 ELSE Weight(heap, root)

\* Every node but the root holds at least B / 2 entries and an internal root
\* has two children, so the height is logarithmic in len(), as the type's doc
\* promises.  The exceptions are the node a merge has just emptied and a root
\* that is about to give way to its only child.  It takes B >= 4: the halves
\* of B = 3 leave an only child without a sibling to borrow from.
Filled ==
  \A p \in Allocated(heap) :
    \/ heap[p].length >= MinLength /\ heap[p].length >= 2
    \/ heap[p].parent = None /\ (IsLeaf(heap, p) \/ heap[p].length >= 2)
    \/ IsEmptied(p)
    \/ Removing /\ p = node /\ heap[p].parent = None /\ heap[p].length = 1
=============================================================================
