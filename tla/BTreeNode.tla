----------------------------- MODULE BTreeNode -----------------------------
(***************************************************************************)
(* The nodes of a btree-vec B+ tree and the operations on one or two of    *)
(* them: src/src/node/{mod,leaf,internal,parent_ptr}.rs, insert_once of    *)
(* src/src/insert.rs and remove_once of src/src/remove.rs.                 *)
(*                                                                         *)
(* The memory behind the raw pointers is a function h from addresses to    *)
(* node records; every operator here maps a heap to the heap the Rust      *)
(* function leaves.  The code is generic over N: Node, and so are these    *)
(* operators: the kind of the node tells a leaf from an internal node.     *)
(***************************************************************************)
EXTENDS Integers

CONSTANTS
  B,      \* the branching factor: the capacity of every node
  Item,   \* the values of the element type T
  Ptr,    \* the addresses the allocator can hand out
  None    \* Option::None, and the content of an uninitialised slot

\* BTreeVec::create_in asserts B >= 3.  Items and addresses share the slots of
\* a node, so the three kinds of slot content must be told apart.
ASSUME NodeAssumption ==
  /\ B \in Nat /\ B >= 3
  /\ Item \cap Ptr = {}
  /\ None \notin Item \cup Ptr

Position == 0..(B - 1)
MinLength == B \div 2
PtrOrNone == Ptr \cup {None}
Slot == Item \cup Ptr \cup {None}

-----------------------------------------------------------------------------
(***************************************************************************)
(* The data layout.  kind is the tag of the ParentPtr; a "free" address is *)
(* one the allocator owns.  A slot of `children` the code has moved out of *)
(* (ptr::copy_nonoverlapping, Option::take, MaybeUninit::uninit) is None.  *)
(* `sizes` is a plain array: entries past `length` keep what was there.    *)
(* A leaf has no `sizes` and an internal node has no `next`: these stay 0  *)
(* and None.                                                               *)
(***************************************************************************)
Node == [kind     : {"free", "leaf", "internal"},
         parent   : PtrOrNone,
         index    : Nat,
         length   : 0..B,
         children : [Position -> Slot],
         sizes    : [Position -> Nat],
         next     : PtrOrNone]

Heap == [Ptr -> Node]

\* LeafNode::new and InternalNode::new: parentless, index 0, no children.
NewNode(kind) == [kind     |-> kind,
                  parent   |-> None,
                  index    |-> 0,
                  length   |-> 0,
                  children |-> [i \in Position |-> None],
                  sizes    |-> [i \in Position |-> 0],
                  next     |-> None]

IsLeaf(h, n)     == h[n].kind = "leaf"
IsInternal(h, n) == h[n].kind = "internal"
Allocated(h)     == {p \in Ptr : h[p].kind # "free"}
Free(h)          == {p \in Ptr : h[p].kind = "free"}

\* The address the next NodeRef::alloc returns.  The code never depends on
\* which free address it gets.
Fresh(h) == CHOOSE p \in Ptr : h[p].kind = "free"

\* NodeRef::alloc at a given free address, and the deallocation at the end of
\* NodeRef::destroy for a node that has no child or item left.
Alloc(h, p, kind) == [h EXCEPT ![p] = NewNode(kind)]
Dealloc(h, p)     == [h EXCEPT ![p] = NewNode("free")]

\* InternalNode::child_ptr: the address in the slot, None if there is none or
\* i is past the length.
ChildPtr(h, p, i) ==
  IF i < h[p].length /\ h[p].children[i] \in Ptr THEN h[p].children[i] ELSE None

\* Sums of the first k sizes, k = 0..B.
PrefixSums(sizes) ==
  LET sum[k \in 0..B] == IF k = 0 THEN 0 ELSE sum[k - 1] + sizes[k - 1]
  IN  sum

\* Mutant of ChildFor: an index at the start of a child goes to the one before.
ChildForEarly(h, n, i) ==
  LET last == h[n].length - 1
      sums == PrefixSums(h[n].sizes)
  IN  CHOOSE k \in 0..last : /\ k = last \/ i <= sums[k + 1]
                             /\ \A j \in 1..k : i > sums[j]

\* The child of internal node n that leaf_for takes for `i`: the first whose
\* prefix of sizes is above i, or the last child.
ChildFor(h, n, i) ==
  LET last == h[n].length - 1
      sums == PrefixSums(h[n].sizes)
  IN  CHOOSE k \in 0..last : /\ k = last \/ i < sums[k + 1]
                             /\ \A j \in 1..k : i >= sums[j]

\* Node::size.  InternalNode::size adds up the whole array, not only the
\* entries below length.
NodeSize(h, n) == IF IsLeaf(h, n) THEN h[n].length
                                  ELSE PrefixSums(h[n].sizes)[B]

\* A Node::Child with its item_size: an item counts 1, a child its subtree.
Entry(slot, size) == [slot |-> slot, size |-> size]

-----------------------------------------------------------------------------
(***************************************************************************)
(* Array operations on a[0..len-1]: rotate_right(1) over i..len followed   *)
(* by a write at i, and rotate_left(1) over i..len-1 followed by a write   *)
(* of `blank` at len-1.                                                    *)
(***************************************************************************)
RotateIn(a, i, len, x) ==
  [j \in Position |-> IF j < i \/ j > len THEN a[j]
                      ELSE IF j = i THEN x
                      ELSE a[j - 1]]

RotateOut(a, i, len, blank) ==
  [j \in Position |-> IF j < i \/ j >= len THEN a[j]
                      ELSE IF j = len - 1 THEN blank
                      ELSE a[j + 1]]

\* The children of internal node n at positions lo..hi.
ChildrenAt(h, n, lo, hi) == {h[n].children[j] : j \in lo..hi}

\* Mutant of Renumber: the children that were shifted keep their old index.
RenumberSkipped(h, n, lo, hi) == h

\* Those children get their position as `index`.
Renumber(h, n, lo, hi) ==
  [p \in Ptr |->
     IF p \in ChildrenAt(h, n, lo, hi)
     THEN [h[p] EXCEPT !.index =
             CHOOSE j \in lo..hi : h[n].children[j] = p]
     ELSE h[p]]

\* ParentPtr::set on every node of ps: the tag stays.
SetParent(h, ps, parent) ==
  [p \in Ptr |-> IF p \in ps THEN [h[p] EXCEPT !.parent = parent] ELSE h[p]]

\* Mutant of CopyParentPtr: merged children keep the parent they had.
CopyParentPtrSkipped(h, ps, q) == h

\* `prefix.parent = parent` on every node of ps: the whole tagged pointer of
\* node q, so the tag comes with it.
CopyParentPtr(h, ps, q) ==
  [p \in Ptr |-> IF p \in ps THEN [h[p] EXCEPT !.parent = h[q].parent,
                                               !.kind = h[q].kind]
                 ELSE h[p]]

-----------------------------------------------------------------------------
(***************************************************************************)
(* The primitive operations of the trait Node.                             *)
(***************************************************************************)

\* simple_insert.  Asserts i <= length < B (see InsertPanics).
SimpleInsert(h, n, i, entry) ==
  LET len    == h[n].length
      filled == [h[n] EXCEPT
                   !.children = RotateIn(@, i, len, entry.slot),
                   !.sizes = IF IsLeaf(h, n) THEN @
                             ELSE RotateIn(@, i, len, entry.size),
                   !.length = len + 1]
      placed == [h EXCEPT ![n] = filled]
  IN  IF IsLeaf(h, n) THEN placed
      ELSE Renumber(SetParent(placed, {entry.slot}, n), n, i, len)

\* The N::Child that simple_remove returns, and the heap it leaves.  A removed
\* child has no parent and index 0.
Taken(h, n, i) ==
  Entry(h[n].children[i], IF IsLeaf(h, n) THEN 1 ELSE h[n].sizes[i])

SimpleRemove(h, n, i) ==
  LET len   == h[n].length
      child == h[n].children[i]
      drained == [h[n] EXCEPT
                    !.children = RotateOut(@, i, len, None),
                    !.sizes = IF IsLeaf(h, n) THEN @
                              ELSE RotateOut(@, i, len, 0),
                    !.length = len - 1]
      rest  == [h EXCEPT ![n] = drained]
      loose == [p \in Ptr |-> IF p = child
                              THEN [rest[p] EXCEPT !.parent = None, !.index = 0]
                              ELSE rest[p]]
  IN  IF IsLeaf(h, n) THEN rest ELSE Renumber(loose, n, i, len - 2)

\* Mutant of Split: the new node takes the length of the old one.
SplitFullLength(h, n, left, new) ==
  LET moved == [h[n] EXCEPT
                  !.children = [j \in Position |->
                     IF left + j < B THEN h[n].children[left + j] ELSE None]]
      kept  == [h[n] EXCEPT !.length = left,
                            !.next = IF IsLeaf(h, n) THEN new ELSE @]
  IN  [h EXCEPT ![new] = moved, ![n] = kept]

\* split of the full node n: the entries from `left` on move to the fresh node
\* `new`, which follows n in the leaf list.  n's own sizes are not cleared.
Split(h, n, left, new) ==
  LET right == B - left
      moved == [NewNode(h[n].kind) EXCEPT
                  !.length = right,
                  !.children = [j \in Position |->
                     IF j < right THEN h[n].children[left + j] ELSE None],
                  !.sizes = [j \in Position |->
                     IF j < right THEN h[n].sizes[left + j] ELSE 0],
                  !.next = h[n].next]
      kept  == [h[n] EXCEPT
                  !.length = left,
                  !.children = [j \in Position |->
                     IF j < left THEN @[j] ELSE None],
                  !.next = IF IsLeaf(h, n) THEN new ELSE @]
      cut   == [h EXCEPT ![new] = moved, ![n] = kept]
  IN  IF IsLeaf(h, n) THEN cut
      ELSE Renumber(SetParent(cut, ChildrenAt(cut, new, 0, right - 1), new),
                    new, 0, right - 1)

\* Mutant of Merge: the leaf list still runs through the emptied leaf.
MergeKeepsNext(h, dest, src) ==
  LET len  == h[dest].length
      more == h[src].length
      joined == [h[dest] EXCEPT
                   !.children = [j \in Position |->
                      IF j \in len..(len + more - 1)
                      THEN h[src].children[j - len] ELSE @[j]],
                   !.length = len + more]
  IN  [h EXCEPT ![dest] = joined, ![src].length = 0]

\* merge: every entry of `src` is appended to `dest`, src is left empty.
Merge(h, dest, src) ==
  LET len  == h[dest].length
      more == h[src].length
      Joined(a, b) == [j \in Position |->
                         IF j \in len..(len + more - 1) THEN b[j - len] ELSE a[j]]
      joined == [h[dest] EXCEPT
                   !.children = Joined(@, h[src].children),
                   !.sizes = IF IsLeaf(h, dest) THEN @
                             ELSE Joined(@, h[src].sizes),
                   !.length = len + more,
                   !.next = IF IsLeaf(h, dest) THEN h[src].next ELSE @]
      emptied == [h[src] EXCEPT
                    !.children = [j \in Position |->
                       IF j < more THEN None ELSE @[j]],
                    !.length = 0,
                    !.next = IF IsLeaf(h, dest) THEN None ELSE @]
      poured == [h EXCEPT ![dest] = joined, ![src] = emptied]
  IN  IF IsLeaf(h, dest) THEN poured
      ELSE Renumber(CopyParentPtr(poured,
                                  ChildrenAt(poured, dest, len, len + more - 1),
                                  h[dest].children[0]),
                    dest, len, len + more - 1)

\* The assertions of merge, the unwrap in self.child(0) of an internal node
\* and the check that src is the leaf after dest.
MergePanics(h, dest, src) ==
  \/ h[dest].length > MinLength
  \/ h[src].length > MinLength
  \/ ~ IsLeaf(h, dest) /\ ChildPtr(h, dest, 0) \notin Ptr
  \/ IsLeaf(h, dest) /\ h[dest].next # src

-----------------------------------------------------------------------------
(***************************************************************************)
(* Mutants of InsertOnce.                                                  *)
(***************************************************************************)

\* The node is split one insertion too late.
InsertOnceLate(h, n, i, entry, new) ==
  [heap |-> SimpleInsert(h, n, i, entry), split |-> None]

\* The index in the new node is counted from B / 2, wrong for an odd B.
InsertOnceOddIndex(h, n, i, entry, new) ==
  LET larger == B - MinLength
  IN  IF h[n].length < B
      THEN [heap |-> SimpleInsert(h, n, i, entry), split |-> None]
      ELSE IF i >= larger
      THEN [heap |-> SimpleInsert(Split(h, n, larger, new),
                                  new, i - MinLength, entry),
            split |-> new]
      ELSE [heap |-> SimpleInsert(Split(h, n, MinLength, new), n, i, entry),
            split |-> new]

(***************************************************************************)
(* insert_once: insert into n, splitting it first when it is full.  The    *)
(* half that does not get the entry is the larger one.                     *)
(***************************************************************************)
InsertOnce(h, n, i, entry, new) ==
  LET larger == B - MinLength
  IN  IF h[n].length < B
      THEN [heap |-> SimpleInsert(h, n, i, entry), split |-> None]
      ELSE IF i >= larger
      THEN [heap |-> SimpleInsert(Split(h, n, larger, new),
                                  new, i - larger, entry),
            split |-> new]
      ELSE [heap |-> SimpleInsert(Split(h, n, MinLength, new), n, i, entry),
            split |-> new]

\* rotate_right on children[i..length + 1] is out of bounds past the length.
InsertPanics(h, n, i) == i > h[n].length

-----------------------------------------------------------------------------
(***************************************************************************)
(* remove_once: remove entry i of n, then restore the minimum length with  *)
(* the help of a sibling.  The result carries the RemovalKind for the      *)
(* parent; Absorbed{index} is written with src = dest = index.             *)
(***************************************************************************)
RemovalKind == {"Merged", "Moved", "Absorbed"}
Removal == [kind : RemovalKind, src : Nat, dest : Nat, size : Nat]

Absorbed(h, n) ==
  [kind |-> "Absorbed", src |-> h[n].index, dest |-> h[n].index, size |-> 0]

\* NodeRef::siblings_mut.
LeftSibling(h, n) ==
  IF h[n].parent = None \/ h[n].index = 0 THEN None
  ELSE ChildPtr(h, h[n].parent, h[n].index - 1)

\* Mutant of RightSibling: only a left sibling is ever found.
RightSiblingNone(h, n) == None

RightSibling(h, n) ==
  IF h[n].parent = None THEN None
  ELSE ChildPtr(h, h[n].parent, h[n].index + 1)

\* Mutant of CanLend: a sibling of the minimum length lends as well.
CanLendAtMinimum(h, sibling) ==
  sibling \in Ptr /\ h[sibling].length >= MinLength

CanLend(h, sibling) == sibling \in Ptr /\ h[sibling].length > MinLength

\* Mutants of MoveEntry: a moved child counts as one item; an entry from the
\* right sibling goes to the front.
MoveEntryAsItem(h, donor, i, n, j) ==
  [heap    |-> SimpleInsert(SimpleRemove(h, donor, i), n, j, Taken(h, donor, i)),
   removal |-> [kind |-> "Moved", src |-> h[donor].index,
                dest |-> h[n].index, size |-> 1]]

MoveEntryToFront(h, donor, i, n, j) ==
  LET entry == Taken(h, donor, i)
  IN  [heap    |-> SimpleInsert(SimpleRemove(h, donor, i), n, 0, entry),
       removal |-> [kind |-> "Moved", src |-> h[donor].index,
                    dest |-> h[n].index, size |-> entry.size]]

\* Entry i of `donor` becomes entry j of n.
MoveEntry(h, donor, i, n, j) ==
  LET entry == Taken(h, donor, i)
  IN  [heap    |-> SimpleInsert(SimpleRemove(h, donor, i), n, j, entry),
       removal |-> [kind |-> "Moved", src |-> h[donor].index,
                    dest |-> h[n].index, size |-> entry.size]]

MergeInto(h, dest, src) ==
  [heap    |-> Merge(h, dest, src),
   removal |-> [kind |-> "Merged", src |-> h[src].index,
                dest |-> h[dest].index, size |-> 0]]

Rebalance(h, n) ==
  LET left  == LeftSibling(h, n)
      right == RightSibling(h, n)
  IN  IF h[n].length >= MinLength \/ (left = None /\ right = None)
      THEN [heap |-> h, removal |-> Absorbed(h, n)]
      ELSE IF CanLend(h, left)
      THEN MoveEntry(h, left, h[left].length - 1, n, 0)
      ELSE IF CanLend(h, right)
      THEN MoveEntry(h, right, 0, n, h[n].length)
      ELSE IF right # None
      THEN MergeInto(h, n, right)
      ELSE MergeInto(h, left, n)

RemoveOnce(h, n, i) == Rebalance(SimpleRemove(h, n, i), n)

\* Merging is the only part of remove_once with assertions of its own.
RebalancePanics(h, n) ==
  LET left  == LeftSibling(h, n)
      right == RightSibling(h, n)
  IN  /\ h[n].length < MinLength
      /\ ~ CanLend(h, left) /\ ~ CanLend(h, right)
      /\ \/ right # None /\ MergePanics(h, n, right)
         \/ right = None /\ left # None /\ MergePanics(h, left, n)

RemovePanics(h, n, i) ==
  \/ i >= h[n].length
  \/ RebalancePanics(SimpleRemove(h, n, i), n)
=============================================================================
