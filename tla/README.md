# btree-vec in TLA+

A verification development of the crate `btree-vec`: a growable array kept as
an unsorted counted B+ tree. The specifications follow the source under
`src/src/`; line numbers in `PROJECT.json` ("map") say which lines each
definition stands for.

## 1. The system

| Component | Source | State | Operations | Interacts with |
|---|---|---|---|---|
| Nodes | `node/{mod,internal,leaf,parent_ptr}.rs` | `LeafNode`: tagged parent pointer, `index`, `length`, items, `next`. `InternalNode`: the same header, `length`, children, `sizes` | `alloc`, `destroy`, `simple_insert`, `simple_remove`, `split`, `merge`, `size`, `siblings_mut`, `cast` | the allocator; each other through raw pointers |
| Insertion | `insert.rs` | `Insertion {node, new}` | `insert`, `handle_insertion`, `insert_once` | calls the nodes, from the leaf up to the root |
| Removal | `remove.rs` | `Removal {node, kind}` | `remove`, `handle_removal`, `remove_once` | the same |
| Vector | `lib.rs` | `root`, `size`, `alloc` | `create_in`, `insert`, `push`, `remove`, `pop`, `get`, `get_mut`, `first`, `last`, `Index`, `leaf_for` | calls insertion and removal, stores the root they return |
| Iter, IterMut | `lib.rs` | `leaf`, `index`, `remaining` | `iter`, `iter_mut`, `next`, `nth`, `size_hint` | borrow the vector; follow `next` and climb by `sizes` |
| IntoIter, Drop | `lib.rs`, `leaf.rs` | the same, plus what is not freed yet | `into_iter`, `next`, `drop` | take the nodes apart |
| Clone | `lib.rs`, `mod.rs`, `internal.rs`, `leaf.rs` | two trees | `clone`, `clone_node`, `clone_from` | reads one tree, builds another |
| Eq, Ord, Debug, Default, Send, Sync | `lib.rs` | none | | read through `iter` |
| Allocator | `verified_alloc.rs`, `alloc_fallback.rs` | external | `allocate`, `deallocate` | can fail |
| Graph dump | `debug.rs` | none | output for debugging | reads only |

The crate is sequential: every method takes `&self` or `&mut self`, so there is
no concurrency to model. What makes it hard is aliasing and redundancy. One
fact is stored in several places (a node's position in its `index` and in the
parent's array; the items below a child in `sizes` and in the subtree; the
order of the leaves in the tree and in the `next` list), all of it through raw
pointers, and a single call edits these copies at every level, in an order in
which each step reads what the one before left. A slip does not fail the call
that makes it: it misleads a call much later. The hazards in `PROJECT.json` list
where.

What makes each component correct:

- nodes: back pointers, positions and kinds agree; every node is owned once;
- insertion and removal: `sizes` is exact, nodes stay filled, the height is the
  same everywhere, and no `unwrap`, assertion or overflow check can fail;
- vector: the calls behave as the doc says on a sequence of items, and end;
- iterators: every item once, in order, with `remaining` exact, then `None`
  for good;
- IntoIter, Drop: every item and node released once, wherever iteration stops;
- Clone: an equal vector that shares no node with the original, and goes on
  like one of its own.

## 2. The modules

| Module | Models |
|---|---|
| `BTreeNode` | The heap of nodes and the operations on one or two nodes, `insert_once` and `remove_once` included. Operators from heaps to heaps, generic in the kind of node as the code is in `N: Node` |
| `BTreeVec` (extends `BTreeNode`) | The vector as a state machine: one action per loop iteration of a call |
| `BTreeVecInv` (extends `BTreeVec`) | Invariants that speak of a node and its neighbours |
| `BTreeShape` (extends `BTreeVecInv`) | Invariants of the tree and the leaf list as a whole, and the walks over them |
| `VecSpec` | Abstract vector: a sequence, calls, their effects, results and ends |
| `BTreeRefinement` (extends `BTreeShape`) | `BTreeVec` implements `VecSpec` |
| `IterSpec` | Abstract iterator over a sequence |
| `BTreeIter` (extends `BTreeShape`) | `Iter`/`IterMut` over `BTreeVec`, and that they implement `IterSpec` |
| `BTreeDrop` (extends `BTreeShape`) | `destroy` as a stack of calls, and destructors that panic |
| `DrainSpec` | Abstract owning iterator: items leave from the front, to the caller or to their destructor |
| `BTreeIntoIter` (extends `BTreeDrop`) | `IntoIter` and the two `Drop`s, and that they implement `DrainSpec` |
| `PairSpec` | Abstract vector and copy: equal at first, then each changed by its own calls only |
| `BTreeClone` (extends `BTreeDrop`) | `clone` node by node, calls on both vectors, drops of either; it implements `PairSpec` |
| `BTreeTree` (extends `BTreeVecInv`) | `TreeInv`, the inductive invariant behind `Linked` and `Initialised` |
| `BTreeTreeProofs` (extends `BTreeTree`) | Types: what the operators of `BTreeNode` return, and `TypeOK`. What each operation on nodes does to the tree, `insert_once` and `remove_once` included |
| `BTreeLinkedProofs` (extends `BTreeTreeProofs`) | Each action keeps `TreeInv`; `Linked`, `Initialised`. Each keeps the nodes filled; `Filled` for B >= 4 |
| `BTreeExact` (extends `BTreeTree`) | `SizesInv`, the inductive invariant behind `SizesExact` |
| `BTreeSizesProofs` (extends `BTreeLinkedProofs`) | Each action keeps the sizes right; `SizesExact` |
| `BTreeOrder` (extends `BTreeExact`) | `OrderInv`, the inductive invariant of the order of the leaves |
| `BTreeOrderProofs` (extends `BTreeOrder`, `BTreeSizesProofs`) | Each action keeps the order; `NoPanic`, and `SizesExact` and `Filled` without conditions |
| `BTreeShapeProofs` (extends `BTreeShape`, `BTreeOrderProofs`) | What the walks over the nodes rest on: recursion along chains that end, finitely many nodes, the number of items before each node; what `leaf_for` comes to; what a walk over a tree passes, `OwnedOnce`, `Balanced` |
| `BTreeIterProofs` (extends `BTreeIter`, `BTreeShapeProofs`) | What `nth` and the leaf list come to between two calls; the properties of the iterators, and that they implement `IterSpec` |
| `BTreeRefinementProofs` (extends `BTreeRefinement`, `BTreeShapeProofs`) | What each step does to the items in the order of the leaf list; `BTreeVec` implements `VecSpec`; `LeafChain` |
| `BTreeIntoIterProofs` (extends `BTreeIntoIter`, `BTreeRefinementProofs`) | A tree taken apart by the calls of `destroy`; `NodesFreedOnce`, and `Initialised` while the vector is iterated and dropped |
| `MCBTreeVec`, `MCBTreeRefinement`, `MCBTreeIter`, `MCBTreeIntoIter`, `MCBTreeClone` | Views and constraints for TLC |

### State and actions against the code

`heap` is the memory behind the raw pointers: a function from addresses to
node records. `kind` is the tag in `ParentPtr` ("free" for memory the
allocator owns). An uninitialised or moved-out slot holds `None`, so that
reading one shows. Entries of `sizes` past `length` keep what the code leaves
there.

| Action of `BTreeVec` | Code |
|---|---|
| `Init` | `create_in` |
| `BeginInsert`, `BeginRemove`, `BeginGet`, `BeginSet` | the methods up to `leaf_for`, with their assertions; the allocation of a first leaf. `push`, `pop`, `first`, `last` and `Index` are these with a fixed index |
| `Descend` | one iteration of `leaf_for` |
| `Get`, `Set`, `Return` | the access in the leaf; the caller's write through `get_mut`; the return |
| `InsertAtLeaf` | `insert_once` on the leaf |
| `ClimbInsert`, `ClimbSplit`, `GrowRoot`, `FinishInsert` | `handle_insertion`: nothing split, a new sibling to link, a new root, `Done` |
| `RemoveAtLeaf` | `remove_once` on the leaf |
| `ClimbRemove`, `ClimbMerge`, `FinishRemove` | `handle_removal`: `Moved`/`Absorbed`, `Merged`, `Done` with the collapse of the root |
| `AllocFails` | `handle_alloc_error` wherever `NodeRef::alloc` is called |

| Action of `BTreeDrop` | Code |
|---|---|
| `DestroyChild` | one child of the loop of `destroy_children`, up to the start of its own |
| `DestroyNode` | the end of `destroy`: `LeafNode::drop` on the copy that was read, the deallocation |
| `ItemPanics` | a destructor panics in `LeafNode::drop`: the calls unwind, or the program aborts if they already do |

| Action of `BTreeIntoIter` | Code |
|---|---|
| `IntoIter`, `IntoNext` | `into_iter`, `next` with `set_zero_length` and `take_raw_child` |
| `DropIntoIter`, `DrainItem` | `IntoIter::drop`: its start, and one item of its loop |
| `DropTree`, `DropDone` | `BTreeVec::drop`, of the field `_tree` or of a vector that was not iterated; its end |

| Action of `BTreeClone` | Code |
|---|---|
| `CloneStep` | `clone` up to the root's `clone_node`, or one iteration of the loop of `clone_from` |
| `CloneEnd` | the end of an internal node's `clone_from`: `length`, `sizes`, `expect` |
| `CloneFails` | an allocation fails, or `T::clone` panics and the caller catches it |
| `CallOriginal`, `ReadCopy`, `CallCopy` | calls of `BTreeVec` on the one and on the other |
| `DropOriginal`, `DropCopy`, `DropOn` | the drop of either, step by step |

`stack` and `clones` are the call stacks of the two recursions. `Built` and
`Pending` are the nodes those calls hold, which belong to no tree at that
moment, and `leaked` what a panic of the caller's code has left to nobody: with
them ownership is stated for every step, not only between calls.

A failing `unwrap`, assertion, index or unsigned subtraction leads to `pc =
"panicked"`; `NoPanic` says that this never happens. Calls with arguments the
docs reject panic before they change anything and are not taken. A failed
allocation ends the program ("aborted") with the heap as it is at that point.

Operators whose comment begins with "Mutant of" are deliberately wrong
variants of the definition that follows: each property is tried against one,
to see that it would notice (`PROJECT.json`, "mutants").

## 3. What the runs check

| Run | Instance | Checks |
|---|---|---|
| `MCBTreeRefinement_b4` | B = 4, up to 11 items, all indices | `TypeOK`, `NoPanic`, `Initialised`, `Linked`, `SizesExact`, `Filled`, `OwnedOnce`, `Balanced`, `LeafChain`, `ImplementsVec` |
| `MCBTreeVec_deep` | B = 4, up to 15 items, calls at the ends and in the middle | `NoPanic`, `SizesExact`, `Filled` |
| `MCBTreeVec_b5` | B = 5, up to 14 items, all indices | `NoPanic`, `InductiveFound`, `Filled` |
| `MCBTreeRefinement_b3` | B = 3, up to 6 items | `NoPanic`, `ImplementsVec` |
| `MCBTreeIter_b4` | B = 4, vectors up to 11 items, built at the ends and in the middle; `nth` up to 11 | `IterTypeOK`, `NoIterPanic`, `IterPlaceExact`, `ImplementsIter` |
| `MCBTreeIntoIter_b4` | B = 4, vectors up to 11 items, built at the ends and in the middle | `IntoTypeOK`, `NoPanic`, `NoUninitialisedRead`, `Initialised`, `NodesFreedOnce`, `SizeHintExact`, `ImplementsDrain` |
| `MCBTreeIntoIter_live` | B = 4, up to 12 items: all indices up to 7, at the back beyond; no view | `CallsEnd`, `DropEnds` |
| `MCBTreeClone_b4` | B = 4, up to 6 items, all indices | `NoPanic`, `SizesExact`, `OwnedApart`, `OriginalUntouched`, `CloneReadsEqual`, `ImplementsPair` |
| `MCBTreeClone_deep` | B = 4, original grown at its end to 11 items | `OwnedApart`, `CloneReadsEqual`, `ImplementsPair` |
| `MCBTreeIter_b3` | B = 3, up to 6 items | `NoIterPanic`, violated |
| `MCBTreeClone_iter` | B = 4, up to 5 items | `CopyIterates`, violated |
| `MCBTreeClone_calls` | B = 4, up to 6 items, any call on the copy | `NoPanic`, violated |

The structural invariants hold at every step of a call, not only between calls.
They name what is out of order in between: `Lag` is the one difference
`SizesExact` allows, on the edge the climb is about to bring up to date;
`IsEmptied` is the child a merge has emptied and the parent has not unlinked.

`InductiveFound` is the inductive invariants of the proofs, `TreeInv`,
`SizesInv` and `OrderInv`, with heights, counts and orders TLC can compute in
place of the quantifiers over them.

The consuming iterator and the drop are one refinement (`ImplementsDrain`). Its
abstract state is the sequence of items still owned, which is read off the
structure that will release them: the tree, the iterator and the rest of the
leaf list, or the calls of `destroy`. An item that both the iterator and the
tree would release, or neither, breaks it at the step that makes it so.
`NodesFreedOnce` is the same for the nodes.

`ImplementsPair` reads the copy through `get`, the way that goes by its own
nodes only, and says that calls on the original and its drop do not show in
it. `CloneReadsEqual` is what the crate's test `clone` checks, the iteration
over the copy at the moment `clone` returns. What comes after that moment
fails; see below. The passing runs therefore use `CloneSpec`, where the copy
is read, written through `get_mut` and dropped, and the violated one
`CloneUseSpec`, where it is used like any vector.

**Bounds.** With B = 4 a third level appears at 11 items, over five leaves. A
removal that merges two leaves makes room for a split elsewhere, so 11 items
reach both divisions of the leaves, 2 + 3 and 3 + 2, and with them leaf splits,
root splits, moves and merges to both sides at the leaves and among internal
nodes, and root collapse. The one case left, an internal node below
the root splitting, needs 15 items and is what `MCBTreeVec_deep` is for. B = 5
needs 14 items for a root split. B = 3 has three levels at 6 items. A clone at
6 items has three leaves, the first, one in the middle and the last; at 11 it
has three levels. At most one clone is given up, and none begun after a panic
that leaked nodes. `Ptr` has enough addresses for the largest tree, and running
out of them is not an error: `AllocFails` is possible at every allocation
anyway. `MaxSize` stands for `usize::MAX` as the limit of `len()`.

**Views and constraints.** `View` numbers the nodes in preorder between calls,
so that heaps that differ in addresses only are one state. This loses nothing:
no action compares addresses except for equality, and every property here holds
or fails alike under a renaming. During a call the view is the full state, so
the number of states TLC reports varies a little with the addresses of the
representatives its workers happen to keep. `IntoView` numbers the nodes until
the vector is consumed. `CloneView` numbers the nodes of both trees and leaves
out the `next` pointers of the copy, which nothing in `CloneSpec` reads once
`clone` has returned; the violated runs of `BTreeClone` use no view.
`AtEndsOrMiddle`, `AtBackIfLarge` and `GrowsAtEnd` restrict the calls,
`OneMarked` and `OneMarkedEach` allow the marked item once in a vector: the
code never looks at a `T`, so if an item could be lost, doubled or misplaced,
it could with that item marked.

**Fairness.** `Fairness` says that a call that has started keeps running: it is
straight-line code and loops of one thread that waits for nothing. It does not
say that callers make further calls. An allocation returns or fails, so the
conjunct is weak fairness of the call's own steps together with `AllocFails`
while a call is running. `IntoSpec` has this conjunct too, and in the same way
`WF(DropStep)`: a drop that has begun goes on, whatever the destructors of the
items do short of not returning; nothing makes the caller call `next` or drop
the iterator. `CHECK_DEADLOCK` is off because after "aborted" the program has
stopped.

### The runs that are violated

**B = 3.** `create_in` accepts B = 3 and the docs say it is valid. With B = 3
the halves of an internal node are 2 and 1, so that a leaf can be an only
child. `remove_once` has no sibling to turn to there, and absorbs the removal
even of the leaf's last item. The empty leaf stays in the list (`Filled`
therefore takes B >= 4). `insert`, `remove`, `get` and `get_mut` work on with
it, as `MCBTreeRefinement_b3` shows. `Iter::next` and `IterMut::next` do not:
having come to the end of a leaf they take the next one for nonempty. The
counterexample of `MCBTreeIter_b3` ends with an empty last leaf and a call of
`next` that should return `None`. The crate's tests use 4 as the smallest B.
`IntoIter::next` makes the same assumption: coming to an empty leaf in the
middle it would move slot 0 out of it. `NoUninitialisedRead` speaks of that
case and is checked for B = 4; under `IntoSpec` with B = 3 and 8 items it
fails.

**The leaf list of a clone.** For a leaf, `clone_node` returns the leaf it
cloned, not the new one (`node/mod.rs:225`), and `clone_from` stores that as
`next` of the new leaf to its left. Each leaf of a clone is followed by a leaf
of the original. While the original stands as it was, iterating over the clone
yields the right items, which is what the crate's test looks at. In
`MCBTreeClone_iter` the original's second leaf is changed, and the clone's
iterator and its `get` disagree. `iter_mut` and `into_iter` walk the same list.

**The indices in a clone.** `clone_from` sets the parent of a cloned child and
leaves its `index` at 0. `get` and `get_mut` never read it. `insert` and
`remove` do on their way up: in `MCBTreeClone_calls` a `remove` in the second
leaf of a clone takes the leaf itself for its right sibling and fails `merge`'s
assertion.

## 4. What is proved

`BTreeTreeProofs` first proves, for every B >= 3, all sets of items and addresses and
every `MaxSize`:

- `TypeCorrect`: `Spec => []TypeOK`. `length` never exceeds B, no write leaves
  an array, and a size goes below 0 only where a check of the code has stopped
  it. `TypeOK` is not inductive: it does not say that a running call is at a
  node, nor that `size` may be decremented at the end of `remove`. `TypeInv`
  adds `CallOK`: a vector with items has a root, a running call is at a node,
  and the index of `remove`, `get` and `get_mut` stays below `len()`.
- `CallsRelyOnChecks`: `Spec => []CallOK`.

The module also holds what they rest on: for each operator of `BTreeNode`,
that it maps heaps to heaps and what it does to lengths (a split leaves room in
both halves, a merge fits because both nodes have at most B / 2 entries, a move
goes to a node with room). `PrefixSumsStep` and `ChildForType` say that the
running sums exist, and that the child `leaf_for` takes is a child of the node
and starts at or before the index. They use a least-counterexample argument in
place of induction over data (`LeastNatural`). The assumptions are
`NodeAssumption` and `MaxSizeAssumption`; TLC evaluates both in every run.

**The tree.** `BTreeLinkedProofs` proves, from the same assumptions,
`AlwaysLinked` (`Spec => []Linked`) and `AlwaysInitialised`
(`Spec => []Initialised`), in the middle of a call and after a failed
allocation or check too. Neither property is inductive. `merge` hands the
children it takes over the whole tagged parent pointer of its own first child,
which is right only if siblings, and the children of siblings, are of one kind;
what `remove_once` finds at `index - 1` and `index + 1` of the parent must be
siblings of the node. What they need is that the nodes form a tree with all leaves at one level. A walk
down the tree would be a recursive definition, which the prover cannot unfold,
so `TreeInv` says instead that there is a height for every node: 0 exactly for
the leaves, and one less for a child than for its parent. A child is at its
`index` in its parent, and every node without a parent is the root or the half
that insert has split off and not linked yet, which has the height of the node
it was split from (`SplitOK`, `RootsOK`). `RemovalOK` says that a `RemovalKind`
names the node just changed and a sibling of it, `NonEmpty` that only a node a
merge has emptied is without children. `TreeKept` is `Spec => []TreeInv`.

`BTreeTreeProofs` has the steps in two layers. The first says field by field
what an operation changes (`ChildInserted`, `ChildRemoved`, `NodeSplit`,
`NodesMerged`), with the renumbering and relinking loops of `internal.rs`
worked out; the second that such a change takes a tree to a tree, which nodes
become roots, and that nothing at other levels changes. `InsertOnceTree` and
`RemoveOnceTree` put them together for `insert_once` and `remove_once`.

**Filled nodes.** `BTreeLinkedProofs` proves, for B >= 4, `FilledUntilPanic`:
`Spec => [](pc # "panicked" => Filled)`. A call that fails a check leaves its
work half done, and the removal that has just taken a node below B / 2 may be
the one that fails. `FilledInv` adds to `Filled` that the half insert has split
off is filled before it is anyone's child. `RemoveOnceFilled` is the core:
`remove_once` turns to a sibling whenever the node falls below B / 2, and there
is one because its parent has at least two children, which is where B >= 4 comes
in. The sibling has an entry to give or goes into one node with the other.

**Sizes.** `BTreeSizesProofs` proves `SizesUntilEnd`:
`Spec => [](~ Ended => SizesExact)`, for every B >= 3 and in the middle of every
call. `SizesExact` compares `sizes` with what the children weigh, and is not
inductive: while a call climbs, the node it is at no longer weighs what its
parent says. `SizesInv` keeps the two apart, as `TreeInv` does with heights.
There is a count for every node that its parent's `sizes`, or `len()` for the
root, agrees with, and that differs from the node's own weight by what the
running call owes: one item and the half split off in an insertion
(`InsertExcess`), what went from the source to the target and the item that is
gone in a removal (`RemoveExcess`). It also says that the index looked for is
below the node the search is at (`SeekOK`). The sums are the work: what
`PrefixSums` is after an entry is changed, rotated in or out, moved to another
node or cut off. `DebitExact` has the subtractions `handle_removal` makes from
two entries, `ClimbSplitSizes` the case in which the parent itself splits while
a half is linked into it. The theorem leaves out states after a failed
allocation, where the sizes above the failure stay out of date, and after a
failed check.

**The order of the leaves, and `NoPanic`.** `BTreeOrderProofs` proves
`NeverPanics` (`Spec => []NoPanic`) for every B >= 3. The checks fall into three
groups. A search that runs past a node, an `unwrap` of a parent or of a child
that is not there: `TreeInv` with `SeekOK` of `SizesInv` rules them out
(`DescendSafe`, `LeafSafe`). A size that would go below 0 or an entry that would
not fit: the exactness of `SizesInv` (`ClimbInsertSafe`, `RootInsertSafe`,
`ClimbRemoveSafe`). What is left is `merge`, which asserts of two leaves that
`next` of the one is the other, and takes the first child of the source for
granted. `remove_once` finds the other leaf in the parent, so the assertion says
that two copies of one order agree. For cousins they agree only through the
levels above, and the last leaf below one node must lead to the first leaf below
the next. A walk down to that leaf would again be recursive. `OrderInv` says
instead that each level is a list. `after` is what follows a node on its level,
and what follows the last child of p is the first child of `after[p]`
(`NextChild`). For leaves `after` is what `next` stores, above them nothing
stores it. No two nodes lead to one (`LeadsOn`): without this, unlinking a
node would not leave the others as they are.

While a call is at a level, the level and the one above it are not of one mind:
the half that was split off is in the list and not yet in the parent
(`HalfApart`), the emptied node is still in the parent and no longer in the list
(`StillOver`). So `OrderInv` has two orders, `over` as the level above has it
and `after` as the nodes themselves are linked, that differ in this one node.
That a merge reports the right one of the two as emptied (`MergeOrder`) is part
of the invariant, because unlinking it is what makes the two agree again. The
lemmas `LevelsInsertedBehind` to `LevelsMerged` follow a list through each
change of a node, `RebalanceSafe` and `LinkOrder` put them together for
`remove_once` and `insert_once`, and `OrderKept` is `Spec => []OrderInv`. With
`NeverPanics` the two theorems above lose their condition: `SizesAlways` is
`Spec => []SizesExact`, `AlwaysFilled` is `Spec => []Filled` for B >= 4.
`NeverPanics` is about the calls of `BTreeVec` with arguments the docs accept;
the clone's, which fail a check, start from trees that `Init` does not lead to.

**Iterators.** `BTreeIterProofs` proves for B >= 4 all that `MCBTreeIter_b4`
checks: `IterTypeCorrect`, `IterNeverPanics`, `IterPlaced`, and the refinement
`IterImplements` (`IterSpecification => ImplementsIter`). An iterator moves in
two ways that know nothing of each other, along the leaf list and by `sizes`.
What brings them together is a number for every node: how many items lie before
it (`Laid`). `Offsets` says that a child starts where its parent does plus the
running sum of the entries before it, and that what follows a node on its level
starts where the node ends. Such numbers exist in every state in which nothing
is being inserted or removed (`RestLaid`, `OffsetsExist`, from `SizesInv` and
`OrderInv`; these are in `BTreeShapeProofs`), by recursion down from the root.
That this comes to an end takes one more invariant, `FiniteInv`: only finitely
many nodes are allocated, because a step allocates at most one.

The walks are recursive functions, and a recursive definition says what it
should only if a function of that kind exists. `ChainFunction` and
`JumpFunction` build one wherever the arguments have a rank that falls from
call to call (the height of the node for `leaf_for` and the first leaf, the
distance from the root's height for the climb of `nth`, the number of items
still to come for the leaf list), and `RankInduction` replaces induction over
data for what follows from it. With that `LeafForAt` and `NthPlaceAt` say that
the two walks end at the place of the item asked for, a leaf and an index in it
with that number before it, or past the end if there is none, and `ListItems`
that the leaf list has the same item at the same number.

`IterInv` says of an open iterator that no call is running and that `remaining`
is the number of items from its place to the end (`Rests`); it is inductive
together with the vector's invariants. `IterSpec`'s position is then
`size - remaining`, and each step maps to a step of `IterSpec` or a stutter
(`StepRefines`). B >= 4 is needed where `next` takes the first item of the next
leaf: the leaf is not empty because nodes are filled. The one new assumption is
`MaxSkipAssumption`, that the bound on the argument of `nth` is a number.

**The vector is a sequence.** `BTreeRefinementProofs` proves `VecImplements`
(`Spec => ImplementsVec`), for every B >= 3. `Items`, what the leaf list holds
from the first leaf on, is the abstract vector. A call takes effect in the one
step that changes or reads a leaf. So three things are to be shown: that step
does to `Items` what `VecSpec` says, no other step changes `Items`, and calls
begin, return and are cut short as they do there.

`Items` is read along `next` from the leaf that the walk down the left edge ends
at. In the middle of a call neither is what it is at rest: a half may be split
off, an emptied leaf may be off the list and still hang in the tree, a new root
may stand above the vector's `root`. `ListAt` says what is left: the list ends
(`EndsBy`, a rank that falls along `next`), and the first leaf is the one leaf
in use that no leaf in use leads to (`ListStarts`). That the list ends is in the
invariant (`ListInv`) and shown of each step. The rest follows from the tree and
its order: a leaf that nothing leads to is a first child all the way up, hence
the end of the left edge (`FrontDown`, `FrontUp`, `FrontStarts`). `FrontedThen`
gives what this uses, in each state a call can be in, from `TreeInv` and
`OrderInv`.

A change to a few neighbouring leaves is then followed through the list by
`Splice`: what comes before them is the same in both heaps, what comes behind
them too (`TailSame`), so `Items` differs only in what they hold (`OneLeaf`,
`OneSplit`, `Exchange`). The climbs change no leaf but the one a merge has
emptied, which the list had lost before (`KeptItems`). At the leaf,
`RotateInGains` and `RotateOutGains` say what the writes to the slots do to its
items, `RoomGains` and `SplitGains` what `insert_once` does to the leaf or to
both halves, `LeafRebalanced` that `remove_once`, after the item is out, only
moves items between neighbours. The index in the leaf is the index of the call
less the items before the leaf: `SeekPlaced` says so of the node `leaf_for` is
at, in terms of the numbers of `Laid`, and `LaidCounts` that those numbers count
the items on the list.

The invariant is `VecReadInv`: `VecInv`, `FiniteInv` and `ListInv`, with
`NoPanic` and `SeekPlaced`. `StepAllowed` has that each step keeps it and maps
to a step of `VecSpec` or a stutter. Filled nodes are not needed, so this holds
for B = 3 as well, where the iterators fail: an empty leaf holds no items, and
reading the list past it is what `Items` does and `next` does not.

**The tree as a whole.** `AlwaysOwnedOnce`, `AlwaysBalanced` (`BTreeShapeProofs`)
and `AlwaysLeafChain` (`BTreeRefinementProofs`) are the three properties of
`BTreeShape`, for every B >= 3. They are stated with walks over whole trees:
`NodesIn` is at each node what it is at the children, one after the other. Two
recursions are nested in it, over the nodes and over the slots of one node.
`WholeJoins` and `WalkExists` show that a function of this kind exists, along the
heights of `Tree`, and `WalkSpans` which nodes it passes. What is below a node
is then said without sequences (`Below`): a node is below n if it is n or its
parent is (`BelowDown`, `BelowUp`), two nodes of which neither is below the
other have nothing below both (`BelowOne`). So no walk passes a node twice
(`WalkOnce`), and every node is below a root (`RootsOwn`). `RootsOK` of `TreeInv`
says that the roots are the top and the half that waits; only a failed
allocation needs one more invariant, `RootInv`: the half is given up, but `root`
is still a root.

For `Balanced`, the depth of a node and its height add up to the same along every
way down (`DepthsBelow`), and leaves have height 0. For `LeafChain`, the list
from the first leaf below p is the leaves below p and then the list from the
first leaf below `after[p]` (`ListPasses`). This holds of a node if it does of
its children, because `OrderInv` says that the last child of p is followed by the
first child of `after[p]` (`KidFollowed`). Nothing follows the root, so there the
list is the leaves and no more.

**The drop.** `BTreeIntoIterProofs` proves `IntoFreesOnce`
(`IntoSpec => []NodesFreedOnce`) and `IntoInitialised`
(`IntoSpec => []Initialised`), for every B >= 3. `OwnInv` says who has the nodes.
Up to `into_iter` or the drop that is the vector with its own invariant
(`AtVector`). Then it is the iterator: the nodes are one tree over one list of
leaves and the iterator is at a leaf of it (`AtIterator`). How many items the
leaves have left does not matter here, which is why B = 3 will do. From
`StartDestroy` on it is the calls of `destroy` (`AtDrop`). They take the tree
apart while they run: a child whose parent was cleared still is in the slots of
no node, those to its right still are in theirs and point up to a node that says
its length is 0. So `Owning` speaks of a second heap, in which every child of a
node that is being destroyed is loose already: there the nodes are again trees
(`Tree`), the node of each call and the children it has yet to come to are roots
(`CallsFit`), and both heaps have the same kinds, lengths and children
(`Agree`). `Bared` takes all children from one node in one step; `BaredTree` and
`FreedTree` have that this, and freeing a childless root, leave trees.
`ChildFits` and `NodeFits` are the two steps of `destroy`. They also show that
`destroy_children` always finds a child in its slot and that BTreeVec's drop
finds no parent above the root.

`Pending`, what the calls still own, is then a walk over trees with different
roots: no root is owed twice, by one call or by two (`OwesOnce`, `OwedApart`,
`UnfreedOnce`), trees of different roots have no node in common (`ForestOnce`),
and the walk is the same in both heaps (`WalkAgree`). As long as no destructor
has panicked the calls owe all roots (`AllOwed`), and so all nodes. A panic
drops that clause and keeps the rest, which is the difference between a leak and
a second free.

Only model-checked: the items of the owning iterator (`IntoTypeOK`,
`NoUninitialisedRead`, `SizeHintExact`, `ImplementsDrain`) and the clone. Liveness under fairness
is out of the prover's reach.

## 5. Not modelled

- Eq, Ord, Debug, Default and the graph dump read the vector and change
  nothing; Send and Sync are claims about types.
- `VerifiedAlloc` and `alloc_fallback.rs` forward to the allocator; the model
  has what the vector sees, an address or an error. A `clone` of the allocator
  itself is taken to succeed.
- Provenance, alignment and layout of the raw pointers. Memory that was freed
  reads as a blank node, so reading it shows as a wrong result.
- After an `insert` or `remove` on a clone has failed a check nothing more is
  asked of it. A destructor that does not return, and one that calls into the
  vector, which Rust's borrows rule out.

## 6. Plan

1. Done: `BTreeNode`, `BTreeVec`, `BTreeVecInv`, `BTreeShape`, `VecSpec`,
   `BTreeRefinement`, `IterSpec`, `BTreeIter`, type correctness.
2. Done: `BTreeDrop`, `BTreeIntoIter` and `DrainSpec`; `BTreeClone` and
   `PairSpec`.
3. Done: proofs of `TypeOK`, `Linked`, `Initialised`, `SizesExact`, `NoPanic`,
   and of `Filled` for B >= 4.
4. Done: the iterators, for B >= 4.
5. Done: `ImplementsVec`.
6. Done: the properties of `BTreeShape`.
7. Done: `NodesFreedOnce`.
