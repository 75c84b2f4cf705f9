------------------------------ MODULE BTreeVec ------------------------------
(***************************************************************************)
(* BTreeVec<T, B, A>: insert, remove, get and get_mut of src/src/lib.rs    *)
(* with the loops they run, leaf_for (lib.rs), insert / handle_insertion   *)
(* (insert.rs) and remove / handle_removal (remove.rs).                    *)
(*                                                                         *)
(* The vector is driven by one caller (every method takes &self or         *)
(* &mut self), so a call runs to its end before the next one starts; a     *)
(* step is one iteration of a loop of the call.  A call can also end early *)
(* where the allocator fails ("aborted") and where an assertion, an unwrap *)
(* or a bounds or overflow check fails ("panicked").                       *)
(***************************************************************************)
EXTENDS BTreeNode

CONSTANT
  MaxSize   \* bound of the model on len(); usize::MAX in the code

ASSUME MaxSizeAssumption == MaxSize \in Nat

VARIABLES
  heap,     \* the memory the nodes live in
  root,     \* BTreeVec.root
  size,     \* BTreeVec.size
  request,  \* the method called and its arguments
  pc,       \* where the running call is
  node,     \* its current node: `root` of leaf_for, then `node` of
            \* Insertion and Removal
  index,    \* its `index`, made relative to `node` by leaf_for
  held,     \* the T it holds: the item to insert or the item removed or read
  split,    \* Insertion.new
  removal   \* Removal.kind

fields == <<heap, root, size>>
locals == <<request, pc, node, index, held, split, removal>>
vars   == <<heap, root, size, request, pc, node, index, held, split, removal>>

-----------------------------------------------------------------------------
Op == {"insert", "remove", "get", "set"}
NoRequest == [op |-> "none", index |-> 0, item |-> None]
Request == [op : Op \cup {"none"}, index : Nat, item : Item \cup {None}]
NoRemoval == [kind |-> "Absorbed", src |-> 0, dest |-> 0, size |-> 0]
PC == {"idle", "seek", "climb", "return", "aborted", "panicked"}

TypeOK ==
  /\ heap \in Heap
  /\ root \in PtrOrNone
  /\ size \in Nat
  /\ request \in Request
  /\ pc \in PC
  /\ node \in PtrOrNone
  /\ index \in Nat
  /\ held \in Slot
  /\ split \in PtrOrNone
  /\ removal \in Removal

\* BTreeVec::create_in.
Init ==
  /\ heap = [p \in Ptr |-> NewNode("free")]
  /\ root = None
  /\ size = 0
  /\ request = NoRequest
  /\ pc = "idle"
  /\ node = None
  /\ index = 0
  /\ held = None
  /\ split = None
  /\ removal = NoRemoval

\* The locals of a call go out of scope when it ends; what it still holds is
\* handed to the caller, or dropped by the unwinding.
Leave(where) ==
  /\ pc' = where
  /\ request' = NoRequest
  /\ node' = None
  /\ index' = 0
  /\ held' = None
  /\ split' = None
  /\ removal' = NoRemoval

Panic == Leave("panicked") /\ UNCHANGED fields

-----------------------------------------------------------------------------
(***************************************************************************)
(* The start of a call, and leaf_for.                                      *)
(***************************************************************************)
Enter(op, i, x) ==
  /\ request' = [op |-> op, index |-> i, item |-> x]
  /\ pc' = "seek"
  /\ index' = i
  /\ held' = x
  /\ UNCHANGED <<split, removal>>

\* BTreeVec::insert up to leaf_for_mut: an empty vector gets a leaf as root.
BeginInsert(i, x) ==
  /\ pc = "idle"
  /\ i <= size
  /\ size < MaxSize
  /\ Enter("insert", i, x)
  /\ IF root # None
     THEN /\ node' = root
          /\ UNCHANGED fields
     ELSE /\ Free(heap) # {}
          /\ heap' = Alloc(heap, Fresh(heap), "leaf")
          /\ root' = Fresh(heap)
          /\ node' = Fresh(heap)
          /\ UNCHANGED size

\* BTreeVec::remove up to leaf_for_mut, with its assertion.
BeginRemove(i) ==
  /\ pc = "idle"
  /\ i < size
  /\ Enter("remove", i, None)
  /\ node' = root
  /\ UNCHANGED fields

\* BTreeVec::get and the Index, first and last built on it.
BeginGet(i) ==
  /\ pc = "idle"
  /\ i < size
  /\ Enter("get", i, None)
  /\ node' = root
  /\ UNCHANGED fields

\* BTreeVec::get_mut with the caller writing x through the reference.
BeginSet(i, x) ==
  /\ pc = "idle"
  /\ i < size
  /\ Enter("set", i, x)
  /\ node' = root
  /\ UNCHANGED fields

\* One iteration of leaf_for at an internal node.
Descend ==
  /\ pc = "seek"
  /\ IsInternal(heap, node)
  /\ LET i == ChildFor(heap, node, index)
     IN  IF heap[node].length = 0 \/ ChildPtr(heap, node, i) \notin Ptr
         THEN Panic
         ELSE /\ node' = heap[node].children[i]
              /\ index' = index - PrefixSums(heap[node].sizes)[i]
              /\ UNCHANGED <<fields, request, pc, held, split, removal>>

AtLeaf(op) == pc = "seek" /\ request.op = op /\ IsLeaf(heap, node)

-----------------------------------------------------------------------------
(***************************************************************************)
(* get and get_mut: the slot of the leaf.                                  *)
(***************************************************************************)
Get ==
  /\ AtLeaf("get")
  /\ IF index < heap[node].length
     THEN /\ held' = heap[node].children[index]
          /\ pc' = "return"
          /\ UNCHANGED <<fields, request, node, index, split, removal>>
     ELSE Panic

Set ==
  /\ AtLeaf("set")
  /\ IF index < heap[node].length
     THEN /\ heap' = [heap EXCEPT ![node].children[index] = held]
          /\ held' = None
          /\ pc' = "return"
          /\ UNCHANGED <<root, size, request, node, index, split, removal>>
     ELSE Panic

Return ==
  /\ pc = "return"
  /\ Leave("idle")
  /\ UNCHANGED fields

-----------------------------------------------------------------------------
(***************************************************************************)
(* insert: insert_once at the leaf, then handle_insertion up to the root.  *)
(***************************************************************************)
InsertAtLeaf ==
  /\ AtLeaf("insert")
  /\ heap[node].length = B => Free(heap) # {}
  /\ IF InsertPanics(heap, node, index) THEN Panic
     ELSE LET result == InsertOnce(heap, node, index, Entry(held, 1),
                                   Fresh(heap))
          IN  /\ heap' = result.heap
              /\ split' = result.split
              /\ held' = None
              /\ pc' = "climb"
              /\ UNCHANGED <<root, size, request, node, index, removal>>

Inserting == pc = "climb" /\ request.op = "insert"

\* Mutant of Credit: the items that went to the new sibling still count here.
CreditWhole(h, parent, i) == [h EXCEPT ![parent].sizes[i] = @ + 1]

\* handle_insertion below the root `parent` of a heap h in which `child` is
\* already linked: the sizes of child and of its new sibling, then insert_once
\* of the sibling.
Credit(h, parent, i) ==
  [h EXCEPT ![parent].sizes[i] =
     @ + 1 - (IF split = None THEN 0 ELSE NodeSize(h, split))]

LinkSplit(h, parent, i, new) ==
  InsertOnce(Credit(h, parent, i), parent, i + 1,
             Entry(split, NodeSize(h, split)), new)

\* parent.sizes[i] is out of bounds or goes below 0, or insert_once panics.
LinkPanics(h, parent, i) ==
  \/ i \notin Position
  \/ split # None /\ \/ h[parent].sizes[i] + 1 < NodeSize(h, split)
                     \/ InsertPanics(h, parent, i + 1)

\* The parent absorbs the item: nothing was split.
ClimbInsert ==
  /\ Inserting /\ split = None
  /\ heap[node].parent # None
  /\ LET parent == heap[node].parent
         i      == heap[node].index
     IN  IF LinkPanics(heap, parent, i) THEN Panic
         ELSE /\ heap' = Credit(heap, parent, i)
              /\ node' = parent
              /\ UNCHANGED <<root, size, request, pc, index, held, split,
                             removal>>

\* Mutant of ClimbSplit: a sibling the parent had room for is handed on.
ClimbSplitHandsOn ==
  /\ Inserting /\ split # None
  /\ heap[node].parent # None
  /\ LET parent == heap[node].parent
         i      == heap[node].index
     IN  /\ heap[parent].length < B
         /\ heap' = LinkSplit(heap, parent, i, None).heap
         /\ node' = parent
         /\ UNCHANGED <<root, size, request, pc, index, held, split, removal>>

\* The parent takes the new sibling, splitting in turn if it is full.
ClimbSplit ==
  /\ Inserting /\ split # None
  /\ heap[node].parent # None
  /\ LET parent == heap[node].parent
         i      == heap[node].index
     IN  /\ heap[parent].length = B => Free(heap) # {}
         /\ IF LinkPanics(heap, parent, i) THEN Panic
            ELSE LET result == LinkSplit(heap, parent, i, Fresh(heap))
                 IN  /\ heap' = result.heap
                     /\ split' = result.split
                     /\ node' = parent
                     /\ UNCHANGED <<root, size, request, pc, index, held,
                                    removal>>

\* The root was split: a new root takes both halves.
GrowRoot ==
  /\ Inserting /\ split # None
  /\ heap[node].parent = None
  /\ Free(heap) # {}
  /\ LET parent == Fresh(heap)
         i      == heap[node].index
         grown  == SimpleInsert(Alloc(heap, parent, "internal"), parent, 0,
                                Entry(node, size))
     IN  IF LinkPanics(grown, parent, i) THEN Panic
         ELSE /\ heap' = LinkSplit(grown, parent, i, None).heap
              /\ split' = None
              /\ node' = parent
              /\ UNCHANGED <<root, size, request, pc, index, held, removal>>

\* InsertionResult::Done, and the end of BTreeVec::insert.
FinishInsert ==
  /\ Inserting /\ split = None
  /\ heap[node].parent = None
  /\ root' = node
  /\ size' = size + 1
  /\ Leave("idle")
  /\ UNCHANGED heap

\* allocate returns an error and handle_alloc_error does not return: for the
\* first leaf, for a split and for a new root.  A full parent has its sizes
\* updated before it is split.
AllocFails ==
  /\ \/ /\ pc = "idle" /\ root = None /\ size < MaxSize
        /\ UNCHANGED heap
     \/ /\ AtLeaf("insert") /\ heap[node].length = B
        /\ UNCHANGED heap
     \/ /\ Inserting /\ split # None
        /\ heap[node].parent = None
        /\ UNCHANGED heap
     \/ /\ Inserting /\ split # None
        /\ heap[node].parent # None
        /\ heap[heap[node].parent].length = B
        /\ ~ LinkPanics(heap, heap[node].parent, heap[node].index)
        /\ heap' = Credit(heap, heap[node].parent, heap[node].index)
  /\ Leave("aborted")
  /\ UNCHANGED <<root, size>>
-----------------------------------------------------------------------------
(***************************************************************************)
(* remove: remove_once at the leaf, then handle_removal up to the root.    *)
(***************************************************************************)
RemoveAtLeaf ==
  /\ AtLeaf("remove")
  /\ IF RemovePanics(heap, node, index) THEN Panic
     ELSE LET result == RemoveOnce(heap, node, index)
          IN  /\ held' = heap[node].children[index]
              /\ heap' = result.heap
              /\ removal' = result.removal
              /\ pc' = "climb"
              /\ UNCHANGED <<root, size, request, node, index, split>>

Removing == pc = "climb" /\ request.op = "remove"

\* The parent's sizes after a removal below it: `size` items went from src to
\* dest (all of src's when it was merged) and one item is gone.
Debit(h, parent) ==
  LET gone == IF removal.kind = "Merged" THEN h[parent].sizes[removal.src]
              ELSE removal.size
      taken == [h EXCEPT ![parent].sizes[removal.src] = @ - gone]
  IN  [taken EXCEPT ![parent].sizes[removal.dest] = @ + gone - 1]

\* An index out of bounds, or a subtraction below 0.
DebitPanics(h, parent) ==
  \/ removal.src \notin Position
  \/ removal.dest \notin Position
  \/ h[parent].sizes[removal.src] < removal.size
  \/ Debit(h, parent)[parent].sizes[removal.dest] < 0

\* Mutant of ClimbRemove: the climb never leaves the node.
ClimbRemoveStays ==
  /\ Removing /\ removal.kind # "Merged"
  /\ heap[node].parent # None
  /\ LET parent == heap[node].parent
     IN  IF DebitPanics(heap, parent) THEN Panic
         ELSE /\ heap' = Debit(heap, parent)
              /\ UNCHANGED <<root, size, request, pc, node, index, held, split,
                             removal>>

\* Moved and Absorbed: the parent keeps its children.  At the root, Moved runs
\* into into_parent().ok().unwrap() and Absorbed is the end (FinishRemove).
ClimbRemove ==
  /\ Removing
  /\ \/ removal.kind = "Moved"
     \/ removal.kind = "Absorbed" /\ heap[node].parent # None
  /\ LET parent == heap[node].parent
     IN  IF parent = None \/ DebitPanics(heap, parent) THEN Panic
         ELSE /\ heap' = Debit(heap, parent)
              /\ removal' = Absorbed(heap, parent)
              /\ node' = parent
              /\ UNCHANGED <<root, size, request, pc, index, held, split>>

\* Mutant of ClimbMerge: the emptied child is not destroyed.
ClimbMergeLeaks ==
  /\ Removing /\ removal.kind = "Merged"
  /\ LET parent == heap[node].parent
         result == RemoveOnce(Debit(heap, parent), parent, removal.src)
     IN  /\ heap' = result.heap
         /\ removal' = result.removal
         /\ node' = parent
         /\ UNCHANGED <<root, size, request, pc, index, held, split>>

\* Merged: the emptied child is removed from the parent, which may need its
\* own siblings for that, and destroyed.
ClimbMerge ==
  /\ Removing /\ removal.kind = "Merged"
  /\ LET parent  == heap[node].parent
         emptied == ChildPtr(heap, parent, removal.src)
         debited == Debit(heap, parent)
     IN  IF \/ parent = None
            \/ DebitPanics(heap, parent)
            \/ emptied \notin Ptr
            \/ RemovePanics(debited, parent, removal.src)
         THEN Panic
         ELSE LET result == RemoveOnce(debited, parent, removal.src)
              IN  /\ heap' = Dealloc(result.heap, emptied)
                  /\ removal' = result.removal
                  /\ node' = parent
                  /\ UNCHANGED <<root, size, request, pc, index, held, split>>

\* Mutant of FinishRemove: an internal root keeps its only child and stays.
FinishRemoveKeepsRoot ==
  /\ Removing /\ removal.kind = "Absorbed"
  /\ heap[node].parent = None
  /\ root' = node
  /\ size' = size - 1
  /\ Leave("idle")
  /\ UNCHANGED heap

\* RemovalResult::Done, and the end of BTreeVec::remove.  An internal root
\* with one child left gives way to that child.
FinishRemove ==
  /\ Removing /\ removal.kind = "Absorbed"
  /\ heap[node].parent = None
  /\ IF IsInternal(heap, node) /\ heap[node].length = 1
     THEN IF heap[node].children[0] \notin Ptr THEN Panic
          ELSE /\ heap' = Dealloc(SimpleRemove(heap, node, 0), node)
               /\ root' = heap[node].children[0]
               /\ size' = size - 1
               /\ Leave("idle")
     ELSE /\ root' = node
          /\ size' = size - 1
          /\ Leave("idle")
          /\ UNCHANGED heap

-----------------------------------------------------------------------------
\* What the running call does next.
Step ==
  \/ Descend
  \/ Get \/ Set \/ Return
  \/ InsertAtLeaf \/ ClimbInsert \/ ClimbSplit \/ GrowRoot \/ FinishInsert
  \/ RemoveAtLeaf \/ ClimbRemove \/ ClimbMerge \/ FinishRemove

\* What the caller does next.
Begin ==
  \E i \in 0..MaxSize :
    \/ \E x \in Item : BeginInsert(i, x) \/ BeginSet(i, x)
    \/ BeginRemove(i)
    \/ BeginGet(i)

Next == Begin \/ Step \/ AllocFails

\* A call that has started keeps running: it is a sequence of instructions of
\* one thread and waits for nothing.  Callers need not make another call.
Fairness == WF_vars(Step \/ (pc # "idle" /\ AllocFails))

Spec == Init /\ [][Next]_vars /\ Fairness
=============================================================================
