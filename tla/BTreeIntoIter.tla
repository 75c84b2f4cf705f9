---------------------------- MODULE BTreeIntoIter ----------------------------
(***************************************************************************)
(* IntoIter of src/src/lib.rs: items move out of the leaves one at a time, *)
(* and dropping the iterator, at any point, releases the items and nodes   *)
(* that are left: first the rest of the current leaf (IntoIter::drop),     *)
(* then the tree (its field _tree, BTreeVec::drop).  What keeps an item    *)
(* from being released twice is that next shortens the leaf it takes from. *)
(***************************************************************************)
EXTENDS BTreeDrop

VARIABLES
  into,     \* the iterator: its fields, and how far its life has come
  yielded   \* what the last call of next returned, None after Option::None

intovars == <<into, yielded>>
allvars  == <<vars, dropvars, intovars>>

\* "undefined": an uninitialised slot was taken for an item.
IntoState == {"none", "open", "draining", "destroying", "gone", "undefined"}

IntoTypeOK ==
  /\ TypeOK /\ DropTypeOK
  /\ into \in [state : IntoState, leaf : PtrOrNone, index : Nat, length : 0..B,
               remaining : Nat]
  /\ yielded \in Item \cup {None}

IntoInit ==
  /\ Init /\ DropInit
  /\ into = [state |-> "none", leaf |-> None, index |-> 0, length |-> 0,
             remaining |-> 0]
  /\ yielded = None

-----------------------------------------------------------------------------
\* Mutant of IntoIter: iteration starts at the root.
IntoIterAtRoot ==
  /\ pc = "idle" /\ into.state = "none" /\ root # None
  /\ into' = [state |-> "open", leaf |-> root, index |-> 0,
              length |-> heap[root].length, remaining |-> size]
  /\ UNCHANGED <<vars, dropvars, yielded>>

\* IntoIterator::into_iter.
IntoIter ==
  /\ pc = "idle" /\ into.state = "none"
  /\ LET leaf == IF root = None THEN None ELSE LeafFor(heap, root, 0).leaf
     IN  into' = [state     |-> "open",
                  leaf      |-> leaf,
                  index     |-> 0,
                  length    |-> IF leaf = None THEN 0 ELSE heap[leaf].length,
                  remaining |-> size]
  /\ UNCHANGED <<vars, dropvars, yielded>>

\* Mutant of TakeRawChild: the leaf keeps its length.
TakeRawChildKeepsLength(h, leaf, i) == [h EXCEPT ![leaf].children[i] = None]

\* LeafNode::take_raw_child.
TakeRawChild(h, leaf, i) ==
  [h EXCEPT ![leaf].length = IF i < @ THEN i ELSE @,
            ![leaf].children[i] = None]

\* Mutant of TakeItem: the first item of a leaf is not counted.
TakeItemMiscounts(h, leaf, i, length) ==
  /\ into.remaining > 0
  /\ heap' = TakeRawChild(h, leaf, i)
  /\ yielded' = h[leaf].children[i]
  /\ into' = [into EXCEPT !.leaf = leaf, !.index = i + 1, !.length = length,
                          !.remaining = IF i = 0 THEN @ ELSE @ - 1]
  /\ UNCHANGED <<root, size, locals>>

\* The end of next: item i of a leaf of `length` items, in the heap h.
TakeItem(h, leaf, i, length) ==
  IF into.remaining = 0 \/ i \notin Position
  THEN Panic /\ UNCHANGED intovars
  ELSE /\ heap' = TakeRawChild(h, leaf, i)
       /\ yielded' = h[leaf].children[i]
       /\ into' = [into EXCEPT
                     !.state = IF h[leaf].children[i] = None
                               THEN "undefined" ELSE @,
                     !.leaf = leaf, !.index = i + 1, !.length = length,
                     !.remaining = @ - 1]
       /\ UNCHANGED <<root, size, locals>>

\* Mutant of IntoNext: the length of the leaf before is kept.
IntoNextStaleLength ==
  /\ into.state = "open" /\ into.leaf # None
  /\ IF into.index # into.length
     THEN TakeItem(heap, into.leaf, into.index, into.length)
     ELSE LET following == heap[into.leaf].next
          IN  following # None /\ TakeItem(heap, following, 0, into.length)
  /\ UNCHANGED dropvars

\* IntoIter::next.
IntoNext ==
  /\ pc = "idle" /\ into.state = "open"
  /\ LET following == heap[into.leaf].next
     IN  IF into.leaf = None
         THEN yielded' = None /\ UNCHANGED <<vars, into>>
         ELSE IF into.index # into.length
         THEN TakeItem(heap, into.leaf, into.index, into.length)
         ELSE IF following = None
         THEN /\ yielded' = None
              /\ into' = [into EXCEPT !.leaf = None]
              /\ UNCHANGED vars
         ELSE TakeItem([heap EXCEPT ![following].length = 0], following, 0,
                       heap[following].length)
  /\ UNCHANGED dropvars

-----------------------------------------------------------------------------
\* The iterator goes out of scope: IntoIter::drop begins.
DropIntoIter ==
  /\ pc = "idle" /\ into.state = "open"
  /\ into' = [into EXCEPT !.state = "draining"]
  /\ yielded' = None
  /\ UNCHANGED <<vars, dropvars>>

Draining == pc = "idle" /\ into.state = "draining"
MoreToDrain == into.leaf # None /\ into.index < into.length

\* One iteration of its loop: the next item of the current leaf is dropped.
\* If the destructor panics, the rest of the loop is left out.
DrainItem ==
  /\ Draining /\ MoreToDrain
  /\ heap' = TakeRawChild(heap, into.leaf, into.index)
  /\ dropped' = dropped + 1
  /\ \/ /\ into' = [into EXCEPT !.index = @ + 1,
                      !.state = IF heap[into.leaf].children[into.index] = None
                                THEN "undefined" ELSE @]
        /\ UNCHANGED unwinding
     \/ /\ into' = [into EXCEPT !.index = into.length]
        /\ unwinding' = TRUE
  /\ UNCHANGED <<root, size, locals, stack, yielded>>

\* Mutant of DropTree: what the iterator has not taken of its leaf is left.
DropTreeUndrained ==
  /\ pc = "idle"
  /\ into.state \in {"none", "draining"}
  /\ StartDestroy(root)
  /\ into' = [into EXCEPT !.state = "destroying"]
  /\ yielded' = None
  /\ root' = None /\ size' = 0
  /\ UNCHANGED <<dropped, unwinding>>

\* Mutant of DropTree: the drop of the iterator waits for items it has taken.
DropTreeStuck ==
  /\ pc = "idle"
  /\ into.state = "none" \/ (Draining /\ into.leaf = None)
  /\ StartDestroy(root)
  /\ into' = [into EXCEPT !.state = "destroying"]
  /\ yielded' = None
  /\ root' = None /\ size' = 0
  /\ UNCHANGED <<dropped, unwinding>>

\* The drop of the tree begins: of the field _tree, or of a BTreeVec that was
\* never iterated.  Only the calls of destroy know the root from here on.
DropTree ==
  /\ pc = "idle"
  /\ into.state = "none" \/ (Draining /\ ~ MoreToDrain)
  /\ StartDestroy(root)
  /\ into' = [into EXCEPT !.state = "destroying", !.leaf = None]
  /\ yielded' = None
  /\ root' = None /\ size' = 0
  /\ UNCHANGED <<dropped, unwinding>>

DropDone ==
  /\ pc = "idle" /\ into.state = "destroying" /\ stack = <<>>
  /\ into' = [into EXCEPT !.state = "gone"]
  /\ UNCHANGED <<vars, dropvars, yielded>>

\* A drop that has begun keeps running, like any call.
DropStep ==
  \/ DrainItem
  \/ Draining /\ DropTree
  \/ DestroyStep /\ UNCHANGED intovars
  \/ DropDone

IntoNextState ==
  \/ into.state = "none" /\ Next /\ UNCHANGED <<dropvars, intovars>>
  \/ IntoIter \/ IntoNext \/ DropIntoIter
  \/ into.state = "none" /\ DropTree
  \/ DropStep

IntoSpec ==
  /\ IntoInit /\ [][IntoNextState]_allvars
  /\ Fairness /\ WF_allvars(DropStep)

-----------------------------------------------------------------------------
\* next and IntoIter::drop never take an uninitialised slot for an item: "We
\* haven't taken the item at `index` yet" (lib.rs, the SAFETY comments of the
\* calls of assume_init).
NoUninitialisedRead == into.state # "undefined"

\* Every node is freed exactly once, wherever the iteration stopped: the nodes
\* the tree or the running calls of destroy still own are the allocated ones,
\* each owned once, and at the end there are none.  A destructor's panic may
\* leave nodes behind but never frees one twice.
NodesFreedOnce ==
  pc = "idle" =>
    LET owned == Preorder(heap, root) \o Pending
    IN  /\ IsInjective(owned)
        /\ ToSet(owned) \subseteq Allocated(heap)
        /\ ~ unwinding => ToSet(owned) = Allocated(heap)

\* The items that are still owned, by the structure that will release them:
\* the rest of the current leaf, the leaves after it; the pending leaves.
Left ==
  CASE into.state = "none" -> Items
    [] into.state \in {"open", "draining"} ->
         IF into.leaf = None THEN <<>>
         ELSE [k \in 1..(into.length - into.index) |->
                 heap[into.leaf].children[into.index + k - 1]]
              \o ItemsFrom(heap, heap[into.leaf].next)
    [] OTHER -> ItemsOf(heap, Pending)

\* size_hint of an IntoIter is exact, so that ExactSizeIterator is right.
SizeHintExact == into.state = "open" => into.remaining = Len(Left)

\* Every item leaves once and in order, to the caller or to its destructor.
Drain == INSTANCE DrainSpec WITH
           left     <- Left,
           panicked <- unwinding,
           phase <- CASE into.state = "none" -> "vector"
                      [] pc # "idle"         -> pc
                      [] into.state = "open" -> "iterating"
                      [] into.state \in {"draining", "destroying"} -> "dropping"
                      [] OTHER               -> into.state

ImplementsDrain == Drain!Spec

\* The recursion of destroy ends: each call frees its node.
DropEnds == Drain!DropEnds
=============================================================================
