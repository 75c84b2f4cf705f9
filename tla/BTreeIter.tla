----------------------------- MODULE BTreeIter ------------------------------
(***************************************************************************)
(* Iter and IterMut of src/src/lib.rs over a BTreeVec.  The two run the    *)
(* same steps on references of a different kind.  next follows the leaf    *)
(* list; nth climbs and descends by `sizes`; both leave the iterator at a  *)
(* leaf and an index in it.  An iterator borrows the vector: no call       *)
(* changes it until the iterator is gone.                                  *)
(***************************************************************************)
EXTENDS BTreeShape

CONSTANT
  MaxSkip   \* bound of the model on the argument of nth

ASSUME MaxSkipAssumption == MaxSkip \in Nat

VARIABLES
  iter,     \* the iterator: its fields, and whether there is one
  yielded   \* what its last call returned, None after Option::None

itervars == <<iter, yielded>>

NoIter == [state |-> "closed", leaf |-> None, index |-> 0, remaining |-> 0]
Iter == [state : {"closed", "open", "panicked"},
         leaf : PtrOrNone, index : Nat, remaining : Nat]

IterTypeOK == TypeOK /\ iter \in Iter /\ yielded \in Item \cup {None}

IterInit == Init /\ iter = NoIter /\ yielded = None

-----------------------------------------------------------------------------
NoPlace == Place(None, 0)

\* The loop of nth at internal node p: n items on from the start of child
\* `from`, in this node or further up and to the right.
NthAbove(h, p, from, n) ==
  LET above[at \in [node : {q \in Ptr : IsInternal(h, q)}, from : 0..B, n : Nat]] ==
        LET q    == at.node
            sums == PrefixSums(h[q].sizes)
            goal == sums[at.from] + at.n
            len  == h[q].length
        IN  IF goal < sums[len]
            THEN LET k == CHOOSE k \in at.from..(len - 1) :
                            sums[k] <= goal /\ goal < sums[k + 1]
                 IN  LeafFor(h, h[q].children[k], goal - sums[k])
            ELSE IF h[q].parent = None THEN NoPlace
            ELSE above[[node |-> h[q].parent, from |-> h[q].index + 1,
                        n |-> goal - sums[len]]]
  IN  above[[node |-> p, from |-> from, n |-> n]]

\* Mutant of NthPlace: the climb starts at the leaf it comes from.
NthPlaceAgain(h, leaf, i, n) ==
  LET rest == h[leaf].length - i
  IN  IF n < rest THEN Place(leaf, i + n)
      ELSE IF h[leaf].parent = None THEN NoPlace
      ELSE NthAbove(h, h[leaf].parent, h[leaf].index, n - rest)

\* nth: the place n items on from place `index` of `leaf`, or None.
NthPlace(h, leaf, i, n) ==
  LET rest == h[leaf].length - i
  IN  IF n < rest THEN Place(leaf, i + n)
      ELSE IF h[leaf].parent = None THEN NoPlace
      ELSE NthAbove(h, h[leaf].parent, h[leaf].index + 1, n - rest)

-----------------------------------------------------------------------------
\* Mutant of OpenIter: the iterator starts at the root instead of a leaf.
OpenIterAtRoot ==
  /\ pc = "idle" /\ iter.state = "closed"
  /\ iter' = [state |-> "open", leaf |-> root, index |-> 0, remaining |-> size]
  /\ yielded' = None
  /\ UNCHANGED vars

\* BTreeVec::iter and iter_mut.
OpenIter ==
  /\ pc = "idle" /\ iter.state = "closed"
  /\ iter' = [state     |-> "open",
              leaf      |-> IF root = None THEN None
                            ELSE LeafFor(heap, root, 0).leaf,
              index     |-> 0,
              remaining |-> size]
  /\ yielded' = None
  /\ UNCHANGED vars

\* The iterator goes out of scope.
CloseIter ==
  /\ iter.state = "open"
  /\ iter' = NoIter
  /\ yielded' = None
  /\ UNCHANGED vars

IterPanic == iter' = [NoIter EXCEPT !.state = "panicked"] /\ yielded' = None

\* The end of next and of nth: the item at a place, with `remaining` counted
\* down by `used`.  Both index a slice of the leaf's initialised items.
Yield(place, used) ==
  IF used > iter.remaining \/ place.index >= heap[place.leaf].length
  THEN IterPanic
  ELSE /\ iter' = [state |-> "open", leaf |-> place.leaf,
                   index |-> place.index + 1,
                   remaining |-> iter.remaining - used]
       /\ yielded' = heap[place.leaf].children[place.index]

\* Mutant of IterNext: the index of the last leaf is kept in the next one.
IterNextKeepsIndex ==
  /\ iter.state = "open" /\ iter.leaf # None
  /\ IF iter.index # heap[iter.leaf].length
     THEN Yield(Place(iter.leaf, iter.index), 1)
     ELSE IF heap[iter.leaf].next = None
     THEN yielded' = None /\ UNCHANGED iter
     ELSE Yield(Place(heap[iter.leaf].next, iter.index), 1)
  /\ UNCHANGED vars

\* Iterator::next.
IterNext ==
  /\ iter.state = "open"
  /\ IF iter.leaf = None
     THEN yielded' = None /\ UNCHANGED iter
     ELSE IF iter.index # heap[iter.leaf].length
     THEN Yield(Place(iter.leaf, iter.index), 1)
     ELSE LET following == heap[iter.leaf].next
          IN  IF following = None
              THEN yielded' = None /\ iter' = [iter EXCEPT !.leaf = None]
              ELSE Yield(Place(following, 0), 1)
  /\ UNCHANGED vars

\* Mutant of IterNth: the items skipped are not counted.
IterNthCountsOne(n) ==
  /\ iter.state = "open" /\ iter.leaf # None
  /\ LET place == NthPlace(heap, iter.leaf, iter.index, n)
     IN  place # NoPlace /\ Yield(place, 1)
  /\ UNCHANGED vars

\* Iterator::nth.
IterNth(n) ==
  /\ iter.state = "open"
  /\ LET place == IF iter.leaf = None THEN NoPlace
                  ELSE NthPlace(heap, iter.leaf, iter.index, n)
     IN  IF place = NoPlace
         THEN /\ yielded' = None
              /\ iter' = [iter EXCEPT !.leaf = None, !.remaining = 0]
         ELSE Yield(place, n + 1)
  /\ UNCHANGED vars

IterNextState ==
  \/ iter.state = "closed" /\ Next /\ UNCHANGED itervars
  \/ OpenIter \/ CloseIter \/ IterNext
  \/ \E n \in 0..MaxSkip : IterNth(n)

IterSpecification == IterInit /\ [][IterNextState]_<<vars, itervars>>

-----------------------------------------------------------------------------
\* next and nth never panic: the leaf an iterator is at, or comes to, has the
\* item that `remaining` promises (Iter::next and IterMut::next index
\* children()[index] without a check of their own).
NoIterPanic == iter.state # "panicked"

\* The two ways of moving agree: the items of the leaf list that an iterator
\* has passed, counted leaf by leaf up to (leaf, index), and the ones it has
\* left, `remaining`, make up the vector.
IterPlaceExact ==
  iter.state = "open" /\ iter.leaf # None =>
    LET rest == ItemsFrom(heap, iter.leaf)
    IN  /\ iter.index <= heap[iter.leaf].length
        /\ iter.remaining = Len(rest) - iter.index

\* iter yields every item of the vector once and in order, and nth skips what
\* its doc says, then both return None for good (FusedIterator).
It == INSTANCE IterSpec WITH
        vec  <- Items,
        open <- iter.state = "open",
        at   <- IF iter.state = "open" THEN size - iter.remaining ELSE 0

ImplementsIter == It!Spec
=============================================================================
