----------------------------- MODULE BTreeClone ------------------------------
(***************************************************************************)
(* Clone for BTreeVec: clone_node (node/mod.rs) and the two clone_from     *)
(* (node/internal.rs, node/leaf.rs), and what becomes of the vector and    *)
(* its copy: calls on either, and the drop of either.                      *)
(*                                                                         *)
(* clone_node calls itself for each child, from the last to the first, and *)
(* hands the leaf that the next one is to be followed by from call to      *)
(* call.  Both trees are in one memory, as in the program, so that a       *)
(* pointer from one to the other shows.                                    *)
(***************************************************************************)
EXTENDS BTreeDrop

VARIABLES
  copyRoot,  \* `root` of the copy
  copySize,  \* `size` of the copy
  alive,     \* which of the two vectors there are
  clones,    \* the running calls of InternalNode's clone_from, outermost first
  nextLeaf,  \* the next_leaf they pass on
  leaked,    \* the nodes that panics of T::clone and T::drop left behind
  callee     \* the vector the running call is on

clonevars == <<copyRoot, copySize, alive, clones, nextLeaf, leaked, callee>>
allvars   == <<vars, dropvars, clonevars>>

Copy == INSTANCE BTreeVec WITH root <- copyRoot, size <- copySize

CloneInit ==
  /\ Init /\ DropInit
  /\ copyRoot = None /\ copySize = 0
  /\ alive = {"original"}
  /\ clones = <<>>
  /\ nextLeaf = None
  /\ leaked = {}
  /\ callee = "original"

\* Nothing is running.
Quiet == pc = "idle" /\ stack = <<>> /\ clones = <<>>

-----------------------------------------------------------------------------
\* Mutant of CloneLeaf: the leaf is the last one.
CloneLeafLast(n) ==
  [NewNode("leaf") EXCEPT
     !.length = heap[n].length,
     !.children = [j \in Position |->
        IF j < heap[n].length THEN heap[n].children[j] ELSE None]]

\* The clone of leaf n: LeafNode::clone_from.
CloneLeaf(n) ==
  [NewNode("leaf") EXCEPT
     !.length = heap[n].length,
     !.children = [j \in Position |->
        IF j < heap[n].length THEN heap[n].children[j] ELSE None],
     !.next = nextLeaf]

\* Mutant of HandOver: the parent of the node that was cloned is set.
HandOverReparents(h, calls, p, leaf) ==
  IF calls = <<>>
  THEN /\ heap' = h /\ clones' = <<>> /\ nextLeaf' = None
       /\ copyRoot' = p /\ copySize' = size
       /\ alive' = alive \cup {"copy"}
  ELSE LET call == Last(calls)
           i    == call.left - 1
       IN  /\ heap' = [h EXCEPT ![h[call.of].children[i]].parent = call.new,
                                ![call.new].children[i] = p]
           /\ clones' = Front(calls) \o <<[call EXCEPT !.left = i]>>
           /\ nextLeaf' = leaf
           /\ UNCHANGED <<copyRoot, copySize, alive>>

\* clone_node returns the new node p and a leaf.  The caller is one of `calls`,
\* which hangs p into its slot (without an index), or BTreeVec::clone.
HandOver(h, calls, p, leaf) ==
  IF calls = <<>>
  THEN /\ heap' = h /\ clones' = <<>> /\ nextLeaf' = None
       /\ copyRoot' = p /\ copySize' = size
       /\ alive' = alive \cup {"copy"}
  ELSE LET call == Last(calls)
           i    == call.left - 1
       IN  /\ heap' = [h EXCEPT ![p].parent = call.new,
                                ![call.new].children[i] = p]
           /\ clones' = Front(calls) \o <<[call EXCEPT !.left = i]>>
           /\ nextLeaf' = leaf
           /\ UNCHANGED <<copyRoot, copySize, alive>>

\* Mutant of CloneNode: a leaf is shared with the original.
CloneNodeShares(n) ==
  IF IsLeaf(heap, n) THEN HandOver(heap, clones, n, n)
  ELSE /\ Free(heap) # {}
       /\ heap' = Alloc(heap, Fresh(heap), "internal")
       /\ clones' = Append(clones, [of |-> n, new |-> Fresh(heap),
                                    left |-> heap[n].length])
       /\ UNCHANGED <<copyRoot, copySize, alive, nextLeaf>>

\* clone_node of n, up to the loop of clone_from if n is internal.  For a leaf
\* it returns node.as_ptr(): the address of n itself.
CloneNode(n) ==
  /\ Free(heap) # {}
  /\ LET new == Fresh(heap)
     IN  IF IsLeaf(heap, n)
         THEN HandOver([heap EXCEPT ![new] = CloneLeaf(n)], clones, new, n)
         ELSE /\ heap' = Alloc(heap, new, "internal")
              /\ clones' = Append(clones, [of |-> n, new |-> new,
                                           left |-> heap[n].length])
              /\ UNCHANGED <<copyRoot, copySize, alive, nextLeaf>>

\* The node the clone comes to next.  After a panic that leaked nodes no clone
\* begins: a bound on how many are leaked.
BeginsAt(n) == Quiet /\ alive = {"original"} /\ leaked = {} /\ n = root

\* Mutant of ComesTo: the children are cloned from the first on.
ComesToForward(n) ==
  /\ pc = "idle" /\ clones # <<>>
  /\ LET call == Last(clones)
     IN  /\ call.left > 0
         /\ n = heap[call.of].children[heap[call.of].length - call.left]

ComesTo(n) ==
  /\ pc = "idle" /\ clones # <<>>
  /\ LET call == Last(clones)
     IN  call.left > 0 /\ n = heap[call.of].children[call.left - 1]

\* BTreeVec::clone, and one iteration of the loop of clone_from.
CloneStep ==
  /\ \/ \E n \in Ptr : (BeginsAt(n) \/ ComesTo(n)) /\ CloneNode(n)
     \/ /\ BeginsAt(None)
        /\ alive' = {"original", "copy"}
        /\ UNCHANGED <<heap, copyRoot, copySize, clones, nextLeaf>>
  /\ UNCHANGED <<root, size, locals, dropvars, leaked, callee>>

\* Mutant of CloneEnd: the sizes are not copied.
CloneEndNoSizes ==
  /\ pc = "idle" /\ clones # <<>> /\ Last(clones).left = 0
  /\ LET call == Last(clones)
     IN  HandOver([heap EXCEPT ![call.new].length = heap[call.of].length],
                  Front(clones), call.new, nextLeaf)
  /\ UNCHANGED <<root, size, locals, dropvars, leaked, callee>>

\* The end of clone_from, with its expect.
CloneEnd ==
  /\ pc = "idle" /\ clones # <<>> /\ Last(clones).left = 0
  /\ LET call == Last(clones)
     IN  IF nextLeaf = None
         THEN Panic /\ UNCHANGED <<copyRoot, copySize, alive, clones, nextLeaf>>
         ELSE /\ HandOver([heap EXCEPT
                             ![call.new].length = heap[call.of].length,
                             ![call.new].sizes = heap[call.of].sizes],
                          Front(clones), call.new, nextLeaf)
              /\ UNCHANGED <<root, size, locals>>
  /\ UNCHANGED <<dropvars, leaked, callee>>

\* The nodes the running calls have made.
Built ==
  LET made[k \in Nat] ==
        IF k = 0 THEN <<>>
        ELSE LET call == clones[k]
             IN  made[k - 1] \o <<call.new>>
                 \o [i \in 1..(heap[call.of].length - call.left) |->
                       heap[call.new].children[call.left + i - 1]]
  IN  PreorderOf(heap, made[Len(clones)])

\* The allocation fails, or T::clone panics in a new leaf: nothing frees the
\* nodes that were made, as a NodeRef has no Drop.
CloneFails ==
  /\ \/ /\ Leave("aborted")
        /\ \E n \in Ptr : BeginsAt(n) \/ ComesTo(n)
        /\ UNCHANGED <<fields, clones, nextLeaf, leaked>>
     \/ /\ Free(heap) # {}
        /\ \E n \in Ptr : (BeginsAt(n) \/ ComesTo(n)) /\ IsLeaf(heap, n)
        /\ heap' = Alloc(heap, Fresh(heap), "leaf")
        /\ leaked' = ToSet(Built) \cup {Fresh(heap)}
        /\ clones' = <<>>
        /\ nextLeaf' = None
        /\ UNCHANGED <<root, size, locals>>
  /\ UNCHANGED <<dropvars, copyRoot, copySize, alive, callee>>

-----------------------------------------------------------------------------
\* A call on a vector, by the actions of BTreeVec, and the caller's next one.
On(v) ==
  /\ v \in alive /\ stack = <<>> /\ clones = <<>>
  /\ pc # "idle" => callee = v
  /\ callee' = v
  /\ UNCHANGED <<dropvars, alive, clones, nextLeaf, leaked>>

CallOriginal == On("original") /\ Next /\ UNCHANGED <<copyRoot, copySize>>

\* get and get_mut on the copy.
ReadCopy ==
  /\ On("copy")
  /\ \/ \E i \in 0..MaxSize :
          Copy!BeginGet(i) \/ \E x \in Item : Copy!BeginSet(i, x)
     \/ Copy!Descend \/ Copy!Get \/ Copy!Set \/ Copy!Return
  /\ UNCHANGED <<root, size>>

\* Any call on the copy.
CallCopy == On("copy") /\ Copy!Next /\ UNCHANGED <<root, size>>

\* A vector is dropped, while a panic of the other one's drop still unwinds or
\* after it was caught.
DropVec(v, r) ==
  /\ Quiet /\ v \in alive
  /\ StartDestroy(r)
  /\ alive' = alive \ {v}
  /\ unwinding' \in {unwinding, FALSE}
  /\ UNCHANGED <<dropped, clones, nextLeaf, leaked, callee>>

DropOriginal ==
  /\ DropVec("original", root)
  /\ root' = None /\ size' = 0
  /\ UNCHANGED <<copyRoot, copySize>>

DropCopy ==
  /\ DropVec("copy", copyRoot)
  /\ copyRoot' = None /\ copySize' = 0
  /\ UNCHANGED <<root, size>>

\* A step of a drop; what it leaves when an item's destructor panics is leaked.
DropOn ==
  /\ DestroyStep
  /\ leaked' = leaked \cup IF stack' = <<>> /\ heap' = heap
                          THEN ToSet(Pending) ELSE {}
  /\ UNCHANGED <<copyRoot, copySize, alive, clones, nextLeaf, callee>>

LifeOfBoth ==
  \/ CloneStep \/ CloneEnd \/ CloneFails
  \/ CallOriginal
  \/ DropOriginal \/ DropCopy
  \/ DropOn

\* The copy is read, as the crate's test does.
CloneSpec == CloneInit /\ [][LifeOfBoth \/ ReadCopy]_allvars

\* The copy is used like any vector.
CloneUseSpec == CloneInit /\ [][LifeOfBoth \/ CallCopy]_allvars

-----------------------------------------------------------------------------
\* The two trees share no node, also while one is being built or taken apart:
\* every allocated node is owned once.  Only a panic of the caller's T::clone
\* or T::drop leaves nodes that nobody owns, and those are no node of either.
OwnedApart ==
  pc # "panicked" =>
    LET owned == Preorder(heap, Top) \o Preorder(heap, split)
                 \o Preorder(heap, copyRoot) \o Built \o Pending
    IN  /\ IsInjective(owned)
        /\ ToSet(owned) \cap leaked = {}
        /\ ToSet(owned) \cup leaked \subseteq Allocated(heap)
        /\ pc # "aborted" => ToSet(owned) \cup leaked = Allocated(heap)

\* clone takes &self: no step of it writes to a node of the original, and
\* neither does its failure.
OriginalUntouched ==
  [][CloneStep \/ CloneEnd \/ CloneFails =>
       \A p \in ToSet(Preorder(heap, root)) : heap'[p] = heap[p]]_allvars

\* When clone returns, iterating over the copy yields the original's items
\* (the test "clone" in tests.rs, for every shape of tree).
CloneReadsEqual ==
  [][alive = {"original"} /\ "copy" \in alive' =>
       ItemsFrom(heap, FirstLeaf(heap, copyRoot))' = Items']_allvars

\* The copy as get reads it, by the sizes in its nodes.
CopyItems ==
  [k \in 1..copySize |->
     LET place == LeafFor(heap, copyRoot, k - 1)
     IN  heap[place.leaf].children[place.index]]

\* Read through get, the copy is equal to the original and independent of it:
\* calls on the original, its drop included, leave the copy as it was, and the
\* other way round.
Pair == INSTANCE PairSpec WITH
          vec  <- IF "original" \in alive THEN Items ELSE None,
          copy <- IF "copy" \in alive THEN CopyItems ELSE None

ImplementsPair == Pair!Spec

\* iter of the copy "returns references to each item in the vector" (lib.rs):
\* the items its leaf list leads to are those that get finds.
CopyIterates ==
  Quiet /\ "copy" \in alive =>
    ItemsFrom(heap, FirstLeaf(heap, copyRoot)) = CopyItems
=============================================================================
