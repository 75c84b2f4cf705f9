-------------------------- MODULE BTreeLinkedProofs --------------------------
(***************************************************************************)
(* BTreeVec keeps its nodes linked into one tree and every slot that       *)
(* counts initialised, for every B >= 3, every set of items and addresses  *)
(* and every bound MaxSize: each action of BTreeVec preserves TreeInv.     *)
(* For B >= 4 it also keeps the nodes filled, as long as no check of the   *)
(* code has failed.                                                        *)
(***************************************************************************)
EXTENDS BTreeTreeProofs

USE NodeAssumption DEF Position

-----------------------------------------------------------------------------
(***************************************************************************)
(* The shapes a step can have.                                             *)
(***************************************************************************)

\* Heights for the heap of the next state are enough.
LEMMA TreeStep ==
  ASSUME NEW lev, Tree(heap', lev),
         split' # None => /\ Inserting'
                          /\ split' \in Roots(heap')
                          /\ split' # node' /\ split' # Top'
                          /\ lev[split'] = lev[node'],
         HeldOK', ~ Ended' => RootsOK' /\ RemovalOK' /\ NonEmpty'
  PROVE  TreeInv'
<1>1. lev \in [Ptr -> Nat]
  BY DEF Tree
<1>2. (Tree(heap, lev) /\ SplitOK(lev))'
  BY DEF SplitOK
<1> QED
  BY <1>1, <1>2 DEF TreeInv, TreeInvAt

\* The end of a call on one whole tree.
LEMMA LeaveTree ==
  ASSUME Leave("idle"), NEW lev, Tree(heap', lev), root' \in PtrOrNone,
         Roots(heap') = {root'} \ {None},
         \A p \in Allocated(heap') : IsInternal(heap', p) => heap'[p].length >= 1
  PROVE  TreeInv'
<1>1. /\ pc' = "idle" /\ pc' # "seek" /\ split' = None
      /\ ~ Inserting' /\ ~ Removing'
  BY DEF Leave, Inserting, Removing
<1>2. root' # None => root' \in Allocated(heap') /\ heap'[root'].parent = None
  BY DEF Roots
<1>3. RootsOK'
  BY <1>1, <1>2 DEF RootsOK, Top
<1>4. RemovalOK' /\ NonEmpty'
  BY <1>1 DEF RemovalOK, NonEmpty
<1> QED
  BY <1>1, <1>3, <1>4, TreeStep DEF HeldOK

\* The end of the program, or of a call that a failed check unwinds.
LEMMA EndTree ==
  ASSUME NEW where \in {"aborted", "panicked"}, Leave(where), NEW lev,
         Tree(heap', lev)
  PROVE  TreeInv'
<1>1. split' = None /\ Ended' /\ HeldOK'
  BY DEF Leave, Ended, HeldOK
<1> QED
  BY <1>1, TreeStep

\* A failing check.
LEMMA PanicTree == TreeInv /\ Panic => TreeInv'
<1> SUFFICES ASSUME TreeInv, Panic PROVE TreeInv'
  OBVIOUS
<1>1. PICK lev \in [Ptr -> Nat] : Tree(heap, lev)
  BY DEF TreeInv, TreeInvAt
<1>2. Tree(heap', lev)
  BY <1>1 DEF Panic, fields
<1> QED
  BY <1>2, EndTree DEF Panic

\* Outside the climb of insert there is one tree and `root` is its root.
OneTree(lev) ==
  /\ Tree(heap, lev)
  /\ split = None
  /\ Roots(heap) = {root} \ {None}
  /\ root # None => root \in Allocated(heap) /\ heap[root].parent = None

\* TreeInv gives such a height for each node outside the climb of insert.
LEMMA OneTreeThen ==
  ASSUME TypeInv, TreeInv, ~ Inserting, ~ Ended
  PROVE  \E lev \in [Ptr -> Nat] : OneTree(lev)
<1>1. PICK lev \in [Ptr -> Nat] : Tree(heap, lev) /\ SplitOK(lev)
  BY DEF TreeInv, TreeInvAt
<1>2. split = None /\ RootsOK
  BY <1>1 DEF SplitOK, TreeInv, TreeInvAt
<1>3. root # None => root \in Allocated(heap) /\ heap[root].parent = None
  BY <1>2 DEF RootsOK
<1>4. Top = root
  BY <1>3 DEF Top
<1>5. Roots(heap) = {root} \ {None}
  BY <1>2, <1>4 DEF RootsOK
<1> QED
  BY <1>1, <1>2, <1>3, <1>5 DEF OneTree

-----------------------------------------------------------------------------
\* The empty vector.
LEMMA InitTreeInv == Init => TreeInv
<1> SUFFICES ASSUME Init PROVE TreeInv
  OBVIOUS
<1> DEFINE lev == [p \in Ptr |-> 0]
<1>1. \A p \in Ptr : heap[p].kind = "free"
  BY DEF Init, NewNode
<1>2. Allocated(heap) = {}
  BY <1>1 DEF Allocated
<1>3. lev \in [Ptr -> Nat] /\ Tree(heap, lev)
  BY <1>2 DEF Tree
<1> HIDE DEF lev
<1>4. SplitOK(lev)
  BY DEF SplitOK, Init
<1>5. RootsOK /\ RemovalOK /\ NonEmpty
  BY <1>2 DEF Init, RootsOK, RemovalOK, NonEmpty, Roots, Top, Removing
<1> QED
  BY <1>3, <1>4, <1>5 DEF TreeInv, TreeInvAt, HeldOK, Init

-----------------------------------------------------------------------------
(***************************************************************************)
(* The starts of calls, leaf_for, get and get_mut.                         *)
(***************************************************************************)

\* A step that goes on reading: the tree is as it was, or one of its leaves
\* was written.
LEMMA ReadTree ==
  ASSUME TreeInv, NEW lev, OneTree(lev), ~ Inserting, ~ Removing, ~ Ended,
         pc' \in {"seek", "return"}, split' = None, root' = root,
         pc' = "seek" => node' \in Allocated(heap'),
         HeldOK', LeavesEdited(heap, heap'), heap \in Heap
  PROVE  TreeInv'
<1>1. /\ Tree(heap', lev) /\ Allocated(heap') = Allocated(heap)
      /\ Roots(heap') = Roots(heap)
  BY LeavesEditedTree DEF OneTree
<1>2. ~ Inserting' /\ ~ Removing' /\ ~ IsEmptied(root)
  BY DEF Inserting, Removing, IsEmptied
<1>3. root' # None => root' \in Allocated(heap') /\ heap'[root'].parent = None
  BY <1>1 DEF OneTree, Roots
<1>4. RootsOK'
  BY <1>1, <1>2, <1>3 DEF RootsOK, Top, OneTree
<1>5. RemovalOK'
  BY <1>2 DEF RemovalOK
<1>6. NonEmpty'
  <2>1. ASSUME NEW p \in Allocated(heap'), IsInternal(heap', p)
        PROVE  heap'[p].length >= 1
    <3>1. p \in Ptr /\ p \in Allocated(heap) /\ IsInternal(heap, p)
          /\ heap'[p].length = heap[p].length
      BY <1>1, <2>1 DEF LeavesEdited, Allocated, IsInternal, IsLeaf
    <3> QED
      BY <3>1 DEF NonEmpty, IsEmptied, TreeInv, TreeInvAt
  <2> QED
    BY <2>1 DEF NonEmpty
<1> QED
  BY <1>1, <1>4, <1>5, <1>6, TreeStep

\* The same, with the heap untouched.
LEMMA ReadOnlyTree ==
  ASSUME TypeInv, TreeInv, NEW lev, OneTree(lev), ~ Inserting, ~ Removing, ~ Ended,
         pc' \in {"seek", "return"}, split' = None, UNCHANGED fields,
         HeldOK', pc' = "seek" => node' \in Allocated(heap)
  PROVE  TreeInv'
<1>1. heap' = heap /\ root' = root /\ heap \in Heap
  BY DEF fields, TypeInv, TypeOK
<1>2. LeavesEdited(heap, heap')
  <2>1. ASSUME NEW p \in Ptr, IsLeaf(heap, p)
        PROVE  \A i \in Position :
                 i < heap[p].length => heap[p].children[i] \in Item
    BY <2>1 DEF OneTree, Tree, SlotsOK, Allocated, IsLeaf
  <2> QED
    BY <1>1, <2>1 DEF LeavesEdited
<1> QED
  BY <1>1, <1>2, ReadTree

\* insert, remove, get and get_mut up to leaf_for.
LEMMA BeginTree == TypeInv /\ TreeInv /\ Begin => TreeInv'
<1> SUFFICES ASSUME TypeInv, TreeInv, NEW i \in 0..MaxSize,
                    \/ \E x \in Item : BeginInsert(i, x) \/ BeginSet(i, x)
                    \/ BeginRemove(i)
                    \/ BeginGet(i)
             PROVE  TreeInv'
  BY DEF Begin
<1>1. pc = "idle" /\ pc' = "seek" /\ split' = split
  BY DEF BeginInsert, BeginSet, BeginRemove, BeginGet, Enter
<1>2. ~ Inserting /\ ~ Removing /\ ~ Ended /\ heap \in Heap /\ root \in PtrOrNone
  BY <1>1 DEF Inserting, Removing, Ended, TypeInv, TypeOK
<1>3. PICK lev \in [Ptr -> Nat] : OneTree(lev)
  BY <1>2, OneTreeThen
<1>0. HeldOK'
  BY DEF HeldOK, BeginInsert, BeginSet, BeginRemove, BeginGet, Enter
<1>4. CASE UNCHANGED fields /\ node' = root /\ root # None
  BY <1>0, <1>1, <1>2, <1>3, <1>4, ReadOnlyTree DEF OneTree
<1>5. CASE \E x \in Item : BeginInsert(i, x)
  <2>1. CASE root # None
    BY <1>4, <1>5, <2>1 DEF BeginInsert
  <2>2. CASE root = None
    <3> DEFINE new == Fresh(heap)
               lev2 == [lev EXCEPT ![new] = 0]
    <3>1. /\ Free(heap) # {} /\ heap' = Alloc(heap, new, "leaf")
          /\ root' = new /\ node' = new
      BY <1>5, <2>2 DEF BeginInsert
    <3>2. new \in Free(heap)
      BY <3>1 DEF Fresh, Free
    <3>3. new \in Ptr /\ new # None
      BY <3>2 DEF Free
    <3> HIDE DEF new
    <3>4. /\ Tree(heap', lev2)
          /\ Allocated(heap') = Allocated(heap) \cup {new}
          /\ Roots(heap') = Roots(heap) \cup {new}
          /\ heap'[new] = NewNode("leaf")
          /\ \A p \in Ptr : p # new => heap'[p] = heap[p]
      <4> DEFINE g == Alloc(heap, new, "leaf")
      <4>1. Tree(heap, lev) /\ 0 \in Nat /\ "leaf" \in {"leaf", "internal"}
        BY <1>3 DEF OneTree
      <4>2. /\ Tree(g, lev2)
            /\ Allocated(g) = Allocated(heap) \cup {new}
            /\ Roots(g) = Roots(heap) \cup {new}
            /\ g[new] = NewNode("leaf")
            /\ \A p \in Ptr : p # new => g[p] = heap[p]
        BY <1>2, <3>2, <4>1, AllocTree
      <4> QED
        BY <3>1, <4>2
    <3> HIDE DEF lev2
    <3>5. Roots(heap') = {new} /\ split' = None /\ heap'[new].parent = None
          /\ new \in Allocated(heap')
      BY <1>1, <1>3, <2>2, <3>3, <3>4 DEF OneTree, Roots
    <3>6. ~ Inserting' /\ ~ Removing'
      BY <1>1 DEF Inserting, Removing
    <3>7. RootsOK'
      BY <3>1, <3>3, <3>5, <3>6 DEF RootsOK, Top
    <3>8. NonEmpty'
      <4>1. ASSUME NEW p \in Allocated(heap'), IsInternal(heap', p)
            PROVE  heap'[p].length >= 1
        <5>1. p # new
          BY <3>4, <4>1 DEF IsInternal, NewNode
        <5>2. p \in Ptr /\ p \in Allocated(heap) /\ heap'[p] = heap[p]
          BY <3>4, <5>1 DEF Allocated
        <5> QED
          BY <1>2, <4>1, <5>2 DEF NonEmpty, IsEmptied, TreeInv, TreeInvAt, IsInternal
      <4> QED
        BY <4>1 DEF NonEmpty
    <3>9. RemovalOK'
      BY <3>6 DEF RemovalOK
    <3> QED
      BY <1>0, <3>4, <3>5, <3>7, <3>8, <3>9, TreeStep
  <2> QED
    BY <2>1, <2>2
<1>6. CASE (\E x \in Item : BeginSet(i, x)) \/ BeginRemove(i) \/ BeginGet(i)
  <2>1. UNCHANGED fields /\ node' = root /\ i < size
    BY <1>6 DEF BeginSet, BeginRemove, BeginGet
  <2>2. root # None
    BY <2>1 DEF TypeInv, TypeOK, CallOK
  <2> QED
    BY <1>4, <2>1, <2>2
<1> QED
  BY <1>5, <1>6

\* leaf_for goes from a node to one of its children.
LEMMA DescendTree == TypeInv /\ TreeInv /\ Descend => TreeInv'
<1> SUFFICES ASSUME TypeInv, TreeInv, Descend PROVE TreeInv'
  OBVIOUS
<1> DEFINE i == ChildFor(heap, node, index)
<1>1. pc = "seek" /\ node \in Ptr /\ heap \in Heap /\ index \in Nat
      /\ IsInternal(heap, node)
  BY DEF Descend, TypeInv, TypeOK, CallOK
<1>2. ~ Inserting /\ ~ Removing /\ ~ Ended
  BY <1>1 DEF Inserting, Removing, Ended
<1>3. PICK lev \in [Ptr -> Nat] : OneTree(lev)
  BY <1>2, OneTreeThen
<1>4. CASE heap[node].length = 0 \/ ChildPtr(heap, node, i) \notin Ptr
  BY <1>4, PanicTree DEF Descend
<1>5. CASE heap[node].length # 0 /\ ChildPtr(heap, node, i) \in Ptr
  <2>1. i \in 0..(heap[node].length - 1)
    BY <1>1, <1>5, ChildForType
  <2>2. /\ node' = heap[node].children[i]
        /\ UNCHANGED <<fields, request, pc, held, split, removal>>
    BY <1>5 DEF Descend
  <2> HIDE DEF i
  <2>3. heap[node].length \in 0..B
    BY <1>1, FieldTypes
  <2>4. i \in Nat /\ i < heap[node].length
    BY <2>1, <2>3
  <2>5. node \in Allocated(heap)
    BY <1>1 DEF Allocated, IsInternal
  <2>6. node' \in Allocated(heap)
    BY <1>1, <1>3, <2>2, <2>4, <2>5, ChildOf DEF OneTree
  <2> QED
    BY <1>1, <1>2, <1>3, <2>2, <2>6, ReadOnlyTree DEF OneTree, TreeInv, TreeInvAt, HeldOK
<1> QED
  BY <1>4, <1>5

\* get and get_mut at the leaf: what they write is an item.
LEMMA AccessTree == TypeInv /\ TreeInv /\ (Get \/ Set \/ Return) => TreeInv'
<1> SUFFICES ASSUME TypeInv, TreeInv, Get \/ Set \/ Return PROVE TreeInv'
  OBVIOUS
<1>1. ~ Inserting /\ ~ Removing /\ ~ Ended /\ heap \in Heap
  BY DEF Get, Set, Return, AtLeaf, Inserting, Removing, Ended, TypeInv, TypeOK
<1>2. PICK lev \in [Ptr -> Nat] : OneTree(lev)
  BY <1>1, OneTreeThen
<1>3. CASE Get
  <2>1. CASE index < heap[node].length
    <3>1. pc' = "return" /\ UNCHANGED fields /\ split' = split
      BY <1>3, <2>1 DEF Get
    <3> QED
      BY <1>1, <1>2, <3>1, ReadOnlyTree DEF OneTree, HeldOK
  <2> QED
    BY <1>3, <2>1, PanicTree DEF Get
<1>4. CASE Return
  <2>1. Leave("idle") /\ heap' = heap /\ root' = root
    BY <1>4 DEF Return, fields
  <2>2. \A p \in Allocated(heap) : IsInternal(heap, p) => heap[p].length >= 1
    BY <1>1 DEF TreeInv, TreeInvAt, NonEmpty, IsEmptied
  <2>3. root' \in PtrOrNone
    BY <2>1 DEF TypeInv, TypeOK
  <2> QED
    BY <1>2, <2>1, <2>2, <2>3, LeaveTree DEF OneTree
<1>5. CASE Set
  <2>1. CASE index < heap[node].length
    <3> DEFINE ch == [heap[node].children EXCEPT ![index] = held]
    <3>1. /\ heap' = [heap EXCEPT ![node].children[index] = held]
          /\ pc' = "return" /\ root' = root /\ split' = split
          /\ AtLeaf("set")
      BY <1>5, <2>1 DEF Set
    <3>2. /\ node \in Ptr /\ IsLeaf(heap, node) /\ held \in Item
          /\ index \in Nat
      BY <3>1 DEF AtLeaf, TypeInv, TypeOK, CallOK, TreeInv, TreeInvAt, HeldOK
    <3>3. node \in Allocated(heap)
      BY <3>2 DEF Allocated, IsLeaf
    <3>4. /\ heap[node] \in Node /\ heap[node].length \in 0..B
          /\ heap[node].children \in [Position -> Slot]
      BY <1>1, <3>2, FieldTypes DEF Heap
    <3>5. LeafPut(heap, heap', node, ch, heap[node].length)
      <4>1. heap' = [heap EXCEPT ![node] = [heap[node] EXCEPT !.children = ch]]
        BY <3>1
      <4> HIDE DEF ch
      <4>2. heap'[node] = [heap[node] EXCEPT !.children = ch]
        BY <1>1, <3>2, <4>1 DEF Heap
      <4>3. \A p \in Ptr : p # node => heap'[p] = heap[p]
        BY <1>1, <4>1 DEF Heap
      <4> QED
        BY <3>4, <4>2, <4>3 DEF LeafPut, Node
    <3>6. HoldsItems(ch, heap[node].length)
      <4>1. \A j \in Position : j < heap[node].length => heap[node].children[j] \in Item
        BY <1>2, <3>2, <3>3 DEF OneTree, Tree, SlotsOK
      <4> QED
        BY <3>2, <3>4, <4>1 DEF HoldsItems
    <3> HIDE DEF ch
    <3>7. LeavesEdited(heap, heap')
      BY <1>1, <1>2, <3>2, <3>3, <3>5, <3>6, LeafPutEdits DEF OneTree
    <3> QED
      BY <1>1, <1>2, <3>1, <3>7, ReadTree DEF OneTree, HeldOK
  <2> QED
    BY <1>5, <2>1, PanicTree DEF Set
<1> QED
  BY <1>3, <1>4, <1>5

-----------------------------------------------------------------------------
(***************************************************************************)
(* insert.                                                                 *)
(***************************************************************************)

\* A heap in which the climb of insert has linked all but one half: `top` is
\* the root, slot the entry that goes into n.
Linking(h, lev, n, slot, top) ==
  /\ h \in Heap /\ Tree(h, lev)
  /\ n \in Allocated(h)
  /\ Roots(h) \ {slot} = {top} \ {None}
  /\ top # None => top # slot
  /\ \A p \in Allocated(h) : IsInternal(h, p) /\ p # n => h[p].length >= 1

\* insert_once in a climb that `root` is the root of.
LEMMA InsertedStep ==
  ASSUME NEW h, NEW lev, NEW n, NEW slot, Linking(h, lev, n, slot, root),
         root \in PtrOrNone, NEW new, NEW r,
         h[n].length = B => new \in Free(h),
         InsertedOnce(h, r, lev, n, slot, new),
         heap' = r.heap, split' = r.split, node' = n, root' = root,
         Inserting', ~ Ended', TypeInv'
  PROVE  TreeInv'
<1>0. /\ h \in Heap /\ Tree(h, lev) /\ n \in Allocated(h)
      /\ Roots(h) \ {slot} = {root} \ {None}
      /\ root # None => root # slot
      /\ \A p \in Allocated(h) : IsInternal(h, p) /\ p # n => h[p].length >= 1
  BY DEF Linking
<1>1. n \in Ptr /\ n # None /\ h[n].length \in 0..B
      /\ MinLength \in Nat /\ MinLength >= 1
  BY <1>0, Kinds DEF MinLength
<1>2. HeldOK' /\ RemovalOK' /\ ~ Removing'
  BY DEF HeldOK, RemovalOK, Inserting, Removing
<1>3. root # None => root \in Roots(h) /\ root \in Allocated(h)
  BY <1>0 DEF Roots
<1>4. CASE h[n].length < B
  <2>1. /\ split' = None /\ Tree(heap', lev) /\ Allocated(heap') = Allocated(h)
        /\ Roots(heap') = {root} \ {None}
        /\ \A p \in Ptr : heap'[p].length = h[p].length + (IF p = n THEN 1 ELSE 0)
        /\ Spares(h, heap', lev, lev[n])
    BY <1>0, <1>4 DEF InsertedOnce, Inserted
  <2>2. root' # None => root' \in Allocated(heap') /\ heap'[root'].parent = None
    BY <2>1 DEF Roots
  <2>3. RootsOK'
    BY <1>0, <2>1, <2>2 DEF RootsOK, Top
  <2>4. NonEmpty'
    <3>1. ASSUME NEW p \in Allocated(heap'), IsInternal(heap', p)
          PROVE  heap'[p].length >= 1
      <4>1. /\ p \in Ptr /\ p \in Allocated(h) /\ IsInternal(h, p)
            /\ heap'[p].length = h[p].length + (IF p = n THEN 1 ELSE 0)
            /\ h[p].length \in 0..B
        BY <1>0, <2>1, <3>1, FieldTypes DEF Spares, Allocated, IsInternal
      <4>2. p # n => h[p].length >= 1
        BY <1>0, <4>1
      <4> QED
        BY <4>1, <4>2
    <3> QED
      BY <3>1 DEF NonEmpty
  <2> QED
    BY <1>2, <2>1, <2>3, <2>4, TreeStep
<1>5. CASE ~ (h[n].length < B)
  <2> DEFINE lev2 == Beside(lev, n, new)
  <2>1. h[n].length = B /\ new \in Ptr /\ new \notin Allocated(h) /\ new # None
    BY <1>1, <1>5 DEF Free, Allocated
  <2>2. /\ split' = new /\ Tree(heap', lev2)
        /\ Allocated(heap') = Allocated(h) \cup {new}
        /\ Roots(heap') = ({root} \ {None}) \cup {new}
        /\ \A p \in Allocated(heap') : IF p \in {n, new}
                                       THEN heap'[p].length >= MinLength
                                       ELSE heap'[p].length = h[p].length
    BY <1>0, <1>5 DEF InsertedOnce
  <2>3. /\ \A p \in Ptr : p # new => lev2[p] = lev[p]
        /\ lev2[new] = lev[n]
    BY <1>0, <2>1 DEF Tree, Beside
  <2> HIDE DEF lev2
  <2>4. root' # None => root' \in Allocated(heap') /\ heap'[root'].parent = None
    BY <2>2 DEF Roots
  <2>5. root' # new /\ Top' = root'
    BY <1>3, <2>1, <2>4 DEF Top
  <2>6. RootsOK'
    BY <1>0, <2>1, <2>2, <2>4, <2>5 DEF RootsOK
  <2>7. /\ split' \in Roots(heap') /\ split' # node' /\ split' # Top'
        /\ lev2[split'] = lev2[node']
    BY <1>0, <1>1, <2>1, <2>2, <2>3, <2>5
  <2>8. NonEmpty'
    <3>1. ASSUME NEW p \in Allocated(heap'), IsInternal(heap', p)
          PROVE  heap'[p].length >= 1
      <4>1. CASE p \in {n, new}
        <5>1. heap'[p].length >= MinLength
          BY <2>2, <4>1
        <5>2. heap' \in Heap
          BY DEF TypeInv, TypeOK
        <5>3. heap'[p].length \in Nat
          BY <5>2, FieldTypes DEF Allocated
        <5> QED
          BY <1>1, <5>1, <5>3
      <4>2. CASE p \notin {n, new}
        <5>1. /\ p \in Ptr /\ p \in Allocated(h)
              /\ heap'[p].length = h[p].length /\ lev2[p] = lev[p]
          BY <2>2, <2>3, <4>2 DEF Allocated
        <5>2. IsInternal(h, p)
          <6>1. ~ IsLeaf(heap', p)
            BY <3>1 DEF IsLeaf, IsInternal
          <6>2. lev2[p] # 0
            BY <2>2, <3>1, <6>1 DEF Tree
          <6> QED
            BY <1>0, <5>1, <6>2, Kinds DEF Tree
        <5> QED
          BY <1>0, <4>2, <5>1, <5>2
      <4> QED
        BY <4>1, <4>2
    <3> QED
      BY <3>1 DEF NonEmpty
  <2> QED
    BY <1>2, <2>2, <2>6, <2>7, <2>8, TreeStep
<1> QED
  BY <1>4, <1>5

\* insert_once at the leaf.
LEMMA InsertAtLeafTree == TypeInv /\ TypeInv' /\ TreeInv /\ InsertAtLeaf => TreeInv'
<1> SUFFICES ASSUME TypeInv, TypeInv', TreeInv, InsertAtLeaf PROVE TreeInv'
  OBVIOUS
<1> DEFINE entry == Entry(held, 1)
           new == Fresh(heap)
           result == InsertOnce(heap, node, index, entry, new)
<1>0. /\ pc = "seek" /\ request.op = "insert" /\ node \in Ptr /\ heap \in Heap
      /\ index \in Nat /\ held \in Item /\ IsLeaf(heap, node)
      /\ root \in PtrOrNone
  BY DEF InsertAtLeaf, AtLeaf, TypeInv, TypeOK, CallOK, TreeInv, TreeInvAt, HeldOK
<1>1. ~ Inserting /\ ~ Removing /\ ~ Ended
  BY <1>0 DEF Inserting, Removing, Ended
<1>2. PICK lev \in [Ptr -> Nat] : OneTree(lev)
  BY <1>1, OneTreeThen
<1>3. CASE InsertPanics(heap, node, index)
  BY <1>3, PanicTree DEF InsertAtLeaf
<1>4. CASE ~ InsertPanics(heap, node, index)
  <2>1. /\ heap' = result.heap /\ split' = result.split
        /\ pc' = "climb" /\ root' = root /\ request' = request /\ node' = node
    BY <1>4 DEF InsertAtLeaf
  <2>2. heap[node].length = B => new \in Free(heap)
    BY DEF InsertAtLeaf, Fresh, Free
  <2>3. entry.slot = held /\ entry \in [slot : Slot, size : Nat]
    BY <1>0 DEF Entry, Slot
  <2>4. node \in Allocated(heap) /\ heap[node].length \in 0..B
    BY <1>0, FieldTypes DEF Allocated, IsLeaf
  <2>5. index \in 0..heap[node].length
    BY <1>0, <1>4, <2>4 DEF InsertPanics
  <2> HIDE DEF entry, new
  <2>6. InsertOK(heap, lev, node, index, entry)
    BY <1>0, <2>3, <2>4, <2>5 DEF InsertOK
  <2>7. InsertedOnce(heap, result, lev, node, held, new)
    BY <1>0, <1>2, <2>2, <2>3, <2>6, InsertOnceTree DEF OneTree
  <2> HIDE DEF result
  <2>8. Linking(heap, lev, node, held, root)
    <3>1. held \notin Roots(heap) /\ held # root
      BY <1>0 DEF Roots, Allocated, PtrOrNone
    <3>2. \A p \in Allocated(heap) : IsInternal(heap, p) => heap[p].length >= 1
      BY <1>1 DEF TreeInv, TreeInvAt, NonEmpty, IsEmptied
    <3> QED
      BY <1>0, <1>2, <2>4, <3>1, <3>2 DEF Linking, OneTree
  <2>9. Inserting' /\ ~ Ended'
    BY <1>0, <2>1 DEF Inserting, Ended
  <2> QED
    BY <1>0, <2>1, <2>2, <2>7, <2>8, <2>9, InsertedStep
<1> QED
  BY <1>3, <1>4

\* The sizes of the parent change before anything else.
LEMMA CreditResized ==
  ASSUME NEW h \in Heap, NEW parent \in Ptr, NEW i
  PROVE  Resized(h, Credit(h, parent, i), parent)
<1> DEFINE amount == h[parent].sizes[i] + 1
                     - (IF split = None THEN 0 ELSE NodeSize(h, split))
           sizes == [h[parent].sizes EXCEPT ![i] = amount]
           g == [h EXCEPT ![parent] = [h[parent] EXCEPT !.sizes = sizes]]
<1>1. Credit(h, parent, i) = g
  BY DEF Credit
<1> HIDE DEF sizes
<1>2. h[parent] \in Node
  BY DEF Heap
<1>3. /\ g[parent] = [h[parent] EXCEPT !.sizes = sizes]
      /\ \A p \in Ptr : p # parent => g[p] = h[p]
  BY DEF Heap
<1> HIDE DEF g
<1>4. Resized(h, g, parent)
  BY <1>2, <1>3 DEF Resized, Node
<1> QED
  BY <1>1, <1>4

\* What there is while insert climbs: `top` is the root.
Climbing(lev) ==
  /\ heap \in Heap /\ Tree(heap, lev)
  /\ root \in PtrOrNone
  /\ node \in Allocated(heap)
  /\ ~ Removing /\ ~ Ended
  /\ split # None => /\ split \in Roots(heap) /\ split # node /\ split # root
                     /\ lev[split] = lev[node]
  /\ Roots(heap) = {Top, split} \ {None}
  /\ split \in PtrOrNone
  /\ root # None => root \in Allocated(heap)
  /\ (split # None \/ heap[node].parent # None) => Top = root
  /\ \A p \in Allocated(heap) : IsInternal(heap, p) => heap[p].length >= 1

\* TreeInv gives it during the climb of insert.
LEMMA ClimbingThen ==
  ASSUME TypeInv, TreeInv, Inserting
  PROVE  \E lev \in [Ptr -> Nat] : Climbing(lev)
<1>1. PICK lev \in [Ptr -> Nat] : Tree(heap, lev) /\ SplitOK(lev)
  BY DEF TreeInv, TreeInvAt
<1>2. pc = "climb" /\ ~ Ended /\ ~ Removing
  BY DEF Inserting, Ended, Removing
<1>3. RootsOK /\ NonEmpty
  BY <1>2 DEF TreeInv, TreeInvAt
<1>4. heap \in Heap /\ root \in PtrOrNone /\ node \in Allocated(heap)
      /\ split \in PtrOrNone
  BY <1>2, <1>3 DEF TypeInv, TypeOK, RootsOK
<1>5. split # None => /\ split \in Roots(heap) /\ split # node /\ split # Top
                      /\ lev[split] = lev[node]
  BY <1>1 DEF SplitOK
<1>6. Roots(heap) = {Top, split} \ {None} /\ (root # None => root \in Allocated(heap))
  BY <1>3 DEF RootsOK
<1>7. (split # None \/ heap[node].parent # None) => Top = root
  <2>1. CASE root = None \/ heap[root].parent = None
    BY <2>1 DEF Top
  <2>2. CASE root # None /\ heap[root].parent # None
    <3>1. split = None /\ node = Top
      BY <1>3, <2>2 DEF RootsOK, Top
    <3>2. Top \in Roots(heap)
      BY <1>6, <2>2 DEF Top
    <3>3. heap[node].parent = None
      BY <3>1, <3>2 DEF Roots
    <3> QED
      BY <3>1, <3>3
  <2> QED
    BY <2>1, <2>2
<1>8. \A p \in Allocated(heap) : IsInternal(heap, p) => heap[p].length >= 1
  BY <1>2, <1>3 DEF NonEmpty, IsEmptied
<1>9. split # None => split # root
  BY <1>5, <1>7
<1> QED
  BY <1>1, <1>2, <1>4, <1>5, <1>6, <1>7, <1>8, <1>9 DEF Climbing

\* handle_insertion with nothing split: only sizes change.
LEMMA ClimbInsertTree == TypeInv /\ TreeInv /\ ClimbInsert => TreeInv'
<1> SUFFICES ASSUME TypeInv, TreeInv, ClimbInsert PROVE TreeInv'
  OBVIOUS
<1> DEFINE parent == heap[node].parent
           i == heap[node].index
<1>1. Inserting /\ split = None /\ parent # None
  BY DEF ClimbInsert
<1>2. PICK lev \in [Ptr -> Nat] : Climbing(lev)
  BY <1>1, ClimbingThen
<1>3. CASE LinkPanics(heap, parent, i)
  BY <1>3, PanicTree DEF ClimbInsert
<1>4. CASE ~ LinkPanics(heap, parent, i)
  <2>1. /\ heap' = Credit(heap, parent, i) /\ node' = parent /\ root' = root
        /\ pc' = pc /\ request' = request /\ split' = split /\ removal' = removal
    BY <1>4 DEF ClimbInsert
  <2>2. parent \in Allocated(heap) /\ parent \in Ptr /\ heap \in Heap
    BY <1>1, <1>2, ParentOf DEF Climbing, Allocated
  <2> HIDE DEF i
  <2>3. Resized(heap, heap', parent)
    <3> HIDE DEF parent
    <3> QED
      BY <2>1, <2>2, CreditResized
  <2>4. /\ Tree(heap', lev) /\ Allocated(heap') = Allocated(heap)
        /\ Roots(heap') = Roots(heap)
    BY <1>2, <2>3, ResizedTree DEF Climbing
  <2>5. Top = root /\ Roots(heap) = {root} \ {None}
    BY <1>1, <1>2 DEF Climbing
  <2>6. root' # None => root' \in Allocated(heap') /\ heap'[root'].parent = None
    BY <2>1, <2>4, <2>5 DEF Roots
  <2>7. RootsOK'
    BY <1>1, <2>1, <2>2, <2>4, <2>5, <2>6 DEF RootsOK, Top
  <2>8. NonEmpty'
    BY <1>2, <2>3, <2>4 DEF NonEmpty, Climbing, Resized, Allocated, IsInternal
  <2>9. HeldOK' /\ RemovalOK'
    BY <1>1, <1>2, <2>1 DEF HeldOK, Inserting, RemovalOK, Removing, Climbing
  <2> QED
    BY <1>1, <2>1, <2>4, <2>7, <2>8, <2>9, TreeStep
<1> QED
  BY <1>3, <1>4

\* The climb has changed the sizes of `parent`, which leaves g, and linked the
\* half `split` at i + 1, which leaves r.
HalfLinked(h, g, r, lev, parent, i, new) ==
  /\ parent \in Allocated(h) /\ parent \in Ptr /\ IsInternal(h, parent)
  /\ i \in Nat /\ i < h[parent].length
  /\ g = Credit(h, parent, i) /\ Resized(h, g, parent) /\ g \in Heap
  /\ Tree(g, lev) /\ Allocated(g) = Allocated(h) /\ Roots(g) = Roots(h)
  /\ g[parent].length = B => new \in Free(g)
  /\ InsertOK(g, lev, parent, i + 1, Entry(split, NodeSize(h, split)))
  /\ r = InsertOnce(g, parent, i + 1, Entry(split, NodeSize(h, split)), new)
  /\ InsertedOnce(g, r, lev, parent, split, new)

\* handle_insertion with a half to link does this.
LEMMA ClimbSplitLinks ==
  ASSUME TypeInv, ClimbSplit, NEW lev, Climbing(lev),
         ~ LinkPanics(heap, heap[node].parent, heap[node].index)
  PROVE  \E g, r : /\ HalfLinked(heap, g, r, lev, heap[node].parent,
                                 heap[node].index, Fresh(heap))
                   /\ heap' = r.heap /\ split' = r.split
                   /\ node' = heap[node].parent
                   /\ UNCHANGED <<root, size, request, pc, index, held, removal>>
<1> DEFINE parent == heap[node].parent
           i == heap[node].index
           new == Fresh(heap)
           g == Credit(heap, parent, i)
           entry == Entry(split, NodeSize(heap, split))
           r == InsertOnce(g, parent, i + 1, entry, new)
<1>1. Inserting /\ split # None /\ parent # None
  BY DEF ClimbSplit
<1>2. /\ heap' = r.heap /\ split' = r.split /\ node' = parent
      /\ UNCHANGED <<root, size, request, pc, index, held, removal>>
  BY DEF ClimbSplit, LinkSplit
<1>3. heap[parent].length = B => new \in Free(heap)
  BY DEF ClimbSplit, Fresh, Free
<1>4. /\ parent \in Allocated(heap) /\ parent \in Ptr /\ heap \in Heap
      /\ i \in Nat /\ i < heap[parent].length /\ lev[parent] = lev[node] + 1
      /\ IsInternal(heap, parent)
  BY <1>1, ParentOf DEF Climbing, Allocated
<1>5. split \in Ptr /\ split \in Roots(heap) /\ lev[split] = lev[node]
  BY <1>1 DEF Climbing, Roots, Allocated
<1>6. entry.slot = split /\ entry \in [slot : Slot, size : Nat]
  BY <1>4, <1>5, NodeSizeType DEF Entry, Slot
<1>7. ~ LinkPanics(heap, parent, i)
  OBVIOUS
<1> HIDE DEF parent, i, new, entry
<1>8. Resized(heap, g, parent) /\ g \in Heap
  <2>1. split \in PtrOrNone
    BY <1>5 DEF PtrOrNone
  <2> QED
    BY <1>4, <1>7, <2>1, CreditResized, CreditType
<1>9. g = Credit(heap, parent, i)
  OBVIOUS
<1> HIDE DEF g
<1>10. /\ Tree(g, lev) /\ Allocated(g) = Allocated(heap)
       /\ Roots(g) = Roots(heap)
  BY <1>8, ResizedTree DEF Climbing
<1>11. \A p \in Ptr : g[p].length = heap[p].length /\ g[p].kind = heap[p].kind
  BY <1>8 DEF Resized
<1>12. g[parent].length = B => new \in Free(g)
  BY <1>3, <1>4, <1>11 DEF Free
<1>13. i + 1 \in 0..g[parent].length
  <2>1. heap[parent].length \in 0..B
    BY <1>4, FieldTypes
  <2> QED
    BY <1>4, <1>11, <2>1
<1>14. InsertOK(g, lev, parent, i + 1, entry)
  <2>1. ~ IsLeaf(g, parent)
    BY <1>4, <1>11 DEF IsLeaf, IsInternal
  <2> QED
    BY <1>4, <1>5, <1>6, <1>10, <1>13, <2>1 DEF InsertOK
<1>15. InsertedOnce(g, r, lev, parent, split, new)
  BY <1>6, <1>8, <1>10, <1>12, <1>14, InsertOnceTree
<1>16. HalfLinked(heap, g, r, lev, parent, i, new)
  BY <1>4, <1>8, <1>9, <1>10, <1>12, <1>14, <1>15 DEF HalfLinked, entry
<1> HIDE DEF r
<1> QED
  BY <1>2, <1>16 DEF parent, i, new

\* handle_insertion with a new sibling, which the parent takes next to node.
LEMMA ClimbSplitTree == TypeInv /\ TypeInv' /\ TreeInv /\ ClimbSplit => TreeInv'
<1> SUFFICES ASSUME TypeInv, TypeInv', TreeInv, ClimbSplit PROVE TreeInv'
  OBVIOUS
<1> DEFINE parent == heap[node].parent
           i == heap[node].index
           new == Fresh(heap)
<1>1. Inserting /\ split # None /\ parent # None
  BY DEF ClimbSplit
<1>2. PICK lev \in [Ptr -> Nat] : Climbing(lev)
  BY <1>1, ClimbingThen
<1>3. CASE LinkPanics(heap, parent, i)
  BY <1>3, PanicTree DEF ClimbSplit
<1>4. CASE ~ LinkPanics(heap, parent, i)
  <2>1. PICK g, r : /\ HalfLinked(heap, g, r, lev, parent, i, new)
                    /\ heap' = r.heap /\ split' = r.split /\ node' = parent
                    /\ UNCHANGED <<root, size, request, pc, index, held, removal>>
    BY <1>2, <1>4, ClimbSplitLinks
  <2> HIDE DEF parent, i, new
  <2>2. /\ parent \in Allocated(heap) /\ Resized(heap, g, parent) /\ g \in Heap
        /\ Tree(g, lev) /\ Allocated(g) = Allocated(heap)
        /\ Roots(g) = Roots(heap)
        /\ g[parent].length = B => new \in Free(g)
        /\ InsertedOnce(g, r, lev, parent, split, new)
    BY <2>1 DEF HalfLinked
  <2>3. Linking(g, lev, parent, split, root)
    <3>1. Roots(heap) = {root, split} \ {None} /\ split # root
      BY <1>1, <1>2 DEF Climbing
    <3>2. ASSUME NEW p \in Allocated(g), IsInternal(g, p) PROVE g[p].length >= 1
      BY <1>2, <2>2, <3>2 DEF Climbing, Resized, Allocated, IsInternal
    <3> QED
      BY <2>2, <3>1, <3>2 DEF Linking
  <2>4. Inserting' /\ ~ Ended' /\ root \in PtrOrNone
    BY <1>1, <1>2, <2>1 DEF Inserting, Ended, Climbing
  <2> QED
    BY <2>1, <2>2, <2>3, <2>4, InsertedStep
<1> QED
  BY <1>3, <1>4

\* A new root of its own, which leaves f, that then takes the old one, which
\* leaves g.  The other half is not linked yet.
Crowned(h, f, g, lev, parent, entry, half) ==
  /\ f \in Heap /\ Tree(f, lev) /\ f[parent] = NewNode("internal")
  /\ \A p \in Ptr : p # parent => f[p] = h[p]
  /\ IsInternal(f, parent) /\ f[parent].length < B
  /\ parent \in Ptr /\ parent \notin Allocated(h)
  /\ InsertOK(f, lev, parent, 0, entry)
  /\ g \in Heap /\ g = SimpleInsert(f, parent, 0, entry)
  /\ Inserted(f, g, lev, parent, entry.slot)
  /\ parent \in Allocated(g) /\ IsInternal(g, parent) /\ g[parent].length = 1
  /\ Allocated(g) = Allocated(h) \cup {parent}
  /\ Roots(g) = {parent, half} /\ half # parent
  /\ lev[parent] = lev[half] + 1

\* The new root with the old one as its child 0.
LEMMA CrownTree ==
  ASSUME NEW h \in Heap, NEW lev, Tree(h, lev), NEW child, NEW half,
         Roots(h) = {child, half}, child # half, lev[child] = lev[half],
         NEW parent \in Free(h), NEW entry \in [slot : Slot, size : Nat],
         entry.slot = child
  PROVE  \E lev2, f, g :
           /\ f = Alloc(h, parent, "internal")
           /\ Crowned(h, f, g, lev2, parent, entry, half)
<1> DEFINE f == Alloc(h, parent, "internal")
           g == SimpleInsert(f, parent, 0, entry)
           lev2 == [lev EXCEPT ![parent] = lev[child] + 1]
<1>1. /\ child \in Allocated(h) /\ child \in Ptr /\ half \in Allocated(h)
      /\ half \in Ptr /\ parent \in Ptr /\ parent \notin Allocated(h)
      /\ child # parent /\ half # parent
  BY DEF Roots, Allocated, Free
<1>2. lev[child] + 1 \in Nat /\ ~ (lev[child] + 1 = 0)
  BY <1>1 DEF Tree
<1>3. /\ Tree(f, lev2)
      /\ Allocated(f) = Allocated(h) \cup {parent}
      /\ Roots(f) = Roots(h) \cup {parent}
      /\ f[parent] = NewNode("internal")
      /\ \A p \in Ptr : p # parent => f[p] = h[p]
  <2> DEFINE k == lev[child] + 1
  <2>1. k \in Nat /\ "internal" \in {"leaf", "internal"}
        /\ (k = 0 <=> "internal" = "leaf")
    BY <1>2
  <2> HIDE DEF k
  <2>2. Tree(f, [lev EXCEPT ![parent] = k])
        /\ Allocated(f) = Allocated(h) \cup {parent}
        /\ Roots(f) = Roots(h) \cup {parent}
        /\ f[parent] = NewNode("internal")
        /\ \A p \in Ptr : p # parent => f[p] = h[p]
    BY <2>1, AllocTree
  <2> QED
    BY <2>2 DEF k
<1>4. lev2 \in [Ptr -> Nat] /\ lev2[parent] = lev2[half] + 1
      /\ lev2[parent] = lev2[child] + 1
  BY <1>1, <1>2 DEF Tree
<1>5. f \in Heap /\ f[parent].length = 0
  BY <1>1, AllocType
<1> HIDE DEF f, lev2
<1>6. IsInternal(f, parent) /\ ~ IsLeaf(f, parent) /\ f[parent].length < B
  BY <1>3, <1>5 DEF IsInternal, IsLeaf, NewNode
<1>7. InsertOK(f, lev2, parent, 0, entry)
  BY <1>3, <1>4, <1>5, <1>6 DEF InsertOK
<1>8. Inserted(f, g, lev2, parent, child)
  BY <1>3, <1>5, <1>6, <1>7, SimpleInsertTree
<1>9. g \in Heap
  <2>1. 0 \in Nat
    OBVIOUS
  <2> QED
    BY <1>1, <1>5, <1>6, <2>1, SimpleInsertType
<1>10. g = SimpleInsert(f, parent, 0, entry)
  OBVIOUS
<1> HIDE DEF g
<1>11. /\ Allocated(g) = Allocated(f) /\ Roots(g) = Roots(f) \ {child}
       /\ \A p \in Ptr : g[p].length = f[p].length + (IF p = parent THEN 1 ELSE 0)
       /\ \A p \in Allocated(f) : g[p].kind = f[p].kind
  BY <1>1, <1>8 DEF Inserted, Spares
<1>12. Roots(g) = {parent, half} /\ Allocated(g) = Allocated(h) \cup {parent}
  BY <1>1, <1>3, <1>11
<1>13. g[parent].length = 1 /\ IsInternal(g, parent) /\ parent \in Allocated(g)
  BY <1>1, <1>3, <1>5, <1>6, <1>11 DEF IsInternal
<1>14. Crowned(h, f, g, lev2, parent, entry, half)
  BY <1>1, <1>3, <1>4, <1>5, <1>6, <1>7, <1>8, <1>9, <1>10, <1>12, <1>13 DEF Crowned
<1> QED
  BY <1>4, <1>14 DEF f

\* handle_insertion at a root that was split does this, and links the half.
LEMMA GrowRootLinks ==
  ASSUME TypeInv, GrowRoot, NEW lev, Climbing(lev),
         ~ LinkPanics(SimpleInsert(Alloc(heap, Fresh(heap), "internal"),
                                   Fresh(heap), 0, Entry(node, size)),
                      Fresh(heap), heap[node].index)
  PROVE  \E lev2, f, c, g, r :
           /\ Crowned(heap, f, c, lev2, Fresh(heap), Entry(node, size), split)
           /\ HalfLinked(c, g, r, lev2, Fresh(heap), 0, None)
           /\ Inserted(g, r.heap, lev2, Fresh(heap), split)
           /\ heap' = r.heap /\ split' = None /\ node' = Fresh(heap)
           /\ node = root /\ heap[node].index = 0 /\ split \in Ptr
           /\ UNCHANGED <<root, size, request, pc, index, held, removal>>
<1> DEFINE parent == Fresh(heap)
           i == heap[node].index
           first == Entry(node, size)
           c == SimpleInsert(Alloc(heap, parent, "internal"), parent, 0, first)
           g == Credit(c, parent, 0)
           entry == Entry(split, NodeSize(c, split))
           r == InsertOnce(g, parent, 0 + 1, entry, None)
<1>1. Inserting /\ split # None /\ heap[node].parent = None /\ parent \in Free(heap)
  BY DEF GrowRoot, Fresh, Free
<1>2. /\ heap \in Heap /\ Tree(heap, lev) /\ node \in Allocated(heap)
      /\ node \in Roots(heap)
      /\ split \in Roots(heap) /\ split # node /\ lev[split] = lev[node]
      /\ split # root
      /\ Roots(heap) = {root, split} \ {None}
  BY <1>1 DEF Climbing, Roots
<1>3. node = root /\ Roots(heap) = {node, split} /\ split \in Ptr /\ node \in Ptr
      /\ root # None
  BY <1>2 DEF Roots, Allocated
<1>4. first \in [slot : Slot, size : Nat] /\ first.slot = node
  BY <1>3 DEF first, Entry, Slot, TypeInv, TypeOK
<1>5. i = 0
  BY <1>1, <1>2 DEF Tree, Hangs
<1>6. ~ LinkPanics(c, parent, 0)
  BY <1>5
<1>7. /\ heap' = r.heap /\ split' = None /\ node' = parent
      /\ UNCHANGED <<root, size, request, pc, index, held, removal>>
  BY <1>5, <1>6 DEF GrowRoot, LinkSplit
<1>8. parent \in Ptr
  BY <1>1 DEF Free
<1> HIDE DEF parent, first, i
<1>9. PICK lev2, f, d :
        /\ f = Alloc(heap, parent, "internal")
        /\ Crowned(heap, f, d, lev2, parent, first, split)
  BY <1>1, <1>2, <1>3, <1>4, CrownTree
<1>10. d = c
  BY <1>9 DEF Crowned
<1> HIDE DEF c
<1>11. Crowned(heap, f, c, lev2, parent, first, split)
  BY <1>9, <1>10
<1>12. /\ c \in Heap /\ parent \in Allocated(c) /\ IsInternal(c, parent)
       /\ c[parent].length = 1 /\ Roots(c) = {parent, split}
       /\ lev2[parent] = lev2[split] + 1 /\ Tree(c, lev2) /\ split # parent
  BY <1>11 DEF Crowned, Inserted
<1>13. entry.slot = split /\ entry \in [slot : Slot, size : Nat]
  BY <1>3, <1>12, NodeSizeType DEF Entry, Slot
<1> HIDE DEF entry
<1>14. Resized(c, g, parent) /\ g \in Heap
  <2>1. split \in PtrOrNone /\ 0 \in Nat
    BY <1>3 DEF PtrOrNone
  <2> QED
    BY <1>6, <1>8, <1>12, <2>1, CreditResized, CreditType
<1>15. g = Credit(c, parent, 0)
  OBVIOUS
<1> HIDE DEF g
<1>16. /\ Tree(g, lev2) /\ Allocated(g) = Allocated(c)
       /\ Roots(g) = {parent, split}
  BY <1>12, <1>14, ResizedTree
<1>17. g[parent].length = 1 /\ ~ IsLeaf(g, parent) /\ parent \in Allocated(g)
  BY <1>8, <1>12, <1>14, <1>16 DEF Resized, IsLeaf, IsInternal
<1>18. 0 + 1 \in 0..g[parent].length /\ g[parent].length < B
  BY <1>17
<1>19. InsertOK(g, lev2, parent, 0 + 1, entry)
  BY <1>12, <1>13, <1>16, <1>17, <1>18 DEF InsertOK
<1>20. InsertedOnce(g, r, lev2, parent, split, None)
  BY <1>13, <1>14, <1>16, <1>18, <1>19, InsertOnceTree
<1>21. Inserted(g, r.heap, lev2, parent, split)
  BY <1>18, <1>20 DEF InsertedOnce
<1>22. HalfLinked(c, g, r, lev2, parent, 0, None)
  BY <1>8, <1>12, <1>14, <1>15, <1>16, <1>18, <1>19, <1>20 DEF HalfLinked, entry
<1> HIDE DEF r
<1> QED
  BY <1>3, <1>5, <1>7, <1>11, <1>21, <1>22 DEF parent, first, i

\* handle_insertion at the root: the new root takes both halves.
LEMMA GrowRootTree == TypeInv /\ TypeInv' /\ TreeInv /\ GrowRoot => TreeInv'
<1> SUFFICES ASSUME TypeInv, TypeInv', TreeInv, GrowRoot PROVE TreeInv'
  OBVIOUS
<1> DEFINE parent == Fresh(heap)
           first == Entry(node, size)
           grown == SimpleInsert(Alloc(heap, parent, "internal"), parent, 0, first)
<1>1. Inserting /\ split # None
  BY DEF GrowRoot
<1>2. PICK lev \in [Ptr -> Nat] : Climbing(lev)
  BY <1>1, ClimbingThen
<1>3. CASE LinkPanics(grown, parent, heap[node].index)
  BY <1>3, PanicTree DEF GrowRoot
<1>4. CASE ~ LinkPanics(grown, parent, heap[node].index)
  <2>1. PICK lev2, f, c, g, r :
          /\ Crowned(heap, f, c, lev2, parent, first, split)
          /\ HalfLinked(c, g, r, lev2, parent, 0, None)
          /\ Inserted(g, r.heap, lev2, parent, split)
          /\ heap' = r.heap /\ split' = None /\ node' = parent
          /\ node = root /\ heap[node].index = 0 /\ split \in Ptr
          /\ UNCHANGED <<root, size, request, pc, index, held, removal>>
    BY <1>2, <1>4, GrowRootLinks
  <2> HIDE DEF parent, grown, first
  <2>2. /\ c \in Heap /\ Inserted(f, c, lev2, parent, node)
        /\ parent \in Ptr /\ parent \notin Allocated(heap)
        /\ Roots(c) = {parent, split} /\ split # parent
        /\ Allocated(c) = Allocated(heap) \cup {parent}
        /\ c[parent].length = 1
        /\ \A p \in Ptr : p # parent => f[p] = heap[p]
    BY <2>1 DEF Crowned, first, Entry
  <2>3. /\ Resized(c, g, parent) /\ g \in Heap /\ Allocated(g) = Allocated(c)
        /\ Roots(g) = Roots(c)
    BY <2>1 DEF HalfLinked
  <2>4. /\ \A p \in Ptr : g[p].length = c[p].length /\ g[p].kind = c[p].kind
                          /\ g[p].parent = c[p].parent
    BY <2>3 DEF Resized
  <2>5. /\ heap \in Heap /\ node \in Allocated(heap) /\ node \in Ptr
        /\ \A p \in Allocated(heap) : IsInternal(heap, p) => heap[p].length >= 1
    BY <1>2 DEF Climbing, Allocated
  <2>6. /\ Tree(heap', lev2) /\ Allocated(heap') = Allocated(c)
        /\ Roots(heap') = {parent} /\ heap'[node].parent = parent
        /\ \A p \in Ptr : heap'[p].length = g[p].length + (IF p = parent THEN 1 ELSE 0)
        /\ \A p \in Allocated(g) : heap'[p].kind = g[p].kind
    BY <2>1, <2>2, <2>3, <2>4, <2>5 DEF Inserted, Spares
  <2>7. parent # None /\ parent \in Allocated(heap')
    BY <2>2, <2>6 DEF Roots
  <2>8. RootsOK'
    <3>1. Top' = parent
      BY <2>1, <2>6, <2>7, <2>5 DEF Top, Allocated
    <3>2. root' \in Allocated(heap')
      BY <2>1, <2>2, <2>5, <2>6
    <3>3. heap'[root'].parent = parent /\ Inserting'
      BY <1>1, <2>1, <2>6 DEF Inserting
    <3> QED
      BY <2>1, <2>6, <2>7, <3>1, <3>2, <3>3 DEF RootsOK
  <2>9. NonEmpty'
    <3>1. ASSUME NEW p \in Allocated(heap'), IsInternal(heap', p)
          PROVE  heap'[p].length >= 1
      <4>1. CASE p = parent
        BY <2>2, <2>4, <2>6, <4>1
      <4>2. CASE p # parent
        <5>1. p \in Ptr /\ p \in Allocated(heap) /\ p \in Allocated(g)
              /\ heap[p].length \in 0..B
          BY <2>2, <2>3, <2>5, <2>6, <4>2, FieldTypes DEF Allocated
        <5>2. /\ heap'[p].kind = heap[p].kind
              /\ heap'[p].length = (heap[p].length + 0) + 0
          BY <2>2, <2>3, <2>4, <2>6, <4>2, <5>1 DEF Inserted, Spares
        <5> QED
          BY <2>5, <3>1, <5>1, <5>2 DEF IsInternal
      <4> QED
        BY <4>1, <4>2
    <3> QED
      BY <3>1 DEF NonEmpty
  <2>10. HeldOK' /\ RemovalOK'
    BY <1>1, <2>1 DEF HeldOK, Inserting, RemovalOK, Removing
  <2> QED
    BY <2>1, <2>6, <2>8, <2>9, <2>10, TreeStep
<1> QED
  BY <1>3, <1>4

\* The end of insert.
LEMMA FinishInsertTree == TypeInv /\ TreeInv /\ FinishInsert => TreeInv'
<1> SUFFICES ASSUME TypeInv, TreeInv, FinishInsert PROVE TreeInv'
  OBVIOUS
<1>1. /\ Inserting /\ split = None /\ heap[node].parent = None
      /\ root' = node /\ Leave("idle") /\ heap' = heap
  BY DEF FinishInsert
<1>2. PICK lev \in [Ptr -> Nat] : Climbing(lev)
  BY <1>1, ClimbingThen
<1>3. node \in Roots(heap) /\ node \in Ptr /\ node # None
  BY <1>1, <1>2 DEF Climbing, Roots, Allocated
<1>4. Roots(heap) = {node}
  BY <1>1, <1>2, <1>3 DEF Climbing
<1> QED
  BY <1>1, <1>2, <1>3, <1>4, LeaveTree DEF Climbing, PtrOrNone

\* A failing allocation leaves the tree as it was, up to the sizes of a node
\* that was about to be split.
LEMMA AllocFailsTree == TypeInv /\ TreeInv /\ AllocFails => TreeInv'
<1> SUFFICES ASSUME TypeInv, TreeInv, AllocFails PROVE TreeInv'
  OBVIOUS
<1>1. PICK lev \in [Ptr -> Nat] : Tree(heap, lev)
  BY DEF TreeInv, TreeInvAt
<1>2. Leave("aborted")
  BY DEF AllocFails
<1>3. CASE UNCHANGED heap
  BY <1>1, <1>2, <1>3, EndTree
<1>4. CASE ~ UNCHANGED heap
  <2> DEFINE parent == heap[node].parent
             i == heap[node].index
  <2>1. Inserting /\ parent # None /\ heap' = Credit(heap, parent, i)
    BY <1>4 DEF AllocFails
  <2>2. PICK lev2 \in [Ptr -> Nat] : Climbing(lev2)
    BY <2>1, ClimbingThen
  <2>3. heap \in Heap /\ parent \in Ptr
    BY <2>1, <2>2, ParentOf DEF Climbing, Allocated
  <2> HIDE DEF parent, i
  <2>4. Resized(heap, heap', parent)
    BY <2>1, <2>3, CreditResized
  <2>5. Tree(heap', lev)
    BY <1>1, <2>3, <2>4, ResizedTree
  <2> QED
    BY <1>2, <2>5, EndTree
<1> QED
  BY <1>3, <1>4

-----------------------------------------------------------------------------
(***************************************************************************)
(* remove.                                                                 *)
(***************************************************************************)

\* remove_once at the leaf.
LEMMA RemoveAtLeafTree == TypeInv /\ TreeInv /\ RemoveAtLeaf => TreeInv'
<1> SUFFICES ASSUME TypeInv, TreeInv, RemoveAtLeaf PROVE TreeInv'
  OBVIOUS
<1> DEFINE result == RemoveOnce(heap, node, index)
<1>0. /\ pc = "seek" /\ request.op = "remove" /\ node \in Ptr /\ heap \in Heap
      /\ index \in Nat /\ IsLeaf(heap, node) /\ root \in PtrOrNone
  BY DEF RemoveAtLeaf, AtLeaf, TypeInv, TypeOK, CallOK
<1>1. ~ Inserting /\ ~ Removing /\ ~ Ended
  BY <1>0 DEF Inserting, Removing, Ended
<1>2. PICK lev \in [Ptr -> Nat] : OneTree(lev)
  BY <1>1, OneTreeThen
<1>3. CASE RemovePanics(heap, node, index)
  BY <1>3, PanicTree DEF RemoveAtLeaf
<1>4. CASE ~ RemovePanics(heap, node, index)
  <2>1. /\ heap' = result.heap /\ removal' = result.removal /\ pc' = "climb"
        /\ root' = root /\ request' = request /\ node' = node /\ split' = split
    BY <1>4 DEF RemoveAtLeaf
  <2>2. node \in Allocated(heap)
    BY <1>0 DEF Allocated, IsLeaf
  <2>3. RemovedOnce(heap, result, lev, node, index)
    BY <1>0, <1>2, <1>4, <2>2, RemoveOnceTree DEF OneTree
  <2> HIDE DEF result
  <2>4. /\ Tree(heap', lev) /\ Allocated(heap') = Allocated(heap)
        /\ Roots(heap') = Roots(heap)
        /\ Spares(heap, heap', lev, lev[node])
        /\ RemovalFits(heap', node', removal')
    BY <1>0, <2>1, <2>3 DEF RemovedOnce
  <2>5. ~ Inserting' /\ split' = None /\ HeldOK' /\ RemovalOK'
    BY <1>0, <1>2, <2>1, <2>4 DEF Inserting, OneTree, HeldOK, RemovalOK
  <2>6. root' # None => root' \in Allocated(heap') /\ heap'[root'].parent = None
    BY <1>2, <2>1, <2>4 DEF OneTree, Roots
  <2>7. RootsOK'
    BY <1>2, <2>1, <2>2, <2>4, <2>5, <2>6 DEF RootsOK, Top, OneTree
  <2>8. NonEmpty'
    <3>1. ASSUME NEW p \in Allocated(heap'), IsInternal(heap', p)
          PROVE  heap'[p].length >= 1
      <4>1. p \in Allocated(heap) /\ IsInternal(heap, p)
        BY <2>4, <3>1 DEF Spares, IsInternal
      <4>2. ~ IsLeaf(heap, p)
        BY <4>1 DEF IsLeaf, IsInternal
      <4>3. lev[p] # lev[node]
        BY <1>0, <1>2, <2>2, <4>1, <4>2 DEF OneTree, Tree
      <4> QED
        BY <1>1, <2>4, <4>1, <4>3 DEF Spares, TreeInv, TreeInvAt, NonEmpty, IsEmptied
    <3> QED
      BY <3>1 DEF NonEmpty
  <2> QED
    BY <2>4, <2>5, <2>7, <2>8, TreeStep
<1> QED
  BY <1>3, <1>4

\* The sizes of the parent change before anything else.
LEMMA DebitResized ==
  ASSUME NEW h \in Heap, NEW parent \in Ptr
  PROVE  Resized(h, Debit(h, parent), parent)
<1> DEFINE gone == IF removal.kind = "Merged" THEN h[parent].sizes[removal.src]
                   ELSE removal.size
           less == [h[parent].sizes EXCEPT ![removal.src] = @ - gone]
           taken == [h EXCEPT ![parent] = [h[parent] EXCEPT !.sizes = less]]
           more == [taken[parent].sizes EXCEPT ![removal.dest] = @ + gone - 1]
           g == [taken EXCEPT ![parent] = [taken[parent] EXCEPT !.sizes = more]]
<1>1. Debit(h, parent) = g
  BY DEF Debit
<1>2. h[parent] \in Node
  BY DEF Heap
<1> HIDE DEF less
<1>3. /\ taken[parent] = [h[parent] EXCEPT !.sizes = less]
      /\ \A p \in Ptr : p # parent => taken[p] = h[p]
      /\ DOMAIN taken = Ptr
  BY DEF Heap
<1> HIDE DEF taken, more
<1>4. /\ g[parent] = [taken[parent] EXCEPT !.sizes = more]
      /\ \A p \in Ptr : p # parent => g[p] = taken[p]
  BY <1>3
<1> HIDE DEF g
<1>5. g[parent] = [h[parent] EXCEPT !.sizes = more]
  <2> DEFINE r == h[parent]
  <2>1. r \in Node /\ g[parent] = [[r EXCEPT !.sizes = less] EXCEPT !.sizes = more]
    BY <1>2, <1>3, <1>4
  <2> HIDE DEF r
  <2>2. [[r EXCEPT !.sizes = less] EXCEPT !.sizes = more] = [r EXCEPT !.sizes = more]
    BY <2>1 DEF Node
  <2> QED
    BY <2>1, <2>2 DEF r
<1>6. Resized(h, g, parent)
  BY <1>2, <1>3, <1>4, <1>5 DEF Resized, Node
<1> QED
  BY <1>1, <1>6

\* What there is while remove climbs.
Shrinking(lev) ==
  /\ heap \in Heap /\ Tree(heap, lev) /\ removal \in Removal
  /\ root \in Allocated(heap) /\ heap[root].parent = None
  /\ Roots(heap) = {root}
  /\ node \in Allocated(heap) /\ split = None
  /\ ~ Inserting /\ ~ Ended /\ pc # "seek"
  /\ RemovalFits(heap, node, removal)
  /\ \A p \in Allocated(heap) :
       IsInternal(heap, p) =>
         heap[p].length >= 1 \/ EmptiedBy(heap, node, removal, p)

\* TreeInv gives it during the climb of remove.
LEMMA ShrinkingThen ==
  ASSUME TypeInv, TreeInv, Removing
  PROVE  \E lev \in [Ptr -> Nat] : Shrinking(lev)
<1>1. pc = "climb" /\ ~ Inserting /\ ~ Ended
  BY DEF Removing, Inserting, Ended
<1>2. PICK lev \in [Ptr -> Nat] : OneTree(lev)
  BY <1>1, OneTreeThen
<1>3. /\ heap \in Heap /\ removal \in Removal /\ node \in Allocated(heap)
      /\ size # 0 /\ root # None
  <2>1. request.index \in Nat /\ request.index < size /\ size \in Nat
    BY DEF Removing, TypeInv, TypeOK, CallOK, Request
  <2>2. size # 0
    BY <2>1
  <2> QED
    BY <1>1, <2>2 DEF TypeInv, TypeOK, CallOK, TreeInv, TreeInvAt, RootsOK
<1>4. RemovalFits(heap, node, removal)
  BY <1>1 DEF TreeInv, TreeInvAt, RemovalOK
<1>5. \A p \in Allocated(heap) :
        IsInternal(heap, p) =>
          heap[p].length >= 1 \/ EmptiedBy(heap, node, removal, p)
  BY <1>1 DEF TreeInv, TreeInvAt, NonEmpty, IsEmptied, EmptiedBy
<1> QED
  BY <1>1, <1>2, <1>3, <1>4, <1>5 DEF Shrinking, OneTree

\* A step of the climb of remove.
LEMMA RemovedStep ==
  ASSUME NEW lev, Shrinking(lev), Removing', split' = split, root' = root,
         Tree(heap', lev), Roots(heap') = {root},
         node' \in Allocated(heap'), RemovalFits(heap', node', removal'),
         \A p \in Allocated(heap') :
           IsInternal(heap', p) =>
             heap'[p].length >= 1 \/ EmptiedBy(heap', node', removal', p)
  PROVE  TreeInv'
<1>1. ~ Inserting' /\ split' = None /\ HeldOK' /\ RemovalOK'
  BY DEF Inserting, Removing, Shrinking, HeldOK, RemovalOK
<1>2. root' # None /\ root' \in Allocated(heap') /\ heap'[root'].parent = None
  BY DEF Roots, Shrinking, Allocated
<1>3. RootsOK'
  BY <1>1, <1>2 DEF RootsOK, Top
<1>4. NonEmpty'
  BY DEF NonEmpty, IsEmptied, EmptiedBy
<1> QED
  BY <1>1, <1>3, <1>4, TreeStep

\* handle_removal of Moved and Absorbed: only sizes change.
LEMMA ClimbRemoveTree == TypeInv /\ TreeInv /\ ClimbRemove => TreeInv'
<1> SUFFICES ASSUME TypeInv, TreeInv, ClimbRemove PROVE TreeInv'
  OBVIOUS
<1> DEFINE parent == heap[node].parent
<1>1. Removing /\ removal.kind # "Merged"
  BY DEF ClimbRemove
<1>2. PICK lev \in [Ptr -> Nat] : Shrinking(lev)
  BY <1>1, ShrinkingThen
<1>3. CASE parent = None \/ DebitPanics(heap, parent)
  BY <1>3, PanicTree DEF ClimbRemove
<1>4. CASE ~ (parent = None \/ DebitPanics(heap, parent))
  <2>1. /\ heap' = Debit(heap, parent) /\ node' = parent
        /\ removal' = Absorbed(heap, parent)
        /\ UNCHANGED <<root, size, request, pc, index, held, split>>
    BY <1>4 DEF ClimbRemove
  <2>2. parent \in Allocated(heap) /\ parent \in Ptr /\ heap \in Heap
    BY <1>2, <1>4, ParentOf DEF Shrinking, Allocated
  <2> HIDE DEF parent
  <2>3. Resized(heap, heap', parent)
    BY <2>1, <2>2, DebitResized
  <2>4. /\ Tree(heap', lev) /\ Allocated(heap') = Allocated(heap)
        /\ Roots(heap') = Roots(heap)
    BY <1>2, <2>3, ResizedTree DEF Shrinking
  <2>5. RemovalFits(heap', node', removal')
    BY <2>1, <2>2, <2>3 DEF RemovalFits, Absorbed, Resized
  <2>6. \A p \in Allocated(heap') :
          IsInternal(heap', p) =>
            heap'[p].length >= 1 \/ EmptiedBy(heap', node', removal', p)
    BY <1>1, <1>2, <2>3, <2>4
       DEF Shrinking, EmptiedBy, Resized, Allocated, IsInternal
  <2> QED
    BY <1>1, <1>2, <2>1, <2>2, <2>4, <2>5, <2>6, RemovedStep
       DEF Removing, Shrinking
<1> QED
  BY <1>3, <1>4

\* An empty node that is no sibling of n can go.
LEMMA RemovalFitsWithout ==
  ASSUME NEW h \in Heap, NEW lev, Tree(h, lev), NEW n \in Allocated(h),
         NEW r \in Removal, RemovalFits(h, n, r), NEW c, lev[c] # lev[n],
         NEW g, \A p \in Ptr : p # c => g[p] = h[p],
         h[n].parent # c, c # n
  PROVE  RemovalFits(g, n, r)
<1> DEFINE q == h[n].parent
           d == h[q].children[r.src]
<1>1. n \in Ptr /\ g[n] = h[n]
  BY DEF Allocated
<1>2. CASE q = None
  BY <1>1, <1>2 DEF RemovalFits
<1>3. CASE q # None
  <2>1. /\ q \in Allocated(h) /\ IsInternal(h, q) /\ q \in Ptr
        /\ lev[q] = lev[n] + 1 /\ g[q] = h[q]
    BY <1>3, ParentOf DEF Allocated
  <2> HIDE DEF q
  <2>2. CASE r.src < h[q].length
    <3>1. r.src \in Nat
      BY DEF Removal
    <3>2. d \in Allocated(h) /\ d \in Ptr /\ lev[q] = lev[d] + 1
      BY <2>1, <2>2, <3>1, ChildOf DEF Allocated
    <3> HIDE DEF d
    <3>3. lev[d] \in Nat /\ lev[n] \in Nat
      BY <1>1, <3>2 DEF Tree
    <3>4. d # c
      BY <2>1, <3>2, <3>3
    <3> QED
      BY <1>1, <2>1, <3>2, <3>4 DEF RemovalFits, q, d
  <2>3. CASE ~ (r.src < h[q].length)
    BY <1>1, <2>1, <2>3 DEF RemovalFits, q
  <2> QED
    BY <2>2, <2>3
<1> QED
  BY <1>2, <1>3

\* handle_removal of Merged has changed the sizes of `parent`, which leaves g,
\* removed child src, which leaves r, and freed it, which leaves k.
Unlinked(h, g, r, k, lev, parent, src) ==
  LET emptied == h[parent].children[src]
  IN  /\ parent \in Allocated(h) /\ parent \in Ptr /\ IsInternal(h, parent)
      /\ src \in Nat /\ src < h[parent].length /\ h[parent].length # 1
      /\ emptied \in Ptr /\ emptied \in Allocated(h) /\ h[emptied].parent = parent
      /\ h[emptied].index = src /\ h[emptied].length = 0
      /\ lev[parent] = lev[emptied] + 1
      /\ g = Debit(h, parent) /\ Resized(h, g, parent) /\ g \in Heap
      /\ Tree(g, lev) /\ Allocated(g) = Allocated(h) /\ Roots(g) = Roots(h)
      /\ ~ RemovePanics(g, parent, src) /\ r = RemoveOnce(g, parent, src)
      /\ RemovedOnce(g, r, lev, parent, src)
      /\ r.heap \in Heap /\ r.removal \in Removal
      /\ r.heap[emptied].length = 0 /\ emptied \in Roots(r.heap)
      /\ k = Dealloc(r.heap, emptied) /\ Tree(k, lev)
      /\ Allocated(k) = Allocated(h) \ {emptied} /\ Roots(k) = Roots(h)
      /\ \A p \in Ptr : p # emptied => k[p] = r.heap[p]

\* handle_removal of Merged does this.
LEMMA ClimbMergeUnlinks ==
  ASSUME ClimbMerge, NEW lev, Shrinking(lev), ~ Panic
  PROVE  \E g, r :
           /\ Unlinked(heap, g, r, heap', lev, heap[node].parent, removal.src)
           /\ removal' = r.removal /\ node' = heap[node].parent
           /\ heap[node].parent # None
           /\ UNCHANGED <<root, size, request, pc, index, held, split>>
<1> DEFINE parent == heap[node].parent
           emptied == ChildPtr(heap, parent, removal.src)
           g == Debit(heap, parent)
           src == removal.src
           r == RemoveOnce(g, parent, src)
           f == r.heap
<1>1. Removing /\ removal.kind = "Merged"
  BY DEF ClimbMerge
<1>2. /\ heap' = Dealloc(f, emptied) /\ node' = parent
      /\ removal' = r.removal
      /\ UNCHANGED <<root, size, request, pc, index, held, split>>
      /\ parent # None /\ ~ DebitPanics(heap, parent)
      /\ emptied \in Ptr /\ ~ RemovePanics(g, parent, src)
  BY DEF ClimbMerge
<1>3. /\ heap \in Heap /\ Tree(heap, lev) /\ node \in Allocated(heap)
      /\ RemovalFits(heap, node, removal) /\ removal \in Removal
      /\ root \in Allocated(heap) /\ Roots(heap) = {root}
      /\ heap[root].parent = None
  BY DEF Shrinking
<1>4. /\ parent \in Allocated(heap) /\ parent \in Ptr
      /\ IsInternal(heap, parent) /\ lev[parent] = lev[node] + 1
  BY <1>2, <1>3, ParentOf DEF Allocated
<1>5. /\ src \in Nat /\ src < heap[parent].length
      /\ heap[parent].length # 1 /\ heap[parent].length \in 0..B
      /\ heap[heap[parent].children[src]].length = 0
  <2>1. /\ src < heap[parent].length /\ removal.dest < heap[parent].length
        /\ src # removal.dest /\ src \in Nat /\ removal.dest \in Nat
        /\ heap[heap[parent].children[src]].length = 0
    BY <1>1, <1>3 DEF RemovalFits, Removal
  <2>2. heap[parent].length \in 0..B
    BY <1>3, <1>4, FieldTypes
  <2> HIDE DEF src, parent
  <2> QED
    BY <2>1, <2>2
<1>6. emptied = heap[parent].children[src]
  BY <1>2 DEF ChildPtr
<1> HIDE DEF emptied, src, parent
<1>7. /\ emptied \in Allocated(heap) /\ heap[emptied].parent = parent
      /\ heap[emptied].length = 0 /\ lev[parent] = lev[emptied] + 1
      /\ heap[emptied].index = src
  BY <1>3, <1>4, <1>5, <1>6, ChildOf
<1>8. lev[emptied] \in Nat /\ lev[emptied] # lev[parent]
      /\ ~ (lev[emptied] >= lev[parent])
  <2>1. lev[emptied] \in Nat
    BY <1>2, <1>3 DEF Tree
  <2> QED
    BY <1>7, <2>1
<1>9. root # emptied
  BY <1>2, <1>3, <1>7
<1>10. Resized(heap, g, parent) /\ g \in Heap
  BY <1>2, <1>3, <1>4, DebitResized, DebitType
<1>11. g = Debit(heap, parent)
  OBVIOUS
<1> HIDE DEF g
<1>12. /\ Tree(g, lev) /\ Allocated(g) = Allocated(heap)
       /\ Roots(g) = Roots(heap)
  BY <1>3, <1>10, ResizedTree
<1>13. \A p \in Ptr : /\ g[p].length = heap[p].length /\ g[p].kind = heap[p].kind
                      /\ g[p].children = heap[p].children
  BY <1>10 DEF Resized
<1>14. RemovedOnce(g, r, lev, parent, src)
  BY <1>2, <1>4, <1>5, <1>10, <1>12, RemoveOnceTree
<1>15. f \in Heap /\ r.removal \in Removal
  BY <1>2, <1>4, <1>5, <1>10, RemoveOnceType
<1>16. ~ IsLeaf(g, parent) /\ g[parent].children[src] = emptied
  BY <1>4, <1>6, <1>13 DEF IsLeaf, IsInternal
<1>17. r = RemoveOnce(g, parent, src)
  OBVIOUS
<1> HIDE DEF r
<1>18. /\ Tree(f, lev) /\ Allocated(f) = Allocated(heap)
       /\ Roots(f) = {root, emptied}
       /\ Spares(g, f, lev, lev[parent])
  BY <1>3, <1>12, <1>14, <1>16 DEF RemovedOnce
<1>19. f[emptied].length = 0 /\ emptied \in Roots(f)
  BY <1>2, <1>7, <1>8, <1>12, <1>13, <1>18 DEF Spares
<1> HIDE DEF f
<1>20. /\ Tree(heap', lev)
       /\ Allocated(heap') = Allocated(heap) \ {emptied}
       /\ Roots(heap') = Roots(heap)
       /\ \A p \in Ptr : p # emptied => heap'[p] = f[p]
  <2>1. f \in Heap
    BY <1>15 DEF f
  <2> QED
    BY <1>2, <1>3, <1>9, <1>18, <1>19, <2>1, DeallocTree
<1>21. /\ emptied = heap[parent].children[src] /\ f = r.heap
  BY <1>6 DEF f
<1>22. Unlinked(heap, g, r, heap', lev, parent, src)
  BY <1>2, <1>4, <1>5, <1>7, <1>10, <1>11, <1>12, <1>14, <1>15, <1>17, <1>19,
     <1>20, <1>21 DEF Unlinked
<1> QED
  BY <1>2, <1>22 DEF parent, src

\* handle_removal of Merged: the emptied child goes.
LEMMA ClimbMergeTree == TypeInv /\ TypeInv' /\ TreeInv /\ ClimbMerge => TreeInv'
<1> SUFFICES ASSUME TypeInv, TypeInv', TreeInv, ClimbMerge PROVE TreeInv'
  OBVIOUS
<1> DEFINE parent == heap[node].parent
           src == removal.src
           emptied == heap[parent].children[src]
<1>1. Removing /\ removal.kind = "Merged"
  BY DEF ClimbMerge
<1>2. PICK lev \in [Ptr -> Nat] : Shrinking(lev)
  BY <1>1, ShrinkingThen
<1>3. CASE Panic
  BY <1>3, PanicTree
<1>4. CASE ~ Panic
  <2>1. PICK g, r :
          /\ Unlinked(heap, g, r, heap', lev, parent, src)
          /\ removal' = r.removal /\ node' = parent /\ parent # None
          /\ UNCHANGED <<root, size, request, pc, index, held, split>>
    BY <1>2, <1>4, ClimbMergeUnlinks
  <2>2. /\ heap \in Heap /\ Tree(heap, lev) /\ node \in Allocated(heap)
        /\ Roots(heap) = {root}
    BY <1>2 DEF Shrinking
  <2>3. \A p \in Allocated(heap) :
          IsInternal(heap, p) =>
            \/ heap[p].length >= 1
            \/ heap[p].parent = parent /\ heap[p].index = src
    BY <1>2 DEF Shrinking, EmptiedBy
  <2> HIDE DEF parent, src
  <2>4. /\ parent \in Allocated(heap) /\ parent \in Ptr /\ IsInternal(heap, parent)
        /\ heap[parent].length # 1
        /\ emptied \in Ptr /\ emptied \in Allocated(heap)
        /\ heap[emptied].parent = parent /\ heap[emptied].index = src
        /\ lev[parent] = lev[emptied] + 1
        /\ Resized(heap, g, parent) /\ Allocated(g) = Allocated(heap)
        /\ RemovedOnce(g, r, lev, parent, src)
        /\ r.heap \in Heap /\ r.removal \in Removal
        /\ Tree(heap', lev) /\ Allocated(heap') = Allocated(heap) \ {emptied}
        /\ Roots(heap') = {root}
        /\ \A p \in Ptr : p # emptied => heap'[p] = r.heap[p]
    BY <2>1, <2>2 DEF Unlinked
  <2> DEFINE f == r.heap
  <2>5. \A p \in Ptr : /\ g[p].length = heap[p].length /\ g[p].kind = heap[p].kind
    BY <2>4 DEF Resized
  <2>6. /\ Tree(f, lev) /\ Allocated(f) = Allocated(heap)
        /\ Spares(g, f, lev, lev[parent])
        /\ RemovalFits(f, parent, r.removal)
        /\ \A p \in Allocated(heap) : lev[p] = lev[parent] /\ f[p].length = 0 =>
             \/ g[p].length = 0
             \/ EmptiedBy(f, parent, r.removal, p)
    BY <2>4, <2>5 DEF RemovedOnce
  <2>7. heap[emptied].parent = parent /\ heap[parent].children[src] = emptied
    BY <2>4
  <2> HIDE DEF emptied, f
  <2>8. \A p \in Allocated(heap) :
          heap[p].parent = parent /\ heap[p].index = src => p = emptied
    BY <2>1, <2>2, <2>7, ParentOf
  <2>9. lev[emptied] \in Nat /\ lev[emptied] # lev[parent] /\ emptied # parent
    <3>1. lev[emptied] \in Nat
      BY <2>2, <2>4 DEF Tree
    <3> QED
      BY <2>4, <3>1
  <2>10. f \in Heap /\ \A p \in Ptr : p # emptied => heap'[p] = f[p]
    BY <2>4 DEF f
  <2>11. RemovalFits(heap', parent, r.removal)
    <3>1. f[parent].parent # emptied
      <4>1. CASE f[parent].parent = None
        BY <4>1, <2>4
      <4>2. CASE f[parent].parent # None
        <5>1. lev[f[parent].parent] = lev[parent] + 1
          BY <2>4, <2>6, <2>10, <4>2, ParentOf
        <5> QED
          BY <2>4, <2>9, <5>1
      <4> QED
        BY <4>1, <4>2
    <3> QED
      BY <2>4, <2>6, <2>9, <2>10, <3>1, RemovalFitsWithout
  <2>12. ASSUME NEW p \in Allocated(heap'), IsInternal(heap', p)
         PROVE  heap'[p].length >= 1 \/ EmptiedBy(heap', parent, r.removal, p)
    <3>1. /\ p \in Ptr /\ p \in Allocated(heap) /\ p # emptied /\ heap'[p] = f[p]
          /\ heap'[parent] = f[parent]
      BY <2>4, <2>9, <2>10 DEF Allocated
    <3>2. IsInternal(heap, p)
      BY <2>4, <2>5, <2>6, <2>12, <3>1 DEF Spares, IsInternal
    <3>3. heap[p].length \in 0..B /\ f[p].length \in 0..B
      BY <2>2, <2>10, <3>1, FieldTypes
    <3>4. heap[p].length >= 1
      BY <2>3, <2>8, <3>1, <3>2
    <3>5. CASE lev[p] = lev[parent]
      <4>1. f[p].length # 0 \/ EmptiedBy(f, parent, r.removal, p)
        BY <2>5, <2>6, <3>1, <3>4, <3>5
      <4> QED
        BY <3>1, <3>3, <4>1 DEF EmptiedBy
    <3>6. CASE lev[p] # lev[parent]
      <4>1. f[p].length = heap[p].length
        BY <2>4, <2>5, <2>6, <3>1, <3>6 DEF Spares
      <4> QED
        BY <3>1, <3>4, <4>1
    <3> QED
      BY <3>5, <3>6
  <2>13. parent \in Allocated(heap') /\ Removing'
    BY <1>1, <2>1, <2>4, <2>9 DEF Removing
  <2> QED
    BY <1>2, <2>1, <2>4, <2>11, <2>12, <2>13, RemovedStep
<1> QED
  BY <1>3, <1>4

\* The end of remove: an only child becomes the root.
LEMMA FinishRemoveTree == TypeInv /\ TreeInv /\ FinishRemove => TreeInv'
<1> SUFFICES ASSUME TypeInv, TreeInv, FinishRemove PROVE TreeInv'
  OBVIOUS
<1>1. Removing /\ removal.kind = "Absorbed" /\ heap[node].parent = None
  BY DEF FinishRemove
<1>2. PICK lev \in [Ptr -> Nat] : Shrinking(lev)
  BY <1>1, ShrinkingThen
<1>3. /\ heap \in Heap /\ Tree(heap, lev) /\ node \in Allocated(heap)
      /\ Roots(heap) = {root} /\ node = root /\ node \in Ptr
      /\ \A p \in Allocated(heap) : IsInternal(heap, p) => heap[p].length >= 1
  BY <1>1, <1>2 DEF Shrinking, Roots, Allocated, EmptiedBy
<1>4. CASE IsInternal(heap, node) /\ heap[node].length = 1
  <2> DEFINE child == heap[node].children[0]
             f == SimpleRemove(heap, node, 0)
  <2>1. CASE child \notin Ptr
    BY <1>4, <2>1, PanicTree DEF FinishRemove
  <2>2. CASE child \in Ptr
    <3>1. heap' = Dealloc(f, node) /\ root' = child /\ Leave("idle")
      BY <1>4, <2>2 DEF FinishRemove
    <3>2. 0 \in Nat /\ 0 < heap[node].length /\ ~ IsLeaf(heap, node)
      BY <1>4 DEF IsLeaf, IsInternal
    <3>3. child \in Allocated(heap) /\ heap[child].parent = node
      BY <1>3, <1>4, <3>2, ChildOf
    <3>4. child # node /\ child # None
      BY <1>1, <1>3, <2>2, <3>3
    <3> HIDE DEF child
    <3>5. Removed(heap, f, lev, node, 0) /\ f \in Heap
      BY <1>3, <3>2, SimpleRemoveTree, SimpleRemoveType
    <3> HIDE DEF f
    <3>6. /\ Tree(f, lev) /\ Allocated(f) = Allocated(heap)
          /\ Roots(f) = {node, child}
          /\ Spares(heap, f, lev, lev[node])
          /\ \A p \in Ptr : f[p].length = heap[p].length - (IF p = node THEN 1 ELSE 0)
      BY <1>3, <3>2, <3>5 DEF Removed, child
    <3>7. node \in Roots(f) /\ f[node].length = 0
      BY <1>3, <1>4, <3>6
    <3>8. /\ Tree(heap', lev)
          /\ Allocated(heap') = Allocated(heap) \ {node}
          /\ Roots(heap') = {child}
          /\ \A p \in Ptr : p # node => heap'[p] = f[p]
      BY <3>1, <3>4, <3>5, <3>6, <3>7, DeallocTree
    <3>9. ASSUME NEW p \in Allocated(heap'), IsInternal(heap', p)
          PROVE  heap'[p].length >= 1
      <4>1. /\ p \in Ptr /\ p \in Allocated(heap) /\ p # node /\ heap'[p] = f[p]
            /\ heap[p].length \in 0..B
        BY <1>3, <3>8, FieldTypes DEF Allocated
      <4>2. IsInternal(heap, p) /\ f[p].length = heap[p].length - 0
        BY <3>6, <3>9, <4>1 DEF Spares, IsInternal
      <4> QED
        BY <1>3, <4>1, <4>2
    <3>10. root' \in PtrOrNone /\ Roots(heap') = {root'} \ {None}
      BY <2>2, <3>1, <3>4, <3>8 DEF PtrOrNone, child
    <3> QED
      BY <3>1, <3>8, <3>9, <3>10, LeaveTree
  <2> QED
    BY <2>1, <2>2
<1>5. CASE ~ (IsInternal(heap, node) /\ heap[node].length = 1)
  <2>1. root' = node /\ Leave("idle") /\ heap' = heap
    BY <1>5 DEF FinishRemove
  <2>2. root' \in PtrOrNone /\ Roots(heap') = {root'} \ {None}
    BY <1>3, <2>1 DEF PtrOrNone
  <2> QED
    BY <1>3, <2>1, <2>2, LeaveTree
<1> QED
  BY <1>4, <1>5

-----------------------------------------------------------------------------
\* Every step of the vector keeps the tree.
LEMMA NextTreeInv == TypeInv /\ TypeInv' /\ TreeInv /\ [Next]_vars => TreeInv'
<1> SUFFICES ASSUME TypeInv, TypeInv', TreeInv, [Next]_vars PROVE TreeInv'
  OBVIOUS
<1>1. CASE Begin
  BY <1>1, BeginTree
<1>2. CASE Step
  BY <1>2, DescendTree, AccessTree, InsertAtLeafTree, ClimbInsertTree,
     ClimbSplitTree, GrowRootTree, FinishInsertTree, RemoveAtLeafTree,
     ClimbRemoveTree, ClimbMergeTree, FinishRemoveTree
     DEF Step
<1>3. CASE AllocFails
  BY <1>3, AllocFailsTree
<1>4. CASE UNCHANGED vars
  <2>1. /\ heap' = heap /\ root' = root /\ request' = request /\ pc' = pc
        /\ node' = node /\ held' = held /\ split' = split /\ removal' = removal
    BY <1>4 DEF vars
  <2> QED
    BY <2>1 DEF TreeInv, TreeInvAt, SplitOK, HeldOK, Ended, RootsOK, RemovalOK, NonEmpty,
                Inserting, Removing, Top, IsEmptied
<1> QED
  BY <1>1, <1>2, <1>3, <1>4 DEF Next

\* The nodes of a vector always form a tree: of every allocated node, parent,
\* index and children agree, and between calls and while a call descends or
\* climbs there is one root.
THEOREM TreeKept == Spec => []TreeInv
<1>1. Init => TypeInv /\ TreeInv
  BY InitTypeInv, InitTreeInv
<1>2. TypeInv /\ TreeInv /\ [Next]_vars => (TypeInv /\ TreeInv)'
  BY NextTypeInv, NextTreeInv
<1> QED
  BY <1>1, <1>2, PTL DEF Spec

\* parent, index and children agree on both sides of every edge, at every
\* step of insert and remove and after a failed allocation or check.
THEOREM AlwaysLinked == Spec => []Linked
<1>1. TypeInv /\ TreeInv => Linked
  <2> SUFFICES ASSUME TypeInv, TreeInv PROVE Linked
    OBVIOUS
  <2>1. PICK lev \in [Ptr -> Nat] : Tree(heap, lev)
    BY DEF TreeInv, TreeInvAt
  <2> QED
    BY <2>1 DEF Tree, Hangs, SlotsOK, IsChild, Linked
<1>2. Init => TypeInv /\ TreeInv
  BY InitTypeInv, InitTreeInv
<1>3. TypeInv /\ TreeInv /\ [Next]_vars => (TypeInv /\ TreeInv)'
  BY NextTypeInv, NextTreeInv
<1> QED
  BY <1>1, <1>2, <1>3, PTL DEF Spec

\* Every slot below the length of a leaf holds an item, and of an internal node
\* a live child, all of one kind: what the unsafe code of leaf.rs and
\* internal.rs reads there is initialised.
THEOREM AlwaysInitialised == Spec => []Initialised
<1>1. TypeInv /\ TreeInv => Initialised
  <2> SUFFICES ASSUME TypeInv, TreeInv, NEW p \in Allocated(heap),
                      NEW i \in 0..(heap[p].length - 1)
               PROVE  /\ IsLeaf(heap, p) => heap[p].children[i] \in Item
                      /\ IsInternal(heap, p) =>
                           /\ heap[p].children[i] \in Allocated(heap)
                           /\ heap[heap[p].children[i]].kind
                                = heap[heap[p].children[0]].kind
    BY DEF Initialised
  <2>1. PICK lev \in [Ptr -> Nat] : Tree(heap, lev)
    BY DEF TreeInv, TreeInvAt
  <2>2. heap \in Heap /\ heap[p].length \in 0..B
    BY FieldTypes DEF TypeInv, TypeOK, Allocated
  <2>3. /\ i \in Nat /\ i < heap[p].length /\ i \in Position
        /\ 0 \in Nat /\ 0 < heap[p].length
    BY <2>2
  <2>4. CASE IsLeaf(heap, p)
    BY <2>1, <2>3, <2>4 DEF Tree, SlotsOK, IsLeaf, IsInternal
  <2>5. CASE IsInternal(heap, p)
    <3> DEFINE c == heap[p].children[i]
               d == heap[p].children[0]
    <3>1. /\ c \in Allocated(heap) /\ d \in Allocated(heap)
          /\ lev[p] = lev[c] + 1 /\ lev[p] = lev[d] + 1
      BY <2>1, <2>2, <2>3, <2>5, ChildOf
    <3>2. lev[c] \in Nat /\ lev[d] \in Nat
      BY <2>1, <3>1 DEF Tree, Allocated
    <3> HIDE DEF c, d
    <3>3. lev[c] = lev[d]
      BY <3>1, <3>2
    <3>4. IsLeaf(heap, c) <=> IsLeaf(heap, d)
      BY <2>1, <3>1, <3>3 DEF Tree
    <3>5. heap[c].kind = heap[d].kind
      BY <2>2, <3>1, <3>4, Kinds DEF IsLeaf, IsInternal
    <3>6. ~ IsLeaf(heap, p)
      BY <2>5 DEF IsLeaf, IsInternal
    <3> QED
      BY <3>1, <3>5, <3>6 DEF c, d
  <2> QED
    BY <2>2, <2>4, <2>5, Kinds
<1>2. Init => TypeInv /\ TreeInv
  BY InitTypeInv, InitTreeInv
<1>3. TypeInv /\ TreeInv /\ [Next]_vars => (TypeInv /\ TreeInv)'
  BY NextTypeInv, NextTreeInv
<1> QED
  BY <1>1, <1>2, <1>3, PTL DEF Spec

-----------------------------------------------------------------------------
(***************************************************************************)
(* remove_once.                                                            *)
(***************************************************************************)

\* Every child but n holds its B / 2 entries.
OthersFilled(h, n) ==
  \A p \in Allocated(h) : h[p].parent # None /\ p # n => h[p].length >= MinLength

\* After an exchange with a sibling every child does, but the emptied one.
Replenished(h, r, n) ==
  LET g == r.heap
  IN  \A p \in Allocated(h) :
        IF h[p].parent = None THEN g[p].length = h[p].length
        ELSE g[p].length >= MinLength \/ EmptiedBy(g, n, r.removal, p)

\* An entry moved from a sibling with more than B / 2 entries to a node that
\* is one short of it.
LEMMA MoveEntryFilled ==
  ASSUME NEW h \in Heap, NEW lev, NEW donor, NEW n, Siblings(h, lev, donor, n),
         CanLend(h, donor), NEW i \in Nat, i < h[donor].length,
         NEW j \in Nat, h[n].length < MinLength, h[n].length + 1 >= MinLength,
         OthersFilled(h, n)
  PROVE  Replenished(h, MoveEntry(h, donor, i, n, j), n)
<1> DEFINE f == SimpleRemove(h, donor, i)
           entry == Taken(h, donor, i)
           g == SimpleInsert(f, n, j, entry)
           r == MoveEntry(h, donor, i, n, j)
<1>1. /\ donor \in Ptr /\ n \in Ptr /\ donor # n
      /\ h[donor].parent # None /\ h[n].parent # None
      /\ h[donor].length > MinLength
  BY DEF Siblings, Allocated, CanLend
<1>2. r.heap = g
  BY DEF MoveEntry
<1>3. /\ f \in Heap /\ entry \in [slot : Slot, size : Nat]
      /\ \A p \in Ptr : f[p].length = h[p].length - (IF p = donor THEN 1 ELSE 0)
  BY <1>1, SimpleRemoveType
<1>4. /\ h[n].length \in Nat /\ MinLength \in Nat /\ MinLength < B
      /\ \A p \in Ptr : h[p].length \in Nat
  BY <1>1, FieldTypes DEF MinLength
<1> HIDE DEF f, entry, r
<1>5. f[n].length < B
  BY <1>1, <1>3, <1>4
<1>6. \A p \in Ptr : g[p].length = f[p].length + (IF p = n THEN 1 ELSE 0)
  BY <1>1, <1>3, <1>5, SimpleInsertType
<1> HIDE DEF g
<1>7. ASSUME NEW p \in Allocated(h)
      PROVE  IF h[p].parent = None THEN g[p].length = h[p].length
             ELSE g[p].length >= MinLength
  <2>0. p \in Ptr /\ h[p].length \in Nat
    BY <1>4 DEF Allocated
  <2>1. CASE p = n
    <3>1. g[p].length = h[p].length + 1
      BY <1>1, <1>3, <1>4, <1>6, <2>1
    <3> QED
      BY <1>1, <2>1, <3>1
  <2>2. CASE p = donor
    <3>1. g[p].length = h[p].length - 1
      BY <1>1, <1>3, <1>4, <1>6, <2>2
    <3> QED
      BY <1>1, <1>4, <2>0, <2>2, <3>1
  <2>3. CASE p # n /\ p # donor
    <3>1. g[p].length = h[p].length
      BY <1>3, <1>6, <2>0, <2>3
    <3> QED
      BY <2>3, <3>1 DEF OthersFilled
  <2> QED
    BY <2>1, <2>2, <2>3
<1> QED
  BY <1>2, <1>7 DEF Replenished, r

\* Two siblings merged, one of which is one entry short.
LEMMA MergeIntoFilled ==
  ASSUME NEW h \in Heap, NEW lev, Tree(h, lev), NEW dest, NEW src,
         Siblings(h, lev, dest, src), ~ MergePanics(h, dest, src),
         NEW n \in {dest, src},
         h[n].length + 1 >= MinLength, OthersFilled(h, n)
  PROVE  Replenished(h, MergeInto(h, dest, src), n)
<1> DEFINE g == Merge(h, dest, src)
           r == MergeInto(h, dest, src)
<1>1. /\ dest \in Allocated(h) /\ src \in Allocated(h) /\ dest # src
      /\ h[dest].parent # None /\ h[src].parent = h[dest].parent
      /\ lev[dest] = lev[src]
  BY DEF Siblings
<1>2. r.heap = g /\ r.removal.kind = "Merged" /\ r.removal.src = h[src].index
  BY DEF MergeInto
<1>3. /\ h[dest].length \in 0..B /\ h[src].length \in 0..B
      /\ MinLength \in Nat /\ MinLength >= 1 /\ MinLength + MinLength <= B
  BY <1>1, Kinds DEF MinLength
<1>4. Mergeable(h, lev, dest, src)
  <2>1. h[dest].length <= MinLength /\ h[src].length <= MinLength
    BY <1>3 DEF MergePanics
  <2>2. h[dest].length + h[src].length <= B
    BY <1>3, <2>1
  <2>3. IsInternal(h, dest) => h[dest].length >= 1
    BY <1>3 DEF MergePanics, IsLeaf, IsInternal, ChildPtr
  <2> QED
    BY <1>1, <2>2, <2>3 DEF Mergeable
<1>5. NodesMerged(h, g, dest, src)
  BY <1>4, MergeRelinks
<1>6. Spares(h, g, lev, lev[dest])
  BY <1>4, <1>5, NodesMergedFrame
<1> HIDE DEF g, r
<1>7. /\ g[src].length = 0
      /\ g[dest].length = h[dest].length + h[src].length
      /\ \A p \in Allocated(h) : p # src /\ p # dest => g[p].length = h[p].length
  BY <1>1, <1>5 DEF NodesMerged, Allocated
<1>8. SiblingsKept(h, g, dest, src)
  BY <1>6, SiblingsFrame
<1>9. EmptiedBy(g, n, r.removal, src)
  BY <1>1, <1>2, <1>8 DEF EmptiedBy, SiblingsKept
<1>10. g[dest].length >= MinLength
  <2>1. CASE n = dest
    <3>1. h[src].length >= MinLength
      BY <1>1, <2>1 DEF OthersFilled
    <3> QED
      BY <1>3, <1>7, <3>1
  <2>2. CASE n = src
    <3>1. h[dest].length >= MinLength
      BY <1>1, <2>2 DEF OthersFilled
    <3> QED
      BY <1>3, <1>7, <3>1
  <2> QED
    BY <2>1, <2>2
<1>11. ASSUME NEW p \in Allocated(h)
       PROVE  IF h[p].parent = None THEN g[p].length = h[p].length
              ELSE g[p].length >= MinLength \/ EmptiedBy(g, n, r.removal, p)
  <2>1. CASE p = src
    BY <1>1, <1>9, <2>1
  <2>2. CASE p = dest
    BY <1>1, <1>10, <2>2
  <2>3. CASE p # src /\ p # dest
    BY <1>7, <2>3 DEF OthersFilled
  <2> QED
    BY <2>1, <2>2, <2>3
<1> QED
  BY <1>2, <1>11 DEF Replenished, r

\* A child of a node with two children has a sibling.
LEMMA HasSibling ==
  ASSUME NEW h \in Heap, NEW lev, Tree(h, lev), NEW n \in Allocated(h),
         h[n].parent # None, h[h[n].parent].length >= 2
  PROVE  ~ (LeftSibling(h, n) = None /\ RightSibling(h, n) = None)
<1> DEFINE q == h[n].parent
           i == h[n].index
<1>1. /\ q \in Allocated(h) /\ IsInternal(h, q) /\ i \in Nat /\ i < h[q].length
  BY ParentOf
<1>2. h[q].length \in Nat /\ h[q].length >= 2
  BY <1>1, Kinds
<1> HIDE DEF q, i
<1>3. \A k \in Nat : k < h[q].length => ChildPtr(h, q, k) # None
  <2>1. ASSUME NEW k \in Nat, k < h[q].length PROVE ChildPtr(h, q, k) # None
    <3>1. h[q].children[k] \in Allocated(h)
      BY <1>1, <2>1, ChildOf
    <3>2. h[q].children[k] \in Ptr
      BY <3>1 DEF Allocated
    <3> QED
      BY <2>1, <3>2 DEF ChildPtr
  <2> QED
    BY <2>1
<1>4. CASE i = 0
  <2>1. i + 1 \in Nat /\ i + 1 < h[q].length
    BY <1>2, <1>4
  <2>2. ChildPtr(h, q, i + 1) # None
    BY <1>3, <2>1
  <2> QED
    BY <2>2 DEF RightSibling, q, i
<1>5. CASE i # 0
  <2>1. i - 1 \in Nat /\ i - 1 < h[q].length
    BY <1>1, <1>2, <1>5
  <2>2. ChildPtr(h, q, i - 1) # None
    BY <1>3, <2>1
  <2> QED
    BY <1>5, <2>2 DEF LeftSibling, q, i
<1> QED
  BY <1>4, <1>5

\* The search for a sibling that helps finds one.
LEMMA RebalanceFilled ==
  ASSUME NEW h \in Heap, NEW lev, Tree(h, lev), NEW n \in Allocated(h),
         ~ RebalancePanics(h, n), OthersFilled(h, n),
         h[n].parent # None =>
           h[n].length + 1 >= MinLength /\ h[h[n].parent].length >= 2
  PROVE  Replenished(h, Rebalance(h, n), n)
<1> DEFINE left == LeftSibling(h, n)
           right == RightSibling(h, n)
<1>1. h[n].length \in 0..B /\ n \in Ptr /\ MinLength \in 1..(B - 1)
  BY Kinds DEF MinLength
<1>2. left \in PtrOrNone /\ right \in PtrOrNone
  BY SiblingType
<1>3. /\ left # None => Siblings(h, lev, left, n) /\ Siblings(h, lev, n, left)
      /\ right # None => Siblings(h, lev, right, n) /\ Siblings(h, lev, n, right)
  BY SiblingsFound
<1>4. CASE h[n].length >= MinLength \/ (left = None /\ right = None)
  <2> DEFINE r == Rebalance(h, n)
  <2>1. r.heap = h
    BY <1>4 DEF Rebalance
  <2>2. h[n].parent # None => h[n].length >= MinLength
    BY <1>4, HasSibling
  <2> HIDE DEF r
  <2> QED
    BY <2>1, <2>2 DEF Replenished, OthersFilled, r
<1>5. CASE ~ (h[n].length >= MinLength \/ (left = None /\ right = None))
  <2>0. h[n].length < MinLength /\ h[n].parent # None /\ h[n].length + 1 >= MinLength
    BY <1>1, <1>5 DEF LeftSibling, RightSibling
  <2>1. Rebalance(h, n) =
          IF CanLend(h, left)
          THEN MoveEntry(h, left, h[left].length - 1, n, 0)
          ELSE IF CanLend(h, right)
          THEN MoveEntry(h, right, 0, n, h[n].length)
          ELSE IF right # None
          THEN MergeInto(h, n, right)
          ELSE MergeInto(h, left, n)
    BY <1>5 DEF Rebalance
  <2>2. ~ CanLend(h, left) /\ ~ CanLend(h, right) =>
          /\ right # None => ~ MergePanics(h, n, right)
          /\ right = None => ~ MergePanics(h, left, n)
    BY <2>0, <1>5 DEF RebalancePanics
  <2> HIDE DEF left, right
  <2>3. CASE CanLend(h, left)
    <3>1. left \in Ptr /\ h[left].length > MinLength /\ left # None
      BY <2>3 DEF CanLend
    <3>2. h[left].length \in 0..B
      BY <3>1, FieldTypes
    <3> DEFINE i == h[left].length - 1
    <3>3. i \in Nat /\ i < h[left].length /\ 0 \in Nat
      BY <1>1, <3>1, <3>2
    <3> HIDE DEF i
    <3>4. Replenished(h, MoveEntry(h, left, i, n, 0), n)
      BY <1>3, <2>0, <2>3, <3>1, <3>3, MoveEntryFilled
    <3> QED
      BY <2>1, <2>3, <3>4 DEF i
  <2>4. CASE ~ CanLend(h, left) /\ CanLend(h, right)
    <3>1. right \in Ptr /\ h[right].length > MinLength /\ right # None
      BY <2>4 DEF CanLend
    <3>2. h[right].length \in 0..B
      BY <3>1, FieldTypes
    <3> DEFINE j == h[n].length
    <3>3. 0 \in Nat /\ 0 < h[right].length /\ j \in Nat
      BY <1>1, <3>1, <3>2
    <3> HIDE DEF j
    <3>4. Replenished(h, MoveEntry(h, right, 0, n, j), n)
      BY <1>3, <2>0, <2>4, <3>1, <3>3, MoveEntryFilled
    <3> QED
      BY <2>1, <2>4, <3>4 DEF j
  <2>5. CASE ~ CanLend(h, left) /\ ~ CanLend(h, right) /\ right # None
    <3>1. Replenished(h, MergeInto(h, n, right), n)
      BY <1>3, <2>0, <2>2, <2>5, MergeIntoFilled
    <3> QED
      BY <2>1, <2>5, <3>1
  <2>6. CASE ~ CanLend(h, left) /\ ~ CanLend(h, right) /\ right = None
    <3>1. left # None
      BY <2>6, <1>5 DEF left, right
    <3>2. Replenished(h, MergeInto(h, left, n), n)
      BY <1>3, <2>0, <2>2, <2>6, <3>1, MergeIntoFilled
    <3> QED
      BY <2>1, <2>6, <3>2
  <2> QED
    BY <2>3, <2>4, <2>5, <2>6
<1> QED
  BY <1>4, <1>5

\* Every child holds its B / 2 entries, but perhaps the one about to leave n.
BeforeRemoval(h, n, i) ==
  \A p \in Allocated(h) :
    h[p].parent # None =>
      h[p].length >= MinLength \/ (IsInternal(h, n) /\ p = h[n].children[i])

\* Every child but the emptied one does afterwards, and only n, as a root, is
\* one entry shorter.
AfterRemoval(h, r, n) ==
  LET g == r.heap
  IN  \A p \in Allocated(h) :
        /\ g[p].parent # None =>
             g[p].length >= MinLength \/ EmptiedBy(g, n, r.removal, p)
        /\ h[p].parent = None =>
             g[p].length = h[p].length - (IF p = n THEN 1 ELSE 0)

\* remove_once keeps nodes filled.
LEMMA RemoveOnceFilled ==
  ASSUME NEW h \in Heap, NEW lev, Tree(h, lev), NEW n \in Allocated(h),
         NEW i \in Nat, ~ RemovePanics(h, n, i), BeforeRemoval(h, n, i),
         h[n].parent # None => h[h[n].parent].length >= 2
  PROVE  AfterRemoval(h, RemoveOnce(h, n, i), n)
<1> DEFINE f == SimpleRemove(h, n, i)
           r == RemoveOnce(h, n, i)
           c == h[n].children[i]
<1>1. n \in Ptr /\ h[n].length \in 0..B /\ (~ IsLeaf(h, n) <=> IsInternal(h, n))
  BY Kinds
<1>2. i < h[n].length /\ ~ RebalancePanics(f, n)
  BY <1>1 DEF RemovePanics
<1>3. Removed(h, f, lev, n, i)
  BY <1>2, SimpleRemoveTree
<1>4. f \in Heap
  BY <1>1, <1>2, SimpleRemoveType
<1>5. r = Rebalance(f, n)
  BY DEF RemoveOnce
<1>6. IsInternal(h, n) => c \in Allocated(h) /\ h[c].parent = n /\ c # n
  <2>1. ASSUME IsInternal(h, n)
        PROVE  c \in Allocated(h) /\ h[c].parent = n /\ lev[n] = lev[c] + 1
    BY <1>2, <2>1, ChildOf
  <2>2. lev[n] \in Nat
    BY <1>1 DEF Tree
  <2> HIDE DEF c
  <2> QED
    BY <2>1, <2>2
<1> HIDE DEF f, r, c
<1>7. /\ Tree(f, lev) /\ Allocated(f) = Allocated(h)
      /\ Roots(f) = Roots(h) \cup (IF IsLeaf(h, n) THEN {} ELSE {c})
      /\ Spares(h, f, lev, lev[n])
      /\ \A p \in Ptr : f[p].length = h[p].length - (IF p = n THEN 1 ELSE 0)
  BY <1>3 DEF Removed, c
<1>8. \A p \in Allocated(h) :
        f[p].parent = None <=> h[p].parent = None \/ (IsInternal(h, n) /\ p = c)
  BY <1>1, <1>7 DEF Roots
<1>9. \A p \in Allocated(h) : h[p].length \in Nat
  BY FieldTypes DEF Allocated
<1>10. OthersFilled(f, n)
  <2>1. ASSUME NEW p \in Allocated(h), f[p].parent # None, p # n
        PROVE  f[p].length >= MinLength
    <3>1. h[p].length >= MinLength
      BY <1>8, <2>1 DEF BeforeRemoval, c
    <3>2. f[p].length = h[p].length
      BY <1>7, <1>9, <2>1 DEF Allocated
    <3> QED
      BY <3>1, <3>2
  <2> QED
    BY <1>7, <2>1 DEF OthersFilled
<1>11. f[n].parent # None =>
         f[n].length + 1 >= MinLength /\ f[f[n].parent].length >= 2
  <2> SUFFICES ASSUME f[n].parent # None
               PROVE  f[n].length + 1 >= MinLength /\ f[f[n].parent].length >= 2
    OBVIOUS
  <2>1. h[n].parent # None /\ ~ (IsInternal(h, n) /\ n = c)
    BY <1>8
  <2>2. f[n].length = h[n].length - 1 /\ h[n].length >= MinLength
    BY <1>1, <1>7, <2>1 DEF BeforeRemoval, c
  <2> DEFINE q == h[n].parent
  <2>3. q \in Allocated(h) /\ lev[q] = lev[n] + 1 /\ lev[n] \in Nat
    BY <1>1, <2>1, ParentOf DEF Tree
  <2>4. h[q].length >= 2
    BY <2>1
  <2> HIDE DEF q
  <2>5. f[n].parent = q /\ lev[n] >= lev[n] /\ lev[q] # lev[n]
    BY <1>7, <2>3 DEF Spares, q
  <2>6. f[q].length = h[q].length
    BY <1>7, <2>3, <2>5 DEF Spares
  <2> QED
    BY <1>1, <2>2, <2>4, <2>5, <2>6
<1>12. Replenished(f, r, n)
  BY <1>2, <1>4, <1>5, <1>7, <1>10, <1>11, RebalanceFilled
<1>13. Rebalanced(f, r, lev, n)
  BY <1>2, <1>4, <1>5, <1>7, RebalanceTree
<1> DEFINE g == r.heap
<1> HIDE DEF g
<1>14. /\ Roots(g) = Roots(f) /\ Allocated(g) = Allocated(h)
       /\ \A p \in Allocated(h) :
            IF f[p].parent = None THEN g[p].length = f[p].length
            ELSE g[p].length >= MinLength \/ EmptiedBy(g, n, r.removal, p)
  BY <1>7, <1>12, <1>13 DEF Replenished, Rebalanced, g
<1>15. \A p \in Allocated(h) : f[p].parent = None <=> g[p].parent = None
  BY <1>7, <1>14 DEF Roots
<1>16. \A p \in Allocated(h) : f[p].length = h[p].length - (IF p = n THEN 1 ELSE 0)
  BY <1>7 DEF Allocated
<1>17. ASSUME NEW p \in Allocated(h)
       PROVE  /\ g[p].parent # None =>
                   g[p].length >= MinLength \/ EmptiedBy(g, n, r.removal, p)
              /\ h[p].parent = None =>
                   g[p].length = h[p].length - (IF p = n THEN 1 ELSE 0)
  BY <1>8, <1>14, <1>15, <1>16
<1> QED
  BY <1>17 DEF AfterRemoval, g, r

-----------------------------------------------------------------------------
(***************************************************************************)
(* The calls.                                                              *)
(***************************************************************************)

\* Filled without the exceptions for a removal.
NodesFilled(h) ==
  \A p \in Allocated(h) :
    IF h[p].parent # None THEN h[p].length >= MinLength
    ELSE IsInternal(h, p) => h[p].length >= 2

\* The halves of a node that was split are filled before they are children.
FilledInv ==
  /\ pc # "panicked" => Filled
  /\ Inserting /\ split # None =>
       heap[split].length >= MinLength /\ heap[node].length >= MinLength

\* While nothing is being removed Filled has no exceptions.
LEMMA FilledMeans ==
  ASSUME B >= 4, heap \in Heap, ~ Removing
  PROVE  Filled <=> NodesFilled(heap)
<1>1. /\ MinLength \in Nat /\ MinLength >= 2
      /\ \A p \in Allocated(heap) :
           heap[p].length \in Nat /\ (IsLeaf(heap, p) <=> ~ IsInternal(heap, p))
  BY Kinds DEF MinLength
<1>2. \A p \in Allocated(heap) : ~ IsEmptied(p)
  BY DEF IsEmptied
<1>3. ASSUME NEW p \in Allocated(heap)
      PROVE  (\/ heap[p].length >= MinLength /\ heap[p].length >= 2
              \/ heap[p].parent = None /\ (IsLeaf(heap, p) \/ heap[p].length >= 2))
             <=> (IF heap[p].parent # None THEN heap[p].length >= MinLength
                  ELSE IsInternal(heap, p) => heap[p].length >= 2)
  BY <1>1
<1> QED
  BY <1>2, <1>3 DEF Filled, NodesFilled

\* Outside a removal this is all there is to show.
LEMMA CalmStep ==
  ASSUME B >= 4, TypeInv', ~ Removing', NodesFilled(heap'),
         Inserting' /\ split' # None =>
           heap'[split'].length >= MinLength /\ heap'[node'].length >= MinLength
  PROVE  FilledInv'
<1>1. heap' \in Heap
  BY DEF TypeInv, TypeOK
<1>2. (heap \in Heap /\ ~ Removing)' => (Filled <=> NodesFilled(heap))'
  BY FilledMeans, PTL
<1>3. Filled' <=> NodesFilled(heap')
  BY <1>1, <1>2 DEF NodesFilled
<1> QED
  BY <1>3 DEF FilledInv

\* In another heap the nodes hang and are filled as they were.
SameShape(h, g) ==
  \A p \in Ptr : /\ g[p].kind = h[p].kind /\ g[p].parent = h[p].parent
                 /\ g[p].length = h[p].length

\* NodesFilled is about nothing else.
LEMMA SameFilled ==
  ASSUME NEW h, NEW g, SameShape(h, g), NodesFilled(h)
  PROVE  NodesFilled(g)
BY DEF NodesFilled, SameShape, Allocated, IsInternal

\* A step that leaves the shape alone.
LEMMA QuietStep ==
  ASSUME B >= 4, TypeInv, TypeInv', FilledInv, pc # "panicked",
         ~ Removing, ~ Removing', SameShape(heap, heap'),
         ~ (Inserting' /\ split' # None)
  PROVE  FilledInv'
<1>1. heap \in Heap
  BY DEF TypeInv, TypeOK
<1>2. NodesFilled(heap)
  BY <1>1, FilledMeans DEF FilledInv
<1>3. NodesFilled(heap')
  BY <1>2, SameFilled
<1> QED
  BY <1>3, CalmStep

\* A failing check.
LEMMA PanicFilled == Panic => FilledInv'
BY DEF Panic, Leave, FilledInv, Inserting

\* The empty vector.
LEMMA InitFilled == Init => FilledInv
<1> SUFFICES ASSUME Init PROVE FilledInv
  OBVIOUS
<1>1. Allocated(heap) = {} /\ ~ Inserting
  BY DEF Init, Allocated, NewNode, Inserting
<1> QED
  BY <1>1 DEF FilledInv, Filled

\* The start of a call: a first leaf needs no items.
LEMMA BeginFilled ==
  ASSUME B >= 4, TypeInv, TypeInv', FilledInv, Begin
  PROVE  FilledInv'
<1>1. /\ pc = "idle" /\ pc' = "seek" /\ heap \in Heap
      /\ ~ Removing /\ ~ Removing' /\ ~ Inserting'
  BY DEF Begin, BeginInsert, BeginRemove, BeginGet, BeginSet, Enter, TypeInv,
         TypeOK, Removing, Inserting
<1>2. CASE UNCHANGED heap
  BY <1>1, <1>2, QuietStep DEF SameShape
<1>3. CASE ~ UNCHANGED heap
  <2> DEFINE leaf == Fresh(heap)
  <2>1. heap' = Alloc(heap, leaf, "leaf") /\ Free(heap) # {}
    BY <1>3 DEF Begin, BeginInsert, BeginRemove, BeginGet, BeginSet, fields
  <2>2. leaf \in Ptr
    BY <2>1, FreshType
  <2> HIDE DEF leaf
  <2>3. \A p \in Ptr : heap'[p] = IF p = leaf THEN NewNode("leaf") ELSE heap[p]
    BY <1>1, <2>1, <2>2 DEF Alloc, Heap
  <2>4. NodesFilled(heap)
    BY <1>1, FilledMeans DEF FilledInv
  <2>5. NodesFilled(heap')
    BY <2>3, <2>4 DEF NodesFilled, NewNode, Allocated, IsInternal
  <2> QED
    BY <1>1, <2>5, CalmStep
<1> QED
  BY <1>2, <1>3

\* leaf_for, get and get_mut, the return to the caller and the end of insert
\* change no shape.
LEMMA ReadFilled ==
  ASSUME B >= 4, TypeInv, TypeInv', FilledInv,
         Descend \/ Get \/ Set \/ Return \/ FinishInsert
  PROVE  FilledInv'
<1>1. CASE Panic
  BY <1>1, PanicFilled
<1>2. CASE ~ Panic
  <2>1. /\ pc # "panicked" /\ ~ Removing /\ ~ Removing' /\ ~ Inserting'
    BY <1>2 DEF Descend, Get, Set, Return, FinishInsert, AtLeaf, Leave,
                Removing, Inserting
  <2>2. SameShape(heap, heap')
    <3>1. CASE Set
      <4>1. /\ heap' = [heap EXCEPT ![node].children[index] = held]
            /\ heap \in Heap
        BY <1>2, <3>1 DEF Set, TypeInv, TypeOK
      <4> QED
        BY <4>1 DEF SameShape, Heap, Node
    <3>2. CASE ~ Set
      <4>1. heap' = heap
        BY <1>2, <3>2 DEF Descend, Get, Return, FinishInsert, fields
      <4> QED
        BY <4>1 DEF SameShape
    <3> QED
      BY <3>1, <3>2
  <2> QED
    BY <2>1, <2>2, QuietStep
<1> QED
  BY <1>1, <1>2

\* The climb of insert changes sizes only, where nothing was split; so does a
\* failing allocation.
LEMMA CreditFilled ==
  ASSUME B >= 4, TypeInv, TypeInv', TreeInv, FilledInv,
         ClimbInsert \/ AllocFails
  PROVE  FilledInv'
<1> DEFINE parent == heap[node].parent
           i == heap[node].index
<1>1. CASE Panic
  BY <1>1, PanicFilled
<1>2. CASE ~ Panic
  <2>1. /\ pc # "panicked" /\ ~ Removing /\ ~ Removing'
        /\ ~ (Inserting' /\ split' # None) /\ heap \in Heap
    BY <1>2 DEF ClimbInsert, AllocFails, AtLeaf, Leave, Removing, Inserting,
                TypeInv, TypeOK
  <2>2. CASE heap' = heap
    BY <2>1, <2>2, QuietStep DEF SameShape
  <2>3. CASE heap' # heap
    <3>1. heap' = Credit(heap, parent, i) /\ Inserting /\ parent # None
      BY <1>2, <2>3 DEF ClimbInsert, AllocFails
    <3>2. PICK lev \in [Ptr -> Nat] : Climbing(lev)
      BY <3>1, ClimbingThen
    <3>3. parent \in Ptr
      BY <3>1, <3>2, ParentOf DEF Climbing, Allocated
    <3> HIDE DEF parent, i
    <3>4. Resized(heap, heap', parent)
      BY <2>1, <3>1, <3>3, CreditResized
    <3> QED
      BY <2>1, <3>4, QuietStep DEF Resized, SameShape
  <2> QED
    BY <2>2, <2>3
<1> QED
  BY <1>1, <1>2

\* Before insert_once a new root n may hold its first child only.
BeforeInsertion(h, n, slot) ==
  /\ \A p \in Allocated(h) :
       IF h[p].parent # None THEN h[p].length >= MinLength
       ELSE IsInternal(h, p) => h[p].length >= (IF p = n THEN 1 ELSE 2)
  /\ slot \in Roots(h) => h[slot].length >= MinLength

\* insert_once keeps nodes filled, both halves of n included.
LEMMA InsertOnceFilled ==
  ASSUME B >= 4, NEW h \in Heap, NEW lev, Tree(h, lev), NEW n \in Allocated(h),
         NEW slot, NEW new, h[n].length = B => new \in Free(h),
         NEW r, r.heap \in Heap, InsertedOnce(h, r, lev, n, slot, new),
         BeforeInsertion(h, n, slot)
  PROVE  /\ NodesFilled(r.heap)
         /\ r.split # None => r.heap[r.split].length >= MinLength
                              /\ r.heap[n].length >= MinLength
<1> DEFINE g == r.heap
<1>1. /\ MinLength \in Nat /\ MinLength >= 2
      /\ \A p \in Allocated(h) : h[p].length \in 0..B
      /\ \A p \in Allocated(g) : g[p].length \in 0..B
      /\ n \in Ptr
  BY Kinds DEF MinLength
<1>2. g \in Heap
  OBVIOUS
<1> HIDE DEF g
<1>3. CASE h[n].length < B
  <2>1. /\ r.split = None /\ Allocated(g) = Allocated(h)
        /\ Roots(g) = Roots(h) \ {slot} /\ Spares(h, g, lev, lev[n])
        /\ \A p \in Ptr : g[p].length = h[p].length + (IF p = n THEN 1 ELSE 0)
    BY <1>3 DEF InsertedOnce, Inserted, g
  <2>2. ASSUME NEW p \in Allocated(g)
        PROVE  IF g[p].parent # None THEN g[p].length >= MinLength
               ELSE IsInternal(g, p) => g[p].length >= 2
    <3>1. /\ p \in Allocated(h) /\ p \in Ptr /\ (IsInternal(g, p) <=> IsInternal(h, p))
          /\ g[p].length = h[p].length + (IF p = n THEN 1 ELSE 0)
          /\ h[p].length \in Nat
      BY <1>1, <2>1 DEF Allocated, Spares, IsInternal
    <3>2. CASE g[p].parent # None
      <4>1. p \notin Roots(h) \/ p = slot
        BY <2>1, <3>2 DEF Roots
      <4>2. h[p].length >= MinLength
        BY <3>1, <4>1 DEF Roots, BeforeInsertion
      <4> QED
        BY <1>1, <3>1, <3>2, <4>2
    <3>3. CASE g[p].parent = None
      <4>1. h[p].parent = None
        BY <2>1, <3>1, <3>3 DEF Roots
      <4>2. IsInternal(h, p) => h[p].length >= (IF p = n THEN 1 ELSE 2)
        BY <3>1, <4>1 DEF BeforeInsertion
      <4> QED
        BY <3>1, <3>3, <4>2
    <3> QED
      BY <3>2, <3>3
  <2> QED
    BY <2>1, <2>2 DEF NodesFilled, g
<1>4. CASE ~ (h[n].length < B)
  <2>1. h[n].length = B /\ new \in Ptr /\ new \notin Allocated(h) /\ new # None
    BY <1>1, <1>4 DEF Free, Allocated
  <2>2. /\ r.split = new /\ Tree(g, Beside(lev, n, new))
        /\ Allocated(g) = Allocated(h) \cup {new}
        /\ Roots(g) = (Roots(h) \ {slot}) \cup {new}
        /\ \A p \in Allocated(g) : IF p \in {n, new}
                                   THEN g[p].length >= MinLength
                                   ELSE g[p].length = h[p].length
    BY <1>4 DEF InsertedOnce, g
  <2>3. \A p \in Ptr : p # new => Beside(lev, n, new)[p] = lev[p]
    BY <2>1 DEF Tree, Beside
  <2>4. ASSUME NEW p \in Allocated(g)
        PROVE  IF g[p].parent # None THEN g[p].length >= MinLength
               ELSE IsInternal(g, p) => g[p].length >= 2
    <3>1. CASE p \in {n, new}
      <4>1. g[p].length >= MinLength /\ g[p].length \in Nat
        BY <1>1, <2>2, <3>1
      <4> QED
        BY <1>1, <4>1
    <3>2. CASE p \notin {n, new}
      <4>1. p \in Allocated(h) /\ p \in Ptr /\ g[p].length = h[p].length
        BY <2>2, <3>2 DEF Allocated
      <4>2. CASE g[p].parent # None
        <5>1. p \notin Roots(h) \/ p = slot
          BY <2>2, <4>2 DEF Roots
        <5>2. h[p].length >= MinLength
          BY <4>1, <5>1 DEF Roots, BeforeInsertion
        <5> QED
          BY <4>1, <4>2, <5>2
      <4>3. CASE g[p].parent = None
        <5>1. h[p].parent = None
          BY <2>2, <3>2, <4>1, <4>3 DEF Roots
        <5>2. IsInternal(g, p) => IsInternal(h, p)
          <6>1. IsLeaf(g, p) <=> IsLeaf(h, p)
            BY <2>2, <2>3, <3>2, <4>1 DEF Tree
          <6> QED
            BY <4>1, <6>1, Kinds DEF IsLeaf, IsInternal
        <5>3. IsInternal(h, p) => h[p].length >= 2
          BY <3>2, <4>1, <5>1 DEF BeforeInsertion
        <5> QED
          BY <4>1, <4>3, <5>2, <5>3
      <4> QED
        BY <4>2, <4>3
    <3> QED
      BY <3>1, <3>2
  <2>5. n \in Allocated(g) /\ new \in Allocated(g)
    BY <2>2
  <2> QED
    BY <2>2, <2>4, <2>5 DEF NodesFilled, g
<1> QED
  BY <1>3, <1>4

\* insert_once at the leaf.
LEMMA InsertAtLeafFilled ==
  ASSUME B >= 4, TypeInv, TypeInv', TreeInv, FilledInv, InsertAtLeaf
  PROVE  FilledInv'
<1> DEFINE entry == Entry(held, 1)
           new == Fresh(heap)
           result == InsertOnce(heap, node, index, entry, new)
<1>0. /\ pc = "seek" /\ request.op = "insert" /\ node \in Ptr /\ heap \in Heap
      /\ index \in Nat /\ held \in Item /\ IsLeaf(heap, node)
      /\ heap' \in Heap /\ ~ Removing
  BY DEF InsertAtLeaf, AtLeaf, TypeInv, TypeOK, CallOK, TreeInv, TreeInvAt, HeldOK,
         Removing
<1>1. PICK lev \in [Ptr -> Nat] : Tree(heap, lev)
  BY DEF TreeInv, TreeInvAt
<1>2. CASE InsertPanics(heap, node, index)
  BY <1>2, PanicFilled DEF InsertAtLeaf
<1>3. CASE ~ InsertPanics(heap, node, index)
  <2>1. /\ heap' = result.heap /\ split' = result.split
        /\ pc' = "climb" /\ request' = request /\ node' = node
    BY <1>3 DEF InsertAtLeaf
  <2>2. heap[node].length = B => new \in Free(heap)
    BY DEF InsertAtLeaf, Fresh, Free
  <2>3. entry.slot = held /\ entry \in [slot : Slot, size : Nat]
    BY <1>0 DEF Entry, Slot
  <2>4. node \in Allocated(heap) /\ heap[node].length \in 0..B
    BY <1>0, FieldTypes DEF Allocated, IsLeaf
  <2>5. index \in 0..heap[node].length
    BY <1>0, <1>3, <2>4 DEF InsertPanics
  <2> HIDE DEF entry, new
  <2>6. InsertOK(heap, lev, node, index, entry)
    BY <1>0, <2>3, <2>4, <2>5 DEF InsertOK
  <2>7. InsertedOnce(heap, result, lev, node, held, new)
    BY <1>0, <1>1, <2>2, <2>3, <2>6, InsertOnceTree
  <2> HIDE DEF result
  <2>8. NodesFilled(heap)
    BY <1>0, FilledMeans DEF FilledInv
  <2>9. BeforeInsertion(heap, node, held)
    <3>1. held \notin Roots(heap)
      BY <1>0 DEF Roots, Allocated
    <3>2. ~ IsInternal(heap, node)
      BY <1>0 DEF IsLeaf, IsInternal
    <3> QED
      BY <2>8, <3>1, <3>2 DEF BeforeInsertion, NodesFilled
  <2>10. /\ NodesFilled(heap')
         /\ split' # None => heap'[split'].length >= MinLength
                             /\ heap'[node'].length >= MinLength
    BY <1>0, <1>1, <2>1, <2>2, <2>4, <2>7, <2>9, InsertOnceFilled
  <2>11. ~ Removing'
    BY <1>0, <2>1 DEF Removing
  <2> QED
    BY <2>10, <2>11, CalmStep
<1> QED
  BY <1>2, <1>3

\* handle_insertion with a half to link.
LEMMA ClimbSplitFilled ==
  ASSUME B >= 4, TypeInv, TypeInv', TreeInv, FilledInv, ClimbSplit
  PROVE  FilledInv'
<1> DEFINE parent == heap[node].parent
           i == heap[node].index
           new == Fresh(heap)
<1>1. Inserting /\ split # None /\ ~ Removing /\ heap \in Heap /\ heap' \in Heap
      /\ pc # "panicked"
  BY DEF ClimbSplit, Inserting, Removing, TypeInv, TypeOK
<1>2. PICK lev \in [Ptr -> Nat] : Climbing(lev)
  BY <1>1, ClimbingThen
<1>3. CASE LinkPanics(heap, parent, i)
  BY <1>3, PanicFilled DEF ClimbSplit
<1>4. CASE ~ LinkPanics(heap, parent, i)
  <2>1. PICK g, r : /\ HalfLinked(heap, g, r, lev, parent, i, new)
                    /\ heap' = r.heap /\ split' = r.split /\ node' = parent
                    /\ UNCHANGED <<root, size, request, pc, index, held, removal>>
    BY <1>2, <1>4, ClimbSplitLinks
  <2> HIDE DEF parent, i, new
  <2>2. /\ parent \in Allocated(g) /\ Resized(heap, g, parent) /\ g \in Heap
        /\ Tree(g, lev) /\ Roots(g) = Roots(heap) /\ Allocated(g) = Allocated(heap)
        /\ g[parent].length = B => new \in Free(g)
        /\ InsertedOnce(g, r, lev, parent, split, new)
    BY <2>1 DEF HalfLinked
  <2>3. NodesFilled(heap) /\ heap[split].length >= MinLength
    BY <1>1, FilledMeans DEF FilledInv
  <2>4. SameShape(heap, g)
    BY <2>2 DEF Resized, SameShape
  <2>5. NodesFilled(g)
    BY <2>3, <2>4, SameFilled
  <2>6. BeforeInsertion(g, parent, split)
    <3>1. split \in Roots(g) => g[split].length >= MinLength
      BY <2>3, <2>4 DEF SameShape, Roots, Allocated
    <3>2. \A p \in Allocated(g) : g[p].length \in Nat
      BY <2>2, FieldTypes DEF Allocated
    <3> QED
      BY <2>5, <3>1, <3>2 DEF BeforeInsertion, NodesFilled
  <2>7. /\ NodesFilled(heap')
        /\ split' # None => heap'[split'].length >= MinLength
                            /\ heap'[node'].length >= MinLength
    BY <1>1, <2>1, <2>2, <2>6, InsertOnceFilled
  <2>8. ~ Removing'
    BY <1>1, <2>1 DEF Removing
  <2> QED
    BY <2>7, <2>8, CalmStep
<1> QED
  BY <1>3, <1>4

\* handle_insertion at the root: the new root has two children.
LEMMA GrowRootFilled ==
  ASSUME B >= 4, TypeInv, TypeInv', TreeInv, FilledInv, GrowRoot
  PROVE  FilledInv'
<1> DEFINE parent == Fresh(heap)
           first == Entry(node, size)
           grown == SimpleInsert(Alloc(heap, parent, "internal"), parent, 0, first)
<1>1. Inserting /\ split # None /\ ~ Removing /\ heap \in Heap /\ heap' \in Heap
      /\ pc # "panicked" /\ heap[node].parent = None
  BY DEF GrowRoot, Inserting, Removing, TypeInv, TypeOK
<1>2. PICK lev \in [Ptr -> Nat] : Climbing(lev)
  BY <1>1, ClimbingThen
<1>3. CASE LinkPanics(grown, parent, heap[node].index)
  BY <1>3, PanicFilled DEF GrowRoot
<1>4. CASE ~ LinkPanics(grown, parent, heap[node].index)
  <2>1. PICK lev2, f, c, g, r :
          /\ Crowned(heap, f, c, lev2, parent, first, split)
          /\ HalfLinked(c, g, r, lev2, parent, 0, None)
          /\ Inserted(g, r.heap, lev2, parent, split)
          /\ heap' = r.heap /\ split' = None /\ node' = parent
          /\ node = root /\ heap[node].index = 0 /\ split \in Ptr
          /\ UNCHANGED <<root, size, request, pc, index, held, removal>>
    BY <1>2, <1>4, GrowRootLinks
  <2> HIDE DEF parent, grown, first
  <2>2. /\ c \in Heap /\ Inserted(f, c, lev2, parent, node)
        /\ parent \in Ptr /\ parent \notin Allocated(heap)
        /\ Roots(c) = {parent, split} /\ split # parent
        /\ Allocated(c) = Allocated(heap) \cup {parent}
        /\ c[parent].length = 1
        /\ \A p \in Ptr : p # parent => f[p] = heap[p]
        /\ Tree(f, lev2)
    BY <2>1 DEF Crowned, first, Entry
  <2>3. /\ Resized(c, g, parent) /\ g \in Heap /\ Tree(g, lev2)
        /\ parent \in Allocated(g) /\ (g[parent].length = B => None \in Free(g))
        /\ InsertedOnce(g, r, lev2, parent, split, None)
        /\ Allocated(g) = Allocated(c) /\ Roots(g) = Roots(c)
    BY <2>1, <2>2 DEF HalfLinked
  <2>4. /\ \A p \in Ptr : g[p].length = c[p].length /\ g[p].kind = c[p].kind
                          /\ g[p].parent = c[p].parent
    BY <2>3 DEF Resized
  <2>5. NodesFilled(heap) /\ heap[split].length >= MinLength
        /\ heap[node].length >= MinLength
    BY <1>1, FilledMeans DEF FilledInv
  <2>6. ASSUME NEW p \in Allocated(g), p # parent
        PROVE  /\ g[p].length = heap[p].length
               /\ g[p].parent # None => heap[p].parent # None \/ p = node
               /\ g[p].parent = None => p = split
    <3>1. p \in Ptr /\ p \in Allocated(heap) /\ heap[p].length \in 0..B
      BY <1>1, <2>2, <2>3, <2>6, FieldTypes DEF Allocated
    <3>2. g[p].length = heap[p].length + 0
      BY <2>2, <2>4, <2>6, <3>1 DEF Inserted
    <3>3. g[p].parent = IF p = node THEN parent ELSE heap[p].parent
      BY <2>2, <2>4, <2>6, <3>1 DEF Inserted
    <3>4. g[p].parent = None => p = split
      BY <2>2, <2>3, <2>6 DEF Roots
    <3> QED
      BY <3>1, <3>2, <3>3, <3>4
  <2>7. BeforeInsertion(g, parent, split)
    <3>1. ASSUME NEW p \in Allocated(g)
          PROVE  IF g[p].parent # None THEN g[p].length >= MinLength
                 ELSE IsInternal(g, p) => g[p].length >= (IF p = parent THEN 1 ELSE 2)
      <4>1. CASE p = parent
        <5>1. g[p].parent = None
          BY <2>2, <2>3, <4>1 DEF Roots
        <5> QED
          BY <2>2, <2>4, <4>1, <5>1
      <4>2. CASE p # parent
        <5>1. p \in Allocated(heap)
          BY <2>2, <2>3, <4>2
        <5>2. g[p].parent # None => g[p].length >= MinLength
          BY <2>5, <2>6, <4>2, <5>1 DEF NodesFilled
        <5>3. g[p].parent = None => g[p].length >= MinLength
          BY <2>5, <2>6, <4>2
        <5>4. MinLength \in Nat /\ MinLength >= 2 /\ g[p].length \in Nat
          BY <2>3, FieldTypes DEF Allocated, MinLength
        <5> QED
          BY <4>2, <5>2, <5>3, <5>4
      <4> QED
        BY <4>1, <4>2
    <3>2. split \in Roots(g) => g[split].length >= MinLength
      BY <2>2, <2>5, <2>6 DEF Roots
    <3> QED
      BY <3>1, <3>2 DEF BeforeInsertion
  <2>8. NodesFilled(heap')
    BY <1>1, <2>1, <2>3, <2>7, InsertOnceFilled
  <2>9. ~ Removing'
    BY <1>1, <2>1 DEF Removing
  <2> QED
    BY <2>1, <2>8, <2>9, CalmStep
<1> QED
  BY <1>3, <1>4

\* During a removal a node can be emptied and a root have one child left.
LEMMA RemovingStep ==
  ASSUME B >= 4, TypeInv', Removing', ~ Inserting',
         \A p \in Allocated(heap') :
           /\ heap'[p].parent # None =>
                heap'[p].length >= MinLength \/ EmptiedBy(heap', node', removal', p)
           /\ heap'[p].parent = None =>
                \/ IsLeaf(heap', p) \/ heap'[p].length >= 2
                \/ p = node' /\ heap'[p].length = 1
  PROVE  FilledInv'
<1>1. MinLength \in Nat /\ MinLength >= 2
  BY DEF MinLength
<1>2. ASSUME NEW p \in Allocated(heap')
      PROVE  \/ heap'[p].length >= MinLength /\ heap'[p].length >= 2
             \/ heap'[p].parent = None
                  /\ (IsLeaf(heap', p) \/ heap'[p].length >= 2)
             \/ EmptiedBy(heap', node', removal', p)
             \/ p = node' /\ heap'[p].parent = None /\ heap'[p].length = 1
  <2>1. CASE heap'[p].parent = None
    BY <1>2, <2>1
  <2>2. CASE heap'[p].parent # None /\ heap'[p].length >= MinLength
    <3>1. heap'[p].length \in 0..B
      BY <1>2, Kinds DEF TypeInv, TypeOK
    <3> QED
      BY <1>1, <2>2, <3>1
  <2> QED
    BY <2>1, <2>2
<1>3. Filled'
  BY <1>2 DEF Filled, IsEmptied, EmptiedBy
<1> QED
  BY <1>3 DEF FilledInv

\* The parent of a node has two children.
LEMMA ParentFilled ==
  ASSUME B >= 4, NEW h \in Heap, NEW lev, Tree(h, lev), NodesFilled(h),
         NEW n \in Allocated(h), h[n].parent # None
  PROVE  h[h[n].parent].length >= 2
<1> DEFINE q == h[n].parent
<1>1. q \in Allocated(h) /\ IsInternal(h, q)
  BY ParentOf
<1> HIDE DEF q
<1>2. MinLength \in Nat /\ MinLength >= 2 /\ h[q].length \in 0..B
  BY <1>1, Kinds DEF MinLength
<1>3. h[q].length >= 2
  BY <1>1, <1>2 DEF NodesFilled
<1> QED
  BY <1>3 DEF q

\* remove_once at the leaf.
LEMMA RemoveAtLeafFilled ==
  ASSUME B >= 4, TypeInv, TypeInv', TreeInv, FilledInv, RemoveAtLeaf
  PROVE  FilledInv'
<1> DEFINE result == RemoveOnce(heap, node, index)
<1>0. /\ pc = "seek" /\ request.op = "remove" /\ node \in Ptr /\ heap \in Heap
      /\ index \in Nat /\ IsLeaf(heap, node) /\ ~ Removing
  BY DEF RemoveAtLeaf, AtLeaf, TypeInv, TypeOK, CallOK, Removing
<1>1. PICK lev \in [Ptr -> Nat] : Tree(heap, lev)
  BY DEF TreeInv, TreeInvAt
<1>2. CASE RemovePanics(heap, node, index)
  BY <1>2, PanicFilled DEF RemoveAtLeaf
<1>3. CASE ~ RemovePanics(heap, node, index)
  <2>1. /\ heap' = result.heap /\ removal' = result.removal /\ pc' = "climb"
        /\ request' = request /\ node' = node
    BY <1>3 DEF RemoveAtLeaf
  <2>2. node \in Allocated(heap)
    BY <1>0 DEF Allocated, IsLeaf
  <2>3. NodesFilled(heap)
    BY <1>0, FilledMeans DEF FilledInv
  <2>4. /\ BeforeRemoval(heap, node, index)
        /\ heap[node].parent # None => heap[heap[node].parent].length >= 2
    BY <1>0, <1>1, <2>2, <2>3, ParentFilled DEF BeforeRemoval, NodesFilled
  <2>5. RemovedOnce(heap, result, lev, node, index)
    BY <1>0, <1>1, <1>3, <2>2, RemoveOnceTree
  <2>6. AfterRemoval(heap, result, node)
    BY <1>0, <1>1, <1>3, <2>2, <2>4, RemoveOnceFilled
  <2> HIDE DEF result
  <2>7. /\ Allocated(heap') = Allocated(heap) /\ Roots(heap') = Roots(heap)
        /\ Spares(heap, heap', lev, lev[node])
    BY <1>0, <2>1, <2>5 DEF RemovedOnce
  <2>8. ASSUME NEW p \in Allocated(heap')
        PROVE  /\ heap'[p].parent # None =>
                    heap'[p].length >= MinLength \/ EmptiedBy(heap', node', removal', p)
               /\ heap'[p].parent = None =>
                    \/ IsLeaf(heap', p) \/ heap'[p].length >= 2
                    \/ p = node' /\ heap'[p].length = 1
    <3>1. p \in Allocated(heap) /\ heap[p].length \in 0..B
      BY <1>0, <2>7, Kinds
    <3>2. heap'[p].parent # None =>
            heap'[p].length >= MinLength \/ EmptiedBy(heap', node', removal', p)
      BY <2>1, <2>6, <3>1 DEF AfterRemoval
    <3>3. ASSUME heap'[p].parent = None, ~ IsLeaf(heap', p)
          PROVE  heap'[p].length >= 2
      <4>1. heap[p].parent = None /\ ~ IsLeaf(heap, p) /\ p # node
        BY <1>0, <2>7, <3>1, <3>3 DEF Roots, Spares, IsLeaf
      <4>2. heap'[p].length = heap[p].length - 0
        BY <2>1, <2>6, <3>1, <4>1 DEF AfterRemoval
      <4>3. heap[p].length >= 2
        BY <1>0, <2>3, <3>1, <4>1, Kinds DEF NodesFilled
      <4> QED
        BY <3>1, <4>2, <4>3
    <3> QED
      BY <3>2, <3>3
  <2>9. Removing' /\ ~ Inserting'
    BY <1>0, <2>1 DEF Removing, Inserting
  <2> QED
    BY <2>8, <2>9, RemovingStep
<1> QED
  BY <1>2, <1>3

\* While a removal climbs, the exceptions of Filled are those of FilledInv.
LEMMA RemovingFilled ==
  ASSUME B >= 4, TypeInv, FilledInv, Removing, heap[node].parent # None
  PROVE  \A p \in Allocated(heap) :
           /\ heap[p].parent # None =>
                heap[p].length >= MinLength \/ EmptiedBy(heap, node, removal, p)
           /\ heap[p].parent = None => IsLeaf(heap, p) \/ heap[p].length >= 2
<1>1. Filled /\ MinLength >= 2
  BY DEF FilledInv, Removing, MinLength
<1>2. heap \in Heap
  BY DEF TypeInv, TypeOK
<1>3. \A p \in Allocated(heap) : heap[p].length \in 0..B
  BY <1>2, Kinds
<1> QED
  BY <1>1, <1>3 DEF Filled, IsEmptied, EmptiedBy

\* handle_removal of Moved and Absorbed.
LEMMA ClimbRemoveFilled ==
  ASSUME B >= 4, TypeInv, TypeInv', TreeInv, FilledInv, ClimbRemove
  PROVE  FilledInv'
<1> DEFINE parent == heap[node].parent
<1>1. Removing /\ removal.kind # "Merged"
  BY DEF ClimbRemove
<1>2. PICK lev \in [Ptr -> Nat] : Shrinking(lev)
  BY <1>1, ShrinkingThen
<1>3. CASE Panic
  BY <1>3, PanicFilled
<1>4. CASE ~ Panic
  <2>1. /\ heap' = Debit(heap, parent) /\ request' = request /\ pc' = pc
        /\ parent # None
    BY <1>4 DEF ClimbRemove
  <2>2. parent \in Ptr /\ heap \in Heap
    BY <1>2, <2>1, ParentOf DEF Shrinking, Allocated
  <2>3. \A p \in Allocated(heap) :
          /\ heap[p].parent # None => heap[p].length >= MinLength
          /\ heap[p].parent = None => IsLeaf(heap, p) \/ heap[p].length >= 2
    BY <1>1, <2>1, RemovingFilled DEF EmptiedBy
  <2> HIDE DEF parent
  <2>4. Resized(heap, heap', parent)
    BY <2>1, <2>2, DebitResized
  <2>5. \A p \in Allocated(heap') :
          /\ heap'[p].parent # None => heap'[p].length >= MinLength
          /\ heap'[p].parent = None => IsLeaf(heap', p) \/ heap'[p].length >= 2
    BY <2>3, <2>4 DEF Resized, Allocated, IsLeaf
  <2>6. Removing' /\ ~ Inserting'
    BY <1>1, <2>1 DEF Removing, Inserting
  <2> QED
    BY <2>5, <2>6, RemovingStep
<1> QED
  BY <1>3, <1>4

\* handle_removal of Merged.
LEMMA ClimbMergeFilled ==
  ASSUME B >= 4, TypeInv, TypeInv', TreeInv, FilledInv, ClimbMerge
  PROVE  FilledInv'
<1> DEFINE parent == heap[node].parent
           src == removal.src
           emptied == heap[parent].children[src]
<1>1. Removing
  BY DEF ClimbMerge
<1>2. PICK lev \in [Ptr -> Nat] : Shrinking(lev)
  BY <1>1, ShrinkingThen
<1>3. CASE Panic
  BY <1>3, PanicFilled
<1>4. CASE ~ Panic
  <2>1. PICK g, r :
          /\ Unlinked(heap, g, r, heap', lev, parent, src)
          /\ removal' = r.removal /\ node' = parent /\ parent # None
          /\ UNCHANGED <<root, size, request, pc, index, held, split>>
    BY <1>2, <1>4, ClimbMergeUnlinks
  <2>2. heap \in Heap /\ Tree(heap, lev)
    BY <1>2 DEF Shrinking
  <2>3. \A p \in Allocated(heap) :
          /\ heap[p].parent # None =>
               \/ heap[p].length >= MinLength
               \/ heap[p].parent = parent /\ heap[p].index = src
          /\ heap[p].parent = None => IsLeaf(heap, p) \/ heap[p].length >= 2
    BY <1>1, <2>1, RemovingFilled DEF EmptiedBy
  <2> HIDE DEF parent, src
  <2>4. /\ parent \in Allocated(heap) /\ parent \in Ptr /\ IsInternal(heap, parent)
        /\ src \in Nat /\ ~ RemovePanics(g, parent, src) /\ r = RemoveOnce(g, parent, src)
        /\ emptied \in Ptr /\ emptied \in Allocated(heap)
        /\ heap[emptied].parent = parent
        /\ lev[parent] = lev[emptied] + 1
        /\ Resized(heap, g, parent) /\ Allocated(g) = Allocated(heap)
        /\ g \in Heap /\ Tree(g, lev)
        /\ RemovedOnce(g, r, lev, parent, src)
        /\ Allocated(heap') = Allocated(heap) \ {emptied}
        /\ Roots(heap') = Roots(heap)
        /\ \A p \in Ptr : p # emptied => heap'[p] = r.heap[p]
    BY <2>1 DEF Unlinked
  <2>5. \A p \in Allocated(heap) :
          heap[p].parent = parent /\ heap[p].index = src => p = emptied
    BY <2>1, <2>2, ParentOf
  <2>6. heap[parent].children[src] = emptied
    OBVIOUS
  <2> DEFINE f == r.heap
  <2> HIDE DEF emptied, f
  <2>7. \A p \in Ptr : /\ g[p].length = heap[p].length /\ g[p].kind = heap[p].kind
                       /\ g[p].parent = heap[p].parent
                       /\ g[p].children = heap[p].children
    BY <2>4 DEF Resized
  <2>8. IsInternal(g, parent) /\ g[parent].children[src] = emptied
        /\ emptied # parent
    <3>1. lev[emptied] \in Nat
      BY <2>2, <2>4 DEF Tree
    <3> QED
      BY <2>4, <2>6, <2>7, <3>1 DEF IsInternal
  <2>9. BeforeRemoval(g, parent, src)
    BY <2>3, <2>4, <2>5, <2>7, <2>8 DEF BeforeRemoval, Allocated
  <2>10. g[parent].parent # None => g[g[parent].parent].length >= 2
    <3> DEFINE q == heap[parent].parent
    <3> SUFFICES ASSUME q # None PROVE heap[q].length >= 2 /\ q \in Ptr
      BY <2>4, <2>7
    <3>1. q \in Allocated(heap) /\ IsInternal(heap, q) /\ lev[q] = lev[parent] + 1
      BY <2>2, <2>4, ParentOf
    <3> HIDE DEF q
    <3>2. lev[emptied] \in Nat
      BY <2>2, <2>4 DEF Tree
    <3>3. q # emptied
      BY <2>4, <3>1, <3>2
    <3>4. heap[q].length >= MinLength \/ heap[q].length >= 2
      BY <2>3, <2>5, <3>1, <3>3 DEF IsLeaf, IsInternal
    <3>5. heap[q].length \in 0..B
      BY <2>2, <3>1, Kinds
    <3> QED
      BY <3>1, <3>4, <3>5 DEF Allocated, MinLength
  <2>11. AfterRemoval(g, r, parent)
    BY <2>4, <2>9, <2>10, RemoveOnceFilled
  <2>12. /\ Allocated(f) = Allocated(heap) /\ Spares(g, f, lev, lev[parent])
         /\ f[parent] = heap'[parent]
         /\ \A p \in Allocated(heap') : heap'[p] = f[p] /\ p \in Allocated(heap)
    BY <2>4, <2>8 DEF RemovedOnce, f, Allocated
  <2>13. ASSUME NEW p \in Allocated(heap')
         PROVE  /\ heap'[p].parent # None =>
                     heap'[p].length >= MinLength \/ EmptiedBy(heap', node', removal', p)
                /\ heap'[p].parent = None =>
                     \/ IsLeaf(heap', p) \/ heap'[p].length >= 2
                     \/ p = node' /\ heap'[p].length = 1
    <3>1. p \in Allocated(heap) /\ heap'[p] = f[p] /\ heap[p].length \in 0..B
          /\ p \in Ptr /\ p # emptied
      BY <2>2, <2>4, <2>12, Kinds
    <3>2. heap'[p].parent # None =>
            heap'[p].length >= MinLength \/ EmptiedBy(heap', node', removal', p)
      BY <2>1, <2>4, <2>11, <2>12, <3>1 DEF AfterRemoval, EmptiedBy, f
    <3>3. ASSUME heap'[p].parent = None, ~ IsLeaf(heap', p)
          PROVE  heap'[p].length >= 2 \/ (p = node' /\ heap'[p].length = 1)
      <4>1. heap[p].parent = None
        BY <2>4, <3>1, <3>3 DEF Roots
      <4>2. ~ IsLeaf(heap, p) /\ g[p].parent = None /\ g[p].length = heap[p].length
        BY <2>4, <2>7, <2>12, <3>1, <3>3, <4>1 DEF Spares, IsLeaf
      <4>3. heap'[p].length = heap[p].length - (IF p = parent THEN 1 ELSE 0)
        BY <2>4, <2>11, <3>1, <4>2 DEF AfterRemoval, f
      <4>4. heap[p].length >= 2
        BY <2>3, <3>1, <4>1, <4>2
      <4> QED
        BY <2>1, <3>1, <4>3, <4>4
    <3> QED
      BY <3>2, <3>3
  <2>14. Removing' /\ ~ Inserting'
    BY <1>1, <2>1 DEF Removing, Inserting
  <2> QED
    BY <2>13, <2>14, RemovingStep
<1> QED
  BY <1>3, <1>4

\* The end of remove: a root with one child is gone.
LEMMA FinishRemoveFilled ==
  ASSUME B >= 4, TypeInv, TypeInv', TreeInv, FilledInv, FinishRemove
  PROVE  FilledInv'
<1>1. Removing /\ removal.kind = "Absorbed" /\ heap[node].parent = None
  BY DEF FinishRemove
<1>2. PICK lev \in [Ptr -> Nat] : Shrinking(lev)
  BY <1>1, ShrinkingThen
<1>3. /\ heap \in Heap /\ Tree(heap, lev) /\ node \in Allocated(heap) /\ node \in Ptr
      /\ Filled
  BY <1>1, <1>2 DEF Shrinking, Allocated, FilledInv, Removing
<1>4. \A p \in Allocated(heap) :
        \/ heap[p].length >= MinLength /\ heap[p].length >= 2
        \/ heap[p].parent = None /\ (IsLeaf(heap, p) \/ heap[p].length >= 2)
        \/ p = node /\ heap[p].length = 1
  BY <1>1, <1>3 DEF Filled, IsEmptied
<1>5. CASE Panic
  BY <1>5, PanicFilled
<1>6. CASE ~ Panic /\ IsInternal(heap, node) /\ heap[node].length = 1
  <2> DEFINE child == heap[node].children[0]
             f == SimpleRemove(heap, node, 0)
  <2>1. heap' = Dealloc(f, node) /\ Leave("idle")
    BY <1>6 DEF FinishRemove
  <2>2. 0 \in Nat /\ 0 < heap[node].length /\ ~ IsLeaf(heap, node)
    BY <1>6 DEF IsLeaf, IsInternal
  <2>3. child \in Allocated(heap) /\ heap[child].parent = node /\ node # None
    BY <1>3, <1>6, <2>2, ChildOf DEF Allocated
  <2>4. Removed(heap, f, lev, node, 0) /\ f \in Heap
    BY <1>3, <2>2, SimpleRemoveTree, SimpleRemoveType
  <2> HIDE DEF f
  <2>5. /\ Roots(f) = Roots(heap) \cup {child} /\ Allocated(f) = Allocated(heap)
        /\ Spares(heap, f, lev, lev[node])
        /\ \A p \in Ptr : f[p].length = heap[p].length - (IF p = node THEN 1 ELSE 0)
    BY <2>2, <2>4 DEF Removed
  <2> HIDE DEF child
  <2>6. \A p \in Ptr : heap'[p] = IF p = node THEN NewNode("free") ELSE f[p]
    BY <2>1, <2>4 DEF Dealloc, Heap
  <2>7. ASSUME NEW p \in Allocated(heap')
        PROVE  IF heap'[p].parent # None THEN heap'[p].length >= MinLength
               ELSE IsInternal(heap', p) => heap'[p].length >= 2
    <3>1. /\ p \in Ptr /\ p # node /\ heap'[p] = f[p] /\ p \in Allocated(heap)
          /\ heap[p].length \in 0..B
      BY <1>3, <2>5, <2>6, <2>7, Kinds DEF Allocated, NewNode
    <3>2. f[p].length = heap[p].length - 0 /\ f[p].kind = heap[p].kind
      BY <2>5, <3>1 DEF Spares
    <3>3. f[p].parent = None <=> heap[p].parent = None \/ p = child
      BY <2>5, <3>1 DEF Roots
    <3>4. \/ heap[p].length >= MinLength /\ heap[p].length >= 2
          \/ heap[p].parent = None /\ (IsLeaf(heap, p) \/ heap[p].length >= 2)
      BY <1>4, <3>1
    <3> QED
      BY <3>1, <3>2, <3>3, <3>4, <2>3 DEF IsLeaf, IsInternal
  <2>8. ~ Removing' /\ ~ Inserting' /\ NodesFilled(heap')
    BY <2>1, <2>7 DEF Leave, Removing, Inserting, NodesFilled
  <2> QED
    BY <2>8, CalmStep
<1>7. CASE ~ (IsInternal(heap, node) /\ heap[node].length = 1)
  <2>1. heap' = heap /\ Leave("idle")
    BY <1>7 DEF FinishRemove
  <2>2. ~ Removing' /\ ~ Inserting'
    BY <2>1 DEF Leave, Removing, Inserting
  <2>3. ASSUME NEW p \in Allocated(heap)
        PROVE  IF heap[p].parent # None THEN heap[p].length >= MinLength
               ELSE IsInternal(heap, p) => heap[p].length >= 2
    <3>1. p = node /\ heap[p].length = 1 => ~ IsInternal(heap, p) /\ heap[p].parent = None
      BY <1>1, <1>7
    <3>2. IsInternal(heap, p) => ~ IsLeaf(heap, p)
      BY DEF IsLeaf, IsInternal
    <3> QED
      BY <1>4, <3>1, <3>2
  <2>4. NodesFilled(heap')
    BY <2>1, <2>3 DEF NodesFilled
  <2> QED
    BY <2>2, <2>4, CalmStep
<1> QED
  BY <1>5, <1>6, <1>7

-----------------------------------------------------------------------------
\* Every step of the vector keeps its nodes filled.
LEMMA NextFilledInv ==
  ASSUME B >= 4
  PROVE  TypeInv /\ TypeInv' /\ TreeInv /\ FilledInv /\ [Next]_vars => FilledInv'
<1> SUFFICES ASSUME TypeInv, TypeInv', TreeInv, FilledInv, [Next]_vars
             PROVE  FilledInv'
  OBVIOUS
<1>1. CASE Begin
  BY <1>1, BeginFilled
<1>2. CASE Step
  BY <1>2, ReadFilled, InsertAtLeafFilled, CreditFilled, ClimbSplitFilled,
     GrowRootFilled, RemoveAtLeafFilled, ClimbRemoveFilled, ClimbMergeFilled,
     FinishRemoveFilled
     DEF Step
<1>3. CASE AllocFails
  BY <1>3, CreditFilled
<1>4. CASE UNCHANGED vars
  BY <1>4 DEF vars, FilledInv, Filled, IsEmptied, Inserting, Removing, Allocated,
              IsLeaf
<1> QED
  BY <1>1, <1>2, <1>3, <1>4 DEF Next

\* With B >= 4 every node but the root holds at least B / 2 entries and an
\* internal root two, at every step of a call, unless a check has failed.
THEOREM FilledUntilPanic ==
  ASSUME B >= 4
  PROVE  Spec => [](pc # "panicked" => Filled)
<1>1. Init => TypeInv /\ TreeInv /\ FilledInv
  BY InitTypeInv, InitTreeInv, InitFilled
<1>2. TypeInv /\ TreeInv /\ FilledInv /\ [Next]_vars
        => (TypeInv /\ TreeInv /\ FilledInv)'
  BY NextTypeInv, NextTreeInv, NextFilledInv
<1>3. FilledInv => (pc # "panicked" => Filled)
  BY DEF FilledInv
<1> QED
  BY <1>1, <1>2, <1>3, PTL DEF Spec
=============================================================================
