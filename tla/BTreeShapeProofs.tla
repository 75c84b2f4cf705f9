-------------------------- MODULE BTreeShapeProofs --------------------------
(***************************************************************************)
(* What the walks over the nodes rest on: recursion along chains of nodes  *)
(* that end, that the nodes are finitely many, that every node has a place *)
(* among the items of the vector, and that the walks to the first leaf and *)
(* along the leaf list are what their definitions say.                     *)
(***************************************************************************)
EXTENDS BTreeShape, BTreeOrderProofs, FiniteSetTheorems, SequenceTheorems

-----------------------------------------------------------------------------
(***************************************************************************)
(* Induction and recursion along a chain of elements with a rank.          *)
(***************************************************************************)

\* What follows for an element from the ones of a lower rank holds of all.
LEMMA RankInduction ==
  ASSUME NEW S, NEW rank \in [S -> Nat], NEW T,
         \A s \in S : (\A t \in S : rank[t] < rank[s] => t \in T) => s \in T
  PROVE  \A s \in S : s \in T
<1> DEFINE Bad == {rank[s] : s \in S \ T}
<1> SUFFICES ASSUME Bad # {} PROVE FALSE
  OBVIOUS
<1>1. Bad \in SUBSET Nat
  OBVIOUS
<1>2. PICK m \in Bad : \A k \in Bad : m <= k
  BY <1>1, LeastNatural
<1>3. PICK s \in S \ T : m = rank[s]
  BY <1>2
<1>4. ASSUME NEW t \in S, rank[t] < rank[s] PROVE t \in T
  <2>1. rank[t] \in Nat /\ rank[s] \in Nat
    OBVIOUS
  <2>2. t \notin T => rank[s] <= rank[t]
    BY <1>2, <1>3
  <2> QED
    BY <1>4, <2>1, <2>2
<1> QED
  BY <1>3, <1>4

\* A chain: from an element that is no stop, `next` leads to one of a lower
\* rank.
IsChain(S, stops, next, rank, bound) ==
  /\ bound \in Nat /\ rank \in [S -> 0..bound] /\ next \in [S -> S]
  /\ \A x \in S : x \in stops \/ rank[next[x]] < rank[x]

\* f is `base` at the stops, and elsewhere what g makes of its value at the next
\* element.
Follows(f, S, stops, next, base, g) ==
  \A x \in S : f[x] = IF x \in stops THEN base[x] ELSE g[x][f[next[x]]]

\* Along a chain a function can be defined by what it is at the stops and by
\* what it makes elsewhere of its value at the next element.
LEMMA ChainFunction ==
  ASSUME NEW S, NEW V, NEW stops, NEW next, NEW rank, NEW bound,
         IsChain(S, stops, next, rank, bound),
         NEW base \in [S -> V], NEW g \in [S -> [V -> V]]
  PROVE  \E f \in [S -> V] : Follows(f, S, stops, next, base, g)
<1> DEFINE At(f, x) == f[x] = IF x \in stops THEN base[x] ELSE g[x][f[next[x]]]
           Upto(f, n) == \A x \in S : rank[x] < n => At(f, x)
           Bad == {n \in Nat : ~ \E f \in [S -> V] : Upto(f, n)}
<1>0. /\ bound \in Nat /\ rank \in [S -> 0..bound] /\ next \in [S -> S]
      /\ \A x \in S : x \in stops \/ rank[next[x]] < rank[x]
  BY DEF IsChain
<1>1. Bad = {}
  <2> SUFFICES ASSUME Bad # {} PROVE FALSE
    OBVIOUS
  <2>1. PICK m \in Bad : \A k \in Bad : m <= k
    <3>1. Bad \in SUBSET Nat
      OBVIOUS
    <3> HIDE DEF Bad
    <3> QED
      BY <3>1, LeastNatural
  <2>2. m \in Nat /\ ~ \E f \in [S -> V] : Upto(f, m)
    BY <2>1
  <2>3. m # 0
    <3>1. ASSUME m = 0 PROVE Upto(base, m)
      <4>1. \A x \in S : ~ (rank[x] < 0)
        BY <1>0
      <4> QED
        BY <3>1, <4>1
    <3> QED
      BY <2>2, <3>1
  <2>4. m - 1 \in Nat /\ m - 1 \notin Bad
    BY <2>1, <2>2, <2>3
  <2>5. PICK f \in [S -> V] : Upto(f, m - 1)
    BY <2>4
  <2> DEFINE e == [x \in S |-> IF x \in stops THEN base[x] ELSE g[x][f[next[x]]]]
  <2>6. e \in [S -> V]
    BY <1>0
  <2>7. ASSUME NEW x \in S, rank[x] < m PROVE At(e, x)
    <3>1. CASE x \in stops
      BY <3>1
    <3>2. CASE x \notin stops
      <4> DEFINE y == next[x]
      <4>1. y \in S /\ rank[y] < rank[x]
        BY <1>0, <3>2
      <4>2. rank[y] \in Nat /\ rank[x] \in Nat
        BY <1>0, <4>1
      <4>3. rank[y] < m - 1
        BY <2>2, <2>7, <4>1, <4>2
      <4>4. At(f, y)
        BY <2>5, <4>1, <4>3
      <4>5. e[y] = f[y]
        BY <4>1, <4>4
      <4> QED
        BY <3>2, <4>5
    <3> QED
      BY <3>1, <3>2
  <2>8. Upto(e, m)
    BY <2>7
  <2> QED
    BY <2>2, <2>6, <2>8
<1>2. bound + 1 \in Nat
  BY <1>0
<1>3. PICK f \in [S -> V] : Upto(f, bound + 1)
  <2> HIDE DEF Upto
  <2> QED
    BY <1>1, <1>2
<1>4. \A x \in S : rank[x] < bound + 1
  <2> TAKE x \in S
  <2>1. rank[x] \in 0..bound
    BY <1>0
  <2> QED
    BY <1>0, <2>1
<1> QED
  BY <1>3, <1>4 DEF Follows

\* f is what `base` is at the stop it comes to.
Jumps(f, S, stops, next, base) ==
  \A x \in S : f[x] = IF x \in stops THEN base[x] ELSE f[next[x]]

\* The same for such a function.
LEMMA JumpFunction ==
  ASSUME NEW S, NEW V, NEW stops, NEW next, NEW rank, NEW bound,
         IsChain(S, stops, next, rank, bound), NEW base \in [S -> V]
  PROVE  \E f \in [S -> V] : Jumps(f, S, stops, next, base)
<1> DEFINE g == [x \in S |-> [v \in V |-> v]]
<1>1. g \in [S -> [V -> V]] /\ \A x \in S, v \in V : g[x][v] = v
  OBVIOUS
<1> HIDE DEF g
<1>2. PICK f \in [S -> V] : Follows(f, S, stops, next, base, g)
  BY <1>1, ChainFunction
<1>3. \A x \in S : f[x] = IF x \in stops THEN base[x] ELSE f[next[x]]
  <2>1. next \in [S -> S]
    BY DEF IsChain
  <2> QED
    BY <1>1, <1>2, <2>1 DEF Follows
<1> QED
  BY <1>2, <1>3 DEF Jumps

USE NodeAssumption DEF Position

-----------------------------------------------------------------------------
(***************************************************************************)
(* The nodes of a vector are finitely many, whatever the address space.    *)
(***************************************************************************)

FiniteInv == IsFiniteSet(Allocated(heap))

\* A step of the vector allocates one node at most.
OneMore(h, g) == \E x : Allocated(g) \subseteq Allocated(h) \cup {x}

\* None is allocated where kinds stay.
LEMMA SameKinds ==
  ASSUME NEW h, NEW g, \A p \in Ptr : g[p].kind = h[p].kind
  PROVE  OneMore(h, g)
<1>1. Allocated(g) = Allocated(h)
  BY DEF Allocated
<1> QED
  BY <1>1 DEF OneMore

\* Only the start of an insertion does more than read.
LEMMA BeginOneMore ==
  ASSUME TypeInv, Begin
  PROVE  OneMore(heap, heap')
<1>1. CASE heap' = heap
  BY <1>1, SameKinds
<1>2. CASE heap' # heap
  <2> DEFINE new == Fresh(heap)
  <2>1. heap' = Alloc(heap, new, "leaf") /\ heap \in Heap
    BY <1>2 DEF Begin, BeginInsert, BeginSet, BeginRemove, BeginGet, fields,
                TypeInv, TypeOK
  <2> HIDE DEF new
  <2>2. \A p \in Ptr \ {new} : heap'[p] = heap[p]
    BY <2>1 DEF Alloc, Heap
  <2>3. Allocated(heap') \subseteq Allocated(heap) \cup {new}
    BY <2>2 DEF Allocated
  <2> QED
    BY <2>3 DEF OneMore
<1> QED
  BY <1>1, <1>2

\* insert_once allocates the new half.
LEMMA InsertedOneMore ==
  ASSUME NEW h, NEW r, NEW lev, NEW n, NEW slot, NEW new,
         InsertedOnce(h, r, lev, n, slot, new)
  PROVE  OneMore(h, r.heap)
<1>1. Allocated(r.heap) \subseteq Allocated(h) \cup {new}
  BY DEF InsertedOnce, Inserted
<1> QED
  BY <1>1 DEF OneMore

\* insert at the leaf.
LEMMA InsertAtLeafOneMore ==
  ASSUME TypeInv, TreeInv, InsertAtLeaf
  PROVE  OneMore(heap, heap')
<1> DEFINE entry == Entry(held, 1)
           new == Fresh(heap)
           result == InsertOnce(heap, node, index, entry, new)
<1>0. /\ pc = "seek" /\ request.op = "insert" /\ node \in Ptr /\ heap \in Heap
      /\ index \in Nat /\ held \in Item /\ IsLeaf(heap, node)
  BY DEF InsertAtLeaf, AtLeaf, TypeInv, TypeOK, CallOK, TreeInv, TreeInvAt, HeldOK
<1>1. ~ Inserting /\ ~ Ended
  BY <1>0 DEF Inserting, Ended
<1>2. PICK lev \in [Ptr -> Nat] : OneTree(lev)
  BY <1>1, OneTreeThen
<1>3. CASE InsertPanics(heap, node, index)
  BY <1>3, SameKinds DEF InsertAtLeaf, Panic, fields
<1>4. CASE ~ InsertPanics(heap, node, index)
  <2>1. heap' = result.heap
    BY <1>4 DEF InsertAtLeaf
  <2>2. heap[node].length = B => new \in Free(heap)
    BY DEF InsertAtLeaf, Fresh, Free
  <2>3. entry.slot = held /\ entry \in [slot : Slot, size : Nat]
    BY <1>0 DEF Entry, Slot
  <2>4. node \in Allocated(heap) /\ heap[node].length \in 0..B
    BY <1>0, FieldTypes DEF Allocated, IsLeaf
  <2>5. index \in 0..heap[node].length
    BY <1>0, <1>4, <2>4 DEF InsertPanics
  <2> HIDE DEF entry, new
  <2>6. InsertOK(heap, lev, node, index, entry)
    BY <1>0, <2>3, <2>4, <2>5 DEF InsertOK
  <2>7. InsertedOnce(heap, result, lev, node, held, new)
    BY <1>0, <1>2, <2>2, <2>3, <2>6, InsertOnceTree DEF OneTree
  <2> HIDE DEF result
  <2> QED
    BY <2>1, <2>7, InsertedOneMore
<1> QED
  BY <1>3, <1>4

\* The climb of insert.
LEMMA ClimbInsertOneMore ==
  ASSUME TypeInv, TreeInv, ClimbInsert \/ ClimbSplit \/ AllocFails
  PROVE  OneMore(heap, heap')
<1> DEFINE parent == heap[node].parent
           i == heap[node].index
<1>1. CASE heap' = heap
  BY <1>1, SameKinds
<1>2. CASE heap' # heap
  <2>1. Inserting /\ parent # None /\ ~ LinkPanics(heap, parent, i)
    BY <1>2 DEF ClimbInsert, ClimbSplit, AllocFails, Panic, fields
  <2>2. PICK lev \in [Ptr -> Nat] : Climbing(lev)
    BY <2>1, ClimbingThen
  <2>3. parent \in Ptr /\ heap \in Heap
    BY <2>1, <2>2, ParentOf DEF Climbing, Allocated
  <2>4. CASE heap' = Credit(heap, parent, i)
    <3>1. Resized(heap, heap', parent)
      BY <2>3, <2>4, CreditResized
    <3> QED
      BY <3>1, SameKinds DEF Resized
  <2>5. CASE ClimbSplit
    <3>1. PICK g, r : /\ HalfLinked(heap, g, r, lev, parent, i, Fresh(heap))
                      /\ heap' = r.heap
      BY <2>1, <2>2, <2>5, ClimbSplitLinks
    <3>2. /\ Allocated(g) = Allocated(heap)
          /\ InsertedOnce(g, r, lev, parent, split, Fresh(heap))
      BY <3>1 DEF HalfLinked
    <3>3. OneMore(g, r.heap)
      BY <3>2, InsertedOneMore
    <3> QED
      BY <3>1, <3>2, <3>3 DEF OneMore
  <2> QED
    BY <1>2, <2>1, <2>4, <2>5 DEF ClimbInsert, AllocFails
<1> QED
  BY <1>1, <1>2

\* The new root.
LEMMA GrowRootOneMore ==
  ASSUME TypeInv, TreeInv, GrowRoot
  PROVE  OneMore(heap, heap')
<1> DEFINE parent == Fresh(heap)
           first == Entry(node, size)
           grown == SimpleInsert(Alloc(heap, parent, "internal"), parent, 0, first)
<1>1. Inserting /\ split # None
  BY DEF GrowRoot
<1>2. PICK lev \in [Ptr -> Nat] : Climbing(lev)
  BY <1>1, ClimbingThen
<1>3. CASE LinkPanics(grown, parent, heap[node].index)
  BY <1>3, SameKinds DEF GrowRoot, Panic, fields
<1>4. CASE ~ LinkPanics(grown, parent, heap[node].index)
  <2>1. PICK lev2, f, c, g, r :
          /\ Crowned(heap, f, c, lev2, parent, first, split)
          /\ HalfLinked(c, g, r, lev2, parent, 0, None)
          /\ Inserted(g, r.heap, lev2, parent, split)
          /\ heap' = r.heap
    BY <1>2, <1>4, GrowRootLinks
  <2> HIDE DEF parent, grown, first
  <2>2. /\ Allocated(c) = Allocated(heap) \cup {parent}
        /\ Allocated(g) = Allocated(c) /\ Allocated(r.heap) = Allocated(g)
    BY <2>1 DEF Crowned, HalfLinked, Inserted
  <2> QED
    BY <2>1, <2>2 DEF OneMore
<1> QED
  BY <1>3, <1>4

\* remove allocates nothing.
LEMMA RemoveOneMore ==
  ASSUME TypeInv, TreeInv, RemoveAtLeaf \/ ClimbRemove \/ ClimbMerge \/ FinishRemove
  PROVE  OneMore(heap, heap')
<1>1. CASE heap' = heap
  BY <1>1, SameKinds
<1>2. CASE heap' # heap
  <2>0. ~ Panic
    BY <1>2 DEF Panic, fields
  <2>1. CASE RemoveAtLeaf
    <3>1. /\ pc = "seek" /\ node \in Ptr /\ heap \in Heap
          /\ index \in Nat /\ IsLeaf(heap, node)
          /\ ~ RemovePanics(heap, node, index)
          /\ heap' = RemoveOnce(heap, node, index).heap
      BY <2>0, <2>1 DEF RemoveAtLeaf, AtLeaf, TypeInv, TypeOK, CallOK
    <3>2. ~ Inserting /\ ~ Ended /\ node \in Allocated(heap)
      BY <3>1 DEF Inserting, Ended, Allocated, IsLeaf
    <3>3. PICK lev \in [Ptr -> Nat] : OneTree(lev)
      BY <3>2, OneTreeThen
    <3>4. RemovedOnce(heap, RemoveOnce(heap, node, index), lev, node, index)
      BY <3>1, <3>2, <3>3, RemoveOnceTree DEF OneTree
    <3>5. Allocated(heap') = Allocated(heap)
      BY <3>1, <3>4 DEF RemovedOnce
    <3> QED
      BY <3>5 DEF OneMore
  <2>2. CASE ~ RemoveAtLeaf
    <3> DEFINE parent == heap[node].parent
    <3>1. Removing
      BY <2>2 DEF ClimbRemove, ClimbMerge, FinishRemove
    <3>2. PICK lev \in [Ptr -> Nat] : Shrinking(lev)
      BY <3>1, ShrinkingThen
    <3>3. heap \in Heap /\ node \in Ptr /\ Tree(heap, lev) /\ node \in Allocated(heap)
      BY <3>2 DEF Shrinking, Allocated
    <3>4. CASE ClimbRemove
      <4>1. parent # None /\ heap' = Debit(heap, parent)
        BY <2>0, <3>4 DEF ClimbRemove
      <4>2. parent \in Ptr
        BY <3>3, <4>1, ParentOf DEF Allocated
      <4>3. Resized(heap, heap', parent)
        BY <3>3, <4>1, <4>2, DebitResized
      <4> QED
        BY <4>3, SameKinds DEF Resized
    <3>5. CASE ClimbMerge
      <4>1. PICK g, r : Unlinked(heap, g, r, heap', lev, parent, removal.src)
        BY <2>0, <3>2, <3>5, ClimbMergeUnlinks
      <4> QED
        BY <4>1 DEF Unlinked, OneMore
    <3>6. CASE FinishRemove
      <4> DEFINE f == SimpleRemove(heap, node, 0)
      <4>1. heap' = Dealloc(f, node) /\ heap[node].length = 1
        BY <1>2, <2>0, <3>6 DEF FinishRemove
      <4>2. 0 \in Nat /\ 0 < heap[node].length
        BY <4>1
      <4>3. Allocated(f) = Allocated(heap) /\ f \in Heap
        BY <3>3, <4>2, SimpleRemoveTree, SimpleRemoveType DEF Removed
      <4> HIDE DEF f
      <4>4. \A p \in Ptr \ {node} : heap'[p] = f[p]
        BY <4>1, <4>3 DEF Dealloc, Heap
      <4>5. Allocated(heap') \subseteq Allocated(f) \cup {node}
        BY <4>4 DEF Allocated
      <4> QED
        BY <4>3, <4>5 DEF OneMore
    <3> QED
      BY <2>2, <3>4, <3>5, <3>6
  <2> QED
    BY <2>1, <2>2
<1> QED
  BY <1>1, <1>2

\* leaf_for, get and get_mut and the ends of calls leave the nodes where they
\* are.
LEMMA ReadOneMore ==
  ASSUME TypeInv, Descend \/ Get \/ Set \/ Return \/ FinishInsert \/ UNCHANGED vars
  PROVE  OneMore(heap, heap')
<1>1. CASE heap' = heap
  BY <1>1, SameKinds
<1>2. CASE heap' # heap
  <2>1. /\ heap' = [heap EXCEPT ![node].children[index] = held] /\ heap \in Heap
    BY <1>2 DEF Descend, Get, Set, Return, FinishInsert, Panic, fields, vars,
                TypeInv, TypeOK
  <2>2. \A p \in Ptr : heap'[p].kind = heap[p].kind
    BY <2>1 DEF Heap, Node
  <2> QED
    BY <2>2, SameKinds
<1> QED
  BY <1>1, <1>2

\* Every step of the vector keeps it finite.
LEMMA NextFiniteInv ==
  TypeInv /\ TreeInv /\ FiniteInv /\ [Next]_vars => FiniteInv'
<1> SUFFICES ASSUME TypeInv, TreeInv, FiniteInv, [Next]_vars PROVE FiniteInv'
  OBVIOUS
<1>1. OneMore(heap, heap')
  BY BeginOneMore, InsertAtLeafOneMore, ClimbInsertOneMore, GrowRootOneMore,
     RemoveOneMore, ReadOneMore DEF Next, Step
<1>2. PICK x : Allocated(heap') \subseteq Allocated(heap) \cup {x}
  BY <1>1 DEF OneMore
<1>3. IsFiniteSet(Allocated(heap) \cup {x})
  BY FS_AddElement DEF FiniteInv
<1>4. IsFiniteSet(Allocated(heap'))
  BY <1>2, <1>3, FS_Subset
<1> QED
  BY <1>4 DEF FiniteInv

\* The empty vector has no nodes.
LEMMA InitFiniteInv == Init => FiniteInv
<1> SUFFICES ASSUME Init PROVE FiniteInv
  OBVIOUS
<1>1. Allocated(heap) = {}
  BY DEF Init, Allocated, NewNode
<1> QED
  BY <1>1, FS_EmptySet DEF FiniteInv

\* The values of a function on a finite set have a bound.
LEMMA FiniteBound ==
  ASSUME NEW S, IsFiniteSet(S), NEW f, \A x \in S : f[x] \in Nat
  PROVE  \E bound \in Nat : \A x \in S : f[x] <= bound
<1>1. PICK n \in Nat : ExistsSurjection(1..n, S)
  BY FS_NatSurjection
<1>2. PICK s \in [1..n -> S] : \A x \in S : \E i \in 1..n : s[i] = x
  BY <1>1 DEF ExistsSurjection, Surjection
<1> DEFINE v == [i \in 1..n |-> f[s[i]]]
           Bounded(m) == \E bound \in Nat : \A i \in 1..m : v[i] <= bound
           Bad == {m \in 0..n : ~ Bounded(m)}
<1>3. v \in [1..n -> Nat] /\ \A i \in 1..n : v[i] = f[s[i]]
  BY <1>2
<1> HIDE DEF v
<1>4. Bounded(n)
  <2> SUFFICES ASSUME Bad # {} PROVE FALSE
    <3>1. n \in 0..n
      OBVIOUS
    <3> HIDE DEF Bounded
    <3> QED
      BY <3>1
  <2>1. Bad \in SUBSET Nat
    OBVIOUS
  <2>2. PICK m \in Bad : \A k \in Bad : m <= k
    <3> HIDE DEF Bad
    <3> QED
      BY <2>1, LeastNatural
  <2>3. m \in 0..n /\ ~ Bounded(m)
    BY <2>2
  <2>4. m # 0
    <3>1. \A i \in 1..0 : v[i] <= 0
      OBVIOUS
    <3> QED
      BY <2>3, <3>1
  <2>5. m - 1 \in 0..n
    BY <2>3, <2>4
  <2>6. Bounded(m - 1)
    <3>1. ~ (m <= m - 1)
      BY <2>3
    <3> HIDE DEF Bounded
    <3> QED
      BY <2>2, <2>5, <3>1
  <2>7. PICK bound \in Nat : \A i \in 1..(m - 1) : v[i] <= bound
    BY <2>6
  <2>8. m \in 1..n
    BY <2>3, <2>4
  <2>9. PICK x \in Nat : x = v[m]
    BY <1>3, <2>8
  <2>10. ASSUME NEW i \in 1..m PROVE v[i] <= bound + x
    <3>1. CASE i = m
      <4>1. x <= bound + x
        OBVIOUS
      <4> QED
        BY <2>9, <3>1, <4>1
    <3>2. CASE i # m
      <4>1. i \in 1..(m - 1) /\ i \in 1..n
        BY <2>8, <3>2
      <4>2. PICK y \in Nat : y = v[i]
        BY <1>3, <4>1
      <4>3. y <= bound
        BY <2>7, <4>1, <4>2
      <4>4. y <= bound + x
        BY <4>3
      <4> QED
        BY <4>2, <4>4
    <3> QED
      BY <3>1, <3>2
  <2>11. bound + x \in Nat
    OBVIOUS
  <2> QED
    BY <2>3, <2>10, <2>11
<1>5. PICK bound \in Nat : \A i \in 1..n : v[i] <= bound
  BY <1>4
<1>6. \A x \in S : f[x] <= bound
  BY <1>2, <1>3, <1>5
<1> QED
  BY <1>6

-----------------------------------------------------------------------------
(***************************************************************************)
(* Between calls every node has a place in the vector.                     *)
(***************************************************************************)

\* The sums of sizes never decrease.
LEMMA SumsGrow ==
  ASSUME NEW a \in SizeArray, NEW i \in 0..B, NEW j \in 0..B, i <= j
  PROVE  PrefixSums(a)[i] <= PrefixSums(a)[j]
<1> DEFINE sums == PrefixSums(a)
           Bad == {k \in 0..B : i <= k /\ ~ (sums[i] <= sums[k])}
<1>1. /\ \A k \in 0..B : sums[k] \in Nat
      /\ \A k \in Position : Adds(sums[k], a[k], sums[k + 1])
  BY SumsStep
<1> HIDE DEF sums
<1>2. Bad = {}
  <2> SUFFICES ASSUME Bad # {} PROVE FALSE
    OBVIOUS
  <2>1. Bad \in SUBSET Nat
    OBVIOUS
  <2>2. PICK m \in Bad : \A k \in Bad : m <= k
    <3> HIDE DEF Bad
    <3> QED
      BY <2>1, LeastNatural
  <2>3. m \in 0..B /\ i <= m /\ ~ (sums[i] <= sums[m])
    BY <2>2
  <2>4. m # i
    <3>1. sums[i] \in Nat
      BY <1>1
    <3> QED
      BY <2>3, <3>1
  <2>5. m - 1 \in 0..B /\ m - 1 \in Position /\ i <= m - 1 /\ (m - 1) + 1 = m
        /\ ~ (m <= m - 1)
    BY <2>3, <2>4
  <2>6. sums[i] <= sums[m - 1]
    BY <2>2, <2>5
  <2>7. PICK x \in Nat, y \in Nat, z \in Nat :
          x = sums[i] /\ y = sums[m - 1] /\ z = sums[m]
    BY <1>1, <2>3, <2>5
  <2>8. Adds(y, a[m - 1], z)
    BY <1>1, <2>5, <2>7
  <2>9. x <= y /\ y <= z
    BY <2>6, <2>7, <2>8 DEF Adds
  <2>10. x <= z
    BY <2>9
  <2> QED
    BY <2>3, <2>7, <2>10
<1> QED
  BY <1>2 DEF sums

\* The vector between two calls: a tree of height `bound` at most, its sizes
\* and its order, `total` items in all.
Settled(h, lev, w, after, top, total, bound) ==
  /\ h \in Heap /\ Tree(h, lev)
  /\ Roots(h) = {top} \ {None} /\ IsTop(h, top)
  /\ w \in [Ptr -> Nat] /\ Sized(h, w)
  /\ \A p \in Allocated(h) :
       /\ w[p] = Weight(h, p)
       /\ IsInternal(h, p) => h[p].length >= 1
  /\ Levels(h, after, after, top, {})
  /\ total = IF top = None THEN 0 ELSE w[top]
  /\ bound \in Nat /\ \A p \in Allocated(h) : lev[p] <= bound

\* Child i of p starts where the children before it end.
ChildPlaced(h, w, before, p, i) ==
  LET c == h[p].children[i]
      sums == PrefixSums(h[p].sizes)
  IN  /\ before[c] = before[p] + sums[i]
      /\ before[c] + w[c] = before[p] + sums[i + 1]

\* before[p] items come before those of p.
Offsets(h, w, before, top) ==
  /\ before \in [Ptr -> Nat]
  /\ top # None => before[top] = 0
  /\ \A p \in Allocated(h) : IsInternal(h, p) =>
       \A i \in Position : i < h[p].length => ChildPlaced(h, w, before, p, i)

\* What is used of a heap that is settled.
LEMMA SettledAt ==
  ASSUME NEW h, NEW lev, NEW w, NEW after, NEW top, NEW total, NEW bound,
         Settled(h, lev, w, after, top, total, bound), NEW p \in Allocated(h)
  PROVE  /\ h \in Heap /\ Tree(h, lev) /\ p \in Ptr /\ p # None
         /\ lev[p] \in Nat /\ w[p] \in Nat /\ bound \in Nat /\ lev[p] <= bound
         /\ h[p].length \in 0..B /\ h[p].sizes \in SizeArray
         /\ IsInternal(h, p) => /\ w[p] = PrefixSums(h[p].sizes)[h[p].length]
                                /\ h[p].length >= 1 /\ ~ IsLeaf(h, p)
         /\ ~ IsInternal(h, p) => IsLeaf(h, p) /\ w[p] = h[p].length
         /\ h[p].parent = None => p = top
<1>1. h \in Heap /\ p \in Ptr /\ p # None
  BY Kinds DEF Settled
<1>2. /\ Tree(h, lev) /\ w[p] = Weight(h, p) /\ bound \in Nat /\ lev[p] <= bound
      /\ IsInternal(h, p) => h[p].length >= 1
      /\ w \in [Ptr -> Nat]
  BY DEF Settled
<1>3. lev[p] \in Nat /\ w[p] \in Nat
  BY <1>1, <1>2 DEF Tree
<1>4. h[p].length \in 0..B /\ h[p].sizes \in SizeArray
      /\ (~ IsLeaf(h, p) <=> IsInternal(h, p))
  BY <1>1, FieldTypes, Kinds DEF SizeArray
<1>5. h[p].parent = None => p = top
  BY DEF Settled, Roots
<1> QED
  BY <1>1, <1>2, <1>3, <1>4, <1>5 DEF Weight

\* The offsets exist: they add up on the way to the root, which ends because the
\* nodes are finitely many.
LEMMA OffsetsExist ==
  ASSUME NEW h, NEW lev, NEW w, NEW after, NEW top, NEW total, NEW bound,
         Settled(h, lev, w, after, top, total, bound)
  PROVE  \E before : Offsets(h, w, before, top)
<1> DEFINE stops == {p \in Ptr : p \notin Allocated(h) \/ h[p].parent = None}
           next == [p \in Ptr |-> IF p \in stops THEN p ELSE h[p].parent]
           rank == [p \in Ptr |-> IF p \in Allocated(h) THEN bound - lev[p] ELSE 0]
           base == [p \in Ptr |-> 0]
           start(p) == PrefixSums(h[h[p].parent].sizes)[h[p].index]
           g == [p \in Ptr |-> [v \in Nat |-> IF p \in stops THEN v ELSE v + start(p)]]
<1>0. h \in Heap /\ Tree(h, lev) /\ bound \in Nat /\ w \in [Ptr -> Nat] /\ Sized(h, w)
  BY DEF Settled
<1>1. ASSUME NEW p \in Ptr, p \notin stops
      PROVE  /\ h[p].parent \in Ptr /\ p \in Allocated(h) /\ h[p].parent \in Allocated(h)
             /\ lev[h[p].parent] = lev[p] + 1
             /\ start(p) \in Nat
  <2>1. p \in Allocated(h) /\ h[p].parent # None
    BY <1>1
  <2>2. /\ h[p].parent \in Allocated(h) /\ h[p].index \in Nat
        /\ h[p].index < h[h[p].parent].length
        /\ lev[h[p].parent] = lev[p] + 1
    BY <1>0, <2>1, ParentOf
  <2>3. h[h[p].parent].length \in 0..B /\ h[h[p].parent].sizes \in SizeArray
        /\ h[p].parent \in Ptr
    BY <2>2, SettledAt
  <2>4. h[p].index \in 0..B
    BY <2>2, <2>3
  <2> QED
    BY <2>1, <2>2, <2>3, <2>4, SumsStep
<1>2. IsChain(Ptr, stops, next, rank, bound)
  <2>1. rank \in [Ptr -> 0..bound]
    <3>1. ASSUME NEW p \in Allocated(h) PROVE bound - lev[p] \in 0..bound
      <4>1. lev[p] \in Nat /\ lev[p] <= bound
        BY SettledAt
      <4> QED
        BY <1>0, <4>1
    <3>2. 0 \in 0..bound
      BY <1>0
    <3> QED
      BY <3>1, <3>2
  <2>2. next \in [Ptr -> Ptr]
    BY <1>1
  <2>3. ASSUME NEW p \in Ptr, p \notin stops PROVE rank[next[p]] < rank[p]
    <3> DEFINE q == h[p].parent
    <3>1. /\ next[p] = q /\ q \in Ptr /\ p \in Allocated(h) /\ q \in Allocated(h)
          /\ lev[q] = lev[p] + 1
      BY <1>1, <2>3
    <3>2. lev[p] \in Nat
      BY <3>1, SettledAt
    <3>3. rank[q] = bound - lev[q] /\ rank[p] = bound - lev[p]
      BY <3>1
    <3> HIDE DEF rank, next, q, stops
    <3> QED
      BY <1>0, <3>1, <3>2, <3>3
  <2> HIDE DEF rank, next, stops
  <2> QED
    BY <1>0, <2>1, <2>2, <2>3 DEF IsChain
<1>3. base \in [Ptr -> Nat] /\ g \in [Ptr -> [Nat -> Nat]]
  <2>1. base \in [Ptr -> Nat]
    OBVIOUS
  <2>2. ASSUME NEW p \in Ptr, NEW v \in Nat
        PROVE  (IF p \in stops THEN v ELSE v + start(p)) \in Nat
    <3>1. CASE p \in stops
      BY <3>1
    <3>2. CASE p \notin stops
      <4>1. start(p) \in Nat
        BY <1>1, <3>2
      <4> HIDE DEF start, stops
      <4> QED
        BY <3>2, <4>1
    <3> QED
      BY <3>1, <3>2
  <2> HIDE DEF stops, start
  <2> QED
    BY <2>1, <2>2
<1>4. PICK before \in [Ptr -> Nat] : Follows(before, Ptr, stops, next, base, g)
  <2> HIDE DEF stops, next, rank, base, g
  <2> QED
    BY <1>2, <1>3, ChainFunction
<1>5. top # None => before[top] = 0
  <2> SUFFICES ASSUME top # None PROVE before[top] = 0
    OBVIOUS
  <2>1. top \in Ptr /\ h[top].parent = None
    BY DEF Settled, IsTop, Roots, Allocated
  <2> QED
    BY <1>4, <2>1 DEF Follows
<1>6. ASSUME NEW p \in Allocated(h), IsInternal(h, p),
             NEW i \in Position, i < h[p].length
      PROVE  ChildPlaced(h, w, before, p, i)
  <2> DEFINE c == h[p].children[i]
             sums == PrefixSums(h[p].sizes)
  <2>1. c \in Allocated(h) /\ h[c].parent = p /\ h[c].index = i /\ c \in Ptr /\ p \in Ptr
        /\ p # None
    BY <1>0, <1>6, ChildOf, Kinds
  <2>2. h[p].sizes[i] = w[c]
    BY <1>0, <1>6 DEF Sized
  <2>3. before[c] = g[c][before[p]]
    BY <1>4, <2>1 DEF Follows
  <2>4. before[c] = before[p] + sums[i]
    <3>1. c \notin stops /\ start(c) = sums[i] /\ before[p] \in Nat
      BY <2>1
    <3>2. g[c][before[p]] = before[p] + start(c)
      <4> HIDE DEF stops, start
      <4> QED
        BY <2>1, <3>1
    <3> QED
      BY <2>3, <3>1, <3>2
  <2>5. Adds(sums[i], w[c], sums[i + 1])
    <3>1. h[p].sizes \in SizeArray
      BY SettledAt
    <3> QED
      BY <2>2, <3>1, SumsStep
  <2>6. PICK x \in Nat, y \in Nat, z \in Nat : x = before[p] /\ y = sums[i] /\ z = w[c]
    BY <1>4, <2>1, <2>5 DEF Adds
  <2> HIDE DEF sums
  <2>7. sums[i + 1] = y + z
    BY <2>5, <2>6 DEF Adds
  <2>8. before[c] = x + y
    BY <2>4, <2>6
  <2>9. (x + y) + z = x + (y + z)
    OBVIOUS
  <2>10. before[c] + w[c] = before[p] + sums[i + 1]
    BY <2>6, <2>7, <2>8, <2>9
  <2> QED
    BY <2>4, <2>10 DEF ChildPlaced, sums
<1> QED
  BY <1>4, <1>5, <1>6 DEF Offsets

\* The vector between two calls, with the offset of each node.
Laid(h, lev, w, after, before, top, total, bound) ==
  /\ Settled(h, lev, w, after, top, total, bound)
  /\ Offsets(h, w, before, top)

\* p is child i of q and has its place among the items of q.
Placed(h, lev, w, before, p, q, i) ==
  /\ q \in Allocated(h) /\ IsInternal(h, q) /\ i \in Position /\ i < h[q].length
  /\ h[q].children[i] = p /\ lev[q] = lev[p] + 1
  /\ before[p] = before[q] + PrefixSums(h[q].sizes)[i]
  /\ before[p] + w[p] = before[q] + PrefixSums(h[q].sizes)[i + 1]

\* So is every node but the root.
LEMMA PlacedAt ==
  ASSUME NEW h, NEW lev, NEW w, NEW after, NEW before, NEW top, NEW total,
         NEW bound, Laid(h, lev, w, after, before, top, total, bound),
         NEW p \in Allocated(h), h[p].parent # None
  PROVE  Placed(h, lev, w, before, p, h[p].parent, h[p].index)
<1> DEFINE q == h[p].parent
           i == h[p].index
<1>1. h \in Heap /\ Tree(h, lev)
  BY DEF Laid, Settled
<1>2. /\ q \in Allocated(h) /\ IsInternal(h, q) /\ i \in Nat /\ i < h[q].length
      /\ h[q].children[i] = p /\ lev[q] = lev[p] + 1
  BY <1>1, ParentOf
<1>3. h[q].length \in 0..B
  BY <1>1, <1>2, Kinds
<1> HIDE DEF q, i
<1>4. i \in Position
  BY <1>2, <1>3
<1>5. ChildPlaced(h, w, before, q, i)
  BY <1>2, <1>4 DEF Laid, Offsets
<1> QED
  BY <1>2, <1>4, <1>5 DEF Placed, ChildPlaced, q, i

\* The children of a node are.
LEMMA PlacedChild ==
  ASSUME NEW h, NEW lev, NEW w, NEW after, NEW before, NEW top, NEW total,
         NEW bound, Laid(h, lev, w, after, before, top, total, bound),
         NEW q \in Allocated(h), IsInternal(h, q), NEW i \in Nat, i < h[q].length
  PROVE  /\ h[q].children[i] \in Allocated(h) /\ h[h[q].children[i]].parent = q
         /\ Placed(h, lev, w, before, h[q].children[i], q, i)
<1>1. h \in Heap /\ Tree(h, lev) /\ q # None
  BY Kinds DEF Laid, Settled
<1>2. /\ h[q].children[i] \in Allocated(h) /\ h[h[q].children[i]].parent = q
      /\ h[h[q].children[i]].index = i
  BY <1>1, ChildOf
<1> QED
  BY <1>1, <1>2, PlacedAt

\* What holds of the root, and of a node when it does of its parent, holds of
\* all.
LEMMA FromTheTop ==
  ASSUME NEW h, NEW lev, NEW w, NEW after, NEW top, NEW total, NEW bound,
         Settled(h, lev, w, after, top, total, bound),
         NEW T, top \in Allocated(h) => top \in T,
         \A p \in Allocated(h) :
           h[p].parent # None /\ h[p].parent \in T => p \in T
  PROVE  \A p \in Allocated(h) : p \in T
<1> DEFINE S == Allocated(h)
           rank == [p \in S |-> bound - lev[p]]
<1>1. rank \in [S -> Nat]
  <2>1. ASSUME NEW p \in S PROVE bound - lev[p] \in Nat
    <3>1. lev[p] \in Nat /\ lev[p] <= bound /\ bound \in Nat
      BY SettledAt
    <3> QED
      BY <3>1
  <2> QED
    BY <2>1
<1>2. ASSUME NEW s \in S, \A t \in S : rank[t] < rank[s] => t \in T
      PROVE  s \in T
  <2>1. CASE h[s].parent = None
    BY <2>1, SettledAt
  <2>2. CASE h[s].parent # None
    <3> DEFINE q == h[s].parent
    <3>1. q \in S /\ lev[q] = lev[s] + 1
      BY <2>2, SettledAt, ParentOf
    <3>2. bound \in Nat /\ lev[s] \in Nat /\ rank[s] = bound - lev[s]
          /\ rank[q] = bound - lev[q]
      BY <3>1, SettledAt
    <3> HIDE DEF rank, q
    <3>3. rank[q] < rank[s]
      BY <3>1, <3>2
    <3> QED
      BY <1>2, <2>2, <3>1, <3>3 DEF q
  <2> QED
    BY <2>1, <2>2
<1> HIDE DEF rank, S
<1>3. \A s \in S : s \in T
  BY <1>1, <1>2, RankInduction
<1> QED
  BY <1>3 DEF S

\* What holds of the leaves, and of a node when it does of its children, holds
\* of all.
LEMMA FromTheLeaves ==
  ASSUME NEW h, NEW lev, NEW w, NEW after, NEW top, NEW total, NEW bound,
         Settled(h, lev, w, after, top, total, bound),
         NEW T, \A p \in Allocated(h) : IsLeaf(h, p) => p \in T,
         \A p \in Allocated(h) :
           IsInternal(h, p) /\ (\A i \in Nat : i < h[p].length => h[p].children[i] \in T)
             => p \in T
  PROVE  \A p \in Allocated(h) : p \in T
<1> DEFINE S == Allocated(h)
           rank == [p \in S |-> lev[p]]
<1>1. rank \in [S -> Nat]
  BY SettledAt
<1>2. ASSUME NEW s \in S, \A t \in S : rank[t] < rank[s] => t \in T
      PROVE  s \in T
  <2>1. CASE IsLeaf(h, s)
    BY <2>1
  <2>2. CASE ~ IsLeaf(h, s)
    <3>1. IsInternal(h, s) /\ h \in Heap /\ Tree(h, lev)
      BY <2>2, SettledAt
    <3>2. ASSUME NEW i \in Nat, i < h[s].length
          PROVE  h[s].children[i] \in T
      <4> DEFINE c == h[s].children[i]
      <4>1. c \in S /\ lev[s] = lev[c] + 1
        BY <3>1, <3>2, ChildOf
      <4>2. rank[c] = lev[c] /\ rank[s] = lev[s] /\ lev[c] \in Nat
        BY <4>1, SettledAt
      <4> HIDE DEF rank, c
      <4>3. rank[c] < rank[s]
        BY <4>1, <4>2
      <4> QED
        BY <1>2, <4>1, <4>3 DEF c
    <3> QED
      BY <3>1, <3>2
  <2> QED
    BY <2>1, <2>2
<1> HIDE DEF rank, S
<1>3. \A s \in S : s \in T
  BY <1>1, <1>2, RankInduction
<1> QED
  BY <1>3 DEF S

\* Where the items of p end those of the node after it start.
EndsRight(w, after, before, total, p) ==
  before[p] + w[p] = IF after[p] = None THEN total ELSE before[after[p]]

\* The types of the offsets.
LEMMA LaidAt ==
  ASSUME NEW h, NEW lev, NEW w, NEW after, NEW before, NEW top, NEW total,
         NEW bound, Laid(h, lev, w, after, before, top, total, bound),
         NEW p \in Allocated(h)
  PROVE  /\ before[p] \in Nat /\ w[p] \in Nat /\ total \in Nat
         /\ top \in Allocated(h) \cup {None}
         /\ top \in Allocated(h) => /\ before[top] = 0 /\ w[top] = total
                                    /\ after[top] = None /\ h[top].parent = None
         /\ after[p] # None => /\ after[p] \in Allocated(h)
                               /\ h[after[p]].kind = h[p].kind
<1>1. p \in Ptr /\ before \in [Ptr -> Nat] /\ w \in [Ptr -> Nat]
      /\ top \in Allocated(h) \cup {None}
  BY DEF Laid, Offsets, Settled, Allocated, IsTop
<1>2. top \in Allocated(h) => top \in Ptr /\ top # None
  BY SettledAt DEF Laid
<1>3. total \in Nat
  BY <1>1, <1>2 DEF Laid, Settled
<1>4. top \in Allocated(h) => before[top] = 0 /\ w[top] = total
  BY <1>2 DEF Laid, Settled, Offsets
<1>5. top \in Allocated(h) => after[top] = None /\ h[top].parent = None
  BY <1>2 DEF Laid, Settled, Levels, Roots
<1>6. after[p] # None => after[p] \in Allocated(h) /\ h[after[p]].kind = h[p].kind
  BY DEF Laid, Settled, Levels, LeadsOn
<1> QED
  BY <1>1, <1>3, <1>4, <1>5, <1>6

\* That is so of every node.
LEMMA EndsAt ==
  ASSUME NEW h, NEW lev, NEW w, NEW after, NEW before, NEW top, NEW total,
         NEW bound, Laid(h, lev, w, after, before, top, total, bound)
  PROVE  \A p \in Allocated(h) : EndsRight(w, after, before, total, p)
<1> DEFINE T == {p \in Allocated(h) : EndsRight(w, after, before, total, p)}
<1>0. Settled(h, lev, w, after, top, total, bound)
  BY DEF Laid
<1>1. top \in Allocated(h) => top \in T
  <2> SUFFICES ASSUME top \in Allocated(h) PROVE EndsRight(w, after, before, total, top)
    OBVIOUS
  <2>1. before[top] = 0 /\ w[top] = total /\ after[top] = None /\ total \in Nat
    BY LaidAt
  <2>2. 0 + total = total
    BY <2>1
  <2> QED
    BY <2>1, <2>2 DEF EndsRight
<1>2. ASSUME NEW p \in Allocated(h), h[p].parent # None, h[p].parent \in T
      PROVE  p \in T
  <2> DEFINE q == h[p].parent
             i == h[p].index
             sums == PrefixSums(h[q].sizes)
  <2>1. Placed(h, lev, w, before, p, q, i)
    BY <1>2, PlacedAt
  <2>2. /\ q \in Allocated(h) /\ IsInternal(h, q) /\ i \in Nat /\ i < h[q].length
        /\ before[p] + w[p] = before[q] + sums[i + 1] /\ h[q].children[i] = p
    BY <2>1 DEF Placed
  <2>3. EndsRight(w, after, before, total, q)
    BY <1>2
  <2>4. /\ h[q].length \in 0..B /\ w[q] = sums[h[q].length]
        /\ h[q].sizes \in SizeArray
    BY <1>0, <2>2, SettledAt
  <2>5. after[p] = NextChild(h, after, q, i)
    BY <2>2, <2>1 DEF Laid, Settled, Levels, Placed
  <2> HIDE DEF q, i
  <2>6. CASE i + 1 < h[q].length
    <3> DEFINE c == h[q].children[i + 1]
    <3>1. i + 1 \in Nat
      BY <2>2
    <3>2. /\ c \in Allocated(h)
          /\ Placed(h, lev, w, before, c, q, i + 1)
      BY <2>2, <2>6, <3>1, PlacedChild
    <3>3. before[c] = before[q] + sums[i + 1] /\ after[p] = c /\ c # None
      BY <1>0, <2>5, <2>6, <3>2, SettledAt DEF Placed, NextChild
    <3>4. EndsRight(w, after, before, total, p)
      BY <2>2, <3>3 DEF EndsRight
    <3> QED
      BY <3>4
  <2>7. CASE ~ (i + 1 < h[q].length)
    <3>1. i + 1 = h[q].length
      BY <2>2, <2>4, <2>7
    <3>2. before[p] + w[p] = before[q] + w[q]
      BY <2>2, <2>4, <3>1
    <3>3. CASE after[q] = None
      <4>1. after[p] = None
        BY <2>5, <2>7, <3>3 DEF NextChild
      <4> QED
        BY <2>3, <3>2, <3>3, <4>1 DEF EndsRight
    <3>4. CASE after[q] # None
      <4> DEFINE r == after[q]
                 c == h[r].children[0]
      <4>1. r \in Allocated(h) /\ IsInternal(h, r)
        BY <2>2, <3>4, LaidAt DEF IsInternal
      <4>2. h[r].length >= 1 /\ h[r].length \in 0..B /\ h[r].sizes \in SizeArray
        BY <1>0, <4>1, SettledAt
      <4>3. 0 < h[r].length /\ 0 \in Nat
        BY <4>2
      <4>4. c \in Allocated(h) /\ Placed(h, lev, w, before, c, r, 0)
        BY <4>1, <4>3, PlacedChild
      <4>5. PrefixSums(h[r].sizes)[0] = 0 /\ before[r] \in Nat
        BY <4>1, <4>2, SumsStep, LaidAt
      <4>6. before[c] = before[r] + 0
        BY <4>4, <4>5 DEF Placed
      <4>7. before[c] = before[r]
        BY <4>5, <4>6
      <4>8. after[p] = c /\ c # None
        BY <1>0, <2>5, <2>7, <3>4, <4>4, SettledAt DEF NextChild
      <4>9. before[q] + w[q] = before[r]
        BY <2>3, <3>4 DEF EndsRight
      <4> QED
        BY <3>2, <4>7, <4>8, <4>9 DEF EndsRight
    <3> QED
      BY <3>3, <3>4
  <2> QED
    BY <2>6, <2>7
<1> HIDE DEF T
<1>3. \A p \in Allocated(h) : p \in T
  BY <1>0, <1>1, <1>2, FromTheTop
<1> QED
  BY <1>3 DEF T

\* Item t of the vector is below p.
Covers(w, before, p, t) == before[p] <= t /\ t < before[p] + w[p]

\* Then it is below the parent of p, at its place there.
LEMMA CoversUp ==
  ASSUME NEW h, NEW lev, NEW w, NEW after, NEW before, NEW top, NEW total,
         NEW bound, Laid(h, lev, w, after, before, top, total, bound),
         NEW p \in Allocated(h), NEW q, NEW i, Placed(h, lev, w, before, p, q, i)
  PROVE  /\ before[q] <= before[p] /\ before[p] + w[p] <= before[q] + w[q]
         /\ i \in 0..(B - 1) /\ i + 1 \in 0..B /\ h[q].sizes \in SizeArray
         /\ \A t \in Nat : Covers(w, before, p, t) => Covers(w, before, q, t)
<1> DEFINE sums == PrefixSums(h[q].sizes)
<1>1. /\ q \in Allocated(h) /\ IsInternal(h, q) /\ i \in Position /\ i < h[q].length
      /\ before[p] = before[q] + sums[i] /\ before[p] + w[p] = before[q] + sums[i + 1]
  BY DEF Placed
<1>2. /\ h[q].length \in 0..B /\ w[q] = sums[h[q].length] /\ h[q].sizes \in SizeArray
  BY <1>1, SettledAt DEF Laid
<1>3. /\ i \in 0..(B - 1) /\ i \in 0..B /\ i + 1 \in 0..B /\ i + 1 <= h[q].length
  BY <1>1, <1>2
<1>4. sums[i + 1] <= sums[h[q].length] /\ sums[i] \in Nat /\ sums[i + 1] \in Nat
      /\ sums[h[q].length] \in Nat
  BY <1>2, <1>3, SumsGrow, SumsStep
<1>5. before[p] \in Nat /\ before[q] \in Nat /\ w[p] \in Nat /\ w[q] \in Nat
  BY <1>1, LaidAt
<1> HIDE DEF sums
<1>6. PICK a \in Nat, b \in Nat, c \in Nat, x \in Nat, y \in Nat, z \in Nat :
        /\ a = before[p] /\ b = before[q] /\ c = w[p]
        /\ x = sums[i] /\ y = sums[i + 1] /\ z = w[q]
  BY <1>4, <1>5, Zenon
<1> DEFINE u == a + c
<1>7. a = b + x /\ u = b + y /\ y <= z
  BY <1>1, <1>2, <1>4, <1>6
<1>8. b <= a /\ u <= b + z
  BY <1>7
<1>9. ASSUME NEW t \in Nat, a <= t, t < u PROVE b <= t /\ t < b + z
  BY <1>8, <1>9
<1> QED
  BY <1>2, <1>3, <1>6, <1>8, <1>9 DEF Covers

\* All items are within the vector.
LEMMA WithinTotal ==
  ASSUME NEW h, NEW lev, NEW w, NEW after, NEW before, NEW top, NEW total,
         NEW bound, Laid(h, lev, w, after, before, top, total, bound)
  PROVE  \A p \in Allocated(h) : before[p] + w[p] <= total
<1> DEFINE T == {p \in Allocated(h) : before[p] + w[p] <= total}
<1>0. Settled(h, lev, w, after, top, total, bound)
  BY DEF Laid
<1>1. ASSUME top \in Allocated(h) PROVE top \in T
  <2>1. before[top] = 0 /\ w[top] = total /\ total \in Nat
    BY <1>1, LaidAt
  <2>2. 0 + total <= total
    BY <2>1
  <2> QED
    BY <1>1, <2>1, <2>2
<1>2. ASSUME NEW p \in Allocated(h), h[p].parent # None, h[p].parent \in T
      PROVE  p \in T
  <2> DEFINE q == h[p].parent
  <2>1. Placed(h, lev, w, before, p, q, h[p].index)
    BY <1>2, PlacedAt
  <2>2. before[p] + w[p] <= before[q] + w[q] /\ before[q] + w[q] <= total
    BY <1>2, <2>1, CoversUp
  <2>3. /\ before[p] \in Nat /\ w[p] \in Nat /\ before[q] \in Nat /\ w[q] \in Nat
        /\ total \in Nat
    BY <1>2, LaidAt
  <2> HIDE DEF q
  <2>4. before[p] + w[p] <= total
    BY <2>2, <2>3
  <2> QED
    BY <2>4
<1> HIDE DEF T
<1>3. \A p \in Allocated(h) : p \in T
  BY <1>0, <1>1, <1>2, FromTheTop
<1> QED
  BY <1>3 DEF T

\* The root is above all others.
LEMMA TopAbove ==
  ASSUME NEW h, NEW lev, NEW w, NEW after, NEW top, NEW total, NEW bound,
         Settled(h, lev, w, after, top, total, bound)
  PROVE  \A p \in Allocated(h) : p = top \/ lev[p] < lev[top]
<1> DEFINE T == {p \in Allocated(h) : p = top \/ lev[p] < lev[top]}
<1>1. top \in Allocated(h) => top \in T
  OBVIOUS
<1>2. ASSUME NEW p \in Allocated(h), h[p].parent # None, h[p].parent \in T
      PROVE  p \in T
  <2> DEFINE q == h[p].parent
  <2>1. q \in Allocated(h) /\ lev[q] = lev[p] + 1
    BY <1>2, SettledAt, ParentOf
  <2>2. top \in Allocated(h)
    <3>1. top \in Allocated(h) \cup {None} /\ (top = None => Roots(h) = {})
      BY DEF Settled, IsTop
    <3>2. CASE q = top
      BY <2>1, <3>2
    <3>3. CASE q # top
      <4>1. DOMAIN lev = Ptr /\ lev \in [Ptr -> Nat]
        BY SettledAt DEF Tree
      <4> DEFINE U == {x \in Allocated(h) : FALSE}
      <4>2. CASE top \notin Allocated(h)
        <5>1. \A x \in Allocated(h) : x \in U
          BY <4>2, FromTheTop
        <5> QED
          BY <5>1
      <4> QED
        BY <4>2
    <3> QED
      BY <3>2, <3>3
  <2>3. lev[p] \in Nat /\ lev[q] \in Nat /\ lev[top] \in Nat
    BY <2>1, <2>2, SettledAt
  <2>4. q = top \/ lev[q] < lev[top]
    BY <1>2
  <2> HIDE DEF q
  <2>5. lev[p] < lev[top]
    BY <2>1, <2>3, <2>4
  <2> QED
    BY <2>5
<1> HIDE DEF T
<1>3. \A p \in Allocated(h) : p \in T
  BY <1>1, <1>2, FromTheTop
<1> QED
  BY <1>3 DEF T

\* Two nodes of a level do not share an item.
LEMMA CoversOne ==
  ASSUME NEW h, NEW lev, NEW w, NEW after, NEW before, NEW top, NEW total,
         NEW bound, Laid(h, lev, w, after, before, top, total, bound)
  PROVE  \A p \in Allocated(h) : \A o \in Allocated(h), t \in Nat :
           lev[o] = lev[p] /\ Covers(w, before, p, t) /\ Covers(w, before, o, t)
             => o = p
<1> DEFINE Alone(p) == \A o \in Allocated(h), t \in Nat :
             lev[o] = lev[p] /\ Covers(w, before, p, t) /\ Covers(w, before, o, t)
               => o = p
           T == {p \in Allocated(h) : Alone(p)}
<1>0. Settled(h, lev, w, after, top, total, bound)
  BY DEF Laid
<1>1. ASSUME top \in Allocated(h) PROVE top \in T
  <2>1. ASSUME NEW o \in Allocated(h), lev[o] = lev[top] PROVE o = top
    <3>1. o = top \/ lev[o] < lev[top]
      BY <1>0, TopAbove
    <3>2. lev[top] \in Nat
      BY <1>0, <1>1, SettledAt
    <3> QED
      BY <2>1, <3>1, <3>2
  <2> QED
    BY <1>1, <2>1
<1>2. ASSUME NEW p \in Allocated(h), h[p].parent # None, h[p].parent \in T
      PROVE  p \in T
  <2> SUFFICES ASSUME NEW o \in Allocated(h), NEW t \in Nat, lev[o] = lev[p],
                      Covers(w, before, p, t), Covers(w, before, o, t)
               PROVE  o = p
    OBVIOUS
  <2> DEFINE q == h[p].parent
             r == h[o].parent
             i == h[p].index
             j == h[o].index
             sums == PrefixSums(h[q].sizes)
  <2>1. Placed(h, lev, w, before, p, q, i) /\ q \in Allocated(h)
        /\ lev[q] = lev[p] + 1 /\ h[q].children[i] = p
        /\ before[p] = before[q] + sums[i]
        /\ before[p] + w[p] = before[q] + sums[i + 1]
    BY <1>2, PlacedAt DEF Placed
  <2>2. r # None
    <3>1. q = top \/ lev[q] < lev[top]
      BY <1>0, <2>1, TopAbove
    <3>2. r = None => o = top
      BY <1>0, SettledAt
    <3>3. lev[q] \in Nat /\ lev[p] \in Nat
      BY <1>0, <2>1, SettledAt
    <3>4. lev[o] = lev[q] - 1
      BY <2>1, <3>3
    <3>5. ASSUME o = top PROVE FALSE
      <4>1. lev[top] = lev[q] - 1 /\ (q = top \/ lev[q] < lev[q] - 1)
        BY <3>1, <3>4, <3>5
      <4> HIDE DEF q
      <4>2. lev[q] # lev[q] - 1 /\ ~ (lev[q] < lev[q] - 1)
        BY <3>3
      <4> QED
        BY <4>1, <4>2
    <3> QED
      BY <3>2, <3>5
  <2>3. Placed(h, lev, w, before, o, r, j) /\ r \in Allocated(h)
        /\ lev[r] = lev[o] + 1 /\ h[r].children[j] = o
        /\ before[o] = before[r] + PrefixSums(h[r].sizes)[j]
        /\ before[o] + w[o] = before[r] + PrefixSums(h[r].sizes)[j + 1]
    BY <2>2, PlacedAt DEF Placed
  <2> HIDE DEF q, r, i, j
  <2>4. Covers(w, before, q, t) /\ Covers(w, before, r, t) /\ lev[r] = lev[q]
        /\ i \in 0..(B - 1) /\ i + 1 \in 0..B /\ j \in 0..(B - 1) /\ j + 1 \in 0..B
        /\ h[q].sizes \in SizeArray
    BY <2>1, <2>3, CoversUp
  <2>5. r = q
    <3>1. Alone(q)
      BY <1>2 DEF q
    <3> QED
      BY <2>3, <2>4, <3>1
  <2>6. before[q] \in Nat
    BY <2>1, LaidAt
  <2>7. /\ before[q] + sums[i] <= t /\ t < before[q] + sums[i + 1]
        /\ before[q] + sums[j] <= t /\ t < before[q] + sums[j + 1]
    BY <2>1, <2>3, <2>5 DEF Covers
  <2>8. sums[i] \in Nat /\ sums[i + 1] \in Nat /\ sums[j] \in Nat /\ sums[j + 1] \in Nat
    BY <2>4, SumsStep
  <2>9. (i < j => sums[i + 1] <= sums[j]) /\ (j < i => sums[j + 1] <= sums[i])
    <3>1. i \in 0..B /\ j \in 0..B /\ (i < j => i + 1 <= j) /\ (j < i => j + 1 <= i)
      BY <2>4
    <3> HIDE DEF sums
    <3> QED
      BY <2>4, <3>1, SumsGrow DEF sums
  <2> HIDE DEF sums
  <2>10. i = j
    <3>1. PICK b \in Nat, x1 \in Nat, x2 \in Nat, y1 \in Nat, y2 \in Nat :
            /\ b = before[q] /\ x1 = sums[i] /\ x2 = sums[i + 1]
            /\ y1 = sums[j] /\ y2 = sums[j + 1]
      BY <2>6, <2>8
    <3>2. b + x1 <= t /\ t < b + x2 /\ b + y1 <= t /\ t < b + y2
      BY <2>7, <3>1
    <3>3. ~ (x2 <= y1) /\ ~ (y2 <= x1)
      BY <3>2
    <3>4. ~ (i < j) /\ ~ (j < i)
      BY <2>9, <3>1, <3>3
    <3> QED
      BY <2>4, <3>4
  <2> QED
    BY <2>1, <2>3, <2>5, <2>10
<1> HIDE DEF T
<1>3. \A p \in Allocated(h) : p \in T
  BY <1>0, <1>1, <1>2, FromTheTop
<1> QED
  BY <1>3 DEF T

-----------------------------------------------------------------------------
(***************************************************************************)
(* leaf_for.                                                               *)
(***************************************************************************)

\* Item i below p is item j below its child q.
Passes(h, w, before, p, i, q, j) ==
  /\ q \in Allocated(h) /\ j \in Nat /\ before[q] + j = before[p] + i
  /\ i < w[p] => j < w[q]

\* The child that leaf_for takes and the index it goes on with.
Deeper(h, p, i) == h[p].children[ChildFor(h, p, i)]
IndexThere(h, p, i) == i - PrefixSums(h[p].sizes)[ChildFor(h, p, i)]

\* A step of leaf_for, to any child i lies in or past.
LEMMA PassesTo ==
  ASSUME NEW h, NEW lev, NEW w, NEW after, NEW before, NEW top, NEW total,
         NEW bound, Laid(h, lev, w, after, before, top, total, bound),
         NEW p \in Allocated(h), IsInternal(h, p), NEW i \in Nat,
         NEW c \in Nat, c < h[p].length,
         PrefixSums(h[p].sizes)[c] <= i,
         c = h[p].length - 1 \/ i < PrefixSums(h[p].sizes)[c + 1]
  PROVE  /\ Passes(h, w, before, p, i, h[p].children[c], i - PrefixSums(h[p].sizes)[c])
         /\ lev[p] = lev[h[p].children[c]] + 1
<1> DEFINE q == h[p].children[c]
           sums == PrefixSums(h[p].sizes)
<1>0. Settled(h, lev, w, after, top, total, bound)
  BY DEF Laid
<1>1. Placed(h, lev, w, before, q, p, c) /\ q \in Allocated(h)
  BY PlacedChild
<1>2. /\ h[p].length \in 0..B /\ h[p].sizes \in SizeArray
      /\ w[p] = sums[h[p].length]
  BY <1>0, SettledAt
<1>3. /\ before[q] = before[p] + sums[c] /\ before[q] + w[q] = before[p] + sums[c + 1]
      /\ lev[p] = lev[q] + 1
  BY <1>1 DEF Placed
<1>4. c \in 0..B /\ c + 1 \in 0..B
  BY <1>2
<1>5. sums[c] \in Nat /\ sums[c + 1] \in Nat
  BY <1>2, <1>4, SumsStep
<1>6. before[p] \in Nat /\ w[p] \in Nat /\ before[q] \in Nat /\ w[q] \in Nat
  BY <1>1, LaidAt
<1>7. c = h[p].length - 1 => w[p] = sums[c + 1]
  <2>1. PICK n \in Nat : n = h[p].length
    BY <1>2
  <2>2. c = n - 1 => c + 1 = n
    BY <2>1
  <2> HIDE DEF sums
  <2> QED
    BY <1>2, <2>1, <2>2
<1>8. sums[c] <= i /\ (c = h[p].length - 1 \/ i < sums[c + 1])
  OBVIOUS
<1> HIDE DEF q, sums
<1>9. PICK a \in Nat, b \in Nat, x \in Nat, y \in Nat, u \in Nat, v \in Nat :
        /\ a = before[p] /\ b = before[q] /\ x = w[p] /\ y = w[q]
        /\ u = sums[c] /\ v = sums[c + 1]
  BY <1>5, <1>6, Zenon
<1>10. /\ b = a + u /\ b + y = a + v /\ u <= i /\ (x = v \/ i < v)
  BY <1>3, <1>7, <1>8, <1>9
<1>11. i - u \in Nat /\ b + (i - u) = a + i /\ (i < x => i - u < y)
  BY <1>10
<1>12. Passes(h, w, before, p, i, q, i - sums[c])
  BY <1>1, <1>9, <1>11 DEF Passes
<1> QED
  BY <1>3, <1>12 DEF q, sums

\* The step that leaf_for takes.
LEMMA PassesDeeper ==
  ASSUME NEW h, NEW lev, NEW w, NEW after, NEW before, NEW top, NEW total,
         NEW bound, Laid(h, lev, w, after, before, top, total, bound),
         NEW p \in Allocated(h), IsInternal(h, p), NEW i \in Nat
  PROVE  /\ Passes(h, w, before, p, i, Deeper(h, p, i), IndexThere(h, p, i))
         /\ lev[Deeper(h, p, i)] < lev[p]
<1> DEFINE c == ChildFor(h, p, i)
<1>0. Settled(h, lev, w, after, top, total, bound)
  BY DEF Laid
<1>1. h \in Heap /\ p \in Ptr /\ h[p].length \in 0..B /\ h[p].length >= 1
  BY <1>0, SettledAt
<1>2. h[p].length # 0
  BY <1>1
<1>3. /\ c \in 0..(h[p].length - 1) /\ PrefixSums(h[p].sizes)[c] <= i
      /\ c = h[p].length - 1 \/ i < PrefixSums(h[p].sizes)[c + 1]
  BY <1>1, <1>2, ChildForType
<1>4. c \in Nat /\ c < h[p].length
  BY <1>1, <1>3
<1> HIDE DEF c
<1>5. /\ Passes(h, w, before, p, i, h[p].children[c], i - PrefixSums(h[p].sizes)[c])
      /\ lev[p] = lev[h[p].children[c]] + 1
  BY <1>3, <1>4, PassesTo
<1> DEFINE q == h[p].children[c]
<1>6. lev[q] \in Nat /\ lev[p] \in Nat
  BY <1>0, <1>5, SettledAt DEF Passes
<1> HIDE DEF q
<1>7. lev[q] < lev[p]
  BY <1>5, <1>6 DEF q
<1> QED
  BY <1>5, <1>7 DEF q, c, Deeper, IndexThere

-----------------------------------------------------------------------------
(***************************************************************************)
(* The vector between two calls.                                           *)
(***************************************************************************)

\* Every node has a place in the vector.
HasPlaces(h, top, total) ==
  \E lev, w, after, before, bound : Laid(h, lev, w, after, before, top, total, bound)

\* While nothing is being inserted or removed they do.
LEMMA RestLaid ==
  ASSUME VecInv, FiniteInv, pc # "climb", ~ Ended
  PROVE  HasPlaces(heap, root, size)
<1>1. TypeInv /\ TreeInv /\ SizesInv /\ OrderInv
  BY DEF VecInv
<1>2. ~ Inserting /\ ~ Removing
  BY DEF Inserting, Removing
<1>3. PICK lev \in [Ptr -> Nat] : OneTree(lev)
  BY <1>1, <1>2, OneTreeThen
<1>4. PICK w : Exact(w)
  BY <1>1, ExactThen
<1>5. PICK after \in [Ptr -> PtrOrNone] : Ordered(heap, after, root, {})
  BY <1>1, <1>2, <1>3, OrderedThen
<1>6. heap \in Heap /\ root \in PtrOrNone /\ size \in Nat
  BY <1>1 DEF TypeInv, TypeOK
<1>7. NonEmpty
  BY <1>1 DEF TreeInv, TreeInvAt
<1>8. \A p \in Allocated(heap) : IsInternal(heap, p) => heap[p].length >= 1
  BY <1>2, <1>7 DEF NonEmpty, IsEmptied
<1>9. PICK bound \in Nat : \A p \in Allocated(heap) : lev[p] <= bound
  <2>1. \A p \in Allocated(heap) : lev[p] \in Nat
    BY DEF Allocated
  <2> QED
    BY <2>1, FiniteBound DEF FiniteInv
<1>10. Tree(heap, lev) /\ Roots(heap) = {root} \ {None}
       /\ (root # None => root \in Allocated(heap) /\ heap[root].parent = None)
  BY <1>3 DEF OneTree
<1>11. IsTop(heap, root) /\ Top = root
  BY <1>10 DEF IsTop, Top
<1>12. /\ w \in [Ptr -> Nat] /\ Sized(heap, w)
       /\ \A p \in Allocated(heap) : w[p] = Weight(heap, p)
       /\ size = IF root = None THEN 0 ELSE w[root]
  BY <1>4, <1>11 DEF Exact
<1>13. Levels(heap, after, after, root, {})
  BY <1>5 DEF Ordered
<1>14. Settled(heap, lev, w, after, root, size, bound)
  BY <1>6, <1>8, <1>9, <1>10, <1>11, <1>12, <1>13 DEF Settled
<1>15. PICK before : Offsets(heap, w, before, root)
  BY <1>14, OffsetsExist
<1>16. Laid(heap, lev, w, after, before, root, size, bound)
  BY <1>14, <1>15 DEF Laid
<1> QED
  BY <1>16 DEF HasPlaces

-----------------------------------------------------------------------------
(***************************************************************************)
(* The walk to the first leaf.                                             *)
(***************************************************************************)

\* The nodes form trees that are no higher than `bound`.
Bounded(h, lev, bound) ==
  /\ h \in Heap /\ Tree(h, lev)
  /\ bound \in Nat /\ \A p \in Allocated(h) : lev[p] <= bound

\* Finitely many nodes do.
LEMMA FiniteTrees ==
  ASSUME NEW h \in Heap, NEW lev, Tree(h, lev), IsFiniteSet(Allocated(h))
  PROVE  \E bound : Bounded(h, lev, bound)
<1>1. \A p \in Allocated(h) : lev[p] \in Nat
  BY DEF Allocated, Tree
<1>2. PICK bound \in Nat : \A p \in Allocated(h) : lev[p] <= bound
  BY <1>1, FiniteBound
<1> QED
  BY <1>2 DEF Bounded

\* What FirstLeaf's function is.
IsFirst(h, f) ==
  f = [p \in PtrOrNone |->
         IF p # None /\ IsInternal(h, p) THEN f[h[p].children[0]] ELSE p]

\* The first child of an internal node, if it has any.
LEMMA FirstChild ==
  ASSUME NEW h \in Heap, NEW lev, Tree(h, lev), NEW p \in Allocated(h), IsInternal(h, p)
  PROVE  /\ lev[p] \in Nat /\ lev[p] # 0
         /\ IF h[p].length >= 1
            THEN /\ h[p].children[0] \in Allocated(h)
                 /\ lev[p] = lev[h[p].children[0]] + 1
                 /\ lev[h[p].children[0]] \in Nat
                 /\ h[h[p].children[0]].index = 0 /\ h[h[p].children[0]].parent = p
            ELSE h[p].children[0] = None
<1>1. p \in Ptr /\ h[p].length \in 0..B /\ ~ IsLeaf(h, p) /\ 0 \in Position
  BY Kinds, NodeAssumption DEF Position
<1>2. lev[p] \in Nat /\ lev[p] # 0 /\ SlotsOK(h, lev, p)
  BY <1>1 DEF Tree
<1>3. CASE h[p].length >= 1
  <2>1. 0 < h[p].length /\ 0 \in Nat
    BY <1>1, <1>3
  <2>2. /\ h[p].children[0] \in Allocated(h) /\ lev[p] = lev[h[p].children[0]] + 1
        /\ h[h[p].children[0]].index = 0 /\ h[h[p].children[0]].parent = p
    BY <2>1, ChildOf
  <2>3. lev[h[p].children[0]] \in Nat
    BY <2>2 DEF Tree, Allocated
  <2> QED
    BY <1>2, <1>3, <2>2, <2>3
<1>4. CASE ~ (h[p].length >= 1)
  <2>1. ~ (0 < h[p].length)
    BY <1>1, <1>4
  <2>2. h[p].children[0] = None
    BY <1>1, <1>2, <2>1 DEF SlotsOK
  <2> QED
    BY <1>2, <1>4, <2>2
<1> QED
  BY <1>3, <1>4

\* The function FirstLeaf names exists.
LEMMA FirstExists ==
  ASSUME NEW h, NEW lev, NEW bound, Bounded(h, lev, bound)
  PROVE  \E f : IsFirst(h, f)
<1> DEFINE S == PtrOrNone
           stops == {p \in S : ~ (p # None /\ IsInternal(h, p))}
           next == [p \in S |-> IF p \in stops THEN p ELSE h[p].children[0]]
           rank == [p \in S |-> IF p \in Allocated(h) THEN lev[p] ELSE 0]
           base == [p \in S |-> p]
<1>0. h \in Heap /\ Tree(h, lev) /\ bound \in Nat /\ \A p \in Allocated(h) : lev[p] <= bound
  BY DEF Bounded
<1>4. Allocated(h) \subseteq S /\ None \in S /\ None \notin Allocated(h)
  BY <1>0, Kinds DEF Allocated, PtrOrNone
<1>1. ASSUME NEW p \in S, p \notin stops
      PROVE  /\ p \in Allocated(h) /\ h[p].children[0] \in S
             /\ rank[h[p].children[0]] < rank[p]
  <2>1. p \in Allocated(h) /\ IsInternal(h, p)
    BY <1>1 DEF Allocated, IsInternal, PtrOrNone
  <2> DEFINE c == h[p].children[0]
  <2>2. /\ lev[p] \in Nat /\ lev[p] # 0
        /\ IF h[p].length >= 1
           THEN c \in Allocated(h) /\ lev[p] = lev[c] + 1 /\ lev[c] \in Nat
           ELSE c = None
    BY <1>0, <2>1, FirstChild
  <2>3. rank[p] = lev[p]
    BY <2>1
  <2>4. c \in S /\ rank[c] = IF c \in Allocated(h) THEN lev[c] ELSE 0
    BY <1>4, <2>2
  <2> HIDE DEF c, rank
  <2>5. rank[c] < rank[p]
    BY <1>4, <2>2, <2>3, <2>4
  <2> QED
    BY <2>1, <2>4, <2>5 DEF c
<1>3. rank \in [S -> 0..bound]
  <2>1. \A p \in Allocated(h) : lev[p] \in Nat
    BY <1>0 DEF Tree, Allocated
  <2>2. \A p \in Allocated(h) : lev[p] \in 0..bound
    BY <1>0, <2>1
  <2>3. 0 \in 0..bound
    BY <1>0
  <2> QED
    BY <2>2, <2>3
<1>5. next \in [S -> S]
  BY <1>1, <1>4
<1>6. \A x \in S : x \in stops \/ rank[next[x]] < rank[x]
  <2> HIDE DEF rank
  <2> QED
    BY <1>1, <1>4, <1>5
<1>7. base \in [S -> S]
  OBVIOUS
<1>8. \A x \in S : base[x] = x
  OBVIOUS
<1>9. \A x \in S : x \notin stops => next[x] = h[x].children[0]
  OBVIOUS
<1> HIDE DEF next, rank, base
<1>10. IsChain(S, stops, next, rank, bound)
  BY <1>0, <1>3, <1>5, <1>6 DEF IsChain
<1> HIDE DEF S, stops
<1>11. PICK f \in [S -> S] : Jumps(f, S, stops, next, base)
  BY <1>7, <1>10, JumpFunction
<1>12. \A x \in S : f[x] = IF x # None /\ IsInternal(h, x) THEN f[h[x].children[0]] ELSE x
  BY <1>8, <1>9, <1>11 DEF stops, Jumps
<1>13. f = [x \in S |-> f[x]]
  BY <1>11
<1>14. IsFirst(h, f)
  BY <1>12, <1>13 DEF IsFirst, S
<1> QED
  BY <1>14

\* FirstLeaf is the step its definition takes.
LEMMA FirstLeafStep ==
  ASSUME NEW h, NEW lev, NEW bound, Bounded(h, lev, bound), NEW p \in PtrOrNone
  PROVE  FirstLeaf(h, p) = IF p # None /\ IsInternal(h, p)
                           THEN FirstLeaf(h, h[p].children[0]) ELSE p
<1> DEFINE F == CHOOSE f : IsFirst(h, f)
<1>1. \A q : FirstLeaf(h, q) = F[q]
  BY Zenon DEF FirstLeaf, IsFirst
<1>2. IsFirst(h, F)
  BY FirstExists, Zenon
<1> HIDE DEF F
<1>3. F[p] = IF p # None /\ IsInternal(h, p) THEN F[h[p].children[0]] ELSE p
  BY <1>2 DEF IsFirst
<1> QED
  BY <1>1, <1>3

-----------------------------------------------------------------------------
(***************************************************************************)
(* The walk along the leaf list.                                           *)
(***************************************************************************)

\* The leaf list leads from leaf to leaf and ends.
EndsBy(h, rank, bound) ==
  /\ bound \in Nat /\ rank \in [Ptr -> 0..bound]
  /\ \A p \in Ptr : IsLeaf(h, p) /\ h[p].next # None =>
       h[p].next \in Ptr /\ IsLeaf(h, h[p].next) /\ rank[h[p].next] < rank[p]

ListEnds(h) == \E rank, bound : EndsBy(h, rank, bound)

\* The items of a leaf are a sequence of items.
LEMMA LeafItems ==
  ASSUME NEW h \in Heap, NEW lev, Tree(h, lev), NEW p \in Ptr, IsLeaf(h, p)
  PROVE  /\ Children(h, p) \in Seq(Item) /\ Len(Children(h, p)) = h[p].length
         /\ \A i \in 1..h[p].length : Children(h, p)[i] = h[p].children[i - 1]
<1>0. p \in Allocated(h)
  BY DEF Allocated, IsLeaf
<1>1. h[p].length \in 0..B
  BY <1>0, Kinds
<1>2. PICK n \in Nat : n = h[p].length /\ n <= B
  BY <1>1
<1>3. \A i \in Position : i < n => h[p].children[i] \in Item
  <2>1. SlotsOK(h, lev, p)
    BY <1>0 DEF Tree
  <2>2. \A i \in Position : i < h[p].length => h[p].children[i] \in Item
    BY <2>1, Zenon DEF SlotsOK
  <2> QED
    BY <1>2, <2>2
<1>4. \A i \in 1..n : i - 1 \in Position /\ i - 1 < n
  BY <1>2, NodeAssumption DEF Position
<1>5. \A i \in 1..n : h[p].children[i - 1] \in Item
  BY <1>3, <1>4
<1> DEFINE c == [i \in 1..n |-> h[p].children[i - 1]]
<1>6. c \in [1..n -> Item]
  BY <1>5
<1>7. c \in Seq(Item) /\ Len(c) = n
  <2> HIDE DEF c
  <2> QED
    BY <1>6
<1>8. Children(h, p) = c
  BY <1>2 DEF Children
<1>9. \A i \in 1..n : c[i] = h[p].children[i - 1]
  OBVIOUS
<1> HIDE DEF c
<1> QED
  BY <1>2, <1>7, <1>8, <1>9

\* What ItemsFrom's function is.
AreItems(h, f) ==
  f = [p \in PtrOrNone |->
         IF p # None /\ IsLeaf(h, p) THEN Children(h, p) \o f[h[p].next] ELSE <<>>]

\* The function ItemsFrom names exists.
LEMMA ItemsExist ==
  ASSUME NEW h \in Heap, NEW lev, Tree(h, lev), NEW rank, NEW bound,
         EndsBy(h, rank, bound)
  PROVE  \E f : AreItems(h, f)
<1> DEFINE S == PtrOrNone
           V == Seq(Item)
           Z == {p \in Ptr : IsLeaf(h, p)}
           stops == S \ Z
           next == [p \in S |-> IF p \in stops THEN p ELSE h[p].next]
           high == [p \in S |-> IF p \in stops THEN 0 ELSE rank[p] + 1]
           base == [p \in S |-> <<>>]
           g == [p \in S |-> [v \in V |-> IF p \in stops THEN v ELSE Children(h, p) \o v]]
<1>0. bound \in Nat /\ rank \in [Ptr -> 0..bound]
      /\ \A p \in Z : h[p].next # None =>
           h[p].next \in Z /\ rank[h[p].next] < rank[p]
  BY DEF EndsBy
<1>1. Z \subseteq S /\ None \notin Z /\ None \in S
  BY NodeAssumption DEF PtrOrNone
<1>2. \A p \in Z : h[p].next \in S
  BY FieldTypes DEF PtrOrNone
<1>3. next \in [S -> S] /\ \A p \in S : next[p] = IF p \in stops THEN p ELSE h[p].next
  BY <1>1, <1>2
<1>4. ASSUME NEW p \in Z PROVE rank[p] + 1 \in 0..(bound + 1) /\ rank[p] + 1 > 0
  <2>1. PICK a \in 0..bound : a = rank[p]
    BY <1>0
  <2> QED
    BY <1>0, <2>1
<1>5. bound + 1 \in Nat /\ 0 \in 0..(bound + 1)
  BY <1>0
<1>6. high \in [S -> 0..(bound + 1)]
  <2> HIDE DEF Z
  <2>1. \A p \in S : p \notin stops => rank[p] + 1 \in 0..(bound + 1)
    BY <1>4
  <2> HIDE DEF stops, S
  <2> QED
    BY <1>5, <2>1
<1>7. \A p \in S : p \in stops \/ high[next[p]] < high[p]
  <2> HIDE DEF Z
  <2> SUFFICES ASSUME NEW p \in S, p \in Z PROVE high[next[p]] < high[p]
    OBVIOUS
  <2>1. next[p] = h[p].next /\ next[p] \in S /\ high[p] = rank[p] + 1
    BY <1>3
  <2>2. CASE next[p] \in Z
    <3>1. high[next[p]] = rank[h[p].next] + 1
      BY <2>1, <2>2
    <3>2. rank[h[p].next] < rank[p]
      BY <1>0, <1>1, <2>1, <2>2
    <3>3. rank[p] \in Nat /\ rank[h[p].next] \in Nat
      BY <1>0, <2>1, <2>2 DEF Z
    <3> HIDE DEF high, next
    <3> QED
      BY <2>1, <3>1, <3>2, <3>3
  <2>3. CASE next[p] \notin Z
    <3>1. high[next[p]] = 0
      BY <2>1, <2>3
    <3>2. rank[p] + 1 > 0
      BY <1>4
    <3> HIDE DEF high, next
    <3> QED
      BY <2>1, <3>1, <3>2
  <2> QED
    BY <2>2, <2>3
<1>10. base \in [S -> V] /\ \A p \in S : base[p] = <<>>
  <2>1. <<>> \in V
    BY EmptySeq
  <2> HIDE DEF V, S
  <2> QED
    BY <2>1
<1>11. g \in [S -> [V -> V]]
       /\ \A p \in S, v \in V : p \notin stops => g[p][v] = Children(h, p) \o v
  <2>1. \A p \in Z : Children(h, p) \in V
    BY LeafItems
  <2>2. \A c \in V, v \in V : c \o v \in V
    BY ConcatProperties
  <2> HIDE DEF V, Z
  <2>3. \A p \in S, v \in V : (IF p \in stops THEN v ELSE Children(h, p) \o v) \in V
    BY <2>1, <2>2
  <2> HIDE DEF S, stops
  <2> QED
    BY <2>3
<1> HIDE DEF next, high, base, g
<1>12. IsChain(S, stops, next, high, bound + 1)
  BY <1>3, <1>5, <1>6, <1>7 DEF IsChain
<1>14. \A p \in S : p # None /\ IsLeaf(h, p) <=> p \notin stops
  BY <1>1 DEF PtrOrNone
<1> HIDE DEF S, V, stops
<1>13. PICK f \in [S -> V] : Follows(f, S, stops, next, base, g)
  BY <1>10, <1>11, <1>12, ChainFunction
<1>15. \A p \in S : f[p] = IF p # None /\ IsLeaf(h, p)
                           THEN Children(h, p) \o f[h[p].next] ELSE <<>>
  <2> SUFFICES ASSUME NEW p \in S
               PROVE  f[p] = IF p # None /\ IsLeaf(h, p)
                             THEN Children(h, p) \o f[h[p].next] ELSE <<>>
    OBVIOUS
  <2>1. CASE p \in stops
    <3>1. f[p] = base[p]
      BY <1>13, <2>1 DEF Follows
    <3> QED
      BY <1>10, <1>14, <2>1, <3>1
  <2>2. CASE p \notin stops
    <3>1. f[p] = g[p][f[next[p]]]
      BY <1>13, <2>2 DEF Follows
    <3>2. next[p] = h[p].next /\ next[p] \in S
      BY <1>3, <2>2
    <3>3. f[next[p]] \in V
      BY <1>13, <3>2
    <3> QED
      BY <1>11, <1>14, <2>2, <3>1, <3>2, <3>3
  <2> QED
    BY <2>1, <2>2
<1>16. f = [p \in S |-> f[p]]
  BY <1>13
<1>17. AreItems(h, f)
  BY <1>15, <1>16 DEF AreItems, S
<1> QED
  BY <1>17

\* ItemsFrom is the step its definition takes.
LEMMA ItemsFromStep ==
  ASSUME NEW h \in Heap, NEW lev, Tree(h, lev), NEW rank, NEW bound,
         EndsBy(h, rank, bound), NEW p \in PtrOrNone
  PROVE  ItemsFrom(h, p) = IF p # None /\ IsLeaf(h, p)
                           THEN Children(h, p) \o ItemsFrom(h, h[p].next)
                           ELSE <<>>
<1> DEFINE F == CHOOSE f : AreItems(h, f)
<1>1. \A q : ItemsFrom(h, q) = F[q]
  BY Zenon DEF ItemsFrom, AreItems
<1>2. AreItems(h, F)
  BY ItemsExist, Zenon
<1> HIDE DEF F
<1>3. F[p] = IF p # None /\ IsLeaf(h, p) THEN Children(h, p) \o F[h[p].next] ELSE <<>>
  BY <1>2 DEF AreItems
<1>4. ItemsFrom(h, p) = F[p] /\ ItemsFrom(h, h[p].next) = F[h[p].next]
  BY <1>1, Zenon
<1> QED
  BY <1>3, <1>4, Zenon

-----------------------------------------------------------------------------
(***************************************************************************)
(* leaf_for.                                                               *)
(***************************************************************************)

\* A node and the index of an item below it.
Places == [leaf : Ptr, index : Nat]

\* What LeafFor's function is.
ArePlaces(h, f) ==
  f = [at \in Places |->
         IF IsInternal(h, at.leaf)
         THEN f[Place(Deeper(h, at.leaf, at.index), IndexThere(h, at.leaf, at.index))]
         ELSE at]

\* The function LeafFor names exists.
LEMMA PlacesExist ==
  ASSUME NEW h, NEW lev, NEW w, NEW after, NEW before, NEW top, NEW total,
         NEW bound, Laid(h, lev, w, after, before, top, total, bound)
  PROVE  \E f : ArePlaces(h, f)
<1> DEFINE S == Places
           stops == {at \in S : ~ IsInternal(h, at.leaf)}
           To(at) == Place(Deeper(h, at.leaf, at.index), IndexThere(h, at.leaf, at.index))
           next == [at \in S |-> IF at \in stops THEN at ELSE To(at)]
           rank == [at \in S |-> IF at.leaf \in Allocated(h) THEN lev[at.leaf] ELSE 0]
           base == [at \in S |-> at]
<1>0. Settled(h, lev, w, after, top, total, bound)
  BY DEF Laid
<1>1. ASSUME NEW at \in S, at \notin stops
      PROVE  /\ at.leaf \in Allocated(h) /\ To(at) \in S /\ To(at).leaf \in Allocated(h)
             /\ lev[To(at).leaf] < lev[at.leaf]
  <2> DEFINE p == at.leaf
             i == at.index
  <2>1. p \in Allocated(h) /\ IsInternal(h, p) /\ i \in Nat
    BY <1>1 DEF Allocated, IsInternal, Places
  <2> HIDE DEF p, i
  <2>2. /\ Passes(h, w, before, p, i, Deeper(h, p, i), IndexThere(h, p, i))
        /\ lev[Deeper(h, p, i)] < lev[p]
    BY <2>1, PassesDeeper
  <2>3. Deeper(h, p, i) \in Ptr /\ Deeper(h, p, i) \in Allocated(h)
        /\ IndexThere(h, p, i) \in Nat
    BY <2>2 DEF Passes, Allocated
  <2> QED
    BY <2>1, <2>2, <2>3 DEF p, i, Place, Places
<1>2. bound \in Nat
  BY <1>0 DEF Settled
<1>3. rank \in [S -> 0..bound]
  <2>1. \A p \in Allocated(h) : lev[p] \in Nat /\ lev[p] <= bound
    BY <1>0, SettledAt
  <2>2. \A p \in Allocated(h) : lev[p] \in 0..bound
    BY <1>2, <2>1
  <2>3. 0 \in 0..bound
    BY <1>2
  <2> HIDE DEF S
  <2> QED
    BY <2>2, <2>3
<1> HIDE DEF To, S
<1>4. next \in [S -> S]
  BY <1>1
<1>5. \A x \in S : x \in stops \/ rank[next[x]] < rank[x]
  BY <1>1, <1>4
<1>6. base \in [S -> S]
  OBVIOUS
<1>7. \A x \in S : base[x] = x
  OBVIOUS
<1>8. \A x \in S : x \notin stops => next[x] = To(x)
  OBVIOUS
<1> HIDE DEF next, rank, base
<1>9. IsChain(S, stops, next, rank, bound)
  BY <1>2, <1>3, <1>4, <1>5 DEF IsChain
<1> HIDE DEF stops
<1>10. PICK f \in [S -> S] : Jumps(f, S, stops, next, base)
  BY <1>6, <1>9, JumpFunction
<1>11. \A x \in S : f[x] = IF IsInternal(h, x.leaf) THEN f[To(x)] ELSE x
  BY <1>7, <1>8, <1>10 DEF stops, Jumps
<1>12. f = [x \in S |-> f[x]]
  BY <1>10
<1>13. ArePlaces(h, f)
  BY <1>11, <1>12 DEF ArePlaces, S, To
<1> QED
  BY <1>13

\* LeafFor is the step its definition takes.
LEMMA LeafForStep ==
  ASSUME NEW h, NEW lev, NEW w, NEW after, NEW before, NEW top, NEW total,
         NEW bound, Laid(h, lev, w, after, before, top, total, bound),
         NEW p \in Ptr, NEW i \in Nat
  PROVE  LeafFor(h, p, i) = IF IsInternal(h, p)
                            THEN LeafFor(h, Deeper(h, p, i), IndexThere(h, p, i))
                            ELSE Place(p, i)
<1> DEFINE F == CHOOSE f : ArePlaces(h, f)
<1>1. \A q, j : LeafFor(h, q, j) = F[Place(q, j)]
  BY Zenon DEF LeafFor, ArePlaces, Places, Deeper, IndexThere
<1>2. ArePlaces(h, F)
  BY PlacesExist, Zenon
<1> HIDE DEF F
<1>3. Place(p, i) \in Places /\ Place(p, i).leaf = p /\ Place(p, i).index = i
  BY DEF Place, Places
<1> DEFINE at == Place(p, i)
<1> HIDE DEF at
<1>4. F[at] = IF IsInternal(h, at.leaf)
              THEN F[Place(Deeper(h, at.leaf, at.index), IndexThere(h, at.leaf, at.index))]
              ELSE at
  BY <1>2, <1>3 DEF ArePlaces, at
<1>5. F[at] = IF IsInternal(h, p) THEN F[Place(Deeper(h, p, i), IndexThere(h, p, i))]
              ELSE at
  BY <1>3, <1>4 DEF at
<1>6. /\ LeafFor(h, p, i) = F[at]
      /\ LeafFor(h, Deeper(h, p, i), IndexThere(h, p, i))
           = F[Place(Deeper(h, p, i), IndexThere(h, p, i))]
  BY <1>1, Zenon DEF at
<1> QED
  BY <1>5, <1>6, Zenon DEF at

\* `at` is the place of item i below p, in a leaf.
Found(h, w, before, p, i, at) ==
  /\ at \in Places /\ at.leaf \in Allocated(h) /\ IsLeaf(h, at.leaf)
  /\ before[at.leaf] + at.index = before[p] + i
  /\ i < w[p] => at.index < h[at.leaf].length

\* leaf_for ends at that place.
LEMMA LeafForAt ==
  ASSUME NEW h, NEW lev, NEW w, NEW after, NEW before, NEW top, NEW total,
         NEW bound, Laid(h, lev, w, after, before, top, total, bound)
  PROVE  \A p \in Allocated(h) : \A i \in Nat :
           Found(h, w, before, p, i, LeafFor(h, p, i))
<1> DEFINE T == {p \in Allocated(h) : \A i \in Nat :
                   Found(h, w, before, p, i, LeafFor(h, p, i))}
<1>0. Settled(h, lev, w, after, top, total, bound)
  BY DEF Laid
<1>1. ASSUME NEW p \in Allocated(h), IsLeaf(h, p) PROVE p \in T
  <2> SUFFICES ASSUME NEW i \in Nat PROVE Found(h, w, before, p, i, LeafFor(h, p, i))
    OBVIOUS
  <2>1. ~ IsInternal(h, p) /\ p \in Ptr
    BY <1>1 DEF IsInternal, IsLeaf, Allocated
  <2>2. LeafFor(h, p, i) = Place(p, i)
    BY <2>1, LeafForStep
  <2>3. w[p] = h[p].length
    BY <1>0, <2>1, SettledAt
  <2>4. Found(h, w, before, p, i, Place(p, i))
    BY <1>1, <2>1, <2>3 DEF Found, Place, Places
  <2> QED
    BY <2>2, <2>4
<1>2. ASSUME NEW p \in Allocated(h), IsInternal(h, p),
             \A i \in Nat : i < h[p].length => h[p].children[i] \in T
      PROVE  p \in T
  <2> SUFFICES ASSUME NEW i \in Nat PROVE Found(h, w, before, p, i, LeafFor(h, p, i))
    OBVIOUS
  <2> DEFINE q == Deeper(h, p, i)
             j == IndexThere(h, p, i)
  <2>1. Passes(h, w, before, p, i, q, j)
    BY <1>2, PassesDeeper
  <2>2. q \in T
    <3>1. h \in Heap /\ p \in Ptr /\ h[p].length \in 0..B /\ h[p].length >= 1
      BY <1>0, <1>2, SettledAt
    <3>2. h[p].length # 0
      BY <3>1
    <3>3. ChildFor(h, p, i) \in 0..(h[p].length - 1)
      BY <3>1, <3>2, ChildForType
    <3>4. ChildFor(h, p, i) \in Nat /\ ChildFor(h, p, i) < h[p].length
      BY <3>1, <3>3
    <3> QED
      BY <1>2, <3>4 DEF Deeper
  <2>3. p \in Ptr
    BY DEF Allocated
  <2>4. LeafFor(h, p, i) = LeafFor(h, q, j)
    BY <1>2, <2>3, LeafForStep
  <2> HIDE DEF q, j
  <2>5. Found(h, w, before, q, j, LeafFor(h, q, j))
    BY <2>1, <2>2 DEF Passes
  <2> DEFINE at == LeafFor(h, q, j)
  <2> HIDE DEF at
  <2>6. Found(h, w, before, p, i, at)
    BY <2>1, <2>5 DEF Passes, Found, at
  <2> QED
    BY <2>4, <2>6 DEF at
<1> HIDE DEF T
<1>3. \A p \in Allocated(h) : p \in T
  BY <1>0, <1>1, <1>2, FromTheLeaves
<1> QED
  BY <1>3 DEF T

-----------------------------------------------------------------------------
(***************************************************************************)
(* The vector between two calls, and its invariant for B >= 4.             *)
(***************************************************************************)

\* No leaf that has a parent is empty.
LeavesHold(h) ==
  \A p \in Allocated(h) : h[p].parent # None => h[p].length >= 1

\* The vector's part of the invariant.
VectorInv == VecInv /\ FilledInv /\ FiniteInv

\* Between calls every node has a place, and no leaf but a root is empty.
LEMMA IdleLaid ==
  ASSUME B >= 4, VectorInv, pc = "idle"
  PROVE  HasPlaces(heap, root, size) /\ LeavesHold(heap)
<1>1. VecInv /\ FilledInv /\ FiniteInv /\ heap \in Heap
  BY DEF VectorInv, VecInv, TypeInv, TypeOK
<1>2. ~ Removing /\ ~ Ended
  BY DEF Removing, Ended
<1>3. HasPlaces(heap, root, size)
  BY <1>1, <1>2, RestLaid
<1>4. NodesFilled(heap)
  BY <1>1, <1>2, FilledMeans DEF FilledInv
<1>5. ASSUME NEW p \in Allocated(heap), heap[p].parent # None
      PROVE  heap[p].length >= 1
  <2>1. heap[p].length \in 0..B
    BY <1>1, Kinds
  <2>2. MinLength \in Nat /\ MinLength >= 2
    BY NodeAssumption DEF MinLength
  <2>3. heap[p].length >= 2
    BY <1>4, <1>5, <2>1, <2>2 DEF NodesFilled
  <2> QED
    BY <2>1, <2>3
<1> QED
  BY <1>3, <1>5 DEF LeavesHold

\* No step of the vector breaks its part.
LEMMA NextVectorInv ==
  ASSUME B >= 4
  PROVE  VectorInv /\ [Next]_vars => VectorInv'
<1> SUFFICES ASSUME VectorInv, [Next]_vars PROVE VectorInv'
  OBVIOUS
<1>1. TypeInv /\ TreeInv /\ SizesInv /\ OrderInv /\ FilledInv /\ FiniteInv
  BY DEF VectorInv, VecInv
<1>2. TypeInv'
  BY <1>1, NextTypeInv
<1>3. TreeInv' /\ SizesInv' /\ OrderInv' /\ FilledInv' /\ FiniteInv'
  BY <1>1, <1>2, NextTreeInv, NextSizesInv, NextOrderInv, NextFilledInv, NextFiniteInv
<1> QED
  BY <1>2, <1>3 DEF VectorInv, VecInv

-----------------------------------------------------------------------------
(***************************************************************************)
(* Sequences put together one after the other.                             *)
(***************************************************************************)

\* The elements of a concatenation.
LEMMA ConcatToSet ==
  ASSUME NEW T, NEW s \in Seq(T), NEW t \in Seq(T)
  PROVE  ToSet(s \o t) = ToSet(s) \cup ToSet(t)
<1>1. /\ DOMAIN s = 1..Len(s) /\ DOMAIN t = 1..Len(t) /\ Len(s) \in Nat /\ Len(t) \in Nat
      /\ DOMAIN (s \o t) = 1..(Len(s) + Len(t))
  OBVIOUS
<1>2. \A i \in 1..Len(s) : (s \o t)[i] = s[i]
  OBVIOUS
<1>3. \A i \in 1..Len(t) : (s \o t)[i + Len(s)] = t[i] /\ i + Len(s) \in 1..(Len(s) + Len(t))
  OBVIOUS
<1>4. \A i \in 1..Len(s) : i \in 1..(Len(s) + Len(t))
  BY <1>1
<1>5. ASSUME NEW i \in 1..(Len(s) + Len(t))
      PROVE  (s \o t)[i] \in ToSet(s) \cup ToSet(t)
  <2>1. CASE i <= Len(s)
    BY <1>1, <1>2, <2>1 DEF ToSet
  <2>2. CASE i > Len(s)
    <3>1. i - Len(s) \in 1..Len(t) /\ (i - Len(s)) + Len(s) = i
      BY <1>1, <2>2
    <3>2. (s \o t)[i] = t[i - Len(s)]
      BY <1>3, <3>1
    <3> QED
      BY <1>1, <3>1, <3>2 DEF ToSet
  <2> QED
    BY <1>1, <2>1, <2>2
<1>6. ToSet(s \o t) \subseteq ToSet(s) \cup ToSet(t)
  BY <1>1, <1>5 DEF ToSet
<1>7. ToSet(s) \subseteq ToSet(s \o t)
  BY <1>1, <1>2, <1>4 DEF ToSet
<1>8. ToSet(t) \subseteq ToSet(s \o t)
  <2> SUFFICES ASSUME NEW i \in 1..Len(t) PROVE t[i] \in ToSet(s \o t)
    BY <1>1 DEF ToSet
  <2>1. (s \o t)[i + Len(s)] = t[i] /\ i + Len(s) \in DOMAIN (s \o t)
    BY <1>1, <1>3
  <2> QED
    BY <2>1, Zenon DEF ToSet
<1> QED
  BY <1>6, <1>7, <1>8

\* A concatenation repeats nothing if its parts do not and share nothing.
LEMMA ConcatInjective ==
  ASSUME NEW T, NEW s \in Seq(T), NEW t \in Seq(T), IsInjective(s), IsInjective(t),
         ToSet(s) \cap ToSet(t) = {}
  PROVE  IsInjective(s \o t)
<1>1. /\ DOMAIN s = 1..Len(s) /\ DOMAIN t = 1..Len(t) /\ Len(s) \in Nat /\ Len(t) \in Nat
      /\ DOMAIN (s \o t) = 1..(Len(s) + Len(t))
  OBVIOUS
<1>2. \A i \in 1..Len(s) : (s \o t)[i] = s[i]
  OBVIOUS
<1>3. \A i \in 1..(Len(s) + Len(t)) : i > Len(s) =>
        i - Len(s) \in 1..Len(t) /\ (s \o t)[i] = t[i - Len(s)]
  BY <1>1
<1>4. \A i \in 1..Len(s), j \in 1..Len(t) : s[i] # t[j]
  BY <1>1 DEF ToSet
<1>5. \A i, j \in 1..Len(s) : s[i] = s[j] => i = j
  BY <1>1 DEF IsInjective
<1>6. \A i, j \in 1..Len(t) : t[i] = t[j] => i = j
  BY <1>1 DEF IsInjective
<1> DEFINE u == s \o t
<1> HIDE DEF u
<1>7. ASSUME NEW i \in 1..(Len(s) + Len(t)), NEW j \in 1..(Len(s) + Len(t)), u[i] = u[j]
      PROVE  i = j
  <2>1. CASE i <= Len(s) /\ j <= Len(s)
    BY <1>1, <1>2, <1>5, <1>7, <2>1 DEF u
  <2>2. CASE i > Len(s) /\ j > Len(s)
    BY <1>1, <1>3, <1>6, <1>7, <2>2 DEF u
  <2>3. CASE i <= Len(s) /\ j > Len(s)
    BY <1>1, <1>2, <1>3, <1>4, <1>7, <2>3 DEF u
  <2>4. CASE i > Len(s) /\ j <= Len(s)
    BY <1>1, <1>2, <1>3, <1>4, <1>7, <2>4 DEF u
  <2> QED
    BY <1>1, <2>1, <2>2, <2>3, <2>4
<1> QED
  BY <1>1, <1>7 DEF IsInjective, u

\* part[k] is `first` followed by the first k of the n sequences.
Appends(T, part, n, first, seqs) ==
  /\ part \in [0..n -> Seq(T)] /\ part[0] = first
  /\ \A k \in 1..n : part[k] = part[k - 1] \o seqs[k]

\* What holds of 0, and of a number when of the one before it, holds up to n.
LEMMA Upwards ==
  ASSUME NEW n \in Nat, NEW P, 0 \in P, \A k \in 1..n : k - 1 \in P => k \in P
  PROVE  \A k \in 0..n : k \in P
<1> DEFINE S == 0..n
           rank == [k \in S |-> k]
<1>1. rank \in [S -> Nat]
  OBVIOUS
<1>2. ASSUME NEW s \in S, \A t \in S : rank[t] < rank[s] => t \in P
      PROVE  s \in P
  <2>1. CASE s = 0
    BY <2>1
  <2>2. CASE s # 0
    <3>1. s \in 1..n /\ s - 1 \in S /\ rank[s - 1] = s - 1 /\ rank[s] = s
      BY <2>2
    <3>2. s - 1 < s
      BY <3>1
    <3> QED
      BY <1>2, <3>1, <3>2
  <2> QED
    BY <2>1, <2>2
<1> HIDE DEF rank, S
<1>3. \A k \in S : k \in P
  BY <1>1, <1>2, RankInduction
<1> QED
  BY <1>3 DEF S

\* There is such a function.
LEMMA AppendsExist ==
  ASSUME NEW T, NEW n \in Nat, NEW first \in Seq(T), NEW seqs \in [1..n -> Seq(T)]
  PROVE  \E part : Appends(T, part, n, first, seqs)
<1> DEFINE S == 0..n
           V == Seq(T)
           stops == {0}
           next == [k \in S |-> IF k = 0 THEN 0 ELSE k - 1]
           rank == [k \in S |-> k]
           base == [k \in S |-> first]
           g == [k \in S |-> [v \in V |-> IF k = 0 THEN v ELSE v \o seqs[k]]]
<1>1. IsChain(S, stops, next, rank, n)
  BY DEF IsChain
<1>2. base \in [S -> V] /\ base[0] = first
  OBVIOUS
<1>3. g \in [S -> [V -> V]] /\ \A k \in 1..n, v \in V : g[k][v] = v \o seqs[k]
  <2>1. \A k \in 1..n : seqs[k] \in V
    OBVIOUS
  <2>2. \A v, w \in V : v \o w \in V
    BY ConcatProperties
  <2> HIDE DEF V
  <2>3. \A k \in S, v \in V : (IF k = 0 THEN v ELSE v \o seqs[k]) \in V
    BY <2>1, <2>2
  <2>4. \A k \in 1..n : k \in S /\ k # 0
    OBVIOUS
  <2> HIDE DEF S
  <2> QED
    BY <2>3, <2>4
<1>4. \A k \in 1..n : k \in S /\ k \notin stops /\ next[k] = k - 1 /\ k - 1 \in S
  OBVIOUS
<1>5. 0 \in S /\ 0 \in stops
  OBVIOUS
<1> HIDE DEF S, V, stops, next, rank, base, g
<1>6. PICK f \in [S -> V] : Follows(f, S, stops, next, base, g)
  BY <1>1, <1>2, <1>3, ChainFunction
<1>7. f[0] = first
  BY <1>2, <1>5, <1>6 DEF Follows
<1>8. ASSUME NEW k \in 1..n PROVE f[k] = f[k - 1] \o seqs[k]
  <2>1. f[k] = g[k][f[k - 1]] /\ f[k - 1] \in V
    BY <1>4, <1>6 DEF Follows
  <2> QED
    BY <1>3, <2>1
<1> QED
  BY <1>6, <1>7, <1>8 DEF Appends, S, V

\* And only one.
LEMMA AppendsUnique ==
  ASSUME NEW T, NEW n \in Nat, NEW first, NEW seqs, NEW seqs1, NEW part, NEW part1,
         Appends(T, part, n, first, seqs), Appends(T, part1, n, first, seqs1),
         \A k \in 1..n : seqs[k] = seqs1[k], NEW m \in 0..n
  PROVE  part[m] = part1[m]
<1> DEFINE P == {k \in 0..n : part[k] = part1[k]}
<1>1. 0 \in P
  BY DEF Appends
<1>2. ASSUME NEW k \in 1..n, k - 1 \in P PROVE k \in P
  <2>1. part[k - 1] = part1[k - 1] /\ k \in 0..n
    BY <1>2
  <2>2. part[k] = part[k - 1] \o seqs[k] /\ part1[k] = part1[k - 1] \o seqs1[k]
    BY DEF Appends
  <2> QED
    BY <2>1, <2>2
<1> HIDE DEF P
<1>3. \A k \in 0..n : k \in P
  BY <1>1, <1>2, Upwards
<1> QED
  BY <1>3 DEF P

\* The elements of part[k] are those of `first` and of the first k sequences.
Gathers(part, n, first, seqs) ==
  \A k \in 0..n : \A x :
    x \in ToSet(part[k]) <=>
      x \in ToSet(first) \/ \E j \in 1..k : x \in ToSet(seqs[j])

\* So it is.
LEMMA AppendsToSet ==
  ASSUME NEW T, NEW n \in Nat, NEW first, NEW seqs \in [1..n -> Seq(T)], NEW part,
         Appends(T, part, n, first, seqs)
  PROVE  Gathers(part, n, first, seqs)
<1> DEFINE P == {k \in 0..n : \A x :
                   x \in ToSet(part[k]) <=>
                     x \in ToSet(first) \/ \E j \in 1..k : x \in ToSet(seqs[j])}
<1>1. 0 \in P
  BY DEF Appends
<1>2. ASSUME NEW k \in 1..n, k - 1 \in P PROVE k \in P
  <2>1. part[k] = part[k - 1] \o seqs[k] /\ part[k - 1] \in Seq(T) /\ seqs[k] \in Seq(T)
    BY DEF Appends
  <2>2. ToSet(part[k]) = ToSet(part[k - 1]) \cup ToSet(seqs[k])
    BY <2>1, ConcatToSet
  <2>3. \A j : j \in 1..k <=> j \in 1..(k - 1) \/ j = k
    OBVIOUS
  <2>4. \A x : x \in ToSet(part[k - 1]) <=>
                 x \in ToSet(first) \/ \E j \in 1..(k - 1) : x \in ToSet(seqs[j])
    BY <1>2
  <2>5. \A x : x \in ToSet(part[k]) <=>
                 x \in ToSet(first) \/ \E j \in 1..k : x \in ToSet(seqs[j])
    BY <2>2, <2>3, <2>4
  <2> QED
    BY <2>5
<1> HIDE DEF P
<1>3. \A k \in 0..n : k \in P
  BY <1>1, <1>2, Upwards
<1> QED
  BY <1>3 DEF P, Gathers

\* Nothing comes twice if nothing does in one of the sequences or in two.
LEMMA AppendsInjective ==
  ASSUME NEW T, NEW n \in Nat, NEW first \in Seq(T), NEW seqs \in [1..n -> Seq(T)],
         NEW part, Appends(T, part, n, first, seqs),
         IsInjective(first),
         \A k \in 1..n : IsInjective(seqs[k]) /\ ToSet(first) \cap ToSet(seqs[k]) = {},
         \A i, j \in 1..n : i # j => ToSet(seqs[i]) \cap ToSet(seqs[j]) = {},
         NEW m \in 0..n
  PROVE  IsInjective(part[m])
<1> DEFINE P == {k \in 0..n : IsInjective(part[k])}
<1>1. 0 \in P
  BY DEF Appends
<1>2. ASSUME NEW k \in 1..n, k - 1 \in P PROVE k \in P
  <2>1. part[k] = part[k - 1] \o seqs[k] /\ part[k - 1] \in Seq(T) /\ seqs[k] \in Seq(T)
    BY DEF Appends
  <2>2. \A x : x \in ToSet(part[k - 1]) <=>
                 x \in ToSet(first) \/ \E j \in 1..(k - 1) : x \in ToSet(seqs[j])
    <3>1. k - 1 \in 0..n
      OBVIOUS
    <3>2. Gathers(part, n, first, seqs)
      BY AppendsToSet, Zenon
    <3> QED
      BY <3>1, <3>2, Zenon DEF Gathers
  <2>3. \A j \in 1..(k - 1) : j \in 1..n /\ j # k
    OBVIOUS
  <2>4. ToSet(part[k - 1]) \cap ToSet(seqs[k]) = {}
    BY <2>2, <2>3
  <2>5. IsInjective(part[k])
    BY <1>2, <2>1, <2>4, ConcatInjective
  <2> QED
    BY <2>5
<1> HIDE DEF P
<1>3. \A k \in 0..n : k \in P
  BY <1>1, <1>2, Upwards
<1> QED
  BY <1>3 DEF P

\* A function of this form has no other choice.
JoinedBy(c, n, first, seqs) ==
  c = [k \in 0..n |-> IF k = 0 THEN first ELSE c[k - 1] \o seqs[k]]

\* Such functions are those.
LEMMA AppendsOf ==
  ASSUME NEW T, NEW n \in Nat, NEW first \in Seq(T), NEW seqs \in [1..n -> Seq(T)],
         NEW c
  PROVE  Appends(T, c, n, first, seqs) <=> JoinedBy(c, n, first, seqs)
<1>1. ASSUME Appends(T, c, n, first, seqs) PROVE JoinedBy(c, n, first, seqs)
  <2>1. c = [k \in 0..n |-> c[k]]
    BY <1>1 DEF Appends
  <2>2. \A k \in 0..n : c[k] = IF k = 0 THEN first ELSE c[k - 1] \o seqs[k]
    <3>1. \A k \in 0..n : k # 0 => k \in 1..n
      OBVIOUS
    <3> QED
      BY <1>1, <3>1 DEF Appends
  <2> QED
    BY <2>1, <2>2 DEF JoinedBy
<1>2. ASSUME JoinedBy(c, n, first, seqs) PROVE Appends(T, c, n, first, seqs)
  <2> DEFINE P == {k \in 0..n : c[k] \in Seq(T)}
  <2>1. \A k \in 0..n : c[k] = IF k = 0 THEN first ELSE c[k - 1] \o seqs[k]
    BY <1>2 DEF JoinedBy
  <2>2. c[0] = first /\ \A k \in 1..n : c[k] = c[k - 1] \o seqs[k]
    <3>1. 0 \in 0..n /\ \A k \in 1..n : k \in 0..n /\ k # 0
      OBVIOUS
    <3> QED
      BY <2>1, <3>1
  <2>3. 0 \in P
    BY <2>2
  <2>4. ASSUME NEW k \in 1..n, k - 1 \in P PROVE k \in P
    <3>1. c[k - 1] \in Seq(T) /\ seqs[k] \in Seq(T) /\ k \in 0..n
      BY <2>4
    <3>2. c[k - 1] \o seqs[k] \in Seq(T)
      BY <3>1, ConcatProperties
    <3> QED
      BY <2>2, <3>1, <3>2
  <2> HIDE DEF P
  <2>5. \A k \in 0..n : k \in P
    BY <2>3, <2>4, Upwards
  <2>6. DOMAIN c = 0..n /\ c = [k \in 0..n |-> c[k]]
    BY <1>2 DEF JoinedBy
  <2>7. c \in [0..n -> Seq(T)]
    BY <2>5, <2>6 DEF P
  <2> QED
    BY <2>2, <2>7 DEF Appends
<1> QED
  BY <1>1, <1>2

-----------------------------------------------------------------------------
(***************************************************************************)
(* The walk over the nodes of a tree.                                      *)
(***************************************************************************)

\* The way down from each node ends.
Grounded(h, rank, bound) ==
  /\ bound \in Nat /\ rank \in [Ptr -> 0..bound]
  /\ \A p \in Ptr : /\ Degree(h, p) \in Nat
                    /\ \A k \in 1..Degree(h, p) :
                         /\ h[p].children[k - 1] \in Ptr
                         /\ rank[h[p].children[k - 1]] < rank[p]

\* p itself, and what f has for its children.
Own(S, p) == IF p \in S THEN <<p>> ELSE <<>>
Trees(h, f, p) == [k \in 1..Degree(h, p) |-> f[h[p].children[k - 1]]]

\* What the walk is at p if it is f at its children.
IsPart(S, h, f, p, part) ==
  part = [k \in 0..Degree(h, p) |->
            IF k = 0 THEN (IF p \in S THEN <<p>> ELSE <<>>)
            ELSE part[k - 1] \o f[h[p].children[k - 1]]]
Whole(S, h, f, p) == (CHOOSE part : IsPart(S, h, f, p, part))[Degree(h, p)]
IsWalk(S, h, f) == f = [p \in Ptr |-> Whole(S, h, f, p)]

\* The walk at p is p and the walks at its children one after the other.
WalksAt(S, h, f, p, part) ==
  /\ Appends(Ptr, part, Degree(h, p), Own(S, p), Trees(h, f, p))
  /\ Trees(h, f, p) \in [1..Degree(h, p) -> Seq(Ptr)] /\ Own(S, p) \in Seq(Ptr)

\* So it is.
LEMMA WholeJoins ==
  ASSUME NEW S, NEW h, NEW rank, NEW bound, Grounded(h, rank, bound),
         NEW f, NEW p \in Ptr,
         \A k \in 1..Degree(h, p) : f[h[p].children[k - 1]] \in Seq(Ptr)
  PROVE  \E part : /\ WalksAt(S, h, f, p, part)
                   /\ Whole(S, h, f, p) = part[Degree(h, p)]
<1> DEFINE d == Degree(h, p)
           C == CHOOSE part : IsPart(S, h, f, p, part)
<1>1. d \in Nat /\ \A k \in 1..d : h[p].children[k - 1] \in Ptr
  BY DEF Grounded
<1>2. Trees(h, f, p) = [k \in 1..d |-> f[h[p].children[k - 1]]]
  BY DEF Trees
<1> HIDE DEF d
<1>3. Trees(h, f, p) \in [1..d -> Seq(Ptr)]
  BY <1>1, <1>2 DEF d
<1>4. Own(S, p) \in Seq(Ptr)
  BY DEF Own
<1>5. \A part : IsPart(S, h, f, p, part) <=> JoinedBy(part, d, Own(S, p), Trees(h, f, p))
  <2> TAKE part
  <2>1. \A k \in 0..d : k # 0 => Trees(h, f, p)[k] = f[h[p].children[k - 1]]
    BY <1>1, <1>2
  <2>2. [k \in 0..d |-> IF k = 0 THEN Own(S, p) ELSE part[k - 1] \o Trees(h, f, p)[k]]
        = [k \in 0..d |-> IF k = 0 THEN Own(S, p)
                          ELSE part[k - 1] \o f[h[p].children[k - 1]]]
    BY <2>1
  <2> QED
    BY <2>2, Zenon DEF IsPart, JoinedBy, Own, d
<1>6. PICK part : Appends(Ptr, part, d, Own(S, p), Trees(h, f, p))
  BY <1>1, <1>3, <1>4, AppendsExist
<1>7. IsPart(S, h, f, p, part)
  BY <1>1, <1>3, <1>4, <1>5, <1>6, AppendsOf
<1>8. IsPart(S, h, f, p, C)
  BY <1>7, Zenon
<1> HIDE DEF C
<1>9. Appends(Ptr, C, d, Own(S, p), Trees(h, f, p))
  BY <1>1, <1>3, <1>4, <1>5, <1>8, AppendsOf
<1>10. Whole(S, h, f, p) = C[d]
  BY Zenon DEF Whole, C, d
<1> QED
  BY <1>3, <1>4, <1>9, <1>10 DEF WalksAt, d

\* It depends on the children only.
LEMMA WholeAgrees ==
  ASSUME NEW S, NEW h, NEW rank, NEW bound, Grounded(h, rank, bound),
         NEW f, NEW g, NEW p \in Ptr,
         \A k \in 1..Degree(h, p) : /\ f[h[p].children[k - 1]] \in Seq(Ptr)
                                    /\ f[h[p].children[k - 1]] = g[h[p].children[k - 1]]
  PROVE  Whole(S, h, f, p) = Whole(S, h, g, p)
<1> DEFINE d == Degree(h, p)
<1>1. PICK a : WalksAt(S, h, f, p, a) /\ Whole(S, h, f, p) = a[d]
  BY WholeJoins
<1>2. PICK b : WalksAt(S, h, g, p, b) /\ Whole(S, h, g, p) = b[d]
  BY WholeJoins
<1>3. \A k \in 1..d : Trees(h, f, p)[k] = Trees(h, g, p)[k]
  BY DEF Trees
<1>4. d \in Nat
  BY DEF Grounded
<1> HIDE DEF d
<1>6. d \in 0..d
  BY <1>4
<1>5. a[d] = b[d]
  <2>1. /\ Appends(Ptr, a, d, Own(S, p), Trees(h, f, p))
        /\ Appends(Ptr, b, d, Own(S, p), Trees(h, g, p))
    BY <1>1, <1>2 DEF WalksAt, d
  <2> QED
    BY <1>3, <1>4, <1>6, <2>1, AppendsUnique
<1> QED
  BY <1>1, <1>2, <1>5

\* The walk exists: what it is at a node is settled once it is at the nodes of
\* lower rank.
LEMMA WalkExists ==
  ASSUME NEW S, NEW h, NEW rank, NEW bound, Grounded(h, rank, bound)
  PROVE  \E f \in [Ptr -> Seq(Ptr)] : IsWalk(S, h, f)
<1> DEFINE Upto(f, n) == \A p \in Ptr : rank[p] < n => f[p] = Whole(S, h, f, p)
           P == {n \in 0..(bound + 1) : \E f \in [Ptr -> Seq(Ptr)] : Upto(f, n)}
<1>0. bound \in Nat /\ rank \in [Ptr -> 0..bound] /\ bound + 1 \in Nat
  BY DEF Grounded
<1>1. 0 \in P
  <2> DEFINE f == [p \in Ptr |-> <<>>]
  <2>1. f \in [Ptr -> Seq(Ptr)]
    OBVIOUS
  <2>2. \A p \in Ptr : ~ (rank[p] < 0)
    BY <1>0
  <2>3. 0 \in 0..(bound + 1)
    BY <1>0
  <2> QED
    BY <2>1, <2>2, <2>3
<1>2. ASSUME NEW n \in 1..(bound + 1), n - 1 \in P PROVE n \in P
  <2>1. PICK f \in [Ptr -> Seq(Ptr)] : Upto(f, n - 1)
    BY <1>2
  <2> DEFINE e == [p \in Ptr |-> Whole(S, h, f, p)]
  <2>2. e \in [Ptr -> Seq(Ptr)]
    <3>1. ASSUME NEW p \in Ptr PROVE Whole(S, h, f, p) \in Seq(Ptr)
      <4>1. PICK part : /\ WalksAt(S, h, f, p, part)
                        /\ Whole(S, h, f, p) = part[Degree(h, p)]
        <5>1. \A k \in 1..Degree(h, p) : f[h[p].children[k - 1]] \in Seq(Ptr)
          BY DEF Grounded
        <5> QED
          BY <5>1, WholeJoins
      <4>2. Degree(h, p) \in 0..Degree(h, p)
        BY DEF Grounded
      <4> QED
        BY <4>1, <4>2 DEF WalksAt, Appends
    <3> QED
      BY <3>1
  <2>3. ASSUME NEW p \in Ptr, rank[p] < n PROVE e[p] = Whole(S, h, e, p)
    <3>1. ASSUME NEW k \in 1..Degree(h, p)
          PROVE  /\ f[h[p].children[k - 1]] \in Seq(Ptr)
                 /\ f[h[p].children[k - 1]] = e[h[p].children[k - 1]]
      <4> DEFINE c == h[p].children[k - 1]
      <4>1. c \in Ptr /\ rank[c] < rank[p]
        BY DEF Grounded
      <4>2. rank[c] \in Nat /\ rank[p] \in Nat
        BY <1>0, <4>1
      <4>3. rank[c] < n - 1
        BY <2>3, <4>1, <4>2
      <4> HIDE DEF c
      <4> QED
        BY <2>1, <4>1, <4>3 DEF c
    <3> HIDE DEF e
    <3>2. Whole(S, h, f, p) = Whole(S, h, e, p)
      BY <2>2, <3>1, WholeAgrees
    <3> QED
      BY <3>2 DEF e
  <2> HIDE DEF e
  <2>4. n \in 0..(bound + 1)
    BY <1>0
  <2> QED
    BY <2>2, <2>3, <2>4
<1> HIDE DEF P
<1>3. \A n \in 0..(bound + 1) : n \in P
  BY <1>0, <1>1, <1>2, Upwards
<1>4. bound + 1 \in 0..(bound + 1)
  BY <1>0
<1>5. PICK f \in [Ptr -> Seq(Ptr)] : Upto(f, bound + 1)
  BY <1>3, <1>4 DEF P
<1>6. \A p \in Ptr : rank[p] < bound + 1
  BY <1>0
<1>7. f = [p \in Ptr |-> Whole(S, h, f, p)]
  BY <1>5, <1>6
<1> QED
  BY <1>7 DEF IsWalk

\* The walk.
Walk(S, h) == CHOOSE f : IsWalk(S, h, f)

\* What it is.
Walked(S, h) ==
  /\ Walk(S, h) \in [Ptr -> Seq(Ptr)]
  /\ \A p \in Ptr : \E part : /\ WalksAt(S, h, Walk(S, h), p, part)
                             /\ Walk(S, h)[p] = part[Degree(h, p)]

\* So it is.
LEMMA WalkWalks ==
  ASSUME NEW S, NEW h, NEW rank, NEW bound, Grounded(h, rank, bound)
  PROVE  Walked(S, h)
<1> DEFINE W == Walk(S, h)
           T == {p \in Ptr : W[p] \in Seq(Ptr)}
<1>1. IsWalk(S, h, W)
  BY WalkExists, Zenon DEF Walk
<1>2. W = [p \in Ptr |-> Whole(S, h, W, p)]
  BY <1>1 DEF IsWalk
<1> HIDE DEF W
<1>3. \A p \in Ptr : W[p] = Whole(S, h, W, p)
  BY <1>2, Zenon
<1>4. ASSUME NEW p \in Ptr, \A k \in 1..Degree(h, p) : h[p].children[k - 1] \in T
      PROVE  /\ p \in T
             /\ \E part : WalksAt(S, h, W, p, part) /\ W[p] = part[Degree(h, p)]
  <2>1. PICK part : WalksAt(S, h, W, p, part) /\ Whole(S, h, W, p) = part[Degree(h, p)]
    <3>1. \A k \in 1..Degree(h, p) : W[h[p].children[k - 1]] \in Seq(Ptr)
      BY <1>4
    <3> QED
      BY <3>1, WholeJoins
  <2>2. Degree(h, p) \in 0..Degree(h, p)
    BY DEF Grounded
  <2>3. part[Degree(h, p)] \in Seq(Ptr)
    BY <2>1, <2>2 DEF WalksAt, Appends
  <2> QED
    BY <1>3, <2>1, <2>3
<1>5. \A p \in Ptr : \A k \in 1..Degree(h, p) :
        h[p].children[k - 1] \in Ptr /\ rank[h[p].children[k - 1]] < rank[p]
  BY DEF Grounded
<1> HIDE DEF T
<1>6. \A p \in Ptr : (\A c \in Ptr : rank[c] < rank[p] => c \in T) => p \in T
  BY <1>4, <1>5
<1>7. \A p \in Ptr : p \in T
  <2>1. rank \in [Ptr -> Nat]
    BY DEF Grounded
  <2> QED
    BY <1>6, <2>1, RankInduction
<1>8. \A p \in Ptr : \E part : WalksAt(S, h, W, p, part) /\ W[p] = part[Degree(h, p)]
  BY <1>4, <1>5, <1>7
<1>9. W \in [Ptr -> Seq(Ptr)]
  <2>1. W = [p \in Ptr |-> W[p]]
    BY <1>2
  <2>2. \A p \in Ptr : W[p] \in Seq(Ptr)
    BY <1>7 DEF T
  <2> QED
    BY <2>1, <2>2
<1> QED
  BY <1>8, <1>9, Zenon DEF Walked, W

\* The walks f at the roots one after the other.
IsForest(f, roots, forest) ==
  forest = [k \in 0..Len(roots) |->
              IF k = 0 THEN <<>> ELSE forest[k - 1] \o f[roots[k]]]
Forest(f, roots) == (CHOOSE forest : IsForest(f, roots, forest))[Len(roots)]

\* NodesIn is that of the walk.
LEMMA NodesInForest ==
  ASSUME NEW S, NEW h, NEW roots
  PROVE  NodesIn(S, h, roots) = Forest(Walk(S, h), roots)
BY Zenon DEF NodesIn, Forest, IsForest, Walk, IsWalk, Whole, IsPart

\* For one root it is the walk there, for none it is empty.
LEMMA NodesInOne ==
  ASSUME NEW S, NEW h, NEW rank, NEW bound, Grounded(h, rank, bound),
         NEW n \in Ptr \cup {None}
  PROVE  NodesIn(S, h, Root(n)) = IF n = None THEN <<>> ELSE Walk(S, h)[n]
<1> DEFINE W == Walk(S, h)
           C == CHOOSE forest : IsForest(W, Root(n), forest)
           e == [k \in 0..Len(Root(n)) |-> IF k = 0 THEN <<>> ELSE W[n]]
<1>0. W \in [Ptr -> Seq(Ptr)]
  BY WalkWalks DEF Walked
<1>1. NodesIn(S, h, Root(n)) = C[Len(Root(n))]
  BY NodesInForest, Zenon DEF Forest
<1> HIDE DEF W, C
<1>2. n = None => Root(n) = <<>> /\ Len(Root(n)) = 0
  BY DEF Root
<1>3. n # None => n \in Ptr /\ Root(n) = <<n>> /\ Len(Root(n)) = 1 /\ Root(n)[1] = n
  BY DEF Root
<1>4. n # None => W[n] \in Seq(Ptr) /\ <<>> \o W[n] = W[n]
  BY <1>0, <1>3
<1>5. IsForest(W, Root(n), e)
  <2>1. \A k \in 0..Len(Root(n)) : e[k] = IF k = 0 THEN <<>> ELSE e[k - 1] \o W[Root(n)[k]]
    <3>1. CASE n = None
      BY <1>2, <3>1
    <3>2. CASE n # None
      <4>1. Len(Root(n)) = 1 /\ Root(n)[1] = n
        BY <1>3, <3>2
      <4>2. 0 \in 0..1 /\ 1 \in 0..1 /\ 1 - 1 = 0 /\ \A k \in 0..1 : k = 0 \/ k = 1
        OBVIOUS
      <4>3. e[0] = <<>> /\ e[1] = W[n]
        BY <4>1, <4>2
      <4> HIDE DEF e
      <4>4. \A k \in 0..1 : e[k] = IF k = 0 THEN <<>> ELSE e[k - 1] \o W[Root(n)[k]]
        BY <1>4, <3>2, <4>1, <4>2, <4>3
      <4> QED
        BY <4>1, <4>4, Zenon
    <3> QED
      BY <3>1, <3>2
  <2>2. e = [k \in 0..Len(Root(n)) |-> e[k]]
    OBVIOUS
  <2> HIDE DEF e
  <2>3. e = [k \in 0..Len(Root(n)) |-> IF k = 0 THEN <<>> ELSE e[k - 1] \o W[Root(n)[k]]]
    BY <2>1, <2>2
  <2> QED
    BY <2>3 DEF IsForest
<1>6. IsForest(W, Root(n), C)
  BY <1>5, Zenon DEF C
<1>7. \A k \in 0..Len(Root(n)) : C[k] = IF k = 0 THEN <<>> ELSE C[k - 1] \o W[Root(n)[k]]
  BY <1>6 DEF IsForest
<1>8. CASE n = None
  BY <1>1, <1>2, <1>7, <1>8
<1>9. CASE n # None
  <2>1. Len(Root(n)) = 1 /\ Root(n)[1] = n
    BY <1>3, <1>9
  <2>2. \A k \in 0..1 : C[k] = IF k = 0 THEN <<>> ELSE C[k - 1] \o W[Root(n)[k]]
    BY <1>7, <2>1, Zenon
  <2>3. 0 \in 0..1 /\ 1 \in 0..1 /\ 1 - 1 = 0 /\ 1 # 0
    OBVIOUS
  <2>4. C[0] = <<>> /\ C[1] = C[0] \o W[n]
    BY <2>1, <2>2, <2>3
  <2> QED
    BY <1>1, <1>4, <1>9, <2>1, <2>4 DEF W
<1> QED
  BY <1>8, <1>9

\* The walk from p passes p and what the walks from its children pass.
Spans(S, h, p) ==
  \A x : x \in ToSet(Walk(S, h)[p]) <=>
           \/ x = p /\ p \in S
           \/ \E k \in 1..Degree(h, p) : x \in ToSet(Walk(S, h)[h[p].children[k - 1]])

\* So it does.
LEMMA WalkSpans ==
  ASSUME NEW S, NEW h, NEW rank, NEW bound, Grounded(h, rank, bound), NEW p \in Ptr
  PROVE  Spans(S, h, p)
<1> DEFINE W == Walk(S, h)
           d == Degree(h, p)
<1>1. PICK part : WalksAt(S, h, W, p, part) /\ W[p] = part[d]
  BY WalkWalks DEF Walked
<1>2. d \in Nat
  BY DEF Grounded
<1> HIDE DEF W
<1>3. /\ Appends(Ptr, part, d, Own(S, p), Trees(h, W, p))
      /\ Trees(h, W, p) \in [1..d -> Seq(Ptr)]
  BY <1>1 DEF WalksAt
<1>4. \A k \in 1..d : Trees(h, W, p)[k] = W[h[p].children[k - 1]]
  BY DEF Trees
<1> HIDE DEF d
<1>5. Gathers(part, d, Own(S, p), Trees(h, W, p))
  BY <1>2, <1>3, AppendsToSet
<1>6. \A x : x \in ToSet(Own(S, p)) <=> x = p /\ p \in S
  <2>1. CASE p \in S
    <3>1. Own(S, p) = <<p>> /\ DOMAIN <<p>> = {1} /\ <<p>>[1] = p
      BY <2>1 DEF Own
    <3> QED
      BY <2>1, <3>1 DEF ToSet
  <2>2. CASE p \notin S
    <3>1. Own(S, p) = <<>> /\ DOMAIN <<>> = {}
      BY <2>2 DEF Own
    <3> QED
      BY <2>2, <3>1 DEF ToSet
  <2> QED
    BY <2>1, <2>2
<1>7. d \in 0..d
  BY <1>2
<1>8. \A x : x \in ToSet(part[d]) <=>
               x \in ToSet(Own(S, p)) \/ \E k \in 1..d : x \in ToSet(Trees(h, W, p)[k])
  BY <1>5, <1>7, Zenon DEF Gathers
<1>9. \A x : x \in ToSet(W[p]) <=>
               \/ x = p /\ p \in S
               \/ \E k \in 1..d : x \in ToSet(W[h[p].children[k - 1]])
  BY <1>1, <1>4, <1>6, <1>8
<1> QED
  BY <1>9 DEF Spans, W, d

\* The heights of a tree are such a rank.
LEMMA TreeGrounded ==
  ASSUME NEW h, NEW lev, NEW bound, Bounded(h, lev, bound)
  PROVE  \E rank : Grounded(h, rank, bound)
<1> DEFINE rank == [p \in Ptr |-> IF p \in Allocated(h) THEN lev[p] ELSE 0]
<1>0. h \in Heap /\ Tree(h, lev) /\ bound \in Nat /\ \A p \in Allocated(h) : lev[p] <= bound
  BY DEF Bounded
<1>1. rank \in [Ptr -> 0..bound]
  <2>1. \A p \in Allocated(h) : lev[p] \in Nat
    BY <1>0 DEF Tree, Allocated
  <2>2. \A p \in Allocated(h) : lev[p] \in 0..bound
    BY <1>0, <2>1
  <2>3. 0 \in 0..bound
    BY <1>0
  <2> QED
    BY <2>2, <2>3
<1>2. ASSUME NEW p \in Ptr
      PROVE  /\ Degree(h, p) \in Nat
             /\ \A k \in 1..Degree(h, p) :
                  /\ h[p].children[k - 1] \in Ptr
                  /\ rank[h[p].children[k - 1]] < rank[p]
  <2>1. CASE ~ IsInternal(h, p)
    BY <2>1 DEF Degree
  <2>2. CASE IsInternal(h, p)
    <3>1. p \in Allocated(h) /\ Degree(h, p) = h[p].length /\ h[p].length \in Nat
      BY <1>0, <2>2, FieldTypes DEF Allocated, IsInternal, Degree
    <3>2. ASSUME NEW k \in 1..h[p].length
          PROVE  h[p].children[k - 1] \in Ptr /\ rank[h[p].children[k - 1]] < rank[p]
      <4> DEFINE c == h[p].children[k - 1]
      <4>1. k - 1 \in Nat /\ k - 1 < h[p].length
        BY <3>1
      <4>2. c \in Allocated(h) /\ lev[p] = lev[c] + 1
        BY <1>0, <2>2, <3>1, <4>1, ChildOf
      <4>3. c \in Ptr /\ lev[c] \in Nat /\ rank[c] = lev[c] /\ rank[p] = lev[p]
        BY <1>0, <3>1, <4>2 DEF Tree, Allocated
      <4> HIDE DEF c, rank
      <4> QED
        BY <4>2, <4>3 DEF c
    <3> QED
      BY <3>1, <3>2
  <2> QED
    BY <2>1, <2>2
<1> QED
  BY <1>0, <1>1, <1>2 DEF Grounded

\* Child k of p, counted from 1.
Kid(h, p, k) == h[p].children[k - 1]

\* The children that the walk from p goes to.
LEMMA KidsOf ==
  ASSUME NEW h, NEW lev, NEW bound, Bounded(h, lev, bound), NEW p \in Allocated(h)
  PROVE  /\ p \in Ptr /\ p # None /\ lev[p] \in Nat /\ Degree(h, p) \in Nat
         /\ \A k \in 1..Degree(h, p) :
              /\ IsInternal(h, p)
              /\ Kid(h, p, k) \in Allocated(h) /\ lev[p] = lev[Kid(h, p, k)] + 1
              /\ h[Kid(h, p, k)].parent = p /\ h[Kid(h, p, k)].index = k - 1
<1>0. h \in Heap /\ Tree(h, lev)
  BY DEF Bounded
<1>1. p \in Ptr /\ p # None /\ lev[p] \in Nat /\ h[p].length \in 0..B
  BY <1>0, Kinds DEF Tree
<1>2. ASSUME NEW k \in 1..Degree(h, p)
      PROVE  /\ IsInternal(h, p)
             /\ Kid(h, p, k) \in Allocated(h) /\ lev[p] = lev[Kid(h, p, k)] + 1
             /\ h[Kid(h, p, k)].parent = p /\ h[Kid(h, p, k)].index = k - 1
  <2>1. IsInternal(h, p) /\ Degree(h, p) = h[p].length
    BY DEF Degree
  <2>2. k - 1 \in Nat /\ k - 1 < h[p].length
    BY <1>1, <2>1
  <2> QED
    BY <1>0, <2>1, <2>2, ChildOf DEF Kid
<1>3. Degree(h, p) \in Nat
  BY <1>1 DEF Degree
<1> QED
  BY <1>1, <1>2, <1>3

\* And each node but the roots is such a child.
LEMMA KidOf ==
  ASSUME NEW h, NEW lev, NEW bound, Bounded(h, lev, bound), NEW p \in Allocated(h),
         h[p].parent # None
  PROVE  /\ h[p].parent \in Allocated(h) /\ lev[h[p].parent] = lev[p] + 1
         /\ \E k \in 1..Degree(h, h[p].parent) : Kid(h, h[p].parent, k) = p
<1> DEFINE q == h[p].parent
           i == h[p].index
<1>0. h \in Heap /\ Tree(h, lev)
  BY DEF Bounded
<1>1. /\ q \in Allocated(h) /\ IsInternal(h, q) /\ i \in Nat /\ i < h[q].length
      /\ h[q].children[i] = p /\ lev[q] = lev[p] + 1
  BY <1>0, ParentOf
<1>2. h[q].length \in 0..B
  BY <1>0, <1>1, Kinds
<1> HIDE DEF q, i
<1>3. i + 1 \in 1..Degree(h, q) /\ (i + 1) - 1 = i
  BY <1>1, <1>2 DEF Degree
<1>4. Kid(h, q, i + 1) = p
  BY <1>1, <1>3 DEF Kid
<1> QED
  BY <1>1, <1>3, <1>4 DEF q

\* What holds of a node when it does of its children holds of all.
LEMMA FromTheKids ==
  ASSUME NEW h, NEW lev, NEW bound, Bounded(h, lev, bound), NEW T,
         \A p \in Allocated(h) :
           (\A k \in 1..Degree(h, p) : Kid(h, p, k) \in T) => p \in T
  PROVE  \A p \in Allocated(h) : p \in T
<1> DEFINE S == Allocated(h)
           rank == [p \in S |-> lev[p]]
<1>1. rank \in [S -> Nat]
  BY KidsOf
<1>2. ASSUME NEW s \in S, \A t \in S : rank[t] < rank[s] => t \in T
      PROVE  s \in T
  <2>1. ASSUME NEW k \in 1..Degree(h, s) PROVE Kid(h, s, k) \in T
    <3> DEFINE c == Kid(h, s, k)
    <3>1. c \in S /\ lev[s] = lev[c] + 1
      BY KidsOf
    <3>2. rank[c] = lev[c] /\ rank[s] = lev[s] /\ lev[c] \in Nat
      BY <3>1, KidsOf
    <3> HIDE DEF rank, c
    <3>3. rank[c] < rank[s]
      BY <3>1, <3>2
    <3> QED
      BY <1>2, <3>1, <3>3 DEF c
  <2> QED
    BY <2>1
<1> HIDE DEF rank, S
<1>3. \A s \in S : s \in T
  BY <1>1, <1>2, RankInduction
<1> QED
  BY <1>3 DEF S

\* What holds of the roots, and of a node when it does of its parent, too.
LEMMA FromTheRoots ==
  ASSUME NEW h, NEW lev, NEW bound, Bounded(h, lev, bound), NEW T,
         \A p \in Allocated(h) : h[p].parent = None \/ h[p].parent \in T => p \in T
  PROVE  \A p \in Allocated(h) : p \in T
<1> DEFINE S == Allocated(h)
           rank == [p \in S |-> bound - lev[p]]
<1>0. bound \in Nat /\ \A p \in S : lev[p] <= bound /\ lev[p] \in Nat
  BY KidsOf DEF Bounded
<1>1. rank \in [S -> Nat]
  <2>1. \A p \in S : bound - lev[p] \in Nat
    BY <1>0
  <2> QED
    BY <2>1
<1>2. ASSUME NEW s \in S, \A t \in S : rank[t] < rank[s] => t \in T
      PROVE  s \in T
  <2>1. CASE h[s].parent = None
    BY <2>1
  <2>2. CASE h[s].parent # None
    <3> DEFINE q == h[s].parent
    <3>1. q \in S /\ lev[q] = lev[s] + 1
      BY <2>2, KidOf
    <3>2. lev[s] \in Nat /\ rank[s] = bound - lev[s] /\ rank[q] = bound - lev[q]
      BY <1>0, <3>1
    <3> HIDE DEF rank, q
    <3>3. rank[q] < rank[s]
      BY <1>0, <3>1, <3>2
    <3> QED
      BY <1>2, <3>1, <3>3 DEF q
  <2> QED
    BY <2>1, <2>2
<1> HIDE DEF rank, S
<1>3. \A s \in S : s \in T
  BY <1>1, <1>2, RankInduction
<1> QED
  BY <1>3 DEF S

\* The nodes below n, and n.
Below(h, n) == ToSet(Walk(Ptr, h)[n])

\* n is one, and with a node so are its children.
LEMMA BelowKids ==
  ASSUME NEW h, NEW lev, NEW bound, Bounded(h, lev, bound), NEW n \in Allocated(h)
  PROVE  /\ n \in Below(h, n)
         /\ \A x : x \in Below(h, n) <=>
              x = n \/ \E k \in 1..Degree(h, n) : x \in Below(h, Kid(h, n, k))
<1>1. PICK rank : Grounded(h, rank, bound)
  BY TreeGrounded
<1>2. n \in Ptr
  BY KidsOf
<1>3. Spans(Ptr, h, n)
  BY <1>1, <1>2, WalkSpans
<1> QED
  BY <1>2, <1>3 DEF Spans, Below, Kid

\* A node below n is allocated, and lower than n unless it is n; then its parent
\* is below n too.
IsBelow(h, lev, n, x) ==
  /\ x \in Allocated(h)
  /\ x = n \/ /\ lev[x] < lev[n]
              /\ h[x].parent # None /\ h[x].parent \in Below(h, n)

\* So is every one.
LEMMA BelowDown ==
  ASSUME NEW h, NEW lev, NEW bound, Bounded(h, lev, bound), NEW n \in Allocated(h),
         NEW x \in Below(h, n)
  PROVE  IsBelow(h, lev, n, x)
<1> DEFINE T == {p \in Allocated(h) : \A y \in Below(h, p) : IsBelow(h, lev, p, y)}
<1>1. ASSUME NEW p \in Allocated(h), \A k \in 1..Degree(h, p) : Kid(h, p, k) \in T
      PROVE  p \in T
  <2> SUFFICES ASSUME NEW y \in Below(h, p) PROVE IsBelow(h, lev, p, y)
    OBVIOUS
  <2>1. CASE y = p
    BY <2>1 DEF IsBelow
  <2>2. CASE y # p
    <3>1. PICK k \in 1..Degree(h, p) : y \in Below(h, Kid(h, p, k))
      BY <2>2, BelowKids
    <3> DEFINE c == Kid(h, p, k)
    <3>2. /\ c \in Allocated(h) /\ lev[p] = lev[c] + 1 /\ h[c].parent = p /\ p # None
          /\ lev[p] \in Nat
      BY KidsOf
    <3>3. c \in T
      BY <1>1
    <3>4. y \in Below(h, c)
      BY <3>1
    <3>5. \A z : z \in Below(h, c) => z \in Below(h, p)
      BY BelowKids
    <3> HIDE DEF c
    <3>6. IsBelow(h, lev, c, y) /\ lev[c] \in Nat
      BY <3>2, <3>3, <3>4, KidsOf
    <3>7. y \in Allocated(h) /\ lev[y] \in Nat
      BY <3>6, KidsOf DEF IsBelow
    <3>8. CASE y = c
      <4>1. p \in Below(h, p)
        BY BelowKids
      <4> QED
        BY <3>2, <3>6, <3>7, <3>8, <4>1 DEF IsBelow
    <3>9. CASE y # c
      <4>1. lev[y] < lev[c] /\ h[y].parent # None /\ h[y].parent \in Below(h, c)
        BY <3>6, <3>9 DEF IsBelow
      <4>2. lev[y] < lev[p]
        BY <3>2, <3>6, <3>7, <4>1
      <4> QED
        BY <3>5, <3>7, <4>1, <4>2 DEF IsBelow
    <3> QED
      BY <3>8, <3>9
  <2> QED
    BY <2>1, <2>2
<1> HIDE DEF T
<1>2. \A p \in Allocated(h) : p \in T
  BY <1>1, FromTheKids
<1> QED
  BY <1>2 DEF T

\* The children of a node below n are below n.
LEMMA BelowUp ==
  ASSUME NEW h, NEW lev, NEW bound, Bounded(h, lev, bound), NEW n \in Allocated(h),
         NEW x \in Allocated(h), h[x].parent # None, h[x].parent \in Below(h, n)
  PROVE  x \in Below(h, n)
<1> DEFINE T == {p \in Allocated(h) : h[x].parent \in Below(h, p) => x \in Below(h, p)}
<1>1. ASSUME NEW p \in Allocated(h), \A k \in 1..Degree(h, p) : Kid(h, p, k) \in T
      PROVE  p \in T
  <2> SUFFICES ASSUME h[x].parent \in Below(h, p) PROVE x \in Below(h, p)
    OBVIOUS
  <2>1. CASE h[x].parent = p
    <3>1. PICK k \in 1..Degree(h, p) : Kid(h, p, k) = x
      BY <2>1, KidOf
    <3>2. x \in Below(h, x)
      BY BelowKids
    <3> QED
      BY <3>1, <3>2, BelowKids
  <2>2. CASE h[x].parent # p
    <3>1. PICK k \in 1..Degree(h, p) : h[x].parent \in Below(h, Kid(h, p, k))
      BY <2>2, BelowKids
    <3>2. x \in Below(h, Kid(h, p, k))
      BY <1>1, <3>1
    <3> QED
      BY <3>2, BelowKids
  <2> QED
    BY <2>1, <2>2
<1> HIDE DEF T
<1>2. \A p \in Allocated(h) : p \in T
  BY <1>1, FromTheKids
<1> QED
  BY <1>2 DEF T

\* No node is below two nodes of which neither is below the other.
LEMMA BelowOne ==
  ASSUME NEW h, NEW lev, NEW bound, Bounded(h, lev, bound), NEW a \in Allocated(h),
         NEW b \in Allocated(h), a \notin Below(h, b), b \notin Below(h, a)
  PROVE  Below(h, a) \cap Below(h, b) = {}
<1> DEFINE T == {x \in Allocated(h) : ~ (x \in Below(h, a) /\ x \in Below(h, b))}
<1>1. ASSUME NEW x \in Allocated(h), h[x].parent = None \/ h[x].parent \in T
      PROVE  x \in T
  <2> SUFFICES ASSUME x \in Below(h, a), x \in Below(h, b) PROVE FALSE
    OBVIOUS
  <2>1. x # a /\ x # b
    OBVIOUS
  <2>2. IsBelow(h, lev, a, x) /\ IsBelow(h, lev, b, x)
    BY BelowDown
  <2>3. h[x].parent # None /\ h[x].parent \in Below(h, a) /\ h[x].parent \in Below(h, b)
    BY <2>1, <2>2 DEF IsBelow
  <2> QED
    BY <1>1, <2>3
<1> HIDE DEF T
<1>2. \A x \in Allocated(h) : x \in T
  BY <1>1, FromTheRoots
<1>3. \A x \in Below(h, a) : x \in Allocated(h)
  BY BelowDown DEF IsBelow
<1> QED
  BY <1>2, <1>3 DEF T

\* The walk from n passes no node twice.
LEMMA WalkOnce ==
  ASSUME NEW h, NEW lev, NEW bound, Bounded(h, lev, bound), NEW n \in Allocated(h)
  PROVE  IsInjective(Walk(Ptr, h)[n]) /\ Walk(Ptr, h)[n] \in Seq(Ptr)
<1> DEFINE W == Walk(Ptr, h)
           T == {p \in Allocated(h) : IsInjective(W[p])}
<1>0. PICK rank : Grounded(h, rank, bound)
  BY TreeGrounded
<1>1. ASSUME NEW p \in Allocated(h), \A k \in 1..Degree(h, p) : Kid(h, p, k) \in T
      PROVE  p \in T
  <2> DEFINE d == Degree(h, p)
             seqs == Trees(h, W, p)
  <2>1. p \in Ptr /\ d \in Nat
    BY KidsOf
  <2>2. PICK part : WalksAt(Ptr, h, W, p, part) /\ W[p] = part[d]
    BY <1>0, <2>1, WalkWalks DEF Walked
  <2>3. /\ Appends(Ptr, part, d, Own(Ptr, p), seqs)
        /\ seqs \in [1..d -> Seq(Ptr)] /\ Own(Ptr, p) \in Seq(Ptr)
    BY <2>2 DEF WalksAt
  <2>4. \A k \in 1..d : seqs[k] = W[Kid(h, p, k)] /\ ToSet(seqs[k]) = Below(h, Kid(h, p, k))
    BY DEF Trees, Kid, Below
  <2>5. IsInjective(Own(Ptr, p)) /\ ToSet(Own(Ptr, p)) = {p}
    BY <2>1 DEF Own, IsInjective, ToSet
  <2>6. ASSUME NEW k \in 1..d
        PROVE  IsInjective(seqs[k]) /\ ToSet(Own(Ptr, p)) \cap ToSet(seqs[k]) = {}
    <3>1. IsInjective(seqs[k])
      BY <1>1, <2>4
    <3>2. Kid(h, p, k) \in Allocated(h) /\ lev[p] = lev[Kid(h, p, k)] + 1 /\ lev[p] \in Nat
          /\ lev[Kid(h, p, k)] \in Nat
      BY KidsOf
    <3>3. ASSUME p \in Below(h, Kid(h, p, k)) PROVE FALSE
      <4>1. IsBelow(h, lev, Kid(h, p, k), p)
        BY <3>2, <3>3, BelowDown
      <4> QED
        BY <3>2, <4>1 DEF IsBelow
    <3> QED
      BY <2>4, <2>5, <3>1, <3>3
  <2>7. ASSUME NEW i \in 1..d, NEW j \in 1..d, i # j
        PROVE  ToSet(seqs[i]) \cap ToSet(seqs[j]) = {}
    <3> DEFINE a == Kid(h, p, i)
               b == Kid(h, p, j)
    <3>1. /\ a \in Allocated(h) /\ b \in Allocated(h) /\ lev[a] \in Nat /\ lev[b] \in Nat
          /\ lev[p] = lev[a] + 1 /\ lev[p] = lev[b] + 1
          /\ h[a].index = i - 1 /\ h[b].index = j - 1
      BY KidsOf
    <3> HIDE DEF a, b
    <3>2. a # b /\ ~ (lev[a] < lev[b]) /\ ~ (lev[b] < lev[a])
      BY <2>7, <3>1
    <3>3. a \notin Below(h, b) /\ b \notin Below(h, a)
      BY <3>1, <3>2, BelowDown DEF IsBelow
    <3>4. Below(h, a) \cap Below(h, b) = {}
      BY <3>1, <3>3, BelowOne
    <3> QED
      BY <2>4, <3>4 DEF a, b
  <2> HIDE DEF d, seqs, W
  <2>8. d \in 0..d
    BY <2>1
  <2>9. IsInjective(part[d])
    <3>1. /\ \A k \in 1..d : IsInjective(seqs[k]) /\ ToSet(Own(Ptr, p)) \cap ToSet(seqs[k]) = {}
          /\ \A i, j \in 1..d : i # j => ToSet(seqs[i]) \cap ToSet(seqs[j]) = {}
      BY <2>6, <2>7
    <3>2. d \in Nat /\ IsInjective(Own(Ptr, p))
      BY <2>1, <2>5
    <3> QED
      BY <2>3, <2>8, <3>1, <3>2, AppendsInjective
  <2> QED
    BY <2>2, <2>9
<1> HIDE DEF T
<1>2. \A p \in Allocated(h) : p \in T
  BY <1>1, FromTheKids
<1>3. n \in Ptr
  BY KidsOf
<1>4. W[n] \in Seq(Ptr)
  BY <1>0, <1>3, WalkWalks DEF Walked
<1> QED
  BY <1>2, <1>4 DEF T

-----------------------------------------------------------------------------
(***************************************************************************)
(* Every node is owned once.                                               *)
(***************************************************************************)

\* n names the root of a tree, or nothing.
IsRoot(h, n) == n = None \/ n \in Roots(h)

\* The nodes below the root n.
NodesBelow(h, n) == IF n = None THEN {} ELSE Below(h, n)

\* The walk that Preorder is.
LEMMA PreorderOnce ==
  ASSUME NEW h, NEW lev, NEW bound, Bounded(h, lev, bound), NEW n, IsRoot(h, n)
  PROVE  /\ Preorder(h, n) \in Seq(Ptr) /\ IsInjective(Preorder(h, n))
         /\ ToSet(Preorder(h, n)) = NodesBelow(h, n)
         /\ NodesBelow(h, n) \subseteq Allocated(h)
<1>1. PICK rank : Grounded(h, rank, bound)
  BY TreeGrounded
<1>2. n \in Ptr \cup {None}
  BY DEF IsRoot, Roots, Allocated
<1>3. Preorder(h, n) = IF n = None THEN <<>> ELSE Walk(Ptr, h)[n]
  <2>1. NodesIn(Ptr, h, Root(n)) = IF n = None THEN <<>> ELSE Walk(Ptr, h)[n]
    BY <1>1, <1>2, NodesInOne
  <2> QED
    BY <2>1, Zenon DEF Preorder, PreorderOf
<1>4. CASE n = None
  <2>1. Preorder(h, n) = <<>> /\ DOMAIN <<>> = {} /\ <<>> \in Seq(Ptr)
    BY <1>3, <1>4
  <2> QED
    BY <1>4, <2>1 DEF IsInjective, ToSet, NodesBelow
<1>5. CASE n # None
  <2>1. n \in Allocated(h)
    BY <1>5 DEF IsRoot, Roots
  <2>2. IsInjective(Walk(Ptr, h)[n]) /\ Walk(Ptr, h)[n] \in Seq(Ptr)
    BY <2>1, WalkOnce
  <2>3. \A x \in Below(h, n) : x \in Allocated(h)
    BY <2>1, BelowDown DEF IsBelow
  <2> QED
    BY <1>3, <1>5, <2>2, <2>3 DEF NodesBelow, Below
<1> QED
  BY <1>4, <1>5

\* Two trees share no node.
LEMMA RootsApart ==
  ASSUME NEW h, NEW lev, NEW bound, Bounded(h, lev, bound),
         NEW a, NEW b, IsRoot(h, a), IsRoot(h, b), a = b => a = None
  PROVE  NodesBelow(h, a) \cap NodesBelow(h, b) = {}
<1>1. CASE a = None \/ b = None
  BY <1>1 DEF NodesBelow
<1>2. CASE a # None /\ b # None
  <2>1. /\ a \in Allocated(h) /\ b \in Allocated(h) /\ a # b
        /\ h[a].parent = None /\ h[b].parent = None
    BY <1>2 DEF IsRoot, Roots
  <2>2. a \notin Below(h, b) /\ b \notin Below(h, a)
    BY <2>1, BelowDown DEF IsBelow
  <2>3. Below(h, a) \cap Below(h, b) = {}
    BY <2>1, <2>2, BelowOne
  <2> QED
    BY <1>2, <2>3 DEF NodesBelow
<1> QED
  BY <1>1, <1>2

\* Every node is below one of them if there is no other.
LEMMA RootsOwn ==
  ASSUME NEW h, NEW lev, NEW bound, Bounded(h, lev, bound),
         NEW a, NEW b, Roots(h) = {a, b} \ {None}
  PROVE  Allocated(h) \subseteq NodesBelow(h, a) \cup NodesBelow(h, b)
<1> DEFINE T == NodesBelow(h, a) \cup NodesBelow(h, b)
<1>1. ASSUME NEW p \in Allocated(h), h[p].parent = None \/ h[p].parent \in T
      PROVE  p \in T
  <2>1. CASE h[p].parent = None
    <3>1. p \in Roots(h)
      BY <2>1 DEF Roots
    <3>2. p \in {a, b} /\ p # None
      BY <3>1
    <3>3. p \in Below(h, p)
      BY BelowKids
    <3> QED
      BY <3>2, <3>3 DEF NodesBelow
  <2>2. CASE h[p].parent # None
    <3>1. PICK n \in {a, b} : n # None /\ h[p].parent \in Below(h, n)
      BY <1>1, <2>2 DEF NodesBelow
    <3>2. n \in Allocated(h)
      BY <3>1 DEF Roots
    <3>3. p \in Below(h, n)
      BY <2>2, <3>1, <3>2, BelowUp
    <3> QED
      BY <3>1, <3>3 DEF NodesBelow
  <2> QED
    BY <2>1, <2>2
<1> HIDE DEF T
<1>2. \A p \in Allocated(h) : p \in T
  BY <1>1, FromTheRoots
<1> QED
  BY <1>2 DEF T

\* A failed allocation leaves the tree, with the root it had before.
RootInv == pc = "aborted" => split = None /\ IsRoot(heap, root)

\* The trees that own the nodes: those of the top and of the half that waits.
LEMMA OwnersThen ==
  ASSUME TypeInv, TreeInv, RootInv, pc # "panicked"
  PROVE  /\ IsRoot(heap, Top) /\ IsRoot(heap, split) /\ (Top = split => Top = None)
         /\ pc # "aborted" => Roots(heap) = {Top, split} \ {None}
<1>1. CASE pc = "aborted"
  <2>1. split = None /\ IsRoot(heap, root)
    BY <1>1 DEF RootInv
  <2>2. Top = root
    BY <2>1 DEF Top, IsRoot, Roots
  <2> QED
    BY <1>1, <2>1, <2>2 DEF IsRoot
<1>2. CASE pc # "aborted"
  <2>1. PICK lev \in [Ptr -> Nat] : TreeInvAt(lev)
    BY DEF TreeInv
  <2>2. Roots(heap) = {Top, split} \ {None} /\ SplitOK(lev)
    BY <1>2, <2>1 DEF TreeInvAt, RootsOK, Ended
  <2>3. Top = split => Top = None
    BY <2>2 DEF SplitOK
  <2>4. IsRoot(heap, Top) /\ IsRoot(heap, split)
    BY <2>2, Zenon DEF IsRoot
  <2> QED
    BY <1>2, <2>2, <2>3, <2>4
<1> QED
  BY <1>1, <1>2

\* So each node is owned once.
LEMMA OwnedThen ==
  ASSUME TypeInv, TreeInv, FiniteInv, RootInv, pc # "panicked"
  PROVE  OwnedOnce
<1> DEFINE a == Preorder(heap, Top)
           b == Preorder(heap, split)
<1>1. PICK lev \in [Ptr -> Nat] : Tree(heap, lev)
  BY DEF TreeInv, TreeInvAt
<1>2. heap \in Heap /\ IsFiniteSet(Allocated(heap))
  BY DEF TypeInv, TypeOK, FiniteInv
<1>3. PICK bound : Bounded(heap, lev, bound)
  BY <1>1, <1>2, FiniteTrees
<1>4. PICK top, half : top = Top /\ half = split
  OBVIOUS
<1>5. /\ IsRoot(heap, top) /\ IsRoot(heap, half) /\ (top = half => top = None)
      /\ pc # "aborted" => Roots(heap) = {top, half} \ {None}
  BY <1>4, OwnersThen
<1>6. /\ a \in Seq(Ptr) /\ IsInjective(a) /\ ToSet(a) = NodesBelow(heap, top)
      /\ b \in Seq(Ptr) /\ IsInjective(b) /\ ToSet(b) = NodesBelow(heap, half)
      /\ NodesBelow(heap, top) \subseteq Allocated(heap)
      /\ NodesBelow(heap, half) \subseteq Allocated(heap)
  BY <1>3, <1>4, <1>5, PreorderOnce
<1>7. NodesBelow(heap, top) \cap NodesBelow(heap, half) = {}
  BY <1>3, <1>5, RootsApart
<1>8. pc # "aborted" =>
        Allocated(heap) \subseteq NodesBelow(heap, top) \cup NodesBelow(heap, half)
  BY <1>3, <1>5, RootsOwn
<1> HIDE DEF a, b
<1>9. IsInjective(a \o b) /\ ToSet(a \o b) = ToSet(a) \cup ToSet(b)
  BY <1>6, <1>7, ConcatInjective, ConcatToSet
<1>10. /\ IsInjective(a \o b)
       /\ ToSet(a \o b) \subseteq Allocated(heap)
       /\ pc # "aborted" => ToSet(a \o b) = Allocated(heap)
  BY <1>6, <1>8, <1>9
<1> QED
  BY <1>10, Zenon DEF OwnedOnce, a, b

\* A step that does not fail to allocate does not end there.
LEMMA NotAborted ==
  ASSUME pc # "aborted", Begin \/ Step
  PROVE  pc' # "aborted"
BY DEF Begin, BeginInsert, BeginSet, BeginRemove, BeginGet, Enter, Step, Descend, Get, Set,
       Return, InsertAtLeaf, ClimbInsert, ClimbSplit, GrowRoot, FinishInsert, RemoveAtLeaf,
       ClimbRemove, ClimbMerge, FinishRemove, Panic, Leave, Inserting, Removing

\* The root stays one.
LEMMA NextRootInv ==
  TypeInv /\ TreeInv /\ RootInv /\ [Next]_vars => RootInv'
<1> SUFFICES ASSUME TypeInv, TreeInv, RootInv, [Next]_vars, pc' = "aborted"
             PROVE  split' = None /\ IsRoot(heap', root')
  BY DEF RootInv
<1>1. CASE UNCHANGED vars
  BY <1>1 DEF vars, RootInv
<1>2. CASE AllocFails
  <2>1. pc \notin {"aborted", "panicked"} /\ root' = root /\ split' = None
    BY <1>2 DEF AllocFails, AtLeaf, Inserting, Leave
  <2>2. PICK lev \in [Ptr -> Nat] : TreeInvAt(lev)
    BY DEF TreeInv
  <2>3. RootsOK /\ heap \in Heap /\ Tree(heap, lev)
    BY <2>1, <2>2 DEF TreeInvAt, Ended, TypeInv, TypeOK
  <2>4. Inserting => split # None
    BY <1>2 DEF AllocFails, AtLeaf, Inserting
  <2>5. IsRoot(heap, root)
    BY <2>3, <2>4 DEF RootsOK, IsRoot, Roots
  <2>6. \A p \in Ptr : heap'[p].kind = heap[p].kind /\ heap'[p].parent = heap[p].parent
    <3>1. CASE heap' = heap
      BY <3>1
    <3>2. CASE heap' # heap
      <4> DEFINE q == heap[node].parent
      <4>1. /\ Inserting /\ q # None
            /\ heap' = Credit(heap, q, heap[node].index)
        BY <1>2, <3>2 DEF AllocFails
      <4>2. node \in Allocated(heap)
        BY <2>3, <4>1 DEF RootsOK, Inserting
      <4>3. q \in Ptr
        BY <2>3, <4>1, <4>2, ParentOf DEF Allocated
      <4>4. Resized(heap, heap', q)
        BY <2>3, <4>1, <4>3, CreditResized
      <4> QED
        BY <4>4 DEF Resized
    <3> QED
      BY <3>1, <3>2
  <2>7. Roots(heap') = Roots(heap)
    BY <2>6 DEF Roots, Allocated
  <2> QED
    BY <2>1, <2>5, <2>7 DEF IsRoot
<1>3. CASE Begin \/ Step
  <2>1. pc # "aborted"
    BY <1>3 DEF Begin, BeginInsert, BeginSet, BeginRemove, BeginGet, Step, Descend, Get, Set,
       Return, InsertAtLeaf, ClimbInsert, ClimbSplit, GrowRoot, FinishInsert, RemoveAtLeaf,
       ClimbRemove, ClimbMerge, FinishRemove, AtLeaf, Inserting, Removing
  <2> QED
    BY <1>3, <2>1, NotAborted
<1> QED
  BY <1>1, <1>2, <1>3 DEF Next

\* Every node the allocator handed out is owned by the tree, or by the half that
\* waits to be linked, and by one of them once, in every state of every call
\* (insert.rs, remove.rs: no node leaks, and BTreeVec::drop frees none twice).
THEOREM AlwaysOwnedOnce == Spec => []OwnedOnce
<1>1. Init => TypeInv /\ TreeInv /\ FiniteInv /\ RootInv
  <2>1. Init => RootInv
    BY DEF Init, RootInv
  <2> QED
    BY <2>1, InitTypeInv, InitTreeInv, InitFiniteInv
<1>2. TypeInv /\ TreeInv /\ FiniteInv /\ RootInv /\ [Next]_vars
        => (TypeInv /\ TreeInv /\ FiniteInv /\ RootInv)'
  BY NextTypeInv, NextTreeInv, NextFiniteInv, NextRootInv
<1>3. TypeInv /\ TreeInv /\ FiniteInv /\ RootInv => OwnedOnce
  BY OwnedThen DEF OwnedOnce
<1> QED
  BY <1>1, <1>2, <1>3, PTL DEF Spec

-----------------------------------------------------------------------------
(***************************************************************************)
(* All leaves are at the same depth.                                       *)
(***************************************************************************)

\* What Depth's function is.
AreDepths(h, f) ==
  f = [p \in Allocated(h) |-> IF h[p].parent = None THEN 0 ELSE 1 + f[h[p].parent]]

\* The function Depth names exists.
LEMMA DepthsExist ==
  ASSUME NEW h, NEW lev, NEW bound, Bounded(h, lev, bound)
  PROVE  \E f \in [Allocated(h) -> Nat] : AreDepths(h, f)
<1> DEFINE S == Allocated(h)
           stops == {p \in S : h[p].parent = None}
           next == [p \in S |-> IF p \in stops THEN p ELSE h[p].parent]
           rank == [p \in S |-> bound - lev[p]]
           base == [p \in S |-> 0]
           g == [p \in S |-> [v \in Nat |-> 1 + v]]
<1>0. bound \in Nat /\ \A p \in S : lev[p] <= bound /\ lev[p] \in Nat
  BY KidsOf DEF Bounded
<1>1. \A p \in S \ stops : h[p].parent \in S /\ lev[h[p].parent] = lev[p] + 1
  BY KidOf
<1> HIDE DEF S
<1>2. next \in [S -> S] /\ \A p \in S \ stops : next[p] = h[p].parent
  BY <1>1
<1>3. rank \in [S -> 0..bound]
  <2>1. \A p \in S : bound - lev[p] \in 0..bound
    BY <1>0
  <2> QED
    BY <2>1
<1>4. \A p \in S : p \in stops \/ rank[next[p]] < rank[p]
  <2> SUFFICES ASSUME NEW p \in S \ stops PROVE rank[next[p]] < rank[p]
    OBVIOUS
  <2>1. next[p] \in S /\ lev[next[p]] = lev[p] + 1
    BY <1>1, <1>2
  <2>2. rank[p] = bound - lev[p] /\ rank[next[p]] = bound - lev[next[p]]
    BY <2>1
  <2> HIDE DEF rank, next
  <2> QED
    BY <1>0, <2>1, <2>2
<1>5. /\ base \in [S -> Nat] /\ \A p \in S : base[p] = 0
      /\ g \in [S -> [Nat -> Nat]] /\ \A p \in S, v \in Nat : g[p][v] = 1 + v
  OBVIOUS
<1>6. \A p \in S : p \in stops <=> h[p].parent = None
  OBVIOUS
<1> HIDE DEF stops, next, rank, base, g
<1>7. IsChain(S, stops, next, rank, bound)
  BY <1>0, <1>2, <1>3, <1>4 DEF IsChain
<1>8. PICK f \in [S -> Nat] : Follows(f, S, stops, next, base, g)
  BY <1>5, <1>7, ChainFunction
<1>9. \A p \in S : f[p] = IF h[p].parent = None THEN 0 ELSE 1 + f[h[p].parent]
  <2> TAKE p \in S
  <2>1. CASE p \in stops
    BY <1>5, <1>6, <1>8, <2>1 DEF Follows
  <2>2. CASE p \notin stops
    <3>1. f[p] = g[p][f[next[p]]] /\ next[p] = h[p].parent /\ next[p] \in S
      BY <1>2, <1>8, <2>2 DEF Follows
    <3> QED
      BY <1>5, <1>6, <2>2, <3>1
  <2> QED
    BY <2>1, <2>2
<1>10. AreDepths(h, f)
  BY <1>9 DEF AreDepths, S
<1> QED
  BY <1>8, <1>10 DEF S

\* A root is at depth 0, and another node one below its parent.
LEMMA DepthStep ==
  ASSUME NEW h, NEW lev, NEW bound, Bounded(h, lev, bound), NEW p \in Allocated(h)
  PROVE  /\ Depth(h, p) \in Nat
         /\ h[p].parent # None => Depth(h, p) = 1 + Depth(h, h[p].parent)
<1> DEFINE S == Allocated(h)
           F == CHOOSE f : AreDepths(h, f)
           T == {q \in S : F[q] \in Nat}
<1>1. \A q : Depth(h, q) = F[q]
  BY Zenon DEF Depth, AreDepths
<1>2. AreDepths(h, F)
  BY DepthsExist, Zenon
<1> HIDE DEF F
<1>3. \A q \in S : F[q] = IF h[q].parent = None THEN 0 ELSE 1 + F[h[q].parent]
  BY <1>2 DEF AreDepths
<1>4. \A q \in S : h[q].parent = None \/ h[q].parent \in T => q \in T
  BY <1>3
<1> HIDE DEF T
<1>5. \A q \in S : q \in T
  BY <1>4, FromTheRoots
<1> QED
  BY <1>1, <1>3, <1>5 DEF T

\* On the way down from p a walk goes as much deeper as it goes lower.
DeepAs(S, h, lev, p) ==
  \A x \in ToSet(Walk(S, h)[p]) :
    /\ x \in S /\ x \in Allocated(h)
    /\ Depth(h, x) + lev[x] = Depth(h, p) + lev[p]

\* So it does.
LEMMA DepthsBelow ==
  ASSUME NEW S, NEW h, NEW lev, NEW bound, Bounded(h, lev, bound), NEW n \in Allocated(h)
  PROVE  DeepAs(S, h, lev, n)
<1> DEFINE T == {p \in Allocated(h) : DeepAs(S, h, lev, p)}
<1>0. PICK rank : Grounded(h, rank, bound)
  BY TreeGrounded
<1>1. ASSUME NEW p \in Allocated(h), \A k \in 1..Degree(h, p) : Kid(h, p, k) \in T
      PROVE  p \in T
  <2> SUFFICES ASSUME NEW x \in ToSet(Walk(S, h)[p])
               PROVE  /\ x \in S /\ x \in Allocated(h)
                      /\ Depth(h, x) + lev[x] = Depth(h, p) + lev[p]
    BY DEF DeepAs
  <2>1. Spans(S, h, p)
    BY <1>0, KidsOf, WalkSpans
  <2>2. CASE x = p /\ p \in S
    BY <2>2
  <2>3. CASE ~ (x = p /\ p \in S)
    <3>1. PICK k \in 1..Degree(h, p) : x \in ToSet(Walk(S, h)[Kid(h, p, k)])
      BY <2>1, <2>3 DEF Spans, Kid
    <3> DEFINE c == Kid(h, p, k)
    <3>2. /\ c \in Allocated(h) /\ lev[p] = lev[c] + 1 /\ h[c].parent = p /\ p # None
          /\ lev[c] \in Nat
      BY KidsOf
    <3>3. c \in T /\ x \in ToSet(Walk(S, h)[c])
      BY <1>1, <3>1
    <3> HIDE DEF c
    <3>4. /\ x \in S /\ x \in Allocated(h)
          /\ Depth(h, x) + lev[x] = Depth(h, c) + lev[c]
      BY <3>3 DEF DeepAs
    <3>5. Depth(h, c) = 1 + Depth(h, p) /\ Depth(h, p) \in Nat
      BY <3>2, DepthStep
    <3> QED
      BY <3>2, <3>4, <3>5
  <2> QED
    BY <2>2, <2>3
<1> HIDE DEF T
<1>2. \A p \in Allocated(h) : p \in T
  BY <1>1, FromTheKids
<1> QED
  BY <1>2 DEF T

\* So the leaves below a node are at one depth.
LEMMA LeavesLevel ==
  ASSUME NEW h, NEW lev, NEW bound, Bounded(h, lev, bound), NEW n \in Ptr \cup {None},
         NEW x \in ToSet(Leaves(h, n)), NEW y \in ToSet(Leaves(h, n))
  PROVE  Depth(h, x) = Depth(h, y)
<1> DEFINE L == {p \in Ptr : IsLeaf(h, p)}
<1>0. PICK rank : Grounded(h, rank, bound)
  BY TreeGrounded
<1> HIDE DEF L
<1>1. Leaves(h, n) = IF n = None THEN <<>> ELSE Walk(L, h)[n]
  <2>1. NodesIn(L, h, Root(n)) = IF n = None THEN <<>> ELSE Walk(L, h)[n]
    BY <1>0, NodesInOne
  <2> QED
    BY <2>1, Zenon DEF Leaves, L
<1>2. CASE n = None
  BY <1>1, <1>2 DEF ToSet
<1>3. CASE n # None /\ n \notin Allocated(h)
  <2>1. Spans(L, h, n) /\ n \in Ptr
    BY <1>0, <1>3, WalkSpans
  <2>2. Degree(h, n) = 0 /\ n \notin L
    BY <1>3, <2>1 DEF Degree, L, Allocated, IsInternal, IsLeaf
  <2> QED
    BY <1>1, <1>3, <2>1, <2>2 DEF Spans
<1>4. CASE n \in Allocated(h)
  <2>1. n # None
    BY <1>4, KidsOf
  <2>2. DeepAs(L, h, lev, n)
    BY <1>4, DepthsBelow
  <2>3. ASSUME NEW z \in L, z \in Allocated(h) PROVE lev[z] = 0 /\ Depth(h, z) \in Nat
    BY <2>3, DepthStep DEF L, Bounded, Tree
  <2>4. x \in ToSet(Walk(L, h)[n]) /\ y \in ToSet(Walk(L, h)[n])
    BY <1>1, <2>1
  <2>5. /\ x \in L /\ x \in Allocated(h) /\ Depth(h, x) + lev[x] = Depth(h, n) + lev[n]
        /\ y \in L /\ y \in Allocated(h) /\ Depth(h, y) + lev[y] = Depth(h, n) + lev[n]
    BY <2>2, <2>4 DEF DeepAs
  <2>6. lev[x] = 0 /\ Depth(h, x) \in Nat /\ lev[y] = 0 /\ Depth(h, y) \in Nat
    BY <2>3, <2>5
  <2> QED
    BY <2>5, <2>6
<1> QED
  BY <1>2, <1>3, <1>4

\* All leaves of the tree are at one depth, in every state, while a call adds or
\* removes a level too (insert.rs, remove.rs).
THEOREM AlwaysBalanced == Spec => []Balanced
<1>1. Init => TypeInv /\ TreeInv /\ FiniteInv
  BY InitTypeInv, InitTreeInv, InitFiniteInv
<1>2. TypeInv /\ TreeInv /\ FiniteInv /\ [Next]_vars => (TypeInv /\ TreeInv /\ FiniteInv)'
  BY NextTypeInv, NextTreeInv, NextFiniteInv
<1>3. TypeInv /\ TreeInv /\ FiniteInv => Balanced
  <2> SUFFICES ASSUME TypeInv, TreeInv, FiniteInv PROVE Balanced
    OBVIOUS
  <2>1. PICK lev \in [Ptr -> Nat] : Tree(heap, lev)
    BY DEF TreeInv, TreeInvAt
  <2>2. heap \in Heap /\ IsFiniteSet(Allocated(heap))
    BY DEF TypeInv, TypeOK, FiniteInv
  <2>3. PICK bound : Bounded(heap, lev, bound)
    BY <2>1, <2>2, FiniteTrees
  <2>4. Top \in Ptr \cup {None}
    <3>1. root \in Ptr \cup {None}
      BY DEF TypeInv, TypeOK, PtrOrNone
    <3> QED
      BY <2>2, <3>1, FieldTypes DEF Top, PtrOrNone
  <2>5. PICK top : top = Top
    OBVIOUS
  <2>6. \A p, q \in ToSet(Leaves(heap, top)) : Depth(heap, p) = Depth(heap, q)
    BY <2>3, <2>4, <2>5, LeavesLevel
  <2> QED
    BY <2>5, <2>6, Zenon DEF Balanced
<1> QED
  BY <1>1, <1>2, <1>3, PTL DEF Spec
=============================================================================
