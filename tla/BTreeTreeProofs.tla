-------------------------- MODULE BTreeTreeProofs ---------------------------
(***************************************************************************)
(* Lemmas about the operators of BTreeNode: what they return for every B.  *)
(* From them, that BTreeVec keeps its types and the length of its vector,  *)
(* for every B >= 3, every set of items and addresses and every bound      *)
(* MaxSize.  Then what the operations on nodes do to the tree.             *)
(***************************************************************************)
EXTENDS BTreeTree, WellFoundedInduction, TLAPS

USE NodeAssumption DEF Position, MinLength

-----------------------------------------------------------------------------
(***************************************************************************)
(* Induction over Nat, in the form of a least counterexample.              *)
(***************************************************************************)

\* A nonempty set of naturals has a least element.
LEMMA LeastNatural ==
  ASSUME NEW T \in SUBSET Nat, T # {}
  PROVE  \E m \in T : \A k \in T : m <= k
<1>1. PICK m \in T : \A k \in T : ~ (<<k, m>> \in OpToRel(<, Nat))
  BY NatLessThanWellFounded, WFMin, Zenon
<1>2. \A k \in T : ~ (k < m)
  BY <1>1 DEF OpToRel
<1>3. \A k \in T : m <= k
  BY <1>2, m \in Nat, T \subseteq Nat
<1> QED
  BY <1>3

-----------------------------------------------------------------------------
(***************************************************************************)
(* PrefixSums is well defined, on the prefixes of an array, and its values *)
(* are naturals that never decrease.                                       *)
(***************************************************************************)

\* f holds the sums of the first 0..n entries of a.
AreSums(f, a, n) ==
  f = [k \in 0..n |-> IF k = 0 THEN 0 ELSE f[k - 1] + a[k - 1]]

\* The function PrefixSums names exists.
LEMMA SumsExist ==
  ASSUME NEW a \in [Position -> Nat]
  PROVE  \E f : AreSums(f, a, B)
<1> DEFINE Bad == {n \in 0..B : ~ \E f : AreSums(f, a, n)}
<1> SUFFICES ASSUME Bad # {} PROVE FALSE
  <2>1. B \in 0..B
    OBVIOUS
  <2> QED
    BY <2>1
<1>1. PICK m \in Bad : \A k \in Bad : m <= k
  <2>1. Bad \in SUBSET Nat
    OBVIOUS
  <2> QED
    BY <2>1, LeastNatural
<1>2. m \in 0..B /\ ~ \E f : AreSums(f, a, m)
  BY <1>1
<1>3. CASE m = 0
  <2> DEFINE f == [k \in 0..0 |-> 0]
  <2>1. f = [k \in 0..0 |-> IF k = 0 THEN 0 ELSE f[k - 1] + a[k - 1]]
    OBVIOUS
  <2> QED
    BY <2>1, <1>2, <1>3 DEF AreSums
<1>4. CASE m # 0
  <2>1. m - 1 \in 0..B /\ m - 1 \notin Bad
    BY <1>1, <1>2, <1>4
  <2>2. PICK f : AreSums(f, a, m - 1)
    BY <2>1
  <2> DEFINE g == [k \in 0..m |-> IF k = m THEN f[m - 1] + a[m - 1] ELSE f[k]]
  <2>3. ASSUME NEW k \in 0..m
        PROVE  g[k] = IF k = 0 THEN 0 ELSE g[k - 1] + a[k - 1]
    <3>1. CASE k = m
      BY <3>1, <1>2, <1>4
    <3>2. CASE k # m
      <4>1. k \in 0..(m - 1)
        BY <3>2, <1>2
      <4>2. f[k] = IF k = 0 THEN 0 ELSE f[k - 1] + a[k - 1]
        BY <4>1, <2>2 DEF AreSums
      <4>3. k # 0 => g[k - 1] = f[k - 1]
        BY <4>1, <1>2
      <4> QED
        BY <4>2, <4>3, <3>2
    <3> QED
      BY <3>1, <3>2
  <2>4. AreSums(g, a, m)
    BY <2>3 DEF AreSums
  <2> QED
    BY <2>4, <1>2
<1> QED
  BY <1>3, <1>4

\* What it computes: sums[0] = 0 and each entry adds one more size.
LEMMA PrefixSumsStep ==
  ASSUME NEW a \in [Position -> Nat]
  PROVE  /\ PrefixSums(a)[0] = 0
         /\ \A k \in 1..B : PrefixSums(a)[k] = PrefixSums(a)[k - 1] + a[k - 1]
<1>1. AreSums(PrefixSums(a), a, B)
  BY SumsExist, Zenon DEF AreSums, PrefixSums
<1>2. \A k \in 0..B : PrefixSums(a)[k] =
        IF k = 0 THEN 0 ELSE PrefixSums(a)[k - 1] + a[k - 1]
  BY <1>1 DEF AreSums
<1> QED
  BY <1>2

\* The sums are naturals.
LEMMA PrefixSumsType ==
  ASSUME NEW a \in [Position -> Nat]
  PROVE  \A k \in 0..B : PrefixSums(a)[k] \in Nat
<1> DEFINE Bad == {n \in 0..B : PrefixSums(a)[n] \notin Nat}
<1> SUFFICES ASSUME Bad # {} PROVE FALSE
  OBVIOUS
<1>1. PICK m \in Bad : \A k \in Bad : m <= k
  <2>1. Bad \in SUBSET Nat
    OBVIOUS
  <2> QED
    BY <2>1, LeastNatural
<1>2. m # 0
  BY <1>1, PrefixSumsStep
<1>3. m \in 1..B /\ m - 1 \in 0..B /\ m - 1 \notin Bad
  BY <1>1, <1>2
<1>4. PrefixSums(a)[m] = PrefixSums(a)[m - 1] + a[m - 1]
  BY <1>3, PrefixSumsStep
<1>5. PrefixSums(a)[m - 1] \in Nat /\ a[m - 1] \in Nat
  BY <1>3
<1> QED
  BY <1>1, <1>4, <1>5

\* The child leaf_for takes exists, the index is not below its start, and not
\* past its end unless it is the last.
LEMMA ChildForType ==
  ASSUME NEW h \in Heap, NEW n \in Ptr, NEW i \in Nat, h[n].length # 0
  PROVE  /\ ChildFor(h, n, i) \in 0..(h[n].length - 1)
         /\ PrefixSums(h[n].sizes)[ChildFor(h, n, i)] <= i
         /\ \/ ChildFor(h, n, i) = h[n].length - 1
            \/ i < PrefixSums(h[n].sizes)[ChildFor(h, n, i) + 1]
<1> DEFINE last == h[n].length - 1
           sums == PrefixSums(h[n].sizes)
           T == {k \in 0..last : k = last \/ i < sums[k + 1]}
           P(k) == /\ k = last \/ i < sums[k + 1]
                   /\ \A j \in 1..k : i >= sums[j]
<1>1. /\ h[n].sizes \in [Position -> Nat]
      /\ h[n].length \in 1..B
  BY DEF Heap, Node
<1>2. sums[0] = 0 /\ \A k \in 0..B : sums[k] \in Nat
  BY <1>1, PrefixSumsStep, PrefixSumsType
<1>3. last \in T /\ T \in SUBSET Nat /\ last \in 0..(B - 1)
  BY <1>1
<1> HIDE DEF last, sums
<1>4. PICK m \in T : \A k \in T : m <= k
  BY <1>3, LeastNatural
<1>5. ASSUME NEW j \in 1..m PROVE i >= sums[j]
  <2>1. j - 1 \in 0..last /\ j - 1 # last /\ j - 1 \notin T
    BY <1>3, <1>4
  <2>2. ~ (i < sums[(j - 1) + 1])
    BY <2>1
  <2>3. (j - 1) + 1 = j /\ j \in 0..B
    BY <1>3
  <2>4. sums[j] \in Nat
    BY <2>3, <1>2
  <2> QED
    BY <2>2, <2>3, <2>4
<1>6. m \in 0..last /\ P(m)
  BY <1>4, <1>5
<1>7. ChildFor(h, n, i) = CHOOSE k \in 0..last : P(k)
  BY DEF ChildFor, last, sums
<1> DEFINE c == ChildFor(h, n, i)
<1>8. c \in 0..last /\ P(c)
  BY <1>6, <1>7, Zenon
<1>9. sums[c] <= i
  <2>1. CASE c = 0
    BY <2>1, <1>2
  <2>2. CASE c # 0
    <3>1. c \in 1..c /\ c \in 0..B
      BY <2>2, <1>8, <1>3
    <3>2. sums[c] \in Nat /\ i >= sums[c]
      BY <3>1, <1>8, <1>2
    <3> QED
      BY <3>2
  <2> QED
    BY <2>1, <2>2
<1> QED
  BY <1>8, <1>9 DEF last, sums

-----------------------------------------------------------------------------
(***************************************************************************)
(* Types: every operation maps a heap to a heap.  Beside the type each     *)
(* lemma says what becomes of the lengths, which no operation may take     *)
(* beyond B.                                                               *)
(***************************************************************************)

\* A new node, and a freed one, is a node.
LEMMA NewNodeType ==
  ASSUME NEW kind \in {"free", "leaf", "internal"}
  PROVE  NewNode(kind) \in Node
BY DEF NewNode, Node, PtrOrNone, Slot

\* rotate_right and the write keep an array an array.
LEMMA RotateInType ==
  ASSUME NEW S, NEW a \in [Position -> S], NEW x \in S,
         NEW i \in Nat, NEW len \in Nat
  PROVE  RotateIn(a, i, len, x) \in [Position -> S]
BY DEF RotateIn

\* rotate_left and the write keep an array an array.
LEMMA RotateOutType ==
  ASSUME NEW S, NEW a \in [Position -> S], NEW x \in S,
         NEW i \in Nat, NEW len \in 0..B
  PROVE  RotateOut(a, i, len, x) \in [Position -> S]
BY DEF RotateOut

\* Renumbering children changes no length.
LEMMA RenumberType ==
  ASSUME NEW h \in Heap, NEW n \in Ptr, NEW lo \in Nat, NEW hi \in Int
  PROVE  /\ Renumber(h, n, lo, hi) \in Heap
         /\ \A p \in Ptr : Renumber(h, n, lo, hi)[p].length = h[p].length
<1>1. ASSUME NEW p \in Ptr
      PROVE  /\ Renumber(h, n, lo, hi)[p] \in Node
             /\ Renumber(h, n, lo, hi)[p].length = h[p].length
  <2>0. h[p] \in Node
    BY DEF Heap
  <2>1. CASE p \in ChildrenAt(h, n, lo, hi)
    <3> DEFINE j == CHOOSE k \in lo..hi : h[n].children[k] = p
    <3>1. \E k \in lo..hi : h[n].children[k] = p
      BY <2>1 DEF ChildrenAt
    <3>2. j \in lo..hi
      BY <3>1, Zenon
    <3>3. j \in Nat
      BY <3>2
    <3>4. Renumber(h, n, lo, hi)[p] = [h[p] EXCEPT !.index = j]
      BY <2>1 DEF Renumber
    <3> HIDE DEF j
    <3> QED
      BY <2>0, <3>3, <3>4 DEF Node
  <2>2. CASE p \notin ChildrenAt(h, n, lo, hi)
    BY <2>0, <2>2 DEF Renumber
  <2> QED
    BY <2>1, <2>2
<1>2. Renumber(h, n, lo, hi) \in Heap
  <2> DEFINE f(p) == IF p \in ChildrenAt(h, n, lo, hi)
                     THEN [h[p] EXCEPT !.index =
                             CHOOSE j \in lo..hi : h[n].children[j] = p]
                     ELSE h[p]
  <2>1. Renumber(h, n, lo, hi) = [p \in Ptr |-> f(p)]
    BY DEF Renumber
  <2> HIDE DEF f
  <2> QED
    BY <1>1, <2>1 DEF Heap
<1> QED
  BY <1>1, <1>2

\* Relinking children changes no length.
LEMMA SetParentType ==
  ASSUME NEW h \in Heap, NEW ps, NEW parent \in PtrOrNone
  PROVE  /\ SetParent(h, ps, parent) \in Heap
         /\ \A p \in Ptr : SetParent(h, ps, parent)[p].length = h[p].length
BY DEF SetParent, Heap, Node

\* Nor does copying a whole tagged pointer to them.
LEMMA CopyParentPtrType ==
  ASSUME NEW h \in Heap, NEW ps, NEW q \in Ptr
  PROVE  /\ CopyParentPtr(h, ps, q) \in Heap
         /\ \A p \in Ptr : CopyParentPtr(h, ps, q)[p].length = h[p].length
BY DEF CopyParentPtr, Heap, Node

\* simple_insert of an entry into a node that has room.
LEMMA SimpleInsertType ==
  ASSUME NEW h \in Heap, NEW n \in Ptr, NEW i \in Nat,
         NEW entry \in [slot : Slot, size : Nat], h[n].length < B
  PROVE  /\ SimpleInsert(h, n, i, entry) \in Heap
         /\ \A p \in Ptr : SimpleInsert(h, n, i, entry)[p].length =
                            h[p].length + (IF p = n THEN 1 ELSE 0)
<1> DEFINE len == h[n].length
           children == RotateIn(h[n].children, i, len, entry.slot)
           sizes == IF IsLeaf(h, n) THEN h[n].sizes
                    ELSE RotateIn(h[n].sizes, i, len, entry.size)
           filled == [h[n] EXCEPT !.children = children, !.sizes = sizes,
                                  !.length = len + 1]
           placed == [h EXCEPT ![n] = filled]
           linked == SetParent(placed, {entry.slot}, n)
<1>1. /\ h[n].children \in [Position -> Slot] /\ h[n].sizes \in [Position -> Nat]
      /\ len \in Nat /\ len + 1 \in 0..B
      /\ entry.slot \in Slot /\ entry.size \in Nat
  BY DEF Heap, Node
<1>2. children \in [Position -> Slot] /\ sizes \in [Position -> Nat]
  BY <1>1, RotateInType
<1> HIDE DEF children, sizes
<1>3. filled \in Node /\ filled.length = len + 1
  BY <1>1, <1>2 DEF Heap, Node
<1> HIDE DEF filled
<1>4. /\ placed \in Heap
      /\ \A p \in Ptr : placed[p].length = h[p].length + (IF p = n THEN 1 ELSE 0)
  <2>1. placed \in Heap
    BY <1>3 DEF Heap
  <2>2. ASSUME NEW p \in Ptr
        PROVE  placed[p].length = h[p].length + (IF p = n THEN 1 ELSE 0)
    <3>1. placed[p] = IF p = n THEN filled ELSE h[p]
      BY DEF Heap
    <3>2. h[p].length \in Nat
      BY DEF Heap, Node
    <3> QED
      BY <3>1, <3>2, <1>3
  <2> QED
    BY <2>1, <2>2
<1> HIDE DEF placed
<1>5. /\ linked \in Heap
      /\ \A p \in Ptr : linked[p].length = placed[p].length
  BY <1>4, SetParentType DEF PtrOrNone
<1> HIDE DEF linked
<1>6. /\ Renumber(linked, n, i, len) \in Heap
      /\ \A p \in Ptr : Renumber(linked, n, i, len)[p].length = linked[p].length
  <2>1. len \in Int
    BY <1>1
  <2> HIDE DEF len
  <2> QED
    BY <2>1, <1>5, RenumberType
<1>7. SimpleInsert(h, n, i, entry) =
        IF IsLeaf(h, n) THEN placed ELSE Renumber(linked, n, i, len)
  BY DEF SimpleInsert, placed, linked, filled, children, sizes
<1> QED
  BY <1>4, <1>5, <1>6, <1>7

\* simple_remove of entry i, and the entry it returns.
LEMMA SimpleRemoveType ==
  ASSUME NEW h \in Heap, NEW n \in Ptr, NEW i \in Nat, i < h[n].length
  PROVE  /\ SimpleRemove(h, n, i) \in Heap
         /\ \A p \in Ptr : SimpleRemove(h, n, i)[p].length =
                            h[p].length - (IF p = n THEN 1 ELSE 0)
         /\ Taken(h, n, i) \in [slot : Slot, size : Nat]
<1> DEFINE len == h[n].length
           child == h[n].children[i]
           children == RotateOut(h[n].children, i, len, None)
           sizes == IF IsLeaf(h, n) THEN h[n].sizes
                    ELSE RotateOut(h[n].sizes, i, len, 0)
           drained == [h[n] EXCEPT !.children = children, !.sizes = sizes,
                                   !.length = len - 1]
           rest == [h EXCEPT ![n] = drained]
           Loose(p) == IF p = child
                       THEN [rest[p] EXCEPT !.parent = None, !.index = 0]
                       ELSE rest[p]
           loose == [p \in Ptr |-> Loose(p)]
<1>1. /\ h[n].children \in [Position -> Slot] /\ h[n].sizes \in [Position -> Nat]
      /\ len \in 1..B /\ len - 1 \in 0..B /\ i \in Position
      /\ None \in Slot /\ 0 \in Nat
  BY DEF Heap, Node, Slot
<1>2. children \in [Position -> Slot] /\ sizes \in [Position -> Nat]
  <2> HIDE DEF len
  <2>1. children \in [Position -> Slot]
    <3> SUFFICES RotateOut(h[n].children, i, len, None) \in [Position -> Slot]
      OBVIOUS
    <3>1. len \in 0..B
      BY <1>1
    <3> QED
      BY <1>1, <3>1, RotateOutType
  <2>2. sizes \in [Position -> Nat]
    <3> SUFFICES RotateOut(h[n].sizes, i, len, 0) \in [Position -> Nat]
      BY <1>1
    <3>1. len \in 0..B
      BY <1>1
    <3> QED
      BY <1>1, <3>1, RotateOutType
  <2> QED
    BY <2>1, <2>2
<1>3. Taken(h, n, i) \in [slot : Slot, size : Nat]
  BY <1>1 DEF Taken, Entry
<1> HIDE DEF children, sizes
<1>4. drained \in Node /\ drained.length = len - 1
  BY <1>1, <1>2 DEF Heap, Node
<1> HIDE DEF drained
<1>5. /\ rest \in Heap
      /\ \A p \in Ptr : rest[p].length = h[p].length - (IF p = n THEN 1 ELSE 0)
  <2>1. rest \in Heap
    BY <1>4 DEF Heap
  <2>2. ASSUME NEW p \in Ptr
        PROVE  rest[p].length = h[p].length - (IF p = n THEN 1 ELSE 0)
    <3>1. rest[p] = IF p = n THEN drained ELSE h[p]
      BY DEF Heap
    <3>2. h[p].length \in Nat
      BY DEF Heap, Node
    <3> QED
      BY <3>1, <3>2, <1>4
  <2> QED
    BY <2>1, <2>2
<1> HIDE DEF rest, child
<1>6. /\ loose \in Heap
      /\ \A p \in Ptr : loose[p].length = rest[p].length
  <2>1. ASSUME NEW p \in Ptr
        PROVE  Loose(p) \in Node /\ Loose(p).length = rest[p].length
    <3>1. rest[p] \in Node
      BY <1>5 DEF Heap
    <3>2. [rest[p] EXCEPT !.parent = None, !.index = 0] \in Node
      BY <3>1 DEF Node, PtrOrNone
    <3>3. [rest[p] EXCEPT !.parent = None, !.index = 0].length = rest[p].length
      BY <3>1 DEF Node
    <3> QED
      BY <3>1, <3>2, <3>3
  <2> HIDE DEF Loose
  <2> QED
    BY <2>1 DEF Heap
<1> HIDE DEF loose
<1>7. /\ Renumber(loose, n, i, len - 2) \in Heap
      /\ \A p \in Ptr :
           Renumber(loose, n, i, len - 2)[p].length = loose[p].length
  <2>1. len - 2 \in Int
    BY <1>1
  <2> DEFINE hi == len - 2
  <2> HIDE DEF hi
  <2>2. hi \in Int
    BY <2>1 DEF hi
  <2>3. /\ Renumber(loose, n, i, hi) \in Heap
        /\ \A p \in Ptr : Renumber(loose, n, i, hi)[p].length = loose[p].length
    BY <2>2, <1>6, RenumberType
  <2> QED
    BY <2>3 DEF hi
<1>8. SimpleRemove(h, n, i) =
        IF IsLeaf(h, n) THEN rest ELSE Renumber(loose, n, i, len - 2)
  BY DEF SimpleRemove, rest, loose, drained, children, sizes, child
<1> QED
  BY <1>3, <1>5, <1>6, <1>7, <1>8

\* split leaves room in both halves.
LEMMA SplitType ==
  ASSUME NEW h \in Heap, NEW n \in Ptr, NEW new \in Ptr,
         NEW left \in 1..(B - 1)
  PROVE  /\ Split(h, n, left, new) \in Heap
         /\ Split(h, n, left, new)[n].length < B
         /\ Split(h, n, left, new)[new].length < B
<1> DEFINE right == B - left
           children == [j \in Position |->
                          IF j < right THEN h[n].children[left + j] ELSE None]
           sizes == [j \in Position |->
                       IF j < right THEN h[n].sizes[left + j] ELSE 0]
           rest == [j \in Position |->
                      IF j < left THEN h[n].children[j] ELSE None]
           after == IF IsLeaf(h, n) THEN new ELSE h[n].next
           moved == [NewNode(h[n].kind) EXCEPT
                       !.length = right, !.children = children,
                       !.sizes = sizes, !.next = h[n].next]
           kept == [h[n] EXCEPT !.length = left, !.children = rest,
                                !.next = after]
           cut == [h EXCEPT ![new] = moved, ![n] = kept]
           linked == SetParent(cut, ChildrenAt(cut, new, 0, right - 1), new)
<1>1. /\ h[n] \in Node
      /\ right \in 1..(B - 1) /\ left \in 0..B /\ right \in 0..B
  BY DEF Heap
<1>2. /\ children \in [Position -> Slot] /\ sizes \in [Position -> Nat]
      /\ rest \in [Position -> Slot]
  BY <1>1 DEF Node, Slot
<1>3. after \in PtrOrNone /\ h[n].next \in PtrOrNone
  BY <1>1 DEF Node, PtrOrNone
<1> HIDE DEF children, sizes, rest, after
<1>4. moved \in Node /\ moved.length = right
  <2>1. h[n].kind \in {"free", "leaf", "internal"}
    BY <1>1 DEF Node
  <2>2. NewNode(h[n].kind) \in Node
    BY <2>1, NewNodeType
  <2> HIDE DEF right
  <2> QED
    BY <2>2, <1>1, <1>2, <1>3 DEF Node
<1>5. kept \in Node /\ kept.length = left
  BY <1>1, <1>2, <1>3 DEF Node
<1> HIDE DEF moved, kept
<1>6. cut \in Heap /\ cut[n].length < B /\ cut[new].length < B
  <2>1. cut \in Heap
    BY <1>4, <1>5 DEF Heap
  <2>2. cut[n] = kept /\ (new = n \/ cut[new] = moved)
    BY DEF Heap
  <2>3. kept.length < B /\ moved.length < B
    BY <1>1, <1>4, <1>5
  <2> QED
    BY <2>1, <2>2, <2>3, Zenon
<1> HIDE DEF cut
<1>7. /\ linked \in Heap
      /\ \A p \in Ptr : linked[p].length = cut[p].length
  <2> DEFINE ps == ChildrenAt(cut, new, 0, right - 1)
  <2> HIDE DEF ps
  <2>1. new \in PtrOrNone
    BY DEF PtrOrNone
  <2>2. /\ SetParent(cut, ps, new) \in Heap
        /\ \A p \in Ptr : SetParent(cut, ps, new)[p].length = cut[p].length
    BY <2>1, <1>6, SetParentType
  <2> QED
    BY <2>2 DEF ps
<1> HIDE DEF linked
<1>8. /\ Renumber(linked, new, 0, right - 1) \in Heap
      /\ \A p \in Ptr :
           Renumber(linked, new, 0, right - 1)[p].length = linked[p].length
  <2> DEFINE hi == right - 1
  <2>1. hi \in Int
    BY <1>1
  <2> HIDE DEF hi
  <2>2. 0 \in Nat
    OBVIOUS
  <2>3. /\ Renumber(linked, new, 0, hi) \in Heap
        /\ \A p \in Ptr : Renumber(linked, new, 0, hi)[p].length = linked[p].length
    BY <2>1, <2>2, <1>7, RenumberType
  <2> QED
    BY <2>3 DEF hi
<1>9. Split(h, n, left, new) =
        IF IsLeaf(h, n) THEN cut ELSE Renumber(linked, new, 0, right - 1)
  BY DEF Split, cut, linked, moved, kept, children, sizes, rest, after
<1> QED
  BY <1>6, <1>7, <1>8, <1>9

\* merge of two nodes no longer than MinLength, which together fit in one.
LEMMA MergeType ==
  ASSUME NEW h \in Heap, NEW dest \in Ptr, NEW src \in Ptr,
         ~ MergePanics(h, dest, src)
  PROVE  Merge(h, dest, src) \in Heap
<1> DEFINE len == h[dest].length
           more == h[src].length
           Joined(a, b) == [j \in Position |->
                              IF j \in len..(len + more - 1) THEN b[j - len] ELSE a[j]]
           children == Joined(h[dest].children, h[src].children)
           sizes == IF IsLeaf(h, dest) THEN h[dest].sizes
                    ELSE Joined(h[dest].sizes, h[src].sizes)
           after == IF IsLeaf(h, dest) THEN h[src].next ELSE h[dest].next
           rest == [j \in Position |->
                      IF j < more THEN None ELSE h[src].children[j]]
           none == IF IsLeaf(h, dest) THEN None ELSE h[src].next
           joined == [h[dest] EXCEPT !.children = children, !.sizes = sizes,
                                     !.length = len + more, !.next = after]
           emptied == [h[src] EXCEPT !.children = rest, !.length = 0,
                                     !.next = none]
           poured == [h EXCEPT ![dest] = joined, ![src] = emptied]
           moved == ChildrenAt(poured, dest, len, len + more - 1)
           first == h[dest].children[0]
           copied == CopyParentPtr(poured, moved, first)
<1>1. /\ h[dest] \in Node /\ h[src] \in Node
      /\ len \in 0..MinLength /\ more \in 0..MinLength
      /\ len + more \in 0..B
  <2>1. h[dest] \in Node /\ h[src] \in Node
    BY DEF Heap
  <2>2. len \in Nat /\ more \in Nat
    BY <2>1 DEF Node
  <2>3. ~ (len > MinLength) /\ ~ (more > MinLength)
    BY DEF MergePanics
  <2>4. MinLength \in Nat /\ 2 * MinLength <= B
    OBVIOUS
  <2> QED
    BY <2>1, <2>2, <2>3, <2>4
<1>2. ~ IsLeaf(h, dest) => first \in Ptr
  BY DEF MergePanics, ChildPtr, IsLeaf, IsInternal
<1>3. /\ children \in [Position -> Slot] /\ sizes \in [Position -> Nat]
      /\ rest \in [Position -> Slot]
  <2>1. /\ h[dest].children \in [Position -> Slot]
        /\ h[src].children \in [Position -> Slot]
        /\ h[dest].sizes \in [Position -> Nat] /\ h[src].sizes \in [Position -> Nat]
    BY <1>1 DEF Node
  <2>2. ASSUME NEW j \in Position, j \in len..(len + more - 1)
        PROVE  j - len \in Position
    BY <1>1, <2>2
  <2> HIDE DEF len, more
  <2>3. ASSUME NEW S, NEW a \in [Position -> S], NEW b \in [Position -> S]
        PROVE  Joined(a, b) \in [Position -> S]
    BY <2>2
  <2> HIDE DEF Joined
  <2>4. children \in [Position -> Slot]
    BY <2>1, <2>3
  <2>5. sizes \in [Position -> Nat]
    BY <2>1, <2>3
  <2>6. rest \in [Position -> Slot]
    BY <2>1 DEF Slot
  <2> QED
    BY <2>4, <2>5, <2>6
<1>4. after \in PtrOrNone /\ none \in PtrOrNone
  BY <1>1 DEF Node, PtrOrNone
<1> HIDE DEF children, sizes, rest, after, none, Joined
<1>5. joined \in Node
  <2> DEFINE total == len + more
  <2>1. total \in 0..B
    BY <1>1
  <2> HIDE DEF total
  <2>2. [h[dest] EXCEPT !.children = children, !.sizes = sizes,
                        !.length = total, !.next = after] \in Node
    BY <2>1, <1>1, <1>3, <1>4 DEF Node
  <2> QED
    BY <2>2 DEF total
<1>6. emptied \in Node
  <2>1. h[src] \in Node /\ 0 \in 0..B
    BY <1>1
  <2> QED
    BY <2>1, <1>3, <1>4 DEF Node
<1> HIDE DEF joined, emptied
<1>7. poured \in Heap
  BY <1>5, <1>6 DEF Heap
<1> HIDE DEF poured, moved, first
<1>8. ~ IsLeaf(h, dest) => copied \in Heap
  BY <1>2, <1>7, CopyParentPtrType
<1> HIDE DEF copied
<1>9. ~ IsLeaf(h, dest) => Renumber(copied, dest, len, len + more - 1) \in Heap
  <2> DEFINE hi == len + more - 1
  <2>1. hi \in Int /\ len \in Nat
    BY <1>1
  <2> HIDE DEF hi, len
  <2>2. ~ IsLeaf(h, dest) => Renumber(copied, dest, len, hi) \in Heap
    BY <2>1, <1>8, RenumberType
  <2> QED
    BY <2>2 DEF hi
<1>10. Merge(h, dest, src) =
         IF IsLeaf(h, dest) THEN poured
         ELSE Renumber(copied, dest, len, len + more - 1)
  BY DEF Merge, poured, copied, moved, first, joined, emptied, children, sizes,
         rest, after, none, Joined
<1> QED
  BY <1>7, <1>9, <1>10

\* Node::size of any node is a natural.
LEMMA NodeSizeType ==
  ASSUME NEW h \in Heap, NEW n \in Ptr
  PROVE  NodeSize(h, n) \in Nat
<1>1. h[n].length \in Nat /\ h[n].sizes \in [Position -> Nat] /\ B \in 0..B
  BY DEF Heap, Node
<1>2. PrefixSums(h[n].sizes)[B] \in Nat
  BY <1>1, PrefixSumsType
<1> QED
  BY <1>1, <1>2 DEF NodeSize

\* Allocating and freeing: a new node has room.
LEMMA AllocType ==
  ASSUME NEW h \in Heap, NEW n \in Ptr, NEW kind \in {"free", "leaf", "internal"}
  PROVE  /\ Alloc(h, n, kind) \in Heap /\ Alloc(h, n, kind)[n].length = 0
         /\ Dealloc(h, n) \in Heap
<1>1. NewNode(kind) \in Node /\ NewNode("free") \in Node
  BY NewNodeType
<1>2. NewNode(kind).length = 0
  BY DEF NewNode
<1> QED
  BY <1>1, <1>2 DEF Alloc, Dealloc, Heap

\* While an address is free the allocator returns one.
LEMMA FreshType ==
  ASSUME NEW h, Free(h) # {}
  PROVE  Fresh(h) \in Ptr
BY DEF Free, Fresh

\* insert_once, where no assertion fails and a full node finds a free address.
LEMMA InsertOnceType ==
  ASSUME NEW h \in Heap, NEW n \in Ptr, NEW i \in Nat,
         NEW entry \in [slot : Slot, size : Nat],
         NEW new, h[n].length = B => new \in Ptr
  PROVE  /\ InsertOnce(h, n, i, entry, new).heap \in Heap
         /\ InsertOnce(h, n, i, entry, new).split \in PtrOrNone
<1> DEFINE larger == B - MinLength
<1>1. h[n].length \in 0..B
  BY DEF Heap, Node
<1>2. larger \in 1..(B - 1) /\ MinLength \in 1..(B - 1)
  OBVIOUS
<1>3. CASE h[n].length < B
  <2>1. SimpleInsert(h, n, i, entry) \in Heap
    BY <1>3, SimpleInsertType
  <2> QED
    BY <2>1, <1>3 DEF InsertOnce, PtrOrNone
<1>4. CASE ~ (h[n].length < B) /\ i >= larger
  <2>0. new \in Ptr /\ i - larger \in Nat
    BY <1>1, <1>2, <1>4
  <2> DEFINE halves == Split(h, n, larger, new)
             at == i - larger
  <2>1. InsertOnce(h, n, i, entry, new) =
          [heap |-> SimpleInsert(halves, new, at, entry), split |-> new]
    BY <1>4 DEF InsertOnce
  <2>2. halves \in Heap /\ halves[new].length < B
    BY <2>0, <1>2, SplitType
  <2> HIDE DEF halves, at
  <2>3. at \in Nat
    BY <2>0 DEF at
  <2>4. SimpleInsert(halves, new, at, entry) \in Heap
    BY <2>0, <2>2, <2>3, SimpleInsertType
  <2> QED
    BY <2>0, <2>1, <2>4 DEF PtrOrNone
<1>5. CASE ~ (h[n].length < B) /\ ~ (i >= larger)
  <2>0. new \in Ptr
    BY <1>1, <1>5
  <2> DEFINE halves == Split(h, n, MinLength, new)
  <2>1. InsertOnce(h, n, i, entry, new) =
          [heap |-> SimpleInsert(halves, n, i, entry), split |-> new]
    BY <1>5 DEF InsertOnce
  <2>2. halves \in Heap /\ halves[n].length < B
    BY <2>0, <1>2, SplitType
  <2> HIDE DEF halves
  <2>3. SimpleInsert(halves, n, i, entry) \in Heap
    BY <2>2, SimpleInsertType
  <2> QED
    BY <2>0, <2>1, <2>3 DEF PtrOrNone
<1> QED
  BY <1>3, <1>4, <1>5

\* siblings_mut returns nodes or None.
LEMMA SiblingType ==
  ASSUME NEW h, NEW n
  PROVE  LeftSibling(h, n) \in PtrOrNone /\ RightSibling(h, n) \in PtrOrNone
BY DEF LeftSibling, RightSibling, ChildPtr, PtrOrNone

\* Moving an entry from a donor that is longer than the node it goes to.
LEMMA MoveEntryType ==
  ASSUME NEW h \in Heap, NEW donor \in Ptr, NEW n \in Ptr,
         NEW i \in Nat, NEW j \in Nat,
         i < h[donor].length, h[n].length < MinLength, CanLend(h, donor)
  PROVE  /\ MoveEntry(h, donor, i, n, j).heap \in Heap
         /\ MoveEntry(h, donor, i, n, j).removal \in Removal
<1> DEFINE entry == Taken(h, donor, i)
           rest == SimpleRemove(h, donor, i)
<1>1. /\ rest \in Heap /\ entry \in [slot : Slot, size : Nat]
      /\ \A p \in Ptr : rest[p].length = h[p].length - (IF p = donor THEN 1 ELSE 0)
  BY SimpleRemoveType
<1>2. rest[n].length < B
  <2>1. h[n].length \in Nat /\ h[donor].length \in Nat
    BY DEF Heap, Node
  <2>2. donor # n
    BY <2>1 DEF CanLend
  <2> HIDE DEF rest
  <2>3. rest[n].length = h[n].length
    BY <2>1, <2>2, <1>1
  <2>4. MinLength < B
    OBVIOUS
  <2> QED
    BY <2>1, <2>3, <2>4
<1> HIDE DEF rest, entry
<1>3. SimpleInsert(rest, n, j, entry) \in Heap
  BY <1>1, <1>2, SimpleInsertType
<1>4. h[donor].index \in Nat /\ h[n].index \in Nat
  BY DEF Heap, Node
<1>5. MoveEntry(h, donor, i, n, j) =
        [heap    |-> SimpleInsert(rest, n, j, entry),
         removal |-> [kind |-> "Moved", src |-> h[donor].index,
                      dest |-> h[n].index, size |-> entry.size]]
  BY DEF MoveEntry, rest, entry
<1> QED
  BY <1>1, <1>3, <1>4, <1>5 DEF Removal, RemovalKind

\* A merge whose assertions hold, with its RemovalKind.
LEMMA MergeIntoType ==
  ASSUME NEW h \in Heap, NEW dest \in Ptr, NEW src \in Ptr,
         ~ MergePanics(h, dest, src)
  PROVE  /\ MergeInto(h, dest, src).heap \in Heap
         /\ MergeInto(h, dest, src).removal \in Removal
<1>1. Merge(h, dest, src) \in Heap
  BY MergeType
<1>2. h[dest].index \in Nat /\ h[src].index \in Nat
  BY DEF Heap, Node
<1> QED
  BY <1>1, <1>2 DEF MergeInto, Removal, RemovalKind

\* RemovalKind::Absorbed carries the index of the node.
LEMMA AbsorbedType ==
  ASSUME NEW h \in Heap, NEW n \in Ptr
  PROVE  Absorbed(h, n) \in Removal
<1>1. h[n].index \in Nat
  BY DEF Heap, Node
<1> QED
  BY <1>1 DEF Absorbed, Removal, RemovalKind

\* remove_once after the removal itself, where no assertion fails.
LEMMA RebalanceType ==
  ASSUME NEW h \in Heap, NEW n \in Ptr, ~ RebalancePanics(h, n)
  PROVE  /\ Rebalance(h, n).heap \in Heap
         /\ Rebalance(h, n).removal \in Removal
<1> DEFINE left == LeftSibling(h, n)
           right == RightSibling(h, n)
           OK(r) == r.heap \in Heap /\ r.removal \in Removal
<1>1. left \in PtrOrNone /\ right \in PtrOrNone
  BY SiblingType
<1>2. h[n].length \in Nat
  BY DEF Heap, Node
<1> HIDE DEF OK
<1>3. CASE h[n].length >= MinLength \/ (left = None /\ right = None)
  <2>1. Rebalance(h, n) = [heap |-> h, removal |-> Absorbed(h, n)]
    BY <1>3 DEF Rebalance
  <2> QED
    BY <2>1, AbsorbedType
<1>4. CASE ~ (h[n].length >= MinLength \/ (left = None /\ right = None))
  <2>0. h[n].length < MinLength
    BY <1>2, <1>4
  <2>1. Rebalance(h, n) =
          IF CanLend(h, left)
          THEN MoveEntry(h, left, h[left].length - 1, n, 0)
          ELSE IF CanLend(h, right)
          THEN MoveEntry(h, right, 0, n, h[n].length)
          ELSE IF right # None
          THEN MergeInto(h, n, right)
          ELSE MergeInto(h, left, n)
    BY <1>4 DEF Rebalance
  <2>2. ~ CanLend(h, left) /\ ~ CanLend(h, right) =>
          /\ right # None => ~ MergePanics(h, n, right)
          /\ right = None => ~ MergePanics(h, left, n)
    BY <2>0, <1>4 DEF RebalancePanics
  <2> HIDE DEF left, right
  <2>3. CASE CanLend(h, left)
    <3>1. left \in Ptr /\ h[left].length > MinLength
      BY <2>3 DEF CanLend
    <3>2. h[left].length \in Nat
      BY <3>1 DEF Heap, Node
    <3> DEFINE i == h[left].length - 1
    <3>3. i \in Nat /\ i < h[left].length /\ 0 \in Nat
      BY <3>1, <3>2
    <3> HIDE DEF i
    <3>4. OK(MoveEntry(h, left, i, n, 0))
      BY <2>0, <2>3, <3>1, <3>3, MoveEntryType DEF OK
    <3> QED
      BY <2>1, <2>3, <3>4 DEF OK, i
  <2>4. CASE ~ CanLend(h, left) /\ CanLend(h, right)
    <3>1. right \in Ptr /\ h[right].length > MinLength
      BY <2>4 DEF CanLend
    <3>2. h[right].length \in Nat
      BY <3>1 DEF Heap, Node
    <3>3. 0 \in Nat /\ 0 < h[right].length
      BY <3>1, <3>2
    <3>4. OK(MoveEntry(h, right, 0, n, h[n].length))
      BY <1>2, <2>0, <2>4, <3>1, <3>3, MoveEntryType DEF OK
    <3> QED
      BY <2>1, <2>4, <3>4 DEF OK
  <2>5. CASE ~ CanLend(h, left) /\ ~ CanLend(h, right) /\ right # None
    <3>1. right \in Ptr
      BY <2>5, <1>1 DEF PtrOrNone
    <3>2. OK(MergeInto(h, n, right))
      BY <2>2, <2>5, <3>1, MergeIntoType DEF OK
    <3> QED
      BY <2>1, <2>5, <3>2 DEF OK
  <2>6. CASE ~ CanLend(h, left) /\ ~ CanLend(h, right) /\ right = None
    <3>1. left \in Ptr
      BY <2>6, <1>1, <1>4 DEF PtrOrNone
    <3>2. OK(MergeInto(h, left, n))
      BY <2>2, <2>6, <3>1, MergeIntoType DEF OK
    <3> QED
      BY <2>1, <2>6, <3>2 DEF OK
  <2> QED
    BY <2>3, <2>4, <2>5, <2>6
<1> QED
  BY <1>3, <1>4

\* remove_once, where no assertion fails.
LEMMA RemoveOnceType ==
  ASSUME NEW h \in Heap, NEW n \in Ptr, NEW i \in Nat, ~ RemovePanics(h, n, i)
  PROVE  /\ RemoveOnce(h, n, i).heap \in Heap
         /\ RemoveOnce(h, n, i).removal \in Removal
<1>1. h[n].length \in Nat
  BY DEF Heap, Node
<1>2. i < h[n].length /\ ~ RebalancePanics(SimpleRemove(h, n, i), n)
  BY <1>1 DEF RemovePanics
<1>3. SimpleRemove(h, n, i) \in Heap
  BY <1>2, SimpleRemoveType
<1> QED
  BY <1>2, <1>3, RebalanceType DEF RemoveOnce

-----------------------------------------------------------------------------
(***************************************************************************)
(* The types of a vector and of the calls on it.                           *)
(***************************************************************************)

USE MaxSizeAssumption

\* What a call relies on from its start on: a vector with items has a root, a
\* call under way is at a node, and an index that was checked against len()
\* stays below it.
CallOK ==
  /\ root = None => size = 0
  /\ pc \in {"seek", "climb"} => node \in Ptr
  /\ request.op \in {"remove", "get", "set"} => request.index < size

\* The inductive invariant behind TypeOK.
TypeInv == TypeOK /\ CallOK

\* The empty vector.
LEMMA InitTypeInv == Init => TypeInv
<1> SUFFICES ASSUME Init PROVE TypeInv
  OBVIOUS
<1>1. NewNode("free") \in Node
  BY NewNodeType
<1>2. heap \in Heap
  BY <1>1 DEF Init, Heap
<1>3. request \in Request
  BY DEF Init, NoRequest, Request
<1>4. removal \in Removal
  BY DEF Init, NoRemoval, Removal, RemovalKind
<1> QED
  BY <1>2, <1>3, <1>4
     DEF Init, TypeInv, TypeOK, CallOK, PC, PtrOrNone, Slot, NoRequest

\* The end of a call, whatever it did to the fields of the vector.
LEMMA LeaveTypeInv ==
  ASSUME NEW where \in PC \ {"seek", "climb"}, Leave(where),
         heap' \in Heap, root' \in PtrOrNone, size' \in Nat,
         root' = None => size' = 0
  PROVE  TypeInv'
<1>1. request' \in Request /\ request'.op = "none"
  BY DEF Leave, NoRequest, Request
<1>2. removal' \in Removal
  BY DEF Leave, NoRemoval, Removal, RemovalKind
<1> QED
  BY <1>1, <1>2 DEF Leave, TypeInv, TypeOK, CallOK, PC, PtrOrNone, Slot

\* A failing check ends the call and leaves the vector as it is.
LEMMA PanicTypeInv == TypeInv /\ Panic => TypeInv'
<1> SUFFICES ASSUME TypeInv, Panic PROVE TypeInv'
  OBVIOUS
<1>1. "panicked" \in PC \ {"seek", "climb"}
  BY DEF PC
<1> QED
  BY <1>1, LeaveTypeInv DEF Panic, fields, TypeInv, TypeOK, CallOK

-----------------------------------------------------------------------------
(***************************************************************************)
(* The starts of calls, leaf_for, get and get_mut.                         *)
(***************************************************************************)

\* The start of a call at a node, with its index checked.
LEMMA EnterTypeInv ==
  ASSUME TypeInv, NEW op \in Op, NEW i \in Nat, NEW x \in Item \cup {None},
         Enter(op, i, x), op \in {"remove", "get", "set"} => i < size',
         heap' \in Heap, root' \in PtrOrNone, size' = size,
         root' = None => size' = 0, node' \in Ptr
  PROVE  TypeInv'
<1>1. request' \in Request /\ request'.op = op /\ request'.index = i
  BY DEF Enter, Request
<1> QED
  BY <1>1 DEF Enter, TypeInv, TypeOK, CallOK, PC, PtrOrNone, Slot

\* insert, remove, get and get_mut up to leaf_for.
LEMMA BeginTypeInv == TypeInv /\ Begin => TypeInv'
<1> SUFFICES ASSUME TypeInv, NEW i \in 0..MaxSize,
                    \/ \E x \in Item : BeginInsert(i, x) \/ BeginSet(i, x)
                    \/ BeginRemove(i)
                    \/ BeginGet(i)
             PROVE  TypeInv'
  BY DEF Begin
<1> USE DEF TypeInv
<1>0. i \in Nat /\ size \in Nat
  BY DEF TypeOK
<1>1. ASSUME NEW x \in Item, BeginInsert(i, x) PROVE TypeInv'
  <2>1. CASE root # None
    <3>1. node' \in Ptr /\ UNCHANGED fields /\ Enter("insert", i, x)
      BY <1>1, <2>1 DEF BeginInsert, TypeOK, PtrOrNone
    <3> QED
      BY <3>1, <1>0, EnterTypeInv DEF fields, TypeOK, CallOK, Op
  <2>2. CASE root = None
    <3>1. /\ Free(heap) # {} /\ Enter("insert", i, x)
          /\ heap' = Alloc(heap, Fresh(heap), "leaf")
          /\ root' = Fresh(heap) /\ node' = Fresh(heap) /\ size' = size
      BY <1>1, <2>2 DEF BeginInsert
    <3>2. Fresh(heap) \in Ptr
      BY <3>1, FreshType
    <3>3. heap' \in Heap
      BY <3>1, <3>2, AllocType DEF TypeOK
    <3>4. root' \in PtrOrNone /\ root' # None /\ node' \in Ptr
      BY <3>1, <3>2 DEF PtrOrNone
    <3> QED
      BY <3>1, <3>3, <3>4, <1>0, EnterTypeInv DEF Op
  <2> QED
    BY <2>1, <2>2
<1>2. ASSUME NEW x \in Item, BeginSet(i, x) PROVE TypeInv'
  <2>1. /\ Enter("set", i, x) /\ UNCHANGED fields /\ i < size /\ node' = root
    BY <1>2 DEF BeginSet
  <2>2. node' \in Ptr
    BY <2>1, <1>0 DEF TypeOK, CallOK, PtrOrNone
  <2> QED
    BY <2>1, <2>2, <1>0, EnterTypeInv DEF fields, TypeOK, CallOK, Op
<1>3. ASSUME BeginRemove(i) \/ BeginGet(i) PROVE TypeInv'
  <2>1. PICK op \in {"remove", "get"} :
          /\ Enter(op, i, None) /\ UNCHANGED fields /\ i < size /\ node' = root
    BY <1>3 DEF BeginRemove, BeginGet
  <2>2. node' \in Ptr
    BY <2>1, <1>0 DEF TypeOK, CallOK, PtrOrNone
  <2> QED
    BY <2>1, <2>2, <1>0, EnterTypeInv DEF fields, TypeOK, CallOK, Op
<1> QED
  BY <1>1, <1>2, <1>3

\* leaf_for: subtracting the prefix of sizes keeps the index above 0.
LEMMA DescendTypeInv == TypeInv /\ Descend => TypeInv'
<1> SUFFICES ASSUME TypeInv, Descend PROVE TypeInv'
  OBVIOUS
<1> DEFINE i == ChildFor(heap, node, index)
<1>1. node \in Ptr /\ heap \in Heap /\ index \in Nat
  BY DEF Descend, TypeInv, TypeOK, CallOK
<1>2. CASE heap[node].length = 0 \/ ChildPtr(heap, node, i) \notin Ptr
  BY <1>2, PanicTypeInv DEF Descend
<1>3. CASE heap[node].length # 0 /\ ChildPtr(heap, node, i) \in Ptr
  <2>1. /\ i \in 0..(heap[node].length - 1)
        /\ PrefixSums(heap[node].sizes)[i] <= index
    BY <1>1, <1>3, ChildForType
  <2>2. PrefixSums(heap[node].sizes)[i] \in Nat
    <3>1. heap[node].sizes \in [Position -> Nat] /\ heap[node].length \in 0..B
      BY <1>1 DEF Heap, Node
    <3>2. i \in 0..B
      BY <2>1, <3>1
    <3> QED
      BY <3>1, <3>2, PrefixSumsType
  <2>3. heap[node].children[i] \in Ptr
    BY <1>3 DEF ChildPtr
  <2>4. /\ node' = heap[node].children[i]
        /\ index' = index - PrefixSums(heap[node].sizes)[i]
        /\ UNCHANGED <<fields, request, pc, held, split, removal>>
    BY <1>3 DEF Descend
  <2>5. index' \in Nat /\ node' \in Ptr
    BY <1>1, <2>1, <2>2, <2>3, <2>4
  <2> QED
    BY <2>4, <2>5 DEF TypeInv, TypeOK, CallOK, fields, PtrOrNone
<1> QED
  BY <1>2, <1>3

\* get and get_mut at the leaf.
LEMMA AccessTypeInv == TypeInv /\ (Get \/ Set \/ Return) => TypeInv'
<1> SUFFICES ASSUME TypeInv, Get \/ Set \/ Return PROVE TypeInv'
  OBVIOUS
<1>0. heap \in Heap /\ index \in Nat /\ held \in Slot
  BY DEF TypeInv, TypeOK
<1>1. ASSUME AtLeaf("get") \/ AtLeaf("set"), index < heap[node].length
      PROVE  /\ node \in Ptr /\ heap[node] \in Node
             /\ index \in Position /\ heap[node].children \in [Position -> Slot]
  <2>1. node \in Ptr
    BY <1>1 DEF AtLeaf, TypeInv, CallOK
  <2>2. heap[node] \in Node
    BY <1>0, <2>1 DEF Heap
  <2>3. heap[node].length \in 0..B /\ heap[node].children \in [Position -> Slot]
    BY <2>2 DEF Node
  <2> QED
    BY <1>0, <1>1, <2>1, <2>2, <2>3
<1>2. CASE Get
  <2>1. CASE index < heap[node].length
    <3>1. held' \in Slot
      BY <1>1, <1>2, <2>1 DEF Get
    <3> QED
      BY <1>2, <2>1, <3>1 DEF Get, TypeInv, TypeOK, CallOK, fields, PC
  <2> QED
    BY <1>2, <2>1, PanicTypeInv DEF Get
<1>3. CASE Set
  <2>1. CASE index < heap[node].length
    <3> DEFINE written == [heap[node].children EXCEPT ![index] = held]
    <3>1. written \in [Position -> Slot]
      BY <1>0, <1>1, <1>3, <2>1 DEF Set
    <3>2. heap' = [heap EXCEPT ![node] =
                     [heap[node] EXCEPT !.children = written]]
      BY <1>3, <2>1 DEF Set
    <3> HIDE DEF written
    <3>3. [heap[node] EXCEPT !.children = written] \in Node
      BY <3>1, <1>1, <1>3, <2>1 DEF Node, Set
    <3>4. heap' \in Heap
      BY <1>0, <3>2, <3>3 DEF Heap
    <3> QED
      BY <1>3, <2>1, <3>4 DEF Set, TypeInv, TypeOK, CallOK, PC, Slot
  <2> QED
    BY <1>3, <2>1, PanicTypeInv DEF Set
<1>4. CASE Return
  <2>1. "idle" \in PC \ {"seek", "climb"}
    BY DEF PC
  <2> QED
    BY <1>4, <2>1, LeaveTypeInv DEF Return, fields, TypeInv, TypeOK, CallOK
<1> QED
  BY <1>2, <1>3, <1>4

-----------------------------------------------------------------------------
(***************************************************************************)
(* insert.                                                                 *)
(***************************************************************************)

\* insert_once at the leaf.
LEMMA InsertAtLeafTypeInv == TypeInv /\ InsertAtLeaf => TypeInv'
<1> SUFFICES ASSUME TypeInv, InsertAtLeaf PROVE TypeInv'
  OBVIOUS
<1> DEFINE entry == Entry(held, 1)
           new == Fresh(heap)
           result == InsertOnce(heap, node, index, entry, new)
<1>1. CASE InsertPanics(heap, node, index)
  BY <1>1, PanicTypeInv DEF InsertAtLeaf
<1>2. CASE ~ InsertPanics(heap, node, index)
  <2>1. /\ node \in Ptr /\ heap \in Heap /\ index \in Nat
        /\ entry \in [slot : Slot, size : Nat]
    BY DEF InsertAtLeaf, AtLeaf, TypeInv, TypeOK, CallOK, Entry
  <2>2. heap[node].length = B => new \in Ptr
    BY FreshType DEF InsertAtLeaf
  <2> HIDE DEF entry, new
  <2>3. result.heap \in Heap /\ result.split \in PtrOrNone
    BY <2>1, <2>2, InsertOnceType
  <2>4. /\ heap' = result.heap /\ split' = result.split /\ held' = None
        /\ pc' = "climb"
        /\ UNCHANGED <<root, size, request, node, index, removal>>
    BY <1>2 DEF InsertAtLeaf, entry, new
  <2> HIDE DEF result
  <2> QED
    BY <2>1, <2>3, <2>4 DEF TypeInv, TypeOK, CallOK, PC, Slot
<1> QED
  BY <1>1, <1>2

\* The sizes of the parent after an insertion, where none goes below 0.
LEMMA CreditType ==
  ASSUME NEW h \in Heap, NEW parent \in Ptr, NEW i \in Nat,
         split \in PtrOrNone, ~ LinkPanics(h, parent, i)
  PROVE  /\ Credit(h, parent, i) \in Heap
         /\ \A p \in Ptr : Credit(h, parent, i)[p].length = h[p].length
<1> DEFINE amount == h[parent].sizes[i] + 1
                     - (IF split = None THEN 0 ELSE NodeSize(h, split))
           sizes == [h[parent].sizes EXCEPT ![i] = amount]
           after == [h[parent] EXCEPT !.sizes = sizes]
<1>1. h[parent] \in Node
  BY DEF Heap
<1>2. /\ i \in Position
      /\ split # None => ~ (h[parent].sizes[i] + 1 < NodeSize(h, split))
  BY DEF LinkPanics
<1>3. h[parent].sizes \in [Position -> Nat]
  BY <1>1 DEF Node
<1>4. amount \in Nat
  <2>1. h[parent].sizes[i] \in Nat
    BY <1>2, <1>3
  <2>2. split # None => NodeSize(h, split) \in Nat
    BY NodeSizeType DEF PtrOrNone
  <2> QED
    BY <2>1, <2>2, <1>2
<1>5. Credit(h, parent, i) = [h EXCEPT ![parent] = after]
  BY DEF Credit
<1> HIDE DEF amount
<1>6. sizes \in [Position -> Nat]
  BY <1>3, <1>4
<1> HIDE DEF sizes
<1>7. after \in Node /\ after.length = h[parent].length
  BY <1>1, <1>6 DEF Node
<1> HIDE DEF after
<1>8. Credit(h, parent, i) \in Heap
  BY <1>5, <1>7 DEF Heap
<1>9. ASSUME NEW p \in Ptr
      PROVE  Credit(h, parent, i)[p].length = h[p].length
  <2>1. Credit(h, parent, i)[p] = IF p = parent THEN after ELSE h[p]
    BY <1>5 DEF Heap
  <2> QED
    BY <2>1, <1>7
<1> QED
  BY <1>8, <1>9

\* The insertion of a new sibling into a parent.
LEMMA LinkSplitType ==
  ASSUME NEW h \in Heap, NEW parent \in Ptr, NEW i \in Nat,
         split \in Ptr, ~ LinkPanics(h, parent, i),
         NEW new, h[parent].length = B => new \in Ptr
  PROVE  /\ LinkSplit(h, parent, i, new).heap \in Heap
         /\ LinkSplit(h, parent, i, new).split \in PtrOrNone
<1> DEFINE credited == Credit(h, parent, i)
           entry == Entry(split, NodeSize(h, split))
           j == i + 1
<1>1. /\ credited \in Heap
      /\ credited[parent].length = h[parent].length
  BY CreditType DEF PtrOrNone
<1>2. entry \in [slot : Slot, size : Nat]
  BY NodeSizeType DEF Entry, Slot
<1>3. j \in Nat
  OBVIOUS
<1>4. LinkSplit(h, parent, i, new) = InsertOnce(credited, parent, j, entry, new)
  BY DEF LinkSplit
<1> HIDE DEF credited, entry, j
<1> QED
  BY <1>1, <1>2, <1>3, <1>4, InsertOnceType

\* handle_insertion with nothing split.
LEMMA ClimbInsertTypeInv == TypeInv /\ ClimbInsert => TypeInv'
<1> SUFFICES ASSUME TypeInv, ClimbInsert PROVE TypeInv'
  OBVIOUS
<1> DEFINE parent == heap[node].parent
           i == heap[node].index
<1>1. CASE LinkPanics(heap, parent, i)
  BY <1>1, PanicTypeInv DEF ClimbInsert
<1>2. CASE ~ LinkPanics(heap, parent, i)
  <2>1. node \in Ptr /\ heap \in Heap /\ split \in PtrOrNone
    BY DEF ClimbInsert, Inserting, TypeInv, TypeOK, CallOK
  <2>2. heap[node] \in Node
    BY <2>1 DEF Heap
  <2>3. parent \in Ptr /\ i \in Nat
    BY <2>2 DEF ClimbInsert, Node, PtrOrNone
  <2>4. /\ heap' = Credit(heap, parent, i) /\ node' = parent
        /\ UNCHANGED <<root, size, request, pc, index, held, split, removal>>
    BY <1>2 DEF ClimbInsert
  <2> HIDE DEF parent, i
  <2>5. heap' \in Heap
    BY <1>2, <2>1, <2>3, <2>4, CreditType
  <2> QED
    BY <2>3, <2>4, <2>5 DEF TypeInv, TypeOK, CallOK, PtrOrNone
<1> QED
  BY <1>1, <1>2

\* handle_insertion with a new sibling.
LEMMA ClimbSplitTypeInv == TypeInv /\ ClimbSplit => TypeInv'
<1> SUFFICES ASSUME TypeInv, ClimbSplit PROVE TypeInv'
  OBVIOUS
<1> DEFINE parent == heap[node].parent
           i == heap[node].index
           new == Fresh(heap)
           result == LinkSplit(heap, parent, i, new)
<1>1. CASE LinkPanics(heap, parent, i)
  BY <1>1, PanicTypeInv DEF ClimbSplit
<1>2. CASE ~ LinkPanics(heap, parent, i)
  <2>1. node \in Ptr /\ heap \in Heap /\ split \in Ptr
    BY DEF ClimbSplit, Inserting, TypeInv, TypeOK, CallOK, PtrOrNone
  <2>2. heap[node] \in Node
    BY <2>1 DEF Heap
  <2>3. parent \in Ptr /\ i \in Nat
    BY <2>2 DEF ClimbSplit, Node, PtrOrNone
  <2>4. heap[parent].length = B => new \in Ptr
    BY FreshType DEF ClimbSplit
  <2>5. /\ heap' = result.heap /\ split' = result.split /\ node' = parent
        /\ UNCHANGED <<root, size, request, pc, index, held, removal>>
    BY <1>2 DEF ClimbSplit
  <2> HIDE DEF parent, i, new
  <2>6. result.heap \in Heap /\ result.split \in PtrOrNone
    BY <1>2, <2>1, <2>3, <2>4, LinkSplitType
  <2> HIDE DEF result
  <2> QED
    BY <2>3, <2>5, <2>6 DEF TypeInv, TypeOK, CallOK, PtrOrNone
<1> QED
  BY <1>1, <1>2

\* handle_insertion at the root: a new root has room for both halves.
LEMMA GrowRootTypeInv == TypeInv /\ GrowRoot => TypeInv'
<1> SUFFICES ASSUME TypeInv, GrowRoot PROVE TypeInv'
  OBVIOUS
<1> DEFINE parent == Fresh(heap)
           i == heap[node].index
           entry == Entry(node, size)
           fresh == Alloc(heap, parent, "internal")
           grown == SimpleInsert(fresh, parent, 0, entry)
           result == LinkSplit(grown, parent, i, None)
<1>1. CASE LinkPanics(grown, parent, i)
  BY <1>1, PanicTypeInv DEF GrowRoot
<1>2. CASE ~ LinkPanics(grown, parent, i)
  <2>1. node \in Ptr /\ heap \in Heap /\ split \in Ptr /\ size \in Nat
    BY DEF GrowRoot, Inserting, TypeInv, TypeOK, CallOK, PtrOrNone
  <2>2. i \in Nat
    BY <2>1 DEF Heap, Node
  <2>3. parent \in Ptr
    BY FreshType DEF GrowRoot
  <2>4. entry \in [slot : Slot, size : Nat]
    BY <2>1 DEF Entry, Slot
  <2>5. /\ heap' = result.heap /\ split' = None /\ node' = parent
        /\ UNCHANGED <<root, size, request, pc, index, held, removal>>
    BY <1>2 DEF GrowRoot
  <2> HIDE DEF parent, i, entry
  <2>6. fresh \in Heap /\ fresh[parent].length = 0
    BY <2>1, <2>3, AllocType
  <2> HIDE DEF fresh
  <2>7. grown \in Heap /\ grown[parent].length = 1
    <3>1. 0 \in Nat /\ fresh[parent].length < B
      BY <2>6
    <3> QED
      BY <2>3, <2>4, <2>6, <3>1, SimpleInsertType
  <2> HIDE DEF grown
  <2>8. result.heap \in Heap
    <3>1. ~ (grown[parent].length = B)
      BY <2>7
    <3> QED
      BY <1>2, <2>1, <2>2, <2>3, <2>7, <3>1, LinkSplitType
  <2> HIDE DEF result
  <2> QED
    BY <2>3, <2>5, <2>8 DEF TypeInv, TypeOK, CallOK, PtrOrNone
<1> QED
  BY <1>1, <1>2

\* The end of insert.
LEMMA FinishInsertTypeInv == TypeInv /\ FinishInsert => TypeInv'
<1> SUFFICES ASSUME TypeInv, FinishInsert PROVE TypeInv'
  OBVIOUS
<1>1. /\ node \in Ptr /\ heap \in Heap /\ size \in Nat
  BY DEF FinishInsert, Inserting, TypeInv, TypeOK, CallOK
<1>2. /\ root' = node /\ size' = size + 1 /\ Leave("idle") /\ heap' = heap
  BY DEF FinishInsert
<1>3. root' \in PtrOrNone /\ root' # None /\ size' \in Nat
  BY <1>1, <1>2 DEF PtrOrNone
<1>4. "idle" \in PC \ {"seek", "climb"}
  BY DEF PC
<1> QED
  BY <1>1, <1>2, <1>3, <1>4, LeaveTypeInv

\* A failing allocation, after the sizes of a full parent changed or not.
LEMMA AllocFailsTypeInv == TypeInv /\ AllocFails => TypeInv'
<1> SUFFICES ASSUME TypeInv, AllocFails PROVE TypeInv'
  OBVIOUS
<1>1. "aborted" \in PC \ {"seek", "climb"}
  BY DEF PC
<1>2. /\ heap \in Heap /\ root \in PtrOrNone /\ size \in Nat /\ split \in PtrOrNone
      /\ root = None => size = 0
  BY DEF TypeInv, TypeOK, CallOK
<1>3. heap' \in Heap
  <2>1. CASE UNCHANGED heap
    BY <2>1, <1>2
  <2>2. CASE ~ UNCHANGED heap
    <3> DEFINE parent == heap[node].parent
               i == heap[node].index
    <3>1. /\ Inserting /\ parent # None
          /\ ~ LinkPanics(heap, parent, i)
          /\ heap' = Credit(heap, parent, i)
      BY <2>2 DEF AllocFails
    <3>2. node \in Ptr
      BY <3>1 DEF Inserting, TypeInv, CallOK
    <3>3. heap[node] \in Node
      BY <1>2, <3>2 DEF Heap
    <3>4. parent \in Ptr /\ i \in Nat
      BY <3>1, <3>3 DEF Node, PtrOrNone
    <3> HIDE DEF parent, i
    <3> QED
      BY <1>2, <3>1, <3>4, CreditType
  <2> QED
    BY <2>1, <2>2
<1>4. Leave("aborted") /\ root' = root /\ size' = size
  BY DEF AllocFails
<1> QED
  BY <1>1, <1>2, <1>3, <1>4, LeaveTypeInv

-----------------------------------------------------------------------------
(***************************************************************************)
(* remove.                                                                 *)
(***************************************************************************)

\* remove_once at the leaf: the item removed is what the call holds.
LEMMA RemoveAtLeafTypeInv == TypeInv /\ RemoveAtLeaf => TypeInv'
<1> SUFFICES ASSUME TypeInv, RemoveAtLeaf PROVE TypeInv'
  OBVIOUS
<1> DEFINE result == RemoveOnce(heap, node, index)
<1>1. CASE RemovePanics(heap, node, index)
  BY <1>1, PanicTypeInv DEF RemoveAtLeaf
<1>2. CASE ~ RemovePanics(heap, node, index)
  <2>1. node \in Ptr /\ heap \in Heap /\ index \in Nat
    BY DEF RemoveAtLeaf, AtLeaf, TypeInv, TypeOK, CallOK
  <2>2. result.heap \in Heap /\ result.removal \in Removal
    BY <1>2, <2>1, RemoveOnceType
  <2>3. heap[node].children[index] \in Slot
    <3>1. heap[node] \in Node
      BY <2>1 DEF Heap
    <3>2. heap[node].length \in 0..B /\ heap[node].children \in [Position -> Slot]
      BY <3>1 DEF Node
    <3>3. index < heap[node].length
      BY <1>2, <2>1, <3>2 DEF RemovePanics
    <3> QED
      BY <2>1, <3>2, <3>3
  <2>4. /\ held' = heap[node].children[index]
        /\ heap' = result.heap /\ removal' = result.removal
        /\ pc' = "climb"
        /\ UNCHANGED <<root, size, request, node, index, split>>
    BY <1>2 DEF RemoveAtLeaf
  <2> HIDE DEF result
  <2> QED
    BY <2>1, <2>2, <2>3, <2>4 DEF TypeInv, TypeOK, CallOK, PC
<1> QED
  BY <1>1, <1>2

\* The sizes of the parent after a removal, where none goes below 0.
LEMMA DebitType ==
  ASSUME NEW h \in Heap, NEW parent \in Ptr, removal \in Removal,
         ~ DebitPanics(h, parent)
  PROVE  Debit(h, parent) \in Heap
<1> DEFINE src == removal.src
           dest == removal.dest
           gone == IF removal.kind = "Merged" THEN h[parent].sizes[src]
                   ELSE removal.size
           less == [h[parent].sizes EXCEPT ![src] = h[parent].sizes[src] - gone]
           more == [less EXCEPT ![dest] = less[dest] + gone - 1]
           taken == [h EXCEPT ![parent] = [h[parent] EXCEPT !.sizes = less]]
           given == [h EXCEPT ![parent] = [h[parent] EXCEPT !.sizes = more]]
<1>1. h[parent] \in Node
  BY DEF Heap
<1>2. h[parent].sizes \in [Position -> Nat] /\ removal.size \in Nat
  BY <1>1 DEF Node, Removal
<1>3. src \in Position /\ dest \in Position
  BY DEF DebitPanics
<1>4. gone \in Nat /\ h[parent].sizes[src] - gone \in Nat
  <2>1. ~ (h[parent].sizes[src] < removal.size) /\ h[parent].sizes[src] \in Nat
    BY <1>2, <1>3 DEF DebitPanics
  <2> QED
    BY <2>1, <1>2
<1> HIDE DEF gone
<1>5. less \in [Position -> Nat]
  BY <1>2, <1>4
<1>6. Debit(h, parent) = [taken EXCEPT ![parent].sizes[dest] = @ + gone - 1]
  BY DEF Debit, gone
<1>7. taken[parent].sizes = less /\ taken \in Heap
  <2> HIDE DEF less
  <2>1. [h[parent] EXCEPT !.sizes = less] \in Node
    BY <1>1, <1>5 DEF Node
  <2>2. [h[parent] EXCEPT !.sizes = less].sizes = less
    BY <1>1 DEF Node
  <2> QED
    BY <2>1, <2>2 DEF Heap
<1> HIDE DEF less
<1>8. /\ Debit(h, parent) = [taken EXCEPT ![parent] =
                              [taken[parent] EXCEPT !.sizes = more]]
  BY <1>6, <1>7
<1> HIDE DEF taken
<1>9. Debit(h, parent)[parent].sizes = more
  <2>1. taken[parent] \in Node
    BY <1>7 DEF Heap
  <2>2. [taken[parent] EXCEPT !.sizes = more].sizes = more
    BY <2>1 DEF Node
  <2> QED
    BY <2>2, <1>7, <1>8 DEF Heap
<1>10. more \in [Position -> Nat]
  <2>1. ~ (more[dest] < 0)
    BY <1>9 DEF DebitPanics
  <2>2. more[dest] = less[dest] + gone - 1 /\ less[dest] \in Nat
    BY <1>3, <1>5
  <2>3. less[dest] + gone - 1 \in Nat
    BY <2>1, <2>2, <1>4
  <2> QED
    BY <2>3, <1>5
<1> HIDE DEF more
<1>11. [taken[parent] EXCEPT !.sizes = more] \in Node
  BY <1>7, <1>10 DEF Heap, Node
<1> QED
  BY <1>7, <1>8, <1>11 DEF Heap

\* handle_removal of Moved and Absorbed.
LEMMA ClimbRemoveTypeInv == TypeInv /\ ClimbRemove => TypeInv'
<1> SUFFICES ASSUME TypeInv, ClimbRemove PROVE TypeInv'
  OBVIOUS
<1> DEFINE parent == heap[node].parent
<1>1. CASE parent = None \/ DebitPanics(heap, parent)
  BY <1>1, PanicTypeInv DEF ClimbRemove
<1>2. CASE ~ (parent = None \/ DebitPanics(heap, parent))
  <2>1. node \in Ptr /\ heap \in Heap /\ removal \in Removal
    BY DEF ClimbRemove, Removing, TypeInv, TypeOK, CallOK
  <2>2. heap[node] \in Node
    BY <2>1 DEF Heap
  <2>3. parent \in Ptr
    BY <1>2, <2>2 DEF Node, PtrOrNone
  <2>4. /\ heap' = Debit(heap, parent) /\ node' = parent
        /\ removal' = Absorbed(heap, parent)
        /\ UNCHANGED <<root, size, request, pc, index, held, split>>
    BY <1>2 DEF ClimbRemove
  <2> HIDE DEF parent
  <2>5. heap' \in Heap /\ removal' \in Removal
    BY <1>2, <2>1, <2>3, <2>4, DebitType, AbsorbedType
  <2> QED
    BY <2>3, <2>4, <2>5 DEF TypeInv, TypeOK, CallOK, PtrOrNone
<1> QED
  BY <1>1, <1>2

\* handle_removal of Merged: the parent loses a child and passes it on.
LEMMA ClimbMergeTypeInv == TypeInv /\ ClimbMerge => TypeInv'
<1> SUFFICES ASSUME TypeInv, ClimbMerge PROVE TypeInv'
  OBVIOUS
<1> DEFINE parent == heap[node].parent
           emptied == ChildPtr(heap, parent, removal.src)
           debited == Debit(heap, parent)
           src == removal.src
           result == RemoveOnce(debited, parent, src)
           Bad == \/ parent = None
                  \/ DebitPanics(heap, parent)
                  \/ emptied \notin Ptr
                  \/ RemovePanics(debited, parent, src)
<1>1. CASE Bad
  BY <1>1, PanicTypeInv DEF ClimbMerge
<1>2. CASE ~ Bad
  <2>1. node \in Ptr /\ heap \in Heap /\ removal \in Removal
    BY DEF ClimbMerge, Removing, TypeInv, TypeOK, CallOK
  <2>2. heap[node] \in Node /\ src \in Nat
    BY <2>1 DEF Heap, Removal
  <2>3. parent \in Ptr /\ emptied \in Ptr
    BY <1>2, <2>2 DEF Node, PtrOrNone
  <2>4. /\ heap' = Dealloc(result.heap, emptied) /\ node' = parent
        /\ removal' = result.removal
        /\ UNCHANGED <<root, size, request, pc, index, held, split>>
    BY <1>2 DEF ClimbMerge
  <2>5. ~ DebitPanics(heap, parent) /\ ~ RemovePanics(debited, parent, src)
    BY <1>2
  <2> HIDE DEF parent, emptied, src, Bad
  <2>6. debited \in Heap
    BY <2>1, <2>3, <2>5, DebitType
  <2> HIDE DEF debited
  <2>7. result.heap \in Heap /\ result.removal \in Removal
    BY <2>2, <2>3, <2>5, <2>6, RemoveOnceType
  <2> HIDE DEF result
  <2>8. heap' \in Heap
    BY <2>3, <2>4, <2>7, AllocType
  <2> QED
    BY <2>3, <2>4, <2>7, <2>8 DEF TypeInv, TypeOK, CallOK, PtrOrNone
<1> QED
  BY <1>1, <1>2

\* The end of remove: len() is not decremented below 0, because the index of
\* the call was checked against it.
LEMMA FinishRemoveTypeInv == TypeInv /\ FinishRemove => TypeInv'
<1> SUFFICES ASSUME TypeInv, FinishRemove PROVE TypeInv'
  OBVIOUS
<1>1. /\ node \in Ptr /\ heap \in Heap
  BY DEF FinishRemove, Removing, TypeInv, TypeOK, CallOK
<1>2. size \in Nat /\ size - 1 \in Nat
  <2>1. size \in Nat /\ request.index \in Nat /\ request.index < size
    BY DEF FinishRemove, Removing, TypeInv, TypeOK, CallOK, Request
  <2> QED
    BY <2>1
<1>3. "idle" \in PC \ {"seek", "climb"}
  BY DEF PC
<1>4. CASE IsInternal(heap, node) /\ heap[node].length = 1
  <2>1. CASE heap[node].children[0] \notin Ptr
    BY <2>1, <1>4, PanicTypeInv DEF FinishRemove
  <2>2. CASE heap[node].children[0] \in Ptr
    <3>1. /\ heap' = Dealloc(SimpleRemove(heap, node, 0), node)
          /\ root' = heap[node].children[0]
          /\ size' = size - 1
          /\ Leave("idle")
      BY <1>4, <2>2 DEF FinishRemove
    <3>2. SimpleRemove(heap, node, 0) \in Heap
      BY <1>1, <1>4, SimpleRemoveType
    <3>3. heap' \in Heap
      BY <1>1, <3>1, <3>2, AllocType
    <3>4. root' \in PtrOrNone /\ root' # None
      BY <2>2, <3>1 DEF PtrOrNone
    <3> QED
      BY <1>2, <1>3, <3>1, <3>3, <3>4, LeaveTypeInv
  <2> QED
    BY <2>1, <2>2
<1>5. CASE ~ (IsInternal(heap, node) /\ heap[node].length = 1)
  <2>1. root' = node /\ size' = size - 1 /\ Leave("idle") /\ heap' = heap
    BY <1>5 DEF FinishRemove
  <2>2. root' \in PtrOrNone /\ root' # None
    BY <1>1, <2>1 DEF PtrOrNone
  <2> QED
    BY <1>1, <1>2, <1>3, <2>1, <2>2, LeaveTypeInv
<1> QED
  BY <1>4, <1>5

-----------------------------------------------------------------------------
\* Every step of the vector keeps the invariant.
LEMMA NextTypeInv == TypeInv /\ [Next]_vars => TypeInv'
<1> SUFFICES ASSUME TypeInv, [Next]_vars PROVE TypeInv'
  OBVIOUS
<1>1. CASE Begin
  BY <1>1, BeginTypeInv
<1>2. CASE Step
  BY <1>2, DescendTypeInv, AccessTypeInv, InsertAtLeafTypeInv,
     ClimbInsertTypeInv, ClimbSplitTypeInv, GrowRootTypeInv,
     FinishInsertTypeInv, RemoveAtLeafTypeInv, ClimbRemoveTypeInv,
     ClimbMergeTypeInv, FinishRemoveTypeInv
     DEF Step
<1>3. CASE AllocFails
  BY <1>3, AllocFailsTypeInv
<1>4. CASE UNCHANGED vars
  BY <1>4 DEF vars, TypeInv, TypeOK, CallOK
<1> QED
  BY <1>1, <1>2, <1>3, <1>4 DEF Next

\* Type correctness of insert, remove, get and get_mut for every branching
\* factor, item type, address space and length: no operation takes a node's
\* length beyond B, writes past its arrays, or takes a size below 0 unless
\* one of the checks the code makes has stopped it first.
THEOREM TypeCorrect == Spec => []TypeOK
<1>1. Init => TypeInv
  BY InitTypeInv
<1>2. TypeInv /\ [Next]_vars => TypeInv'
  BY NextTypeInv
<1>3. TypeInv => TypeOK
  BY DEF TypeInv
<1> QED
  BY <1>1, <1>2, <1>3, PTL DEF Spec

\* A call relies on what it checked when it started: a vector with items has
\* a root, a call under way is at a node, and the index remove, get or
\* get_mut compared with len() stays below it until the call ends.
THEOREM CallsRelyOnChecks == Spec => []CallOK
<1>1. Init => TypeInv
  BY InitTypeInv
<1>2. TypeInv /\ [Next]_vars => TypeInv'
  BY NextTypeInv
<1>3. TypeInv => CallOK
  BY DEF TypeInv
<1> QED
  BY <1>1, <1>2, <1>3, PTL DEF Spec

HIDE MaxSizeAssumption DEF MinLength

-----------------------------------------------------------------------------
(***************************************************************************)
(* What each operation does to each field of each node.                    *)
(***************************************************************************)

\* The fields of a node have their types.
LEMMA FieldTypes ==
  ASSUME NEW h \in Heap, NEW p \in Ptr
  PROVE  /\ h[p].kind \in {"free", "leaf", "internal"}
         /\ h[p].parent \in PtrOrNone /\ h[p].next \in PtrOrNone
         /\ h[p].index \in Nat /\ h[p].length \in 0..B
         /\ h[p].children \in [Position -> Slot]
         /\ h[p].sizes \in [Position -> Nat]
BY DEF Heap, Node

\* Leaf n gets new slots and a new length, and nothing else changes.
LeafPut(h, g, n, ch, len) ==
  /\ \A p \in Ptr : p # n => g[p] = h[p]
  /\ g[n].kind = h[n].kind /\ g[n].parent = h[n].parent
  /\ g[n].index = h[n].index /\ g[n].next = h[n].next
  /\ g[n].sizes = h[n].sizes
  /\ g[n].children = ch /\ g[n].length = len

\* simple_insert into a leaf.
LEMMA SimpleInsertLeaf ==
  ASSUME NEW h \in Heap, NEW n \in Ptr, NEW i, NEW entry, IsLeaf(h, n)
  PROVE  LeafPut(h, SimpleInsert(h, n, i, entry), n,
                 RotateIn(h[n].children, i, h[n].length, entry.slot),
                 h[n].length + 1)
<1> DEFINE g == SimpleInsert(h, n, i, entry)
           ch == RotateIn(h[n].children, i, h[n].length, entry.slot)
<1>1. h[n] \in Node
  BY DEF Heap
<1>2. /\ \A p \in Ptr : p # n => g[p] = h[p]
      /\ g[n] = [h[n] EXCEPT !.children = ch, !.sizes = h[n].sizes,
                             !.length = h[n].length + 1]
  BY DEF SimpleInsert, Heap
<1> HIDE DEF g, ch
<1>3. /\ g[n].kind = h[n].kind /\ g[n].parent = h[n].parent
      /\ g[n].index = h[n].index /\ g[n].next = h[n].next
      /\ g[n].sizes = h[n].sizes
      /\ g[n].children = ch /\ g[n].length = h[n].length + 1
  BY <1>1, <1>2 DEF Node
<1> QED
  BY <1>2, <1>3 DEF LeafPut, g, ch

\* simple_remove from a leaf.
LEMMA SimpleRemoveLeaf ==
  ASSUME NEW h \in Heap, NEW n \in Ptr, NEW i, IsLeaf(h, n)
  PROVE  LeafPut(h, SimpleRemove(h, n, i), n,
                 RotateOut(h[n].children, i, h[n].length, None),
                 h[n].length - 1)
<1> DEFINE g == SimpleRemove(h, n, i)
           ch == RotateOut(h[n].children, i, h[n].length, None)
<1>1. h[n] \in Node
  BY DEF Heap
<1>2. /\ \A p \in Ptr : p # n => g[p] = h[p]
      /\ g[n] = [h[n] EXCEPT !.children = ch, !.sizes = h[n].sizes,
                             !.length = h[n].length - 1]
  BY DEF SimpleRemove, Heap
<1> HIDE DEF g, ch
<1>3. /\ g[n].kind = h[n].kind /\ g[n].parent = h[n].parent
      /\ g[n].index = h[n].index /\ g[n].next = h[n].next
      /\ g[n].sizes = h[n].sizes
      /\ g[n].children = ch /\ g[n].length = h[n].length - 1
  BY <1>1, <1>2 DEF Node
<1> QED
  BY <1>2, <1>3 DEF LeafPut, g, ch

\* ParentPtr::set: nothing but the parent of the given nodes.
LEMMA SetParentFields ==
  ASSUME NEW h \in Heap, NEW ps, NEW parent, NEW p \in Ptr
  PROVE  LET g == SetParent(h, ps, parent)
         IN  /\ g[p].kind = h[p].kind /\ g[p].next = h[p].next
             /\ g[p].length = h[p].length /\ g[p].children = h[p].children
             /\ g[p].sizes = h[p].sizes /\ g[p].index = h[p].index
             /\ g[p].parent = IF p \in ps THEN parent ELSE h[p].parent
BY DEF SetParent, Heap, Node

\* The slots lo..hi of n hold different nodes.
Distinct(h, n, lo, hi) ==
  \A i, j \in lo..hi : h[n].children[i] = h[n].children[j] => i = j

\* From h to g nothing changes but the index of the children lo..hi of n.
Renumbered(h, g, n, lo, hi) ==
  \A p \in Ptr :
    /\ g[p].kind = h[p].kind /\ g[p].next = h[p].next
    /\ g[p].length = h[p].length /\ g[p].children = h[p].children
    /\ g[p].sizes = h[p].sizes /\ g[p].parent = h[p].parent
    /\ \A i \in lo..hi : h[n].children[i] = p => g[p].index = i
    /\ (\A i \in lo..hi : h[n].children[i] # p) => g[p].index = h[p].index

\* Renumbering distinct children: nothing but their index.
LEMMA RenumberFields ==
  ASSUME NEW h \in Heap, NEW n, NEW lo, NEW hi, Distinct(h, n, lo, hi)
  PROVE  Renumbered(h, Renumber(h, n, lo, hi), n, lo, hi)
<1> SUFFICES ASSUME NEW p \in Ptr
             PROVE  LET g == Renumber(h, n, lo, hi)
                    IN  /\ g[p].kind = h[p].kind /\ g[p].next = h[p].next
                        /\ g[p].length = h[p].length /\ g[p].children = h[p].children
                        /\ g[p].sizes = h[p].sizes /\ g[p].parent = h[p].parent
                        /\ \A i \in lo..hi : h[n].children[i] = p => g[p].index = i
                        /\ (\A i \in lo..hi : h[n].children[i] # p) =>
                              g[p].index = h[p].index
  BY Zenon DEF Renumbered
<1> DEFINE j == CHOOSE k \in lo..hi : h[n].children[k] = p
           g == Renumber(h, n, lo, hi)
<1>1. g[p] = IF \E k \in lo..hi : h[n].children[k] = p
             THEN [h[p] EXCEPT !.index = j] ELSE h[p]
  BY DEF Renumber, ChildrenAt
<1>2. h[p] \in Node
  BY DEF Heap
<1>3. ASSUME NEW i \in lo..hi, h[n].children[i] = p PROVE j = i
  BY <1>3 DEF Distinct
<1> HIDE DEF j, g
<1> SUFFICES /\ g[p].kind = h[p].kind /\ g[p].next = h[p].next
             /\ g[p].length = h[p].length /\ g[p].children = h[p].children
             /\ g[p].sizes = h[p].sizes /\ g[p].parent = h[p].parent
             /\ \A i \in lo..hi : h[n].children[i] = p => g[p].index = i
             /\ (\A i \in lo..hi : h[n].children[i] # p) =>
                  g[p].index = h[p].index
  BY DEF g
<1> QED
  BY <1>1, <1>2, <1>3 DEF Node

\* The child c, with its size, becomes child i of the internal node n: the
\* children from there on move up by one.
ChildInserted(h, g, n, i, c, sz) ==
  \A p \in Ptr :
    /\ g[p].kind = h[p].kind
    /\ g[p].next = h[p].next
    /\ g[p].length = IF p = n THEN h[n].length + 1 ELSE h[p].length
    /\ g[p].children = IF p = n
                       THEN RotateIn(h[n].children, i, h[n].length, c)
                       ELSE h[p].children
    /\ g[p].sizes = IF p = n THEN RotateIn(h[n].sizes, i, h[n].length, sz)
                    ELSE h[p].sizes
    /\ g[p].parent = IF p = c THEN n ELSE h[p].parent
    /\ g[p].index = IF p = c THEN i
                    ELSE IF /\ p \in Allocated(h) /\ h[p].parent = n
                            /\ h[p].index >= i
                    THEN h[p].index + 1
                    ELSE h[p].index

\* simple_insert into an internal node does that.
LEMMA SimpleInsertInternal ==
  ASSUME NEW h \in Heap, NEW lev, Tree(h, lev),
         NEW n \in Allocated(h), IsInternal(h, n), h[n].length < B,
         NEW i \in 0..h[n].length,
         NEW entry \in [slot : Slot, size : Nat], entry.slot \in Roots(h)
  PROVE  ChildInserted(h, SimpleInsert(h, n, i, entry), n, i, entry.slot,
                       entry.size)
<1> DEFINE c == entry.slot
           len == h[n].length
           children == RotateIn(h[n].children, i, len, c)
           sizes == RotateIn(h[n].sizes, i, len, entry.size)
           filled == [h[n] EXCEPT !.children = children, !.sizes = sizes,
                                  !.length = len + 1]
           placed == [h EXCEPT ![n] = filled]
           linked == SetParent(placed, {c}, n)
           g == Renumber(linked, n, i, len)
<1>1. n \in Ptr /\ c \in Ptr /\ len \in 0..(B - 1)
  BY FieldTypes DEF Allocated, Roots
<1>2. SimpleInsert(h, n, i, entry) = g
  BY DEF SimpleInsert, IsLeaf, IsInternal
<1>3. /\ filled.kind = h[n].kind /\ filled.next = h[n].next
      /\ filled.length = len + 1 /\ filled.children = children
      /\ filled.sizes = sizes /\ filled.parent = h[n].parent
      /\ filled.index = h[n].index
      /\ filled \in Node
  <2>1. children \in [Position -> Slot] /\ sizes \in [Position -> Nat]
    <3>1. /\ h[n].children \in [Position -> Slot] /\ h[n].sizes \in [Position -> Nat]
          /\ c \in Slot /\ entry.size \in Nat /\ i \in Nat /\ len \in Nat
      BY <1>1, FieldTypes
    <3> HIDE DEF c, len
    <3> QED
      BY <3>1, RotateInType
  <2>2. h[n] \in Node /\ len + 1 \in 0..B
    BY <1>1 DEF Heap
  <2> HIDE DEF children, sizes, len
  <2>3. [h[n] EXCEPT !.children = children, !.sizes = sizes, !.length = len + 1]
          \in Node
    BY <2>1, <2>2 DEF Node
  <2> QED
    BY <2>2, <2>3 DEF Node, filled
<1> HIDE DEF filled
<1>4. placed \in Heap /\ \A p \in Ptr : placed[p] = IF p = n THEN filled ELSE h[p]
  BY <1>1, <1>3 DEF Heap
<1> HIDE DEF placed
<1>5. linked \in Heap
  BY <1>1, <1>4, SetParentType DEF PtrOrNone
<1>6. \A p \in Ptr :
        /\ linked[p].kind = h[p].kind
        /\ linked[p].next = h[p].next
        /\ linked[p].length = IF p = n THEN len + 1 ELSE h[p].length
        /\ linked[p].children = IF p = n THEN children ELSE h[p].children
        /\ linked[p].sizes = IF p = n THEN sizes ELSE h[p].sizes
        /\ linked[p].parent = IF p = c THEN n ELSE h[p].parent
        /\ linked[p].index = h[p].index
  <2> HIDE DEF children, sizes
  <2> QED
    BY <1>3, <1>4, SetParentFields
<1> HIDE DEF linked
<1>7. \A j \in 0..len : children[j] = IF j < i THEN h[n].children[j]
                                      ELSE IF j = i THEN c ELSE h[n].children[j - 1]
  BY <1>1 DEF RotateIn
<1>8. \A j \in 0..(len - 1) : /\ h[n].children[j] \in Allocated(h)
                              /\ h[n].children[j] # c
                              /\ h[h[n].children[j]].index = j
                              /\ h[h[n].children[j]].parent = n
  BY <1>1 DEF Tree, SlotsOK, IsChild, Roots, Allocated
<1> HIDE DEF children, sizes
<1>9. Distinct(linked, n, i, len)
  <2>1. linked[n].children = children
    BY <1>1, <1>6
  <2>2. \A j, k \in i..len : children[j] = children[k] => j = k
    BY <1>1, <1>7, <1>8
  <2> QED
    BY <2>1, <2>2 DEF Distinct
<1>10. \A p \in Allocated(h) : h[p].parent = n =>
         h[p].index < len /\ h[n].children[h[p].index] = p
  BY <1>1 DEF Tree, Hangs, Allocated
<1>11. Renumbered(linked, g, n, i, len)
  BY <1>5, <1>9, RenumberFields, Zenon
<1> HIDE DEF g
<1>12. ASSUME NEW p \in Ptr
       PROVE  g[p].index = IF p = c THEN i
                    ELSE IF /\ p \in Allocated(h) /\ h[p].parent = n
                            /\ h[p].index >= i
                    THEN h[p].index + 1
                    ELSE h[p].index
  <2>1. CASE p = c
    BY <1>1, <1>6, <1>7, <1>11, <2>1 DEF Renumbered
  <2>2. CASE p # c /\ p \in Allocated(h) /\ h[p].parent = n /\ h[p].index >= i
    <3>1. h[p].index + 1 \in i..len /\ children[h[p].index + 1] = p
      <4> DEFINE k == h[p].index
      <4>1. k \in Nat /\ k < len /\ k >= i /\ h[n].children[k] = p
        BY <1>10, <2>2, FieldTypes
      <4> HIDE DEF k, len
      <4>2. k + 1 \in i..len /\ (k + 1) - 1 = k /\ k + 1 \in 0..len
        BY <4>1, <1>1
      <4>3. children[k + 1] = p
        BY <4>1, <4>2, <1>1, <1>7
      <4> QED
        BY <4>2, <4>3 DEF k
    <3> QED
      BY <1>1, <1>6, <1>11, <2>2, <3>1 DEF Renumbered
  <2>3. CASE p # c /\ ~ (p \in Allocated(h) /\ h[p].parent = n /\ h[p].index >= i)
    <3>1. \A j \in i..len : children[j] # p
      BY <1>1, <1>7, <1>8, <2>3
    <3> QED
      BY <1>1, <1>6, <1>11, <2>3, <3>1 DEF Renumbered
  <2> QED
    BY <2>1, <2>2, <2>3
<1>13. ChildInserted(h, g, n, i, c, entry.size)
  BY <1>6, <1>11, <1>12 DEF Renumbered, ChildInserted, children, sizes
<1> QED
  BY <1>2, <1>13

-----------------------------------------------------------------------------
(***************************************************************************)
(* The nodes stay a tree.                                                  *)
(***************************************************************************)

\* A node whose slots and children are as they were.
LEMMA SlotsFrame ==
  ASSUME NEW h, NEW g, NEW lev, NEW lev2, NEW p, SlotsOK(h, lev, p),
         g[p].kind = h[p].kind, g[p].length = h[p].length,
         g[p].children = h[p].children,
         \A j \in Position : IsChild(h, lev, p, j) => IsChild(g, lev2, p, j)
  PROVE  SlotsOK(g, lev2, p)
<1>1. IsLeaf(g, p) => \A j \in Position :
        j < g[p].length => g[p].children[j] \in Item
  BY DEF SlotsOK, IsLeaf
<1>2. ASSUME IsInternal(g, p), NEW j \in Position
      PROVE  IF j < g[p].length THEN IsChild(g, lev2, p, j)
                                ELSE g[p].children[j] = None
  <2>1. IF j < h[p].length THEN IsChild(h, lev, p, j)
                           ELSE h[p].children[j] = None
    BY <1>2 DEF SlotsOK, IsInternal
  <2> QED
    BY <2>1
<1> QED
  BY <1>1, <1>2 DEF SlotsOK

\* A node that hangs where it hung.
LEMMA HangsFrame ==
  ASSUME NEW h, NEW g, NEW p, Hangs(h, p),
         g[p].parent = h[p].parent, g[p].index = h[p].index,
         h[p].parent # None =>
           LET q == h[p].parent
           IN  /\ q \in Allocated(g) /\ g[q].kind = h[q].kind
               /\ g[q].length = h[q].length /\ g[q].children = h[q].children
  PROVE  Hangs(g, p)
BY DEF Hangs, IsInternal

\* A child inserted into an internal node.
LEMMA ChildInsertedTree ==
  ASSUME NEW h \in Heap, NEW lev, Tree(h, lev), NEW g,
         NEW n \in Allocated(h), IsInternal(h, n), h[n].length < B,
         NEW i \in 0..h[n].length, NEW c \in Roots(h), lev[n] = lev[c] + 1,
         NEW sz, ChildInserted(h, g, n, i, c, sz)
  PROVE  /\ Tree(g, lev)
         /\ Allocated(g) = Allocated(h)
         /\ Roots(g) = Roots(h) \ {c}
<1> DEFINE len == h[n].length
<1>1. n \in Ptr /\ c \in Ptr /\ len \in 0..(B - 1) /\ c \in Allocated(h)
  BY FieldTypes DEF Allocated, Roots
<1>2. /\ Allocated(g) = Allocated(h)
      /\ \A p \in Ptr : /\ IsLeaf(g, p) <=> IsLeaf(h, p)
                        /\ IsInternal(g, p) <=> IsInternal(h, p)
  BY DEF ChildInserted, Allocated, IsLeaf, IsInternal
<1>3. \A j \in Position :
        g[n].children[j] = IF j < i \/ j > len THEN h[n].children[j]
                           ELSE IF j = i THEN c ELSE h[n].children[j - 1]
  BY <1>1 DEF ChildInserted, RotateIn
<1>4. /\ g[c].parent = n /\ g[c].index = i /\ g[n].length = len + 1
  BY <1>1 DEF ChildInserted
<1>5. ASSUME NEW j \in Position, j < len
      PROVE  LET d == h[n].children[j]
             IN  /\ d \in Allocated(h) /\ d # c /\ lev[n] = lev[d] + 1
                 /\ g[d].parent = n
                 /\ g[d].index = IF j < i THEN j ELSE j + 1
  <2> DEFINE d == h[n].children[j]
  <2>1. d \in Allocated(h) /\ h[d].parent = n /\ h[d].index = j /\ lev[n] = lev[d] + 1
    BY <1>5 DEF Tree, SlotsOK, IsChild
  <2>2. d # c /\ d \in Ptr
    BY <2>1, <1>1 DEF Roots, Allocated
  <2> HIDE DEF d
  <2>3. g[d].parent = n /\ g[d].index = IF j < i THEN j ELSE j + 1
    BY <2>1, <2>2 DEF ChildInserted
  <2> QED
    BY <2>1, <2>2, <2>3 DEF d
<1>6. ASSUME NEW p \in Allocated(g) PROVE SlotsOK(g, lev, p)
  <2>1. CASE p = n
    <3>1. ASSUME NEW j \in Position
          PROVE IF j < g[n].length THEN IsChild(g, lev, n, j)
                ELSE g[n].children[j] = None
      <4>1. CASE j < i
        <5>1. g[n].children[j] = h[n].children[j] /\ j < len
          BY <4>1, <1>1, <1>3
        <5> QED
          BY <5>1, <4>1, <1>1, <1>2, <1>4, <1>5 DEF IsChild
      <4>2. CASE j = i
        <5>1. g[n].children[j] = c
          BY <4>2, <1>1, <1>3
        <5> QED
          BY <5>1, <4>2, <1>1, <1>2, <1>4 DEF IsChild
      <4>3. CASE j > i /\ j <= len
        <5>1. g[n].children[j] = h[n].children[j - 1] /\ j - 1 \in Position /\ j - 1 < len
          BY <4>3, <1>1, <1>3
        <5> QED
          BY <5>1, <4>3, <1>1, <1>2, <1>4, <1>5 DEF IsChild
      <4>4. CASE j > len
        <5>1. g[n].children[j] = h[n].children[j]
          BY <4>4, <1>1, <1>3
        <5> QED
          BY <5>1, <4>4, <1>1, <1>4 DEF Tree, SlotsOK
      <4> QED
        BY <4>1, <4>2, <4>3, <4>4, <1>1
    <3> QED
      BY <2>1, <3>1, <1>1, <1>2 DEF SlotsOK, IsLeaf, IsInternal
  <2>2. CASE p # n
    <3>1. p \in Allocated(h) /\ p \in Ptr /\ g[p].children = h[p].children /\ g[p].length = h[p].length
          /\ SlotsOK(h, lev, p)
      BY <2>2, <1>2 DEF ChildInserted, Allocated, Tree
    <3>2. ASSUME NEW j \in Position, IsChild(h, lev, p, j) PROVE IsChild(g, lev, p, j)
      BY <1>1, <1>2, <2>2, <3>1, <3>2 DEF IsChild, ChildInserted, Roots, Allocated
    <3> QED
      BY <3>1, <3>2, SlotsFrame DEF ChildInserted
  <2> QED
    BY <2>1, <2>2
<1>7. ASSUME NEW p \in Allocated(g) PROVE Hangs(g, p)
  <2>0. p \in Ptr /\ Hangs(h, p) /\ p \in Allocated(h) /\ h[p].index \in Nat
    BY <1>2, FieldTypes DEF Allocated, Tree
  <2>1. CASE p = c
    BY <1>1, <1>2, <1>3, <1>4, <2>1 DEF Hangs, IsInternal
  <2>2. CASE p # c /\ h[p].parent = n
    <3> DEFINE k == h[p].index
    <3>1. k \in Nat /\ k < len /\ h[n].children[k] = p
      BY <2>0, <2>2, <1>1 DEF Hangs, Allocated
    <3>2. g[p].parent = n /\ g[p].index = IF k >= i THEN k + 1 ELSE k
      BY <2>0, <2>2 DEF ChildInserted
    <3> HIDE DEF k
    <3>3. g[n].children[g[p].index] = p
      BY <3>1, <3>2, <1>1, <1>3
    <3> QED
      BY <3>1, <3>2, <3>3, <1>1, <1>2, <1>4 DEF Hangs, Allocated
  <2>3. CASE p # c /\ h[p].parent # n
    <3>1. g[p].parent = h[p].parent /\ g[p].index = h[p].index
      BY <2>0, <2>3 DEF ChildInserted
    <3> DEFINE q == h[p].parent
    <3>2. q # None => /\ q \in Allocated(g) /\ g[q].kind = h[q].kind
                      /\ g[q].length = h[q].length /\ g[q].children = h[q].children
      BY <2>0, <2>3, <1>2 DEF Hangs, ChildInserted, Allocated
    <3> QED
      BY <2>0, <3>1, <3>2, HangsFrame
  <2> QED
    BY <2>1, <2>2, <2>3
<1>8. Tree(g, lev)
  <2>1. ASSUME NEW p \in Allocated(g) PROVE IsLeaf(g, p) <=> lev[p] = 0
    <3>1. p \in Ptr /\ p \in Allocated(h)
      BY <1>2 DEF Allocated
    <3> QED
      BY <3>1, <1>2 DEF Tree
  <2>2. lev \in [Ptr -> Nat]
    BY DEF Tree
  <2> QED
    BY <2>1, <2>2, <1>6, <1>7 DEF Tree
<1>9. Roots(g) = Roots(h) \ {c}
  BY <1>1, <1>2 DEF Roots, ChildInserted, Allocated
<1> QED
  BY <1>2, <1>8, <1>9

\* From h to g nothing changes but the content of leaves, the leaf list and the
\* sizes of internal nodes.
LeavesEdited(h, g) ==
  \A p \in Ptr :
    /\ g[p].kind = h[p].kind /\ g[p].parent = h[p].parent
    /\ g[p].index = h[p].index
    /\ ~ IsLeaf(h, p) => /\ g[p].length = h[p].length
                         /\ g[p].children = h[p].children
    /\ IsLeaf(h, p) => \A i \in Position :
         i < g[p].length => g[p].children[i] \in Item

\* The first len slots of ch hold items.
HoldsItems(ch, len) == \A j \in Position : j < len => ch[j] \in Item

\* Which is so when one leaf gets other items.
LEMMA LeafPutEdits ==
  ASSUME NEW h \in Heap, NEW lev, Tree(h, lev), NEW g,
         NEW n \in Allocated(h), IsLeaf(h, n), NEW ch, NEW len,
         LeafPut(h, g, n, ch, len), HoldsItems(ch, len)
  PROVE  LeavesEdited(h, g)
<1>1. ASSUME NEW p \in Ptr, IsLeaf(h, p)
      PROVE  \A i \in Position : i < h[p].length => h[p].children[i] \in Item
  BY <1>1 DEF Tree, SlotsOK, Allocated, IsLeaf
<1> QED
  BY <1>1 DEF LeavesEdited, LeafPut, HoldsItems, Allocated

\* The nodes are the same tree.
LEMMA LeavesEditedTree ==
  ASSUME NEW h \in Heap, NEW lev, Tree(h, lev), NEW g, LeavesEdited(h, g)
  PROVE  /\ Tree(g, lev)
         /\ Allocated(g) = Allocated(h)
         /\ Roots(g) = Roots(h)
<1>1. /\ Allocated(g) = Allocated(h)
      /\ \A p \in Ptr : /\ IsLeaf(g, p) <=> IsLeaf(h, p)
                        /\ IsInternal(g, p) <=> IsInternal(h, p)
  BY DEF LeavesEdited, Allocated, IsLeaf, IsInternal
<1>2. ASSUME NEW p \in Allocated(g)
      PROVE  (IsLeaf(g, p) <=> lev[p] = 0) /\ SlotsOK(g, lev, p) /\ Hangs(g, p)
  <2>1. /\ p \in Ptr /\ p \in Allocated(h)
        /\ (IsLeaf(h, p) <=> lev[p] = 0) /\ SlotsOK(h, lev, p) /\ Hangs(h, p)
    BY <1>1 DEF Tree, Allocated
  <2>2. SlotsOK(g, lev, p)
    <3>1. CASE IsLeaf(h, p)
      BY <1>1, <2>1, <3>1 DEF SlotsOK, LeavesEdited, IsLeaf, IsInternal
    <3>2. CASE ~ IsLeaf(h, p)
      <4>1. ASSUME NEW j \in Position, IsChild(h, lev, p, j)
            PROVE  IsChild(g, lev, p, j)
        BY <1>1, <2>1, <3>2, <4>1 DEF IsChild, LeavesEdited, Allocated
      <4> QED
        BY <2>1, <3>2, <4>1, SlotsFrame DEF LeavesEdited
    <3> QED
      BY <3>1, <3>2
  <2>3. Hangs(g, p)
    <3>1. h[p].parent # None => h[p].parent \in Ptr /\ IsInternal(h, h[p].parent)
      BY <2>1 DEF Hangs, Allocated
    <3> QED
      BY <1>1, <2>1, <3>1 DEF Hangs, LeavesEdited, IsInternal, IsLeaf
  <2> QED
    BY <1>1, <2>1, <2>2, <2>3
<1>3. Roots(g) = Roots(h)
  BY <1>1 DEF Roots, LeavesEdited, Allocated
<1> QED
  BY <1>1, <1>2, <1>3 DEF Tree

\* The child i of the internal node n is taken out: the children after it move
\* down by one.
ChildRemoved(h, g, n, i) ==
  LET c   == h[n].children[i]
      len == h[n].length
  IN  \A p \in Ptr :
        /\ g[p].kind = h[p].kind
        /\ g[p].next = h[p].next
        /\ g[p].length = IF p = n THEN len - 1 ELSE h[p].length
        /\ g[p].children = IF p = n
                           THEN RotateOut(h[n].children, i, len, None)
                           ELSE h[p].children
        /\ g[p].sizes = IF p = n THEN RotateOut(h[n].sizes, i, len, 0)
                        ELSE h[p].sizes
        /\ g[p].parent = IF p = c THEN None ELSE h[p].parent
        /\ g[p].index = IF p = c THEN 0
                        ELSE IF /\ p \in Allocated(h) /\ h[p].parent = n
                                /\ h[p].index > i
                        THEN h[p].index - 1
                        ELSE h[p].index

\* What the slots of an internal node hold, and which nodes hang there.
ChildSlotsOK(h, lev, n) ==
  /\ \A j \in 0..(h[n].length - 1) :
       /\ h[n].children[j] \in Allocated(h)
       /\ h[n].children[j] \in Ptr
       /\ h[h[n].children[j]].index = j
       /\ h[h[n].children[j]].parent = n
       /\ lev[n] = lev[h[n].children[j]] + 1
       /\ h[n].children[j] # n
  /\ \A p \in Allocated(h) : h[p].parent = n =>
       /\ h[p].index \in Nat /\ h[p].index < h[n].length
       /\ h[n].children[h[p].index] = p

\* An internal node of a tree has its children in its slots.
LEMMA ChildSlots ==
  ASSUME NEW h \in Heap, NEW lev, Tree(h, lev), NEW n \in Allocated(h),
         IsInternal(h, n)
  PROVE  ChildSlotsOK(h, lev, n)
<1>1. n \in Ptr /\ h[n].length \in 0..B
  BY FieldTypes DEF Allocated
<1>2. ASSUME NEW j \in 0..(h[n].length - 1)
      PROVE  /\ h[n].children[j] \in Allocated(h)
             /\ h[h[n].children[j]].index = j
             /\ h[h[n].children[j]].parent = n
             /\ lev[n] = lev[h[n].children[j]] + 1
  BY <1>1 DEF Tree, SlotsOK, IsChild
<1>3. \A p \in Allocated(h) : h[p].parent = n =>
              /\ h[p].index \in Nat /\ h[p].index < h[n].length
              /\ h[n].children[h[p].index] = p
  <2> SUFFICES ASSUME NEW p \in Allocated(h), h[p].parent = n
               PROVE  /\ h[p].index \in Nat /\ h[p].index < h[n].length
                      /\ h[n].children[h[p].index] = p
    OBVIOUS
  <2>1. h[p].index \in Nat
    BY FieldTypes DEF Allocated
  <2>2. Hangs(h, p) /\ n # None
    BY <1>1 DEF Tree
  <2> QED
    BY <2>1, <2>2 DEF Hangs
<1>4. lev[n] \in Nat
  BY <1>1 DEF Tree
<1> QED
  BY <1>2, <1>3, <1>4 DEF Allocated, ChildSlotsOK

\* A node that loses its parent keeps the rest.
LEMMA DetachedFields ==
  ASSUME NEW r \in Node
  PROVE  LET d == [r EXCEPT !.parent = None, !.index = 0]
         IN  /\ d \in Node
             /\ d.kind = r.kind /\ d.next = r.next /\ d.length = r.length
             /\ d.children = r.children /\ d.sizes = r.sizes
             /\ d.parent = None /\ d.index = 0
BY DEF Node, PtrOrNone

\* simple_remove of an internal node does that.
LEMMA SimpleRemoveInternal ==
  ASSUME NEW h \in Heap, NEW lev, Tree(h, lev),
         NEW n \in Allocated(h), IsInternal(h, n),
         NEW i \in Nat, i < h[n].length
  PROVE  ChildRemoved(h, SimpleRemove(h, n, i), n, i)
<1> DEFINE c == h[n].children[i]
           len == h[n].length
           children == RotateOut(h[n].children, i, len, None)
           sizes == RotateOut(h[n].sizes, i, len, 0)
           drained == [h[n] EXCEPT !.children = children, !.sizes = sizes,
                                   !.length = len - 1]
           rest == [h EXCEPT ![n] = drained]
           loose == [p \in Ptr |-> IF p = c
                              THEN [rest[p] EXCEPT !.parent = None, !.index = 0]
                              ELSE rest[p]]
           g == Renumber(loose, n, i, len - 2)
<1>1. n \in Ptr /\ len \in 1..B /\ i \in 0..(len - 1)
  BY FieldTypes DEF Allocated
<1>2. SimpleRemove(h, n, i) = g
  BY DEF SimpleRemove, IsLeaf, IsInternal
<1>3. /\ \A j \in 0..(len - 1) : /\ h[n].children[j] \in Allocated(h)
                                 /\ h[n].children[j] \in Ptr
                                 /\ h[h[n].children[j]].index = j
                                 /\ h[h[n].children[j]].parent = n
                                 /\ h[n].children[j] # n
      /\ \A p \in Allocated(h) : h[p].parent = n =>
              /\ h[p].index \in Nat /\ h[p].index < len
              /\ h[n].children[h[p].index] = p
  BY ChildSlots DEF ChildSlotsOK
<1>4. c \in Ptr /\ c # n
  BY <1>1, <1>3
<1>5. /\ drained.kind = h[n].kind /\ drained.next = h[n].next
      /\ drained.length = len - 1 /\ drained.children = children
      /\ drained.sizes = sizes /\ drained.parent = h[n].parent
      /\ drained.index = h[n].index
      /\ drained \in Node
  <2>1. children \in [Position -> Slot] /\ sizes \in [Position -> Nat]
    <3>1. /\ h[n].children \in [Position -> Slot] /\ h[n].sizes \in [Position -> Nat]
          /\ i \in Nat /\ len \in 0..B /\ None \in Slot
      BY <1>1, FieldTypes DEF Slot
    <3> HIDE DEF len
    <3> QED
      BY <3>1, RotateOutType
  <2>2. h[n] \in Node /\ len - 1 \in 0..B
    BY <1>1 DEF Heap
  <2> HIDE DEF children, sizes, len
  <2>3. [h[n] EXCEPT !.children = children, !.sizes = sizes, !.length = len - 1]
          \in Node
    BY <2>1, <2>2 DEF Node
  <2> QED
    BY <2>2, <2>3 DEF Node, drained
<1> HIDE DEF drained
<1>6. rest \in Heap /\ \A p \in Ptr : rest[p] = IF p = n THEN drained ELSE h[p]
  BY <1>1, <1>5 DEF Heap
<1> HIDE DEF rest
<1>7. /\ loose \in Heap
      /\ \A p \in Ptr :
        /\ loose[p].kind = h[p].kind
        /\ loose[p].next = h[p].next
        /\ loose[p].length = IF p = n THEN len - 1 ELSE h[p].length
        /\ loose[p].children = IF p = n THEN children ELSE h[p].children
        /\ loose[p].sizes = IF p = n THEN sizes ELSE h[p].sizes
        /\ loose[p].parent = IF p = c THEN None ELSE h[p].parent
        /\ loose[p].index = IF p = c THEN 0 ELSE h[p].index
  <2> HIDE DEF children, sizes, c, len
  <2>1. ASSUME NEW p \in Ptr
        PROVE  /\ loose[p] \in Node
               /\ loose[p].kind = h[p].kind
               /\ loose[p].next = h[p].next
               /\ loose[p].length = IF p = n THEN len - 1 ELSE h[p].length
               /\ loose[p].children = IF p = n THEN children ELSE h[p].children
               /\ loose[p].sizes = IF p = n THEN sizes ELSE h[p].sizes
               /\ loose[p].parent = IF p = c THEN None ELSE h[p].parent
               /\ loose[p].index = IF p = c THEN 0 ELSE h[p].index
    <3>1. rest[p] \in Node
      BY <1>6 DEF Heap
    <3>2. /\ rest[p].kind = h[p].kind
          /\ rest[p].next = h[p].next
          /\ rest[p].length = IF p = n THEN len - 1 ELSE h[p].length
          /\ rest[p].children = IF p = n THEN children ELSE h[p].children
          /\ rest[p].sizes = IF p = n THEN sizes ELSE h[p].sizes
          /\ rest[p].parent = h[p].parent
          /\ rest[p].index = h[p].index
      BY <1>5, <1>6
    <3>3. CASE p = c
      <4>1. loose[p] = [rest[p] EXCEPT !.parent = None, !.index = 0]
        BY <3>3
      <4> HIDE DEF loose
      <4>2. /\ loose[p] \in Node
            /\ loose[p].kind = rest[p].kind
            /\ loose[p].next = rest[p].next
            /\ loose[p].length = rest[p].length
            /\ loose[p].children = rest[p].children
            /\ loose[p].sizes = rest[p].sizes
            /\ loose[p].parent = None
            /\ loose[p].index = 0
        BY <3>1, <4>1, DetachedFields
      <4> QED
        BY <3>2, <3>3, <4>2
    <3>4. CASE p # c
      <4>1. loose[p] = rest[p]
        BY <3>4
      <4> HIDE DEF loose
      <4> QED
        BY <3>1, <3>2, <3>4, <4>1
    <3> QED
      BY <3>3, <3>4
  <2>2. loose \in Heap
    BY <2>1 DEF Heap
  <2> QED
    BY <2>1, <2>2
<1> HIDE DEF loose
<1>8. \A j \in 0..(len - 2) :
         children[j] = IF j < i THEN h[n].children[j] ELSE h[n].children[j + 1]
  BY <1>1 DEF RotateOut
<1> HIDE DEF children, sizes
<1>9. Distinct(loose, n, i, len - 2)
  <2>1. loose[n].children = children
    BY <1>1, <1>7
  <2>2. \A j, k \in i..(len - 2) : children[j] = children[k] => j = k
    BY <1>1, <1>3, <1>8
  <2> QED
    BY <2>1, <2>2 DEF Distinct
<1>10. Renumbered(loose, g, n, i, len - 2)
  BY <1>7, <1>9, RenumberFields, Zenon
<1> HIDE DEF g
<1>11. ASSUME NEW p \in Ptr
       PROVE  g[p].index = IF p = c THEN 0
                    ELSE IF /\ p \in Allocated(h) /\ h[p].parent = n
                            /\ h[p].index > i
                    THEN h[p].index - 1
                    ELSE h[p].index
  <2>0. loose[n].children = children
    BY <1>1, <1>7
  <2>a. \A j \in i..(len - 2) : j + 1 \in 0..(len - 1) /\ children[j] = h[n].children[j + 1]
    BY <1>1, <1>8
  <2>1. CASE p = c
    <3>1. \A j \in i..(len - 2) : children[j] # p
      BY <1>1, <1>3, <2>a, <2>1
    <3> QED
      BY <1>7, <1>10, <2>0, <2>1, <3>1 DEF Renumbered
  <2>2. CASE p # c /\ p \in Allocated(h) /\ h[p].parent = n /\ h[p].index > i
    <3>1. h[p].index - 1 \in i..(len - 2) /\ children[h[p].index - 1] = p
      <4> DEFINE k == h[p].index
      <4>1. k \in Nat /\ k < len /\ k > i /\ h[n].children[k] = p
        BY <1>3, <2>2
      <4> HIDE DEF k, len
      <4>2. k - 1 \in i..(len - 2) /\ (k - 1) + 1 = k
        BY <4>1, <1>1
      <4>3. children[k - 1] = p
        BY <4>1, <4>2, <2>a
      <4> QED
        BY <4>2, <4>3 DEF k
    <3> QED
      BY <1>7, <1>10, <2>0, <2>2, <3>1 DEF Renumbered
  <2>3. CASE p # c /\ ~ (p \in Allocated(h) /\ h[p].parent = n /\ h[p].index > i)
    <3>1. \A j \in i..(len - 2) : children[j] # p
      BY <1>1, <1>3, <2>a, <2>3
    <3> QED
      BY <1>7, <1>10, <2>0, <2>3, <3>1 DEF Renumbered
  <2> QED
    BY <2>1, <2>2, <2>3
<1>12. ChildRemoved(h, g, n, i)
  BY <1>7, <1>10, <1>11 DEF Renumbered, ChildRemoved, children, sizes
<1> QED
  BY <1>2, <1>12

\* A child taken out of an internal node.
LEMMA ChildRemovedTree ==
  ASSUME NEW h \in Heap, NEW lev, Tree(h, lev), NEW g,
         NEW n \in Allocated(h), IsInternal(h, n),
         NEW i \in Nat, i < h[n].length, ChildRemoved(h, g, n, i)
  PROVE  /\ Tree(g, lev)
         /\ Allocated(g) = Allocated(h)
         /\ Roots(g) = Roots(h) \cup {h[n].children[i]}
<1> DEFINE len == h[n].length
           c == h[n].children[i]
<1>1. n \in Ptr /\ len \in 1..B /\ i \in 0..(len - 1)
  BY FieldTypes DEF Allocated
<1>2. /\ Allocated(g) = Allocated(h)
      /\ \A p \in Ptr : /\ IsLeaf(g, p) <=> IsLeaf(h, p)
                        /\ IsInternal(g, p) <=> IsInternal(h, p)
  BY DEF ChildRemoved, Allocated, IsLeaf, IsInternal
<1>3. \A j \in Position :
        g[n].children[j] = IF j < i \/ j >= len THEN h[n].children[j]
                           ELSE IF j = len - 1 THEN None ELSE h[n].children[j + 1]
  <2>1. g[n].children = RotateOut(h[n].children, i, len, None)
    BY <1>1 DEF ChildRemoved
  <2> QED
    BY <2>1, <1>1 DEF RotateOut
<1>4. /\ \A j \in 0..(len - 1) : /\ h[n].children[j] \in Allocated(h)
                                 /\ h[n].children[j] \in Ptr
                                 /\ h[h[n].children[j]].index = j
                                 /\ h[h[n].children[j]].parent = n
                                 /\ lev[n] = lev[h[n].children[j]] + 1
                                 /\ h[n].children[j] # n
      /\ \A p \in Allocated(h) : h[p].parent = n =>
              /\ h[p].index \in Nat /\ h[p].index < len
              /\ h[n].children[h[p].index] = p
  BY ChildSlots DEF ChildSlotsOK
<1>5. /\ c \in Ptr /\ c \in Allocated(h) /\ c # n /\ h[c].parent = n
      /\ h[c].index = i
      /\ g[c].parent = None /\ g[c].index = 0 /\ g[n].length = len - 1
      /\ g[n].parent = h[n].parent
  <2>1. c \in Ptr /\ c \in Allocated(h) /\ c # n /\ h[c].parent = n /\ h[c].index = i
    BY <1>1, <1>4
  <2> QED
    BY <1>1, <2>1 DEF ChildRemoved
<1>6. ASSUME NEW j \in 0..(len - 1), j # i
      PROVE  LET d == h[n].children[j]
             IN  /\ d \in Allocated(h) /\ lev[n] = lev[d] + 1
                 /\ g[d].parent = n
                 /\ g[d].index = IF j < i THEN j ELSE j - 1
  <2> DEFINE d == h[n].children[j]
  <2>1. /\ d \in Allocated(h) /\ h[d].parent = n /\ h[d].index = j
        /\ lev[n] = lev[d] + 1 /\ d \in Ptr
    BY <1>4
  <2>2. d # c
    BY <2>1, <1>5, <1>6
  <2> HIDE DEF d, c
  <2>3. g[d].parent = n /\ g[d].index = IF j < i THEN j ELSE j - 1
    BY <2>1, <2>2, <1>1, <1>6 DEF ChildRemoved, c
  <2> QED
    BY <2>1, <2>3 DEF d
<1>7. ASSUME NEW p \in Allocated(g) PROVE SlotsOK(g, lev, p)
  <2>1. CASE p = n
    <3>1. ASSUME NEW j \in Position
          PROVE IF j < g[n].length THEN IsChild(g, lev, n, j)
                ELSE g[n].children[j] = None
      <4>1. CASE j < i
        <5>1. g[n].children[j] = h[n].children[j] /\ j < len - 1 /\ j \in 0..(len - 1)
          BY <4>1, <1>1, <1>3
        <5> QED
          BY <5>1, <4>1, <1>1, <1>2, <1>5, <1>6 DEF IsChild
      <4>2. CASE j >= i /\ j < len - 1
        <5>1. g[n].children[j] = h[n].children[j + 1] /\ j + 1 \in 0..(len - 1)
          BY <4>2, <1>1, <1>3
        <5> QED
          BY <5>1, <4>2, <1>1, <1>2, <1>5, <1>6 DEF IsChild
      <4>3. CASE j = len - 1
        BY <4>3, <1>1, <1>3, <1>5
      <4>4. CASE j >= len
        <5>1. g[n].children[j] = h[n].children[j]
          BY <4>4, <1>1, <1>3
        <5> QED
          BY <5>1, <4>4, <1>1, <1>5 DEF Tree, SlotsOK
      <4> QED
        BY <4>1, <4>2, <4>3, <4>4, <1>1
    <3> QED
      BY <2>1, <3>1, <1>1, <1>2 DEF SlotsOK, IsLeaf, IsInternal
  <2>2. CASE p # n
    <3>1. /\ p \in Allocated(h) /\ p \in Ptr /\ g[p].children = h[p].children
          /\ g[p].length = h[p].length /\ g[p].kind = h[p].kind
          /\ SlotsOK(h, lev, p)
      BY <2>2, <1>2 DEF ChildRemoved, Allocated, Tree
    <3>2. ASSUME NEW j \in Position, IsChild(h, lev, p, j) PROVE IsChild(g, lev, p, j)
      <4> DEFINE d == h[p].children[j]
      <4>1. /\ d \in Allocated(h) /\ d \in Ptr /\ h[d].parent = p /\ h[d].index = j
            /\ lev[p] = lev[d] + 1
        BY <3>2 DEF IsChild, Allocated
      <4>2. d # c
        BY <4>1, <1>5, <2>2
      <4> HIDE DEF d, c
      <4>3. g[d].parent = p /\ g[d].index = j
        BY <4>1, <4>2, <2>2 DEF ChildRemoved, c
      <4> QED
        BY <4>1, <4>3, <1>2, <3>1 DEF IsChild, d
    <3> QED
      BY <3>1, <3>2, SlotsFrame
  <2> QED
    BY <2>1, <2>2
<1>8. ASSUME NEW p \in Allocated(g) PROVE Hangs(g, p)
  <2>0. p \in Ptr /\ Hangs(h, p) /\ p \in Allocated(h) /\ h[p].index \in Nat
    BY <1>2, FieldTypes DEF Allocated, Tree
  <2>1. CASE p = c
    BY <1>5, <2>1 DEF Hangs
  <2>2. CASE p # c /\ h[p].parent = n
    <3> DEFINE k == h[p].index
    <3>1. k \in Nat /\ k < len /\ h[n].children[k] = p /\ k # i
      BY <2>0, <2>2, <1>4
    <3>2. g[p].parent = n /\ g[p].index = IF k > i THEN k - 1 ELSE k
      BY <2>0, <2>2 DEF ChildRemoved
    <3> HIDE DEF k, c
    <3>3. g[n].children[g[p].index] = p /\ g[p].index < len - 1
      <4>1. CASE k > i
        <5>1. k - 1 \in Position /\ ~ (k - 1 < i) /\ ~ (k - 1 >= len) /\ k - 1 # len - 1
              /\ (k - 1) + 1 = k
          BY <4>1, <3>1, <1>1
        <5>2. g[n].children[k - 1] = h[n].children[k]
          BY <5>1, <1>3
        <5> QED
          BY <3>1, <3>2, <4>1, <5>1, <5>2, <1>1
      <4>2. CASE k < i
        BY <4>2, <3>1, <3>2, <1>1, <1>3
      <4> QED
        BY <4>1, <4>2, <3>1, <1>1
    <3> QED
      BY <3>1, <3>2, <3>3, <1>1, <1>2, <1>5 DEF Hangs, Allocated
  <2>3. CASE p # c /\ h[p].parent # n
    <3>1. g[p].parent = h[p].parent /\ g[p].index = h[p].index
      BY <2>0, <2>3 DEF ChildRemoved
    <3> DEFINE q == h[p].parent
    <3>2. q # None => /\ q \in Allocated(g) /\ g[q].kind = h[q].kind
                      /\ g[q].length = h[q].length /\ g[q].children = h[q].children
      BY <2>0, <2>3, <1>2 DEF Hangs, ChildRemoved, Allocated
    <3> QED
      BY <2>0, <3>1, <3>2, HangsFrame
  <2> QED
    BY <2>1, <2>2, <2>3
<1>9. Tree(g, lev)
  <2>1. ASSUME NEW p \in Allocated(g) PROVE IsLeaf(g, p) <=> lev[p] = 0
    <3>1. p \in Ptr /\ p \in Allocated(h)
      BY <1>2 DEF Allocated
    <3> QED
      BY <3>1, <1>2 DEF Tree
  <2>2. lev \in [Ptr -> Nat]
    BY DEF Tree
  <2> QED
    BY <2>1, <2>2, <1>7, <1>8 DEF Tree
<1>10. Roots(g) = Roots(h) \cup {c}
  BY <1>1, <1>2, <1>5 DEF Roots, ChildRemoved, Allocated
<1> QED
  BY <1>2, <1>9, <1>10

\* The entries of n from `left` on move to `new`, and the children with them.
NodeSplit(h, g, n, left, new) ==
  LET right == B - left
      Moves(p) == p \in Allocated(h) /\ h[p].parent = n /\ h[p].index >= left
  IN  \A p \in Ptr :
        /\ g[p].kind = IF p = new THEN h[n].kind ELSE h[p].kind
        /\ g[p].next = IF p = new THEN h[n].next
                       ELSE IF p = n /\ IsLeaf(h, n) THEN new ELSE h[p].next
        /\ g[p].length = IF p = new THEN right
                         ELSE IF p = n THEN left ELSE h[p].length
        /\ g[p].children =
             IF p = new THEN [j \in Position |->
                     IF j < right THEN h[n].children[left + j] ELSE None]
             ELSE IF p = n THEN [j \in Position |->
                     IF j < left THEN h[n].children[j] ELSE None]
             ELSE h[p].children
        /\ g[p].sizes =
             IF p = new THEN [j \in Position |->
                     IF j < right THEN h[n].sizes[left + j] ELSE 0]
             ELSE h[p].sizes
        /\ g[p].parent = IF p = new THEN None
                         ELSE IF Moves(p) THEN new ELSE h[p].parent
        /\ g[p].index = IF p = new THEN 0
                        ELSE IF Moves(p) THEN h[p].index - left ELSE h[p].index

\* Node r with a new length, new slots, sizes and successor.
Refilled(r, len, ch, sz, nx) ==
  [r EXCEPT !.length = len, !.children = ch, !.sizes = sz, !.next = nx]

RefillTypes(r, len, ch, sz, nx) ==
  /\ r \in Node /\ len \in 0..B /\ nx \in PtrOrNone
  /\ ch \in [Position -> Slot] /\ sz \in [Position -> Nat]

\* d is r but for these fields.
Refills(d, r, len, ch, sz, nx) ==
  /\ d \in Node
  /\ d.kind = r.kind /\ d.parent = r.parent /\ d.index = r.index
  /\ d.length = len /\ d.children = ch /\ d.sizes = sz /\ d.next = nx

\* A node keeps the fields that are not replaced.
LEMMA RefilledFields ==
  ASSUME NEW r, NEW len, NEW ch, NEW sz, NEW nx, RefillTypes(r, len, ch, sz, nx)
  PROVE  Refills(Refilled(r, len, ch, sz, nx), r, len, ch, sz, nx)
BY DEF Node, Refilled, RefillTypes, Refills

\* split does that.
LEMMA SplitRelinks ==
  ASSUME NEW h \in Heap, NEW lev, Tree(h, lev),
         NEW n \in Allocated(h), h[n].length = B,
         NEW left \in 1..(B - 1), NEW new \in Free(h)
  PROVE  NodeSplit(h, Split(h, n, left, new), n, left, new)
<1> DEFINE right == B - left
           children == [j \in Position |->
                     IF j < right THEN h[n].children[left + j] ELSE None]
           sizes == [j \in Position |->
                     IF j < right THEN h[n].sizes[left + j] ELSE 0]
           rest == [j \in Position |->
                     IF j < left THEN h[n].children[j] ELSE None]
           moved == [NewNode(h[n].kind) EXCEPT
                  !.length = right, !.children = children, !.sizes = sizes,
                  !.next = h[n].next]
           kept == [h[n] EXCEPT !.length = left, !.children = rest,
                                !.next = IF IsLeaf(h, n) THEN new ELSE @]
           cut == [h EXCEPT ![new] = moved, ![n] = kept]
           linked == SetParent(cut, ChildrenAt(cut, new, 0, right - 1), new)
           g == Renumber(linked, new, 0, right - 1)
           Moves(p) == p \in Allocated(h) /\ h[p].parent = n /\ h[p].index >= left
<1>1. /\ n \in Ptr /\ new \in Ptr /\ n # new /\ right \in 1..(B - 1)
      /\ h[n] \in Node /\ left + right = B
      /\ h[n].kind \in {"leaf", "internal"}
      /\ h[n].children \in [Position -> Slot] /\ h[n].sizes \in [Position -> Nat]
      /\ new \notin Allocated(h)
  BY FieldTypes DEF Allocated, Free, Heap
<1>2. Split(h, n, left, new) = IF IsLeaf(h, n) THEN cut ELSE g
  BY DEF Split
<1>3. /\ children \in [Position -> Slot] /\ sizes \in [Position -> Nat]
      /\ rest \in [Position -> Slot]
      /\ \A j \in 0..(right - 1) : children[j] = h[n].children[left + j]
  <2>1. \A j \in Position : j < right => left + j \in Position
    BY <1>1
  <2> HIDE DEF right
  <2>2. children \in [Position -> Slot] /\ rest \in [Position -> Slot]
    BY <1>1, <2>1 DEF Slot
  <2>3. sizes \in [Position -> Nat]
    BY <1>1, <2>1
  <2>4. \A j \in 0..(right - 1) : children[j] = h[n].children[left + j]
    BY <1>1
  <2> QED
    BY <2>2, <2>3, <2>4
<1>a. /\ h[n].next \in PtrOrNone /\ new \in PtrOrNone
      /\ right \in 0..B /\ left \in 0..B
  BY <1>1, FieldTypes DEF PtrOrNone
<1> HIDE DEF children, sizes, rest, right
<1>4. /\ moved \in Node
      /\ moved.kind = h[n].kind /\ moved.next = h[n].next
      /\ moved.length = right /\ moved.children = children
      /\ moved.sizes = sizes /\ moved.parent = None /\ moved.index = 0
  <2> DEFINE r == NewNode(h[n].kind)
             nx == h[n].next
  <2>1. r \in Node /\ r.kind = h[n].kind /\ r.parent = None /\ r.index = 0
    BY <1>1, NewNodeType DEF NewNode
  <2>2. moved = Refilled(r, right, children, sizes, nx)
    BY DEF Refilled
  <2> HIDE DEF r, moved, nx
  <2>3. nx \in PtrOrNone
    BY <1>a DEF nx
  <2>4. RefillTypes(r, right, children, sizes, nx)
    BY <1>3, <1>a, <2>1, <2>3 DEF RefillTypes
  <2>5. Refills(moved, r, right, children, sizes, nx)
    BY <2>2, <2>4, RefilledFields
  <2> QED
    BY <2>1, <2>5 DEF Refills, nx
<1>5. /\ kept \in Node
      /\ kept.kind = h[n].kind
      /\ kept.next = IF IsLeaf(h, n) THEN new ELSE h[n].next
      /\ kept.length = left /\ kept.children = rest
      /\ kept.sizes = h[n].sizes /\ kept.parent = h[n].parent
      /\ kept.index = h[n].index
  <2> DEFINE nx == IF IsLeaf(h, n) THEN new ELSE h[n].next
  <2>1. kept = Refilled(h[n], left, rest, h[n].sizes, nx)
    <3> DEFINE d == [h[n] EXCEPT !.length = left, !.children = rest, !.next = nx]
    <3>1. d = [d EXCEPT !.sizes = h[n].sizes]
      BY <1>1 DEF Node
    <3> QED
      BY <1>1, <3>1 DEF Refilled, Node
  <2>2. nx \in PtrOrNone
    BY <1>a
  <2> HIDE DEF kept, nx
  <2>3. RefillTypes(h[n], left, rest, h[n].sizes, nx)
    BY <1>1, <1>3, <1>a, <2>2 DEF RefillTypes
  <2>4. Refills(kept, h[n], left, rest, h[n].sizes, nx)
    BY <2>1, <2>3, RefilledFields
  <2> QED
    BY <2>4 DEF Refills, nx
<1> HIDE DEF moved, kept
<1>6. /\ cut \in Heap
      /\ \A p \in Ptr : cut[p] = IF p = n THEN kept ELSE
                                 IF p = new THEN moved ELSE h[p]
  BY <1>1, <1>4, <1>5 DEF Heap
<1> HIDE DEF cut
<1>7. \A p \in Ptr :
        /\ cut[p].kind = IF p = new THEN h[n].kind ELSE h[p].kind
        /\ cut[p].next = IF p = new THEN h[n].next
                         ELSE IF p = n /\ IsLeaf(h, n) THEN new ELSE h[p].next
        /\ cut[p].length = IF p = new THEN right
                           ELSE IF p = n THEN left ELSE h[p].length
        /\ cut[p].children = IF p = new THEN children
                             ELSE IF p = n THEN rest ELSE h[p].children
        /\ cut[p].sizes = IF p = new THEN sizes ELSE h[p].sizes
        /\ cut[p].parent = IF p = new THEN None ELSE h[p].parent
        /\ cut[p].index = IF p = new THEN 0 ELSE h[p].index
  BY <1>1, <1>4, <1>5, <1>6
<1>8. CASE IsLeaf(h, n)
  <2>1. \A p \in Ptr : ~ Moves(p)
    <3> SUFFICES ASSUME NEW p \in Ptr, Moves(p) PROVE FALSE
      OBVIOUS
    <3>1. Hangs(h, p) /\ n # None
      BY <1>1 DEF Tree
    <3> QED
      BY <1>8, <3>1 DEF Hangs, IsLeaf, IsInternal
  <2>2. NodeSplit(h, cut, n, left, new)
    BY <1>7, <2>1 DEF NodeSplit, children, rest, sizes, right
  <2> QED
    BY <1>2, <1>8, <2>2
<1>9. CASE ~ IsLeaf(h, n)
  <2>0. IsInternal(h, n)
    BY <1>1, <1>9 DEF IsLeaf, IsInternal
  <2>1. /\ \A j \in 0..(B - 1) : /\ h[n].children[j] \in Allocated(h)
                                 /\ h[n].children[j] \in Ptr
                                 /\ h[h[n].children[j]].index = j
                                 /\ h[h[n].children[j]].parent = n
        /\ \A p \in Allocated(h) : h[p].parent = n =>
              /\ h[p].index \in Nat /\ h[p].index < B
              /\ h[n].children[h[p].index] = p
    BY <2>0, ChildSlots DEF ChildSlotsOK
  <2> DEFINE ps == ChildrenAt(cut, new, 0, right - 1)
  <2>2. ASSUME NEW j \in 0..(right - 1)
        PROVE  /\ children[j] = h[n].children[left + j]
               /\ left + j \in 0..(B - 1) /\ left + j >= left
               /\ children[j] \in Allocated(h) /\ children[j] \in Ptr
               /\ h[children[j]].index = left + j
               /\ h[children[j]].parent = n
               /\ Moves(children[j])
    <3>1. children[j] = h[n].children[left + j]
      BY <1>3
    <3>2. left + j \in 0..(B - 1) /\ left + j >= left
      <4>1. right \in Nat /\ left \in Nat /\ left + right = B
        BY <1>1
      <4> QED
        BY <4>1
    <3> QED
      BY <3>1, <3>2, <2>1
  <2>3. \A p \in Ptr : p \in ps <=> Moves(p)
    <3>1. ps = {children[j] : j \in 0..(right - 1)}
      BY <1>1, <1>7 DEF ChildrenAt
    <3>2. ASSUME NEW p \in ps PROVE Moves(p)
      <4>1. PICK j \in 0..(right - 1) : p = children[j]
        BY <3>1
      <4> QED
        BY <4>1, <2>2
    <3>3. ASSUME NEW p \in Ptr, Moves(p) PROVE p \in ps
      <4> DEFINE k == h[p].index
      <4>1. k \in Nat /\ k < B /\ k >= left /\ h[n].children[k] = p
        BY <3>3, <2>1
      <4> HIDE DEF k
      <4>2. k - left \in 0..(right - 1) /\ left + (k - left) = k
        BY <4>1, <1>1
      <4>3. children[k - left] = p
        BY <4>1, <4>2, <2>2
      <4> QED
        BY <3>1, <4>2, <4>3
    <3> QED
      BY <3>2, <3>3
  <2>4. linked \in Heap
    BY <1>1, <1>6, SetParentType DEF PtrOrNone
  <2> HIDE DEF ps
  <2>5. \A p \in Ptr :
          /\ linked[p].kind = cut[p].kind /\ linked[p].next = cut[p].next
          /\ linked[p].length = cut[p].length
          /\ linked[p].children = cut[p].children
          /\ linked[p].sizes = cut[p].sizes /\ linked[p].index = cut[p].index
          /\ linked[p].parent = IF Moves(p) THEN new ELSE cut[p].parent
    BY <1>6, <2>3, SetParentFields DEF ps
  <2> HIDE DEF linked
  <2>6. linked[new].children = children
    BY <1>1, <1>7, <2>5
  <2>7. Distinct(linked, new, 0, right - 1)
    <3>1. \A j, k \in 0..(right - 1) : children[j] = children[k] => j = k
      <4> SUFFICES ASSUME NEW j \in 0..(right - 1), NEW k \in 0..(right - 1),
                          children[j] = children[k]
                   PROVE  j = k
        OBVIOUS
      <4>1. left + j = left + k
        BY <2>2
      <4> QED
        BY <4>1, <1>1
    <3> QED
      BY <2>6, <3>1 DEF Distinct
  <2>8. Renumbered(linked, g, new, 0, right - 1)
    BY <2>4, <2>7, RenumberFields, Zenon
  <2> HIDE DEF g
  <2>9. ASSUME NEW p \in Ptr
        PROVE  g[p].index = IF p = new THEN 0
                            ELSE IF Moves(p) THEN h[p].index - left ELSE h[p].index
    <3>1. CASE Moves(p)
      <4> DEFINE k == h[p].index
      <4>1. k \in Nat /\ k < B /\ k >= left /\ h[n].children[k] = p /\ p # new
        BY <3>1, <2>1, <1>1
      <4> HIDE DEF k
      <4>2. k - left \in 0..(right - 1) /\ left + (k - left) = k
        BY <4>1, <1>1
      <4>3. children[k - left] = p
        BY <4>1, <4>2, <2>2
      <4>4. g[p].index = k - left
        BY <4>2, <4>3, <2>6, <2>8 DEF Renumbered
      <4> QED
        BY <4>1, <4>4, <3>1 DEF k
    <3>2. CASE ~ Moves(p)
      <4>1. \A j \in 0..(right - 1) : children[j] # p
        BY <2>2, <3>2
      <4>2. g[p].index = linked[p].index
        BY <4>1, <2>6, <2>8 DEF Renumbered
      <4> QED
        BY <4>2, <2>5, <1>7, <3>2
    <3> QED
      BY <3>1, <3>2
  <2>10. \A p \in Ptr :
           /\ g[p].kind = cut[p].kind /\ g[p].next = cut[p].next
           /\ g[p].length = cut[p].length /\ g[p].children = cut[p].children
           /\ g[p].sizes = cut[p].sizes
           /\ g[p].parent = IF Moves(p) THEN new ELSE cut[p].parent
    BY <2>5, <2>8 DEF Renumbered
  <2>11. \A p \in Ptr :
           /\ g[p].kind = IF p = new THEN h[n].kind ELSE h[p].kind
           /\ g[p].next = IF p = new THEN h[n].next
                         ELSE IF p = n /\ IsLeaf(h, n) THEN new ELSE h[p].next
           /\ g[p].length = IF p = new THEN right
                           ELSE IF p = n THEN left ELSE h[p].length
           /\ g[p].children = IF p = new THEN children
                             ELSE IF p = n THEN rest ELSE h[p].children
           /\ g[p].sizes = IF p = new THEN sizes ELSE h[p].sizes
           /\ g[p].parent = IF p = new THEN None
                           ELSE IF Moves(p) THEN new ELSE h[p].parent
    <3>1. \A p \in Ptr : Moves(p) => p # new
      BY <1>1
    <3> HIDE DEF Moves
    <3> QED
      BY <1>7, <2>10, <3>1
  <2>12. NodeSplit(h, g, n, left, new)
    BY <2>9, <2>11 DEF NodeSplit, children, rest, sizes, right
  <2> QED
    BY <1>2, <1>9, <2>12
<1> QED
  BY <1>8, <1>9

\* Node `new` gets the level of n.
Beside(lev, n, new) == [lev EXCEPT ![new] = lev[n]]

\* A node split in two: the new half is a tree of its own.
LEMMA NodeSplitTree ==
  ASSUME NEW h \in Heap, NEW lev, Tree(h, lev), NEW g,
         NEW n \in Allocated(h), h[n].length = B,
         NEW left \in 1..(B - 1), NEW new \in Free(h),
         NodeSplit(h, g, n, left, new)
  PROVE  /\ Tree(g, Beside(lev, n, new))
         /\ Allocated(g) = Allocated(h) \cup {new}
         /\ Roots(g) = Roots(h) \cup {new}
<1> DEFINE right == B - left
           lev2 == Beside(lev, n, new)
           Moves(p) == p \in Allocated(h) /\ h[p].parent = n /\ h[p].index >= left
<1>1. /\ n \in Ptr /\ new \in Ptr /\ n # new /\ right \in 1..(B - 1)
      /\ left + right = B
      /\ h[n].kind \in {"leaf", "internal"}
      /\ new \notin Allocated(h) /\ new # None
  BY FieldTypes DEF Allocated, Free
<1>2. /\ lev2 \in [Ptr -> Nat]
      /\ \A p \in Ptr : lev2[p] = IF p = new THEN lev[n] ELSE lev[p]
  BY <1>1 DEF Tree, Beside
<1> HIDE DEF lev2
<1>3. /\ Allocated(g) = Allocated(h) \cup {new}
      /\ \A p \in Ptr :
           /\ IsLeaf(g, p) <=> IF p = new THEN IsLeaf(h, n) ELSE IsLeaf(h, p)
           /\ IsInternal(g, p) <=> IF p = new THEN IsInternal(h, n)
                                   ELSE IsInternal(h, p)
  <2>1. \A p \in Ptr : g[p].kind = IF p = new THEN h[n].kind ELSE h[p].kind
    BY DEF NodeSplit
  <2> QED
    BY <1>1, <2>1 DEF Allocated, IsLeaf, IsInternal
<1>4. /\ g[n].length = left /\ g[new].length = right
      /\ \A j \in Position :
           /\ g[new].children[j] = IF j < right THEN h[n].children[left + j] ELSE None
           /\ g[n].children[j] = IF j < left THEN h[n].children[j] ELSE None
      /\ g[new].parent = None /\ g[new].index = 0
  <2>1. /\ g[n].length = left /\ g[new].length = right
        /\ g[new].children = [j \in Position |->
                     IF j < right THEN h[n].children[left + j] ELSE None]
        /\ g[n].children = [j \in Position |->
                     IF j < left THEN h[n].children[j] ELSE None]
        /\ g[new].parent = None /\ g[new].index = 0
    BY <1>1 DEF NodeSplit
  <2> QED
    BY <2>1
<1>5. ASSUME NEW p \in Ptr, p # n, p # new
      PROVE  /\ g[p].length = h[p].length /\ g[p].children = h[p].children
             /\ g[p].kind = h[p].kind
  BY <1>5 DEF NodeSplit
<1>6. ASSUME NEW p \in Ptr, p # new
      PROVE  /\ g[p].parent = IF Moves(p) THEN new ELSE h[p].parent
             /\ g[p].index = IF Moves(p) THEN h[p].index - left ELSE h[p].index
  BY <1>6, Zenon DEF NodeSplit
<1>7. ASSUME NEW p \in Allocated(h), Moves(p)
      PROVE  /\ IsInternal(h, n) /\ h[p].index \in Nat /\ h[p].index < B
             /\ h[n].children[h[p].index] = p /\ h[p].index - left \in 0..(right - 1)
  <2>1. Hangs(h, p) /\ h[p].index \in Nat
    BY FieldTypes DEF Tree, Allocated
  <2>2. IsInternal(h, n) /\ h[p].index < B /\ h[n].children[h[p].index] = p
    BY <1>1, <1>7, <2>1 DEF Hangs
  <2> QED
    BY <1>1, <1>7, <2>1, <2>2
<1>8. ASSUME NEW p \in Allocated(g) PROVE IsLeaf(g, p) <=> lev2[p] = 0
  <2>1. p \in Ptr
    BY DEF Allocated
  <2>2. CASE p = new
    BY <2>1, <2>2, <1>2, <1>3 DEF Tree
  <2>3. CASE p # new
    BY <2>1, <2>3, <1>2, <1>3 DEF Tree
  <2> QED
    BY <2>2, <2>3
<1>9. ASSUME IsInternal(h, n), NEW j \in 0..(B - 1)
      PROVE  LET d == h[n].children[j]
             IN  /\ d \in Allocated(g) /\ lev2[n] = lev2[d] + 1
                 /\ lev2[new] = lev2[d] + 1
                 /\ g[d].parent = IF j < left THEN n ELSE new
                 /\ g[d].index = IF j < left THEN j ELSE j - left
  <2> DEFINE d == h[n].children[j]
  <2>1. /\ d \in Allocated(h) /\ d \in Ptr /\ h[d].index = j /\ h[d].parent = n
        /\ lev[n] = lev[d] + 1
    BY <1>9, ChildSlots DEF ChildSlotsOK
  <2>2. d # new
    BY <1>1, <2>1
  <2> HIDE DEF d
  <2>3. Moves(d) <=> ~ (j < left)
    BY <2>1
  <2> HIDE DEF Moves
  <2>4. g[d].parent = IF j < left THEN n ELSE new
    BY <1>6, <2>1, <2>2, <2>3
  <2>5. g[d].index = IF j < left THEN j ELSE j - left
    BY <1>6, <2>1, <2>2, <2>3
  <2>6. d \in Allocated(g) /\ lev2[n] = lev2[d] + 1 /\ lev2[new] = lev2[d] + 1
    BY <1>1, <1>2, <1>3, <2>1, <2>2
  <2> QED
    BY <2>4, <2>5, <2>6 DEF d
<1>10. SlotsOK(g, lev2, n)
  <2>1. CASE IsLeaf(h, n)
    <3>1. \A j \in Position : j < B => h[n].children[j] \in Item
      BY <2>1 DEF Tree, SlotsOK
    <3>2. \A j \in Position : j < left => g[n].children[j] \in Item
      BY <1>4, <3>1
    <3> QED
      BY <1>1, <1>3, <1>4, <2>1, <3>2 DEF SlotsOK, IsLeaf, IsInternal
  <2>2. CASE ~ IsLeaf(h, n)
    <3>1. IsInternal(h, n) /\ ~ IsLeaf(g, n)
      BY <1>1, <1>3, <2>2 DEF IsLeaf, IsInternal
    <3>2. ASSUME NEW j \in Position
          PROVE  IF j < left THEN IsChild(g, lev2, n, j) ELSE g[n].children[j] = None
      <4>1. CASE j < left
        <5>1. g[n].children[j] = h[n].children[j]
          BY <1>4, <4>1
        <5> QED
          BY <5>1, <4>1, <3>1, <1>9 DEF IsChild
      <4>2. CASE ~ (j < left)
        BY <1>4, <4>2
      <4> QED
        BY <4>1, <4>2
    <3> QED
      BY <1>4, <3>1, <3>2 DEF SlotsOK
  <2> QED
    BY <2>1, <2>2
<1>11. SlotsOK(g, lev2, new)
  <2>1. CASE IsLeaf(h, n)
    <3>1. \A j \in Position : j < B => h[n].children[j] \in Item
      BY <2>1 DEF Tree, SlotsOK
    <3>2. ASSUME NEW j \in Position, j < right PROVE g[new].children[j] \in Item
      <4>1. left + j \in Position /\ left + j < B
        BY <1>1, <3>2
      <4> QED
        BY <1>4, <3>1, <3>2, <4>1
    <3> QED
      BY <1>1, <1>3, <1>4, <2>1, <3>2 DEF SlotsOK, IsLeaf, IsInternal
  <2>2. CASE ~ IsLeaf(h, n)
    <3>1. IsInternal(h, n) /\ ~ IsLeaf(g, new)
      BY <1>1, <1>3, <2>2 DEF IsLeaf, IsInternal
    <3>2. ASSUME NEW j \in Position
          PROVE  IF j < right THEN IsChild(g, lev2, new, j)
                 ELSE g[new].children[j] = None
      <4>1. CASE j < right
        <5>1. /\ g[new].children[j] = h[n].children[left + j]
              /\ left + j \in 0..(B - 1) /\ ~ (left + j < left)
              /\ (left + j) - left = j
          BY <1>1, <1>4, <4>1
        <5> QED
          BY <5>1, <4>1, <3>1, <1>9 DEF IsChild
      <4>2. CASE ~ (j < right)
        BY <1>4, <4>2
      <4> QED
        BY <4>1, <4>2
    <3> QED
      BY <1>4, <3>1, <3>2 DEF SlotsOK
  <2> QED
    BY <2>1, <2>2
<1>12. ASSUME NEW p \in Allocated(g), p # n, p # new PROVE SlotsOK(g, lev2, p)
  <2>1. p \in Ptr /\ p \in Allocated(h) /\ SlotsOK(h, lev, p)
    BY <1>3, <1>12 DEF Allocated, Tree
  <2>2. ASSUME NEW j \in Position, IsChild(h, lev, p, j) PROVE IsChild(g, lev2, p, j)
    <3> DEFINE d == h[p].children[j]
    <3>1. /\ d \in Allocated(h) /\ d \in Ptr /\ h[d].parent = p /\ h[d].index = j
          /\ lev[p] = lev[d] + 1
      BY <2>2 DEF IsChild, Allocated
    <3> HIDE DEF d
    <3>2. d # new /\ ~ Moves(d)
      BY <1>1, <1>12, <3>1
    <3>3. g[d].parent = p /\ g[d].index = j
      BY <1>6, <3>1, <3>2
    <3>4. lev2[p] = lev2[d] + 1
      BY <1>2, <1>12, <2>1, <3>1, <3>2
    <3>5. g[p].children[j] = d
      BY <1>5, <1>12, <2>1 DEF d
    <3> QED
      BY <1>3, <3>1, <3>3, <3>4, <3>5 DEF IsChild
  <2> QED
    BY <1>5, <1>12, <2>1, <2>2, SlotsFrame
<1>13. ASSUME NEW p \in Allocated(g) PROVE Hangs(g, p)
  <2>1. CASE p = new
    BY <1>4, <2>1 DEF Hangs
  <2>2. CASE p # new
    <3>1. p \in Ptr /\ p \in Allocated(h) /\ Hangs(h, p) /\ h[p].index \in Nat
      BY <1>3, <2>2, FieldTypes DEF Allocated, Tree
    <3>2. CASE Moves(p)
      <4> DEFINE k == h[p].index
      <4>1. /\ IsInternal(h, n) /\ k \in Nat /\ h[n].children[k] = p
            /\ k - left \in 0..(right - 1) /\ left + (k - left) = k
        BY <1>7, <3>1, <3>2
      <4>2. g[p].parent = new /\ g[p].index = k - left
        BY <1>6, <2>2, <3>1, <3>2
      <4> HIDE DEF k, Moves
      <4>3. k - left \in Position /\ k - left < right
        BY <4>1, <1>1
      <4>4. g[new].children[k - left] = p
        BY <1>4, <4>1, <4>3
      <4> QED
        BY <1>1, <1>3, <1>4, <4>1, <4>2, <4>3, <4>4 DEF Hangs
    <3>3. CASE ~ Moves(p)
      <4>1. g[p].parent = h[p].parent /\ g[p].index = h[p].index
        BY <1>6, <2>2, <3>1, <3>3
      <4>2. CASE h[p].parent = n
        <5>1. IsInternal(h, n) /\ h[n].children[h[p].index] = p /\ h[p].index < left
          BY <1>1, <3>1, <3>3, <4>2 DEF Hangs
        <5>2. h[p].index \in Position
          BY <1>1, <3>1, <5>1
        <5>3. g[n].children[h[p].index] = p
          BY <1>4, <5>1, <5>2
        <5> QED
          BY <1>1, <1>3, <1>4, <4>1, <4>2, <5>1, <5>3 DEF Hangs
      <4>3. CASE h[p].parent # n
        <5> DEFINE q == h[p].parent
        <5>1. q # None => /\ q \in Allocated(g) /\ g[q].kind = h[q].kind
                          /\ g[q].length = h[q].length /\ g[q].children = h[q].children
          <6>1. q # None => q \in Allocated(h) /\ q \in Ptr /\ q # n /\ q # new
            BY <1>1, <3>1, <4>3 DEF Hangs, Allocated
          <6> QED
            BY <1>3, <1>5, <6>1
        <5> QED
          BY <3>1, <4>1, <5>1, HangsFrame
      <4> QED
        BY <4>2, <4>3
    <3> QED
      BY <3>2, <3>3
  <2> QED
    BY <2>1, <2>2
<1>14. Tree(g, lev2)
  BY <1>2, <1>8, <1>10, <1>11, <1>12, <1>13 DEF Tree
<1>15. Roots(g) = Roots(h) \cup {new}
  <2>1. ASSUME NEW p \in Ptr, p # new, p \in Allocated(h)
        PROVE  g[p].parent = None <=> h[p].parent = None
    BY <1>1, <1>6, <2>1
  <2> QED
    BY <1>1, <1>3, <1>4, <2>1 DEF Roots, Allocated
<1> QED
  BY <1>3, <1>14, <1>15 DEF lev2

\* The first `more` entries of b follow the first `len` of a.
Joined(a, len, b, more) ==
  [j \in Position |-> IF j \in len..(len + more - 1) THEN b[j - len] ELSE a[j]]

\* Every entry of src is appended to dest, and the children go with them.
NodesMerged(h, g, dest, src) ==
  LET len  == h[dest].length
      more == h[src].length
      Moves(p) == p \in Allocated(h) /\ h[p].parent = src
  IN  \A p \in Ptr :
        /\ g[p].kind = h[p].kind
        /\ g[p].next = IF ~ IsLeaf(h, dest) THEN h[p].next
                       ELSE IF p = dest THEN h[src].next
                       ELSE IF p = src THEN None ELSE h[p].next
        /\ g[p].length = IF p = dest THEN len + more
                         ELSE IF p = src THEN 0 ELSE h[p].length
        /\ g[p].children =
             IF p = dest THEN Joined(h[dest].children, len, h[src].children, more)
             ELSE IF p = src THEN [j \in Position |->
                     IF j < more THEN None ELSE h[src].children[j]]
             ELSE h[p].children
        /\ g[p].sizes =
             IF p = dest /\ ~ IsLeaf(h, dest)
             THEN Joined(h[dest].sizes, len, h[src].sizes, more)
             ELSE h[p].sizes
        /\ g[p].parent = IF Moves(p) THEN dest ELSE h[p].parent
        /\ g[p].index = IF Moves(p) THEN len + h[p].index ELSE h[p].index

\* `prefix.parent = parent` changes nothing but the parent of nodes that have
\* the kind of q.
LEMMA CopyParentPtrFields ==
  ASSUME NEW h \in Heap, NEW ps, NEW q, NEW p \in Ptr,
         p \in ps => h[p].kind = h[q].kind
  PROVE  LET g == CopyParentPtr(h, ps, q)
         IN  /\ g[p].kind = h[p].kind /\ g[p].next = h[p].next
             /\ g[p].length = h[p].length /\ g[p].children = h[p].children
             /\ g[p].sizes = h[p].sizes /\ g[p].index = h[p].index
             /\ g[p].parent = IF p \in ps THEN h[q].parent ELSE h[p].parent
BY DEF CopyParentPtr, Heap, Node

\* Two nodes of the same height that fit into one.
Mergeable(h, lev, dest, src) ==
  /\ dest \in Allocated(h) /\ src \in Allocated(h) /\ dest # src
  /\ lev[dest] = lev[src]
  /\ h[dest].length + h[src].length <= B
  /\ IsInternal(h, dest) => h[dest].length >= 1

\* merge does that.
LEMMA MergeRelinks ==
  ASSUME NEW h \in Heap, NEW lev, Tree(h, lev), NEW dest, NEW src,
         Mergeable(h, lev, dest, src)
  PROVE  NodesMerged(h, Merge(h, dest, src), dest, src)
<1> DEFINE len == h[dest].length
           more == h[src].length
           leaf == IsLeaf(h, dest)
           children == Joined(h[dest].children, len, h[src].children, more)
           sizes == IF leaf THEN h[dest].sizes
                    ELSE Joined(h[dest].sizes, len, h[src].sizes, more)
           next == IF leaf THEN h[src].next ELSE h[dest].next
           rest == [j \in Position |->
                     IF j < more THEN None ELSE h[src].children[j]]
           end == IF leaf THEN None ELSE h[src].next
           joined == [h[dest] EXCEPT !.children = children, !.sizes = sizes,
                                     !.length = len + more, !.next = next]
           emptied == [h[src] EXCEPT !.children = rest, !.length = 0,
                                     !.next = end]
           poured == [h EXCEPT ![dest] = joined, ![src] = emptied]
           q == h[dest].children[0]
           ps == ChildrenAt(poured, dest, len, len + more - 1)
           linked == CopyParentPtr(poured, ps, q)
           g == Renumber(linked, dest, len, len + more - 1)
           Moves(p) == p \in Allocated(h) /\ h[p].parent = src
<1>1. /\ dest \in Ptr /\ src \in Ptr /\ dest # src
      /\ len \in 0..B /\ more \in 0..B /\ len + more \in 0..B
      /\ h[dest] \in Node /\ h[src] \in Node
      /\ dest \in Allocated(h) /\ src \in Allocated(h)
  BY FieldTypes DEF Allocated, Heap, Mergeable
<1>2. Merge(h, dest, src) = IF leaf THEN poured ELSE g
  BY DEF Merge, Joined
<1>3. /\ children \in [Position -> Slot] /\ sizes \in [Position -> Nat]
      /\ rest \in [Position -> Slot]
      /\ next \in PtrOrNone /\ end \in PtrOrNone
      /\ \A j \in len..(len + more - 1) : children[j] = h[src].children[j - len]
  <2>1. \A j \in Position : j \in len..(len + more - 1) => j - len \in Position
    BY <1>1
  <2>2. /\ h[src].children \in [Position -> Slot] /\ h[dest].children \in [Position -> Slot]
        /\ h[src].sizes \in [Position -> Nat] /\ h[dest].sizes \in [Position -> Nat]
        /\ h[src].next \in PtrOrNone /\ h[dest].next \in PtrOrNone
    BY <1>1, FieldTypes
  <2> HIDE DEF len, more
  <2>3. children \in [Position -> Slot]
    BY <2>1, <2>2 DEF Joined
  <2>4. rest \in [Position -> Slot]
    BY <2>2 DEF Slot
  <2>5. sizes \in [Position -> Nat]
    BY <2>1, <2>2 DEF Joined
  <2>6. next \in PtrOrNone /\ end \in PtrOrNone
    BY <2>2 DEF PtrOrNone
  <2>7. \A j \in len..(len + more - 1) : children[j] = h[src].children[j - len]
    BY <1>1 DEF Joined, len, more
  <2> QED
    BY <2>3, <2>4, <2>5, <2>6, <2>7
<1> HIDE DEF children, sizes, rest, next, end
<1>4. /\ joined \in Node
      /\ joined.kind = h[dest].kind /\ joined.next = next
      /\ joined.length = len + more /\ joined.children = children
      /\ joined.sizes = sizes /\ joined.parent = h[dest].parent
      /\ joined.index = h[dest].index
  <2>1. joined = Refilled(h[dest], len + more, children, sizes, next)
    BY <1>1 DEF Refilled, Node
  <2> HIDE DEF joined
  <2>2. RefillTypes(h[dest], len + more, children, sizes, next)
    BY <1>1, <1>3 DEF RefillTypes
  <2>3. Refills(joined, h[dest], len + more, children, sizes, next)
    BY <2>1, <2>2, RefilledFields
  <2> QED
    BY <2>3 DEF Refills
<1>5. /\ emptied \in Node
      /\ emptied.kind = h[src].kind /\ emptied.next = end
      /\ emptied.length = 0 /\ emptied.children = rest
      /\ emptied.sizes = h[src].sizes /\ emptied.parent = h[src].parent
      /\ emptied.index = h[src].index
  <2>1. emptied = Refilled(h[src], 0, rest, h[src].sizes, end)
    <3>1. emptied = [emptied EXCEPT !.sizes = h[src].sizes]
      BY <1>1 DEF Node
    <3> QED
      BY <1>1, <3>1 DEF Refilled, Node
  <2> HIDE DEF emptied
  <2>2. RefillTypes(h[src], 0, rest, h[src].sizes, end)
    BY <1>1, <1>3, FieldTypes DEF RefillTypes
  <2>3. Refills(emptied, h[src], 0, rest, h[src].sizes, end)
    BY <2>1, <2>2, RefilledFields
  <2> QED
    BY <2>3 DEF Refills
<1> HIDE DEF joined, emptied
<1>6. /\ poured \in Heap
      /\ \A p \in Ptr : poured[p] = IF p = src THEN emptied ELSE
                                    IF p = dest THEN joined ELSE h[p]
  BY <1>1, <1>4, <1>5 DEF Heap
<1> HIDE DEF poured
<1>7. \A p \in Ptr :
        /\ poured[p].kind = h[p].kind
        /\ poured[p].next = IF p = dest THEN next
                            ELSE IF p = src THEN end ELSE h[p].next
        /\ poured[p].length = IF p = dest THEN len + more
                              ELSE IF p = src THEN 0 ELSE h[p].length
        /\ poured[p].children = IF p = dest THEN children
                                ELSE IF p = src THEN rest ELSE h[p].children
        /\ poured[p].sizes = IF p = dest THEN sizes ELSE h[p].sizes
        /\ poured[p].parent = h[p].parent
        /\ poured[p].index = h[p].index
  BY <1>1, <1>4, <1>5, <1>6
<1>8. CASE leaf
  <2>1. \A p \in Ptr : ~ Moves(p)
    <3> SUFFICES ASSUME NEW p \in Ptr, Moves(p) PROVE FALSE
      OBVIOUS
    <3>1. Hangs(h, p) /\ src # None /\ IsLeaf(h, src)
      BY <1>1, <1>8 DEF Tree, Mergeable
    <3> QED
      BY <3>1 DEF Hangs, IsLeaf, IsInternal
  <2>2. \A p \in Ptr :
          /\ poured[p].next = IF p = dest THEN h[src].next
                              ELSE IF p = src THEN None ELSE h[p].next
          /\ poured[p].sizes = h[p].sizes
    BY <1>7, <1>8 DEF next, end, sizes
  <2>3. NodesMerged(h, poured, dest, src)
    BY <1>7, <1>8, <2>1, <2>2 DEF NodesMerged, children, rest
  <2> QED
    BY <1>2, <1>8, <2>3
<1>9. CASE ~ leaf
  <2>0. IsInternal(h, dest) /\ IsInternal(h, src) /\ len >= 1
    <3>1. ~ IsLeaf(h, src)
      BY <1>1, <1>9 DEF Tree, Mergeable
    <3>2. h[dest].kind \in {"leaf", "internal"} /\ h[src].kind \in {"leaf", "internal"}
      BY <1>1, FieldTypes DEF Allocated
    <3> QED
      BY <1>9, <3>1, <3>2 DEF IsLeaf, IsInternal, Mergeable
  <2>1. /\ \A j \in 0..(more - 1) : /\ h[src].children[j] \in Allocated(h)
                                    /\ h[src].children[j] \in Ptr
                                    /\ h[h[src].children[j]].index = j
                                    /\ h[h[src].children[j]].parent = src
        /\ \A p \in Allocated(h) : h[p].parent = src =>
              /\ h[p].index \in Nat /\ h[p].index < more
              /\ h[src].children[h[p].index] = p
    BY <1>1, <2>0, ChildSlots DEF ChildSlotsOK
  <2>2. ASSUME NEW j \in len..(len + more - 1)
        PROVE  /\ children[j] \in Allocated(h) /\ children[j] \in Ptr
               /\ h[children[j]].index = j - len
               /\ h[children[j]].parent = src
               /\ Moves(children[j])
    <3>1. children[j] = h[src].children[j - len]
      BY <1>3
    <3>2. j - len \in 0..(more - 1)
      <4>1. len \in Nat /\ more \in Nat
        BY <1>1
      <4> HIDE DEF len, more
      <4> QED
        BY <4>1
    <3> QED
      BY <3>1, <3>2, <2>1
  <2>a. ASSUME NEW p \in Ptr, Moves(p)
        PROVE  /\ len + h[p].index \in len..(len + more - 1)
               /\ children[len + h[p].index] = p
    <3> DEFINE k == h[p].index
    <3>1. k \in Nat /\ k < more /\ h[src].children[k] = p
      BY <2>a, <2>1
    <3> HIDE DEF k
    <3>2. len + k \in len..(len + more - 1) /\ (len + k) - len = k
      BY <3>1, <1>1
    <3>3. children[len + k] = p
      BY <3>1, <3>2, <1>3
    <3> QED
      BY <3>2, <3>3 DEF k
  <2>3. \A p \in Ptr : p \in ps <=> Moves(p)
    <3>1. ps = {children[j] : j \in len..(len + more - 1)}
      BY <1>1, <1>7 DEF ChildrenAt
    <3>2. ASSUME NEW p \in ps PROVE Moves(p)
      <4>1. PICK j \in len..(len + more - 1) : p = children[j]
        BY <3>1
      <4> QED
        BY <4>1, <2>2
    <3>3. ASSUME NEW p \in Ptr, Moves(p) PROVE p \in ps
      BY <3>1, <3>3, <2>a
    <3> QED
      BY <3>2, <3>3
  <2>4. /\ q \in Ptr /\ q \in Allocated(h) /\ h[q].parent = dest
        /\ \A p \in Ptr : Moves(p) => h[p].kind = h[q].kind
    <3>1. /\ q \in Ptr /\ q \in Allocated(h) /\ h[q].parent = dest
          /\ lev[dest] = lev[q] + 1
      BY <1>1, <2>0, ChildSlots DEF ChildSlotsOK
    <3> HIDE DEF q
    <3>2. ASSUME NEW p \in Ptr, Moves(p) PROVE h[p].kind = h[q].kind
      <4>1. lev[src] = lev[p] + 1
        BY <1>1, <2>0, <2>1, <3>2, ChildSlots DEF ChildSlotsOK
      <4>2. lev[p] = lev[q]
        <5>1. lev[p] \in Nat /\ lev[q] \in Nat
          BY <3>1, <3>2 DEF Tree
        <5>2. lev[dest] = lev[src]
          BY DEF Mergeable
        <5> QED
          BY <3>1, <4>1, <5>1, <5>2
      <4>3. h[p].kind \in {"leaf", "internal"} /\ h[q].kind \in {"leaf", "internal"}
        BY <3>1, <3>2, FieldTypes DEF Allocated
      <4> QED
        BY <3>1, <3>2, <4>2, <4>3 DEF Tree, IsLeaf
    <3> QED
      BY <3>1, <3>2
  <2> HIDE DEF ps, q
  <2>5. linked \in Heap
    BY <1>1, <1>6, <2>4, CopyParentPtrType
  <2>6. \A p \in Ptr :
          /\ linked[p].kind = poured[p].kind /\ linked[p].next = poured[p].next
          /\ linked[p].length = poured[p].length
          /\ linked[p].children = poured[p].children
          /\ linked[p].sizes = poured[p].sizes /\ linked[p].index = poured[p].index
          /\ linked[p].parent = IF Moves(p) THEN dest ELSE poured[p].parent
    <3> HIDE DEF Moves
    <3>1. \A p \in Ptr : p \in ps => poured[p].kind = poured[q].kind
      BY <1>7, <2>3, <2>4
    <3>2. poured[q].parent = dest
      BY <1>7, <2>4
    <3> SUFFICES ASSUME NEW p \in Ptr
                 PROVE
          /\ linked[p].kind = poured[p].kind /\ linked[p].next = poured[p].next
          /\ linked[p].length = poured[p].length
          /\ linked[p].children = poured[p].children
          /\ linked[p].sizes = poured[p].sizes /\ linked[p].index = poured[p].index
          /\ linked[p].parent = IF Moves(p) THEN dest ELSE poured[p].parent
      OBVIOUS
    <3>3. LET k == CopyParentPtr(poured, ps, q)
         IN  /\ k[p].kind = poured[p].kind /\ k[p].next = poured[p].next
             /\ k[p].length = poured[p].length /\ k[p].children = poured[p].children
             /\ k[p].sizes = poured[p].sizes /\ k[p].index = poured[p].index
             /\ k[p].parent = IF p \in ps THEN poured[q].parent ELSE poured[p].parent
      <4>1. p \in ps => poured[p].kind = poured[q].kind
        BY <3>1
      <4>2. poured \in Heap
        BY <1>6
      <4> HIDE DEF linked, g
      <4> QED
        BY <4>1, <4>2, CopyParentPtrFields
    <3> QED
      BY <2>3, <3>2, <3>3
  <2> HIDE DEF linked
  <2>7. linked[dest].children = children
    BY <1>1, <1>7, <2>6
  <2>8. Distinct(linked, dest, len, len + more - 1)
    <3>1. \A j, k \in len..(len + more - 1) : children[j] = children[k] => j = k
      <4> SUFFICES ASSUME NEW j \in len..(len + more - 1), NEW k \in len..(len + more - 1),
                          children[j] = children[k]
                   PROVE  j = k
        OBVIOUS
      <4>1. j - len = k - len
        BY <2>2
      <4> QED
        BY <4>1, <1>1
    <3> QED
      BY <2>7, <3>1 DEF Distinct
  <2>9. Renumbered(linked, g, dest, len, len + more - 1)
    BY <2>5, <2>8, RenumberFields, Zenon
  <2> HIDE DEF g
  <2>10. ASSUME NEW p \in Ptr
        PROVE  g[p].index = IF Moves(p) THEN len + h[p].index ELSE h[p].index
    <3>1. CASE Moves(p)
      <4>1. g[p].index = len + h[p].index
        BY <2>a, <3>1, <2>7, <2>9 DEF Renumbered
      <4> QED
        BY <4>1, <3>1
    <3>2. CASE ~ Moves(p)
      <4>1. \A j \in len..(len + more - 1) : children[j] # p
        BY <2>2, <3>2
      <4>2. g[p].index = linked[p].index
        BY <4>1, <2>7, <2>9 DEF Renumbered
      <4> QED
        BY <4>2, <2>6, <1>7, <3>2
    <3> QED
      BY <3>1, <3>2
  <2>11. \A p \in Ptr :
        /\ g[p].kind = h[p].kind
        /\ g[p].next = h[p].next
        /\ g[p].length = IF p = dest THEN len + more
                         ELSE IF p = src THEN 0 ELSE h[p].length
        /\ g[p].children = IF p = dest THEN children
                           ELSE IF p = src THEN rest ELSE h[p].children
        /\ g[p].sizes = IF p = dest THEN sizes ELSE h[p].sizes
        /\ g[p].parent = IF Moves(p) THEN dest ELSE h[p].parent
    <3>1. \A p \in Ptr :
           /\ g[p].kind = poured[p].kind /\ g[p].next = poured[p].next
           /\ g[p].length = poured[p].length /\ g[p].children = poured[p].children
           /\ g[p].sizes = poured[p].sizes
           /\ g[p].parent = IF Moves(p) THEN dest ELSE poured[p].parent
      BY <2>6, <2>9 DEF Renumbered
    <3>2. next = h[dest].next /\ end = h[src].next
      BY <1>9 DEF next, end
    <3> HIDE DEF Moves
    <3> QED
      BY <1>7, <3>1, <3>2
  <2>12. sizes = Joined(h[dest].sizes, len, h[src].sizes, more)
    BY <1>9 DEF sizes
  <2>13. NodesMerged(h, g, dest, src)
    BY <1>9, <2>10, <2>11, <2>12 DEF NodesMerged, children, rest
  <2> QED
    BY <1>2, <1>9, <2>13
<1> QED
  BY <1>8, <1>9

\* Two nodes merged: src stays where it was, with nothing below it.
LEMMA NodesMergedTree ==
  ASSUME NEW h \in Heap, NEW lev, Tree(h, lev), NEW g, NEW dest, NEW src,
         Mergeable(h, lev, dest, src), NodesMerged(h, g, dest, src)
  PROVE  /\ Tree(g, lev)
         /\ Allocated(g) = Allocated(h)
         /\ Roots(g) = Roots(h)
<1> DEFINE len == h[dest].length
           more == h[src].length
           Moves(p) == p \in Allocated(h) /\ h[p].parent = src
<1>1. /\ dest \in Ptr /\ src \in Ptr /\ dest # src
      /\ len \in Nat /\ more \in Nat /\ len + more <= B /\ more <= B
      /\ dest \in Allocated(h) /\ src \in Allocated(h)
      /\ src # None /\ dest # None
  BY FieldTypes DEF Allocated, Mergeable
<1>2. /\ Allocated(g) = Allocated(h)
      /\ \A p \in Ptr : /\ IsLeaf(g, p) <=> IsLeaf(h, p)
                        /\ IsInternal(g, p) <=> IsInternal(h, p)
  BY DEF NodesMerged, Allocated, IsLeaf, IsInternal
<1>3. /\ g[dest].length = len + more /\ g[src].length = 0
      /\ \A j \in Position :
           /\ g[dest].children[j] = IF j >= len /\ j < len + more
                                    THEN h[src].children[j - len]
                                    ELSE h[dest].children[j]
           /\ g[src].children[j] = IF j < more THEN None ELSE h[src].children[j]
  <2>1. /\ g[dest].length = len + more /\ g[src].length = 0
        /\ g[dest].children = Joined(h[dest].children, len, h[src].children, more)
        /\ g[src].children = [j \in Position |->
                     IF j < more THEN None ELSE h[src].children[j]]
    BY <1>1 DEF NodesMerged
  <2> HIDE DEF len, more
  <2>2. \A j \in Position : j \in len..(len + more - 1) <=> j >= len /\ j < len + more
    BY <1>1
  <2> QED
    BY <2>1, <2>2 DEF Joined
<1>4. \A p \in Ptr :
        /\ p # dest /\ p # src => /\ g[p].length = h[p].length
                                  /\ g[p].children = h[p].children
        /\ g[p].kind = h[p].kind
        /\ g[p].parent = IF Moves(p) THEN dest ELSE h[p].parent
        /\ g[p].index = IF Moves(p) THEN len + h[p].index ELSE h[p].index
  BY DEF NodesMerged
<1>a. lev[dest] = lev[src] /\ (IsLeaf(h, src) <=> IsLeaf(h, dest))
  BY <1>1 DEF Tree, Mergeable
<1>b. IsInternal(h, src) <=> IsInternal(h, dest)
  <2>1. h[dest].kind \in {"leaf", "internal"} /\ h[src].kind \in {"leaf", "internal"}
    BY <1>1, FieldTypes DEF Allocated
  <2> QED
    BY <2>1, <1>a DEF IsLeaf, IsInternal
<1>5. ASSUME NEW d \in Allocated(h), IsInternal(h, src), h[d].parent = src
      PROVE  /\ h[d].index \in Nat /\ h[d].index < more
             /\ h[src].children[h[d].index] = d
  BY <1>1, <1>5, ChildSlots DEF ChildSlotsOK
<1>6. ASSUME IsInternal(h, src), NEW j \in Position, j < more
      PROVE  LET d == h[src].children[j]
             IN  /\ d \in Allocated(h) /\ lev[dest] = lev[d] + 1
                 /\ g[d].parent = dest /\ g[d].index = len + j
  <2> DEFINE d == h[src].children[j]
  <2>1. /\ d \in Allocated(h) /\ d \in Ptr /\ h[d].index = j /\ h[d].parent = src
        /\ lev[src] = lev[d] + 1
    <3>1. j \in 0..(more - 1)
      BY <1>1, <1>6
    <3> QED
      BY <3>1, <1>1, <1>6, ChildSlots DEF ChildSlotsOK
  <2> HIDE DEF d
  <2>2. g[d].parent = dest /\ g[d].index = len + j
    BY <1>4, <2>1
  <2> QED
    BY <1>a, <2>1, <2>2 DEF d
<1>7. ASSUME NEW p \in Allocated(h), p # src, NEW j \in Position, IsChild(h, lev, p, j)
      PROVE  LET d == h[p].children[j]
             IN  /\ d \in Allocated(h) /\ lev[p] = lev[d] + 1
                 /\ g[d].parent = p /\ g[d].index = j
  <2> DEFINE d == h[p].children[j]
  <2>1. /\ d \in Allocated(h) /\ d \in Ptr /\ h[d].index = j /\ h[d].parent = p
        /\ lev[p] = lev[d] + 1
    BY <1>7 DEF IsChild, Allocated
  <2> HIDE DEF d
  <2>2. g[d].parent = p /\ g[d].index = j
    BY <1>4, <1>7, <2>1
  <2> QED
    BY <2>1, <2>2 DEF d
<1>8. SlotsOK(g, lev, dest)
  <2>0. SlotsOK(h, lev, dest) /\ SlotsOK(h, lev, src)
    BY <1>1 DEF Tree
  <2>1. CASE IsLeaf(h, dest)
    <3>1. ASSUME NEW j \in Position, j < len + more PROVE g[dest].children[j] \in Item
      <4>1. CASE j < len
        BY <1>1, <1>3, <2>0, <2>1, <4>1 DEF SlotsOK
      <4>2. CASE j >= len
        <5>1. j - len \in Position /\ j - len < more
          BY <1>1, <3>1, <4>2
        <5> QED
          BY <1>1, <1>3, <1>a, <2>0, <2>1, <3>1, <4>2, <5>1 DEF SlotsOK
      <4> QED
        BY <1>1, <4>1, <4>2
    <3> QED
      BY <1>1, <1>2, <1>3, <2>1, <3>1 DEF SlotsOK, IsLeaf, IsInternal
  <2>2. CASE ~ IsLeaf(h, dest)
    <3>1. ~ IsLeaf(g, dest)
      BY <1>1, <1>2, <2>2
    <3>2. ASSUME IsInternal(h, dest), NEW j \in Position
          PROVE  IF j < len + more THEN IsChild(g, lev, dest, j)
                 ELSE g[dest].children[j] = None
      <4>1. CASE j < len
        <5>1. IsChild(h, lev, dest, j) /\ g[dest].children[j] = h[dest].children[j]
          BY <1>1, <1>3, <2>0, <3>2, <4>1 DEF SlotsOK
        <5> QED
          BY <5>1, <4>1, <1>1, <1>2, <1>7 DEF IsChild
      <4>2. CASE j >= len /\ j < len + more
        <5>1. j - len \in Position /\ j - len < more /\ len + (j - len) = j
          BY <1>1, <4>2
        <5>2. g[dest].children[j] = h[src].children[j - len]
          BY <1>3, <4>2
        <5> QED
          BY <5>1, <5>2, <4>2, <3>2, <1>2, <1>6, <1>b DEF IsChild
      <4>3. CASE j >= len + more
        <5>1. h[dest].children[j] = None /\ ~ (j < len + more)
          BY <1>1, <2>0, <3>2, <4>3 DEF SlotsOK
        <5> QED
          BY <1>3, <4>3, <5>1
      <4> QED
        BY <1>1, <4>1, <4>2, <4>3
    <3> QED
      BY <1>1, <1>2, <1>3, <3>1, <3>2 DEF SlotsOK
  <2> QED
    BY <2>1, <2>2
<1>9. SlotsOK(g, lev, src)
  <2>1. ASSUME NEW j \in Position, IsInternal(h, src) PROVE g[src].children[j] = None
    BY <1>1, <1>3, <2>1 DEF Tree, SlotsOK
  <2> QED
    BY <1>1, <1>2, <1>3, <2>1 DEF SlotsOK
<1>10. ASSUME NEW p \in Allocated(g) PROVE SlotsOK(g, lev, p)
  <2>1. CASE p # dest /\ p # src
    <3>1. /\ p \in Ptr /\ p \in Allocated(h) /\ SlotsOK(h, lev, p)
          /\ g[p].kind = h[p].kind /\ g[p].length = h[p].length
          /\ g[p].children = h[p].children
      BY <1>2, <1>4, <2>1 DEF Allocated, Tree
    <3>2. ASSUME NEW j \in Position, IsChild(h, lev, p, j) PROVE IsChild(g, lev, p, j)
      BY <1>2, <1>7, <2>1, <3>1, <3>2 DEF IsChild
    <3> QED
      BY <3>1, <3>2, SlotsFrame
  <2> QED
    BY <2>1, <1>8, <1>9
<1>11. ASSUME NEW p \in Allocated(g) PROVE Hangs(g, p)
  <2>0. p \in Ptr /\ Hangs(h, p) /\ p \in Allocated(h) /\ h[p].index \in Nat
    BY <1>2, FieldTypes DEF Allocated, Tree
  <2>1. CASE Moves(p)
    <3> DEFINE k == h[p].index
    <3>0. IsInternal(h, src)
      BY <1>1, <2>0, <2>1 DEF Hangs
    <3>1. k \in Nat /\ k < more /\ h[src].children[k] = p
      BY <1>5, <2>1, <3>0
    <3>2. g[p].parent = dest /\ g[p].index = len + k
      BY <1>4, <2>0, <2>1
    <3> HIDE DEF k, Moves
    <3>3. len + k \in Position /\ len + k >= len /\ len + k < len + more
          /\ (len + k) - len = k
      <4> HIDE DEF len, more
      <4> QED
        BY <3>1, <1>1
    <3>4. g[dest].children[len + k] = p
      BY <1>3, <3>1, <3>3
    <3> QED
      BY <1>1, <1>2, <1>3, <1>b, <3>0, <3>2, <3>3, <3>4 DEF Hangs
  <2>2. CASE ~ Moves(p)
    <3>1. g[p].parent = h[p].parent /\ g[p].index = h[p].index /\ h[p].parent # src
      BY <1>4, <2>0, <2>2
    <3>2. CASE h[p].parent = dest
      <4> DEFINE k == h[p].index
      <4>1. IsInternal(h, dest) /\ k < len /\ h[dest].children[k] = p /\ k \in Nat
        BY <1>1, <2>0, <3>2 DEF Hangs
      <4> HIDE DEF k
      <4>2. k \in Position /\ ~ (k >= len) /\ k < len + more
        BY <4>1, <1>1
      <4>3. g[dest].children[k] = p
        BY <1>3, <4>1, <4>2
      <4> QED
        BY <1>1, <1>2, <1>3, <3>1, <3>2, <4>1, <4>2, <4>3 DEF Hangs, k
    <3>3. CASE h[p].parent # dest
      <4> DEFINE q == h[p].parent
      <4>1. q # None => /\ q \in Allocated(g) /\ g[q].kind = h[q].kind
                        /\ g[q].length = h[q].length /\ g[q].children = h[q].children
        BY <1>2, <1>4, <2>0, <3>1, <3>3 DEF Hangs, Allocated
      <4> QED
        BY <2>0, <3>1, <4>1, HangsFrame
    <3> QED
      BY <3>2, <3>3
  <2> QED
    BY <2>1, <2>2
<1>12. Tree(g, lev)
  <2>1. ASSUME NEW p \in Allocated(g) PROVE IsLeaf(g, p) <=> lev[p] = 0
    <3>1. p \in Ptr /\ p \in Allocated(h)
      BY <1>2 DEF Allocated
    <3> QED
      BY <3>1, <1>2 DEF Tree
  <2>2. lev \in [Ptr -> Nat]
    BY DEF Tree
  <2> QED
    BY <2>1, <2>2, <1>10, <1>11 DEF Tree
<1>13. Roots(g) = Roots(h)
  BY <1>1, <1>2, <1>4 DEF Roots, Allocated
<1> QED
  BY <1>2, <1>12, <1>13

\* Nothing changes but the sizes of node n.
Resized(h, g, n) ==
  \A p \in Ptr :
    /\ g[p].kind = h[p].kind /\ g[p].parent = h[p].parent
    /\ g[p].index = h[p].index /\ g[p].length = h[p].length
    /\ g[p].children = h[p].children /\ g[p].next = h[p].next
    /\ p # n => g[p].sizes = h[p].sizes

\* Which is a change the tree does not see.
LEMMA ResizedTree ==
  ASSUME NEW h \in Heap, NEW lev, Tree(h, lev), NEW g, NEW n, Resized(h, g, n)
  PROVE  /\ Tree(g, lev)
         /\ Allocated(g) = Allocated(h)
         /\ Roots(g) = Roots(h)
<1>1. ASSUME NEW p \in Ptr, IsLeaf(h, p)
      PROVE  \A i \in Position : i < h[p].length => h[p].children[i] \in Item
  BY <1>1 DEF Tree, SlotsOK, Allocated, IsLeaf
<1>2. LeavesEdited(h, g)
  BY <1>1 DEF LeavesEdited, Resized
<1> QED
  BY <1>2, LeavesEditedTree

\* A new node stands alone, at any level its kind allows.
LEMMA AllocTree ==
  ASSUME NEW h \in Heap, NEW lev, Tree(h, lev), NEW new \in Free(h),
         NEW kind \in {"leaf", "internal"}, NEW k \in Nat, k = 0 <=> kind = "leaf"
  PROVE  LET g == Alloc(h, new, kind)
         IN  /\ Tree(g, [lev EXCEPT ![new] = k])
             /\ Allocated(g) = Allocated(h) \cup {new}
             /\ Roots(g) = Roots(h) \cup {new}
             /\ g[new] = NewNode(kind)
             /\ \A p \in Ptr : p # new => g[p] = h[p]
<1> DEFINE g == Alloc(h, new, kind)
           lev2 == [lev EXCEPT ![new] = k]
<1>1. new \in Ptr /\ new \notin Allocated(h)
  BY DEF Free, Allocated
<1>2. /\ g[new] = NewNode(kind)
      /\ \A p \in Ptr : p # new => g[p] = h[p]
  BY <1>1 DEF Alloc, Heap
<1>3. /\ g[new].kind = kind /\ g[new].parent = None /\ g[new].index = 0
      /\ g[new].length = 0 /\ \A j \in Position : g[new].children[j] = None
  BY <1>2 DEF NewNode
<1>4. /\ lev2 \in [Ptr -> Nat] /\ lev2[new] = k
      /\ \A p \in Ptr : p # new => lev2[p] = lev[p]
  BY <1>1 DEF Tree
<1> HIDE DEF g, lev2
<1>5. Allocated(g) = Allocated(h) \cup {new}
  BY <1>1, <1>2, <1>3 DEF Allocated
<1>6. Roots(g) = Roots(h) \cup {new}
  BY <1>1, <1>2, <1>3, <1>5 DEF Roots, Allocated
<1>7. ASSUME NEW p \in Allocated(g)
      PROVE  (IsLeaf(g, p) <=> lev2[p] = 0) /\ SlotsOK(g, lev2, p) /\ Hangs(g, p)
  <2>1. CASE p = new
    BY <1>3, <1>4, <2>1 DEF IsLeaf, SlotsOK, Hangs
  <2>2. CASE p # new
    <3>1. /\ p \in Ptr /\ p \in Allocated(h) /\ g[p] = h[p] /\ lev2[p] = lev[p]
          /\ (IsLeaf(h, p) <=> lev[p] = 0) /\ SlotsOK(h, lev, p) /\ Hangs(h, p)
      BY <1>2, <1>4, <1>5, <2>2 DEF Allocated, Tree
    <3>2. ASSUME NEW j \in Position, IsChild(h, lev, p, j) PROVE IsChild(g, lev2, p, j)
      <4> DEFINE d == h[p].children[j]
      <4>1. d \in Allocated(h) /\ d \in Ptr /\ d # new
        BY <1>1, <3>2 DEF IsChild, Allocated
      <4> QED
        BY <1>2, <1>4, <1>5, <3>1, <3>2, <4>1 DEF IsChild
    <3>3. SlotsOK(g, lev2, p)
      BY <3>1, <3>2, SlotsFrame
    <3> DEFINE q == h[p].parent
    <3>4. q # None => /\ q \in Allocated(g) /\ g[q].kind = h[q].kind
                      /\ g[q].length = h[q].length /\ g[q].children = h[q].children
      BY <1>1, <1>2, <1>5, <3>1 DEF Hangs, Allocated
    <3>5. Hangs(g, p)
      BY <3>1, <3>4, HangsFrame
    <3> QED
      BY <3>1, <3>3, <3>5 DEF IsLeaf
  <2> QED
    BY <2>1, <2>2
<1>8. Tree(g, lev2)
  BY <1>4, <1>7 DEF Tree
<1> QED
  BY <1>2, <1>5, <1>6, <1>8 DEF g, lev2

\* A node that is no child and has none can go.
LEMMA DeallocTree ==
  ASSUME NEW h \in Heap, NEW lev, Tree(h, lev), NEW c \in Roots(h),
         IsInternal(h, c) => h[c].length = 0
  PROVE  LET g == Dealloc(h, c)
         IN  /\ Tree(g, lev)
             /\ Allocated(g) = Allocated(h) \ {c}
             /\ Roots(g) = Roots(h) \ {c}
             /\ \A p \in Ptr : p # c => g[p] = h[p]
<1> DEFINE g == Dealloc(h, c)
<1>1. c \in Ptr /\ c \in Allocated(h) /\ h[c].parent = None /\ c # None
  BY DEF Roots, Allocated
<1>2. /\ g[c].kind = "free"
      /\ \A p \in Ptr : p # c => g[p] = h[p]
  BY <1>1 DEF Dealloc, Heap, NewNode
<1> HIDE DEF g
<1>3. Allocated(g) = Allocated(h) \ {c}
  BY <1>1, <1>2 DEF Allocated
<1>4. Roots(g) = Roots(h) \ {c}
  BY <1>1, <1>2, <1>3 DEF Roots, Allocated
<1>5. ASSUME NEW p \in Allocated(g)
      PROVE  (IsLeaf(g, p) <=> lev[p] = 0) /\ SlotsOK(g, lev, p) /\ Hangs(g, p)
  <2>1. /\ p \in Ptr /\ p # c /\ p \in Allocated(h) /\ g[p] = h[p]
        /\ (IsLeaf(h, p) <=> lev[p] = 0) /\ SlotsOK(h, lev, p) /\ Hangs(h, p)
        /\ p # None
    BY <1>2, <1>3 DEF Allocated, Tree
  <2>2. ASSUME NEW j \in Position, IsChild(h, lev, p, j) PROVE IsChild(g, lev, p, j)
    <3> DEFINE d == h[p].children[j]
    <3>1. d \in Allocated(h) /\ d \in Ptr /\ d # c
      BY <1>1, <2>1, <2>2 DEF IsChild, Allocated
    <3> QED
      BY <1>2, <1>3, <2>1, <2>2, <3>1 DEF IsChild
  <2>3. SlotsOK(g, lev, p)
    BY <2>1, <2>2, SlotsFrame
  <2> DEFINE q == h[p].parent
  <2>4. q # c
    <3>1. SUFFICES ASSUME q = c PROVE FALSE
      OBVIOUS
    <3>2. IsInternal(h, c) /\ h[p].index < h[c].length
      BY <1>1, <2>1, <3>1 DEF Hangs
    <3>3. h[p].index \in Nat
      BY <2>1, FieldTypes
    <3> QED
      BY <3>2, <3>3
  <2>5. q # None => /\ q \in Allocated(g) /\ g[q].kind = h[q].kind
                    /\ g[q].length = h[q].length /\ g[q].children = h[q].children
    BY <1>2, <1>3, <2>1, <2>4 DEF Hangs, Allocated
  <2>6. Hangs(g, p)
    BY <2>1, <2>5, HangsFrame
  <2> QED
    BY <2>1, <2>3, <2>6 DEF IsLeaf
<1>6. Tree(g, lev)
  BY <1>5 DEF Tree
<1> QED
  BY <1>2, <1>3, <1>4, <1>6 DEF g

-----------------------------------------------------------------------------
(***************************************************************************)
(* An operation on a node leaves the other levels alone.                   *)
(***************************************************************************)

\* What a child knows of its parent.
LEMMA ParentOf ==
  ASSUME NEW h \in Heap, NEW lev, Tree(h, lev), NEW p \in Allocated(h),
         h[p].parent # None
  PROVE  /\ h[p].parent \in Allocated(h) /\ IsInternal(h, h[p].parent)
         /\ h[p].index \in Nat /\ h[p].index < h[h[p].parent].length
         /\ h[h[p].parent].children[h[p].index] = p
         /\ lev[h[p].parent] = lev[p] + 1
<1> DEFINE n == h[p].parent
           i == h[p].index
<1>1. /\ n \in Allocated(h) /\ IsInternal(h, n)
      /\ i < h[n].length /\ h[n].children[i] = p
  BY DEF Tree, Hangs
<1>2. i \in Nat /\ h[n].length \in 0..B
  BY <1>1, FieldTypes DEF Allocated
<1> HIDE DEF n, i
<1>3. i \in 0..(h[n].length - 1)
  BY <1>1, <1>2
<1>4. lev[n] = lev[h[n].children[i]] + 1
  BY <1>1, <1>3, ChildSlots DEF ChildSlotsOK
<1> QED
  BY <1>1, <1>2, <1>4 DEF n, i

\* What a node knows of its children.
LEMMA ChildOf ==
  ASSUME NEW h \in Heap, NEW lev, Tree(h, lev), NEW n \in Allocated(h),
         IsInternal(h, n), NEW i \in Nat, i < h[n].length
  PROVE  /\ h[n].children[i] \in Allocated(h)
         /\ h[h[n].children[i]].parent = n /\ h[h[n].children[i]].index = i
         /\ lev[n] = lev[h[n].children[i]] + 1
<1>1. h[n].length \in Nat
  BY FieldTypes DEF Allocated
<1>2. i \in 0..(h[n].length - 1)
  BY <1>1
<1> QED
  BY <1>2, ChildSlots DEF ChildSlotsOK

\* From h to g, only nodes at the level k change what they hold, and only nodes
\* below it change where they hang.
Spares(h, g, lev, k) ==
  \A p \in Allocated(h) :
    /\ g[p].kind = h[p].kind
    /\ lev[p] >= k => g[p].parent = h[p].parent /\ g[p].index = h[p].index
    /\ lev[p] # k => /\ g[p].length = h[p].length
                     /\ g[p].children = h[p].children
                     /\ g[p].sizes = h[p].sizes
                     /\ g[p].next = h[p].next

\* Two such steps are one.
LEMMA SparesTwice ==
  ASSUME NEW h, NEW f, NEW g, NEW lev, NEW k, Spares(h, f, lev, k),
         Spares(f, g, lev, k), Allocated(f) = Allocated(h)
  PROVE  Spares(h, g, lev, k)
BY DEF Spares

\* simple_insert into an internal node.
LEMMA ChildInsertedFrame ==
  ASSUME NEW h \in Heap, NEW lev, Tree(h, lev), NEW g,
         NEW n \in Allocated(h), IsInternal(h, n),
         NEW i, NEW c \in Allocated(h), lev[n] = lev[c] + 1,
         NEW sz, ChildInserted(h, g, n, i, c, sz)
  PROVE  Spares(h, g, lev, lev[n])
<1> SUFFICES ASSUME NEW p \in Allocated(h)
             PROVE  /\ g[p].kind = h[p].kind
                    /\ lev[p] >= lev[n] =>
                         g[p].parent = h[p].parent /\ g[p].index = h[p].index
                    /\ lev[p] # lev[n] => /\ g[p].length = h[p].length
                                          /\ g[p].children = h[p].children
                                          /\ g[p].sizes = h[p].sizes
                                          /\ g[p].next = h[p].next
  BY DEF Spares
<1>1. p \in Ptr /\ lev[p] \in Nat /\ lev[n] \in Nat /\ lev[c] \in Nat
  BY DEF Allocated, Tree
<1>2. h[p].parent = n => lev[n] = lev[p] + 1
  <2>1. n # None
    BY DEF Allocated
  <2> QED
    BY <2>1, ParentOf
<1>3. /\ g[p].kind = h[p].kind
      /\ p # n => /\ g[p].length = h[p].length
                  /\ g[p].children = h[p].children
                  /\ g[p].sizes = h[p].sizes
      /\ g[p].next = h[p].next
      /\ p # c => g[p].parent = h[p].parent
      /\ p # c /\ h[p].parent # n => g[p].index = h[p].index
  BY <1>1 DEF ChildInserted
<1> QED
  BY <1>1, <1>2, <1>3

\* simple_remove from an internal node.
LEMMA ChildRemovedFrame ==
  ASSUME NEW h \in Heap, NEW lev, Tree(h, lev), NEW g,
         NEW n \in Allocated(h), IsInternal(h, n),
         NEW i \in Nat, i < h[n].length, ChildRemoved(h, g, n, i)
  PROVE  Spares(h, g, lev, lev[n])
<1> SUFFICES ASSUME NEW p \in Allocated(h)
             PROVE  /\ g[p].kind = h[p].kind
                    /\ lev[p] >= lev[n] =>
                         g[p].parent = h[p].parent /\ g[p].index = h[p].index
                    /\ lev[p] # lev[n] => /\ g[p].length = h[p].length
                                          /\ g[p].children = h[p].children
                                          /\ g[p].sizes = h[p].sizes
                                          /\ g[p].next = h[p].next
  BY DEF Spares
<1> DEFINE c == h[n].children[i]
<1>1. p \in Ptr /\ lev[p] \in Nat /\ lev[n] \in Nat
  BY DEF Allocated, Tree
<1>2. /\ h[p].parent = n => lev[n] = lev[p] + 1
      /\ lev[n] = lev[c] + 1
  <2>1. n # None
    BY DEF Allocated
  <2>2. h[p].parent = n => lev[n] = lev[p] + 1
    BY <2>1, ParentOf
  <2> QED
    BY <2>2, ChildOf
<1>3. /\ g[p].kind = h[p].kind
      /\ p # n => /\ g[p].length = h[p].length
                  /\ g[p].children = h[p].children
                  /\ g[p].sizes = h[p].sizes
      /\ g[p].next = h[p].next
      /\ p # c => g[p].parent = h[p].parent
      /\ p # c /\ h[p].parent # n => g[p].index = h[p].index
  BY <1>1 DEF ChildRemoved
<1> QED
  BY <1>1, <1>2, <1>3

\* merge.
LEMMA NodesMergedFrame ==
  ASSUME NEW h \in Heap, NEW lev, Tree(h, lev), NEW g, NEW dest, NEW src,
         Mergeable(h, lev, dest, src), NodesMerged(h, g, dest, src)
  PROVE  Spares(h, g, lev, lev[dest])
<1> SUFFICES ASSUME NEW p \in Allocated(h)
             PROVE  /\ g[p].kind = h[p].kind
                    /\ lev[p] >= lev[dest] =>
                         g[p].parent = h[p].parent /\ g[p].index = h[p].index
                    /\ lev[p] # lev[dest] => /\ g[p].length = h[p].length
                                          /\ g[p].children = h[p].children
                                          /\ g[p].sizes = h[p].sizes
                                          /\ g[p].next = h[p].next
  BY DEF Spares
<1>1. /\ p \in Ptr /\ lev[p] \in Nat /\ src \in Allocated(h) /\ src # None
      /\ lev[dest] = lev[src] /\ lev[src] \in Nat
  BY DEF Allocated, Tree, Mergeable
<1>2. h[p].parent = src => lev[src] = lev[p] + 1
  BY <1>1, ParentOf
<1>3. /\ g[p].kind = h[p].kind
      /\ p # dest /\ p # src => /\ g[p].length = h[p].length
                                /\ g[p].children = h[p].children
                                /\ g[p].sizes = h[p].sizes
                                /\ g[p].next = h[p].next
      /\ h[p].parent # src => g[p].parent = h[p].parent /\ g[p].index = h[p].index
  BY <1>1 DEF NodesMerged
<1> QED
  BY <1>1, <1>2, <1>3

-----------------------------------------------------------------------------
(***************************************************************************)
(* The operations of the trait Node, for leaves and internal nodes alike.  *)
(***************************************************************************)

\* The entry is one that position i of n can take.
InsertOK(h, lev, n, i, entry) ==
  /\ n \in Allocated(h) /\ i \in 0..h[n].length
  /\ entry \in [slot : Slot, size : Nat]
  /\ IF IsLeaf(h, n) THEN entry.slot \in Item
     ELSE entry.slot \in Roots(h) /\ lev[n] = lev[entry.slot] + 1

\* n has one more entry, and the rest of the tree is as it was.
Inserted(h, g, lev, n, slot) ==
  /\ Tree(g, lev)
  /\ Allocated(g) = Allocated(h)
  /\ Roots(g) = Roots(h) \ {slot}
  /\ Spares(h, g, lev, lev[n])
  /\ \A p \in Ptr : g[p].length = h[p].length + (IF p = n THEN 1 ELSE 0)
  /\ \A p \in Ptr : g[p].parent = IF p = slot THEN n ELSE h[p].parent

\* Of the kinds of an allocated node.
LEMMA Kinds ==
  ASSUME NEW h \in Heap, NEW n \in Allocated(h)
  PROVE  /\ n \in Ptr /\ n # None /\ h[n].length \in 0..B
         /\ ~ IsLeaf(h, n) <=> IsInternal(h, n)
BY FieldTypes DEF Allocated, IsLeaf, IsInternal

\* simple_insert.
LEMMA SimpleInsertTree ==
  ASSUME NEW h \in Heap, NEW lev, Tree(h, lev), NEW n, NEW i, NEW entry,
         InsertOK(h, lev, n, i, entry), h[n].length < B
  PROVE  Inserted(h, SimpleInsert(h, n, i, entry), lev, n, entry.slot)
<1> DEFINE g == SimpleInsert(h, n, i, entry)
           len == h[n].length
<1>0. n \in Allocated(h) /\ i \in 0..len /\ entry \in [slot : Slot, size : Nat]
  BY DEF InsertOK
<1>1. n \in Ptr /\ len \in 0..(B - 1) /\ (~ IsLeaf(h, n) <=> IsInternal(h, n))
      /\ i \in Nat /\ i <= len
  BY <1>0, Kinds
<1>2. \A p \in Ptr : g[p].length = h[p].length + (IF p = n THEN 1 ELSE 0)
  BY <1>0, <1>1, SimpleInsertType
<1>3. CASE IsLeaf(h, n)
  <2>0. entry.slot \in Item
    BY <1>3 DEF InsertOK
  <2> DEFINE ch == RotateIn(h[n].children, i, len, entry.slot)
  <2>1. LeafPut(h, g, n, ch, len + 1)
    BY <1>1, <1>3, SimpleInsertLeaf
  <2>4. \A j \in Position : j < len => h[n].children[j] \in Item
    BY <1>0, <1>3 DEF Tree, SlotsOK
  <2>5. HoldsItems(ch, len + 1)
    BY <1>1, <2>0, <2>4 DEF RotateIn, HoldsItems
  <2> HIDE DEF g, ch
  <2>6. LeavesEdited(h, g)
    BY <1>0, <1>3, <2>1, <2>5, LeafPutEdits
  <2>7. Tree(g, lev) /\ Allocated(g) = Allocated(h) /\ Roots(g) = Roots(h)
    BY <2>6, LeavesEditedTree
  <2>8. entry.slot \notin Roots(h)
    BY <2>0 DEF Roots, Allocated
  <2>9. Spares(h, g, lev, lev[n])
    BY <2>1 DEF Spares, Allocated, LeafPut
  <2>10. Roots(g) = Roots(h) \ {entry.slot}
    BY <2>7, <2>8
  <2>11. \A p \in Ptr :
           g[p].parent = IF p = entry.slot THEN n ELSE h[p].parent
    BY <2>0, <2>6 DEF LeavesEdited
  <2> QED
    BY <1>2, <1>3, <2>7, <2>9, <2>10, <2>11 DEF Inserted, g
<1>4. CASE ~ IsLeaf(h, n)
  <2> DEFINE c == entry.slot
             sz == entry.size
  <2>1. IsInternal(h, n) /\ c \in Roots(h) /\ lev[n] = lev[c] + 1
        /\ h[n].length < B /\ n \in Allocated(h) /\ i \in 0..h[n].length
    BY <1>0, <1>1, <1>4 DEF InsertOK
  <2>2. ChildInserted(h, g, n, i, c, sz)
    BY <1>0, <2>1, SimpleInsertInternal
  <2> HIDE DEF g, c, sz
  <2>3. Tree(g, lev) /\ Allocated(g) = Allocated(h) /\ Roots(g) = Roots(h) \ {c}
    BY <2>1, <2>2, ChildInsertedTree
  <2>4. c \in Allocated(h) /\ c \in Ptr
    BY <2>1 DEF Roots, Allocated
  <2>5. Spares(h, g, lev, lev[n])
    BY <1>0, <2>1, <2>2, <2>4, ChildInsertedFrame
  <2>6. \A p \in Ptr : g[p].parent = IF p = c THEN n ELSE h[p].parent
    BY <2>2 DEF ChildInserted
  <2> QED
    BY <1>2, <2>3, <2>5, <2>6 DEF Inserted, g, c
<1> QED
  BY <1>3, <1>4

\* n has lost entry i, and the rest of the tree is as it was: a child taken out
\* stands alone.
Removed(h, g, lev, n, i) ==
  /\ Tree(g, lev)
  /\ Allocated(g) = Allocated(h)
  /\ Roots(g) = Roots(h) \cup (IF IsLeaf(h, n) THEN {} ELSE {h[n].children[i]})
  /\ Spares(h, g, lev, lev[n])
  /\ \A p \in Ptr : g[p].length = h[p].length - (IF p = n THEN 1 ELSE 0)

\* simple_remove.
LEMMA SimpleRemoveTree ==
  ASSUME NEW h \in Heap, NEW lev, Tree(h, lev), NEW n \in Allocated(h),
         NEW i \in Nat, i < h[n].length
  PROVE  Removed(h, SimpleRemove(h, n, i), lev, n, i)
<1> DEFINE g == SimpleRemove(h, n, i)
           len == h[n].length
<1>1. n \in Ptr /\ len \in 1..B /\ (~ IsLeaf(h, n) <=> IsInternal(h, n))
  BY Kinds
<1>2. \A p \in Ptr : g[p].length = h[p].length - (IF p = n THEN 1 ELSE 0)
  BY <1>1, SimpleRemoveType
<1>3. CASE IsLeaf(h, n)
  <2> DEFINE ch == RotateOut(h[n].children, i, len, None)
  <2>1. LeafPut(h, g, n, ch, len - 1)
    BY <1>1, <1>3, SimpleRemoveLeaf
  <2>4. \A j \in Position : j < len => h[n].children[j] \in Item
    BY <1>3 DEF Tree, SlotsOK
  <2>5. HoldsItems(ch, len - 1)
    BY <1>1, <2>4 DEF RotateOut, HoldsItems
  <2> HIDE DEF g, ch
  <2>6. LeavesEdited(h, g)
    BY <1>3, <2>1, <2>5, LeafPutEdits
  <2>7. Tree(g, lev) /\ Allocated(g) = Allocated(h) /\ Roots(g) = Roots(h)
    BY <2>6, LeavesEditedTree
  <2>9. Spares(h, g, lev, lev[n])
    BY <2>1 DEF Spares, Allocated, LeafPut
  <2> QED
    BY <1>2, <1>3, <2>7, <2>9 DEF Removed, g
<1>4. CASE ~ IsLeaf(h, n)
  <2>1. IsInternal(h, n)
    BY <1>1, <1>4
  <2>2. ChildRemoved(h, g, n, i)
    BY <2>1, SimpleRemoveInternal
  <2> HIDE DEF g
  <2>3. Tree(g, lev) /\ Allocated(g) = Allocated(h)
        /\ Roots(g) = Roots(h) \cup {h[n].children[i]}
    BY <2>1, <2>2, ChildRemovedTree
  <2>4. Spares(h, g, lev, lev[n])
    BY <2>1, <2>2, ChildRemovedFrame
  <2> QED
    BY <1>2, <1>4, <2>3, <2>4 DEF Removed, g
<1> QED
  BY <1>3, <1>4

-----------------------------------------------------------------------------
(***************************************************************************)
(* insert_once.                                                            *)
(***************************************************************************)

\* What insert_once leaves: r.split is the half split off, if n was full.
InsertedOnce(h, r, lev, n, slot, new) ==
  LET g == r.heap
  IN  IF h[n].length < B
      THEN r.split = None /\ Inserted(h, g, lev, n, slot)
      ELSE /\ r.split = new
           /\ Tree(g, Beside(lev, n, new))
           /\ Allocated(g) = Allocated(h) \cup {new}
           /\ Roots(g) = (Roots(h) \ {slot}) \cup {new}
           /\ \A p \in Allocated(g) : IF p \in {n, new}
                                     THEN g[p].length >= MinLength
                                     ELSE g[p].length = h[p].length

\* A full node n is split at `left` first; the entry becomes entry j of m, the
\* one half or the other.
SplitFirst(h, r, lev, n, entry, new, left, m, j) ==
  LET f    == Split(h, n, left, new)
      lev2 == Beside(lev, n, new)
  IN  /\ r.heap = SimpleInsert(f, m, j, entry) /\ r.split = new
      /\ left >= MinLength /\ B - left >= MinLength
      /\ f \in Heap /\ NodeSplit(h, f, n, left, new)
      /\ Tree(f, lev2)
      /\ InsertOK(f, lev2, m, j, entry) /\ f[m].length < B

\* Which is how insert_once goes about it.
LEMMA InsertOnceSplits ==
  ASSUME NEW h \in Heap, NEW lev, Tree(h, lev), NEW n, NEW i, NEW entry,
         InsertOK(h, lev, n, i, entry), h[n].length = B, NEW new \in Free(h)
  PROVE  \E left \in 1..(B - 1), m \in {n, new}, j \in Nat :
           SplitFirst(h, InsertOnce(h, n, i, entry, new), lev, n, entry, new,
                      left, m, j)
<1> DEFINE larger == B - MinLength
           r == InsertOnce(h, n, i, entry, new)
           slot == entry.slot
           left == IF i >= larger THEN larger ELSE MinLength
           f == Split(h, n, left, new)
           m == IF i >= larger THEN new ELSE n
           j == IF i >= larger THEN i - larger ELSE i
           lev2 == Beside(lev, n, new)
<1>0. n \in Allocated(h) /\ i \in 0..h[n].length /\ entry \in [slot : Slot, size : Nat]
  BY DEF InsertOK
<1>1. /\ n \in Ptr /\ h[n].length \in 0..B /\ (~ IsLeaf(h, n) <=> IsInternal(h, n))
      /\ MinLength \in 1..(B - 1) /\ larger \in 1..(B - 1)
      /\ larger <= MinLength + 1
      /\ new \in Ptr /\ new \notin Allocated(h)
  BY <1>0, Kinds DEF MinLength, Free, Allocated
<1>2. r.heap = SimpleInsert(f, m, j, entry) /\ r.split = new
  BY <1>1 DEF InsertOnce
<1>3. /\ left \in 1..(B - 1) /\ left \in Nat
      /\ i >= larger => j \in 0..(B - left) /\ B - left < B
      /\ ~ (i >= larger) => j \in 0..left /\ left < B
  <2>1. i \in 0..B
    BY <1>0
  <2> HIDE DEF larger
  <2> QED
    BY <1>1, <2>1
<1>4. left >= MinLength /\ B - left >= MinLength
  BY DEF MinLength
<1>5. NodeSplit(h, f, n, left, new) /\ f \in Heap
  <2> HIDE DEF left
  <2> QED
    BY <1>0, <1>1, <1>3, SplitRelinks, SplitType
<1> HIDE DEF f, left, larger, r, lev2
<1>6. /\ Tree(f, lev2)
      /\ Allocated(f) = Allocated(h) \cup {new}
      /\ Roots(f) = Roots(h) \cup {new}
  <2>1. n \in Allocated(h) /\ left \in 1..(B - 1)
    BY <1>0, <1>3
  <2> QED
    BY <1>5, <2>1, NodeSplitTree DEF lev2
<1>7. /\ f[n].length = left /\ f[new].length = B - left
      /\ f[new].kind = h[n].kind /\ f[n].kind = h[n].kind
  BY <1>0, <1>1, <1>5 DEF NodeSplit
<1>8. /\ m \in Allocated(f) /\ m \in Ptr /\ j \in 0..f[m].length /\ f[m].length < B
      /\ IsLeaf(f, m) <=> IsLeaf(h, n)
      /\ m \in {n, new} /\ j \in Nat
  BY <1>0, <1>1, <1>3, <1>6, <1>7 DEF IsLeaf
<1>9. /\ \A p \in Ptr : p # new => lev2[p] = lev[p]
      /\ lev2[m] = lev[n]
  BY <1>1 DEF Tree, Beside, lev2
<1> HIDE DEF m, j
<1>10. InsertOK(f, lev2, m, j, entry)
  <2>1. CASE IsLeaf(h, n)
    BY <1>0, <1>8, <2>1 DEF InsertOK
  <2>2. CASE ~ IsLeaf(h, n)
    <3>1. slot \in Roots(h) /\ lev[n] = lev[slot] + 1 /\ slot \in Ptr /\ slot # new
      BY <1>1, <2>2 DEF InsertOK, Roots, Allocated
    <3>2. slot \in Roots(f) /\ lev2[m] = lev2[slot] + 1
      BY <1>6, <1>9, <3>1
    <3> QED
      BY <1>0, <1>8, <2>2, <3>2 DEF InsertOK
  <2> QED
    BY <2>1, <2>2
<1>11. SplitFirst(h, r, lev, n, entry, new, left, m, j)
  BY <1>2, <1>4, <1>5, <1>6, <1>8, <1>10 DEF SplitFirst, f, lev2
<1> QED
  BY <1>3, <1>8, <1>11 DEF r

\* insert_once.
LEMMA InsertOnceTree ==
  ASSUME NEW h \in Heap, NEW lev, Tree(h, lev), NEW n, NEW i, NEW entry,
         InsertOK(h, lev, n, i, entry),
         NEW new, h[n].length = B => new \in Free(h)
  PROVE  InsertedOnce(h, InsertOnce(h, n, i, entry, new), lev, n, entry.slot, new)
<1> DEFINE r == InsertOnce(h, n, i, entry, new)
           slot == entry.slot
<1>1. n \in Allocated(h) /\ n \in Ptr /\ h[n].length \in 0..B
  BY Kinds DEF InsertOK
<1>2. CASE h[n].length < B
  <2>1. r.heap = SimpleInsert(h, n, i, entry) /\ r.split = None
    BY <1>2 DEF InsertOnce
  <2>2. Inserted(h, r.heap, lev, n, slot)
    BY <1>2, <2>1, SimpleInsertTree
  <2> QED
    BY <1>2, <2>1, <2>2 DEF InsertedOnce
<1>3. CASE ~ (h[n].length < B)
  <2>0. h[n].length = B /\ new \in Free(h) /\ new \in Ptr /\ new \notin Allocated(h)
    BY <1>1, <1>3 DEF Free, Allocated
  <2>1. PICK left \in 1..(B - 1), m \in {n, new}, j \in Nat :
          SplitFirst(h, r, lev, n, entry, new, left, m, j)
    BY <2>0, InsertOnceSplits
  <2> DEFINE f == Split(h, n, left, new)
             lev2 == Beside(lev, n, new)
  <2> HIDE DEF f, r, lev2
  <2>2. /\ r.heap = SimpleInsert(f, m, j, entry) /\ r.split = new
        /\ left >= MinLength /\ B - left >= MinLength
        /\ f \in Heap /\ NodeSplit(h, f, n, left, new) /\ Tree(f, lev2)
        /\ InsertOK(f, lev2, m, j, entry) /\ f[m].length < B
    BY <2>1 DEF SplitFirst, f, lev2
  <2>3. /\ Allocated(f) = Allocated(h) \cup {new}
        /\ Roots(f) = Roots(h) \cup {new}
    BY <1>1, <2>0, <2>2, NodeSplitTree
  <2>4. /\ f[n].length = left /\ f[new].length = B - left
        /\ \A p \in Ptr : p # n /\ p # new => f[p].length = h[p].length
    BY <1>1, <2>0, <2>2 DEF NodeSplit
  <2>5. Inserted(f, r.heap, lev2, m, slot)
    BY <2>2, SimpleInsertTree
  <2>6. ASSUME NEW p \in Allocated(r.heap)
        PROVE  IF p \in {n, new} THEN r.heap[p].length >= MinLength
                                 ELSE r.heap[p].length = h[p].length
    <3>1. p \in Ptr
      BY DEF Allocated
    <3>2. /\ r.heap[p].length = f[p].length + (IF p = m THEN 1 ELSE 0)
          /\ f[p].length \in Nat
      BY <2>2, <2>5, <3>1, FieldTypes DEF Inserted
    <3>3. p # n /\ p # new => f[p].length = h[p].length
      BY <2>4, <3>1
    <3>4. p = n \/ p = new => f[p].length >= MinLength
      BY <2>2, <2>4
    <3>5. MinLength \in Nat
      BY DEF MinLength
    <3> QED
      BY <3>2, <3>3, <3>4, <3>5
  <2>7. slot # new
    <3>1. IF IsLeaf(h, n) THEN slot \in Item ELSE slot \in Allocated(h)
      BY DEF InsertOK, Roots
    <3> QED
      BY <2>0, <3>1
  <2>8. Roots(r.heap) = (Roots(h) \ {slot}) \cup {new}
    BY <2>3, <2>5, <2>7 DEF Inserted
  <2>9. Tree(r.heap, lev2) /\ Allocated(r.heap) = Allocated(h) \cup {new}
    BY <2>3, <2>5 DEF Inserted
  <2> QED
    BY <1>3, <2>2, <2>6, <2>8, <2>9 DEF InsertedOnce, lev2, r
<1> QED
  BY <1>2, <1>3

-----------------------------------------------------------------------------
(***************************************************************************)
(* remove_once.                                                            *)
(***************************************************************************)

\* Two children of one parent.
Siblings(h, lev, a, b) ==
  /\ a \in Allocated(h) /\ b \in Allocated(h) /\ a # b
  /\ h[a].parent # None /\ h[a].parent = h[b].parent
  /\ lev[a] = lev[b] /\ h[a].index # h[b].index

\* siblings_mut returns siblings.
LEMMA SiblingsFound ==
  ASSUME NEW h \in Heap, NEW lev, Tree(h, lev), NEW n \in Allocated(h),
         NEW s \in {LeftSibling(h, n), RightSibling(h, n)}, s # None
  PROVE  Siblings(h, lev, s, n) /\ Siblings(h, lev, n, s)
<1> DEFINE q == h[n].parent
           k == IF s = LeftSibling(h, n) THEN h[n].index - 1 ELSE h[n].index + 1
<1>1. q # None
  BY DEF LeftSibling, RightSibling
<1>2. /\ q \in Allocated(h) /\ IsInternal(h, q)
      /\ h[n].index \in Nat /\ h[n].index < h[q].length
      /\ lev[q] = lev[n] + 1
  BY <1>1, ParentOf
<1>3. s = ChildPtr(h, q, k) /\ k \in Nat /\ k # h[n].index
  <2>1. CASE s = LeftSibling(h, n)
    BY <1>1, <1>2, <2>1 DEF LeftSibling
  <2>2. CASE s # LeftSibling(h, n)
    <3>1. s = RightSibling(h, n)
      BY <2>2
    <3> QED
      BY <1>1, <1>2, <2>2, <3>1 DEF RightSibling
  <2> QED
    BY <2>1, <2>2
<1> HIDE DEF k, q
<1>4. k < h[q].length /\ s = h[q].children[k]
  BY <1>3 DEF ChildPtr
<1>5. /\ s \in Allocated(h) /\ h[s].parent = q /\ h[s].index = k
      /\ lev[q] = lev[s] + 1
  BY <1>2, <1>3, <1>4, ChildOf
<1>6. lev[s] \in Nat /\ lev[n] \in Nat
  BY <1>5 DEF Tree, Allocated
<1>7. lev[s] = lev[n]
  BY <1>2, <1>5, <1>6
<1> QED
  BY <1>1, <1>3, <1>5, <1>7 DEF Siblings, q

\* p is the node that the removal has emptied into a sibling.
EmptiedBy(h, n, r, p) ==
  /\ r.kind = "Merged"
  /\ h[p].parent # None /\ h[p].parent = h[n].parent
  /\ h[p].index = r.src

\* The tree after an exchange with a sibling: nothing below or above the two
\* notices, and no node is left empty but the one that is reported.
Rebalanced(h, r, lev, n) ==
  LET g == r.heap
  IN  /\ Tree(g, lev)
      /\ Allocated(g) = Allocated(h)
      /\ Roots(g) = Roots(h)
      /\ Spares(h, g, lev, lev[n])
      /\ RemovalFits(g, n, r.removal)
      /\ \A p \in Allocated(h) : lev[p] = lev[n] /\ g[p].length = 0 =>
           h[p].length = 0 \/ EmptiedBy(g, n, r.removal, p)

\* What two siblings and their parent keep.
SiblingsKept(h, g, a, b) ==
  LET q == h[a].parent
  IN  /\ g[a].parent = q /\ g[b].parent = q
      /\ g[a].index = h[a].index /\ g[b].index = h[b].index
      /\ g[q].length = h[q].length /\ g[q].children = h[q].children
      /\ h[a].index < h[q].length /\ h[b].index < h[q].length
      /\ h[q].children[h[a].index] = a /\ h[q].children[h[b].index] = b

\* A change inside two siblings keeps it.
LEMMA SiblingsFrame ==
  ASSUME NEW h \in Heap, NEW lev, Tree(h, lev), NEW g, NEW a, NEW b,
         Siblings(h, lev, a, b), Spares(h, g, lev, lev[a])
  PROVE  SiblingsKept(h, g, a, b)
<1> DEFINE q == h[a].parent
<1>1. /\ a \in Allocated(h) /\ b \in Allocated(h) /\ q # None /\ h[b].parent = q
      /\ lev[a] = lev[b]
  BY DEF Siblings
<1>2. /\ q \in Allocated(h)
      /\ h[a].index < h[q].length /\ h[q].children[h[a].index] = a
      /\ lev[q] = lev[a] + 1
  BY <1>1, ParentOf
<1>3. /\ h[b].index < h[q].length /\ h[q].children[h[b].index] = b
  BY <1>1, ParentOf
<1> HIDE DEF q
<1>4. lev[a] \in Nat /\ lev[q] # lev[a]
  BY <1>1, <1>2 DEF Tree, Allocated
<1>5. g[q].length = h[q].length /\ g[q].children = h[q].children
  BY <1>2, <1>4 DEF Spares
<1>6. /\ g[a].parent = h[a].parent /\ g[b].parent = h[b].parent
      /\ g[a].index = h[a].index /\ g[b].index = h[b].index
  BY <1>1, <1>4 DEF Spares
<1> QED
  BY <1>1, <1>2, <1>3, <1>5, <1>6 DEF q, SiblingsKept

\* Entry i has left donor, and n can take it as entry j.
Lent(h, f, lev, donor, i, n, j) ==
  LET entry == Taken(h, donor, i)
  IN  /\ f \in Heap /\ Removed(h, f, lev, donor, i)
      /\ f[n].length = h[n].length
      /\ InsertOK(f, lev, n, j, entry)
      /\ entry.slot = h[donor].children[i] /\ entry.slot \notin Roots(h)
      /\ Roots(f) \ {entry.slot} = Roots(h)

\* An entry that leaves a sibling.
LEMMA MoveEntryLends ==
  ASSUME NEW h \in Heap, NEW lev, Tree(h, lev), NEW donor, NEW n,
         Siblings(h, lev, donor, n),
         NEW i \in Nat, i < h[donor].length, NEW j \in 0..h[n].length
  PROVE  Lent(h, SimpleRemove(h, donor, i), lev, donor, i, n, j)
<1> DEFINE f == SimpleRemove(h, donor, i)
           entry == Taken(h, donor, i)
           slot == h[donor].children[i]
<1>1. /\ donor \in Allocated(h) /\ n \in Allocated(h) /\ donor # n
      /\ lev[donor] = lev[n] /\ donor \in Ptr /\ n \in Ptr
      /\ h[donor].index # h[n].index
  BY DEF Siblings, Allocated
<1>2. entry.slot = slot
  BY DEF Taken, Entry
<1>3. Removed(h, f, lev, donor, i)
  BY <1>1, SimpleRemoveTree
<1>4. f \in Heap /\ entry \in [slot : Slot, size : Nat]
  BY <1>1, SimpleRemoveType
<1> HIDE DEF f, entry
<1>5. /\ Tree(f, lev) /\ Allocated(f) = Allocated(h) /\ Spares(h, f, lev, lev[donor])
      /\ f[n].length = h[n].length
      /\ IsLeaf(f, n) <=> IsLeaf(h, n)
  BY <1>1, <1>3, FieldTypes DEF Removed, Spares, IsLeaf
<1>6. IsLeaf(h, n) <=> IsLeaf(h, donor)
  BY <1>1 DEF Tree
<1>7. InsertOK(f, lev, n, j, entry) /\ slot \notin Roots(h)
      /\ Roots(f) \ {slot} = Roots(h)
  <2>1. CASE IsLeaf(h, donor)
    <3>1. i \in Position
      BY <1>1, FieldTypes
    <3>2. slot \in Item
      BY <1>1, <2>1, <3>1 DEF Tree, SlotsOK
    <3>3. slot \notin Roots(h)
      BY <3>2 DEF Roots, Allocated
    <3> HIDE DEF slot
    <3> QED
      BY <1>1, <1>2, <1>3, <1>4, <1>5, <1>6, <2>1, <3>2, <3>3 DEF InsertOK, Removed
  <2>2. CASE ~ IsLeaf(h, donor)
    <3>1. IsInternal(h, donor) /\ donor # None
      BY <1>1, <2>2, Kinds
    <3>2. h[slot].parent = donor /\ lev[donor] = lev[slot] + 1
      BY <1>1, <3>1, ChildOf
    <3>3. Roots(f) = Roots(h) \cup {slot}
      BY <1>3, <2>2 DEF Removed
    <3> HIDE DEF slot
    <3>4. slot \notin Roots(h)
      BY <3>1, <3>2 DEF Roots
    <3> QED
      BY <1>1, <1>2, <1>4, <1>5, <1>6, <2>2, <3>2, <3>3, <3>4 DEF InsertOK
  <2> QED
    BY <2>1, <2>2
<1> HIDE DEF slot
<1> QED
  BY <1>2, <1>3, <1>4, <1>5, <1>7 DEF Lent, slot, f, entry

\* An entry moved from a sibling that has more than one.
LEMMA MoveEntryTree ==
  ASSUME NEW h \in Heap, NEW lev, Tree(h, lev), NEW donor, NEW n,
         Siblings(h, lev, donor, n),
         NEW i \in Nat, i < h[donor].length, h[donor].length > 1,
         NEW j \in 0..h[n].length, h[n].length < B
  PROVE  Rebalanced(h, MoveEntry(h, donor, i, n, j), lev, n)
<1> DEFINE f == SimpleRemove(h, donor, i)
           entry == Taken(h, donor, i)
           g == SimpleInsert(f, n, j, entry)
           slot == entry.slot
           r == MoveEntry(h, donor, i, n, j)
<1>1. /\ donor \in Allocated(h) /\ n \in Allocated(h) /\ donor # n
      /\ lev[donor] = lev[n] /\ donor \in Ptr /\ n \in Ptr
      /\ h[donor].index # h[n].index
  BY DEF Siblings, Allocated
<1>2. /\ r.heap = g /\ r.removal.kind = "Moved"
      /\ r.removal.src = h[donor].index /\ r.removal.dest = h[n].index
  BY DEF MoveEntry
<1>3. Lent(h, f, lev, donor, i, n, j)
  BY MoveEntryLends
<1> HIDE DEF r, f
<1>4. /\ f \in Heap /\ Removed(h, f, lev, donor, i)
      /\ f[n].length = h[n].length /\ InsertOK(f, lev, n, j, entry)
      /\ slot \notin Roots(h) /\ Roots(f) \ {slot} = Roots(h)
  BY <1>3 DEF Lent
<1> HIDE DEF entry
<1>5. Tree(f, lev) /\ Allocated(f) = Allocated(h) /\ Spares(h, f, lev, lev[donor])
  BY <1>4 DEF Removed
<1>6. Inserted(f, g, lev, n, slot)
  BY <1>4, <1>5, SimpleInsertTree
<1> HIDE DEF slot
<1> HIDE DEF g
<1>7. Tree(g, lev) /\ Allocated(g) = Allocated(h) /\ Roots(g) = Roots(h)
  BY <1>4, <1>5, <1>6 DEF Inserted
<1>8. Spares(h, g, lev, lev[n])
  BY <1>1, <1>5, <1>6, SparesTwice DEF Inserted
<1>9. RemovalFits(g, n, r.removal)
  <2>1. Spares(h, g, lev, lev[donor])
    BY <1>1, <1>8
  <2>2. /\ g[n].parent = h[donor].parent /\ h[donor].parent # None
        /\ g[h[donor].parent].length = h[h[donor].parent].length
        /\ h[donor].index < h[h[donor].parent].length
        /\ h[n].index < h[h[donor].parent].length
    <3>1. SiblingsKept(h, g, donor, n)
      BY <2>1, SiblingsFrame
    <3> QED
      BY <3>1 DEF SiblingsKept, Siblings
  <2> QED
    BY <1>1, <1>2, <2>2 DEF RemovalFits
<1>10. ASSUME NEW p \in Allocated(h), g[p].length = 0
       PROVE  h[p].length = 0
  <2>1. /\ g[p].length = f[p].length + (IF p = n THEN 1 ELSE 0)
        /\ f[p].length = h[p].length - (IF p = donor THEN 1 ELSE 0)
        /\ h[p].length \in Nat
    BY <1>4, <1>6, FieldTypes DEF Removed, Inserted, Allocated
  <2> QED
    BY <1>10, <2>1
<1> QED
  BY <1>2, <1>7, <1>8, <1>9, <1>10 DEF Rebalanced, r

\* What merge checks makes two siblings fit into one.
LEMMA CanMerge ==
  ASSUME NEW h \in Heap, NEW lev, Tree(h, lev), NEW dest, NEW src,
         Siblings(h, lev, dest, src), ~ MergePanics(h, dest, src)
  PROVE  Mergeable(h, lev, dest, src)
<1>1. h[dest].length \in 0..B /\ h[src].length \in 0..B
  BY Kinds DEF Siblings
<1>2. h[dest].length <= MinLength /\ h[src].length <= MinLength
  BY <1>1 DEF MergePanics, MinLength
<1>3. h[dest].length + h[src].length <= B
  BY <1>1, <1>2 DEF MinLength
<1>4. IsInternal(h, dest) => h[dest].length >= 1
  BY <1>1 DEF MergePanics, IsLeaf, IsInternal, ChildPtr
<1> QED
  BY <1>3, <1>4 DEF Mergeable, Siblings

\* Two siblings merged.
LEMMA MergeIntoTree ==
  ASSUME NEW h \in Heap, NEW lev, Tree(h, lev), NEW dest, NEW src,
         Siblings(h, lev, dest, src), ~ MergePanics(h, dest, src),
         NEW n \in {dest, src}
  PROVE  Rebalanced(h, MergeInto(h, dest, src), lev, n)
<1> DEFINE g == Merge(h, dest, src)
           r == MergeInto(h, dest, src)
           q == h[dest].parent
<1>1. /\ dest \in Allocated(h) /\ src \in Allocated(h) /\ dest # src
      /\ lev[dest] = lev[src] /\ lev[n] = lev[dest]
      /\ h[dest].index # h[src].index /\ q # None /\ h[src].parent = q
  BY DEF Siblings
<1>2. /\ r.heap = g /\ r.removal.kind = "Merged"
      /\ r.removal.src = h[src].index /\ r.removal.dest = h[dest].index
  BY DEF MergeInto
<1>3. Mergeable(h, lev, dest, src)
  BY CanMerge
<1>4. NodesMerged(h, g, dest, src)
  BY <1>3, MergeRelinks
<1> HIDE DEF r, g
<1>5. Tree(g, lev) /\ Allocated(g) = Allocated(h) /\ Roots(g) = Roots(h)
  BY <1>3, <1>4, NodesMergedTree
<1>6. Spares(h, g, lev, lev[dest])
  BY <1>3, <1>4, NodesMergedFrame
<1>7. /\ g[dest].parent = q /\ g[src].parent = q
      /\ g[dest].index = h[dest].index /\ g[src].index = h[src].index
      /\ g[q].length = h[q].length /\ g[q].children = h[q].children
      /\ h[dest].index < h[q].length /\ h[src].index < h[q].length
      /\ h[q].children[h[src].index] = src
  <2>1. SiblingsKept(h, g, dest, src)
    BY <1>6, SiblingsFrame
  <2> QED
    BY <2>1 DEF SiblingsKept
<1>8. /\ g[src].length = 0
      /\ g[dest].length = h[dest].length + h[src].length
      /\ \A p \in Allocated(h) : p # src /\ p # dest => g[p].length = h[p].length
  BY <1>1, <1>4 DEF NodesMerged, Allocated
<1> HIDE DEF q
<1>9. RemovalFits(g, n, r.removal)
  BY <1>1, <1>2, <1>7, <1>8 DEF RemovalFits
<1>10. ASSUME NEW p \in Allocated(h), g[p].length = 0
       PROVE  h[p].length = 0 \/ EmptiedBy(g, n, r.removal, p)
  <2>1. CASE p = src
    BY <1>1, <1>2, <1>7, <2>1 DEF EmptiedBy
  <2>2. CASE p = dest
    <3>1. h[dest].length \in Nat /\ h[src].length \in Nat
      BY <1>1, Kinds
    <3> QED
      BY <1>8, <1>10, <2>2, <3>1
  <2>3. CASE p # src /\ p # dest
    BY <1>8, <1>10, <2>3
  <2> QED
    BY <2>1, <2>2, <2>3
<1> QED
  BY <1>1, <1>2, <1>5, <1>6, <1>9, <1>10 DEF Rebalanced, r

\* The sibling s lends n its nearest entry.
LendsTo(h, r, s, n) ==
  /\ CanLend(h, s) /\ h[n].length < MinLength
  /\ \/ /\ h[n].index = h[s].index + 1
        /\ r = MoveEntry(h, s, h[s].length - 1, n, 0)
     \/ /\ h[s].index = h[n].index + 1
        /\ r = MoveEntry(h, s, 0, n, h[n].length)

\* The sibling src to the right of dest goes into it.
GoesInto(h, r, src, dest) ==
  /\ ~ MergePanics(h, dest, src)
  /\ h[src].index = h[dest].index + 1
  /\ r = MergeInto(h, dest, src)

\* What remove_once does about a node it has taken an entry from.
RebalancedBy(h, r, lev, n) ==
  \/ r.heap = h /\ r.removal = Absorbed(h, n)
  \/ \E s \in Ptr : Siblings(h, lev, s, n) /\ LendsTo(h, r, s, n)
  \/ \E s \in Ptr : Siblings(h, lev, n, s) /\ GoesInto(h, r, s, n)
  \/ \E s \in Ptr : Siblings(h, lev, s, n) /\ GoesInto(h, r, n, s)

\* The siblings are next to the node.
LEMMA SiblingsBeside ==
  ASSUME NEW h \in Heap, NEW lev, Tree(h, lev), NEW n \in Allocated(h)
  PROVE  /\ LeftSibling(h, n) # None =>
              h[n].index = h[LeftSibling(h, n)].index + 1
         /\ RightSibling(h, n) # None =>
              h[RightSibling(h, n)].index = h[n].index + 1
<1> DEFINE q == h[n].parent
           i == h[n].index
<1>1. ASSUME q # None, NEW k \in Nat, ChildPtr(h, q, k) # None
      PROVE  h[ChildPtr(h, q, k)].index = k
  <2>1. q \in Allocated(h) /\ IsInternal(h, q)
    BY <1>1, ParentOf
  <2>2. k < h[q].length /\ ChildPtr(h, q, k) = h[q].children[k]
    BY <1>1 DEF ChildPtr
  <2> HIDE DEF q
  <2> QED
    BY <2>1, <2>2, ChildOf
<1>2. i \in Nat
  BY FieldTypes DEF Allocated
<1>3. ASSUME LeftSibling(h, n) # None PROVE i = h[LeftSibling(h, n)].index + 1
  <2>1. q # None /\ i # 0 /\ LeftSibling(h, n) = ChildPtr(h, q, i - 1)
    BY <1>3 DEF LeftSibling
  <2>2. i - 1 \in Nat
    BY <1>2, <2>1
  <2> HIDE DEF q, i
  <2>3. h[LeftSibling(h, n)].index = i - 1
    BY <1>1, <1>3, <2>1, <2>2
  <2> QED
    BY <1>2, <2>3
<1>4. ASSUME RightSibling(h, n) # None PROVE h[RightSibling(h, n)].index = i + 1
  <2>1. q # None /\ RightSibling(h, n) = ChildPtr(h, q, i + 1)
    BY <1>4 DEF RightSibling
  <2>2. i + 1 \in Nat
    BY <1>2
  <2> HIDE DEF q, i
  <2> QED
    BY <1>1, <1>4, <2>1, <2>2
<1> QED
  BY <1>3, <1>4

\* The search for a sibling that helps.
LEMMA RebalanceCases ==
  ASSUME NEW h \in Heap, NEW lev, Tree(h, lev), NEW n \in Allocated(h),
         ~ RebalancePanics(h, n)
  PROVE  RebalancedBy(h, Rebalance(h, n), lev, n)
<1> DEFINE left == LeftSibling(h, n)
           right == RightSibling(h, n)
           r == Rebalance(h, n)
<1>1. h[n].length \in 0..B /\ MinLength \in 1..(B - 1)
  BY Kinds DEF MinLength
<1>2. left \in PtrOrNone /\ right \in PtrOrNone
  BY SiblingType
<1>3. /\ left # None => Siblings(h, lev, left, n) /\ Siblings(h, lev, n, left)
      /\ right # None => Siblings(h, lev, right, n) /\ Siblings(h, lev, n, right)
  BY SiblingsFound
<1>4. /\ left # None => h[n].index = h[left].index + 1
      /\ right # None => h[right].index = h[n].index + 1
  BY SiblingsBeside
<1>5. CASE h[n].length >= MinLength \/ (left = None /\ right = None)
  BY <1>5 DEF Rebalance, RebalancedBy
<1>6. CASE ~ (h[n].length >= MinLength \/ (left = None /\ right = None))
  <2>0. h[n].length < MinLength
    BY <1>1, <1>6
  <2>1. r = IF CanLend(h, left)
            THEN MoveEntry(h, left, h[left].length - 1, n, 0)
            ELSE IF CanLend(h, right)
            THEN MoveEntry(h, right, 0, n, h[n].length)
            ELSE IF right # None
            THEN MergeInto(h, n, right)
            ELSE MergeInto(h, left, n)
    BY <1>6 DEF Rebalance
  <2>2. ~ CanLend(h, left) /\ ~ CanLend(h, right) =>
          /\ right # None => ~ MergePanics(h, n, right)
          /\ right = None => ~ MergePanics(h, left, n)
    BY <2>0, <1>6 DEF RebalancePanics
  <2>3. /\ CanLend(h, left) => left \in Ptr /\ left # None
        /\ CanLend(h, right) => right \in Ptr /\ right # None
        /\ left # None \/ right # None
    BY <1>6 DEF CanLend
  <2> HIDE DEF left, right, r
  <2>4. CASE CanLend(h, left)
    <3>1. LendsTo(h, r, left, n)
      BY <1>4, <2>0, <2>1, <2>3, <2>4 DEF LendsTo
    <3> QED
      BY <1>3, <2>3, <2>4, <3>1 DEF RebalancedBy, r
  <2>5. CASE ~ CanLend(h, left) /\ CanLend(h, right)
    <3>1. LendsTo(h, r, right, n)
      BY <1>4, <2>0, <2>1, <2>3, <2>5 DEF LendsTo
    <3> QED
      BY <1>3, <2>3, <2>5, <3>1 DEF RebalancedBy, r
  <2>6. CASE ~ CanLend(h, left) /\ ~ CanLend(h, right) /\ right # None
    <3>1. GoesInto(h, r, right, n)
      BY <1>4, <2>1, <2>2, <2>6 DEF GoesInto
    <3>2. right \in Ptr
      BY <1>2, <2>6 DEF PtrOrNone
    <3> QED
      BY <1>3, <2>6, <3>1, <3>2 DEF RebalancedBy, r
  <2>7. CASE ~ CanLend(h, left) /\ ~ CanLend(h, right) /\ right = None
    <3>1. left # None /\ left \in Ptr
      BY <1>2, <2>3, <2>7 DEF PtrOrNone
    <3>2. GoesInto(h, r, n, left)
      BY <1>4, <2>1, <2>2, <2>7, <3>1 DEF GoesInto
    <3> QED
      BY <1>3, <3>1, <3>2 DEF RebalancedBy, r
  <2> QED
    BY <2>4, <2>5, <2>6, <2>7
<1> QED
  BY <1>5, <1>6

\* The tree it leaves.
LEMMA RebalanceTree ==
  ASSUME NEW h \in Heap, NEW lev, Tree(h, lev), NEW n \in Allocated(h),
         ~ RebalancePanics(h, n)
  PROVE  Rebalanced(h, Rebalance(h, n), lev, n)
<1> DEFINE r == Rebalance(h, n)
<1>1. /\ h[n].length \in 0..B /\ n \in Ptr /\ MinLength \in 1..(B - 1)
      /\ 0 \in 0..h[n].length /\ h[n].length \in 0..h[n].length
  BY Kinds DEF MinLength
<1>2. RebalancedBy(h, r, lev, n)
  BY RebalanceCases
<1> HIDE DEF r
<1>3. CASE r.heap = h /\ r.removal = Absorbed(h, n)
  <2>1. RemovalFits(h, n, r.removal) /\ Spares(h, h, lev, lev[n])
    BY <1>3 DEF RemovalFits, Absorbed, Spares
  <2> QED
    BY <1>3, <2>1 DEF Rebalanced, r
<1>4. ASSUME NEW s \in Ptr, Siblings(h, lev, s, n), LendsTo(h, r, s, n)
      PROVE  Rebalanced(h, r, lev, n)
  <2>1. h[s].length > MinLength /\ h[n].length < MinLength /\ h[s].length \in 0..B
    BY <1>4, FieldTypes DEF LendsTo, CanLend
  <2> DEFINE i == h[s].length - 1
  <2>2. /\ h[s].length > 1 /\ h[n].length < B
        /\ i \in Nat /\ i < h[s].length /\ 0 \in Nat /\ 0 < h[s].length
    BY <1>1, <2>1
  <2>3. \/ r = MoveEntry(h, s, i, n, 0)
        \/ r = MoveEntry(h, s, 0, n, h[n].length)
    BY <1>4 DEF LendsTo
  <2> HIDE DEF i
  <2>4. /\ Rebalanced(h, MoveEntry(h, s, i, n, 0), lev, n)
        /\ Rebalanced(h, MoveEntry(h, s, 0, n, h[n].length), lev, n)
    BY <1>1, <1>4, <2>2, MoveEntryTree
  <2> QED
    BY <2>3, <2>4
<1>5. ASSUME NEW s \in Ptr, Siblings(h, lev, n, s), GoesInto(h, r, s, n)
      PROVE  Rebalanced(h, r, lev, n)
  BY <1>5, MergeIntoTree DEF GoesInto
<1>6. ASSUME NEW s \in Ptr, Siblings(h, lev, s, n), GoesInto(h, r, n, s)
      PROVE  Rebalanced(h, r, lev, n)
  BY <1>6, MergeIntoTree DEF GoesInto
<1> QED
  BY <1>2, <1>3, <1>4, <1>5, <1>6 DEF RebalancedBy, r

\* What remove_once leaves: a child taken out stands alone, and no node is left
\* empty but n itself, if it had one entry, and the one that is reported.
RemovedOnce(h, r, lev, n, i) ==
  LET g == r.heap
  IN  /\ Tree(g, lev)
      /\ Allocated(g) = Allocated(h)
      /\ Roots(g) = Roots(h) \cup (IF IsLeaf(h, n) THEN {} ELSE {h[n].children[i]})
      /\ Spares(h, g, lev, lev[n])
      /\ RemovalFits(g, n, r.removal)
      /\ \A p \in Allocated(h) : lev[p] = lev[n] /\ g[p].length = 0 =>
           \/ h[p].length = 0
           \/ p = n /\ h[n].length = 1
           \/ EmptiedBy(g, n, r.removal, p)

\* remove_once.
LEMMA RemoveOnceTree ==
  ASSUME NEW h \in Heap, NEW lev, Tree(h, lev), NEW n \in Allocated(h),
         NEW i \in Nat, ~ RemovePanics(h, n, i)
  PROVE  RemovedOnce(h, RemoveOnce(h, n, i), lev, n, i)
<1> DEFINE f == SimpleRemove(h, n, i)
           r == RemoveOnce(h, n, i)
<1>1. n \in Ptr /\ h[n].length \in 0..B
  BY Kinds
<1>2. i < h[n].length /\ ~ RebalancePanics(f, n)
  BY <1>1 DEF RemovePanics
<1>3. Removed(h, f, lev, n, i)
  BY <1>2, SimpleRemoveTree
<1>4. f \in Heap
  BY <1>1, <1>2, SimpleRemoveType
<1>5. r = Rebalance(f, n)
  BY DEF RemoveOnce
<1> HIDE DEF f, r
<1>6. Rebalanced(f, r, lev, n)
  BY <1>2, <1>3, <1>4, <1>5, RebalanceTree DEF Removed
<1> DEFINE g == r.heap
<1> HIDE DEF g
<1>7. /\ Tree(g, lev) /\ Allocated(g) = Allocated(h) /\ Roots(g) = Roots(f)
      /\ RemovalFits(g, n, r.removal) /\ Spares(f, g, lev, lev[n])
      /\ Spares(h, f, lev, lev[n]) /\ Allocated(f) = Allocated(h)
      /\ Roots(f) = Roots(h) \cup (IF IsLeaf(h, n) THEN {} ELSE {h[n].children[i]})
  BY <1>3, <1>6 DEF Rebalanced, Removed, g
<1>8. Spares(h, g, lev, lev[n])
  BY <1>7, SparesTwice
<1>9. ASSUME NEW p \in Allocated(h), lev[p] = lev[n], g[p].length = 0
      PROVE  \/ h[p].length = 0
             \/ p = n /\ h[n].length = 1
             \/ EmptiedBy(g, n, r.removal, p)
  <2>1. f[p].length = 0 \/ EmptiedBy(g, n, r.removal, p)
    BY <1>6, <1>7, <1>9 DEF Rebalanced, g
  <2>2. f[p].length = h[p].length - (IF p = n THEN 1 ELSE 0) /\ h[p].length \in Nat
    BY <1>3, FieldTypes DEF Removed, Allocated
  <2> QED
    BY <2>1, <2>2
<1>10. Roots(g) = Roots(h) \cup (IF IsLeaf(h, n) THEN {} ELSE {h[n].children[i]})
  BY <1>7
<1> QED
  BY <1>7, <1>8, <1>9, <1>10 DEF RemovedOnce, g, r
=============================================================================
