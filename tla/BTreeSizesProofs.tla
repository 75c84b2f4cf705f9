-------------------------- MODULE BTreeSizesProofs --------------------------
(***************************************************************************)
(* The sizes that internal nodes keep: what each operation does to them,   *)
(* and that each action keeps SizesInv.                                    *)
(***************************************************************************)
EXTENDS BTreeLinkedProofs, BTreeExact

USE NodeAssumption DEF Position

-----------------------------------------------------------------------------
(***************************************************************************)
(* What the changes to an array do to its sums.                            *)
(***************************************************************************)

\* The arrays of an internal node's sizes.
SizeArray == [Position -> Nat]

\* The entry x follows the sum y.
Adds(y, x, z) == y \in Nat /\ x \in Nat /\ z = y + x

\* PrefixSums adds one entry at a time.
LEMMA SumsStep ==
  ASSUME NEW a \in SizeArray
  PROVE  /\ PrefixSums(a)[0] = 0
         /\ \A k \in 0..B : PrefixSums(a)[k] \in Nat
         /\ \A k \in Position : Adds(PrefixSums(a)[k], a[k], PrefixSums(a)[k + 1])
<1>1. a \in [Position -> Nat]
  BY DEF SizeArray
<1>2. /\ PrefixSums(a)[0] = 0
      /\ \A k \in 1..B : PrefixSums(a)[k] = PrefixSums(a)[k - 1] + a[k - 1]
  BY <1>1, PrefixSumsStep
<1>3. \A k \in 0..B : PrefixSums(a)[k] \in Nat
  BY <1>1, PrefixSumsType
<1>4. ASSUME NEW k \in Position
      PROVE  Adds(PrefixSums(a)[k], a[k], PrefixSums(a)[k + 1])
  <2>1. k \in 0..B /\ k + 1 \in 1..B /\ (k + 1) - 1 = k
    OBVIOUS
  <2>2. PrefixSums(a)[k + 1] = PrefixSums(a)[(k + 1) - 1] + a[(k + 1) - 1]
    BY <1>2, <2>1
  <2>3. PrefixSums(a)[k] \in Nat /\ a[k] \in Nat
    BY <1>1, <1>3, <2>1
  <2> QED
    BY <2>1, <2>2, <2>3 DEF Adds
<1> QED
  BY <1>2, <1>3, <1>4

\* Entries s.. of a and t.. of b are the same, `len` of them.
SameRun(a, s, b, t, len) == \A k \in 0..(len - 1) : a[s + k] = b[t + k]

\* From y1 to y2 as far as from z1 to z2.
SameWay(y1, y2, z1, z2) == y1 \in Nat /\ y2 \in Nat /\ z1 \in Nat /\ z2 \in Nat
                           /\ y2 - y1 = z2 - z1

\* One entry further on both sides.
LEMMA SameWayOn ==
  ASSUME NEW y1, NEW y2, NEW y3, NEW z1, NEW z2, NEW z3, NEW x,
         SameWay(y1, y2, z1, z2), Adds(y2, x, y3), Adds(z2, x, z3)
  PROVE  SameWay(y1, y3, z1, z3)
BY DEF SameWay, Adds

\* Then they add up to the same.
LEMMA SumsRun ==
  ASSUME NEW a \in SizeArray, NEW b \in SizeArray,
         NEW s \in Nat, NEW t \in Nat, NEW len \in Nat,
         s + len <= B, t + len <= B, SameRun(a, s, b, t, len)
  PROVE  SameWay(PrefixSums(a)[s], PrefixSums(a)[s + len],
                 PrefixSums(b)[t], PrefixSums(b)[t + len])
<1> DEFINE f == PrefixSums(a)
           g == PrefixSums(b)
           Same(k) == SameWay(f[s], f[s + k], g[t], g[t + k])
           Bad == {k \in 0..len : ~ Same(k)}
<1>1. /\ \A k \in 0..B : f[k] \in Nat /\ g[k] \in Nat
      /\ \A k \in Position : Adds(f[k], a[k], f[k + 1]) /\ Adds(g[k], b[k], g[k + 1])
  BY SumsStep
<1> HIDE DEF f, g
<1> SUFFICES ASSUME Bad # {} PROVE FALSE
  <2>1. len \in 0..len
    OBVIOUS
  <2> QED
    BY <2>1 DEF f, g
<1>2. PICK m \in Bad : \A k \in Bad : m <= k
  <2>1. Bad \in SUBSET Nat
    OBVIOUS
  <2> QED
    BY <2>1, LeastNatural
<1>3. m \in 0..len /\ ~ Same(m)
  BY <1>2
<1>4. m # 0
  <2>1. s \in 0..B /\ t \in 0..B /\ s + 0 = s /\ t + 0 = t
    OBVIOUS
  <2>2. f[s] \in Nat /\ g[t] \in Nat
    BY <1>1, <2>1
  <2>3. Same(0)
    BY <2>1, <2>2 DEF SameWay
  <2> QED
    BY <1>3, <2>3
<1> DEFINE k == m - 1
           u == s + k
           v == t + k
<1>5. /\ k \in 0..(len - 1) /\ k \in 0..len /\ k < m
      /\ s + m = u + 1 /\ t + m = v + 1 /\ u \in Position /\ v \in Position
  BY <1>3, <1>4
<1>6. Same(k)
  <2> HIDE DEF k, Same
  <2>1. k \notin Bad
    BY <1>2, <1>3, <1>5
  <2> QED
    BY <1>5, <2>1
<1>7. SameWay(f[s], f[u], g[t], g[v]) /\ a[u] = b[v]
  BY <1>5, <1>6 DEF SameRun
<1> HIDE DEF k, u, v
<1>8. Adds(f[u], a[u], f[u + 1]) /\ Adds(g[v], a[u], g[v + 1])
  BY <1>1, <1>5, <1>7
<1>9. SameWay(f[s], f[u + 1], g[t], g[v + 1])
  BY <1>7, <1>8, SameWayOn
<1> QED
  BY <1>3, <1>5, <1>9

\* Arrays that start alike have the same sums at the start.
LEMMA SumsAlike ==
  ASSUME NEW a \in SizeArray, NEW b \in SizeArray,
         NEW len \in 0..B, \A k \in 0..(len - 1) : a[k] = b[k]
  PROVE  PrefixSums(a)[len] = PrefixSums(b)[len]
<1>1. SameRun(a, 0, b, 0, len)
  BY DEF SameRun
<1>2. 0 + len = len /\ 0 + len <= B
  OBVIOUS
<1>3. SameWay(PrefixSums(a)[0], PrefixSums(a)[0 + len],
              PrefixSums(b)[0], PrefixSums(b)[0 + len])
  BY <1>1, <1>2, SumsRun
<1>4. PrefixSums(a)[0] = 0 /\ PrefixSums(b)[0] = 0
  BY SumsStep
<1> QED
  BY <1>2, <1>3, <1>4 DEF SameWay

\* From b to a, entry i is left out.
Omits(a, b, i, len) ==
  /\ \A k \in 0..(i - 1) : b[k] = a[k]
  /\ \A k \in i..(len - 1) : b[k + 1] = a[k]

\* Then b has that entry more.
LEMMA SumsOmit ==
  ASSUME NEW a \in SizeArray, NEW b \in SizeArray,
         NEW len \in 0..(B - 1), NEW i \in 0..len, Omits(a, b, i, len)
  PROVE  Adds(PrefixSums(a)[len], b[i], PrefixSums(b)[len + 1])
<1> DEFINE f == PrefixSums(a)
           g == PrefixSums(b)
           m == len - i
           s == i + 1
<1>1. g[i] = f[i]
  <2>1. i \in 0..B /\ \A k \in 0..(i - 1) : b[k] = a[k]
    BY DEF Omits
  <2> QED
    BY <2>1, SumsAlike
<1>2. Adds(g[i], b[i], g[i + 1])
  <2>1. i \in Position
    OBVIOUS
  <2> QED
    BY <2>1, SumsStep
<1>3. SameRun(b, s, a, i, m)
  <2> SUFFICES ASSUME NEW k \in 0..(m - 1) PROVE b[s + k] = a[i + k]
    BY DEF SameRun
  <2>1. i + k \in i..(len - 1) /\ s + k = (i + k) + 1
    OBVIOUS
  <2> QED
    BY <2>1 DEF Omits
<1>4. /\ m \in Nat /\ s \in Nat /\ i \in Nat /\ s + m = len + 1 /\ i + m = len
      /\ s + m <= B /\ i + m <= B
  OBVIOUS
<1>5. SameWay(g[s], g[s + m], f[i], f[i + m])
  <2> HIDE DEF m, s
  <2> QED
    BY <1>3, <1>4, SumsRun
<1>6. SameWay(g[i + 1], g[len + 1], f[i], f[len])
  BY <1>4, <1>5
<1> HIDE DEF f, g
<1>7. Adds(f[len], b[i], g[len + 1])
  BY <1>1, <1>2, <1>6 DEF Adds, SameWay
<1> QED
  BY <1>7 DEF f, g

\* rotate_right(1) and a write: the new entry adds its size.
LEMMA SumsRotateIn ==
  ASSUME NEW a \in SizeArray, NEW len \in 0..(B - 1), NEW i \in 0..len, NEW x \in Nat
  PROVE  /\ RotateIn(a, i, len, x) \in SizeArray
         /\ Adds(PrefixSums(a)[len], x, PrefixSums(RotateIn(a, i, len, x))[len + 1])
<1> DEFINE b == RotateIn(a, i, len, x)
<1>1. b \in SizeArray
  BY DEF RotateIn, SizeArray
<1>2. b[i] = x
  BY DEF RotateIn
<1>3. ASSUME NEW k \in 0..(i - 1) PROVE b[k] = a[k]
  BY DEF RotateIn
<1>4. ASSUME NEW k \in i..(len - 1) PROVE b[k + 1] = a[k]
  <2>1. k + 1 \in Position /\ ~ (k + 1 < i \/ k + 1 > len) /\ k + 1 # i /\ (k + 1) - 1 = k
    OBVIOUS
  <2> QED
    BY <2>1 DEF RotateIn
<1> HIDE DEF b
<1>5. Omits(a, b, i, len)
  BY <1>3, <1>4 DEF Omits
<1> QED
  BY <1>1, <1>2, <1>5, SumsOmit DEF b

\* rotate_left(1) and a write: the entry taken out is what is missing.
LEMMA SumsRotateOut ==
  ASSUME NEW a \in SizeArray, NEW len \in 1..B, NEW i \in 0..(len - 1)
  PROVE  /\ RotateOut(a, i, len, 0) \in SizeArray
         /\ Adds(PrefixSums(RotateOut(a, i, len, 0))[len - 1], a[i],
                 PrefixSums(a)[len])
<1> DEFINE b == RotateOut(a, i, len, 0)
           m == len - 1
<1>1. b \in SizeArray
  BY DEF RotateOut, SizeArray
<1>2. ASSUME NEW k \in 0..(i - 1) PROVE a[k] = b[k]
  BY DEF RotateOut
<1>3. ASSUME NEW k \in i..(m - 1) PROVE a[k + 1] = b[k]
  <2>1. k \in Position /\ ~ (k < i \/ k >= len) /\ k # len - 1
    OBVIOUS
  <2> QED
    BY <2>1 DEF RotateOut
<1>4. m \in 0..(B - 1) /\ i \in 0..m /\ m + 1 = len
  OBVIOUS
<1> HIDE DEF b, m
<1>5. Omits(b, a, i, m)
  BY <1>2, <1>3 DEF Omits
<1>6. Adds(PrefixSums(b)[m], a[i], PrefixSums(a)[m + 1])
  BY <1>1, <1>4, <1>5, SumsOmit
<1> QED
  BY <1>1, <1>4, <1>6 DEF b, m

\* One entry replaced.
LEMMA SumsExcept ==
  ASSUME NEW a \in SizeArray, NEW b \in SizeArray,
         NEW len \in 0..B, NEW i \in 0..(len - 1),
         \A k \in Position : k # i => b[k] = a[k]
  PROVE  PrefixSums(b)[len] = PrefixSums(a)[len] + b[i] - a[i]
<1> DEFINE f == PrefixSums(a)
           g == PrefixSums(b)
           m == len - (i + 1)
           s == i + 1
<1>1. g[i] = f[i]
  <2>1. i \in 0..B /\ \A k \in 0..(i - 1) : b[k] = a[k]
    OBVIOUS
  <2> QED
    BY <2>1, SumsAlike
<1>2. Adds(g[i], b[i], g[i + 1]) /\ Adds(f[i], a[i], f[i + 1])
  <2>1. i \in Position
    OBVIOUS
  <2> QED
    BY <2>1, SumsStep
<1>3. SameRun(b, s, a, s, m)
  <2> SUFFICES ASSUME NEW k \in 0..(m - 1) PROVE b[s + k] = a[s + k]
    BY DEF SameRun
  <2>1. s + k \in Position /\ s + k # i
    OBVIOUS
  <2> QED
    BY <2>1
<1>4. m \in Nat /\ s \in Nat /\ s + m = len /\ s + m <= B
  OBVIOUS
<1>5. SameWay(g[s], g[s + m], f[s], f[s + m])
  <2> HIDE DEF m, s
  <2> QED
    BY <1>3, <1>4, SumsRun
<1>6. SameWay(g[i + 1], g[len], f[i + 1], f[len])
  BY <1>4, <1>5
<1> DEFINE x == b[i]
           y == a[i]
<1> HIDE DEF f, g, x, y
<1>7. Adds(g[i], x, g[i + 1]) /\ Adds(f[i], y, f[i + 1])
  BY <1>2 DEF x, y
<1>8. g[len] = f[len] + x - y
  BY <1>1, <1>6, <1>7 DEF Adds, SameWay
<1> QED
  BY <1>8 DEF f, g, x, y

\* The entries from `left` on in an array of their own.
LEMMA SumsSplit ==
  ASSUME NEW a \in SizeArray, NEW b \in SizeArray,
         NEW left \in 0..B, \A k \in 0..(B - left - 1) : b[k] = a[left + k]
  PROVE  Adds(PrefixSums(a)[left], PrefixSums(b)[B - left], PrefixSums(a)[B])
<1> DEFINE right == B - left
<1>1. right \in Nat /\ left + right = B /\ 0 + right = right /\ right <= B
      /\ left \in Nat
  OBVIOUS
<1>2. SameRun(a, left, b, 0, right)
  <2> SUFFICES ASSUME NEW k \in 0..(right - 1) PROVE a[left + k] = b[0 + k]
    BY DEF SameRun
  <2>1. 0 + k = k
    OBVIOUS
  <2> QED
    BY <2>1
<1> HIDE DEF right
<1>3. SameWay(PrefixSums(a)[left], PrefixSums(a)[left + right],
              PrefixSums(b)[0], PrefixSums(b)[0 + right])
  <2>1. left + right <= B /\ 0 + right <= B
    BY <1>1
  <2> QED
    BY <1>1, <1>2, <2>1, SumsRun
<1>4. PrefixSums(b)[0] = 0
  BY SumsStep
<1>5. SameWay(PrefixSums(a)[left], PrefixSums(a)[B], 0, PrefixSums(b)[right])
  BY <1>1, <1>3, <1>4
<1>6. Adds(PrefixSums(a)[left], PrefixSums(b)[right], PrefixSums(a)[B])
  BY <1>5 DEF Adds, SameWay
<1> QED
  BY <1>6 DEF right

\* One array after the other.
LEMMA SumsJoined ==
  ASSUME NEW a \in SizeArray, NEW b \in SizeArray,
         NEW len \in Nat, NEW more \in Nat, len + more <= B
  PROVE  /\ Joined(a, len, b, more) \in SizeArray
         /\ Adds(PrefixSums(a)[len], PrefixSums(b)[more],
                 PrefixSums(Joined(a, len, b, more))[len + more])
<1> DEFINE c == Joined(a, len, b, more)
<1>1. c \in SizeArray
  <2>1. ASSUME NEW j \in Position, j \in len..(len + more - 1)
        PROVE  j - len \in Position
    BY <2>1
  <2> QED
    BY <2>1 DEF Joined, SizeArray
<1>2. ASSUME NEW k \in 0..(len - 1) PROVE c[k] = a[k]
  BY DEF Joined
<1>3. ASSUME NEW k \in 0..(more - 1) PROVE c[len + k] = b[0 + k]
  <2>1. len + k \in Position /\ len + k \in len..(len + more - 1)
        /\ (len + k) - len = 0 + k
    OBVIOUS
  <2> QED
    BY <2>1 DEF Joined
<1> HIDE DEF c
<1>4. len \in 0..B /\ 0 + more = more /\ 0 + more <= B
  OBVIOUS
<1>5. PrefixSums(c)[len] = PrefixSums(a)[len]
  BY <1>1, <1>2, <1>4, SumsAlike
<1>6. SameRun(c, len, b, 0, more)
  BY <1>3 DEF SameRun
<1>7. SameWay(PrefixSums(c)[len], PrefixSums(c)[len + more],
              PrefixSums(b)[0], PrefixSums(b)[0 + more])
  BY <1>1, <1>4, <1>6, SumsRun
<1>8. PrefixSums(b)[0] = 0
  BY SumsStep
<1>9. SameWay(PrefixSums(a)[len], PrefixSums(c)[len + more], 0, PrefixSums(b)[more])
  BY <1>4, <1>5, <1>7, <1>8
<1>10. Adds(PrefixSums(a)[len], PrefixSums(b)[more], PrefixSums(c)[len + more])
  BY <1>9 DEF Adds, SameWay
<1> QED
  BY <1>1, <1>10 DEF c

\* Entries that are 0 do not count, so what size() adds up is exact.
LEMMA SumsTail ==
  ASSUME NEW a \in SizeArray, NEW len \in 0..B,
         \A k \in Position : k >= len => a[k] = 0
  PROVE  PrefixSums(a)[B] = PrefixSums(a)[len]
<1> DEFINE f == PrefixSums(a)
           Bad == {k \in len..B : f[k] # f[len]}
<1>1. \A k \in Position : Adds(f[k], a[k], f[k + 1])
  BY SumsStep
<1> HIDE DEF f
<1> SUFFICES ASSUME Bad # {} PROVE FALSE
  <2>1. B \in len..B
    OBVIOUS
  <2> QED
    BY <2>1 DEF f
<1>2. PICK m \in Bad : \A k \in Bad : m <= k
  <2>1. Bad \in SUBSET Nat
    OBVIOUS
  <2> QED
    BY <2>1, LeastNatural
<1>3. m \in len..B /\ f[m] # f[len] /\ m # len
  BY <1>2
<1> DEFINE k == m - 1
<1>4. k \in len..B /\ k < m /\ k \in Position /\ m = k + 1 /\ k >= len
  BY <1>3
<1>5. f[k] = f[len]
  <2> HIDE DEF k
  <2>1. k \notin Bad
    BY <1>2, <1>3, <1>4
  <2> QED
    BY <1>4, <2>1
<1> HIDE DEF k
<1>6. Adds(f[k], a[k], f[k + 1]) /\ a[k] = 0
  BY <1>1, <1>4
<1>7. f[k + 1] = f[k]
  BY <1>6 DEF Adds
<1> QED
  BY <1>3, <1>4, <1>5, <1>7

-----------------------------------------------------------------------------
(***************************************************************************)
(* What the operations on nodes do to the weights.                         *)
(***************************************************************************)

\* A node weighs what its kind, length and sizes say.
LEMMA WeightFields ==
  ASSUME NEW h, NEW g, NEW p, g[p].kind = h[p].kind, g[p].length = h[p].length,
         g[p].sizes = h[p].sizes
  PROVE  Weight(g, p) = Weight(h, p) /\ NodeSize(g, p) = NodeSize(h, p)
BY DEF Weight, NodeSize, IsLeaf

\* The weight of a node is a natural.
LEMMA WeightType ==
  ASSUME NEW h \in Heap, NEW p \in Ptr
  PROVE  Weight(h, p) \in Nat /\ h[p].sizes \in SizeArray
<1>1. h[p].sizes \in SizeArray /\ h[p].length \in 0..B
  BY FieldTypes DEF SizeArray
<1>2. PrefixSums(h[p].sizes)[h[p].length] \in Nat
  BY <1>1, SumsStep
<1> QED
  BY <1>1, <1>2 DEF Weight

\* In the nodes of h, g weighs the same but for n.
SameWeights(h, g, ns) ==
  \A p \in Allocated(h) \ ns : Weight(g, p) = Weight(h, p)

\* Node p has its children's sizes.
SizedAt(h, w, p) ==
  \A i \in Position : i < h[p].length => h[p].sizes[i] = w[h[p].children[i]]

\* Outside ns, nodes keep their entries.
KeptOutside(h, g, ns) ==
  \A p \in Ptr \ ns : /\ g[p].kind = h[p].kind /\ g[p].length = h[p].length
                      /\ g[p].children = h[p].children /\ g[p].sizes = h[p].sizes

\* Then all weights and sizes are right if those of ns are.
LEMMA SizedFrame ==
  ASSUME NEW h, NEW g, NEW ns, KeptOutside(h, g, ns)
  PROVE  /\ SameWeights(h, g, ns)
         /\ \A w : /\ Sized(h, w)
                   /\ \A p \in ns : IsInternal(g, p) => SizedAt(g, w, p)
                   => Sized(g, w)
<1>1. SameWeights(h, g, ns)
  BY WeightFields DEF SameWeights, Allocated, KeptOutside
<1> SUFFICES ASSUME NEW w, Sized(h, w),
                    \A p \in ns : IsInternal(g, p) => SizedAt(g, w, p),
                    NEW p \in Ptr, IsInternal(g, p)
             PROVE  SizedAt(g, w, p)
  BY <1>1 DEF Sized, SizedAt, Allocated
<1>2. CASE p \in ns
  BY <1>2
<1>3. CASE p \notin ns
  <2>1. p \in Allocated(h) /\ IsInternal(h, p)
    BY <1>3 DEF IsInternal, Allocated, KeptOutside
  <2>2. SizedAt(h, w, p)
    BY <2>1 DEF Sized, SizedAt
  <2> QED
    BY <1>3, <2>2 DEF SizedAt, KeptOutside
<1> QED
  BY <1>2, <1>3

\* What an entry counts.
EntrySize(h, n, entry) == IF IsLeaf(h, n) THEN 1 ELSE entry.size

\* The entry has the size its node counts in the parent.
EntrySized(h, w, n, entry) == IsLeaf(h, n) \/ entry.size = w[entry.slot]

\* The sizes of n make room for one more at i.
SizesShift(h, g, n, i, sz) ==
  g[n].sizes = RotateIn(h[n].sizes, i, h[n].length, sz)

\* simple_insert adds the item's size to the node's.
LEMMA SimpleInsertWeight ==
  ASSUME NEW h \in Heap, NEW lev, Tree(h, lev), NEW n, NEW i, NEW entry,
         InsertOK(h, lev, n, i, entry), h[n].length < B
  PROVE  LET g == SimpleInsert(h, n, i, entry)
         IN  /\ SameWeights(h, g, {n}) /\ KeptOutside(h, g, {n})
             /\ Adds(Weight(h, n), EntrySize(h, n, entry), Weight(g, n))
             /\ \A w : Sized(h, w) /\ EntrySized(h, w, n, entry) => Sized(g, w)
             /\ IsInternal(h, n) => SizesShift(h, g, n, i, entry.size)
<1> DEFINE g == SimpleInsert(h, n, i, entry)
           len == h[n].length
<1>0. n \in Allocated(h) /\ i \in 0..len /\ entry \in [slot : Slot, size : Nat]
  BY DEF InsertOK
<1>1. /\ n \in Ptr /\ len \in 0..(B - 1) /\ (~ IsLeaf(h, n) <=> IsInternal(h, n))
      /\ Weight(h, n) \in Nat /\ h[n].sizes \in SizeArray /\ entry.size \in Nat
  BY <1>0, Kinds, WeightType
<1>2. CASE IsLeaf(h, n)
  <2>1. LeafPut(h, g, n, RotateIn(h[n].children, i, len, entry.slot), len + 1)
    BY <1>1, <1>2, SimpleInsertLeaf
  <2> HIDE DEF g
  <2>2. /\ \A p \in Ptr : p # n => g[p] = h[p]
        /\ g[n].kind = h[n].kind /\ g[n].length = len + 1
    BY <2>1 DEF LeafPut
  <2>3. KeptOutside(h, g, {n})
    BY <2>2 DEF KeptOutside
  <2>4. Adds(Weight(h, n), EntrySize(h, n, entry), Weight(g, n))
    BY <1>1, <1>2, <2>2 DEF Adds, EntrySize, Weight, IsLeaf
  <2>5. ~ IsInternal(h, n) /\ ~ IsInternal(g, n)
    BY <1>2, <2>2 DEF IsLeaf, IsInternal
  <2>6. ASSUME NEW w, Sized(h, w) PROVE Sized(g, w)
    BY <2>3, <2>5, <2>6, SizedFrame
  <2>8. SameWeights(h, g, {n})
    BY <2>3, SizedFrame
  <2> QED
    BY <2>8, <2>3, <2>4, <2>5, <2>6 DEF g
<1>3. CASE ~ IsLeaf(h, n)
  <2> DEFINE c == entry.slot
             sz == entry.size
             children == RotateIn(h[n].children, i, len, c)
             sizes == RotateIn(h[n].sizes, i, len, sz)
  <2>1. IsInternal(h, n) /\ c \in Roots(h)
    BY <1>1, <1>3 DEF InsertOK
  <2>2. ChildInserted(h, g, n, i, c, sz)
    BY <1>0, <1>1, <2>1, SimpleInsertInternal
  <2> HIDE DEF g, c, sz, children, sizes
  <2>3. \A p \in Ptr : /\ g[p].kind = h[p].kind
                       /\ p # n => /\ g[p].length = h[p].length
                                   /\ g[p].children = h[p].children
                                   /\ g[p].sizes = h[p].sizes
    BY <2>2 DEF ChildInserted
  <2>4. g[n].length = len + 1 /\ g[n].children = children /\ g[n].sizes = sizes
    BY <1>1, <2>2 DEF ChildInserted, children, sizes
  <2>5. KeptOutside(h, g, {n})
    BY <2>3 DEF KeptOutside
  <2>6. Adds(Weight(h, n), EntrySize(h, n, entry), Weight(g, n))
    <3>1. Adds(PrefixSums(h[n].sizes)[len], sz, PrefixSums(sizes)[len + 1])
      BY <1>0, <1>1, SumsRotateIn DEF sizes, sz
    <3>2. ~ IsLeaf(g, n)
      BY <1>1, <1>3, <2>3 DEF IsLeaf
    <3> QED
      BY <1>3, <2>4, <3>1, <3>2 DEF Weight, EntrySize, sz
  <2>7. ASSUME NEW w, Sized(h, w), EntrySized(h, w, n, entry) PROVE Sized(g, w)
    <3>1. sz = w[c]
      BY <1>3, <2>7 DEF EntrySized, sz, c
    <3>2. SizedAt(h, w, n)
      BY <1>0, <2>1, <2>7 DEF Sized, SizedAt
    <3>3. SizedAt(g, w, n)
      <4> SUFFICES ASSUME NEW j \in Position, j < len + 1
                   PROVE  sizes[j] = w[children[j]]
        BY <2>4 DEF SizedAt
      <4>1. CASE j < i
        <5>1. sizes[j] = h[n].sizes[j] /\ children[j] = h[n].children[j]
          BY <4>1 DEF sizes, children, RotateIn
        <5>2. j < len
          BY <1>0, <1>1, <4>1
        <5> QED
          BY <3>2, <5>1, <5>2 DEF SizedAt
      <4>2. CASE j = i
        <5>1. sizes[j] = sz /\ children[j] = c
          BY <1>0, <1>1, <4>2 DEF sizes, children, RotateIn
        <5> QED
          BY <3>1, <5>1
      <4>3. CASE j > i
        <5> DEFINE k == j - 1
        <5>1. k \in Position /\ k < len /\ ~ (j < i \/ j > len) /\ j # i
          BY <1>0, <1>1, <4>3
        <5>2. sizes[j] = h[n].sizes[k] /\ children[j] = h[n].children[k]
          BY <5>1 DEF sizes, children, RotateIn
        <5> HIDE DEF k
        <5> QED
          BY <3>2, <5>1, <5>2 DEF SizedAt
      <4> QED
        BY <1>0, <4>1, <4>2, <4>3
    <3> QED
      BY <2>5, <2>7, <3>3, SizedFrame
  <2>8. SameWeights(h, g, {n})
    BY <2>5, SizedFrame
  <2> QED
    BY <2>8, <2>4, <2>5, <2>6, <2>7 DEF g, sizes, sz, SizesShift
<1> QED
  BY <1>2, <1>3

\* simple_remove takes the item's size from the node's.
LEMMA SimpleRemoveWeight ==
  ASSUME NEW h \in Heap, NEW lev, Tree(h, lev), NEW n \in Allocated(h),
         NEW i \in Nat, i < h[n].length
  PROVE  LET g == SimpleRemove(h, n, i)
         IN  /\ SameWeights(h, g, {n})
             /\ Adds(Weight(g, n), Taken(h, n, i).size, Weight(h, n))
             /\ \A w : Sized(h, w) => Sized(g, w)
<1> DEFINE g == SimpleRemove(h, n, i)
           len == h[n].length
           m == len - 1
           x == Taken(h, n, i).size
<1>1. /\ n \in Ptr /\ len \in 1..B /\ (~ IsLeaf(h, n) <=> IsInternal(h, n))
      /\ Weight(h, n) \in Nat /\ h[n].sizes \in SizeArray /\ i \in 0..(len - 1)
  BY Kinds, WeightType
<1>2. CASE IsLeaf(h, n)
  <2>1. LeafPut(h, g, n, RotateOut(h[n].children, i, len, None), len - 1)
    BY <1>1, <1>2, SimpleRemoveLeaf
  <2>0. x = 1
    BY <1>2 DEF Taken, Entry
  <2> HIDE DEF g
  <2>2. /\ \A p \in Ptr : p # n => g[p] = h[p]
        /\ g[n].kind = h[n].kind /\ g[n].length = len - 1
    BY <2>1 DEF LeafPut
  <2>3. KeptOutside(h, g, {n})
    BY <2>2 DEF KeptOutside
  <2>4. Adds(Weight(g, n), 1, Weight(h, n))
    BY <1>1, <1>2, <2>2 DEF Adds, Weight, IsLeaf
  <2>5. ~ IsInternal(h, n) /\ ~ IsInternal(g, n)
    BY <1>2, <2>2 DEF IsLeaf, IsInternal
  <2>6. ASSUME NEW w, Sized(h, w) PROVE Sized(g, w)
    BY <2>3, <2>5, <2>6, SizedFrame
  <2>8. SameWeights(h, g, {n})
    BY <2>3, SizedFrame
  <2> QED
    BY <2>8, <2>0, <2>3, <2>4, <2>6 DEF g
<1>3. CASE ~ IsLeaf(h, n)
  <2> DEFINE children == RotateOut(h[n].children, i, len, None)
             sizes == RotateOut(h[n].sizes, i, len, 0)
  <2>0. x = h[n].sizes[i]
    BY <1>3 DEF Taken, Entry
  <2>1. IsInternal(h, n)
    BY <1>1, <1>3
  <2>2. ChildRemoved(h, g, n, i)
    BY <2>1, SimpleRemoveInternal
  <2> HIDE DEF g, children, sizes
  <2>3. \A p \in Ptr : /\ g[p].kind = h[p].kind
                       /\ p # n => /\ g[p].length = h[p].length
                                   /\ g[p].children = h[p].children
                                   /\ g[p].sizes = h[p].sizes
    BY <2>2 DEF ChildRemoved
  <2>4. g[n].length = m /\ g[n].children = children /\ g[n].sizes = sizes
    BY <1>1, <2>2 DEF ChildRemoved, children, sizes
  <2>5. KeptOutside(h, g, {n})
    BY <2>3 DEF KeptOutside
  <2>6. Adds(Weight(g, n), h[n].sizes[i], Weight(h, n))
    <3>1. Adds(PrefixSums(sizes)[m], h[n].sizes[i], PrefixSums(h[n].sizes)[len])
      BY <1>1, SumsRotateOut DEF sizes
    <3>2. ~ IsLeaf(g, n)
      BY <1>1, <1>3, <2>3 DEF IsLeaf
    <3> QED
      BY <1>3, <2>4, <3>1, <3>2 DEF Weight
  <2>7. ASSUME NEW w, Sized(h, w) PROVE Sized(g, w)
    <3>2. SizedAt(h, w, n)
      BY <2>1, <2>7 DEF Sized, SizedAt
    <3>3. SizedAt(g, w, n)
      <4> SUFFICES ASSUME NEW j \in Position, j < m
                   PROVE  sizes[j] = w[children[j]]
        BY <2>4 DEF SizedAt
      <4>1. CASE j < i
        <5>1. sizes[j] = h[n].sizes[j] /\ children[j] = h[n].children[j]
          BY <4>1 DEF sizes, children, RotateOut
        <5>2. j < len
          BY <1>1
        <5> QED
          BY <3>2, <5>1, <5>2 DEF SizedAt
      <4>3. CASE ~ (j < i)
        <5> DEFINE k == j + 1
        <5>0. len \in 1..B /\ j < len - 1
          BY <1>1
        <5>1. k \in Position /\ k < len /\ ~ (j < i \/ j >= len) /\ j # len - 1
          BY <4>3, <5>0
        <5>2. sizes[j] = h[n].sizes[k] /\ children[j] = h[n].children[k]
          BY <4>3, <5>1 DEF sizes, children, RotateOut
        <5> HIDE DEF k
        <5> QED
          BY <3>2, <5>1, <5>2 DEF SizedAt
      <4> QED
        BY <4>1, <4>3
    <3> QED
      BY <2>5, <2>7, <3>3, SizedFrame
  <2>8. SameWeights(h, g, {n})
    BY <2>5, SizedFrame
  <2> QED
    BY <2>8, <2>0, <2>5, <2>6, <2>7 DEF g
<1> QED
  BY <1>2, <1>3

\* Past `length` the sizes of n are 0.
Trim(h, n) == \A j \in Position : j >= h[n].length => h[n].sizes[j] = 0

\* Then what InternalNode::size adds up is what n weighs.
LEMMA TrimSize ==
  ASSUME NEW h \in Heap, NEW n \in Ptr, IsLeaf(h, n) \/ Trim(h, n)
  PROVE  NodeSize(h, n) = Weight(h, n)
<1>1. CASE IsLeaf(h, n)
  BY <1>1 DEF NodeSize, Weight
<1>2. CASE ~ IsLeaf(h, n)
  <2>1. h[n].sizes \in SizeArray /\ h[n].length \in 0..B
    BY WeightType, FieldTypes
  <2>2. PrefixSums(h[n].sizes)[B] = PrefixSums(h[n].sizes)[h[n].length]
    BY <1>2, <2>1, SumsTail DEF Trim
  <2> QED
    BY <1>2, <2>2 DEF NodeSize, Weight
<1> QED
  BY <1>1, <1>2

\* split: the two halves weigh what the node did.
LEMMA SplitWeight ==
  ASSUME NEW h \in Heap, NEW lev, Tree(h, lev), NEW n \in Allocated(h),
         h[n].length = B, NEW left \in 1..(B - 1), NEW new \in Free(h)
  PROVE  LET g == Split(h, n, left, new)
         IN  /\ SameWeights(h, g, {n})
             /\ Adds(Weight(g, n), Weight(g, new), Weight(h, n))
             /\ \A w : Sized(h, w) => Sized(g, w)
             /\ IsLeaf(h, n) \/ Trim(g, new)
<1> DEFINE g == Split(h, n, left, new)
           right == B - left
           cut == [j \in Position |-> IF j < right THEN h[n].sizes[left + j] ELSE 0]
           fill == [j \in Position |->
                      IF j < right THEN h[n].children[left + j] ELSE None]
           rest == [j \in Position |->
                      IF j < left THEN h[n].children[j] ELSE None]
<1>1. /\ n \in Ptr /\ new \in Ptr /\ n # new /\ new \notin Allocated(h)
      /\ (~ IsLeaf(h, n) <=> IsInternal(h, n)) /\ h[n].sizes \in SizeArray
      /\ right \in 1..(B - 1) /\ left + right = B
  BY Kinds, WeightType DEF Free, Allocated
<1>2. NodeSplit(h, g, n, left, new)
  BY SplitRelinks
<1> HIDE DEF g, right, cut, fill, rest
<1>3. /\ g[new].kind = h[n].kind /\ g[new].length = right /\ g[new].sizes = cut
      /\ g[new].children = fill
      /\ g[n].kind = h[n].kind /\ g[n].length = left /\ g[n].sizes = h[n].sizes
      /\ g[n].children = rest
  BY <1>1, <1>2 DEF NodeSplit, right, cut, fill, rest
<1>4. KeptOutside(h, g, {n, new})
  BY <1>2 DEF NodeSplit, KeptOutside
<1>5. SameWeights(h, g, {n})
  <2>1. SameWeights(h, g, {n, new})
    BY <1>4, SizedFrame
  <2> QED
    BY <1>1, <2>1 DEF SameWeights
<1>6. CASE IsLeaf(h, n)
  <2>1. /\ Weight(g, n) = left /\ Weight(g, new) = right /\ Weight(h, n) = B
        /\ ~ IsInternal(g, n) /\ ~ IsInternal(g, new)
    BY <1>3, <1>6 DEF Weight, IsLeaf, IsInternal
  <2>2. \A w : Sized(h, w) => Sized(g, w)
    BY <1>4, <2>1, SizedFrame
  <2>3. Adds(left, right, B)
    BY <1>1 DEF Adds
  <2> QED
    BY <1>5, <1>6, <2>1, <2>2, <2>3 DEF g
<1>7. CASE ~ IsLeaf(h, n)
  <2>1. cut \in SizeArray
    <3>1. ASSUME NEW j \in Position, j < right PROVE left + j \in Position
      BY <1>1, <3>1
    <3> QED
      BY <1>1, <3>1 DEF cut, SizeArray
  <2>2. ASSUME NEW k \in 0..(B - left - 1) PROVE cut[k] = h[n].sizes[left + k]
    <3>1. k \in Position /\ k < right
      BY DEF right
    <3> QED
      BY <3>1 DEF cut
  <2>3. Adds(PrefixSums(h[n].sizes)[left], PrefixSums(cut)[B - left],
             PrefixSums(h[n].sizes)[B])
    <3>1. left \in 0..B
      OBVIOUS
    <3> QED
      BY <1>1, <2>1, <2>2, <3>1, SumsSplit
  <2>4. Adds(Weight(g, n), Weight(g, new), Weight(h, n))
    <3>1. ~ IsLeaf(g, n) /\ ~ IsLeaf(g, new)
      BY <1>3, <1>7 DEF IsLeaf
    <3> QED
      BY <1>3, <1>7, <2>3, <3>1 DEF Weight, right
  <2>5. ASSUME NEW w, Sized(h, w) PROVE Sized(g, w)
    <3>1. SizedAt(h, w, n)
      BY <1>1, <1>7, <2>5 DEF Sized, SizedAt
    <3>2. SizedAt(g, w, n)
      <4> SUFFICES ASSUME NEW j \in Position, j < left
                   PROVE  h[n].sizes[j] = w[rest[j]]
        BY <1>3 DEF SizedAt
      <4>1. rest[j] = h[n].children[j] /\ j < h[n].length
        BY DEF rest
      <4> QED
        BY <3>1, <4>1 DEF SizedAt
    <3>3. SizedAt(g, w, new)
      <4> SUFFICES ASSUME NEW j \in Position, j < right
                   PROVE  cut[j] = w[fill[j]]
        BY <1>3 DEF SizedAt
      <4> DEFINE k == left + j
      <4>1. k \in Position /\ k < h[n].length
        BY <1>1
      <4>2. cut[j] = h[n].sizes[k] /\ fill[j] = h[n].children[k]
        BY DEF cut, fill
      <4> HIDE DEF k
      <4> QED
        BY <3>1, <4>1, <4>2 DEF SizedAt
    <3> QED
      BY <1>4, <2>5, <3>2, <3>3, SizedFrame
  <2>6. Trim(g, new)
    <3> SUFFICES ASSUME NEW j \in Position, j >= right PROVE cut[j] = 0
      BY <1>3 DEF Trim
    <3>1. ~ (j < right)
      BY <1>1
    <3> QED
      BY <3>1 DEF cut
  <2> QED
    BY <1>5, <2>4, <2>5, <2>6 DEF g
<1> QED
  BY <1>6, <1>7

\* merge: dest weighs what both did.
LEMMA MergeWeight ==
  ASSUME NEW h \in Heap, NEW lev, Tree(h, lev), NEW dest, NEW src,
         Mergeable(h, lev, dest, src)
  PROVE  LET g == Merge(h, dest, src)
         IN  /\ SameWeights(h, g, {dest, src})
             /\ Adds(Weight(h, dest), Weight(h, src), Weight(g, dest))
             /\ Weight(g, src) = 0
             /\ \A w : Sized(h, w) => Sized(g, w)
<1> DEFINE g == Merge(h, dest, src)
           len == h[dest].length
           more == h[src].length
           sizes == Joined(h[dest].sizes, len, h[src].sizes, more)
           children == Joined(h[dest].children, len, h[src].children, more)
<1>1. /\ dest \in Allocated(h) /\ src \in Allocated(h) /\ dest # src
      /\ lev[dest] = lev[src] /\ len + more <= B
  BY DEF Mergeable
<1>2. /\ dest \in Ptr /\ src \in Ptr /\ len \in Nat /\ more \in Nat
      /\ (~ IsLeaf(h, dest) <=> IsInternal(h, dest))
      /\ (~ IsLeaf(h, src) <=> IsInternal(h, src))
      /\ h[dest].sizes \in SizeArray /\ h[src].sizes \in SizeArray
      /\ (IsLeaf(h, dest) <=> IsLeaf(h, src))
  BY <1>1, Kinds, WeightType DEF Tree
<1>3. NodesMerged(h, g, dest, src)
  BY MergeRelinks
<1> HIDE DEF g, sizes, children
<1>4. /\ g[dest].kind = h[dest].kind /\ g[dest].length = len + more
      /\ g[dest].children = children
      /\ ~ IsLeaf(h, dest) => g[dest].sizes = sizes
      /\ g[src].kind = h[src].kind /\ g[src].length = 0
      /\ g[src].sizes = h[src].sizes
  BY <1>1, <1>2, <1>3 DEF NodesMerged, sizes, children
<1>5. KeptOutside(h, g, {dest, src})
  BY <1>3 DEF NodesMerged, KeptOutside
<1>6. SameWeights(h, g, {dest, src})
  BY <1>5, SizedFrame
<1>7. CASE IsLeaf(h, dest)
  <2>1. /\ Weight(g, dest) = len + more /\ Weight(h, dest) = len
        /\ Weight(h, src) = more /\ Weight(g, src) = 0
        /\ ~ IsInternal(g, dest) /\ ~ IsInternal(g, src)
    BY <1>2, <1>4, <1>7 DEF Weight, IsLeaf, IsInternal
  <2>2. \A w : Sized(h, w) => Sized(g, w)
    BY <1>5, <2>1, SizedFrame
  <2>3. Adds(len, more, len + more)
    BY <1>2 DEF Adds
  <2> QED
    BY <1>6, <2>1, <2>2, <2>3 DEF g
<1>8. CASE ~ IsLeaf(h, dest)
  <2>1. ~ IsLeaf(h, src) /\ ~ IsLeaf(g, dest) /\ ~ IsLeaf(g, src)
    BY <1>2, <1>4, <1>8 DEF IsLeaf
  <2>2. Adds(PrefixSums(h[dest].sizes)[len], PrefixSums(h[src].sizes)[more],
             PrefixSums(sizes)[len + more])
    BY <1>1, <1>2, SumsJoined DEF sizes
  <2>3. Adds(Weight(h, dest), Weight(h, src), Weight(g, dest))
    BY <1>4, <1>8, <2>1, <2>2 DEF Weight
  <2>4. Weight(g, src) = 0
    BY <1>2, <1>4, <2>1, SumsStep DEF Weight
  <2>5. ASSUME NEW w, Sized(h, w) PROVE Sized(g, w)
    <3>1. SizedAt(h, w, dest) /\ SizedAt(h, w, src)
      BY <1>1, <1>2, <1>8, <2>5 DEF Sized, SizedAt
    <3>2. SizedAt(g, w, src)
      BY <1>4 DEF SizedAt
    <3>3. SizedAt(g, w, dest)
      <4> SUFFICES ASSUME NEW j \in Position, j < len + more
                   PROVE  sizes[j] = w[children[j]]
        BY <1>4, <1>8 DEF SizedAt
      <4>1. CASE j < len
        <5>1. ~ (j \in len..(len + more - 1))
          BY <1>2, <4>1
        <5>2. sizes[j] = h[dest].sizes[j] /\ children[j] = h[dest].children[j]
          BY <5>1 DEF sizes, children, Joined
        <5> QED
          BY <3>1, <4>1, <5>2 DEF SizedAt
      <4>2. CASE j >= len
        <5> DEFINE k == j - len
        <5>1. j \in len..(len + more - 1) /\ k \in Position /\ k < more
          BY <1>2, <4>2
        <5>2. sizes[j] = h[src].sizes[k] /\ children[j] = h[src].children[k]
          BY <5>1 DEF sizes, children, Joined
        <5> HIDE DEF k
        <5> QED
          BY <3>1, <5>1, <5>2 DEF SizedAt
      <4> QED
        BY <1>2, <4>1, <4>2
    <3> QED
      BY <1>5, <2>5, <3>2, <3>3, SizedFrame
  <2> QED
    BY <1>6, <2>3, <2>4, <2>5 DEF g
<1> QED
  BY <1>7, <1>8

\* The size of a root is nobody's entry.
LEMMA SizedExcept ==
  ASSUME NEW h \in Heap, NEW lev, Tree(h, lev), NEW w \in [Ptr -> Nat],
         Sized(h, w), NEW c, c \in Roots(h) \/ c \notin Allocated(h), NEW x
  PROVE  Sized(h, [w EXCEPT ![c] = x])
<1> SUFFICES ASSUME NEW p \in Allocated(h), IsInternal(h, p),
                    NEW i \in Position, i < h[p].length
             PROVE  h[p].sizes[i] = [w EXCEPT ![c] = x][h[p].children[i]]
  BY DEF Sized
<1> DEFINE d == h[p].children[i]
<1>1. d \in Allocated(h) /\ h[d].parent = p
  BY ChildOf
<1>2. d \in Ptr /\ p # None
  BY <1>1 DEF Allocated
<1>3. d # c
  BY <1>1, <1>2 DEF Roots
<1>4. h[p].sizes[i] = w[d]
  BY DEF Sized
<1> HIDE DEF d
<1> QED
  BY <1>2, <1>3, <1>4 DEF d

-----------------------------------------------------------------------------
(***************************************************************************)
(* insert_once.                                                            *)
(***************************************************************************)

\* An entry inserted into a node leaves no size past its length.
LEMMA SimpleInsertTrim ==
  ASSUME NEW h \in Heap, NEW lev, Tree(h, lev), NEW n, NEW i, NEW entry,
         InsertOK(h, lev, n, i, entry), h[n].length < B,
         NEW p \in Ptr, IsLeaf(h, p) \/ Trim(h, p)
  PROVE  LET g == SimpleInsert(h, n, i, entry)
         IN  IsLeaf(g, p) \/ Trim(g, p)
<1> DEFINE g == SimpleInsert(h, n, i, entry)
           len == h[n].length
<1>0. n \in Allocated(h) /\ i \in 0..len
  BY DEF InsertOK
<1>1. /\ n \in Ptr /\ len \in 0..(B - 1) /\ (~ IsLeaf(h, n) <=> IsInternal(h, n))
  <2>1. /\ n \in Ptr /\ len \in 0..B /\ (~ IsLeaf(h, n) <=> IsInternal(h, n))
    BY <1>0, Kinds
  <2> QED
    BY <2>1
<1>2. KeptOutside(h, g, {n}) /\ (IsInternal(h, n) => SizesShift(h, g, n, i, entry.size))
  BY SimpleInsertWeight
<1>3. g[n].kind = h[n].kind /\ g[n].length = len + 1
  <2>1. Inserted(h, g, lev, n, entry.slot)
    BY SimpleInsertTree
  <2> HIDE DEF g
  <2> QED
    BY <1>0, <1>1, <2>1 DEF Inserted, Spares
<1> HIDE DEF g
<1> SUFFICES IsLeaf(g, p) \/ Trim(g, p)
  BY DEF g
<1>4. CASE p # n
  BY <1>2, <1>4 DEF KeptOutside, IsLeaf, Trim
<1>5. CASE p = n /\ IsLeaf(h, n)
  BY <1>3, <1>5 DEF IsLeaf
<1>6. CASE p = n /\ ~ IsLeaf(h, n)
  <2> SUFFICES ASSUME NEW j \in Position, j >= len + 1 PROVE g[n].sizes[j] = 0
    BY <1>3, <1>6 DEF Trim
  <2>1. j > len /\ j >= len
    BY <1>1
  <2>2. g[n].sizes[j] = h[n].sizes[j]
    BY <1>1, <1>2, <1>6, <2>1 DEF RotateIn, SizesShift
  <2> QED
    BY <1>6, <2>1, <2>2 DEF Trim
<1> QED
  BY <1>4, <1>5, <1>6

\* Everything weighs what w says, but n owes its parent one item and has x
\* items on credit from it.
Owing(h, w, n, x) ==
  \A p \in Allocated(h) : w[p] = Weight(h, p) + (IF p = n THEN x - 1 ELSE 0)

\* What was split off weighs.
HalfWeight(h, half) == IF half = None THEN 0 ELSE Weight(h, half)

\* insert_once has changed n: the sizes w2 are right, up to what the parent
\* of n has still to hear.
InsertSized(h, g, half, w, w2, n) ==
  /\ w2 \in [Ptr -> Nat]
  /\ Sized(g, w2)
  /\ Owing(g, w2, n, HalfWeight(g, half))
  /\ half # None => NodeSize(g, half) = Weight(g, half)
  /\ \A p \in Allocated(h) : w2[p] = w[p]

\* insert_once into a node that has room.
LEMMA InsertOnceRoom ==
  ASSUME NEW h \in Heap, NEW lev, Tree(h, lev), NEW n, NEW i, NEW entry,
         InsertOK(h, lev, n, i, entry), h[n].length < B,
         NEW w \in [Ptr -> Nat], Sized(h, w), EntrySized(h, w, n, entry),
         Owing(h, w, n, EntrySize(h, n, entry))
  PROVE  InsertSized(h, SimpleInsert(h, n, i, entry), None, w, w, n)
<1> DEFINE g == SimpleInsert(h, n, i, entry)
           x == EntrySize(h, n, entry)
<1>1. /\ SameWeights(h, g, {n}) /\ Adds(Weight(h, n), x, Weight(g, n))
      /\ Sized(g, w)
  BY SimpleInsertWeight
<1>2. Allocated(g) = Allocated(h)
  BY SimpleInsertTree DEF Inserted
<1> HIDE DEF g, x
<1>3. ASSUME NEW p \in Allocated(g)
      PROVE  w[p] = Weight(g, p) + (IF p = n THEN 0 - 1 ELSE 0)
  <2>1. w[p] = Weight(h, p) + (IF p = n THEN x - 1 ELSE 0)
    BY <1>2 DEF Owing, x
  <2>2. p # n => Weight(g, p) = Weight(h, p)
    BY <1>1, <1>2 DEF SameWeights
  <2> QED
    BY <1>1, <2>1, <2>2 DEF Adds
<1>4. Owing(g, w, n, HalfWeight(g, None))
  BY <1>3 DEF Owing, HalfWeight
<1> QED
  BY <1>1, <1>4 DEF InsertSized, g

\* insert_once into a full node.
LEMMA InsertOnceFull ==
  ASSUME NEW h \in Heap, NEW lev, Tree(h, lev), NEW n, NEW i, NEW entry,
         InsertOK(h, lev, n, i, entry), h[n].length = B, NEW new \in Free(h),
         NEW left \in 1..(B - 1), NEW m \in {n, new}, NEW j \in Nat,
         NEW r, SplitFirst(h, r, lev, n, entry, new, left, m, j),
         NEW w \in [Ptr -> Nat], Sized(h, w), EntrySized(h, w, n, entry),
         Owing(h, w, n, EntrySize(h, n, entry))
  PROVE  \E w2 : InsertSized(h, r.heap, new, w, w2, n)
<1> DEFINE f == Split(h, n, left, new)
           lev2 == Beside(lev, n, new)
           g == SimpleInsert(f, m, j, entry)
           x == EntrySize(h, n, entry)
           w2 == [w EXCEPT ![new] = Weight(g, new)]
<1>0. n \in Allocated(h) /\ n \in Ptr /\ new \in Ptr /\ new \notin Allocated(h)
      /\ (IsLeaf(h, n) \/ entry.slot \in Roots(h))
  BY Kinds DEF InsertOK, Free, Allocated
<1>1. /\ r.heap = g /\ f \in Heap /\ NodeSplit(h, f, n, left, new)
      /\ Tree(f, lev2) /\ InsertOK(f, lev2, m, j, entry) /\ f[m].length < B
  BY DEF SplitFirst
<1>2. /\ SameWeights(h, f, {n})
      /\ Adds(Weight(f, n), Weight(f, new), Weight(h, n))
      /\ \A u : Sized(h, u) => Sized(f, u)
      /\ IsLeaf(h, n) \/ Trim(f, new)
  BY <1>0, SplitWeight
<1>3. /\ SameWeights(f, g, {m})
      /\ Adds(Weight(f, m), EntrySize(f, m, entry), Weight(g, m))
      /\ \A u : Sized(f, u) /\ EntrySized(f, u, m, entry) => Sized(g, u)
  BY <1>1, SimpleInsertWeight
<1>4. /\ Allocated(f) = Allocated(h) \cup {new} /\ Allocated(g) = Allocated(f)
  <2>1. Allocated(f) = Allocated(h) \cup {new}
    BY <1>0, <1>1, NodeSplitTree
  <2>2. Allocated(g) = Allocated(f)
    BY <1>1, SimpleInsertTree DEF Inserted
  <2> QED
    BY <2>1, <2>2
<1>5. (IsLeaf(f, m) <=> IsLeaf(h, n)) /\ (IsLeaf(f, new) <=> IsLeaf(h, n))
  BY <1>0, <1>1 DEF NodeSplit, IsLeaf
<1>6. IsLeaf(g, new) \/ Trim(g, new)
  BY <1>0, <1>1, <1>2, <1>5, SimpleInsertTrim
<1>7. g \in Heap
  BY <1>1, SimpleInsertType DEF InsertOK, Allocated
<1>8. Weight(g, new) \in Nat
  BY <1>0, <1>7, WeightType
<1> HIDE DEF g, x, f, lev2
<1>9. Sized(h, w2)
  BY <1>0, SizedExcept
<1>10. w2 \in [Ptr -> Nat] /\ w2[new] = Weight(g, new)
       /\ \A p \in Ptr : p # new => w2[p] = w[p]
  BY <1>0, <1>8
<1> HIDE DEF w2
<1>11. EntrySized(f, w2, m, entry)
  <2>1. ~ IsLeaf(h, n) => entry.slot \in Ptr /\ entry.slot # new
    BY <1>0 DEF Roots, Allocated
  <2> QED
    BY <1>5, <1>10, <2>1 DEF EntrySized
<1>12. Sized(g, w2)
  BY <1>2, <1>3, <1>9, <1>11
<1>13. EntrySize(f, m, entry) = x
  BY <1>5 DEF EntrySize, x
<1>14. \A p \in Allocated(h) : w2[p] = w[p]
  BY <1>0, <1>10 DEF Allocated
<1>15. w[n] = Weight(h, n) + (x - 1)
  BY <1>0 DEF Owing, x
<1>16. w[n] = Weight(g, n) + (Weight(g, new) - 1)
  <2>1. n # new
    BY <1>0
  <2>2. CASE m = n
    <3>1. Weight(g, new) = Weight(f, new)
      BY <1>3, <1>4, <2>1, <2>2 DEF SameWeights
    <3>2. Adds(Weight(f, n), x, Weight(g, n))
      BY <1>3, <1>13, <2>2
    <3> QED
      BY <1>2, <1>15, <3>1, <3>2 DEF Adds
  <2>3. CASE m = new
    <3>1. Weight(g, n) = Weight(f, n)
      BY <1>0, <1>3, <1>4, <2>1, <2>3 DEF SameWeights
    <3>2. Adds(Weight(f, new), x, Weight(g, new))
      BY <1>3, <1>13, <2>3
    <3> QED
      BY <1>2, <1>15, <3>1, <3>2 DEF Adds
  <2> QED
    BY <2>2, <2>3
<1>17. ASSUME NEW p \in Allocated(g)
       PROVE  w2[p] = Weight(g, p) + (IF p = n THEN Weight(g, new) - 1 ELSE 0)
  <2>0. p \in Ptr
    BY DEF Allocated
  <2>1. CASE p = n
    BY <1>0, <1>14, <1>16, <2>1
  <2>2. CASE p = new
    BY <1>0, <1>8, <1>10, <2>2
  <2>3. CASE p # n /\ p # new
    <3>1. p \in Allocated(h) /\ p \in Allocated(f)
      BY <1>4, <2>3
    <3>2. Weight(g, p) = Weight(h, p)
      BY <1>2, <1>3, <2>3, <3>1 DEF SameWeights
    <3>3. w[p] = Weight(h, p) + 0
      BY <2>3, <3>1 DEF Owing
    <3> QED
      BY <1>14, <2>3, <3>1, <3>2, <3>3
  <2> QED
    BY <2>1, <2>2, <2>3
<1>18. Owing(g, w2, n, HalfWeight(g, new))
  BY <1>0, <1>17 DEF Owing, HalfWeight
<1>19. NodeSize(g, new) = Weight(g, new)
  BY <1>0, <1>6, <1>7, TrimSize
<1> QED
  BY <1>1, <1>10, <1>12, <1>14, <1>18, <1>19 DEF InsertSized

\* insert_once.
LEMMA InsertOnceSizes ==
  ASSUME NEW h \in Heap, NEW lev, Tree(h, lev), NEW n, NEW i, NEW entry,
         InsertOK(h, lev, n, i, entry),
         NEW new, h[n].length = B => new \in Free(h),
         NEW w \in [Ptr -> Nat], Sized(h, w), EntrySized(h, w, n, entry),
         Owing(h, w, n, EntrySize(h, n, entry)),
         NEW r, r = InsertOnce(h, n, i, entry, new)
  PROVE  \E w2 : InsertSized(h, r.heap, r.split, w, w2, n)
<1>1. CASE h[n].length < B
  <2>1. r.heap = SimpleInsert(h, n, i, entry) /\ r.split = None
    BY <1>1 DEF InsertOnce
  <2> QED
    BY <1>1, <2>1, InsertOnceRoom
<1>2. CASE ~ (h[n].length < B)
  <2>1. h[n].length = B /\ new \in Free(h)
    BY <1>2, Kinds DEF InsertOK
  <2>2. PICK left \in 1..(B - 1), m \in {n, new}, j \in Nat :
          SplitFirst(h, r, lev, n, entry, new, left, m, j)
    BY <2>1, InsertOnceSplits
  <2>3. r.split = new
    BY <2>2 DEF SplitFirst
  <2> QED
    BY <2>1, <2>2, <2>3, InsertOnceFull
<1> QED
  BY <1>1, <1>2

-----------------------------------------------------------------------------
(***************************************************************************)
(* remove_once.                                                            *)
(***************************************************************************)

\* n has lost an item its parent still counts.
Owed(h, w, n) ==
  \A p \in Allocated(h) : w[p] = Weight(h, p) + (IF p = n THEN 1 ELSE 0)

\* remove_once has changed n and reports r: the sizes w are right, up to what
\* the parent of n has still to hear.
RemoveSized(g, n, r, w) ==
  /\ Sized(g, w)
  /\ \A p \in Allocated(g) : w[p] = Weight(g, p) + RemoveExcess(g, n, r, w, p)
  /\ r.kind = "Moved" \/ r.size = 0

\* The report names the siblings a and b.
Names(h, g, n, r, a, b) == SourceOf(g, n, r) = a /\ TargetOf(g, n, r) = b

\* By their index, which a change inside the two leaves alone.
LEMMA SiblingNames ==
  ASSUME NEW h \in Heap, NEW lev, Tree(h, lev), NEW g, NEW a, NEW b,
         Siblings(h, lev, a, b), Spares(h, g, lev, lev[a]),
         NEW n \in {a, b}, NEW r, r.kind # "Absorbed",
         r.src = h[a].index, r.dest = h[b].index
  PROVE  Names(h, g, n, r, a, b)
<1>1. SiblingsKept(h, g, a, b)
  BY SiblingsFrame
<1> QED
  BY <1>1 DEF SiblingsKept, Names, SourceOf, TargetOf

\* An entry moved from a sibling.
LEMMA MoveEntrySizes ==
  ASSUME NEW h \in Heap, NEW lev, Tree(h, lev), NEW donor, NEW n,
         Siblings(h, lev, donor, n),
         NEW i \in Nat, i < h[donor].length, h[donor].length > 1,
         NEW j \in 0..h[n].length, h[n].length < B,
         NEW w \in [Ptr -> Nat], Sized(h, w), Owed(h, w, n)
  PROVE  LET r == MoveEntry(h, donor, i, n, j)
         IN  RemoveSized(r.heap, n, r.removal, w)
<1> DEFINE entry == Taken(h, donor, i)
           x == entry.size
           f == SimpleRemove(h, donor, i)
           g == SimpleInsert(f, n, j, entry)
           r == MoveEntry(h, donor, i, n, j)
           m == r.removal
<1>1. /\ donor \in Allocated(h) /\ n \in Allocated(h) /\ donor # n
      /\ lev[donor] = lev[n]
  BY DEF Siblings
<1>2. /\ r.heap = g /\ m.kind = "Moved" /\ m.size = x
      /\ m.src = h[donor].index /\ m.dest = h[n].index
  BY DEF MoveEntry
<1>3. /\ f \in Heap /\ Removed(h, f, lev, donor, i) /\ f[n].length = h[n].length
      /\ InsertOK(f, lev, n, j, entry) /\ entry.slot = h[donor].children[i]
  BY MoveEntryLends DEF Lent
<1>4. /\ SameWeights(h, f, {donor}) /\ Adds(Weight(f, donor), x, Weight(h, donor))
      /\ Sized(f, w)
  BY <1>1, SimpleRemoveWeight
<1>5. Tree(f, lev) /\ Allocated(f) = Allocated(h) /\ Spares(h, f, lev, lev[donor])
  BY <1>3 DEF Removed
<1>6. IsLeaf(f, n) <=> IsLeaf(h, donor)
  BY <1>1, <1>5 DEF Tree
<1>7. x = EntrySize(f, n, entry) /\ EntrySized(f, w, n, entry)
  <2>1. CASE IsLeaf(h, donor)
    BY <1>6, <2>1 DEF EntrySize, EntrySized, Taken, Entry
  <2>2. CASE ~ IsLeaf(h, donor)
    <3>1. IsInternal(h, donor) /\ i \in Position
      <4>1. IsInternal(h, donor) /\ h[donor].length \in 0..B
        BY <1>1, <2>2, Kinds
      <4> QED
        BY <4>1
    <3>2. h[donor].sizes[i] = w[h[donor].children[i]]
      BY <1>1, <3>1 DEF Sized
    <3>3. x = h[donor].sizes[i]
      BY <2>2 DEF Taken, Entry
    <3> HIDE DEF entry, f
    <3> QED
      BY <1>3, <1>6, <2>2, <3>2, <3>3 DEF EntrySize, EntrySized
  <2> QED
    BY <2>1, <2>2
<1> HIDE DEF f, entry, r
<1>8. /\ SameWeights(f, g, {n}) /\ Adds(Weight(f, n), x, Weight(g, n))
      /\ Sized(g, w)
  <2>1. f[n].length < B
    BY <1>3
  <2>2. /\ SameWeights(f, g, {n})
        /\ Adds(Weight(f, n), EntrySize(f, n, entry), Weight(g, n))
        /\ \A u : Sized(f, u) /\ EntrySized(f, u, n, entry) => Sized(g, u)
    BY <1>3, <1>5, <2>1, SimpleInsertWeight
  <2> QED
    BY <1>4, <1>7, <2>2
<1>9. Names(h, g, n, m, donor, n)
  <2>1. Rebalanced(h, r, lev, n)
    BY MoveEntryTree DEF r
  <2>2. Spares(h, g, lev, lev[donor])
    BY <1>1, <1>2, <2>1 DEF Rebalanced
  <2> HIDE DEF m, g
  <2> QED
    BY <1>2, <2>2, SiblingNames
<1>10. Allocated(g) = Allocated(h)
  <2>1. Inserted(f, g, lev, n, entry.slot)
    <3>1. f[n].length < B
      BY <1>3
    <3> QED
      BY <1>3, <1>5, <3>1, SimpleInsertTree
  <2> QED
    BY <1>5, <2>1 DEF Inserted
<1> HIDE DEF x, g, m
<1>11. ASSUME NEW p \in Allocated(g)
       PROVE  w[p] = Weight(g, p) + RemoveExcess(g, n, m, w, p)
  <2>1. RemoveExcess(g, n, m, w, p) = (IF p = donor THEN x ELSE 0)
                                      + (IF p = n THEN 1 - x ELSE 0)
    BY <1>2, <1>9 DEF RemoveExcess, Names
  <2>2. w[p] = Weight(h, p) + (IF p = n THEN 1 ELSE 0) /\ p \in Allocated(h)
        /\ p \in Allocated(f)
    BY <1>5, <1>10 DEF Owed
  <2>3. CASE p = donor
    <3>1. Weight(g, p) = Weight(f, p)
      BY <1>1, <1>8, <2>2, <2>3 DEF SameWeights
    <3> QED
      BY <1>1, <1>4, <2>1, <2>2, <2>3, <3>1 DEF Adds
  <2>4. CASE p = n
    <3>1. Weight(f, p) = Weight(h, p)
      BY <1>1, <1>4, <2>2, <2>4 DEF SameWeights
    <3> QED
      BY <1>1, <1>8, <2>1, <2>2, <2>4, <3>1 DEF Adds
  <2>5. CASE p # donor /\ p # n
    <3>1. Weight(g, p) = Weight(h, p)
      BY <1>4, <1>8, <2>2, <2>5 DEF SameWeights
    <3>2. Weight(h, p) \in Nat
      BY <2>2, WeightType DEF Allocated
    <3> QED
      BY <2>1, <2>2, <2>5, <3>1, <3>2
  <2> QED
    BY <2>3, <2>4, <2>5
<1>12. RemoveSized(g, n, m, w)
  BY <1>2, <1>8, <1>11 DEF RemoveSized
<1> QED
  BY <1>2, <1>12 DEF r, m

\* Two siblings merged.
LEMMA MergeIntoSizes ==
  ASSUME NEW h \in Heap, NEW lev, Tree(h, lev), NEW dest, NEW src,
         Siblings(h, lev, dest, src), ~ MergePanics(h, dest, src),
         NEW n \in {dest, src},
         NEW w \in [Ptr -> Nat], Sized(h, w), Owed(h, w, n)
  PROVE  LET r == MergeInto(h, dest, src)
         IN  RemoveSized(r.heap, n, r.removal, w)
<1> DEFINE g == Merge(h, dest, src)
           r == MergeInto(h, dest, src)
           m == r.removal
           x == w[src]
<1>1. /\ dest \in Allocated(h) /\ src \in Allocated(h) /\ dest # src
      /\ lev[dest] = lev[src] /\ Siblings(h, lev, src, dest)
  BY DEF Siblings
<1>2. /\ r.heap = g /\ m.kind = "Merged" /\ m.size = 0
      /\ m.src = h[src].index /\ m.dest = h[dest].index
  BY DEF MergeInto
<1>3. /\ SameWeights(h, g, {dest, src})
      /\ Adds(Weight(h, dest), Weight(h, src), Weight(g, dest))
      /\ Weight(g, src) = 0 /\ Sized(g, w)
  <2>1. Mergeable(h, lev, dest, src)
    BY CanMerge
  <2> QED
    BY <2>1, MergeWeight
<1> HIDE DEF r
<1>4. Rebalanced(h, r, lev, n)
  BY MergeIntoTree DEF r
<1>5. Allocated(g) = Allocated(h) /\ Spares(h, g, lev, lev[src])
  BY <1>1, <1>2, <1>4 DEF Rebalanced
<1> HIDE DEF g, m
<1>6. Names(h, g, n, m, src, dest)
  BY <1>1, <1>2, <1>5, SiblingNames
<1>7. \A p \in Allocated(h) : w[p] = Weight(h, p) + (IF p = n THEN 1 ELSE 0)
  BY DEF Owed
<1>8. x = Weight(h, src) + (IF src = n THEN 1 ELSE 0)
      /\ w[dest] = Weight(h, dest) + (IF dest = n THEN 1 ELSE 0)
  BY <1>1, <1>7
<1>9. x \in Nat
  BY <1>1 DEF Allocated
<1> HIDE DEF x
<1>10. ASSUME NEW p \in Allocated(g)
       PROVE  w[p] = Weight(g, p) + RemoveExcess(g, n, m, w, p)
  <2>1. RemoveExcess(g, n, m, w, p) = (IF p = src THEN x ELSE 0)
                                      + (IF p = dest THEN 1 - x ELSE 0)
    BY <1>2, <1>6 DEF RemoveExcess, Names, x
  <2>3. CASE p = src
    BY <1>1, <1>3, <1>9, <2>1, <2>3 DEF x
  <2>4. CASE p = dest
    <3>1. w[dest] = Weight(g, dest) + (1 - x)
      BY <1>1, <1>3, <1>8 DEF Adds
    <3>2. RemoveExcess(g, n, m, w, p) = 1 - x
      BY <1>1, <1>9, <2>1, <2>4
    <3> QED
      BY <2>4, <3>1, <3>2
  <2>5. CASE p # src /\ p # dest
    <3>1. Weight(g, p) = Weight(h, p) /\ p \in Allocated(h)
      BY <1>3, <1>5, <2>5 DEF SameWeights
    <3>2. Weight(h, p) \in Nat
      BY <3>1, WeightType DEF Allocated
    <3>3. w[p] = Weight(h, p) + 0
      BY <1>7, <2>5, <3>1
    <3> QED
      BY <2>1, <2>5, <3>1, <3>2, <3>3
  <2> QED
    BY <2>3, <2>4, <2>5
<1>11. RemoveSized(g, n, m, w)
  BY <1>2, <1>3, <1>10 DEF RemoveSized
<1> QED
  BY <1>2, <1>11 DEF r, m

\* The node that has lost the item, left alone or helped by a sibling.
LEMMA RebalanceSizes ==
  ASSUME NEW h \in Heap, NEW lev, Tree(h, lev), NEW n \in Allocated(h),
         NEW r, RebalancedBy(h, r, lev, n),
         NEW w \in [Ptr -> Nat], Sized(h, w), Owed(h, w, n)
  PROVE  RemoveSized(r.heap, n, r.removal, w)
<1>0. h[n].length \in 0..B
  BY Kinds
<1>1. CASE r.heap = h /\ r.removal = Absorbed(h, n)
  <2> DEFINE m == r.removal
  <2>1. m.kind = "Absorbed" /\ m.size = 0
    BY <1>1 DEF Absorbed
  <2>2. Names(h, h, n, m, n, n)
    BY <2>1 DEF Names, SourceOf, TargetOf
  <2> HIDE DEF m
  <2>3. ASSUME NEW p \in Allocated(h)
        PROVE  w[p] = Weight(h, p) + RemoveExcess(h, n, m, w, p)
    <3>1. RemoveExcess(h, n, m, w, p) = IF p = n THEN 1 ELSE 0
      BY <2>1, <2>2 DEF RemoveExcess, Names
    <3> QED
      BY <3>1 DEF Owed
  <2> QED
    BY <1>1, <2>1, <2>3 DEF RemoveSized, m
<1>2. ASSUME NEW s \in Ptr, Siblings(h, lev, s, n), LendsTo(h, r, s, n)
      PROVE  RemoveSized(r.heap, n, r.removal, w)
  <2>1. /\ h[s].length \in 0..B /\ h[s].length > MinLength /\ MinLength \in 1..B
        /\ h[n].length < MinLength
    BY <1>2, FieldTypes DEF LendsTo, CanLend, MinLength
  <2>2. /\ h[s].length > 1 /\ h[n].length < B
        /\ h[s].length - 1 \in Nat /\ h[s].length - 1 < h[s].length
        /\ 0 \in 0..h[n].length /\ h[n].length \in 0..h[n].length
        /\ 0 < h[s].length
    BY <1>0, <2>1
  <2>3. CASE r = MoveEntry(h, s, h[s].length - 1, n, 0)
    BY <1>2, <2>2, <2>3, MoveEntrySizes
  <2>4. CASE r = MoveEntry(h, s, 0, n, h[n].length)
    BY <1>2, <2>2, <2>4, MoveEntrySizes
  <2> QED
    BY <1>2, <2>3, <2>4 DEF LendsTo
<1>3. ASSUME NEW s \in Ptr, Siblings(h, lev, n, s), GoesInto(h, r, s, n)
      PROVE  RemoveSized(r.heap, n, r.removal, w)
  BY <1>3, MergeIntoSizes DEF GoesInto
<1>4. ASSUME NEW s \in Ptr, Siblings(h, lev, s, n), GoesInto(h, r, n, s)
      PROVE  RemoveSized(r.heap, n, r.removal, w)
  BY <1>4, MergeIntoSizes DEF GoesInto
<1> QED
  BY <1>1, <1>2, <1>3, <1>4 DEF RebalancedBy

\* Everything weighs what w says but for the entry i of n, which no longer
\* counts if it is a child, and counts twice otherwise.
LEMMA RemoveOnceSizes ==
  ASSUME NEW h \in Heap, NEW lev, Tree(h, lev), NEW n \in Allocated(h),
         NEW i \in Nat, ~ RemovePanics(h, n, i),
         NEW w \in [Ptr -> Nat], Sized(h, w),
         \A p \in Allocated(h) :
           w[p] = Weight(h, p) + (IF p = n THEN 1 - Taken(h, n, i).size ELSE 0),
         NEW r, r = RemoveOnce(h, n, i)
  PROVE  RemoveSized(r.heap, n, r.removal, w)
<1> DEFINE f == SimpleRemove(h, n, i)
           x == Taken(h, n, i).size
<1>1. i < h[n].length /\ ~ RebalancePanics(f, n)
  <2>1. h[n].length \in 0..B
    BY Kinds
  <2> QED
    BY <2>1 DEF RemovePanics
<1>2. /\ SameWeights(h, f, {n}) /\ Adds(Weight(f, n), x, Weight(h, n))
      /\ Sized(f, w)
  BY <1>1, SimpleRemoveWeight
<1>3. f \in Heap
  BY <1>1, SimpleRemoveType DEF Allocated
<1>4. Tree(f, lev) /\ Allocated(f) = Allocated(h)
  BY <1>1, SimpleRemoveTree DEF Removed
<1>5. r = Rebalance(f, n)
  BY DEF RemoveOnce
<1> HIDE DEF f, x
<1>6. RebalancedBy(f, r, lev, n)
  BY <1>1, <1>3, <1>4, <1>5, RebalanceCases
<1>7. ASSUME NEW p \in Allocated(h)
      PROVE  w[p] = Weight(f, p) + (IF p = n THEN 1 ELSE 0)
  <2>1. w[p] = Weight(h, p) + (IF p = n THEN 1 - x ELSE 0)
    BY DEF x
  <2>2. p # n => Weight(f, p) = Weight(h, p)
    BY <1>2 DEF SameWeights
  <2> QED
    BY <1>2, <2>1, <2>2 DEF Adds
<1>8. Owed(f, w, n)
  BY <1>4, <1>7 DEF Owed
<1> QED
  BY <1>2, <1>3, <1>4, <1>6, <1>8, RebalanceSizes

-----------------------------------------------------------------------------
(***************************************************************************)
(* The starts and ends of calls, leaf_for, get and get_mut.                *)
(***************************************************************************)

\* Outside the climbs nothing is left to account for.
Exact(w) ==
  /\ w \in [Ptr -> Nat]
  /\ Sized(heap, w)
  /\ \A p \in Allocated(heap) : w[p] = Weight(heap, p)
  /\ size = IF root = None THEN 0 ELSE w[Top]

\* SizesInv gives it there, and what leaf_for relies on.
LEMMA ExactThen ==
  ASSUME TypeInv, SizesInv, ~ Ended, pc # "climb"
  PROVE  (\E w : Exact(w)) /\ SeekOK
<1>1. PICK w \in [Ptr -> Nat] : SizesInvAt(w)
  BY DEF SizesInv
<1>2. ~ Inserting /\ ~ Removing
  BY DEF Inserting, Removing
<1>3. ASSUME NEW p \in Allocated(heap) PROVE w[p] = Weight(heap, p)
  <2>1. w[p] = Weight(heap, p) + 0
    BY <1>1, <1>2 DEF SizesInvAt, Excess
  <2>2. Weight(heap, p) \in Nat
    BY WeightType DEF Allocated, TypeInv, TypeOK
  <2> QED
    BY <2>1, <2>2
<1> QED
  BY <1>1, <1>3 DEF SizesInvAt, Exact

\* It is enough there.
LEMMA ExactStep ==
  ASSUME NEW w, Exact(w)', heap' \in Heap, pc' # "climb", split' = None, SeekOK'
  PROVE  SizesInv'
<1>1. ~ Inserting' /\ ~ Removing'
  BY DEF Inserting, Removing
<1>2. ASSUME NEW p \in Allocated(heap')
      PROVE  w[p] = Weight(heap', p) + Excess(w, p)'
  <2>1. Excess(w, p)' = 0
    BY <1>1 DEF Excess
  <2>2. w[p] = Weight(heap', p)
    BY DEF Exact
  <2>3. Weight(heap', p) \in Nat
    BY WeightType DEF Allocated
  <2> QED
    BY <2>1, <2>2, <2>3
<1>3. SizesInvAt(w)'
  BY <1>1, <1>2 DEF SizesInvAt, Exact
<1> QED
  BY <1>3 DEF SizesInv, Exact

\* A failed check.
LEMMA PanicSizes == Panic => SizesInv'
BY DEF Panic, Leave, SizesInv, Ended

\* The empty vector.
LEMMA InitSizes == Init => SizesInv
<1> SUFFICES ASSUME Init PROVE SizesInv
  OBVIOUS
<1> DEFINE w == [p \in Ptr |-> 0]
<1>1. Allocated(heap) = {}
  BY DEF Init, Allocated, NewNode
<1>2. /\ root = None /\ size = 0 /\ split = None /\ ~ Removing /\ SeekOK
      /\ pc # "climb"
  BY DEF Init, Removing, SeekOK
<1>3. w \in [Ptr -> Nat]
  OBVIOUS
<1> HIDE DEF w
<1>4. SizesInvAt(w)
  BY <1>1, <1>2, <1>3 DEF SizesInvAt, Sized
<1> QED
  BY <1>3, <1>4 DEF SizesInv

\* A step that reads.
LEMMA ReadSizes ==
  ASSUME TypeInv, SizesInv, ~ Ended, pc # "climb",
         UNCHANGED fields, pc' # "climb", split' = None, SeekOK'
  PROVE  SizesInv'
<1>1. PICK w : Exact(w)
  BY ExactThen
<1>2. Exact(w)'
  BY <1>1 DEF Exact, Top, fields
<1>3. heap' \in Heap
  BY DEF TypeInv, TypeOK, fields
<1> QED
  BY <1>2, <1>3, ExactStep

\* insert, remove, get and get_mut up to leaf_for.
LEMMA BeginSizes == TypeInv /\ TypeInv' /\ TreeInv /\ SizesInv /\ Begin => SizesInv'
<1> SUFFICES ASSUME TypeInv, TypeInv', TreeInv, SizesInv, NEW i \in 0..MaxSize,
                    \/ \E x \in Item : BeginInsert(i, x) \/ BeginSet(i, x)
                    \/ BeginRemove(i)
                    \/ BeginGet(i)
             PROVE  SizesInv'
  BY DEF Begin
<1>1. pc = "idle" /\ pc' = "seek" /\ split' = split /\ index' = i
  BY DEF BeginInsert, BeginSet, BeginRemove, BeginGet, Enter
<1>2. ~ Inserting /\ ~ Removing /\ ~ Ended /\ heap \in Heap /\ root \in PtrOrNone
      /\ i \in Nat /\ size \in Nat /\ heap' \in Heap
  BY <1>1, MaxSizeAssumption DEF Inserting, Removing, Ended, TypeInv, TypeOK
<1>3. PICK lev \in [Ptr -> Nat] : OneTree(lev)
  BY <1>2, OneTreeThen
<1>4. PICK w : Exact(w)
  BY <1>1, <1>2, ExactThen
<1>5. split' = None
  BY <1>1, <1>3 DEF OneTree
<1>6. CASE UNCHANGED fields /\ node' = root /\ root # None
           /\ (i < size \/ (request'.op = "insert" /\ i <= size))
  <2>1. size = Weight(heap, root)
    BY <1>3, <1>4, <1>6 DEF Exact, OneTree, Top
  <2>2. heap' = heap
    BY <1>6 DEF fields
  <2>3. i < size \/ (request'.op = "insert" /\ i = size)
    <3>1. i <= size => i < size \/ i = size
      BY <1>2
    <3> QED
      BY <1>6, <3>1
  <2>4. SeekOK'
    BY <1>1, <1>6, <2>1, <2>2, <2>3 DEF SeekOK
  <2> QED
    BY <1>1, <1>2, <1>5, <1>6, <2>4, ReadSizes
<1>7. CASE \E x \in Item : BeginInsert(i, x)
  <2>1. request'.op = "insert" /\ i <= size /\ size' = size
    BY <1>7 DEF BeginInsert, Enter, fields
  <2>2. CASE root # None
    <3>1. UNCHANGED fields /\ node' = root
      BY <1>7, <2>2 DEF BeginInsert
    <3> QED
      BY <1>6, <2>1, <2>2, <3>1
  <2>3. CASE root = None
    <3> DEFINE new == Fresh(heap)
               w2 == [w EXCEPT ![new] = 0]
    <3>1. /\ Free(heap) # {} /\ heap' = Alloc(heap, new, "leaf")
          /\ root' = new /\ node' = new
      BY <1>7, <2>3 DEF BeginInsert
    <3>2. new \in Free(heap)
      BY <3>1 DEF Fresh, Free
    <3>3. new \in Ptr /\ new # None /\ new \notin Allocated(heap)
      BY <3>2 DEF Free, Allocated
    <3> HIDE DEF new
    <3>4. /\ heap'[new] = NewNode("leaf")
          /\ \A p \in Ptr : p # new => heap'[p] = heap[p]
      <4> DEFINE g == Alloc(heap, new, "leaf")
      <4>1. Tree(heap, lev) /\ 0 \in Nat /\ "leaf" \in {"leaf", "internal"}
        BY <1>3 DEF OneTree
      <4>2. /\ g[new] = NewNode("leaf")
            /\ \A p \in Ptr : p # new => g[p] = heap[p]
        BY <1>2, <3>2, <4>1, AllocTree
      <4> QED
        BY <3>1, <4>2
    <3>5. /\ IsLeaf(heap', new) /\ ~ IsInternal(heap', new)
          /\ Weight(heap', new) = 0 /\ heap'[new].parent = None
      BY <3>4 DEF IsLeaf, IsInternal, Weight, NewNode
    <3>6. KeptOutside(heap, heap', {new})
      BY <3>4 DEF KeptOutside
    <3>7. w \in [Ptr -> Nat] /\ Sized(heap, w)
          /\ \A p \in Allocated(heap) : w[p] = Weight(heap, p)
      BY <1>4 DEF Exact
    <3>8. Sized(heap, w2)
      BY <1>2, <1>3, <3>3, <3>7, SizedExcept DEF OneTree
    <3>9. PICK u : /\ u \in [Ptr -> Nat] /\ u[new] = 0 /\ Sized(heap, u)
                   /\ \A p \in Ptr : p # new => u[p] = w[p]
      <4>1. w2 \in [Ptr -> Nat] /\ w2[new] = 0
            /\ \A p \in Ptr : p # new => w2[p] = w[p]
        BY <3>3, <3>7
      <4> HIDE DEF w2
      <4> QED
        BY <3>8, <4>1
    <3>10. Sized(heap', u)
      BY <3>5, <3>6, <3>9, SizedFrame
    <3>11. ASSUME NEW p \in Allocated(heap') PROVE u[p] = Weight(heap', p)
      <4>1. CASE p = new
        BY <3>5, <3>9, <4>1
      <4>2. CASE p # new
        <5>1. p \in Ptr /\ p \in Allocated(heap)
          BY <3>4, <4>2 DEF Allocated
        <5>2. Weight(heap', p) = Weight(heap, p)
          BY <3>6, <4>2, <5>1, SizedFrame DEF SameWeights
        <5> QED
          BY <3>7, <3>9, <4>2, <5>1, <5>2
      <4> QED
        BY <4>1, <4>2
    <3>12. size = 0 /\ i = 0
      <4>1. size = 0
        BY <1>4, <2>3 DEF Exact
      <4> QED
        BY <1>2, <2>1, <4>1
    <3>13. Top' = new
      BY <3>1, <3>3, <3>5 DEF Top
    <3>14. Exact(u)'
      <4>1. size' = 0 /\ u[Top'] = 0 /\ root' # None
        BY <2>1, <3>1, <3>3, <3>9, <3>12, <3>13
      <4> QED
        BY <3>9, <3>10, <3>11, <4>1 DEF Exact
    <3>15. SeekOK'
      BY <1>1, <2>1, <3>1, <3>5, <3>12 DEF SeekOK
    <3> QED
      BY <1>1, <1>2, <1>5, <3>14, <3>15, ExactStep
  <2> QED
    BY <2>2, <2>3
<1>8. CASE (\E x \in Item : BeginSet(i, x)) \/ BeginRemove(i) \/ BeginGet(i)
  <2>1. UNCHANGED fields /\ node' = root /\ i < size
    BY <1>8 DEF BeginSet, BeginRemove, BeginGet
  <2>2. root # None
    BY <1>2, <2>1 DEF TypeInv, CallOK
  <2> QED
    BY <1>6, <2>1, <2>2
<1> QED
  BY <1>7, <1>8

\* leaf_for finds the child that has the index.
LEMMA DescendSizes == TypeInv /\ TypeInv' /\ TreeInv /\ SizesInv /\ Descend => SizesInv'
<1> SUFFICES ASSUME TypeInv, TypeInv', TreeInv, SizesInv, Descend PROVE SizesInv'
  OBVIOUS
<1> DEFINE k == ChildFor(heap, node, index)
           sums == PrefixSums(heap[node].sizes)
           c == heap[node].children[k]
<1>1. pc = "seek" /\ node \in Ptr /\ heap \in Heap /\ index \in Nat
      /\ IsInternal(heap, node) /\ index' \in Nat
  BY DEF Descend, TypeInv, TypeOK, CallOK
<1>2. ~ Inserting /\ ~ Removing /\ ~ Ended
  BY <1>1 DEF Inserting, Removing, Ended
<1>3. PICK lev \in [Ptr -> Nat] : OneTree(lev)
  BY <1>2, OneTreeThen
<1>4. PICK w : Exact(w)
  BY <1>1, <1>2, ExactThen
<1>5. CASE heap[node].length = 0 \/ ChildPtr(heap, node, k) \notin Ptr
  BY <1>5, PanicSizes DEF Descend
<1>6. CASE heap[node].length # 0 /\ ChildPtr(heap, node, k) \in Ptr
  <2>1. /\ k \in 0..(heap[node].length - 1) /\ sums[k] <= index
        /\ k = heap[node].length - 1 \/ index < sums[k + 1]
    BY <1>1, <1>6, ChildForType
  <2>2. /\ node' = c /\ index' = index - sums[k]
        /\ UNCHANGED <<fields, request, pc, held, split, removal>>
    BY <1>6 DEF Descend
  <2>3. heap[node].length \in 1..B /\ heap[node].sizes \in SizeArray
    BY <1>1, <1>6, FieldTypes DEF SizeArray
  <2> HIDE DEF k
  <2>4. k \in Position /\ k \in Nat /\ k < heap[node].length
    BY <2>1, <2>3
  <2>5. node \in Allocated(heap) /\ ~ IsLeaf(heap, node)
    BY <1>1 DEF Allocated, IsInternal, IsLeaf
  <2>6. heap[node].sizes[k] = w[c]
    BY <1>1, <1>4, <2>4, <2>5 DEF Exact, Sized
  <2>7. c \in Allocated(heap)
    BY <1>1, <1>3, <2>4, <2>5, ChildOf DEF OneTree
  <2> HIDE DEF c
  <2>8. w[c] = Weight(heap, c) /\ Weight(heap, c) \in Nat
    BY <1>1, <1>4, <2>7, WeightType DEF Exact, Allocated
  <2>9. Adds(sums[k], Weight(heap, c), sums[k + 1])
    BY <2>3, <2>4, <2>6, <2>8, SumsStep
  <2>10. Weight(heap, node) = sums[heap[node].length]
    BY <2>5 DEF Weight
  <2> HIDE DEF sums
  <2>11. \/ index < sums[k + 1]
         \/ request.op = "insert" /\ index = sums[k + 1]
    <3>1. CASE index < sums[k + 1]
      BY <3>1
    <3>2. CASE k = heap[node].length - 1
      <4>1. SeekOK
        BY <1>1, <1>2, ExactThen
      <4>2. k + 1 = heap[node].length
        BY <2>3, <3>2
      <4> QED
        BY <1>1, <2>10, <4>1, <4>2 DEF SeekOK
    <3> QED
      BY <2>1, <3>1, <3>2
  <2>12. CASE index < sums[k + 1]
    <3>1. index' < Weight(heap, c)
      BY <1>1, <2>2, <2>9, <2>12 DEF Adds
    <3> QED
      BY <1>1, <1>2, <1>3, <2>2, <3>1, ReadSizes DEF OneTree, SeekOK, fields
  <2>13. CASE request.op = "insert" /\ index = sums[k + 1]
    <3>1. index' = Weight(heap, c)
      BY <1>1, <2>2, <2>9, <2>13 DEF Adds
    <3> QED
      BY <1>1, <1>2, <1>3, <2>2, <2>13, <3>1, ReadSizes DEF OneTree, SeekOK, fields
  <2> QED
    BY <2>11, <2>12, <2>13
<1> QED
  BY <1>5, <1>6

\* get and get_mut at the leaf.
LEMMA AccessSizes ==
  TypeInv /\ TypeInv' /\ TreeInv /\ SizesInv /\ (Get \/ Set \/ Return) => SizesInv'
<1> SUFFICES ASSUME TypeInv, TypeInv', TreeInv, SizesInv, Get \/ Set \/ Return
             PROVE  SizesInv'
  OBVIOUS
<1>1. ~ Inserting /\ ~ Removing /\ ~ Ended /\ heap \in Heap /\ heap' \in Heap
      /\ pc # "climb"
  BY DEF Get, Set, Return, AtLeaf, Inserting, Removing, Ended, TypeInv, TypeOK
<1>2. PICK lev \in [Ptr -> Nat] : OneTree(lev)
  BY <1>1, OneTreeThen
<1>3. CASE Panic
  BY <1>3, PanicSizes
<1>4. CASE ~ Panic
  <2>1. split' = None /\ pc' \in {"idle", "return"} /\ root' = root /\ size' = size
    BY <1>2, <1>4 DEF Get, Set, Return, Leave, OneTree, fields
  <2>2. pc' # "climb" /\ SeekOK'
    BY <2>1 DEF SeekOK
  <2>3. CASE heap' = heap
    BY <1>1, <2>1, <2>2, <2>3, ReadSizes DEF fields
  <2>4. CASE heap' # heap
    <3> DEFINE ch == [heap[node].children EXCEPT ![index] = held]
    <3>1. /\ heap' = [heap EXCEPT ![node].children[index] = held]
          /\ AtLeaf("set")
      BY <1>4, <2>4 DEF Get, Set, Return, fields
    <3>2. node \in Ptr /\ IsLeaf(heap, node)
      BY <3>1 DEF AtLeaf, TypeInv, CallOK
    <3>3. /\ heap'[node].kind = heap[node].kind
          /\ heap'[node].length = heap[node].length
          /\ heap'[node].sizes = heap[node].sizes
          /\ \A p \in Ptr : p # node => heap'[p] = heap[p]
          /\ \A p \in Ptr : heap'[p].parent = heap[p].parent
      <4>1. heap[node] \in Node
        BY <1>1, <3>2 DEF Heap
      <4>2. heap' = [heap EXCEPT ![node] = [heap[node] EXCEPT !.children = ch]]
        BY <3>1
      <4> HIDE DEF ch
      <4>3. heap'[node] = [heap[node] EXCEPT !.children = ch]
        BY <1>1, <3>2, <4>2 DEF Heap
      <4>4. \A p \in Ptr : p # node => heap'[p] = heap[p]
        BY <1>1, <4>2 DEF Heap
      <4>5. /\ heap'[node].kind = heap[node].kind
            /\ heap'[node].length = heap[node].length
            /\ heap'[node].sizes = heap[node].sizes
            /\ heap'[node].parent = heap[node].parent
        BY <4>1, <4>3 DEF Node
      <4> QED
        BY <4>4, <4>5
    <3>4. KeptOutside(heap, heap', {node}) /\ ~ IsInternal(heap', node)
      BY <3>2, <3>3 DEF KeptOutside, IsLeaf, IsInternal
    <3>5. PICK w : Exact(w)
      BY <1>1, ExactThen
    <3>6. w \in [Ptr -> Nat] /\ Sized(heap, w)
          /\ (\A p \in Allocated(heap) : w[p] = Weight(heap, p))
          /\ size = IF root = None THEN 0 ELSE w[Top]
      BY <3>5 DEF Exact
    <3>7. Sized(heap', w)
      BY <3>4, <3>6, SizedFrame
    <3>8. ASSUME NEW p \in Allocated(heap') PROVE w[p] = Weight(heap', p)
      <4>1. Weight(heap', p) = Weight(heap, p) /\ p \in Allocated(heap)
        <5>1. heap'[p].kind = heap[p].kind /\ heap'[p].length = heap[p].length
              /\ heap'[p].sizes = heap[p].sizes
          BY <3>3 DEF Allocated
        <5> QED
          BY <5>1, WeightFields DEF Allocated
      <4> QED
        BY <3>6, <4>1
    <3>9. Top' = Top
      <4>1. root \in PtrOrNone
        BY DEF TypeInv, TypeOK
      <4> QED
        BY <2>1, <3>3, <4>1 DEF Top, PtrOrNone
    <3>10. Exact(w)'
      BY <2>1, <3>6, <3>7, <3>8, <3>9 DEF Exact
    <3> QED
      BY <1>1, <2>1, <2>2, <3>10, ExactStep
  <2> QED
    BY <2>3, <2>4
<1> QED
  BY <1>3, <1>4

-----------------------------------------------------------------------------
(***************************************************************************)
(* insert.                                                                 *)
(***************************************************************************)

\* A step of the climb of insert.
LEMMA InsertedSizes ==
  ASSUME NEW h, NEW w, NEW w2, heap' \in Heap, Inserting',
         InsertSized(h, heap', split', w, w2, node'),
         size' = IF root' = None THEN 0 ELSE w2[Top']
  PROVE  SizesInv'
<1>1. pc' = "climb" /\ ~ Removing' /\ SeekOK'
  BY DEF Inserting, Removing, SeekOK
<1>2. ASSUME NEW p \in Allocated(heap')
      PROVE  w2[p] = Weight(heap', p) + Excess(w2, p)'
  <2>1. Excess(w2, p)' = IF p = node' THEN HalfWeight(heap', split') - 1 ELSE 0
    BY DEF Excess, InsertExcess, HalfWeight
  <2> QED
    BY <2>1 DEF InsertSized, Owing
<1>3. SizesInvAt(w2)'
  BY <1>1, <1>2 DEF SizesInvAt, InsertSized
<1> QED
  BY <1>3 DEF SizesInv, SizesInvAt

\* The root is above what an insertion changes.
LEMMA RootStays ==
  ASSUME NEW h, NEW lev, NEW n, NEW slot, Roots(h) \ {slot} = {root} \ {None},
         NEW new, NEW r, InsertedOnce(h, r, lev, n, slot, new)
  PROVE  root # None => r.heap[root].parent = None
<1>1. root # None => root \in Roots(h) \ {slot}
  OBVIOUS
<1>2. root # None => root \in Roots(r.heap)
  BY <1>1 DEF InsertedOnce, Inserted
<1> QED
  BY <1>2 DEF Roots

\* insert_once at the leaf.
LEMMA InsertAtLeafSizes ==
  TypeInv /\ TypeInv' /\ TreeInv /\ SizesInv /\ InsertAtLeaf => SizesInv'
<1> SUFFICES ASSUME TypeInv, TypeInv', TreeInv, SizesInv, InsertAtLeaf
             PROVE  SizesInv'
  OBVIOUS
<1> DEFINE entry == Entry(held, 1)
           new == Fresh(heap)
           r == InsertOnce(heap, node, index, entry, new)
<1>0. /\ pc = "seek" /\ request.op = "insert" /\ node \in Ptr /\ heap \in Heap
      /\ index \in Nat /\ held \in Item /\ IsLeaf(heap, node)
      /\ root \in PtrOrNone /\ heap' \in Heap
  BY DEF InsertAtLeaf, AtLeaf, TypeInv, TypeOK, CallOK, TreeInv, TreeInvAt, HeldOK
<1>1. ~ Inserting /\ ~ Removing /\ ~ Ended
  BY <1>0 DEF Inserting, Removing, Ended
<1>2. PICK lev \in [Ptr -> Nat] : OneTree(lev)
  BY <1>1, OneTreeThen
<1>3. CASE InsertPanics(heap, node, index)
  BY <1>3, PanicSizes DEF InsertAtLeaf
<1>4. CASE ~ InsertPanics(heap, node, index)
  <2>1. /\ heap' = r.heap /\ split' = r.split /\ size' = size
        /\ pc' = "climb" /\ root' = root /\ request' = request /\ node' = node
    BY <1>4 DEF InsertAtLeaf
  <2>2. heap[node].length = B => new \in Free(heap)
    BY DEF InsertAtLeaf, Fresh, Free
  <2>3. entry.slot = held /\ entry \in [slot : Slot, size : Nat]
    BY <1>0 DEF Entry, Slot
  <2>4. node \in Allocated(heap) /\ heap[node].length \in 0..B
    BY <1>0, FieldTypes DEF Allocated, IsLeaf
  <2>5. index \in 0..heap[node].length
    BY <1>0, <1>4, <2>4 DEF InsertPanics
  <2> HIDE DEF entry, new
  <2>6. InsertOK(heap, lev, node, index, entry)
    BY <1>0, <2>3, <2>4, <2>5 DEF InsertOK
  <2>7. InsertedOnce(heap, r, lev, node, held, new)
    BY <1>0, <1>2, <2>2, <2>3, <2>6, InsertOnceTree DEF OneTree
  <2>8. PICK w : Exact(w)
    BY <1>0, <1>1, ExactThen
  <2>9. Tree(heap, lev) /\ Roots(heap) = {root} \ {None}
        /\ (root # None => root \in Allocated(heap) /\ heap[root].parent = None)
    BY <1>2 DEF OneTree
  <2>10. w \in [Ptr -> Nat] /\ Sized(heap, w)
    BY <2>8 DEF Exact
  <2>11. Owing(heap, w, node, EntrySize(heap, node, entry))
    <3>1. EntrySize(heap, node, entry) = 1
      BY <1>0 DEF EntrySize
    <3>2. ASSUME NEW p \in Allocated(heap)
          PROVE  w[p] = Weight(heap, p) + (IF p = node THEN 1 - 1 ELSE 0)
      <4>1. w[p] = Weight(heap, p) /\ Weight(heap, p) \in Nat
        BY <1>0, <2>8, WeightType DEF Exact, Allocated
      <4> QED
        BY <4>1
    <3> QED
      BY <3>1, <3>2 DEF Owing
  <2>12. EntrySized(heap, w, node, entry)
    BY <1>0 DEF EntrySized
  <2>13. PICK w2 : InsertSized(heap, r.heap, r.split, w, w2, node)
    <3>1. r = InsertOnce(heap, node, index, entry, new)
      OBVIOUS
    <3> HIDE DEF r
    <3> QED
      BY <1>0, <2>2, <2>6, <2>9, <2>10, <2>11, <2>12, <3>1, InsertOnceSizes
  <2> HIDE DEF r
  <2>14. root # None => heap'[root].parent = None
    <3>1. Roots(heap) \ {held} = {root} \ {None}
      <4>1. held \notin Roots(heap)
        BY <1>0 DEF Roots, Allocated
      <4> QED
        BY <2>9, <4>1
    <3> QED
      BY <2>1, <2>7, <3>1, RootStays
  <2>15. size' = IF root' = None THEN 0 ELSE w2[Top']
    <3>1. root # None => w2[root] = w[root]
      BY <2>9, <2>13 DEF InsertSized
    <3>2. size = IF root = None THEN 0 ELSE w[root]
      BY <2>8, <2>9 DEF Exact, Top
    <3>3. root' # None => Top' = root
      BY <2>1, <2>14 DEF Top
    <3> QED
      BY <2>1, <3>1, <3>2, <3>3
  <2>16. Inserting'
    BY <1>0, <2>1 DEF Inserting
  <2> QED
    BY <1>0, <2>1, <2>13, <2>15, <2>16, InsertedSizes
<1> QED
  BY <1>3, <1>4

\* The sizes of `parent` have been brought up to date with its children.
LEMMA SizesReplaced ==
  ASSUME NEW h \in Heap, NEW lev, Tree(h, lev), NEW parent \in Allocated(h),
         NEW g, Resized(h, g, parent), NEW w, NEW w1, Sized(h, w),
         \A p \in Allocated(h) : h[p].parent # parent => w1[p] = w[p],
         SizedAt(g, w1, parent)
  PROVE  Sized(g, w1) /\ SameWeights(h, g, {parent})
<1>1. SameWeights(h, g, {parent})
  <2>1. KeptOutside(h, g, {parent})
    BY DEF Resized, KeptOutside
  <2> QED
    BY <2>1, SizedFrame
<1>2. ASSUME NEW p \in Ptr, IsInternal(g, p), NEW i \in Position, i < g[p].length,
             p # parent
      PROVE  g[p].sizes[i] = w1[g[p].children[i]]
  <2>1. /\ IsInternal(h, p) /\ i < h[p].length /\ i \in Nat
        /\ g[p].children = h[p].children /\ g[p].sizes = h[p].sizes
    BY <1>2 DEF Resized, IsInternal
  <2>2. p \in Allocated(h)
    BY <2>1 DEF Allocated, IsInternal
  <2> DEFINE c == h[p].children[i]
  <2>3. c \in Allocated(h) /\ h[c].parent = p
    BY <2>1, <2>2, ChildOf
  <2>4. h[p].sizes[i] = w[c]
    BY <2>1, <2>2 DEF Sized
  <2> HIDE DEF c
  <2>5. w1[c] = w[c]
    BY <1>2, <2>3
  <2> QED
    BY <2>1, <2>4, <2>5 DEF c
<1>3. Sized(g, w1)
  <2> SUFFICES ASSUME NEW p \in Ptr, IsInternal(g, p), NEW i \in Position,
                      i < g[p].length
               PROVE  g[p].sizes[i] = w1[g[p].children[i]]
    BY DEF Sized, Allocated
  <2> QED
    BY <1>2 DEF SizedAt
<1> QED
  BY <1>1, <1>3

\* What a node and its new sibling weigh is known to the parent.
HalfKnown(h, w, child, x) ==
  /\ w \in [Ptr -> Nat] /\ Sized(h, w) /\ Owing(h, w, child, x)
  /\ x = HalfWeight(h, split)
  /\ split # None => NodeSize(h, split) = Weight(h, split)

\* The sizes handle_insertion changes.
LEMMA CreditSizes ==
  ASSUME NEW h \in Heap, NEW parent \in Ptr, NEW i \in Position
  PROVE  LET a == h[parent].sizes
             x == IF split = None THEN 0 ELSE NodeSize(h, split)
         IN  Credit(h, parent, i)[parent].sizes = [a EXCEPT ![i] = a[i] + 1 - x]
<1> DEFINE a == h[parent].sizes
           x == IF split = None THEN 0 ELSE NodeSize(h, split)
           b == [a EXCEPT ![i] = a[i] + 1 - x]
<1>1. Credit(h, parent, i) = [h EXCEPT ![parent] = [h[parent] EXCEPT !.sizes = b]]
  BY DEF Credit
<1>2. h[parent] \in Node
  BY DEF Heap
<1> HIDE DEF b
<1>3. Credit(h, parent, i)[parent] = [h[parent] EXCEPT !.sizes = b]
  BY <1>1 DEF Heap
<1>4. Credit(h, parent, i)[parent].sizes = b
  BY <1>2, <1>3 DEF Node
<1> QED
  BY <1>4 DEF b

\* The climb of insert brings the size of child up to date and has no check
\* fail: now the parent is the node whose size lags behind.
LEMMA CreditExact ==
  ASSUME NEW h \in Heap, NEW lev, Tree(h, lev), NEW child \in Allocated(h),
         h[child].parent # None, split \in PtrOrNone,
         NEW w, NEW x, HalfKnown(h, w, child, x)
  PROVE  LET parent == h[child].parent
             i == h[child].index
             g == Credit(h, parent, i)
         IN  /\ ~ LinkPanics(h, parent, i)
             /\ \E w1 \in [Ptr -> Nat] :
                  /\ Sized(g, w1) /\ Owing(g, w1, parent, x)
                  /\ \A p \in Ptr : p # child => w1[p] = w[p]
<1> DEFINE parent == h[child].parent
           i == h[child].index
           g == Credit(h, parent, i)
           a == h[parent].sizes
           y == Weight(h, child)
           w1 == [w EXCEPT ![child] = y]
           len == h[parent].length
<1>0. /\ w \in [Ptr -> Nat] /\ Sized(h, w) /\ Owing(h, w, child, x)
      /\ x = HalfWeight(h, split)
      /\ split # None => NodeSize(h, split) = x
  BY DEF HalfKnown, HalfWeight
<1>1. /\ parent \in Allocated(h) /\ IsInternal(h, parent) /\ i \in Nat
      /\ i < len /\ h[parent].children[i] = child
      /\ lev[parent] = lev[child] + 1
  BY ParentOf
<1>2. parent \in Ptr /\ child \in Ptr /\ len \in 0..B /\ a \in SizeArray
  BY <1>1, FieldTypes, WeightType DEF Allocated
<1>3. parent # child
  <2>1. lev[child] \in Nat
    BY <1>2 DEF Tree
  <2> QED
    BY <1>1, <2>1
<1>4. i \in Position /\ i \in 0..(len - 1)
  BY <1>1, <1>2
<1>5. y \in Nat /\ Weight(h, parent) \in Nat /\ x \in Nat
  BY <1>0, <1>2, WeightType DEF HalfWeight, PtrOrNone
<1>6. a[i] = y + (x - 1)
  <2>1. a[i] = w[child]
    BY <1>0, <1>1, <1>4 DEF Sized
  <2> QED
    BY <1>0, <2>1 DEF Owing
<1>7. ~ LinkPanics(h, parent, i)
  <2>1. ~ (a[i] + 1 < x)
    BY <1>5, <1>6
  <2>2. ~ InsertPanics(h, parent, i + 1)
    BY <1>1, <1>2 DEF InsertPanics
  <2> QED
    BY <1>0, <1>4, <2>1, <2>2 DEF LinkPanics
<1>8. Resized(h, g, parent) /\ g \in Heap
  BY <1>1, <1>2, <1>7, CreditResized, CreditType
<1>9. g[parent].sizes = [a EXCEPT ![i] = y]
  <2>1. g[parent].sizes = [a EXCEPT ![i] = a[i] + 1 -
                             (IF split = None THEN 0 ELSE NodeSize(h, split))]
    BY <1>2, <1>4, CreditSizes
  <2>2. (IF split = None THEN 0 ELSE NodeSize(h, split)) = x
    BY <1>0 DEF HalfWeight
  <2>3. a[i] + 1 - x = y
    BY <1>5, <1>6
  <2> QED
    BY <2>1, <2>2, <2>3
<1>10. w1 \in [Ptr -> Nat] /\ w1[child] = y /\ \A p \in Ptr : p # child => w1[p] = w[p]
  BY <1>0, <1>2, <1>5
<1> HIDE DEF g, w1, y, a, i, parent, len
<1>11. SizedAt(g, w1, parent)
  <2> SUFFICES ASSUME NEW j \in Position, j < g[parent].length
               PROVE  g[parent].sizes[j] = w1[g[parent].children[j]]
    BY DEF SizedAt
  <2>1. j < len /\ j \in Nat /\ g[parent].children = h[parent].children
    BY <1>2, <1>8 DEF Resized, len
  <2>2. CASE j = i
    BY <1>1, <1>2, <1>4, <1>9, <1>10, <2>1, <2>2 DEF SizeArray
  <2>3. CASE j # i
    <3> DEFINE c == h[parent].children[j]
    <3>1. c \in Allocated(h) /\ h[c].index = j
      BY <1>1, <2>1, ChildOf DEF len
    <3>2. a[j] = w[c]
      BY <1>0, <1>1, <2>1 DEF Sized, a, len
    <3> HIDE DEF c
    <3>3. c # child /\ c \in Ptr
      BY <2>3, <3>1 DEF i, Allocated
    <3>4. g[parent].sizes[j] = a[j]
      BY <1>2, <1>9, <2>3 DEF SizeArray
    <3> QED
      BY <1>10, <2>1, <3>2, <3>3, <3>4 DEF c
  <2> QED
    BY <2>2, <2>3
<1>12. Sized(g, w1) /\ SameWeights(h, g, {parent})
  <2>1. \A p \in Allocated(h) : h[p].parent # parent => w1[p] = w[p]
    BY <1>10 DEF Allocated, parent
  <2> QED
    BY <1>0, <1>1, <1>8, <1>11, <2>1, SizesReplaced
<1>13. Weight(g, parent) = Weight(h, parent) + y - (y + (x - 1))
  <2>1. g[parent].sizes \in SizeArray
    BY <1>2, <1>8, WeightType
  <2>2. \A k \in Position : k # i => g[parent].sizes[k] = a[k]
    BY <1>2, <1>9 DEF SizeArray
  <2>3. g[parent].sizes[i] = y
    BY <1>2, <1>4, <1>9 DEF SizeArray
  <2>4. PrefixSums(g[parent].sizes)[len] = PrefixSums(a)[len] + y - (y + (x - 1))
    BY <1>2, <1>4, <1>6, <2>1, <2>2, <2>3, SumsExcept
  <2>5. ~ IsLeaf(h, parent) /\ ~ IsLeaf(g, parent) /\ g[parent].length = len
    BY <1>1, <1>2, <1>8 DEF Resized, IsLeaf, IsInternal, len
  <2> QED
    BY <2>4, <2>5 DEF Weight, a, len
<1>14. ASSUME NEW p \in Allocated(g)
       PROVE  w1[p] = Weight(g, p) + (IF p = parent THEN x - 1 ELSE 0)
  <2>1. p \in Allocated(h) /\ p \in Ptr
    BY <1>8 DEF Resized, Allocated
  <2>2. w[p] = Weight(h, p) + (IF p = child THEN x - 1 ELSE 0)
    BY <1>0, <2>1 DEF Owing
  <2>3. p # parent => Weight(g, p) = Weight(h, p)
    BY <1>12, <2>1 DEF SameWeights
  <2>4. CASE p = child
    BY <1>3, <1>5, <1>10, <2>3, <2>4 DEF y
  <2>5. CASE p = parent
    <3>1. w1[p] = Weight(h, parent) + 0
      BY <1>3, <1>10, <2>1, <2>2, <2>5
    <3> QED
      BY <1>5, <1>13, <2>5, <3>1
  <2>6. CASE p # child /\ p # parent
    BY <1>10, <2>1, <2>2, <2>3, <2>6
  <2> QED
    BY <2>4, <2>5, <2>6
<1>15. Owing(g, w1, parent, x)
  BY <1>14 DEF Owing
<1> QED
  BY <1>7, <1>10, <1>12, <1>15 DEF g, i, parent

\* SizesInv during the climb of insert.
LEMMA HalfKnownThen ==
  ASSUME Inserting, SizesInv, NEW lev, Climbing(lev)
  PROVE  \E w : /\ HalfKnown(heap, w, node, HalfWeight(heap, split))
                /\ size = IF root = None THEN 0 ELSE w[Top]
<1>1. PICK w \in [Ptr -> Nat] : SizesInvAt(w)
  BY DEF SizesInv, Climbing
<1>2. ASSUME NEW p \in Allocated(heap)
      PROVE  w[p] = Weight(heap, p)
                    + (IF p = node THEN HalfWeight(heap, split) - 1 ELSE 0)
  <2>1. Excess(w, p) = IF p = node THEN HalfWeight(heap, split) - 1 ELSE 0
    BY DEF Excess, InsertExcess, HalfWeight
  <2> QED
    BY <1>1, <2>1 DEF SizesInvAt
<1>3. HalfKnown(heap, w, node, HalfWeight(heap, split))
  BY <1>1, <1>2 DEF HalfKnown, Owing, SizesInvAt
<1> QED
  BY <1>1, <1>3 DEF SizesInvAt

\* handle_insertion with nothing split: the parent counts the item.
LEMMA ClimbInsertSizes ==
  TypeInv /\ TypeInv' /\ TreeInv /\ SizesInv /\ ClimbInsert => SizesInv'
<1> SUFFICES ASSUME TypeInv, TypeInv', TreeInv, SizesInv, ClimbInsert
             PROVE  SizesInv'
  OBVIOUS
<1> DEFINE parent == heap[node].parent
           i == heap[node].index
<1>1. Inserting /\ split = None /\ parent # None
  BY DEF ClimbInsert
<1>2. PICK lev \in [Ptr -> Nat] : Climbing(lev)
  BY <1>1, ClimbingThen
<1>3. PICK w : /\ HalfKnown(heap, w, node, HalfWeight(heap, split))
               /\ size = IF root = None THEN 0 ELSE w[Top]
  BY <1>1, <1>2, HalfKnownThen
<1>4. HalfWeight(heap, split) = 0 /\ split \in PtrOrNone
  BY <1>1 DEF HalfWeight, PtrOrNone
<1>5. heap \in Heap /\ Tree(heap, lev) /\ node \in Allocated(heap)
  BY <1>2 DEF Climbing
<1>6. /\ ~ LinkPanics(heap, parent, i)
      /\ \E w1 \in [Ptr -> Nat] :
           /\ Sized(Credit(heap, parent, i), w1)
           /\ Owing(Credit(heap, parent, i), w1, parent, 0)
           /\ \A p \in Ptr : p # node => w1[p] = w[p]
  BY <1>1, <1>3, <1>4, <1>5, CreditExact
<1>7. /\ heap' = Credit(heap, parent, i) /\ node' = parent /\ root' = root
      /\ pc' = pc /\ request' = request /\ split' = split /\ size' = size
  BY <1>6 DEF ClimbInsert
<1>8. PICK w1 \in [Ptr -> Nat] :
        /\ Sized(heap', w1) /\ Owing(heap', w1, parent, 0)
        /\ \A p \in Ptr : p # node => w1[p] = w[p]
  BY <1>6, <1>7
<1>9. parent \in Ptr
  BY <1>1, <1>5, ParentOf DEF Allocated
<1> HIDE DEF i
<1>10. Resized(heap, heap', parent)
  <2> HIDE DEF parent
  <2> QED
    BY <1>5, <1>7, <1>9, CreditResized
<1>11. root # None => root # node /\ root \in Ptr /\ heap'[root].parent = None
       /\ Top = root
  <2>1. Top = root /\ Roots(heap) = {root} \ {None}
    BY <1>1, <1>2 DEF Climbing
  <2> QED
    BY <1>1, <1>10, <2>1 DEF Roots, Allocated, Resized
<1>12. size' = IF root' = None THEN 0 ELSE w1[Top']
  BY <1>3, <1>7, <1>8, <1>11 DEF Top
<1>13. InsertSized(heap', heap', split', w1, w1, node')
  BY <1>1, <1>7, <1>8 DEF InsertSized, HalfWeight
<1>14. Inserting' /\ heap' \in Heap
  BY <1>1, <1>7 DEF Inserting, TypeInv, TypeOK
<1> QED
  BY <1>12, <1>13, <1>14, InsertedSizes

\* The half, once the size of the node it was split from is right, goes into
\* the parent.
LEMMA HalfLinkedSizes ==
  ASSUME NEW h \in Heap, NEW g, NEW r, NEW lev, NEW parent, NEW i, NEW new,
         HalfLinked(h, g, r, lev, parent, i, new), split \in Ptr,
         NEW w \in [Ptr -> Nat], Sized(g, w),
         Owing(g, w, parent, HalfWeight(h, split)),
         NodeSize(h, split) = HalfWeight(h, split),
         w[split] = HalfWeight(h, split)
  PROVE  \E w2 : InsertSized(g, r.heap, r.split, w, w2, parent)
<1> DEFINE entry == Entry(split, NodeSize(h, split))
<1>1. /\ g \in Heap /\ Tree(g, lev) /\ Resized(h, g, parent)
      /\ IsInternal(h, parent) /\ parent \in Ptr
      /\ InsertOK(g, lev, parent, i + 1, entry)
      /\ g[parent].length = B => new \in Free(g)
      /\ r = InsertOnce(g, parent, i + 1, entry, new)
  BY DEF HalfLinked
<1>2. entry.slot = split /\ entry.size = HalfWeight(h, split)
  BY DEF Entry
<1>3. EntrySize(g, parent, entry) = HalfWeight(h, split)
  BY <1>1, <1>2 DEF EntrySize, Resized, IsLeaf, IsInternal
<1>4. EntrySized(g, w, parent, entry)
  BY <1>2 DEF EntrySized
<1> HIDE DEF entry
<1> DEFINE j == i + 1
<1>5. InsertOK(g, lev, parent, j, entry) /\ r = InsertOnce(g, parent, j, entry, new)
  BY <1>1
<1>6. Owing(g, w, parent, EntrySize(g, parent, entry))
  BY <1>3
<1> HIDE DEF j
<1> QED
  BY <1>1, <1>4, <1>5, <1>6, InsertOnceSizes

\* handle_insertion with a new sibling.
LEMMA ClimbSplitSizes ==
  TypeInv /\ TypeInv' /\ TreeInv /\ SizesInv /\ ClimbSplit => SizesInv'
<1> SUFFICES ASSUME TypeInv, TypeInv', TreeInv, SizesInv, ClimbSplit
             PROVE  SizesInv'
  OBVIOUS
<1> DEFINE parent == heap[node].parent
           i == heap[node].index
           new == Fresh(heap)
           x == HalfWeight(heap, split)
<1>1. Inserting /\ split # None /\ parent # None
  BY DEF ClimbSplit
<1>2. PICK lev \in [Ptr -> Nat] : Climbing(lev)
  BY <1>1, ClimbingThen
<1>3. PICK w : /\ HalfKnown(heap, w, node, x)
               /\ size = IF root = None THEN 0 ELSE w[Top]
  BY <1>1, <1>2, HalfKnownThen
<1>4. /\ heap \in Heap /\ Tree(heap, lev) /\ node \in Allocated(heap)
      /\ split \in PtrOrNone /\ split \in Ptr /\ split # node /\ split \in Allocated(heap)
  BY <1>1, <1>2 DEF Climbing, PtrOrNone, Roots
<1>5. /\ ~ LinkPanics(heap, parent, i)
      /\ \E w1 \in [Ptr -> Nat] :
           /\ Sized(Credit(heap, parent, i), w1)
           /\ Owing(Credit(heap, parent, i), w1, parent, x)
           /\ \A p \in Ptr : p # node => w1[p] = w[p]
  <2> HIDE DEF x
  <2> QED
    BY <1>1, <1>3, <1>4, CreditExact
<1>6. PICK g, r : /\ HalfLinked(heap, g, r, lev, parent, i, new)
                  /\ heap' = r.heap /\ split' = r.split /\ node' = parent
                  /\ UNCHANGED <<root, size, request, pc, index, held, removal>>
  BY <1>2, <1>5, ClimbSplitLinks
<1> HIDE DEF parent, i, new
<1>7. /\ g = Credit(heap, parent, i) /\ Allocated(g) = Allocated(heap)
      /\ Roots(g) = Roots(heap) /\ InsertedOnce(g, r, lev, parent, split, new)
      /\ g \in Heap
  BY <1>6 DEF HalfLinked
<1>8. PICK w1 \in [Ptr -> Nat] :
        /\ Sized(g, w1) /\ Owing(g, w1, parent, x)
        /\ \A p \in Ptr : p # node => w1[p] = w[p]
  BY <1>5, <1>7
<1>9. w1[split] = x /\ NodeSize(heap, split) = x
  <2>1. w[split] = Weight(heap, split) + 0 /\ Weight(heap, split) \in Nat
    BY <1>3, <1>4, WeightType DEF HalfKnown, Owing
  <2>2. x = Weight(heap, split) /\ NodeSize(heap, split) = Weight(heap, split)
    BY <1>1, <1>3 DEF HalfWeight, HalfKnown
  <2> QED
    BY <1>4, <1>8, <2>1, <2>2
<1>10. PICK w2 : InsertSized(g, r.heap, r.split, w1, w2, parent)
  <2>1. \E w2 : InsertSized(g, r.heap, r.split, w1, w2, parent)
    BY <1>4, <1>6, <1>8, <1>9, HalfLinkedSizes
  <2> QED
    BY <2>1
<1>11. Top = root /\ Roots(heap) = {root, split} \ {None} /\ split # root
  BY <1>1, <1>2 DEF Climbing
<1>12. root # None => heap'[root].parent = None
  <2>1. Roots(g) \ {split} = {root} \ {None}
    BY <1>7, <1>11
  <2> QED
    BY <1>6, <1>7, <2>1, RootStays
<1>13. root # None => root \in Allocated(g) /\ root # node /\ root \in Ptr
  <2>1. root # None => root \in Roots(heap)
    BY <1>11
  <2> QED
    BY <1>1, <1>7, <2>1 DEF Roots, Allocated, parent
<1>14. size' = IF root' = None THEN 0 ELSE w2[Top']
  <2>1. root # None => w2[root] = w[root]
    BY <1>8, <1>10, <1>13 DEF InsertSized
  <2>2. root' # None => Top' = root
    BY <1>6, <1>12 DEF Top
  <2> QED
    BY <1>3, <1>6, <1>11, <2>1, <2>2
<1>15. Inserting' /\ heap' \in Heap
  BY <1>1, <1>6 DEF Inserting, TypeInv, TypeOK
<1> QED
  BY <1>6, <1>10, <1>14, <1>15, InsertedSizes

\* The new root with the old one as its child 0: the old one has a parent that
\* does not know of the item yet.
LEMMA CrownSizes ==
  ASSUME NEW h \in Heap, NEW lev, NEW f, NEW c, NEW parent, NEW entry,
         Crowned(h, f, c, lev, parent, entry, split), split \in Allocated(h),
         NEW child \in Allocated(h), entry.slot = child,
         NEW w, NEW x, HalfKnown(h, w, child, x), entry.size = w[child]
  PROVE  /\ c[child].parent = parent /\ c[child].index = 0
         /\ HalfKnown(c, [w EXCEPT ![parent] = entry.size], child, x)
<1> DEFINE w0 == [w EXCEPT ![parent] = entry.size]
<1>0. /\ f \in Heap /\ Tree(f, lev) /\ f[parent] = NewNode("internal")
      /\ \A p \in Ptr : p # parent => f[p] = h[p]
      /\ IsInternal(f, parent) /\ f[parent].length < B
      /\ parent \in Ptr /\ parent \notin Allocated(h)
      /\ InsertOK(f, lev, parent, 0, entry)
      /\ c \in Heap /\ c = SimpleInsert(f, parent, 0, entry)
      /\ Inserted(f, c, lev, parent, child)
      /\ parent \in Allocated(c) /\ IsInternal(c, parent) /\ c[parent].length = 1
      /\ Allocated(c) = Allocated(h) \cup {parent}
  BY DEF Crowned
<1>1. /\ w \in [Ptr -> Nat] /\ Sized(h, w) /\ Owing(h, w, child, x)
      /\ x = HalfWeight(h, split)
      /\ split # None => NodeSize(h, split) = Weight(h, split)
  BY DEF HalfKnown
<1>2. /\ child \in Ptr /\ split \in Ptr /\ child # parent /\ split # parent
      /\ f[parent].length = 0 /\ ~ IsLeaf(f, parent) /\ split # None
  BY <1>0 DEF Allocated, NewNode, IsLeaf
<1>3. c[child].parent = parent
  BY <1>0, <1>2 DEF Inserted
<1>4. c[child].index = 0
  <2>1. Tree(c, lev) /\ child \in Allocated(c) /\ parent # None
    BY <1>0 DEF Inserted
  <2>2. c[child].index \in Nat /\ c[child].index < c[parent].length
    BY <1>0, <1>3, <2>1, ParentOf
  <2> QED
    BY <1>0, <2>2
<1>5. w0 \in [Ptr -> Nat] /\ w0[parent] = entry.size /\ entry.size \in Nat
      /\ \A p \in Ptr : p # parent => w0[p] = w[p]
  BY <1>0, <1>1, <1>2
<1> HIDE DEF w0
<1>6. Sized(f, w0)
  <2> SUFFICES ASSUME NEW p \in Allocated(f), IsInternal(f, p), NEW j \in Position,
                      j < f[p].length
               PROVE  f[p].sizes[j] = w0[f[p].children[j]]
    BY DEF Sized
  <2>1. p # parent /\ p \in Ptr
    BY <1>2 DEF Allocated
  <2>2. f[p] = h[p] /\ p \in Allocated(h) /\ IsInternal(h, p)
    BY <1>0, <2>1 DEF Allocated, IsInternal
  <2>3. h[p].sizes[j] = w[h[p].children[j]]
    BY <1>1, <2>2 DEF Sized
  <2> DEFINE d == f[p].children[j]
  <2>4. d \in Allocated(f) /\ f[d].parent = p
    <3>1. j \in Nat
      OBVIOUS
    <3> QED
      BY <1>0, <3>1, ChildOf
  <2> HIDE DEF d
  <2>5. d # parent
    BY <1>0, <2>1, <2>4 DEF NewNode, Allocated, Hangs, Tree
  <2> QED
    BY <1>5, <2>2, <2>3, <2>4, <2>5 DEF d, Allocated
<1>7. EntrySized(f, w0, parent, entry)
  BY <1>2, <1>5 DEF EntrySized
<1>8. /\ SameWeights(f, c, {parent}) /\ KeptOutside(f, c, {parent})
      /\ Adds(Weight(f, parent), EntrySize(f, parent, entry), Weight(c, parent))
      /\ Sized(c, w0)
  BY <1>0, <1>6, <1>7, SimpleInsertWeight
<1>9. Weight(c, parent) = entry.size
  <2>1. Weight(f, parent) = 0
    <3>1. PrefixSums(f[parent].sizes)[0] = 0
      BY <1>0, WeightType, SumsStep
    <3> QED
      BY <1>2, <3>1 DEF Weight
  <2>2. EntrySize(f, parent, entry) = entry.size
    BY <1>2 DEF EntrySize
  <2> QED
    BY <1>5, <1>8, <2>1, <2>2 DEF Adds
<1>10. ASSUME NEW p \in Allocated(h)
       PROVE  Weight(c, p) = Weight(h, p) /\ NodeSize(c, p) = NodeSize(h, p)
  <2>1. p \in Ptr /\ p # parent
    BY <1>0 DEF Allocated
  <2>2. f[p] = h[p]
    BY <1>0, <2>1
  <2>3. c[p].kind = h[p].kind /\ c[p].length = h[p].length /\ c[p].sizes = h[p].sizes
    BY <1>8, <2>1, <2>2 DEF KeptOutside
  <2> QED
    BY <2>3, WeightFields
<1>11. x = HalfWeight(c, split) /\ NodeSize(c, split) = Weight(c, split)
  BY <1>1, <1>2, <1>10 DEF HalfWeight
<1>12. ASSUME NEW p \in Allocated(c)
       PROVE  w0[p] = Weight(c, p) + (IF p = child THEN x - 1 ELSE 0)
  <2>1. CASE p = parent
    BY <1>2, <1>5, <1>9, <2>1
  <2>2. CASE p # parent
    <3>1. p \in Allocated(h) /\ p \in Ptr
      BY <1>0, <2>2 DEF Allocated
    <3> QED
      BY <1>1, <1>5, <1>10, <2>2, <3>1 DEF Owing
  <2> QED
    BY <2>1, <2>2
<1>13. HalfKnown(c, w0, child, x)
  BY <1>5, <1>8, <1>11, <1>12 DEF HalfKnown, Owing
<1> QED
  BY <1>3, <1>4, <1>13 DEF w0

\* What handle_insertion finds at a root that was split.
RootSplit(lev, w, x) ==
  /\ Climbing(lev) /\ HalfKnown(heap, w, node, x)
  /\ node = root /\ split \in Allocated(heap) /\ split \in Ptr
  /\ Roots(heap) = {node, split} /\ node # split /\ lev[node] = lev[split]
  /\ heap[node].index = 0 /\ size = w[node]
  /\ Fresh(heap) \in Free(heap)
  /\ Entry(node, size) \in [slot : Slot, size : Nat]
  /\ Entry(node, size).slot = node /\ Entry(node, size).size = w[node]

\* SizesInv gives it.
LEMMA RootSplitThen ==
  ASSUME TypeInv, Inserting, SizesInv, split # None, heap[node].parent = None,
         Free(heap) # {}, NEW lev, Climbing(lev)
  PROVE  \E w : RootSplit(lev, w, HalfWeight(heap, split))
<1>1. PICK w : /\ HalfKnown(heap, w, node, HalfWeight(heap, split))
               /\ size = IF root = None THEN 0 ELSE w[Top]
  BY HalfKnownThen
<1>2. /\ heap \in Heap /\ Tree(heap, lev) /\ node \in Allocated(heap)
      /\ node \in Roots(heap)
      /\ split \in Roots(heap) /\ split # node /\ lev[split] = lev[node]
      /\ split # root /\ Top = root
      /\ Roots(heap) = {root, split} \ {None}
  BY DEF Climbing, Roots
<1>3. node = root /\ Roots(heap) = {node, split} /\ split \in Ptr /\ node \in Ptr
      /\ root # None /\ split \in Allocated(heap)
  BY <1>2 DEF Roots, Allocated
<1>4. heap[node].index = 0
  BY <1>2 DEF Tree, Hangs
<1>5. size = w[node] /\ size \in Nat
  BY <1>1, <1>2, <1>3 DEF TypeInv, TypeOK
<1>6. /\ Entry(node, size) \in [slot : Slot, size : Nat]
      /\ Entry(node, size).slot = node /\ Entry(node, size).size = w[node]
  BY <1>3, <1>5 DEF Entry, Slot
<1>7. Fresh(heap) \in Free(heap)
  BY DEF Fresh, Free
<1> QED
  BY <1>1, <1>2, <1>3, <1>4, <1>5, <1>6, <1>7 DEF RootSplit

\* No check fails there.
LEMMA GrowRootSafe ==
  ASSUME NEW lev, NEW w, NEW x, RootSplit(lev, w, x)
  PROVE  ~ LinkPanics(SimpleInsert(Alloc(heap, Fresh(heap), "internal"),
                                   Fresh(heap), 0, Entry(node, size)),
                      Fresh(heap), heap[node].index)
<1> DEFINE parent == Fresh(heap)
           entry == Entry(node, size)
           c == SimpleInsert(Alloc(heap, parent, "internal"), parent, 0, entry)
<1>1. /\ heap \in Heap /\ Tree(heap, lev) /\ node \in Allocated(heap)
      /\ HalfKnown(heap, w, node, x) /\ split \in PtrOrNone
      /\ Roots(heap) = {node, split} /\ node # split /\ lev[node] = lev[split]
      /\ split \in Allocated(heap) /\ heap[node].index = 0
      /\ parent \in Free(heap) /\ entry \in [slot : Slot, size : Nat]
      /\ entry.slot = node /\ entry.size = w[node]
  BY DEF RootSplit, Climbing
<1> HIDE DEF parent, entry
<1>2. PICK lev2, f, d : /\ f = Alloc(heap, parent, "internal")
                        /\ Crowned(heap, f, d, lev2, parent, entry, split)
  BY <1>1, CrownTree
<1>3. d = c /\ d \in Heap /\ Tree(d, lev2) /\ Allocated(d) = Allocated(heap) \cup {parent}
      /\ parent \in Ptr
  BY <1>2 DEF Crowned, Inserted
<1> HIDE DEF c
<1>4. /\ d[node].parent = parent /\ d[node].index = 0
      /\ HalfKnown(d, [w EXCEPT ![parent] = entry.size], node, x)
  BY <1>1, <1>2, CrownSizes
<1>5. node \in Allocated(d) /\ d[node].parent # None
  BY <1>1, <1>3, <1>4
<1> DEFINE w0 == [w EXCEPT ![parent] = entry.size]
<1>6. HalfKnown(d, w0, node, x)
  BY <1>4
<1> HIDE DEF w0
<1>7. ~ LinkPanics(d, d[node].parent, d[node].index)
  BY <1>1, <1>3, <1>5, <1>6, CreditExact
<1>8. ~ LinkPanics(c, parent, heap[node].index)
  BY <1>1, <1>3, <1>4, <1>7
<1> QED
  BY <1>8 DEF c, parent, entry

\* handle_insertion at the root: the new root has the sizes of both halves.
LEMMA GrowRootSizes ==
  TypeInv /\ TypeInv' /\ TreeInv /\ SizesInv /\ GrowRoot => SizesInv'
<1> SUFFICES ASSUME TypeInv, TypeInv', TreeInv, SizesInv, GrowRoot
             PROVE  SizesInv'
  OBVIOUS
<1> DEFINE parent == Fresh(heap)
           entry == Entry(node, size)
           x == HalfWeight(heap, split)
<1>1. Inserting /\ split # None /\ heap[node].parent = None /\ Free(heap) # {}
  BY DEF GrowRoot
<1>2. PICK lev \in [Ptr -> Nat] : Climbing(lev)
  BY <1>1, ClimbingThen
<1>3. PICK w : RootSplit(lev, w, x)
  BY <1>1, <1>2, RootSplitThen
<1>4. PICK lev2, f, c, g, r :
        /\ Crowned(heap, f, c, lev2, parent, entry, split)
        /\ HalfLinked(c, g, r, lev2, parent, 0, None)
        /\ Inserted(g, r.heap, lev2, parent, split)
        /\ heap' = r.heap /\ split' = None /\ node' = parent
        /\ node = root /\ heap[node].index = 0 /\ split \in Ptr
        /\ UNCHANGED <<root, size, request, pc, index, held, removal>>
  BY <1>1, <1>2, <1>3, GrowRootLinks, GrowRootSafe
<1>5. /\ heap \in Heap /\ node \in Allocated(heap) /\ HalfKnown(heap, w, node, x)
      /\ split \in Allocated(heap) /\ split # node /\ split \in PtrOrNone
      /\ size = w[node] /\ entry.slot = node /\ entry.size = w[node]
      /\ node \in Ptr
  BY <1>3 DEF RootSplit, Climbing, Allocated
<1> HIDE DEF parent, entry
<1>6. /\ c[node].parent = parent /\ c[node].index = 0
      /\ HalfKnown(c, [w EXCEPT ![parent] = entry.size], node, x)
  BY <1>4, <1>5, CrownSizes
<1>7. PICK w0 : w0 = [w EXCEPT ![parent] = entry.size]
  OBVIOUS
<1>8. /\ c \in Heap /\ Tree(c, lev2) /\ Allocated(c) = Allocated(heap) \cup {parent}
      /\ parent \in Ptr /\ parent \notin Allocated(heap) /\ c[parent].length = 1
      /\ Roots(c) = {parent, split} /\ split # parent
  BY <1>4 DEF Crowned, Inserted
<1>9. /\ g = Credit(c, parent, 0) /\ g \in Heap /\ Resized(c, g, parent)
      /\ Allocated(g) = Allocated(c) /\ Roots(g) = Roots(c)
  BY <1>4 DEF HalfLinked
<1>10. w0[parent] = size /\ w0 \in [Ptr -> Nat] /\ HalfKnown(c, w0, node, x)
  BY <1>5, <1>6, <1>7, <1>8 DEF HalfKnown
<1>11. node \in Allocated(c) /\ c[node].parent # None
  BY <1>5, <1>6, <1>8
<1> HIDE DEF x
<1>12. \E w1 \in [Ptr -> Nat] :
          /\ Sized(Credit(c, c[node].parent, c[node].index), w1)
          /\ Owing(Credit(c, c[node].parent, c[node].index), w1, c[node].parent, x)
          /\ \A p \in Ptr : p # node => w1[p] = w0[p]
  BY <1>5, <1>8, <1>10, <1>11, CreditExact
<1>13. PICK w1 \in [Ptr -> Nat] :
          /\ Sized(g, w1) /\ Owing(g, w1, parent, x)
          /\ \A p \in Ptr : p # node => w1[p] = w0[p]
  BY <1>6, <1>9, <1>12
<1>14. x = HalfWeight(c, split) /\ NodeSize(c, split) = HalfWeight(c, split)
       /\ w1[split] = HalfWeight(c, split)
  <2>1. split \in Allocated(c)
    BY <1>5, <1>8
  <2>2. w0[split] = Weight(c, split) + 0 /\ Weight(c, split) \in Nat
    BY <1>4, <1>5, <1>8, <1>10, <2>1, WeightType DEF HalfKnown, Owing
  <2>3. x = HalfWeight(c, split) /\ NodeSize(c, split) = Weight(c, split)
    BY <1>1, <1>10 DEF HalfKnown
  <2>4. HalfWeight(c, split) = Weight(c, split)
    BY <1>1 DEF HalfWeight
  <2> QED
    BY <1>4, <1>5, <1>13, <2>2, <2>3, <2>4
<1>15. PICK w2 : InsertSized(g, r.heap, r.split, w1, w2, parent)
  <2>1. Owing(g, w1, parent, HalfWeight(c, split))
    BY <1>13, <1>14
  <2>2. \E w2 : InsertSized(g, r.heap, r.split, w1, w2, parent)
    BY <1>4, <1>8, <1>13, <1>14, <2>1, HalfLinkedSizes
  <2> QED
    BY <2>2
<1>16. r.split = None
  <2>1. g[parent].length = 1
    BY <1>8, <1>9 DEF Resized
  <2>2. InsertedOnce(g, r, lev2, parent, split, None) /\ g[parent].length < B
    BY <1>4, <2>1 DEF HalfLinked
  <2> QED
    BY <2>2 DEF InsertedOnce
<1>17. root # None /\ Top' = parent /\ root' = root
  <2>1. heap'[node].parent = parent
    <3>1. heap'[node].parent = g[node].parent
      BY <1>4, <1>5 DEF Inserted
    <3>2. g[node].parent = c[node].parent
      BY <1>5, <1>9 DEF Resized
    <3> QED
      BY <1>6, <3>1, <3>2
  <2>2. parent # None /\ node # None
    BY <1>5, <1>8
  <2> QED
    BY <1>4, <2>1, <2>2 DEF Top
<1>18. w2[parent] = size
  <2>1. w2[parent] = w1[parent]
    BY <1>8, <1>9, <1>15 DEF InsertSized
  <2>2. parent # node
    BY <1>5, <1>8
  <2> QED
    BY <1>8, <1>10, <1>13, <2>1, <2>2
<1>19. size' = IF root' = None THEN 0 ELSE w2[Top']
  BY <1>4, <1>17, <1>18
<1>20. Inserting' /\ heap' \in Heap
  BY <1>1, <1>4 DEF Inserting, TypeInv, TypeOK
<1>21. InsertSized(g, heap', split', w1, w2, node')
  BY <1>4, <1>15, <1>16
<1> QED
  BY <1>19, <1>20, <1>21, InsertedSizes

\* The end of insert: the root counts the item, and so does the vector.
LEMMA FinishInsertSizes ==
  TypeInv /\ TypeInv' /\ TreeInv /\ SizesInv /\ FinishInsert => SizesInv'
<1> SUFFICES ASSUME TypeInv, TypeInv', TreeInv, SizesInv, FinishInsert
             PROVE  SizesInv'
  OBVIOUS
<1>1. /\ Inserting /\ split = None /\ heap[node].parent = None
      /\ root' = node /\ size' = size + 1 /\ Leave("idle") /\ heap' = heap
  BY DEF FinishInsert
<1>2. PICK lev \in [Ptr -> Nat] : Climbing(lev)
  BY <1>1, ClimbingThen
<1>3. PICK w : /\ HalfKnown(heap, w, node, HalfWeight(heap, split))
               /\ size = IF root = None THEN 0 ELSE w[Top]
  BY <1>1, <1>2, HalfKnownThen
<1>4. /\ heap \in Heap /\ Tree(heap, lev) /\ node \in Allocated(heap)
      /\ node \in Roots(heap) /\ node \in Ptr /\ node # None /\ Top = node
  BY <1>1, <1>2 DEF Climbing, Roots, Allocated
<1>5. root # None
  BY <1>4 DEF Top
<1>6. /\ w \in [Ptr -> Nat] /\ Sized(heap, w)
      /\ \A p \in Allocated(heap) :
           w[p] = Weight(heap, p) + (IF p = node THEN 0 - 1 ELSE 0)
  <2>1. HalfWeight(heap, split) = 0
    BY <1>1 DEF HalfWeight
  <2> QED
    BY <1>3, <2>1 DEF HalfKnown, Owing
<1>7. Weight(heap, node) \in Nat
  BY <1>4, WeightType
<1>8. size = Weight(heap, node) - 1
  BY <1>3, <1>4, <1>5, <1>6, <1>7
<1>9. PICK w2 : w2 = [w EXCEPT ![node] = Weight(heap, node)]
  OBVIOUS
<1>10. Sized(heap, w2)
  <2> DEFINE y == Weight(heap, node)
  <2>1. w2 = [w EXCEPT ![node] = y]
    BY <1>9
  <2> HIDE DEF y
  <2> QED
    BY <1>4, <1>6, <2>1, SizedExcept
<1>11. w2 \in [Ptr -> Nat] /\ w2[node] = Weight(heap, node)
       /\ \A p \in Ptr : p # node => w2[p] = w[p]
  BY <1>4, <1>6, <1>7, <1>9
<1>12. ASSUME NEW p \in Allocated(heap) PROVE w2[p] = Weight(heap, p)
  <2>1. p \in Ptr /\ Weight(heap, p) \in Nat
    BY <1>4, WeightType DEF Allocated
  <2> QED
    BY <1>6, <1>11, <2>1
<1>13. Top' = node /\ root' # None
  BY <1>1, <1>4 DEF Top
<1>14. size' = IF root' = None THEN 0 ELSE w2[Top']
  BY <1>1, <1>7, <1>8, <1>11, <1>13
<1>15. Exact(w2)'
  BY <1>1, <1>10, <1>11, <1>12, <1>14 DEF Exact
<1>16. heap' \in Heap /\ pc' # "climb" /\ split' = None /\ SeekOK'
  BY <1>1, <1>4 DEF Leave, SeekOK
<1> QED
  BY <1>15, <1>16, ExactStep

\* A failing allocation ends the program.
LEMMA AllocFailsSizes == AllocFails => SizesInv'
BY DEF AllocFails, Leave, SizesInv, Ended

-----------------------------------------------------------------------------
(***************************************************************************)
(* remove.                                                                 *)
(***************************************************************************)

\* A step of the climb of remove.
LEMMA RemovedSizes ==
  ASSUME NEW w \in [Ptr -> Nat], heap' \in Heap, Removing', split' = None,
         RemoveSized(heap', node', removal', w),
         size' = IF root' = None THEN 0 ELSE w[Top']
  PROVE  SizesInv'
<1>1. pc' = "climb" /\ ~ Inserting' /\ SeekOK'
  BY DEF Inserting, Removing, SeekOK
<1>2. ASSUME NEW p \in Allocated(heap')
      PROVE  w[p] = Weight(heap', p) + Excess(w, p)'
  <2>1. Excess(w, p)' = RemoveExcess(heap', node', removal', w, p)
    BY <1>1 DEF Excess
  <2> QED
    BY <2>1 DEF RemoveSized
<1>3. SizesInvAt(w)'
  BY <1>1, <1>2 DEF SizesInvAt, RemoveSized
<1> QED
  BY <1>3 DEF SizesInv

\* remove_once at the leaf.
LEMMA RemoveAtLeafSizes ==
  TypeInv /\ TypeInv' /\ TreeInv /\ SizesInv /\ RemoveAtLeaf => SizesInv'
<1> SUFFICES ASSUME TypeInv, TypeInv', TreeInv, SizesInv, RemoveAtLeaf
             PROVE  SizesInv'
  OBVIOUS
<1> DEFINE r == RemoveOnce(heap, node, index)
<1>0. /\ pc = "seek" /\ request.op = "remove" /\ node \in Ptr /\ heap \in Heap
      /\ index \in Nat /\ IsLeaf(heap, node)
      /\ root \in PtrOrNone /\ heap' \in Heap
  BY DEF RemoveAtLeaf, AtLeaf, TypeInv, TypeOK, CallOK
<1>1. ~ Inserting /\ ~ Removing /\ ~ Ended
  BY <1>0 DEF Inserting, Removing, Ended
<1>2. PICK lev \in [Ptr -> Nat] : OneTree(lev)
  BY <1>1, OneTreeThen
<1>3. CASE RemovePanics(heap, node, index)
  BY <1>3, PanicSizes DEF RemoveAtLeaf
<1>4. CASE ~ RemovePanics(heap, node, index)
  <2>1. /\ heap' = r.heap /\ removal' = r.removal /\ size' = size
        /\ pc' = "climb" /\ root' = root /\ request' = request /\ node' = node
        /\ split' = split
    BY <1>4 DEF RemoveAtLeaf
  <2>2. node \in Allocated(heap)
    BY <1>0 DEF Allocated, IsLeaf
  <2>3. PICK w : Exact(w)
    BY <1>0, <1>1, ExactThen
  <2>4. /\ Tree(heap, lev) /\ Roots(heap) = {root} \ {None} /\ split = None
        /\ root # None => heap[root].parent = None
    BY <1>2 DEF OneTree
  <2>5. w \in [Ptr -> Nat] /\ Sized(heap, w)
    BY <2>3 DEF Exact
  <2>6. ASSUME NEW p \in Allocated(heap)
        PROVE  w[p] = Weight(heap, p)
                      + (IF p = node THEN 1 - Taken(heap, node, index).size ELSE 0)
    <3>1. w[p] = Weight(heap, p) /\ Weight(heap, p) \in Nat
      BY <1>0, <2>3, WeightType DEF Exact, Allocated
    <3>2. Taken(heap, node, index).size = 1
      BY <1>0 DEF Taken, Entry
    <3> QED
      BY <3>1, <3>2
  <2>7. RemovedOnce(heap, r, lev, node, index)
    BY <1>0, <1>4, <2>2, <2>4, RemoveOnceTree
  <2>8. r = RemoveOnce(heap, node, index)
    OBVIOUS
  <2> HIDE DEF r
  <2>9. RemoveSized(r.heap, node, r.removal, w)
    BY <1>0, <1>4, <2>2, <2>4, <2>5, <2>6, <2>8, RemoveOnceSizes
  <2>10. root # None => heap'[root].parent = None
    BY <1>0, <2>1, <2>4, <2>7 DEF RemovedOnce, Roots
  <2>11. size' = IF root' = None THEN 0 ELSE w[Top']
    BY <2>1, <2>3, <2>4, <2>10 DEF Exact, Top
  <2>12. Removing'
    BY <1>0, <2>1 DEF Removing
  <2> QED
    BY <1>0, <2>1, <2>4, <2>5, <2>9, <2>11, <2>12, RemovedSizes
<1> QED
  BY <1>3, <1>4

\* The sizes handle_removal changes.
DebitedArray(a, src, dest, gone) ==
  LET less == [a EXCEPT ![src] = a[src] - gone]
  IN  [less EXCEPT ![dest] = less[dest] + gone - 1]

\* Which are these.
LEMMA DebitSizes ==
  ASSUME NEW h \in Heap, NEW parent \in Ptr
  PROVE  LET a == h[parent].sizes
             gone == IF removal.kind = "Merged" THEN a[removal.src]
                     ELSE removal.size
         IN  Debit(h, parent)[parent].sizes
               = DebitedArray(a, removal.src, removal.dest, gone)
<1> DEFINE src == removal.src
           dest == removal.dest
           a == h[parent].sizes
           gone == IF removal.kind = "Merged" THEN a[src] ELSE removal.size
           less == [a EXCEPT ![src] = a[src] - gone]
           more == [less EXCEPT ![dest] = less[dest] + gone - 1]
           taken == [h EXCEPT ![parent] = [h[parent] EXCEPT !.sizes = less]]
<1>1. h[parent] \in Node
  BY DEF Heap
<1>2. Debit(h, parent) = [taken EXCEPT ![parent].sizes[dest] = @ + gone - 1]
  BY DEF Debit
<1> HIDE DEF gone
<1>3. taken[parent] = [h[parent] EXCEPT !.sizes = less] /\ DOMAIN taken = Ptr
  BY DEF Heap
<1>4. taken[parent].sizes = less
  <2> HIDE DEF less
  <2>1. [h[parent] EXCEPT !.sizes = less].sizes = less
    BY <1>1 DEF Node
  <2> QED
    BY <1>3, <2>1
<1> HIDE DEF less, taken
<1>5. Debit(h, parent) = [taken EXCEPT ![parent] =
                            [taken[parent] EXCEPT !.sizes = more]]
  BY <1>2, <1>4
<1> HIDE DEF more
<1>6. Debit(h, parent)[parent] = [taken[parent] EXCEPT !.sizes = more]
  BY <1>3, <1>5
<1>7. [taken[parent] EXCEPT !.sizes = more].sizes = more
  <2> DEFINE d == [h[parent] EXCEPT !.sizes = less]
  <2>1. [d EXCEPT !.sizes = more].sizes = more
    BY <1>1 DEF Node
  <2> QED
    BY <1>3, <2>1
<1> QED
  BY <1>6, <1>7 DEF DebitedArray, more, less, gone

\* After them src and dest weigh y and z, and together one less than before.
Debits(a, c, len, src, dest, y, z) ==
  /\ c \in SizeArray /\ c[src] = y /\ c[dest] = z
  /\ \A j \in Position : j # src /\ j # dest => c[j] = a[j]
  /\ Adds(PrefixSums(c)[len], 1, PrefixSums(a)[len])

\* Absorbed names one child twice.
LEMMA DebitsOne ==
  ASSUME NEW a \in SizeArray, NEW len \in 0..B, NEW i \in 0..(len - 1),
         NEW y \in Nat, a[i] = y + 1
  PROVE  Debits(a, DebitedArray(a, i, i, 0), len, i, i, y, y)
<1> DEFINE c == DebitedArray(a, i, i, 0)
<1>1. i \in Position
  OBVIOUS
<1>2. c = [a EXCEPT ![i] = y]
  <2>1. [a EXCEPT ![i] = a[i] - 0] = a
    BY <1>1 DEF SizeArray
  <2>2. a[i] + 0 - 1 = y
    OBVIOUS
  <2> QED
    BY <2>1, <2>2 DEF DebitedArray
<1> HIDE DEF c
<1>3. /\ c \in SizeArray /\ c[i] = y
      /\ \A j \in Position : j # i => c[j] = a[j]
  BY <1>1, <1>2 DEF SizeArray
<1>4. PrefixSums(c)[len] = PrefixSums(a)[len] + y - (y + 1)
  BY <1>3, SumsExcept
<1>5. PrefixSums(c)[len] \in Nat /\ PrefixSums(a)[len] \in Nat
  BY <1>3, SumsStep
<1>6. Adds(PrefixSums(c)[len], 1, PrefixSums(a)[len])
  BY <1>4, <1>5 DEF Adds
<1> QED
  BY <1>3, <1>6 DEF Debits, c

\* Moved and Merged name two.
LEMMA DebitsTwo ==
  ASSUME NEW a \in SizeArray, NEW len \in 0..B, NEW src \in 0..(len - 1),
         NEW dest \in 0..(len - 1), src # dest, NEW gone \in Nat,
         NEW y \in Nat, NEW z \in Nat, a[src] = y + gone, a[dest] + gone = z + 1
  PROVE  Debits(a, DebitedArray(a, src, dest, gone), len, src, dest, y, z)
<1> DEFINE b == [a EXCEPT ![src] = a[src] - gone]
           c == [b EXCEPT ![dest] = b[dest] + gone - 1]
<1>0. c = DebitedArray(a, src, dest, gone)
  BY DEF DebitedArray
<1>1. src \in Position /\ dest \in Position /\ a[src] \in Nat /\ a[dest] \in Nat
  BY DEF SizeArray
<1>2. a[src] - gone = y
  BY <1>1
<1>3. /\ b \in SizeArray /\ b[src] = y /\ b[dest] = a[dest]
      /\ \A j \in Position : j # src => b[j] = a[j]
  BY <1>1, <1>2 DEF SizeArray
<1> HIDE DEF b
<1>4. b[dest] + gone - 1 = z
  BY <1>1, <1>3
<1>5. /\ c \in SizeArray /\ c[src] = y /\ c[dest] = z
      /\ \A j \in Position : j # dest => c[j] = b[j]
  BY <1>1, <1>3, <1>4 DEF SizeArray
<1> HIDE DEF c
<1>6. PrefixSums(b)[len] = PrefixSums(a)[len] + y - (y + gone)
  <2>1. PrefixSums(b)[len] = PrefixSums(a)[len] + b[src] - a[src]
    BY <1>3, SumsExcept
  <2> QED
    BY <1>3, <2>1
<1>7. PrefixSums(c)[len] = PrefixSums(b)[len] + z - a[dest]
  <2>1. PrefixSums(c)[len] = PrefixSums(b)[len] + c[dest] - b[dest]
    BY <1>3, <1>5, SumsExcept
  <2> QED
    BY <1>3, <1>5, <2>1
<1>8. /\ PrefixSums(a)[len] \in Nat /\ PrefixSums(b)[len] \in Nat
      /\ PrefixSums(c)[len] \in Nat
  BY <1>3, <1>5, SumsStep
<1>9. Adds(PrefixSums(c)[len], 1, PrefixSums(a)[len])
  BY <1>1, <1>6, <1>7, <1>8 DEF Adds
<1> QED
  BY <1>0, <1>3, <1>5, <1>9 DEF Debits

\* The two children a report names, s and t, as their parent q has them.
Reports(h, n, s, t, q, src, dest, w) ==
  /\ q \in Allocated(h) /\ q \in Ptr /\ IsInternal(h, q)
  /\ src \in 0..(h[q].length - 1) /\ dest \in 0..(h[q].length - 1)
  /\ h[q].children[src] = s /\ h[q].children[dest] = t
  /\ s \in Allocated(h) /\ t \in Allocated(h) /\ s \in Ptr /\ t \in Ptr
  /\ h[s].parent = q /\ h[t].parent = q /\ h[s].index = src /\ h[t].index = dest
  /\ q # s /\ q # t
  /\ h[q].sizes[src] = w[s] /\ h[q].sizes[dest] = w[t]

\* A report that fits names them.
LEMMA ReportsThen ==
  ASSUME NEW h \in Heap, NEW lev, Tree(h, lev), NEW child \in Allocated(h),
         h[child].parent # None, NEW r \in Removal, RemovalFits(h, child, r),
         NEW w, Sized(h, w)
  PROVE  /\ Reports(h, child, SourceOf(h, child, r), TargetOf(h, child, r),
                    h[child].parent, r.src, r.dest, w)
         /\ r.kind = "Absorbed" <=> r.src = r.dest
<1> DEFINE q == h[child].parent
           s == h[q].children[r.src]
           t == h[q].children[r.dest]
<1>1. /\ q \in Allocated(h) /\ IsInternal(h, q)
      /\ h[child].index \in Nat /\ h[child].index < h[q].length
      /\ h[q].children[h[child].index] = child
  BY ParentOf
<1>2. q \in Ptr /\ h[q].length \in 0..B
  BY <1>1, FieldTypes DEF Allocated
<1>3. r.src \in Nat /\ r.dest \in Nat /\ r.src < h[q].length /\ r.dest < h[q].length
      /\ (r.kind = "Absorbed" <=> r.src = r.dest)
  BY <1>1 DEF RemovalFits, Removal
<1>4. SourceOf(h, child, r) = s /\ TargetOf(h, child, r) = t
  BY <1>1 DEF RemovalFits, SourceOf, TargetOf
<1>5. r.src \in 0..(h[q].length - 1) /\ r.dest \in 0..(h[q].length - 1)
      /\ r.src \in Position /\ r.dest \in Position
  BY <1>2, <1>3
<1>6. /\ s \in Allocated(h) /\ h[s].parent = q /\ h[s].index = r.src
      /\ lev[q] = lev[s] + 1
  BY <1>1, <1>3, ChildOf
<1>7. /\ t \in Allocated(h) /\ h[t].parent = q /\ h[t].index = r.dest
      /\ lev[q] = lev[t] + 1
  BY <1>1, <1>3, ChildOf
<1>8. h[q].sizes[r.src] = w[s] /\ h[q].sizes[r.dest] = w[t]
  BY <1>1, <1>3, <1>5 DEF Sized
<1>12. h[q].children[r.src] = s /\ h[q].children[r.dest] = t
  OBVIOUS
<1> HIDE DEF q, s, t
<1>9. s \in Ptr /\ t \in Ptr
  BY <1>6, <1>7 DEF Allocated
<1>10. q # s /\ q # t
  <2>1. lev[s] \in Nat /\ lev[t] \in Nat
    BY <1>9 DEF Tree
  <2> QED
    BY <1>6, <1>7, <2>1
<1>11. Reports(h, child, s, t, q, r.src, r.dest, w)
  BY <1>1, <1>2, <1>5, <1>6, <1>7, <1>8, <1>9, <1>10, <1>12 DEF Reports
<1> QED
  BY <1>3, <1>4, <1>11 DEF q

\* What the climb of remove leaves of the sizes.
Accounted(h, g, n, r, w, w1) ==
  /\ w1 \in [Ptr -> Nat]
  /\ Sized(g, w1) /\ Owed(g, w1, h[n].parent)
  /\ \A p \in Ptr : p \notin {SourceOf(h, n, r), TargetOf(h, n, r)} => w1[p] = w[p]
  /\ w1[SourceOf(h, n, r)] = Weight(h, SourceOf(h, n, r))

\* It brings the sizes of the children the report names up to date and has no
\* check fail: now the parent is the node that lacks the item.
LEMMA DebitExact ==
  ASSUME NEW h \in Heap, NEW lev, Tree(h, lev), NEW child \in Allocated(h),
         h[child].parent # None, removal \in Removal,
         RemovalFits(h, child, removal),
         NEW w \in [Ptr -> Nat], RemoveSized(h, child, removal, w)
  PROVE  LET parent == h[child].parent
         IN  /\ ~ DebitPanics(h, parent) /\ Debit(h, parent) \in Heap
             /\ \E w1 : Accounted(h, Debit(h, parent), child, removal, w, w1)
<1> DEFINE parent == h[child].parent
           g == Debit(h, parent)
           a == h[parent].sizes
           len == h[parent].length
           src == removal.src
           dest == removal.dest
           s == SourceOf(h, child, removal)
           t == TargetOf(h, child, removal)
           y == Weight(h, s)
           z == Weight(h, t)
           gone == IF removal.kind = "Merged" THEN a[src] ELSE removal.size
           w1 == [p \in Ptr |-> IF p \in {s, t} THEN Weight(h, p) ELSE w[p]]
<1>0. /\ Sized(h, w) /\ (removal.kind = "Moved" \/ removal.size = 0)
      /\ \A p \in Allocated(h) : w[p] = Weight(h, p) + RemoveExcess(h, child, removal, w, p)
  BY DEF RemoveSized
<1>1. /\ Reports(h, child, s, t, parent, src, dest, w)
      /\ removal.kind = "Absorbed" <=> src = dest
  BY <1>0, ReportsThen
<1>2. /\ parent \in Allocated(h) /\ parent \in Ptr /\ IsInternal(h, parent)
      /\ src \in 0..(len - 1) /\ dest \in 0..(len - 1)
      /\ h[parent].children[src] = s /\ h[parent].children[dest] = t
      /\ s \in Allocated(h) /\ t \in Allocated(h) /\ s \in Ptr /\ t \in Ptr
      /\ h[s].parent = parent /\ h[t].parent = parent
      /\ h[s].index = src /\ h[t].index = dest
      /\ parent # s /\ parent # t /\ a[src] = w[s] /\ a[dest] = w[t]
  BY <1>1 DEF Reports
<1>3. len \in 0..B /\ a \in SizeArray /\ y \in Nat /\ z \in Nat
      /\ Weight(h, parent) \in Nat
  BY <1>2, FieldTypes, WeightType
<1>4. src \in Position /\ dest \in Position /\ removal.size \in Nat
  BY <1>2, <1>3 DEF Removal
<1>5. gone \in Nat /\ (removal.kind # "Merged" => gone = removal.size)
  BY <1>3, <1>4 DEF SizeArray
<1>6. ASSUME NEW p \in Allocated(h)
      PROVE  w[p] = Weight(h, p) + ((IF p = s THEN gone ELSE 0)
                                    + (IF p = t THEN 1 - gone ELSE 0))
  <2>1. RemoveExcess(h, child, removal, w, p)
          = (IF p = s THEN gone ELSE 0) + (IF p = t THEN 1 - gone ELSE 0)
    BY <1>2 DEF RemoveExcess
  <2> QED
    BY <1>0, <2>1
<1>7. g[parent].sizes = DebitedArray(a, src, dest, gone)
  BY <1>2, DebitSizes
<1>8. s = t <=> src = dest
  BY <1>2
<1> HIDE DEF gone, w1
<1>9. Debits(a, g[parent].sizes, len, src, dest, y, z)
  <2>1. CASE src = dest
    <3>1. gone = 0 /\ s = t
      BY <1>0, <1>1, <1>5, <1>8, <2>1
    <3>2. w[s] = y + 1
      BY <1>2, <1>3, <1>6, <3>1
    <3>3. a[src] = y + 1 /\ z = y
      BY <1>2, <3>1, <3>2
    <3> HIDE DEF a, len, src, dest, y, z, g
    <3> QED
      BY <1>2, <1>3, <1>7, <2>1, <3>1, <3>3, DebitsOne
  <2>2. CASE src # dest
    <3>1. w[s] = y + (gone + 0) /\ w[t] = z + (0 + (1 - gone))
      BY <1>2, <1>6, <1>8, <2>2
    <3>2. a[src] = y + gone /\ a[dest] + gone = z + 1
      BY <1>2, <1>3, <1>5, <3>1
    <3> HIDE DEF a, len, src, dest, y, z, g
    <3> QED
      BY <1>2, <1>3, <1>5, <1>7, <2>2, <3>2, DebitsTwo
  <2> QED
    BY <2>1, <2>2
<1>10. ~ DebitPanics(h, parent)
  <2>1. ~ (a[src] < removal.size)
    <3>1. CASE removal.size = 0
      <4>1. a[src] \in Nat
        BY <1>3, <1>4 DEF SizeArray
      <4> HIDE DEF a
      <4> QED
        BY <3>1, <4>1
    <3>2. CASE removal.kind = "Moved"
      <4>1. gone = removal.size /\ s # t
        BY <1>1, <1>5, <1>8, <3>2
      <4>2. w[s] = y + (gone + 0)
        BY <1>2, <1>6, <4>1
      <4> QED
        BY <1>2, <1>3, <1>4, <4>1, <4>2
    <3> QED
      BY <1>0, <3>1, <3>2
  <2>2. ~ (g[parent].sizes[dest] < 0)
    <3>1. g[parent].sizes[dest] = z
      BY <1>9 DEF Debits
    <3> HIDE DEF g, z
    <3> QED
      BY <1>3, <3>1
  <2> QED
    BY <1>4, <2>1, <2>2 DEF DebitPanics
<1>11. g \in Heap /\ Resized(h, g, parent)
  BY <1>2, <1>10, DebitType, DebitResized
<1>12. w1 \in [Ptr -> Nat] /\ w1[s] = y /\ w1[t] = z
       /\ \A p \in Ptr : p \notin {s, t} => w1[p] = w[p]
  BY <1>2, <1>3 DEF w1
<1> HIDE DEF g, a, len, src, dest, s, t, y, z, parent
<1>13. SizedAt(g, w1, parent)
  <2> SUFFICES ASSUME NEW j \in Position, j < g[parent].length
               PROVE  g[parent].sizes[j] = w1[g[parent].children[j]]
    BY DEF SizedAt
  <2>1. j < len /\ j \in Nat /\ g[parent].children = h[parent].children
    BY <1>2, <1>11 DEF Resized, len
  <2>2. CASE j = src
    BY <1>2, <1>9, <1>12, <2>1, <2>2 DEF Debits
  <2>3. CASE j = dest
    BY <1>2, <1>9, <1>12, <2>1, <2>3 DEF Debits
  <2>4. CASE j # src /\ j # dest
    <3> DEFINE c == h[parent].children[j]
    <3>1. c \in Allocated(h) /\ h[c].index = j
      BY <1>2, <2>1, ChildOf DEF len
    <3>2. a[j] = w[c]
      BY <1>0, <1>2, <2>1 DEF Sized, a, len
    <3> HIDE DEF c
    <3>3. c \notin {s, t} /\ c \in Ptr
      BY <1>2, <2>4, <3>1 DEF Allocated
    <3>4. g[parent].sizes[j] = a[j]
      BY <1>9, <2>4 DEF Debits
    <3> QED
      BY <1>12, <2>1, <3>2, <3>3, <3>4 DEF c
  <2> QED
    BY <2>2, <2>3, <2>4
<1>14. Sized(g, w1) /\ SameWeights(h, g, {parent})
  <2>1. \A p \in Allocated(h) : h[p].parent # parent => w1[p] = w[p]
    BY <1>2, <1>12 DEF Allocated
  <2> QED
    BY <1>0, <1>2, <1>11, <1>13, <2>1, SizesReplaced
<1>15. Adds(Weight(g, parent), 1, Weight(h, parent))
  <2>1. ~ IsLeaf(h, parent) /\ ~ IsLeaf(g, parent) /\ g[parent].length = len
    BY <1>2, <1>11 DEF Resized, IsLeaf, IsInternal, len
  <2> QED
    BY <1>9, <2>1 DEF Weight, Debits, a, len
<1>16. ASSUME NEW p \in Allocated(g)
       PROVE  w1[p] = Weight(g, p) + (IF p = parent THEN 1 ELSE 0)
  <2>1. p \in Allocated(h) /\ p \in Ptr
    BY <1>11 DEF Resized, Allocated
  <2>2. p # parent => Weight(g, p) = Weight(h, p)
    BY <1>14, <2>1 DEF SameWeights
  <2>3. CASE p \in {s, t}
    <3>1. p # parent /\ w1[p] = Weight(h, p)
      BY <1>2, <1>12, <2>3 DEF y, z
    <3>2. Weight(h, p) \in Nat
      BY <2>1, WeightType
    <3> QED
      BY <2>2, <3>1, <3>2
  <2>4. CASE p \notin {s, t}
    <3>1. w1[p] = Weight(h, p) + (0 + 0)
      BY <1>6, <1>12, <2>1, <2>4
    <3>2. Weight(h, p) \in Nat
      BY <2>1, WeightType
    <3>3. CASE p = parent
      BY <1>15, <3>1, <3>2, <3>3 DEF Adds
    <3>4. CASE p # parent
      BY <2>2, <3>1, <3>2, <3>4
    <3> QED
      BY <3>3, <3>4
  <2> QED
    BY <2>3, <2>4
<1>17. Owed(g, w1, parent)
  BY <1>16 DEF Owed
<1>18. Accounted(h, g, child, removal, w, w1)
  BY <1>12, <1>14, <1>17 DEF Accounted, s, t, y, parent
<1> QED
  BY <1>10, <1>11, <1>18 DEF g, parent

\* SizesInv during the climb of remove.
LEMMA RemoveSizedThen ==
  ASSUME Removing, SizesInv, NEW lev, Shrinking(lev)
  PROVE  \E w \in [Ptr -> Nat] : /\ RemoveSized(heap, node, removal, w)
                                 /\ size = w[root]
<1>1. PICK w \in [Ptr -> Nat] : SizesInvAt(w)
  BY DEF SizesInv, Shrinking
<1>2. Top = root /\ root # None
  BY DEF Shrinking, Top, Allocated
<1>3. ASSUME NEW p \in Allocated(heap)
      PROVE  w[p] = Weight(heap, p) + RemoveExcess(heap, node, removal, w, p)
  <2>1. Excess(w, p) = RemoveExcess(heap, node, removal, w, p)
    BY DEF Excess, Shrinking
  <2> QED
    BY <1>1, <2>1 DEF SizesInvAt
<1>4. RemoveSized(heap, node, removal, w)
  BY <1>1, <1>3 DEF RemoveSized, SizesInvAt
<1> QED
  BY <1>1, <1>2, <1>4 DEF SizesInvAt

\* Below the root the climb of remove has no check fail, and keeps the size of
\* the root.
LEMMA ShrinkingDebit ==
  ASSUME NEW lev, Shrinking(lev), heap[node].parent # None,
         NEW w \in [Ptr -> Nat], RemoveSized(heap, node, removal, w)
  PROVE  LET parent == heap[node].parent
         IN  /\ ~ DebitPanics(heap, parent) /\ Debit(heap, parent) \in Heap
             /\ \E w1 : /\ Accounted(heap, Debit(heap, parent), node, removal, w, w1)
                        /\ w1[root] = w[root]
<1> DEFINE parent == heap[node].parent
           s == SourceOf(heap, node, removal)
           t == TargetOf(heap, node, removal)
<1>1. /\ heap \in Heap /\ Tree(heap, lev) /\ node \in Allocated(heap)
      /\ removal \in Removal /\ RemovalFits(heap, node, removal)
      /\ root \in Ptr /\ heap[root].parent = None
  BY DEF Shrinking, Allocated
<1>2. /\ ~ DebitPanics(heap, parent) /\ Debit(heap, parent) \in Heap
      /\ \E w1 : Accounted(heap, Debit(heap, parent), node, removal, w, w1)
  BY <1>1, DebitExact
<1>3. heap[s].parent = parent /\ heap[t].parent = parent
  <2>1. Reports(heap, node, s, t, parent, removal.src, removal.dest, w)
    BY <1>1, ReportsThen DEF RemoveSized
  <2> QED
    BY <2>1 DEF Reports
<1>4. root \notin {s, t}
  BY <1>1, <1>3
<1> QED
  BY <1>1, <1>2, <1>4 DEF Accounted

\* handle_removal of Moved and Absorbed: the parent's sizes are right again,
\* and now its own parent has to hear of the removal.
LEMMA ClimbRemoveSizes ==
  TypeInv /\ TypeInv' /\ TreeInv /\ SizesInv /\ ClimbRemove => SizesInv'
<1> SUFFICES ASSUME TypeInv, TypeInv', TreeInv, SizesInv, ClimbRemove
             PROVE  SizesInv'
  OBVIOUS
<1> DEFINE parent == heap[node].parent
<1>1. Removing
  BY DEF ClimbRemove
<1>2. PICK lev \in [Ptr -> Nat] : Shrinking(lev)
  BY <1>1, ShrinkingThen
<1>3. PICK w \in [Ptr -> Nat] : /\ RemoveSized(heap, node, removal, w)
                                /\ size = w[root]
  BY <1>1, <1>2, RemoveSizedThen
<1>4. CASE parent = None
  BY <1>4, PanicSizes DEF ClimbRemove
<1>5. CASE parent # None
  <2>1. /\ ~ DebitPanics(heap, parent)
        /\ \E w1 : /\ Accounted(heap, Debit(heap, parent), node, removal, w, w1)
                   /\ w1[root] = w[root]
    BY <1>2, <1>3, <1>5, ShrinkingDebit
  <2>2. /\ heap' = Debit(heap, parent) /\ node' = parent
        /\ removal' = Absorbed(heap, parent)
        /\ UNCHANGED <<root, size, request, pc, index, held, split>>
    BY <1>5, <2>1 DEF ClimbRemove
  <2>3. PICK w1 : /\ Accounted(heap, heap', node, removal, w, w1)
                  /\ w1[root] = w[root]
    BY <2>1, <2>2
  <2>4. /\ heap \in Heap /\ parent \in Ptr /\ root \in Ptr
        /\ heap[root].parent = None /\ root # None /\ split = None
    BY <1>2, <1>5, ParentOf DEF Shrinking, Allocated
  <2> HIDE DEF parent
  <2>5. Resized(heap, heap', parent)
    BY <2>2, <2>4, DebitResized
  <2>6. /\ w1 \in [Ptr -> Nat] /\ Sized(heap', w1) /\ Owed(heap', w1, parent)
    BY <2>3 DEF Accounted, parent
  <2>7. ASSUME NEW p \in Allocated(heap')
        PROVE  w1[p] = Weight(heap', p)
                       + RemoveExcess(heap', parent, removal', w1, p)
    <3>1. RemoveExcess(heap', parent, removal', w1, p) = IF p = parent THEN 1 ELSE 0
      BY <2>2 DEF RemoveExcess, SourceOf, TargetOf, Absorbed
    <3> QED
      BY <2>6, <3>1 DEF Owed
  <2>8. RemoveSized(heap', node', removal', w1)
    BY <2>2, <2>6, <2>7 DEF RemoveSized, Absorbed
  <2>9. Top' = root /\ root' = root
    BY <2>2, <2>4, <2>5 DEF Top, Resized
  <2>10. size' = IF root' = None THEN 0 ELSE w1[Top']
    BY <1>3, <2>2, <2>3, <2>4, <2>9
  <2>11. Removing' /\ heap' \in Heap /\ split' = None
    BY <1>1, <2>2, <2>4 DEF Removing, TypeInv, TypeOK
  <2> QED
    BY <2>6, <2>8, <2>10, <2>11, RemovedSizes
<1> QED
  BY <1>4, <1>5

\* h and g differ in no node but c.
SameBut(h, g, c) == \A p \in Ptr : p # c => g[p] = h[p]

\* A report that is no sibling of c is the same without c.
LEMMA ExcessWithout ==
  ASSUME NEW h, NEW g, NEW n \in Ptr, NEW r, NEW c, n # c, h[n].parent # c,
         RemovalFits(h, n, r), h[n].parent # None => h[n].parent \in Ptr,
         SameBut(h, g, c), NEW w, NEW p
  PROVE  RemoveExcess(g, n, r, w, p) = RemoveExcess(h, n, r, w, p)
<1>1. g[n].parent = h[n].parent
  BY DEF SameBut
<1>2. r.kind # "Absorbed" => g[h[n].parent] = h[h[n].parent]
  BY DEF RemovalFits, SameBut
<1>3. SourceOf(g, n, r) = SourceOf(h, n, r) /\ TargetOf(g, n, r) = TargetOf(h, n, r)
  BY <1>1, <1>2 DEF SourceOf, TargetOf
<1> QED
  BY <1>3 DEF RemoveExcess

\* handle_removal of Merged: the emptied child goes, and counts for nothing.
LEMMA UnlinkedSizes ==
  ASSUME NEW h \in Heap, NEW lev, Tree(h, lev), NEW g, NEW r, NEW k,
         NEW parent, NEW src, Unlinked(h, g, r, k, lev, parent, src),
         NEW w \in [Ptr -> Nat], Sized(g, w), Owed(g, w, parent),
         w[h[parent].children[src]] = Weight(h, h[parent].children[src])
  PROVE  RemoveSized(k, parent, r.removal, w)
<1> DEFINE emptied == h[parent].children[src]
<1>0. /\ parent \in Allocated(h) /\ parent \in Ptr /\ IsInternal(h, parent)
      /\ src \in Nat /\ src < h[parent].length
      /\ emptied \in Ptr /\ emptied \in Allocated(h) /\ h[emptied].length = 0
      /\ lev[parent] = lev[emptied] + 1
      /\ Resized(h, g, parent) /\ g \in Heap
      /\ Tree(g, lev) /\ Allocated(g) = Allocated(h)
      /\ ~ RemovePanics(g, parent, src) /\ r = RemoveOnce(g, parent, src)
      /\ RemovedOnce(g, r, lev, parent, src)
      /\ r.heap \in Heap
      /\ Allocated(k) = Allocated(h) \ {emptied}
      /\ \A p \in Ptr : p # emptied => k[p] = r.heap[p]
  BY DEF Unlinked
<1>1. Weight(h, emptied) = 0
  <2>1. PrefixSums(h[emptied].sizes)[0] = 0
    BY <1>0, WeightType, SumsStep
  <2> QED
    BY <1>0, <2>1 DEF Weight
<1>2. Taken(g, parent, src).size = 0
  <2>1. /\ ~ IsLeaf(g, parent) /\ IsInternal(g, parent)
        /\ g[parent].children = h[parent].children
        /\ g[parent].length = h[parent].length
    BY <1>0 DEF Resized, IsLeaf, IsInternal
  <2>2. src \in Position
    <3>1. h[parent].length \in 0..B
      BY <1>0, FieldTypes
    <3> QED
      BY <1>0, <3>1
  <2>3. g[parent].sizes[src] = w[emptied]
    BY <1>0, <2>1, <2>2 DEF Sized
  <2> QED
    BY <1>1, <2>1, <2>3 DEF Taken, Entry
<1> DEFINE f == r.heap
<1>3. RemoveSized(f, parent, r.removal, w)
  <2>1. ASSUME NEW p \in Allocated(g)
        PROVE  w[p] = Weight(g, p) + (IF p = parent
                                      THEN 1 - Taken(g, parent, src).size ELSE 0)
    BY <1>2 DEF Owed
  <2>2. parent \in Allocated(g)
    BY <1>0
  <2> QED
    BY <1>0, <2>1, <2>2, RemoveOnceSizes
<1>4. /\ Tree(f, lev) /\ Allocated(f) = Allocated(h) /\ f \in Heap
      /\ RemovalFits(f, parent, r.removal) /\ parent \in Allocated(f)
  BY <1>0 DEF RemovedOnce
<1> HIDE DEF emptied, f
<1>5. lev[emptied] \in Nat /\ parent # emptied
  <2>1. lev[emptied] \in Nat
    BY <1>0 DEF Tree
  <2> QED
    BY <1>0, <2>1
<1>6. f[parent].parent # emptied /\ (f[parent].parent # None => f[parent].parent \in Ptr)
  <2>1. CASE f[parent].parent = None
    BY <1>0, <2>1
  <2>2. CASE f[parent].parent # None
    <3>1. lev[f[parent].parent] = lev[parent] + 1 /\ f[parent].parent \in Ptr
      BY <1>4, <2>2, ParentOf DEF Allocated
    <3> QED
      BY <1>0, <1>5, <3>1
  <2> QED
    BY <2>1, <2>2
<1>7. \A p \in Ptr : p # emptied => k[p] = f[p]
  BY <1>0 DEF f
<1>8. Sized(k, w)
  <2> SUFFICES ASSUME NEW p \in Allocated(k), IsInternal(k, p), NEW i \in Position,
                      i < k[p].length
               PROVE  k[p].sizes[i] = w[k[p].children[i]]
    BY DEF Sized
  <2>1. p \in Ptr /\ k[p] = f[p] /\ p \in Allocated(f)
    BY <1>0, <1>4, <1>7 DEF Allocated
  <2> QED
    BY <1>3, <2>1 DEF RemoveSized, Sized, IsInternal
<1>9. ASSUME NEW p \in Allocated(k)
      PROVE  w[p] = Weight(k, p) + RemoveExcess(k, parent, r.removal, w, p)
  <2>1. p \in Ptr /\ k[p] = f[p] /\ p \in Allocated(f)
    BY <1>0, <1>4, <1>7 DEF Allocated
  <2>2. Weight(k, p) = Weight(f, p)
    BY <2>1, WeightFields
  <2>3. RemoveExcess(k, parent, r.removal, w, p)
          = RemoveExcess(f, parent, r.removal, w, p)
    <3>1. parent \in Ptr /\ parent # emptied /\ RemovalFits(f, parent, r.removal)
      BY <1>0, <1>4, <1>5
    <3> DEFINE rem == r.removal
    <3>2. RemovalFits(f, parent, rem)
      BY <3>1
    <3> HIDE DEF rem
    <3>3. RemoveExcess(k, parent, rem, w, p) = RemoveExcess(f, parent, rem, w, p)
      <4>1. SameBut(f, k, emptied)
        BY <1>7 DEF SameBut
      <4> QED
        BY <1>6, <3>1, <3>2, <4>1, ExcessWithout
    <3> QED
      BY <3>3 DEF rem
  <2>4. w[p] = Weight(f, p) + RemoveExcess(f, parent, r.removal, w, p)
    BY <1>3, <2>1 DEF RemoveSized
  <2> QED
    BY <2>2, <2>3, <2>4
<1> QED
  BY <1>3, <1>8, <1>9 DEF RemoveSized

\* handle_removal of Merged.
LEMMA ClimbMergeSizes ==
  TypeInv /\ TypeInv' /\ TreeInv /\ SizesInv /\ ClimbMerge => SizesInv'
<1> SUFFICES ASSUME TypeInv, TypeInv', TreeInv, SizesInv, ClimbMerge
             PROVE  SizesInv'
  OBVIOUS
<1> DEFINE parent == heap[node].parent
           src == removal.src
           emptied == heap[parent].children[src]
<1>1. Removing /\ removal.kind = "Merged"
  BY DEF ClimbMerge
<1>2. PICK lev \in [Ptr -> Nat] : Shrinking(lev)
  BY <1>1, ShrinkingThen
<1>3. CASE Panic
  BY <1>3, PanicSizes
<1>4. CASE ~ Panic
  <2>1. PICK g, r :
          /\ Unlinked(heap, g, r, heap', lev, parent, src)
          /\ removal' = r.removal /\ node' = parent /\ parent # None
          /\ UNCHANGED <<root, size, request, pc, index, held, split>>
    BY <1>2, <1>4, ClimbMergeUnlinks
  <2>2. PICK w \in [Ptr -> Nat] : /\ RemoveSized(heap, node, removal, w)
                                  /\ size = w[root]
    BY <1>1, <1>2, RemoveSizedThen
  <2>3. PICK w1 : /\ Accounted(heap, Debit(heap, parent), node, removal, w, w1)
                  /\ w1[root] = w[root]
    BY <1>2, <2>1, <2>2, ShrinkingDebit
  <2>4. SourceOf(heap, node, removal) = emptied
    BY <1>1 DEF SourceOf
  <2>5. heap \in Heap /\ Tree(heap, lev) /\ Roots(heap) = {root} /\ split = None
    BY <1>2 DEF Shrinking
  <2> HIDE DEF src
  <2>6. g = Debit(heap, parent) /\ Roots(heap') = {root}
    BY <2>1, <2>5 DEF Unlinked
  <2>7. /\ w1 \in [Ptr -> Nat] /\ Sized(g, w1) /\ Owed(g, w1, parent)
        /\ w1[emptied] = Weight(heap, emptied)
    BY <2>3, <2>4, <2>6 DEF Accounted
  <2> HIDE DEF parent
  <2>8. RemoveSized(heap', parent, r.removal, w1)
    BY <2>1, <2>5, <2>7, UnlinkedSizes
  <2>9. root # None /\ heap'[root].parent = None
    BY <1>2, <2>6 DEF Shrinking, Roots, Allocated
  <2>10. size' = IF root' = None THEN 0 ELSE w1[Top']
    BY <2>1, <2>2, <2>3, <2>9 DEF Top
  <2>11. Removing' /\ heap' \in Heap /\ split' = None
    BY <1>1, <2>1, <2>5 DEF Removing, TypeInv, TypeOK
  <2>12. RemoveSized(heap', node', removal', w1)
    BY <2>1, <2>8
  <2> QED
    BY <2>7, <2>10, <2>11, <2>12, RemovedSizes
<1> QED
  BY <1>3, <1>4

\* The end of remove: the root has lost the item, and so has the vector.
LEMMA FinishRemoveSizes ==
  TypeInv /\ TypeInv' /\ TreeInv /\ SizesInv /\ FinishRemove => SizesInv'
<1> SUFFICES ASSUME TypeInv, TypeInv', TreeInv, SizesInv, FinishRemove
             PROVE  SizesInv'
  OBVIOUS
<1>1. Removing /\ removal.kind = "Absorbed" /\ heap[node].parent = None
  BY DEF FinishRemove
<1>2. PICK lev \in [Ptr -> Nat] : Shrinking(lev)
  BY <1>1, ShrinkingThen
<1>3. PICK w \in [Ptr -> Nat] : /\ RemoveSized(heap, node, removal, w)
                                /\ size = w[root]
  BY <1>1, <1>2, RemoveSizedThen
<1>4. /\ heap \in Heap /\ Tree(heap, lev) /\ node \in Allocated(heap)
      /\ Roots(heap) = {root} /\ node = root /\ node \in Ptr /\ node # None
  BY <1>1, <1>2 DEF Shrinking, Roots, Allocated
<1>5. Sized(heap, w) /\ removal.size = 0
  BY <1>1, <1>3 DEF RemoveSized
<1>6. ASSUME NEW p \in Allocated(heap)
      PROVE  w[p] = Weight(heap, p) + (IF p = node THEN 1 ELSE 0)
  <2>1. RemoveExcess(heap, node, removal, w, p) = IF p = node THEN 1 ELSE 0
    BY <1>1, <1>5 DEF RemoveExcess, SourceOf, TargetOf
  <2> QED
    BY <1>3, <2>1 DEF RemoveSized
<1>7. Weight(heap, node) \in Nat /\ size - 1 = Weight(heap, node)
  <2>1. Weight(heap, node) \in Nat
    BY <1>4, WeightType
  <2> QED
    BY <1>3, <1>4, <1>6, <2>1
<1>8. CASE IsInternal(heap, node) /\ heap[node].length = 1
  <2> DEFINE child == heap[node].children[0]
             f == SimpleRemove(heap, node, 0)
  <2>1. 0 \in Nat /\ 0 < heap[node].length /\ ~ IsLeaf(heap, node)
    BY <1>8 DEF IsLeaf, IsInternal
  <2>2. child \in Allocated(heap) /\ child \in Ptr /\ heap[child].parent = node
    BY <1>4, <1>8, <2>1, ChildOf DEF Allocated
  <2>3. heap' = Dealloc(f, node) /\ root' = child /\ size' = size - 1 /\ Leave("idle")
    BY <1>8, <2>2 DEF FinishRemove
  <2>4. child # node /\ child # None
    BY <1>1, <1>4, <2>2
  <2>5. w[child] = heap[node].sizes[0]
    BY <1>4, <1>5, <1>8 DEF Sized
  <2>6. Taken(heap, node, 0).size = heap[node].sizes[0]
    BY <2>1 DEF Taken, Entry
  <2> HIDE DEF child
  <2>7. Removed(heap, f, lev, node, 0) /\ f \in Heap
    BY <1>4, <2>1, SimpleRemoveTree, SimpleRemoveType
  <2>8. /\ SameWeights(heap, f, {node})
        /\ Adds(Weight(f, node), Taken(heap, node, 0).size, Weight(heap, node))
        /\ Sized(f, w)
    BY <1>4, <1>5, <2>1, SimpleRemoveWeight
  <2> HIDE DEF f
  <2>9. /\ Tree(f, lev) /\ Allocated(f) = Allocated(heap)
        /\ Roots(f) = {node, child} /\ f[node].length = 0
    <3>1. f[node].length = heap[node].length - 1
      BY <1>4, <2>7 DEF Removed
    <3> QED
      BY <1>4, <1>8, <2>1, <2>7, <3>1 DEF Removed, child
  <2>10. /\ Allocated(heap') = Allocated(heap) \ {node}
         /\ Roots(heap') = {child}
         /\ \A p \in Ptr : p # node => heap'[p] = f[p]
    BY <2>3, <2>4, <2>7, <2>9, DeallocTree
  <2>11. Weight(f, node) = 0
    <3>1. PrefixSums(f[node].sizes)[0] = 0
      BY <1>4, <2>7, WeightType, SumsStep
    <3> QED
      BY <2>9, <3>1 DEF Weight
  <2>12. Weight(heap, node) = w[child]
    BY <1>7, <2>5, <2>6, <2>8, <2>11 DEF Adds
  <2>13. ASSUME NEW p \in Allocated(heap')
         PROVE  /\ p \in Ptr /\ p \in Allocated(f) /\ heap'[p] = f[p]
                /\ w[p] = Weight(heap', p)
    <3>1. p \in Ptr /\ p \in Allocated(heap) /\ p # node /\ heap'[p] = f[p]
      BY <2>10 DEF Allocated
    <3>2. Weight(heap', p) = Weight(f, p)
      BY <3>1, WeightFields
    <3>3. Weight(f, p) = Weight(heap, p)
      BY <2>8, <3>1 DEF SameWeights
    <3>4. w[p] = Weight(heap, p) + 0 /\ Weight(heap, p) \in Nat
      BY <1>4, <1>6, <3>1, WeightType
    <3> QED
      BY <2>9, <3>1, <3>2, <3>3, <3>4
  <2>14. Sized(heap', w)
    <3> SUFFICES ASSUME NEW p \in Allocated(heap'), IsInternal(heap', p),
                        NEW i \in Position, i < heap'[p].length
                 PROVE  heap'[p].sizes[i] = w[heap'[p].children[i]]
      BY DEF Sized
    <3> QED
      BY <2>8, <2>13 DEF Sized, IsInternal
  <2>15. Top' = child
    BY <2>3, <2>4, <2>10 DEF Top, Roots
  <2>16. size' = IF root' = None THEN 0 ELSE w[Top']
    BY <1>7, <2>3, <2>4, <2>12, <2>15
  <2>17. Exact(w)'
    BY <1>3, <2>13, <2>14, <2>16 DEF Exact
  <2>18. heap' \in Heap /\ pc' # "climb" /\ split' = None /\ SeekOK'
    BY <2>3 DEF Leave, SeekOK, TypeInv, TypeOK
  <2> QED
    BY <2>17, <2>18, ExactStep
<1>9. CASE ~ (IsInternal(heap, node) /\ heap[node].length = 1)
  <2>1. root' = node /\ size' = size - 1 /\ Leave("idle") /\ heap' = heap
    BY <1>9 DEF FinishRemove
  <2>2. PICK w2 : w2 = [w EXCEPT ![node] = Weight(heap, node)]
    OBVIOUS
  <2>3. Sized(heap, w2)
    <3> DEFINE y == Weight(heap, node)
    <3>1. w2 = [w EXCEPT ![node] = y] /\ node \in Roots(heap)
      BY <1>4, <2>2
    <3> HIDE DEF y
    <3> QED
      BY <1>3, <1>4, <1>5, <3>1, SizedExcept
  <2>4. w2 \in [Ptr -> Nat] /\ w2[node] = Weight(heap, node)
        /\ \A p \in Ptr : p # node => w2[p] = w[p]
    BY <1>3, <1>4, <1>7, <2>2
  <2>5. ASSUME NEW p \in Allocated(heap) PROVE w2[p] = Weight(heap, p)
    <3>1. p \in Ptr /\ Weight(heap, p) \in Nat
      BY <1>4, WeightType DEF Allocated
    <3> QED
      BY <1>6, <2>4, <3>1
  <2>6. Top' = node /\ root' # None
    BY <1>1, <1>4, <2>1 DEF Top
  <2>7. size' = IF root' = None THEN 0 ELSE w2[Top']
    BY <1>7, <2>1, <2>4, <2>6
  <2>8. Exact(w2)'
    BY <2>1, <2>3, <2>4, <2>5, <2>7 DEF Exact
  <2>9. heap' \in Heap /\ pc' # "climb" /\ split' = None /\ SeekOK'
    BY <1>4, <2>1 DEF Leave, SeekOK
  <2> QED
    BY <2>8, <2>9, ExactStep
<1> QED
  BY <1>8, <1>9

-----------------------------------------------------------------------------
\* Every step of the vector keeps the sizes.
LEMMA NextSizesInv ==
  TypeInv /\ TypeInv' /\ TreeInv /\ SizesInv /\ [Next]_vars => SizesInv'
<1> SUFFICES ASSUME TypeInv, TypeInv', TreeInv, SizesInv, [Next]_vars
             PROVE  SizesInv'
  OBVIOUS
<1>1. CASE Begin
  BY <1>1, BeginSizes
<1>2. CASE Step
  BY <1>2, DescendSizes, AccessSizes, InsertAtLeafSizes, ClimbInsertSizes,
     ClimbSplitSizes, GrowRootSizes, FinishInsertSizes, RemoveAtLeafSizes,
     ClimbRemoveSizes, ClimbMergeSizes, FinishRemoveSizes
     DEF Step
<1>3. CASE AllocFails
  BY <1>3, AllocFailsSizes
<1>4. CASE UNCHANGED vars
  <2>1. /\ heap' = heap /\ root' = root /\ size' = size /\ request' = request
        /\ pc' = pc /\ node' = node /\ index' = index /\ split' = split
        /\ removal' = removal
    BY <1>4 DEF vars
  <2> QED
    BY <2>1 DEF SizesInv, SizesInvAt, Ended, Top, Excess, SeekOK, Inserting, Removing
<1> QED
  BY <1>1, <1>2, <1>3, <1>4 DEF Next

\* The entry that n's parent has for the child i exceeds its weight by Lag.
LagIs(w, p, i) == Excess(w, heap[p].children[i]) = Lag(p, i)

\* While insert climbs that is what Excess says of the node it has come to.
LEMMA InsertLag ==
  ASSUME heap \in Heap, NEW lev, Tree(heap, lev), Inserting,
         node \in Allocated(heap),
         NEW p \in Allocated(heap), IsInternal(heap, p),
         NEW i \in Nat, i < heap[p].length, NEW w
  PROVE  LagIs(w, p, i)
<1> DEFINE c == heap[p].children[i]
<1>1. c \in Allocated(heap) /\ heap[c].parent = p /\ heap[c].index = i
  BY ChildOf
<1>2. pc = "climb" /\ request.op = "insert"
  BY DEF Inserting
<1>3. Excess(w, c) = IF c # node THEN 0
                     ELSE (IF split = None THEN 0 ELSE Weight(heap, split)) - 1
  BY DEF Excess, InsertExcess
<1>4. CASE heap[node].parent # p
  BY <1>1, <1>3, <1>4 DEF Lag, LagIs
<1>5. CASE heap[node].parent = p
  <2>1. CASE c = node
    <3>1. Lag(p, i) = IF split = None THEN -1 ELSE Weight(heap, split) - 1
      BY <1>1, <1>2, <1>5, <2>1 DEF Lag
    <3> QED
      BY <1>3, <2>1, <3>1 DEF LagIs
  <2>2. CASE c # node
    <3>1. i # heap[node].index
      <4>1. heap[node].parent # None
        BY <1>5, Kinds
      <4>2. heap[p].children[heap[node].index] = node
        BY <1>5, <4>1, ParentOf
      <4> QED
        BY <2>2, <4>2
    <3> QED
      BY <1>2, <1>3, <1>5, <2>2, <3>1 DEF Lag, LagIs
  <2> QED
    BY <2>1, <2>2
<1> QED
  BY <1>4, <1>5

\* While remove climbs.
LEMMA RemoveLag ==
  ASSUME NEW lev, Shrinking(lev), Removing,
         NEW p \in Allocated(heap), IsInternal(heap, p),
         NEW i \in Nat, i < heap[p].length, NEW w, Sized(heap, w)
  PROVE  LagIs(w, p, i)
<1> DEFINE c == heap[p].children[i]
           q == heap[node].parent
           s == SourceOf(heap, node, removal)
           t == TargetOf(heap, node, removal)
           moved == IF removal.kind = "Merged" THEN w[s] ELSE removal.size
<1>0. /\ heap \in Heap /\ Tree(heap, lev) /\ node \in Allocated(heap)
      /\ removal \in Removal /\ RemovalFits(heap, node, removal) /\ ~ Inserting
  BY DEF Shrinking
<1>1. c \in Allocated(heap) /\ heap[c].parent = p /\ heap[c].index = i
      /\ p # None
  BY <1>0, ChildOf, Kinds
<1>2. pc = "climb" /\ request.op # "insert"
  BY DEF Removing
<1>3. Excess(w, c) = (IF c = s THEN moved ELSE 0) + (IF c = t THEN 1 - moved ELSE 0)
  BY <1>0 DEF Excess, RemoveExcess
<1> HIDE DEF c, moved
<1>4. CASE q = None
  <2>1. s = node /\ t = node
    BY <1>0, <1>4 DEF RemovalFits, SourceOf, TargetOf
  <2>2. c # s /\ c # t
    BY <1>1, <1>4, <2>1
  <2>3. Lag(p, i) = 0
    BY <1>1, <1>4 DEF Lag
  <2> QED
    BY <1>3, <2>2, <2>3 DEF LagIs, c
<1>5. CASE q # None
  <2>1. Reports(heap, node, s, t, q, removal.src, removal.dest, w)
    BY <1>0, <1>5, ReportsThen
  <2> HIDE DEF q, s, t
  <2>2. /\ heap[q].children[removal.src] = s /\ heap[q].children[removal.dest] = t
        /\ heap[s].parent = q /\ heap[t].parent = q
        /\ heap[s].index = removal.src /\ heap[t].index = removal.dest
        /\ heap[q].sizes[removal.src] = w[s]
    BY <2>1 DEF Reports
  <2>3. CASE q # p
    <3>1. c # s /\ c # t
      BY <1>1, <2>2, <2>3
    <3>2. Lag(p, i) = 0
      BY <2>3 DEF Lag, q
    <3> QED
      BY <1>3, <3>1, <3>2 DEF LagIs, c
  <2>4. CASE q = p
    <3>1. (c = s <=> i = removal.src) /\ (c = t <=> i = removal.dest)
      BY <1>1, <2>2, <2>4 DEF c
    <3>2. Lag(p, i) = (IF i = removal.src THEN moved ELSE 0)
                      + (IF i = removal.dest THEN 1 - moved ELSE 0)
      BY <1>2, <2>2, <2>4 DEF Lag, q, moved
    <3> QED
      BY <1>3, <3>1, <3>2 DEF LagIs, c
  <2> QED
    BY <2>3, <2>4
<1> QED
  BY <1>4, <1>5

\* The sizes are exact, up to what the running call has yet to bring up to date.
LEMMA SizesExactThen ==
  ASSUME TypeInv, TreeInv, SizesInv, ~ Ended
  PROVE  SizesExact
<1>0. /\ heap \in Heap /\ pc \in PC /\ request.op \in Op \cup {"none"}
      /\ root \in PtrOrNone
  BY DEF TypeInv, TypeOK, Request
<1>1. PICK w \in [Ptr -> Nat] : SizesInvAt(w)
  BY DEF SizesInv
<1>2. ASSUME NEW p \in Allocated(heap), IsInternal(heap, p),
             NEW i \in 0..(heap[p].length - 1)
      PROVE  heap[p].sizes[i] = Weight(heap, heap[p].children[i]) + Lag(p, i)
  <2>1. heap[p].length \in 0..B
    BY <1>0, Kinds
  <2>2. i \in Nat /\ i < heap[p].length /\ i \in Position
    BY <2>1
  <2> DEFINE c == heap[p].children[i]
  <2>3. LagIs(w, p, i)
    <3>1. CASE Inserting
      <4>1. PICK lev \in [Ptr -> Nat] : Climbing(lev)
        BY <3>1, ClimbingThen
      <4> QED
        BY <1>0, <1>2, <2>2, <3>1, <4>1, InsertLag DEF Climbing
    <3>2. CASE Removing
      <4>1. PICK lev \in [Ptr -> Nat] : Shrinking(lev)
        BY <3>2, ShrinkingThen
      <4> QED
        BY <1>1, <1>2, <2>2, <3>2, <4>1, RemoveLag DEF SizesInvAt
    <3>3. CASE ~ Inserting /\ ~ Removing
      <4>1. pc # "climb"
        BY <1>1, <3>3 DEF SizesInvAt
      <4> QED
        BY <3>3, <4>1 DEF LagIs, Lag, Excess
    <3> QED
      BY <3>1, <3>2, <3>3
  <2>4. c \in Allocated(heap)
    <3>1. PICK lev \in [Ptr -> Nat] : Tree(heap, lev)
      BY DEF TreeInv, TreeInvAt
    <3> QED
      BY <1>0, <1>2, <2>2, <3>1, ChildOf
  <2>5. heap[p].sizes[i] = w[c]
    BY <1>1, <1>2, <2>2 DEF SizesInvAt, Sized
  <2>6. w[c] = Weight(heap, c) + Excess(w, c)
    BY <1>1, <2>4 DEF SizesInvAt
  <2> QED
    BY <2>3, <2>5, <2>6 DEF LagIs
<1>3. ASSUME pc \in {"idle", "seek", "return"}
      PROVE  size = IF root = None THEN 0 ELSE Weight(heap, root)
  <2>1. pc # "climb" /\ ~ Inserting
    BY <1>3 DEF Inserting
  <2>2. PICK x : Exact(x)
    BY <2>1, ExactThen
  <2>3. PICK lev \in [Ptr -> Nat] : OneTree(lev)
    BY <2>1, OneTreeThen
  <2> QED
    BY <2>2, <2>3 DEF Exact, OneTree, Top
<1> QED
  BY <1>2, <1>3 DEF SizesExact

\* The sizes that leaf_for and nth go by are exact in every step of every call,
\* on every edge but the one the call is about to bring up to date, and so is
\* len().  Only the end of the program or of a call in a failed check is left
\* out.
THEOREM SizesUntilEnd == Spec => [](~ Ended => SizesExact)
<1>1. Init => TypeInv /\ TreeInv /\ SizesInv
  BY InitTypeInv, InitTreeInv, InitSizes
<1>2. TypeInv /\ TreeInv /\ SizesInv /\ [Next]_vars
        => (TypeInv /\ TreeInv /\ SizesInv)'
  BY NextTypeInv, NextTreeInv, NextSizesInv
<1>3. TypeInv /\ TreeInv /\ SizesInv => (~ Ended => SizesExact)
  BY SizesExactThen
<1> QED
  BY <1>1, <1>2, <1>3, PTL DEF Spec
=============================================================================
