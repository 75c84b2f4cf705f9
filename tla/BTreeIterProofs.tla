-------------------------- MODULE BTreeIterProofs ---------------------------
(***************************************************************************)
(* What the walks over a vector between two calls come to: leaf_for, nth   *)
(* and the leaf list find the same item at the same place.  From this, that*)
(* an iterator is always where it should be, never panics and implements   *)
(* IterSpec.                                                               *)
(***************************************************************************)
EXTENDS BTreeIter, BTreeShapeProofs

USE NodeAssumption DEF Position

-----------------------------------------------------------------------------
(***************************************************************************)
(* The walk to the first leaf.                                             *)
(***************************************************************************)

\* It ends at the leaf where the items of p start.
LEMMA FirstLeafAt ==
  ASSUME NEW h, NEW lev, NEW w, NEW after, NEW before, NEW top, NEW total,
         NEW bound, Laid(h, lev, w, after, before, top, total, bound)
  PROVE  /\ FirstLeaf(h, None) = None
         /\ \A p \in Allocated(h) : /\ FirstLeaf(h, p) \in Allocated(h)
                                    /\ IsLeaf(h, FirstLeaf(h, p))
                                    /\ before[FirstLeaf(h, p)] = before[p]
<1> DEFINE Good(p) == /\ FirstLeaf(h, p) \in Allocated(h)
                      /\ IsLeaf(h, FirstLeaf(h, p))
                      /\ before[FirstLeaf(h, p)] = before[p]
           T == {p \in Allocated(h) : Good(p)}
<1>0. Settled(h, lev, w, after, top, total, bound)
  BY DEF Laid
<1>1. \A p \in Allocated(h) : p \in PtrOrNone /\ p # None /\ (~ IsLeaf(h, p) <=> IsInternal(h, p))
  BY <1>0, SettledAt DEF PtrOrNone
<1>6. Bounded(h, lev, bound)
  BY <1>0 DEF Settled, Bounded
<1>2. ASSUME NEW p \in Allocated(h), IsLeaf(h, p) PROVE p \in T
  BY <1>1, <1>2, <1>6, FirstLeafStep
<1>3. ASSUME NEW p \in Allocated(h), IsInternal(h, p),
             \A i \in Nat : i < h[p].length => h[p].children[i] \in T
      PROVE  p \in T
  <2> DEFINE c == h[p].children[0]
  <2>1. h[p].length >= 1 /\ h[p].length \in 0..B /\ h[p].sizes \in SizeArray
    BY <1>0, <1>3, SettledAt
  <2>2. 0 \in Nat /\ 0 < h[p].length
    BY <2>1
  <2>3. Placed(h, lev, w, before, c, p, 0)
    BY <1>3, <2>2, PlacedChild
  <2>4. Good(c)
    BY <1>3, <2>2
  <2>5. FirstLeaf(h, p) = FirstLeaf(h, c)
    BY <1>1, <1>3, <1>6, FirstLeafStep
  <2>6. before[c] = before[p] + 0
    BY <2>1, <2>3, SumsStep DEF Placed
  <2>7. before[p] \in Nat
    BY <1>3, LaidAt
  <2>8. before[c] = before[p]
    BY <2>6, <2>7
  <2> HIDE DEF c
  <2> QED
    BY <2>4, <2>5, <2>8
<1> HIDE DEF T
<1>4. \A p \in Allocated(h) : p \in T
  BY <1>0, <1>2, <1>3, FromTheLeaves
<1>5. FirstLeaf(h, None) = None
  BY <1>6, FirstLeafStep DEF PtrOrNone
<1> QED
  BY <1>4, <1>5 DEF T

-----------------------------------------------------------------------------
(***************************************************************************)
(* The walk along the leaf list.                                           *)
(***************************************************************************)

\* What a leaf of the list leads to.
Leads(h, w, before, total, p) ==
  /\ w[p] = h[p].length /\ w[p] \in Nat /\ before[p] \in Nat
  /\ before[p] + w[p] <= total /\ total \in Nat
  /\ h[p].next \in PtrOrNone
  /\ IF h[p].next = None THEN before[p] + w[p] = total
     ELSE /\ h[p].next \in Allocated(h) /\ IsLeaf(h, h[p].next) /\ w[p] >= 1
          /\ before[h[p].next] = before[p] + w[p]
          /\ before[h[p].next] \in Nat

\* Every leaf does if none that has a parent is empty.
LEMMA LeafLeads ==
  ASSUME NEW h, NEW lev, NEW w, NEW after, NEW before, NEW top, NEW total,
         NEW bound, Laid(h, lev, w, after, before, top, total, bound), LeavesHold(h),
         NEW p \in Allocated(h), IsLeaf(h, p)
  PROVE  Leads(h, w, before, total, p)
<1>0. Settled(h, lev, w, after, top, total, bound)
  BY DEF Laid
<1>1. ~ IsInternal(h, p)
  BY DEF IsInternal, IsLeaf
<1>2. /\ w[p] = h[p].length /\ w[p] \in Nat /\ before[p] \in Nat /\ total \in Nat
      /\ before[p] + w[p] <= total
  BY <1>0, <1>1, SettledAt, LaidAt, WithinTotal
<1>3. h[p].next = after[p]
  BY <1>0 DEF Settled, Levels, LeadsOn
<1>4. EndsRight(w, after, before, total, p)
  BY EndsAt
<1>5. CASE after[p] = None
  BY <1>2, <1>3, <1>4, <1>5 DEF EndsRight, Leads, PtrOrNone
<1>6. CASE after[p] # None
  <2> DEFINE q == after[p]
  <2>1. q \in Allocated(h) /\ h[q].kind = h[p].kind
    BY <1>6, LaidAt
  <2>2. IsLeaf(h, q) /\ q \in PtrOrNone
    BY <2>1 DEF IsLeaf, Allocated, PtrOrNone
  <2>3. p # top
    BY <1>6, LaidAt
  <2>4. h[p].parent # None
    BY <1>0, <2>3, SettledAt
  <2>5. h[p].length >= 1
    BY <2>4 DEF LeavesHold
  <2>6. before[q] = before[p] + w[p] /\ before[q] \in Nat
    BY <1>4, <1>6, <2>1, LaidAt DEF EndsRight
  <2> QED
    BY <1>2, <1>3, <1>6, <2>1, <2>2, <2>5, <2>6 DEF Leads
<1> QED
  BY <1>5, <1>6

\* What holds of a leaf when it does of the one after it, holds of all.
LEMMA AlongTheLeaves ==
  ASSUME NEW h, NEW lev, NEW w, NEW after, NEW before, NEW top, NEW total,
         NEW bound, Laid(h, lev, w, after, before, top, total, bound), LeavesHold(h),
         NEW T,
         \A p \in Allocated(h) :
           IsLeaf(h, p) /\ (h[p].next # None => h[p].next \in T) => p \in T
  PROVE  \A p \in Allocated(h) : IsLeaf(h, p) => p \in T
<1> DEFINE S == {p \in Allocated(h) : IsLeaf(h, p)}
           rank == [p \in S |-> total - before[p]]
<1>1. \A p \in S : Leads(h, w, before, total, p)
  BY LeafLeads
<1>2. ASSUME NEW p \in S PROVE total - before[p] \in Nat
  <2>1. PICK a \in Nat, b \in Nat, c \in Nat : a = before[p] /\ b = w[p] /\ c = total
    BY <1>1 DEF Leads
  <2>2. a + b <= c
    BY <1>1, <2>1 DEF Leads
  <2>3. c - a \in Nat
    BY <2>2
  <2> QED
    BY <2>1, <2>3
<1>3. ASSUME NEW p \in S, h[p].next # None
      PROVE  h[p].next \in S /\ total - before[h[p].next] < total - before[p]
  <2> DEFINE q == h[p].next
  <2>1. q \in S
    BY <1>1, <1>3 DEF Leads
  <2>2. PICK a \in Nat, b \in Nat, c \in Nat, d \in Nat :
          a = before[p] /\ b = w[p] /\ c = total /\ d = before[q]
    BY <1>1, <2>1 DEF Leads
  <2>3. d = a + b /\ b >= 1
    BY <1>1, <1>3, <2>2 DEF Leads
  <2>4. c - d < c - a
    BY <2>3
  <2> HIDE DEF q
  <2>5. total - before[q] < total - before[p]
    BY <2>2, <2>4
  <2> QED
    BY <2>1, <2>5 DEF q
<1>4. rank \in [S -> Nat]
  BY <1>2
<1>5. \A p \in S : h[p].next # None => h[p].next \in S /\ rank[h[p].next] < rank[p]
  BY <1>3
<1> HIDE DEF rank
<1>6. \A p \in S : (\A t \in S : rank[t] < rank[p] => t \in T) => p \in T
  BY <1>5
<1> HIDE DEF S
<1>7. \A p \in S : p \in T
  BY <1>4, <1>6, RankInduction
<1> QED
  BY <1>7 DEF S

\* The list ends: the further a leaf is, the fewer items there are from it on.
LEMMA LaidEnds ==
  ASSUME NEW h, NEW lev, NEW w, NEW after, NEW before, NEW top, NEW total,
         NEW bound, Laid(h, lev, w, after, before, top, total, bound), LeavesHold(h)
  PROVE  h \in Heap /\ Tree(h, lev) /\ \E rank : EndsBy(h, rank, total)
<1> DEFINE rank == [p \in Ptr |-> IF IsLeaf(h, p) THEN total - before[p] ELSE 0]
<1>1. h \in Heap /\ Tree(h, lev) /\ total \in Nat
  BY SettledAt DEF Laid, Settled, IsTop
<1>2. ASSUME NEW p \in Ptr, IsLeaf(h, p)
      PROVE  /\ total - before[p] \in 0..total
             /\ h[p].next # None =>
                  /\ h[p].next \in Ptr /\ IsLeaf(h, h[p].next)
                  /\ total - before[h[p].next] < total - before[p]
  <2>1. Leads(h, w, before, total, p)
    BY <1>2, LeafLeads DEF Allocated, IsLeaf
  <2>2. PICK a \in Nat, b \in Nat, c \in Nat : a = before[p] /\ b = w[p] /\ c = total
    BY <2>1 DEF Leads
  <2>3. a + b <= c
    BY <2>1, <2>2 DEF Leads
  <2>4. c - a \in 0..c
    BY <2>3
  <2>5. ASSUME h[p].next # None
        PROVE  /\ h[p].next \in Ptr /\ IsLeaf(h, h[p].next)
               /\ total - before[h[p].next] < total - before[p]
    <3> DEFINE q == h[p].next
    <3>1. q \in Ptr /\ IsLeaf(h, q)
      BY <2>1, <2>5 DEF Leads, Allocated
    <3>2. PICK d \in Nat : d = before[q]
      BY <2>1, <2>5 DEF Leads
    <3>3. d = a + b /\ b >= 1
      BY <2>1, <2>2, <2>5, <3>2 DEF Leads
    <3>4. c - d < c - a
      BY <3>3
    <3> HIDE DEF q
    <3>5. total - before[q] < total - before[p]
      BY <2>2, <3>2, <3>4
    <3> QED
      BY <3>1, <3>5 DEF q
  <2> QED
    BY <2>2, <2>4, <2>5
<1>3. 0 \in 0..total
  BY <1>1
<1>4. rank \in [Ptr -> 0..total]
  BY <1>2, <1>3
<1>5. \A p \in Ptr : IsLeaf(h, p) => rank[p] = total - before[p]
  OBVIOUS
<1> HIDE DEF rank
<1>6. EndsBy(h, rank, total)
  BY <1>1, <1>2, <1>4, <1>5 DEF EndsBy
<1> QED
  BY <1>1, <1>6

\* s is the items of the vector from item `start` on.
ItemsAfter(h, w, before, total, start, s) ==
  /\ s \in Seq(Item) /\ Len(s) = total - start
  /\ \A l \in Allocated(h), t \in Nat :
       IsLeaf(h, l) /\ Covers(w, before, l, t) /\ start <= t
         => s[(t - start) + 1] = h[l].children[t - before[l]]

\* Concatenation, entry by entry.
LEMMA ConcatAt ==
  ASSUME NEW r \in Seq(Item), NEW s \in Seq(Item), NEW n \in Nat, n = Len(r)
  PROVE  /\ r \o s \in Seq(Item) /\ Len(r \o s) = n + Len(s)
         /\ \A i \in 1..n : (r \o s)[i] = r[i]
         /\ \A j \in Nat : 1 <= j /\ j <= Len(s) => (r \o s)[n + j] = s[j]
<1>1. PICK m \in Nat : m = Len(s)
  BY LenProperties
<1>2. /\ r \o s \in Seq(Item) /\ Len(r \o s) = n + m
      /\ \A i \in 1..(n + m) : (r \o s)[i] = IF i <= n THEN r[i] ELSE s[i - n]
  BY <1>1, ConcatProperties
<1>3. \A i \in 1..n : i \in 1..(n + m) /\ i <= n
  BY <1>1
<1>4. \A j \in Nat : 1 <= j /\ j <= m => n + j \in 1..(n + m) /\ ~ (n + j <= n) /\ (n + j) - n = j
  BY <1>1
<1> QED
  BY <1>1, <1>2, <1>3, <1>4

\* An item past a leaf is one from the next leaf on.
LEMMA PastLeaf ==
  ASSUME NEW h, NEW lev, NEW w, NEW after, NEW before, NEW top, NEW total,
         NEW bound, Laid(h, lev, w, after, before, top, total, bound), LeavesHold(h),
         NEW p \in Allocated(h), IsLeaf(h, p), NEW l \in Allocated(h), NEW t \in Nat,
         Covers(w, before, l, t), before[p] <= t, ~ Covers(w, before, p, t)
  PROVE  h[p].next # None /\ before[h[p].next] <= t
<1>1. Leads(h, w, before, total, p)
  BY LeafLeads
<1>2. before[l] + w[l] <= total /\ before[l] \in Nat /\ w[l] \in Nat
  BY WithinTotal, LaidAt
<1>3. PICK a \in Nat, b \in Nat, c \in Nat, x \in Nat, y \in Nat :
        a = before[p] /\ b = w[p] /\ c = total /\ x = before[l] /\ y = w[l]
  BY <1>1, <1>2 DEF Leads
<1>4. x + y <= c /\ t < x + y /\ a <= t
  BY <1>2, <1>3 DEF Covers
<1>5. ~ (t < a + b)
  BY <1>3, <1>4 DEF Covers
<1>6. a + b <= t /\ a + b # c
  BY <1>4, <1>5
<1>7. h[p].next # None
  BY <1>1, <1>3, <1>6 DEF Leads
<1>8. before[h[p].next] = a + b
  BY <1>1, <1>3, <1>7 DEF Leads
<1> QED
  BY <1>6, <1>7, <1>8

\* The items of a leaf come before those of the list from the next leaf on.
LEMMA ItemsFromOne ==
  ASSUME NEW h, NEW lev, NEW w, NEW after, NEW before, NEW top, NEW total,
         NEW bound, Laid(h, lev, w, after, before, top, total, bound), LeavesHold(h),
         NEW p \in Allocated(h), IsLeaf(h, p),
         h[p].next # None =>
           ItemsAfter(h, w, before, total, before[h[p].next], ItemsFrom(h, h[p].next))
  PROVE  ItemsAfter(h, w, before, total, before[p], ItemsFrom(h, p))
<1> DEFINE q == h[p].next
           r == Children(h, p)
           s == ItemsFrom(h, q)
<1>0. Settled(h, lev, w, after, top, total, bound)
  BY DEF Laid
<1>1. Leads(h, w, before, total, p)
  BY LeafLeads
<1>11. h \in Heap /\ Tree(h, lev) /\ \E rank : EndsBy(h, rank, total)
  BY LaidEnds
<1>2. p \in PtrOrNone /\ p # None
  BY <1>0, SettledAt DEF PtrOrNone
<1>3. ItemsFrom(h, p) = r \o s
  BY <1>2, <1>11, ItemsFromStep
<1>4. PICK a \in Nat, b \in Nat, c \in Nat : a = before[p] /\ b = w[p] /\ c = total
  BY <1>1 DEF Leads
<1>5. /\ r \in Seq(Item) /\ Len(r) = b
      /\ \A i \in 1..b : r[i] = h[p].children[i - 1]
  BY <1>1, <1>4, <1>11, LeafItems DEF Leads, Allocated
<1>6. s \in Seq(Item) /\ Len(s) = c - (a + b)
  <2>1. CASE q = None
    <3>1. s = <<>> /\ a + b = c
      BY <1>1, <1>4, <1>11, <2>1, ItemsFromStep DEF Leads, PtrOrNone
    <3>2. Len(s) = 0 /\ s \in Seq(Item)
      BY <3>1, EmptySeq
    <3> QED
      BY <3>1, <3>2
  <2>2. CASE q # None
    <3>1. before[q] = a + b
      BY <1>1, <1>4, <2>2 DEF Leads
    <3>2. ItemsAfter(h, w, before, total, before[q], s)
      BY <2>2
    <3> HIDE DEF s
    <3> QED
      BY <1>4, <3>1, <3>2 DEF ItemsAfter
  <2> QED
    BY <2>1, <2>2
<1>7. /\ r \o s \in Seq(Item) /\ Len(r \o s) = b + Len(s)
      /\ \A i \in 1..b : (r \o s)[i] = r[i]
      /\ \A j \in Nat : 1 <= j /\ j <= Len(s) => (r \o s)[b + j] = s[j]
  <2>1. r \in Seq(Item) /\ s \in Seq(Item) /\ b \in Nat /\ b = Len(r)
    BY <1>4, <1>5, <1>6
  <2> HIDE DEF r, s
  <2> QED
    BY <2>1, ConcatAt
<1>8. Len(r \o s) = c - a
  <2> HIDE DEF r, s
  <2> QED
    BY <1>4, <1>6, <1>7
<1>9. ASSUME NEW l \in Allocated(h), NEW t \in Nat, IsLeaf(h, l),
             Covers(w, before, l, t), before[p] <= t
      PROVE  (r \o s)[(t - before[p]) + 1] = h[l].children[t - before[l]]
  <2>1. CASE Covers(w, before, p, t)
    <3>1. lev[l] = lev[p]
      BY <1>0, <1>9, SettledAt DEF Tree
    <3>2. l = p
      BY <1>9, <2>1, <3>1, CoversOne
    <3>3. a <= t /\ t < a + b
      BY <1>4, <2>1 DEF Covers
    <3>4. (t - a) + 1 \in 1..b /\ ((t - a) + 1) - 1 = t - a
      BY <1>4, <3>3
    <3> HIDE DEF r, s
    <3> QED
      BY <1>4, <1>5, <1>7, <3>2, <3>4
  <2>2. CASE ~ Covers(w, before, p, t)
    <3>1. q # None /\ before[q] <= t
      BY <1>9, <2>2, PastLeaf
    <3>2. before[q] = a + b
      BY <1>1, <1>4, <3>1 DEF Leads
    <3>3. ItemsAfter(h, w, before, total, before[q], s)
      BY <3>1
    <3> DEFINE j == (t - (a + b)) + 1
    <3>4. s[j] = h[l].children[t - before[l]]
      <4> HIDE DEF s
      <4> QED
        BY <1>9, <3>1, <3>2, <3>3 DEF ItemsAfter
    <3>5. t < c
      <4>1. PICK x \in Nat, y \in Nat : x = before[l] /\ y = w[l] /\ x + y <= c
        BY <1>4, LaidAt, WithinTotal
      <4>2. t < x + y
        BY <1>9, <4>1 DEF Covers
      <4> QED
        BY <1>4, <4>1, <4>2
    <3>6. j \in Nat /\ 1 <= j /\ j <= c - (a + b) /\ b + j = (t - a) + 1
      BY <1>4, <3>1, <3>2, <3>5
    <3> HIDE DEF r, s, j
    <3>7. (r \o s)[b + j] = s[j]
      BY <1>6, <1>7, <3>6
    <3> QED
      BY <1>4, <3>4, <3>6, <3>7
  <2> QED
    BY <2>1, <2>2
<1>10. r \o s \in Seq(Item) /\ Len(r \o s) = total - before[p]
  BY <1>4, <1>7, <1>8
<1> DEFINE v == r \o s
<1>13. v \in Seq(Item) /\ Len(v) = total - before[p] /\ ItemsFrom(h, p) = v
  BY <1>3, <1>10
<1>12. \A l \in Allocated(h), t \in Nat :
         IsLeaf(h, l) /\ Covers(w, before, l, t) /\ before[p] <= t
           => v[(t - before[p]) + 1] = h[l].children[t - before[l]]
  BY <1>9
<1> HIDE DEF v
<1> QED
  BY <1>13, <1>12 DEF ItemsAfter

\* So the list from a leaf on is the items of the vector from its first one on.
LEMMA ItemsFromAt ==
  ASSUME NEW h, NEW lev, NEW w, NEW after, NEW before, NEW top, NEW total,
         NEW bound, Laid(h, lev, w, after, before, top, total, bound), LeavesHold(h)
  PROVE  /\ ItemsFrom(h, None) = <<>>
         /\ \A p \in Allocated(h) : IsLeaf(h, p) =>
              ItemsAfter(h, w, before, total, before[p], ItemsFrom(h, p))
<1> DEFINE T == {p \in Allocated(h) :
             ItemsAfter(h, w, before, total, before[p], ItemsFrom(h, p))}
<1>1. ASSUME NEW p \in Allocated(h), IsLeaf(h, p), h[p].next # None => h[p].next \in T
      PROVE  p \in T
  BY <1>1, ItemsFromOne
<1> HIDE DEF T
<1>2. \A p \in Allocated(h) : IsLeaf(h, p) => p \in T
  BY <1>1, AlongTheLeaves
<1>3. ItemsFrom(h, None) = <<>>
  BY LaidEnds, ItemsFromStep DEF PtrOrNone
<1> QED
  BY <1>2, <1>3 DEF T

-----------------------------------------------------------------------------
(***************************************************************************)
(* nth.                                                                    *)
(***************************************************************************)

\* Where the loop of nth may be, and how far below its node it is to go.
Climbs(h) == [node : {q \in Ptr : IsInternal(h, q)}, from : 0..B, n : Nat]

\* How many items of the node are to be passed, and how many it has.
Goal(h, at) == PrefixSums(h[at.node].sizes)[at.from] + at.n
Held(h, p) == PrefixSums(h[p].sizes)[h[p].length]

\* Where it stops in a child, and where it goes on.
Within(h, p, from, goal) ==
  CHOOSE k \in from..(h[p].length - 1) :
    PrefixSums(h[p].sizes)[k] <= goal /\ goal < PrefixSums(h[p].sizes)[k + 1]
InChild(h, p, from, goal) ==
  LeafFor(h, h[p].children[Within(h, p, from, goal)],
          goal - PrefixSums(h[p].sizes)[Within(h, p, from, goal)])
Above(h, at) == [node |-> h[at.node].parent, from |-> h[at.node].index + 1,
                 n |-> Goal(h, at) - Held(h, at.node)]

\* What NthAbove's function is.
AreAbove(h, f) ==
  f = [at \in Climbs(h) |->
         IF Goal(h, at) < Held(h, at.node)
         THEN InChild(h, at.node, at.from, Goal(h, at))
         ELSE IF h[at.node].parent = None THEN NoPlace
         ELSE f[Above(h, at)]]

\* The numbers of a climb.
LEMMA ClimbTypes ==
  ASSUME NEW h, NEW lev, NEW w, NEW after, NEW before, NEW top, NEW total,
         NEW bound, Laid(h, lev, w, after, before, top, total, bound),
         NEW at \in Climbs(h)
  PROVE  /\ at.node \in Allocated(h) /\ IsInternal(h, at.node)
         /\ Goal(h, at) \in Nat /\ PrefixSums(h[at.node].sizes)[at.from] <= Goal(h, at)
         /\ Held(h, at.node) = w[at.node] /\ w[at.node] \in Nat
<1> DEFINE p == at.node
<1>0. Settled(h, lev, w, after, top, total, bound)
  BY DEF Laid
<1>1. p \in Allocated(h) /\ IsInternal(h, p) /\ at.from \in 0..B /\ at.n \in Nat
  BY DEF Climbs, Allocated, IsInternal
<1> HIDE DEF p
<1>2. h[p].sizes \in SizeArray /\ Held(h, p) = w[p] /\ w[p] \in Nat
  BY <1>0, <1>1, SettledAt DEF Held
<1>3. PICK s \in Nat, n \in Nat : s = PrefixSums(h[p].sizes)[at.from] /\ n = at.n
  BY <1>1, <1>2, SumsStep
<1>4. s + n \in Nat /\ s <= s + n
  OBVIOUS
<1> QED
  BY <1>1, <1>2, <1>3, <1>4 DEF p, Goal

\* The step up keeps to internal nodes, and counts on from where it is.
LEMMA ClimbsOn ==
  ASSUME NEW h, NEW lev, NEW w, NEW after, NEW before, NEW top, NEW total,
         NEW bound, Laid(h, lev, w, after, before, top, total, bound),
         NEW at \in Climbs(h), ~ (Goal(h, at) < Held(h, at.node)),
         h[at.node].parent # None
  PROVE  /\ Above(h, at) \in Climbs(h) /\ Above(h, at).node = h[at.node].parent
         /\ lev[Above(h, at).node] = lev[at.node] + 1
         /\ before[Above(h, at).node] + Goal(h, Above(h, at))
              = before[at.node] + Goal(h, at)
<1> DEFINE p == at.node
           q == h[p].parent
           i == h[p].index
           up == Above(h, at)
           sums == PrefixSums(h[q].sizes)
<1>1. /\ p \in Allocated(h) /\ Goal(h, at) \in Nat
      /\ Held(h, p) = w[p] /\ w[p] \in Nat
  BY ClimbTypes
<1>2. Placed(h, lev, w, before, p, q, i)
  BY <1>1, PlacedAt
<1>3. /\ q \in Allocated(h) /\ IsInternal(h, q) /\ lev[q] = lev[p] + 1
      /\ before[p] + w[p] = before[q] + sums[i + 1]
  BY <1>2 DEF Placed
<1>4. i + 1 \in 0..B /\ h[q].sizes \in SizeArray
  BY <1>1, <1>2, CoversUp
<1>5. sums[i + 1] \in Nat /\ before[p] \in Nat /\ before[q] \in Nat
  BY <1>1, <1>3, <1>4, SumsStep, LaidAt
<1>6. PICK g \in Nat, x \in Nat, a \in Nat, b \in Nat, s \in Nat :
        /\ g = Goal(h, at) /\ x = w[p] /\ a = before[p] /\ b = before[q]
        /\ s = sums[i + 1]
  BY <1>1, <1>5, Zenon
<1>7. ~ (g < x) /\ a + x = b + s
  BY <1>1, <1>3, <1>6
<1>8. g - x \in Nat /\ b + (s + (g - x)) = a + g
  BY <1>7
<1>9. up = [node |-> q, from |-> i + 1, n |-> g - x]
  BY <1>1, <1>6 DEF Above
<1>10. q \in Ptr
  BY <1>3 DEF Allocated
<1> HIDE DEF q, i, up, p
<1>11. up \in Climbs(h) /\ up.node = q /\ up.from = i + 1 /\ up.n = g - x
  BY <1>3, <1>4, <1>8, <1>9, <1>10 DEF Climbs
<1>12. Goal(h, up) = s + (g - x)
  BY <1>6, <1>11 DEF Goal
<1> QED
  BY <1>3, <1>6, <1>8, <1>11, <1>12 DEF up, q, p

\* The function NthAbove names exists.
LEMMA AboveExist ==
  ASSUME NEW h, NEW lev, NEW w, NEW after, NEW before, NEW top, NEW total,
         NEW bound, Laid(h, lev, w, after, before, top, total, bound)
  PROVE  \E f : AreAbove(h, f)
<1> DEFINE S == Climbs(h)
           On(at) == ~ (Goal(h, at) < Held(h, at.node)) /\ h[at.node].parent # None
           stops == {at \in S : ~ On(at)}
           next == [at \in S |-> IF at \in stops THEN at ELSE Above(h, at)]
           rank == [at \in S |-> bound - lev[at.node]]
           End(at) == IF Goal(h, at) < Held(h, at.node)
                      THEN InChild(h, at.node, at.from, Goal(h, at)) ELSE NoPlace
           base == [at \in S |-> End(at)]
           V == {End(at) : at \in S}
<1>0. Settled(h, lev, w, after, top, total, bound)
  BY DEF Laid
<1>1. bound \in Nat
  BY <1>0 DEF Settled
<1>2. ASSUME NEW at \in S PROVE lev[at.node] \in 0..bound
  <2>1. at.node \in Allocated(h)
    BY ClimbTypes
  <2>2. lev[at.node] \in Nat /\ lev[at.node] <= bound
    BY <1>0, <2>1, SettledAt
  <2> QED
    BY <1>1, <2>2
<1>3. ASSUME NEW at \in S, at \notin stops
      PROVE  Above(h, at) \in S /\ bound - lev[Above(h, at).node] < bound - lev[at.node]
  <2>1. On(at)
    BY <1>3
  <2>2. Above(h, at) \in S /\ lev[Above(h, at).node] = lev[at.node] + 1
    BY <2>1, ClimbsOn
  <2>3. PICK x \in Nat, y \in Nat : x = lev[at.node] /\ y = lev[Above(h, at).node]
    BY <1>2, <2>2
  <2>4. y = x + 1
    BY <2>2, <2>3
  <2>5. bound - y < bound - x
    BY <1>1, <2>4
  <2> QED
    BY <2>2, <2>3, <2>5
<1> HIDE DEF S
<1>4. \A at \in S : bound - lev[at.node] \in 0..bound
  BY <1>1, <1>2
<1>5. rank \in [S -> 0..bound]
  BY <1>4
<1> HIDE DEF On
<1>6. next \in [S -> S] /\ \A at \in S : at \notin stops => next[at] = Above(h, at)
  BY <1>3
<1>7. \A at \in S : at \in stops \/ rank[next[at]] < rank[at]
  <2> SUFFICES ASSUME NEW at \in S, at \notin stops PROVE rank[next[at]] < rank[at]
    OBVIOUS
  <2>1. next[at] = Above(h, at) /\ Above(h, at) \in S
    BY <1>3, <1>6
  <2>2. rank[at] = bound - lev[at.node]
        /\ rank[Above(h, at)] = bound - lev[Above(h, at).node]
    BY <2>1
  <2> HIDE DEF next, rank, stops
  <2> QED
    BY <1>3, <2>1, <2>2
<1>8. base \in [S -> V] /\ \A at \in S : base[at] = End(at)
  OBVIOUS
<1> HIDE DEF next, rank, base, V
<1>9. IsChain(S, stops, next, rank, bound)
  BY <1>1, <1>5, <1>6, <1>7 DEF IsChain
<1> HIDE DEF stops
<1>10. PICK f \in [S -> V] : Jumps(f, S, stops, next, base)
  BY <1>8, <1>9, JumpFunction
<1>11. \A at \in S : f[at] = IF On(at) THEN f[Above(h, at)] ELSE End(at)
  BY <1>6, <1>8, <1>10 DEF stops, Jumps
<1>12. \A at \in S : f[at] = IF Goal(h, at) < Held(h, at.node)
                             THEN InChild(h, at.node, at.from, Goal(h, at))
                             ELSE IF h[at.node].parent = None THEN NoPlace
                             ELSE f[Above(h, at)]
  BY <1>11, Zenon DEF On
<1>13. f = [at \in S |-> f[at]]
  BY <1>10
<1>14. AreAbove(h, f)
  BY <1>12, <1>13 DEF AreAbove, S
<1> QED
  BY <1>14

\* NthAbove is the step its definition takes.
LEMMA NthAboveStep ==
  ASSUME NEW h, NEW lev, NEW w, NEW after, NEW before, NEW top, NEW total,
         NEW bound, Laid(h, lev, w, after, before, top, total, bound),
         NEW at \in Climbs(h)
  PROVE  NthAbove(h, at.node, at.from, at.n) =
           IF Goal(h, at) < Held(h, at.node)
           THEN InChild(h, at.node, at.from, Goal(h, at))
           ELSE IF h[at.node].parent = None THEN NoPlace
           ELSE NthAbove(h, Above(h, at).node, Above(h, at).from, Above(h, at).n)
<1> DEFINE F == CHOOSE f : AreAbove(h, f)
<1>1. \A p, from, n : NthAbove(h, p, from, n) = F[[node |-> p, from |-> from, n |-> n]]
  BY Zenon DEF NthAbove, AreAbove, Climbs, Goal, Held, Within, InChild, Above
<1>2. AreAbove(h, F)
  BY AboveExist, Zenon
<1> HIDE DEF F
<1>3. F[at] = IF Goal(h, at) < Held(h, at.node)
              THEN InChild(h, at.node, at.from, Goal(h, at))
              ELSE IF h[at.node].parent = None THEN NoPlace
              ELSE F[Above(h, at)]
  BY <1>2 DEF AreAbove
<1>4. at = [node |-> at.node, from |-> at.from, n |-> at.n]
  BY DEF Climbs
<1>5. Above(h, at) = [node |-> Above(h, at).node, from |-> Above(h, at).from,
                      n |-> Above(h, at).n]
  BY DEF Above
<1>6. F[at] = NthAbove(h, at.node, at.from, at.n)
  BY <1>1, <1>4, Zenon
<1>7. F[Above(h, at)] = NthAbove(h, Above(h, at).node, Above(h, at).from, Above(h, at).n)
  BY <1>1, <1>5, Zenon
<1> QED
  BY <1>3, <1>6, <1>7, Zenon

\* `at` is the place of item t of the vector, or no place past its end.
IsAt(h, before, at, t) ==
  /\ at \in Places /\ at.leaf \in Allocated(h) /\ IsLeaf(h, at.leaf)
  /\ at.index < h[at.leaf].length /\ before[at.leaf] + at.index = t
Lands(h, before, total, at, t) ==
  IF t < total THEN IsAt(h, before, at, t) ELSE at = NoPlace

\* The child that the loop of nth stops in.
LEMMA WithinAt ==
  ASSUME NEW h, NEW lev, NEW w, NEW after, NEW before, NEW top, NEW total,
         NEW bound, Laid(h, lev, w, after, before, top, total, bound),
         NEW p \in Allocated(h), IsInternal(h, p), NEW from \in 0..B, NEW goal \in Nat,
         PrefixSums(h[p].sizes)[from] <= goal, goal < Held(h, p)
  PROVE  /\ Within(h, p, from, goal) \in Nat /\ Within(h, p, from, goal) < h[p].length
         /\ PrefixSums(h[p].sizes)[Within(h, p, from, goal)] <= goal
         /\ goal < PrefixSums(h[p].sizes)[Within(h, p, from, goal) + 1]
<1> DEFINE sums == PrefixSums(h[p].sizes)
           c == ChildFor(h, p, goal)
           len == h[p].length
<1>0. Settled(h, lev, w, after, top, total, bound)
  BY DEF Laid
<1>1. h \in Heap /\ p \in Ptr /\ len \in 0..B /\ len >= 1 /\ h[p].sizes \in SizeArray
  BY <1>0, SettledAt
<1>2. len # 0
  BY <1>1
<1>3. /\ c \in 0..(len - 1) /\ sums[c] <= goal
      /\ c = len - 1 \/ goal < sums[c + 1]
  BY <1>1, <1>2, ChildForType
<1>4. goal < sums[len]
  BY DEF Held
<1> HIDE DEF c
<1>5. c \in Nat /\ c + 1 \in 0..B /\ (c = len - 1 => c + 1 = len)
  BY <1>1, <1>3
<1>6. goal < sums[c + 1]
  BY <1>3, <1>4, <1>5
<1>7. from <= c
  <2>1. ASSUME c + 1 <= from PROVE FALSE
    <3>1. sums[c + 1] <= sums[from]
      BY <1>1, <1>5, <2>1, SumsGrow
    <3>2. sums[c + 1] \in Nat /\ sums[from] \in Nat
      BY <1>1, <1>5, SumsStep
    <3>3. sums[from] <= goal
      OBVIOUS
    <3> HIDE DEF sums
    <3> QED
      BY <1>6, <3>1, <3>2, <3>3
  <2> QED
    BY <1>5, <2>1
<1>8. c \in from..(len - 1)
  BY <1>1, <1>3, <1>7
<1> DEFINE k == Within(h, p, from, goal)
<1>9. k \in from..(len - 1) /\ sums[k] <= goal /\ goal < sums[k + 1]
  BY <1>3, <1>6, <1>8 DEF Within
<1> HIDE DEF k, sums
<1>10. k \in Nat /\ k < len
  BY <1>1, <1>9
<1> QED
  BY <1>9, <1>10 DEF k, sums

\* So the place it finds there is the one of the item it looks for.
LEMMA InChildAt ==
  ASSUME NEW h, NEW lev, NEW w, NEW after, NEW before, NEW top, NEW total,
         NEW bound, Laid(h, lev, w, after, before, top, total, bound),
         NEW p \in Allocated(h), IsInternal(h, p), NEW from \in 0..B, NEW goal \in Nat,
         PrefixSums(h[p].sizes)[from] <= goal, goal < Held(h, p)
  PROVE  Lands(h, before, total, InChild(h, p, from, goal), before[p] + goal)
<1> DEFINE k == Within(h, p, from, goal)
           q == h[p].children[k]
           j == goal - PrefixSums(h[p].sizes)[k]
           at == InChild(h, p, from, goal)
<1>0. Settled(h, lev, w, after, top, total, bound)
  BY DEF Laid
<1>1. /\ k \in Nat /\ k < h[p].length /\ PrefixSums(h[p].sizes)[k] <= goal
      /\ goal < PrefixSums(h[p].sizes)[k + 1]
  BY WithinAt
<1>2. Held(h, p) = w[p]
  BY <1>0, SettledAt DEF Held
<1> HIDE DEF k
<1>3. Passes(h, w, before, p, goal, q, j)
  BY <1>1, PassesTo
<1>4. at = LeafFor(h, q, j)
  BY DEF InChild, k
<1> HIDE DEF q, j, at
<1>5. Found(h, w, before, q, j, at)
  BY <1>3, <1>4, LeafForAt DEF Passes
<1>6. before[q] + j = before[p] + goal /\ j < w[q]
  BY <1>2, <1>3 DEF Passes
<1>7. IsAt(h, before, at, before[p] + goal)
  BY <1>5, <1>6 DEF Found, IsAt
<1>8. before[p] + goal < total
  <2>1. PICK a \in Nat, x \in Nat, c \in Nat :
          a = before[p] /\ x = w[p] /\ c = total /\ a + x <= c
    BY LaidAt, WithinTotal
  <2>2. goal < x
    BY <1>2, <2>1
  <2> QED
    BY <2>1, <2>2
<1> QED
  BY <1>7, <1>8 DEF Lands, at

\* The loop of nth lands on the item it looks for, or past the end.
LEMMA NthAboveAt ==
  ASSUME NEW h, NEW lev, NEW w, NEW after, NEW before, NEW top, NEW total,
         NEW bound, Laid(h, lev, w, after, before, top, total, bound)
  PROVE  \A at \in Climbs(h) :
           Lands(h, before, total, NthAbove(h, at.node, at.from, at.n),
                 before[at.node] + Goal(h, at))
<1> DEFINE Good(at) == Lands(h, before, total, NthAbove(h, at.node, at.from, at.n),
                             before[at.node] + Goal(h, at))
           T == {p \in Allocated(h) : \A at \in Climbs(h) : at.node = p => Good(at)}
<1>0. Settled(h, lev, w, after, top, total, bound)
  BY DEF Laid
<1>1. ASSUME NEW at \in Climbs(h), Goal(h, at) < Held(h, at.node) PROVE Good(at)
  <2> DEFINE p == at.node
             from == at.from
             goal == Goal(h, at)
  <2>1. /\ p \in Allocated(h) /\ IsInternal(h, p) /\ from \in 0..B /\ goal \in Nat
        /\ PrefixSums(h[p].sizes)[from] <= goal
    BY ClimbTypes DEF Climbs
  <2>2. goal < Held(h, p)
    BY <1>1
  <2>3. NthAbove(h, p, from, at.n) = InChild(h, p, from, goal)
    BY <1>1, NthAboveStep
  <2> HIDE DEF p, from, goal
  <2>4. Lands(h, before, total, InChild(h, p, from, goal), before[p] + goal)
    BY <2>1, <2>2, InChildAt
  <2> QED
    BY <2>3, <2>4 DEF p, from, goal
<1>2. ASSUME NEW at \in Climbs(h), ~ (Goal(h, at) < Held(h, at.node)),
             h[at.node].parent = None
      PROVE  Good(at)
  <2> DEFINE p == at.node
             goal == Goal(h, at)
  <2>1. p \in Allocated(h) /\ goal \in Nat /\ Held(h, p) = w[p]
    BY ClimbTypes
  <2>2. p = top
    BY <1>0, <1>2, <2>1, SettledAt
  <2>3. before[p] = 0 /\ w[p] = total /\ total \in Nat
    BY <2>1, <2>2, LaidAt
  <2>4. NthAbove(h, p, at.from, at.n) = NoPlace
    BY <1>2, NthAboveStep
  <2>5. ~ (goal < total)
    BY <1>2, <2>1, <2>3
  <2> HIDE DEF p, goal
  <2>6. ~ (before[p] + goal < total)
    BY <2>1, <2>3, <2>5
  <2> QED
    BY <2>4, <2>6 DEF Lands, p, goal
<1>3. ASSUME NEW at \in Climbs(h), ~ (Goal(h, at) < Held(h, at.node)),
             h[at.node].parent # None, h[at.node].parent \in T
      PROVE  Good(at)
  <2> DEFINE up == Above(h, at)
  <2>1. /\ up \in Climbs(h) /\ up.node = h[at.node].parent
        /\ before[up.node] + Goal(h, up) = before[at.node] + Goal(h, at)
    BY <1>3, ClimbsOn
  <2>2. NthAbove(h, at.node, at.from, at.n) = NthAbove(h, up.node, up.from, up.n)
    BY <1>3, NthAboveStep
  <2> HIDE DEF up
  <2>3. Good(up)
    BY <1>3, <2>1
  <2> QED
    BY <2>1, <2>2, <2>3
<1>4. ASSUME top \in Allocated(h) PROVE top \in T
  <2>1. h[top].parent = None
    BY <1>4, LaidAt
  <2> HIDE DEF Good
  <2> QED
    BY <1>1, <1>2, <1>4, <2>1
<1>5. ASSUME NEW p \in Allocated(h), h[p].parent # None, h[p].parent \in T
      PROVE  p \in T
  <2> HIDE DEF Good
  <2>1. ASSUME NEW at \in Climbs(h), at.node = p PROVE Good(at)
    <3>1. h[at.node].parent # None /\ h[at.node].parent \in T
      BY <1>5, <2>1
    <3> HIDE DEF T
    <3> QED
      BY <1>1, <1>3, <3>1
  <2> QED
    BY <2>1
<1>6. \A p \in Allocated(h) : p \in T
  <2> HIDE DEF T
  <2> QED
    BY <1>0, <1>4, <1>5, FromTheTop
<1>7. \A at \in Climbs(h) : at.node \in Allocated(h)
  BY ClimbTypes
<1> HIDE DEF Good
<1>8. \A at \in Climbs(h) : Good(at)
  BY <1>6, <1>7
<1> QED
  BY <1>8 DEF Good

\* nth lands on the item that is n on from the one it is at, or past the end.
LEMMA NthPlaceAt ==
  ASSUME NEW h, NEW lev, NEW w, NEW after, NEW before, NEW top, NEW total,
         NEW bound, Laid(h, lev, w, after, before, top, total, bound), LeavesHold(h),
         NEW leaf \in Allocated(h), IsLeaf(h, leaf), NEW i \in Nat, i <= h[leaf].length,
         NEW n \in Nat
  PROVE  Lands(h, before, total, NthPlace(h, leaf, i, n), (before[leaf] + i) + n)
<1> DEFINE place == NthPlace(h, leaf, i, n)
           q == h[leaf].parent
           ix == h[leaf].index
<1>0. Settled(h, lev, w, after, top, total, bound)
  BY DEF Laid
<1>1. Leads(h, w, before, total, leaf)
  BY LeafLeads
<1>2. PICK a \in Nat, x \in Nat, c \in Nat :
        /\ a = before[leaf] /\ x = w[leaf] /\ x = h[leaf].length /\ c = total
        /\ a + x <= c
  BY <1>1 DEF Leads
<1>3. i <= x /\ x - i \in Nat
  BY <1>2
<1>4. CASE n < x - i
  <2>1. place = Place(leaf, i + n)
    BY <1>2, <1>4 DEF NthPlace
  <2>2. i + n \in Nat /\ i + n < x /\ a + (i + n) = (a + i) + n /\ (a + i) + n < c
    BY <1>2, <1>3, <1>4
  <2>3. leaf \in Ptr
    BY DEF Allocated
  <2>4. place \in Places /\ place.leaf = leaf /\ place.index = i + n
    BY <2>1, <2>2, <2>3 DEF Place, Places
  <2> HIDE DEF place
  <2>5. IsAt(h, before, place, (a + i) + n)
    BY <1>2, <2>2, <2>4 DEF IsAt
  <2> QED
    BY <1>2, <2>2, <2>5 DEF Lands, place
<1>5. CASE ~ (n < x - i) /\ q = None
  <2>1. place = NoPlace
    BY <1>2, <1>5 DEF NthPlace
  <2>2. leaf = top
    BY <1>0, <1>5, SettledAt
  <2>3. a = 0 /\ x = c
    <3>1. leaf \in Allocated(h)
      OBVIOUS
    <3>2. top \in Allocated(h)
      BY <2>2, <3>1
    <3>3. before[top] = 0 /\ w[top] = total
      BY <3>2, LaidAt
    <3> QED
      BY <1>2, <2>2, <3>3
  <2>4. ~ ((a + i) + n < c)
    BY <1>3, <1>5, <2>3
  <2> HIDE DEF place
  <2> QED
    BY <1>2, <2>1, <2>4 DEF Lands, place
<1>6. CASE ~ (n < x - i) /\ q # None
  <2>1. Placed(h, lev, w, before, leaf, q, ix)
    BY <1>6, PlacedAt
  <2>2. /\ q \in Allocated(h) /\ IsInternal(h, q)
        /\ before[leaf] + w[leaf] = before[q] + PrefixSums(h[q].sizes)[ix + 1]
    BY <2>1 DEF Placed
  <2>3. ix + 1 \in 0..B /\ h[q].sizes \in SizeArray
    BY <2>1, CoversUp
  <2> DEFINE at == [node |-> q, from |-> ix + 1, n |-> n - (x - i)]
  <2>4. n - (x - i) \in Nat
    BY <1>3, <1>6
  <2>5. q \in Ptr
    BY <2>2 DEF Allocated
  <2>6. at \in Climbs(h)
    <3> HIDE DEF q, ix
    <3> QED
      BY <2>2, <2>3, <2>4, <2>5 DEF Climbs
  <2>7. place = NthAbove(h, at.node, at.from, at.n)
    BY <1>2, <1>6 DEF NthPlace
  <2>8. PICK b \in Nat, s \in Nat :
          b = before[q] /\ s = PrefixSums(h[q].sizes)[ix + 1]
    BY <2>2, <2>3, SumsStep, LaidAt
  <2>9. Goal(h, at) = s + (n - (x - i))
    BY <2>8 DEF Goal
  <2>10. a + x = b + s
    BY <1>2, <2>2, <2>8
  <2>11. b + (s + (n - (x - i))) = (a + i) + n
    BY <1>3, <2>10
  <2>12. before[at.node] = b
    BY <2>8
  <2> HIDE DEF at, place
  <2>13. Lands(h, before, total, place, before[at.node] + Goal(h, at))
    BY <2>6, <2>7, NthAboveAt
  <2> QED
    BY <1>2, <2>9, <2>11, <2>12, <2>13 DEF place
<1> QED
  BY <1>4, <1>5, <1>6

-----------------------------------------------------------------------------
(***************************************************************************)
(* The vector between two calls.                                           *)
(***************************************************************************)

\* s lists the items of the vector by their places.
Lists(h, before, total, s) ==
  /\ s \in Seq(Item) /\ Len(s) = total
  /\ \A at \in Places, t \in Nat : IsAt(h, before, at, t) =>
       /\ t < total /\ s[t + 1] \in Item
       /\ s[t + 1] = h[at.leaf].children[at.index]

\* The leaf list does.
LEMMA ListItems ==
  ASSUME NEW h, NEW lev, NEW w, NEW after, NEW before, NEW top, NEW total,
         NEW bound, Laid(h, lev, w, after, before, top, total, bound), LeavesHold(h)
  PROVE  Lists(h, before, total, ItemsFrom(h, FirstLeaf(h, top)))
<1> DEFINE first == FirstLeaf(h, top)
           s == ItemsFrom(h, first)
<1>0. Settled(h, lev, w, after, top, total, bound)
  BY DEF Laid
<1>1. top \in Allocated(h) \cup {None}
  BY <1>0 DEF Settled, IsTop
<1>2. CASE top \notin Allocated(h)
  <2>1. top = None /\ total = 0
    BY <1>0, <1>1, <1>2 DEF Settled
  <2>2. s = <<>>
    BY <2>1, FirstLeafAt, ItemsFromAt
  <2>3. s \in Seq(Item) /\ Len(s) = total
    BY <2>1, <2>2, EmptySeq
  <2> DEFINE T == {p \in Allocated(h) : FALSE}
  <2>4. \A p \in Allocated(h) : p \in T
    BY <1>0, <1>2, FromTheTop
  <2>5. \A at \in Places, t \in Nat : ~ IsAt(h, before, at, t)
    BY <2>4 DEF IsAt
  <2> HIDE DEF s
  <2>6. Lists(h, before, total, s)
    BY <2>3, <2>5 DEF Lists
  <2> QED
    BY <2>6 DEF s
<1>3. CASE top \in Allocated(h)
  <2>1. before[top] = 0 /\ total \in Nat
    BY <1>3, LaidAt
  <2>2. first \in Allocated(h) /\ IsLeaf(h, first) /\ before[first] = 0
    BY <1>3, <2>1, FirstLeafAt
  <2> HIDE DEF first
  <2>3. ItemsAfter(h, w, before, total, 0, s)
    BY <2>2, ItemsFromAt
  <2> HIDE DEF s
  <2>4. s \in Seq(Item) /\ Len(s) = total
    BY <2>1, <2>3 DEF ItemsAfter
  <2>5. ASSUME NEW at \in Places, NEW t \in Nat, IsAt(h, before, at, t)
        PROVE  /\ t < total /\ s[t + 1] \in Item
               /\ s[t + 1] = h[at.leaf].children[at.index]
    <3> DEFINE l == at.leaf
    <3>1. /\ l \in Allocated(h) /\ IsLeaf(h, l) /\ at.index \in Nat
          /\ at.index < h[l].length /\ before[l] + at.index = t
      BY <2>5 DEF IsAt, Places
    <3>2. Leads(h, w, before, total, l)
      BY <3>1, LeafLeads
    <3>3. PICK a \in Nat, x \in Nat, i \in Nat :
            a = before[l] /\ x = w[l] /\ x = h[l].length /\ i = at.index /\ a + x <= total
      BY <3>1, <3>2 DEF Leads
    <3>4. i < x /\ a + i = t
      BY <3>1, <3>3
    <3>5. a <= t /\ t < a + x /\ 0 <= t /\ t < total /\ (t - 0) + 1 = t + 1 /\ t - a = i
      BY <2>1, <3>3, <3>4
    <3>6. Covers(w, before, l, t)
      BY <3>3, <3>5 DEF Covers
    <3> HIDE DEF l
    <3>7. s[(t - 0) + 1] = h[l].children[t - before[l]]
      BY <2>3, <3>1, <3>5, <3>6 DEF ItemsAfter
    <3>8. s[t + 1] = h[l].children[at.index]
      BY <3>3, <3>5, <3>7
    <3>9. t + 1 \in 1..Len(s)
      BY <2>1, <2>4, <3>5
    <3>10. s[t + 1] \in Item
      BY <2>4, <3>9, ElementOfSeq
    <3> QED
      BY <3>5, <3>8, <3>10 DEF l
  <2>6. Lists(h, before, total, s)
    BY <2>4, <2>5 DEF Lists
  <2> QED
    BY <2>6 DEF s, first
<1> QED
  BY <1>2, <1>3

\* What an iterator at index i of a leaf has left, by the leaf list.
Rests(h, leaf, i, remaining) ==
  IF leaf = None THEN remaining = 0
  ELSE /\ leaf \in Allocated(h) /\ IsLeaf(h, leaf) /\ i <= h[leaf].length
       /\ remaining = Len(ItemsFrom(h, leaf)) - i

\* The same by the places.
LEMMA RestsAt ==
  ASSUME NEW h, NEW lev, NEW w, NEW after, NEW before, NEW top, NEW total,
         NEW bound, Laid(h, lev, w, after, before, top, total, bound), LeavesHold(h),
         NEW leaf \in Allocated(h), IsLeaf(h, leaf), NEW i \in Nat,
         i <= h[leaf].length, NEW remaining
  PROVE  /\ before[leaf] \in Nat /\ before[leaf] + i <= total
         /\ Rests(h, leaf, i, remaining) <=> remaining = total - (before[leaf] + i)
<1>0. Settled(h, lev, w, after, top, total, bound)
  BY DEF Laid
<1>1. Leads(h, w, before, total, leaf)
  BY LeafLeads
<1>2. PICK a \in Nat, x \in Nat, c \in Nat :
        a = before[leaf] /\ x = w[leaf] /\ x = h[leaf].length /\ c = total /\ a + x <= c
  BY <1>1 DEF Leads
<1>3. ItemsAfter(h, w, before, total, before[leaf], ItemsFrom(h, leaf))
  BY ItemsFromAt
<1>4. Len(ItemsFrom(h, leaf)) = total - before[leaf]
  BY <1>3 DEF ItemsAfter
<1>5. leaf # None
  BY <1>0, SettledAt
<1>6. Rests(h, leaf, i, remaining) <=> remaining = (c - a) - i
  BY <1>2, <1>4, <1>5 DEF Rests
<1>7. (c - a) - i = c - (a + i) /\ a + i <= c
  BY <1>2
<1> QED
  BY <1>2, <1>6, <1>7

-----------------------------------------------------------------------------
(***************************************************************************)
(* The steps of an iterator.                                               *)
(***************************************************************************)

\* The inductive invariant.
IterInv ==
  /\ VectorInv /\ IterTypeOK /\ NoIterPanic
  /\ iter.state = "open" =>
       /\ pc = "idle" /\ iter.remaining <= size
       /\ Rests(heap, iter.leaf, iter.index, iter.remaining)

\* A call that skips n items: it yields the next one if there is one, and the
\* invariant's part about the iterator holds again.
Advances(n) ==
  /\ UNCHANGED vars
  /\ iter' \in Iter /\ iter'.state = "open" /\ yielded' \in Item \cup {None}
  /\ iter'.remaining <= size
  /\ Rests(heap, iter'.leaf, iter'.index, iter'.remaining)
  /\ LET at == size - iter.remaining
     IN  IF at + n < Len(Items)
         THEN yielded' = Items[at + n + 1] /\ size - iter'.remaining = at + n + 1
         ELSE yielded' = None /\ size - iter'.remaining = Len(Items)

\* The end of a call that finds an item.
LEMMA YieldAdvances ==
  ASSUME IterInv, iter.state = "open", UNCHANGED vars, NEW n \in Nat, NEW place,
         NEW lev, NEW w, NEW after, NEW before, NEW bound,
         Laid(heap, lev, w, after, before, root, size, bound), LeavesHold(heap),
         IsAt(heap, before, place, (size - iter.remaining) + n), Yield(place, n + 1)
  PROVE  Advances(n)
<1> DEFINE at == size - iter.remaining
           l == place.leaf
           i == place.index
<1>1. /\ iter \in Iter /\ iter.remaining <= size
  BY DEF IterInv, IterTypeOK
<1>2. iter.remaining \in Nat /\ size \in Nat
  BY <1>1 DEF Iter, IterInv, IterTypeOK, TypeOK
<1>3. PICK r \in Nat, c \in Nat : r = iter.remaining /\ c = size /\ r <= c
  BY <1>1, <1>2
<1>4. Lists(heap, before, size, Items)
  BY ListItems DEF Items
<1>5. /\ place \in Places /\ l \in Allocated(heap) /\ IsLeaf(heap, l) /\ i \in Nat
      /\ i < heap[l].length /\ before[l] + i = (c - r) + n
  BY <1>3 DEF IsAt, Places
<1>6. (c - r) + n \in Nat
  BY <1>3
<1>7. /\ (c - r) + n < c /\ Items[((c - r) + n) + 1] \in Item /\ Len(Items) = c
      /\ Items[((c - r) + n) + 1] = heap[l].children[i]
  <2> DEFINE t == (c - r) + n
  <2>1. IsAt(heap, before, place, t)
    BY <1>3
  <2>2. t \in Nat
    BY <1>6
  <2> HIDE DEF t
  <2>3. t < size /\ Items[t + 1] \in Item /\ Items[t + 1] = heap[l].children[i]
    BY <1>4, <1>5, <2>1, <2>2 DEF Lists
  <2> QED
    BY <1>3, <1>4, <2>3 DEF t, Lists
<1>8. n + 1 <= r /\ r - (n + 1) \in Nat
  BY <1>3, <1>7
<1>9. heap[l].length \in 0..B
  BY <1>5, SettledAt DEF Laid
<1>10. /\ iter' = [state |-> "open", leaf |-> l, index |-> i + 1, remaining |-> r - (n + 1)]
       /\ yielded' = heap[l].children[i]
  <2>1. ~ (n + 1 > iter.remaining \/ i >= heap[l].length)
    BY <1>3, <1>5, <1>8, <1>9
  <2> QED
    BY <1>3, <2>1 DEF Yield
<1>11. l \in PtrOrNone /\ i + 1 \in Nat /\ i + 1 <= heap[l].length
  BY <1>5, <1>9 DEF Allocated, PtrOrNone
<1>12. before[l] \in Nat
  BY <1>5, LaidAt
<1>13. r - (n + 1) = c - (before[l] + (i + 1))
  <2>1. PICK a \in Nat : a = before[l]
    BY <1>12
  <2>2. a + i = (c - r) + n
    BY <1>5, <2>1
  <2> QED
    BY <1>3, <1>5, <2>1, <2>2
<1>14. Rests(heap, l, i + 1, r - (n + 1))
  <2>1. Rests(heap, l, i + 1, r - (n + 1))
           <=> r - (n + 1) = size - (before[l] + (i + 1))
    BY <1>5, <1>11, RestsAt
  <2> QED
    BY <1>3, <1>13, <2>1
<1> HIDE DEF l, i
<1>15. /\ iter' \in Iter /\ iter'.state = "open" /\ iter'.leaf = l
       /\ iter'.index = i + 1 /\ iter'.remaining = r - (n + 1)
  BY <1>8, <1>10, <1>11 DEF Iter
<1>16. c - (r - (n + 1)) = ((c - r) + n) + 1 /\ r - (n + 1) <= c
  BY <1>3, <1>8
<1>17. at + n < Len(Items) /\ yielded' = Items[at + n + 1]
       /\ size - iter'.remaining = at + n + 1
  BY <1>3, <1>7, <1>10, <1>15, <1>16
<1>18. /\ iter' \in Iter /\ iter'.state = "open" /\ yielded' \in Item \cup {None}
       /\ iter'.remaining <= size
       /\ Rests(heap, iter'.leaf, iter'.index, iter'.remaining)
  BY <1>3, <1>7, <1>10, <1>14, <1>15, <1>16
<1> HIDE DEF at
<1> QED
  BY <1>17, <1>18 DEF Advances, at

\* The end of a call that finds none.
LEMMA EndAdvances ==
  ASSUME IterInv, iter.state = "open", UNCHANGED vars, NEW n \in Nat,
         NEW lev, NEW w, NEW after, NEW before, NEW bound,
         Laid(heap, lev, w, after, before, root, size, bound), LeavesHold(heap),
         ~ ((size - iter.remaining) + n < size), yielded' = None,
         iter' \in Iter, iter'.state = "open", iter'.leaf = None, iter'.remaining = 0
  PROVE  Advances(n)
<1> DEFINE at == size - iter.remaining
<1>1. size \in Nat
  BY DEF IterInv, IterTypeOK, TypeOK
<1>2. Lists(heap, before, size, Items)
  BY ListItems DEF Items
<1>3. Len(Items) = size
  BY <1>2 DEF Lists
<1>4. size - iter'.remaining = Len(Items) /\ iter'.remaining <= size
  BY <1>1, <1>3
<1>5. Rests(heap, iter'.leaf, iter'.index, iter'.remaining)
  BY DEF Rests
<1>6. ~ (at + n < Len(Items))
  BY <1>3
<1> HIDE DEF at
<1> QED
  BY <1>4, <1>5, <1>6 DEF Advances, at

\* The iterator's place among the items.
Stands(before) ==
  /\ iter.leaf \in Allocated(heap) /\ IsLeaf(heap, iter.leaf)
  /\ iter.index \in Nat /\ iter.index <= heap[iter.leaf].length
  /\ size - iter.remaining = before[iter.leaf] + iter.index

\* That is where the invariant has it.
LEMMA IterStands ==
  ASSUME IterInv, iter.state = "open", iter.leaf # None,
         NEW lev, NEW w, NEW after, NEW before, NEW bound,
         Laid(heap, lev, w, after, before, root, size, bound), LeavesHold(heap)
  PROVE  Stands(before)
<1>1. /\ Rests(heap, iter.leaf, iter.index, iter.remaining)
      /\ iter.index \in Nat /\ size \in Nat /\ iter.remaining \in Nat
  BY DEF IterInv, IterTypeOK, TypeOK, Iter
<1>2. /\ iter.leaf \in Allocated(heap) /\ IsLeaf(heap, iter.leaf)
      /\ iter.index <= heap[iter.leaf].length
  BY <1>1 DEF Rests
<1>3. /\ before[iter.leaf] \in Nat /\ before[iter.leaf] + iter.index <= size
      /\ iter.remaining = size - (before[iter.leaf] + iter.index)
  BY <1>1, <1>2, RestsAt
<1>4. PICK a \in Nat, i \in Nat, c \in Nat, r \in Nat :
        /\ a = before[iter.leaf] /\ i = iter.index /\ c = size /\ r = iter.remaining
  BY <1>1, <1>3
<1>5. r = c - (a + i)
  BY <1>3, <1>4
<1>6. c - r = a + i
  BY <1>5
<1> QED
  BY <1>1, <1>2, <1>4, <1>6 DEF Stands

\* Iterator::nth.
LEMMA IterNthAdvances ==
  ASSUME IterInv, NEW n \in Nat, IterNth(n),
         NEW lev, NEW w, NEW after, NEW before, NEW bound,
         Laid(heap, lev, w, after, before, root, size, bound), LeavesHold(heap)
  PROVE  Advances(n)
<1> DEFINE place == IF iter.leaf = None THEN NoPlace
                    ELSE NthPlace(heap, iter.leaf, iter.index, n)
<1>1. /\ iter.state = "open" /\ UNCHANGED vars
      /\ IF place = NoPlace
         THEN /\ yielded' = None
              /\ iter' = [iter EXCEPT !.leaf = None, !.remaining = 0]
         ELSE Yield(place, n + 1)
  BY DEF IterNth
<1>2. iter \in Iter /\ size \in Nat /\ iter.remaining \in Nat
  BY DEF IterInv, IterTypeOK, TypeOK, Iter
<1>3. Lands(heap, before, size, place, (size - iter.remaining) + n)
      /\ (place = NoPlace => ~ ((size - iter.remaining) + n < size))
  <2>1. CASE iter.leaf = None
    <3>1. iter.remaining = 0
      BY <1>1, <2>1 DEF IterInv, Rests
    <3>2. ~ ((size - iter.remaining) + n < size)
      BY <1>2, <3>1
    <3> QED
      BY <2>1, <3>2 DEF Lands
  <2>2. CASE iter.leaf # None
    <3>1. Stands(before)
      BY <1>1, <2>2, IterStands
    <3>2. Lands(heap, before, size, place, (before[iter.leaf] + iter.index) + n)
      BY <2>2, <3>1, NthPlaceAt DEF Stands
    <3>3. Lands(heap, before, size, place, (size - iter.remaining) + n)
      BY <3>1, <3>2 DEF Stands
    <3>4. place = NoPlace => ~ IsAt(heap, before, place, (size - iter.remaining) + n)
      <4>1. None \notin Ptr
        OBVIOUS
      <4> QED
        BY <4>1 DEF IsAt, NoPlace, Place, Allocated
    <3> HIDE DEF place
    <3> QED
      BY <3>3, <3>4 DEF Lands
  <2> QED
    BY <2>1, <2>2
<1> HIDE DEF place
<1>4. CASE place = NoPlace
  <2>1. /\ yielded' = None /\ iter' = [iter EXCEPT !.leaf = None, !.remaining = 0]
    BY <1>1, <1>4
  <2>2. /\ iter' \in Iter /\ iter'.state = "open" /\ iter'.leaf = None
        /\ iter'.remaining = 0
    BY <1>1, <1>2, <2>1 DEF Iter, PtrOrNone
  <2>3. ~ ((size - iter.remaining) + n < size)
    BY <1>3, <1>4
  <2> QED
    BY <1>1, <2>1, <2>2, <2>3, EndAdvances
<1>5. CASE place # NoPlace
  <2>1. Yield(place, n + 1)
    BY <1>1, <1>5
  <2>2. IsAt(heap, before, place, (size - iter.remaining) + n)
    BY <1>3, <1>5 DEF Lands
  <2> QED
    BY <1>1, <2>1, <2>2, YieldAdvances
<1> QED
  BY <1>4, <1>5

\* The leaf after another one has an item.
LEMMA NextLeafHolds ==
  ASSUME NEW h, NEW lev, NEW w, NEW after, NEW before, NEW top, NEW total,
         NEW bound, Laid(h, lev, w, after, before, top, total, bound), LeavesHold(h),
         NEW p \in Allocated(h), IsLeaf(h, p), h[p].next # None
  PROVE  IsAt(h, before, Place(h[p].next, 0), before[p] + h[p].length)
<1> DEFINE q == h[p].next
<1>0. Settled(h, lev, w, after, top, total, bound)
  BY DEF Laid
<1>1. Leads(h, w, before, total, p)
  BY LeafLeads
<1>2. /\ q \in Allocated(h) /\ IsLeaf(h, q) /\ before[q] = before[p] + h[p].length
      /\ h[p].length >= 1 /\ h[p].length \in Nat /\ before[p] \in Nat /\ before[q] \in Nat
  BY <1>1 DEF Leads
<1>3. before[q] # 0
  <2>1. PICK a \in Nat, x \in Nat : a = before[p] /\ x = h[p].length
    BY <1>2
  <2> QED
    BY <1>2, <2>1
<1>4. q # top
  BY <1>2, <1>3, LaidAt
<1>5. h[q].parent # None
  BY <1>0, <1>2, <1>4, SettledAt
<1>6. h[q].length >= 1 /\ h[q].length \in 0..B /\ q \in Ptr
  BY <1>0, <1>2, <1>5, SettledAt DEF LeavesHold
<1>7. 0 < h[q].length
  BY <1>6
<1> DEFINE at == Place(q, 0)
<1>8. at \in Places /\ at.leaf = q /\ at.index = 0
  BY <1>6 DEF Place, Places
<1>9. before[q] + 0 = before[p] + h[p].length
  BY <1>2
<1> HIDE DEF q, at
<1>10. IsAt(h, before, at, before[p] + h[p].length)
  BY <1>2, <1>7, <1>8, <1>9 DEF IsAt
<1> QED
  BY <1>10 DEF at, q

\* Iterator::next is nth(0).
LEMMA IterNextAdvances ==
  ASSUME IterInv, IterNext,
         NEW lev, NEW w, NEW after, NEW before, NEW bound,
         Laid(heap, lev, w, after, before, root, size, bound), LeavesHold(heap)
  PROVE  Advances(0)
<1>0. iter.state = "open" /\ UNCHANGED vars
  BY DEF IterNext
<1>1. iter \in Iter /\ size \in Nat /\ iter.remaining \in Nat /\ iter.remaining <= size
  BY <1>0 DEF IterInv, IterTypeOK, TypeOK, Iter
<1>2. (size - iter.remaining) + 0 = size - iter.remaining
      /\ (iter.remaining = 0 => ~ ((size - iter.remaining) + 0 < size))
  BY <1>1
<1>3. CASE iter.leaf = None
  <2>1. yielded' = None /\ iter' = iter
    BY <1>3 DEF IterNext
  <2>2. iter.remaining = 0
    BY <1>0, <1>3 DEF IterInv, Rests
  <2>3. /\ iter' \in Iter /\ iter'.state = "open" /\ iter'.leaf = None
        /\ iter'.remaining = 0
    BY <1>0, <1>1, <1>3, <2>1, <2>2
  <2> QED
    BY <1>0, <1>2, <2>1, <2>2, <2>3, EndAdvances
<1>4. CASE iter.leaf # None
  <2> DEFINE l == iter.leaf
             i == iter.index
  <2>1. Stands(before)
    BY <1>0, <1>4, IterStands
  <2>2. /\ l \in Allocated(heap) /\ IsLeaf(heap, l) /\ i \in Nat /\ i <= heap[l].length
        /\ size - iter.remaining = before[l] + i
    BY <2>1 DEF Stands
  <2>3. heap[l].length \in Nat /\ before[l] \in Nat /\ l \in Ptr
    BY <2>2, LaidAt, SettledAt DEF Laid
  <2>4. CASE i # heap[l].length
    <3> DEFINE at == Place(l, i)
    <3>1. Yield(at, 1)
      BY <1>4, <2>4 DEF IterNext
    <3>2. at \in Places /\ at.leaf = l /\ at.index = i
      BY <2>2, <2>3 DEF Place, Places
    <3>3. i < heap[l].length
      BY <2>2, <2>3, <2>4
    <3> HIDE DEF at, l, i
    <3>4. IsAt(heap, before, at, (size - iter.remaining) + 0)
      BY <1>2, <2>2, <3>2, <3>3 DEF IsAt
    <3>5. Yield(at, 0 + 1)
      BY <3>1
    <3> QED
      BY <1>0, <3>4, <3>5, YieldAdvances
  <2>5. CASE i = heap[l].length /\ heap[l].next = None
    <3>1. yielded' = None /\ iter' = [iter EXCEPT !.leaf = None]
      BY <1>4, <2>5 DEF IterNext
    <3>2. Leads(heap, w, before, size, l)
      BY <2>2, LeafLeads
    <3>3. before[l] + i = size
      BY <2>5, <3>2 DEF Leads
    <3>4. iter.remaining = 0
      BY <1>1, <2>2, <3>3
    <3>5. /\ iter' \in Iter /\ iter'.state = "open" /\ iter'.leaf = None
          /\ iter'.remaining = 0
      BY <1>0, <1>1, <3>1, <3>4 DEF Iter, PtrOrNone
    <3> QED
      BY <1>0, <1>2, <3>1, <3>4, <3>5, EndAdvances
  <2>6. CASE i = heap[l].length /\ heap[l].next # None
    <3> DEFINE at == Place(heap[l].next, 0)
    <3>1. Yield(at, 1)
      BY <1>4, <2>6 DEF IterNext
    <3>2. IsAt(heap, before, at, before[l] + heap[l].length)
      BY <2>2, <2>6, NextLeafHolds
    <3> HIDE DEF at
    <3>3. IsAt(heap, before, at, (size - iter.remaining) + 0)
      BY <1>2, <2>2, <2>6, <3>2
    <3>4. Yield(at, 0 + 1)
      BY <3>1
    <3> QED
      BY <1>0, <3>3, <3>4, YieldAdvances
  <2> QED
    BY <2>4, <2>5, <2>6
<1> QED
  BY <1>3, <1>4

-----------------------------------------------------------------------------
(***************************************************************************)
(* The invariant.                                                          *)
(***************************************************************************)

\* The empty vector without an iterator.
LEMMA InitIterInv == IterInit => IterInv
<1> SUFFICES ASSUME IterInit PROVE IterInv
  OBVIOUS
<1>1. Init /\ iter = NoIter /\ yielded = None
  BY DEF IterInit
<1>2. VectorInv
  BY <1>1, InitTypeInv, InitTreeInv, InitSizes, InitOrder, InitFilled, InitFiniteInv
     DEF VectorInv, VecInv
<1>3. TypeOK
  BY <1>2 DEF VectorInv, VecInv, TypeInv
<1>4. iter \in Iter /\ iter.state = "closed" /\ yielded \in Item \cup {None}
  BY <1>1 DEF NoIter, Iter, PtrOrNone
<1> QED
  BY <1>2, <1>3, <1>4 DEF IterInv, IterTypeOK, NoIterPanic

\* A call that skips items keeps the invariant.
LEMMA AdvancesKeepsInv ==
  ASSUME IterInv, iter.state = "open", NEW n \in Nat, Advances(n), VectorInv'
  PROVE  IterInv'
<1>1. /\ pc = "idle" /\ UNCHANGED vars
      /\ iter' \in Iter /\ iter'.state = "open" /\ yielded' \in Item \cup {None}
      /\ iter'.remaining <= size
      /\ Rests(heap, iter'.leaf, iter'.index, iter'.remaining)
  BY DEF IterInv, Advances
<1>2. pc' = pc /\ size' = size /\ heap' = heap
  BY <1>1 DEF vars
<1>3. TypeOK'
  BY DEF VectorInv, VecInv, TypeInv
<1>4. Rests(heap', iter'.leaf, iter'.index, iter'.remaining)
  BY <1>1, <1>2
<1> QED
  BY <1>1, <1>2, <1>3, <1>4 DEF IterInv, IterTypeOK, NoIterPanic

\* A new iterator is at the first item.
LEMMA OpenIterRests ==
  ASSUME IterInv, OpenIter,
         NEW lev, NEW w, NEW after, NEW before, NEW bound,
         Laid(heap, lev, w, after, before, root, size, bound), LeavesHold(heap)
  PROVE  /\ iter' \in Iter /\ iter'.state = "open" /\ iter'.remaining = size
         /\ Rests(heap, iter'.leaf, iter'.index, iter'.remaining)
<1> DEFINE leaf == IF root = None THEN None ELSE LeafFor(heap, root, 0).leaf
<1>1. iter' = [state |-> "open", leaf |-> leaf, index |-> 0, remaining |-> size]
  BY DEF OpenIter
<1>2. size \in Nat /\ (root = None => size = 0)
  BY DEF IterInv, VectorInv, VecInv, TypeInv, TypeOK, CallOK
<1>3. root \in Allocated(heap) \cup {None}
  BY DEF Laid, Settled, IsTop
<1>4. leaf \in PtrOrNone /\ Rests(heap, leaf, 0, size)
  <2>1. CASE root = None
    BY <1>2, <2>1 DEF Rests, PtrOrNone
  <2>2. CASE root # None
    <3> DEFINE at == LeafFor(heap, root, 0)
    <3>1. root \in Allocated(heap) /\ 0 \in Nat
      BY <1>3, <2>2
    <3>2. before[root] = 0
      BY <3>1, LaidAt
    <3>3. Found(heap, w, before, root, 0, at)
      BY <3>1, LeafForAt
    <3>4. leaf = at.leaf
      BY <2>2
    <3> HIDE DEF at, leaf
    <3>5. /\ leaf \in Allocated(heap) /\ IsLeaf(heap, leaf) /\ at.index \in Nat
          /\ before[leaf] + at.index = 0
      BY <3>2, <3>3, <3>4 DEF Found, Places
    <3>6. before[leaf] \in Nat /\ heap[leaf].length \in 0..B /\ leaf \in Ptr
      BY <3>5, LaidAt, SettledAt DEF Laid
    <3>7. before[leaf] = 0 /\ 0 <= heap[leaf].length
      BY <3>5, <3>6
    <3>8. Rests(heap, leaf, 0, size) <=> size = size - (before[leaf] + 0)
      BY <3>5, <3>7, RestsAt
    <3> QED
      BY <1>2, <3>6, <3>7, <3>8 DEF PtrOrNone
  <2> QED
    BY <2>1, <2>2
<1> HIDE DEF leaf
<1>5. /\ iter' \in Iter /\ iter'.state = "open" /\ iter'.leaf = leaf
      /\ iter'.index = 0 /\ iter'.remaining = size
  BY <1>1, <1>2, <1>4 DEF Iter
<1> QED
  BY <1>4, <1>5

\* Every step keeps the invariant.
LEMMA NextIterInv ==
  ASSUME B >= 4
  PROVE  IterInv /\ [IterNextState]_<<vars, itervars>> => IterInv'
<1> SUFFICES ASSUME IterInv, [IterNextState]_<<vars, itervars>> PROVE IterInv'
  OBVIOUS
<1>1. [Next]_vars
  BY DEF IterNextState, OpenIter, CloseIter, IterNext, IterNth
<1>2. VectorInv /\ VectorInv'
  BY <1>1, NextVectorInv DEF IterInv
<1>3. TypeOK'
  BY <1>2 DEF VectorInv, VecInv, TypeInv
<1>4. CASE iter.state = "closed" /\ Next /\ UNCHANGED itervars
  BY <1>2, <1>3, <1>4 DEF IterInv, IterTypeOK, NoIterPanic, itervars
<1>5. CASE OpenIter
  <2>1. pc = "idle" /\ UNCHANGED vars /\ yielded' = None
    BY <1>5 DEF OpenIter
  <2>2. HasPlaces(heap, root, size) /\ LeavesHold(heap)
    BY <1>2, <2>1, IdleLaid
  <2>3. PICK lev, w, after, before, bound :
          Laid(heap, lev, w, after, before, root, size, bound)
    BY <2>2 DEF HasPlaces
  <2>4. /\ iter' \in Iter /\ iter'.state = "open" /\ iter'.remaining = size
        /\ Rests(heap, iter'.leaf, iter'.index, iter'.remaining)
    BY <1>5, <2>2, <2>3, OpenIterRests
  <2>5. pc' = pc /\ size' = size /\ heap' = heap /\ size \in Nat
    BY <2>1 DEF vars, IterInv, IterTypeOK, TypeOK
  <2>6. Rests(heap', iter'.leaf, iter'.index, iter'.remaining)
    BY <2>4, <2>5
  <2>7. (iter.remaining <= size)' /\ (pc = "idle")' /\ yielded' \in Item \cup {None}
    BY <2>1, <2>4, <2>5
  <2> QED
    BY <1>2, <1>3, <2>4, <2>6, <2>7 DEF IterInv, IterTypeOK, NoIterPanic
<1>6. CASE CloseIter
  <2>1. iter' = NoIter /\ yielded' = None
    BY <1>6 DEF CloseIter
  <2>2. iter' \in Iter /\ iter'.state = "closed" /\ yielded' \in Item \cup {None}
    BY <2>1 DEF NoIter, Iter, PtrOrNone
  <2> QED
    BY <1>2, <1>3, <2>2 DEF IterInv, IterTypeOK, NoIterPanic
<1>7. ASSUME iter.state = "open", NEW n \in Nat, IterNth(n) \/ (n = 0 /\ IterNext)
      PROVE  IterInv'
  <2>1. HasPlaces(heap, root, size) /\ LeavesHold(heap)
    BY <1>2, <1>7, IdleLaid DEF IterInv
  <2>2. PICK lev, w, after, before, bound :
          Laid(heap, lev, w, after, before, root, size, bound)
    BY <2>1 DEF HasPlaces
  <2>3. Advances(n)
    BY <1>7, <2>1, <2>2, IterNthAdvances, IterNextAdvances
  <2> QED
    BY <1>2, <1>7, <2>3, AdvancesKeepsInv
<1>8. CASE IterNext
  <2>1. iter.state = "open" /\ 0 \in Nat
    BY <1>8 DEF IterNext
  <2> QED
    BY <1>7, <1>8, <2>1
<1>9. CASE \E n \in 0..MaxSkip : IterNth(n)
  <2>1. PICK n \in 0..MaxSkip : IterNth(n)
    BY <1>9
  <2>2. n \in Nat /\ iter.state = "open"
    BY <2>1, MaxSkipAssumption DEF IterNth
  <2> QED
    BY <1>7, <2>1, <2>2
<1>10. CASE UNCHANGED <<vars, itervars>>
  <2>1. iter' = iter /\ yielded' = yielded /\ pc' = pc /\ size' = size /\ heap' = heap
    BY <1>10 DEF vars, itervars
  <2>2. Rests(heap, iter.leaf, iter.index, iter.remaining)
          => Rests(heap', iter'.leaf, iter'.index, iter'.remaining)
    BY <2>1
  <2> QED
    BY <1>2, <1>3, <2>1, <2>2 DEF IterInv, IterTypeOK, NoIterPanic
<1> QED
  BY <1>4, <1>5, <1>6, <1>8, <1>9, <1>10 DEF IterNextState

-----------------------------------------------------------------------------
(***************************************************************************)
(* The theorems.                                                           *)
(***************************************************************************)

\* IterInv is an invariant of the iterator's specification.
LEMMA AlwaysIterInv ==
  ASSUME B >= 4
  PROVE  IterSpecification => []IterInv
<1>1. IterInit => IterInv
  BY InitIterInv
<1>2. IterInv /\ [IterNextState]_<<vars, itervars>> => IterInv'
  BY NextIterInv
<1> QED
  BY <1>1, <1>2, PTL DEF IterSpecification

\* The fields of Iter and IterMut keep their types.
THEOREM IterTypeCorrect ==
  ASSUME B >= 4
  PROVE  IterSpecification => []IterTypeOK
<1>1. IterInv => IterTypeOK
  BY DEF IterInv
<1> QED
  BY <1>1, AlwaysIterInv, PTL

\* next and nth never panic: no subtraction from `remaining` underflows and the
\* leaf they come to has the item they index, from the B of at least 4 on.
THEOREM IterNeverPanics ==
  ASSUME B >= 4
  PROVE  IterSpecification => []NoIterPanic
<1>1. IterInv => NoIterPanic
  BY DEF IterInv
<1> QED
  BY <1>1, AlwaysIterInv, PTL

\* What an iterator has left by `remaining` is what the leaf list holds from its
\* place on.
THEOREM IterPlaced ==
  ASSUME B >= 4
  PROVE  IterSpecification => []IterPlaceExact
<1>1. IterInv => IterPlaceExact
  BY DEF IterInv, IterPlaceExact, Rests
<1> QED
  BY <1>1, AlwaysIterInv, PTL

\* The vector that iterators refine starts empty.
LEMMA InitRefines ==
  ASSUME B >= 4
  PROVE  IterInit => It!Init
<1> SUFFICES ASSUME IterInit PROVE It!Init
  OBVIOUS
<1>1. Init /\ iter = NoIter /\ yielded = None /\ pc = "idle" /\ size = 0
  BY DEF IterInit, Init
<1>2. VectorInv
  BY InitIterInv DEF IterInv
<1>3. HasPlaces(heap, root, size) /\ LeavesHold(heap)
  BY <1>1, <1>2, IdleLaid
<1>4. PICK lev, w, after, before, bound :
        Laid(heap, lev, w, after, before, root, size, bound)
  BY <1>3 DEF HasPlaces
<1>5. Lists(heap, before, size, Items)
  BY <1>3, <1>4, ListItems DEF Items
<1>6. Items \in Seq(Item) /\ Len(Items) = 0
  BY <1>1, <1>5 DEF Lists
<1>7. Items = <<>>
  BY <1>6, EmptySeq
<1> QED
  BY <1>1, <1>7 DEF It!Init, NoIter

\* The steps of the vector, and those of an iterator, are steps of the abstract
\* iterator.
LEMMA StepRefines ==
  ASSUME B >= 4
  PROVE  IterInv /\ [IterNextState]_<<vars, itervars>> => [It!Next]_(It!itervars)
<1> SUFFICES ASSUME IterInv, [IterNextState]_<<vars, itervars>>
             PROVE  [It!Next]_(It!itervars)
  OBVIOUS
<1>1. UNCHANGED vars => Items' = Items /\ size' = size
  BY DEF vars, Items
<1>2. CASE iter.state = "closed" /\ Next /\ UNCHANGED itervars
  <2>1. ~ (iter.state = "open") /\ iter' = iter /\ yielded' = yielded
    BY <1>2 DEF itervars
  <2>2. It!Change
    BY <2>1 DEF It!Change
  <2> QED
    BY <2>2 DEF It!Next
<1>3. CASE OpenIter
  <2>1. /\ pc = "idle" /\ iter.state = "closed" /\ UNCHANGED vars /\ yielded' = None
    BY <1>3 DEF OpenIter
  <2>2. HasPlaces(heap, root, size) /\ LeavesHold(heap)
    BY <2>1, IdleLaid DEF IterInv
  <2>3. PICK lev, w, after, before, bound :
          Laid(heap, lev, w, after, before, root, size, bound)
    BY <2>2 DEF HasPlaces
  <2>4. iter'.state = "open" /\ iter'.remaining = size
    BY <1>3, <2>2, <2>3, OpenIterRests
  <2>5. size \in Nat
    BY DEF IterInv, IterTypeOK, TypeOK
  <2>6. size' - iter'.remaining = 0
    BY <1>1, <2>1, <2>4, <2>5
  <2>7. It!Open
    BY <1>1, <2>1, <2>4, <2>6 DEF It!Open
  <2> QED
    BY <2>7 DEF It!Next
<1>4. CASE CloseIter
  <2>1. iter.state = "open" /\ iter' = NoIter /\ yielded' = None /\ UNCHANGED vars
    BY <1>4 DEF CloseIter
  <2>2. It!Close
    BY <1>1, <2>1 DEF It!Close, NoIter
  <2> QED
    BY <2>2 DEF It!Next
<1>5. ASSUME iter.state = "open", NEW n \in 0..MaxSkip, IterNth(n) \/ (n = 0 /\ IterNext)
      PROVE  It!Next
  <2>1. HasPlaces(heap, root, size) /\ LeavesHold(heap) /\ n \in Nat
    BY <1>5, IdleLaid, MaxSkipAssumption DEF IterInv
  <2>2. PICK lev, w, after, before, bound :
          Laid(heap, lev, w, after, before, root, size, bound)
    BY <2>1 DEF HasPlaces
  <2>3. Advances(n)
    BY <1>5, <2>1, <2>2, IterNthAdvances, IterNextAdvances
  <2>4. /\ Items' = Items /\ size' = size /\ iter'.state = "open"
        /\ IF (size - iter.remaining) + n < Len(Items)
           THEN /\ yielded' = Items[(size - iter.remaining) + n + 1]
                /\ size - iter'.remaining = (size - iter.remaining) + n + 1
           ELSE yielded' = None /\ size - iter'.remaining = Len(Items)
    BY <1>1, <2>3 DEF Advances
  <2>5. CASE (size - iter.remaining) + n < Len(Items)
    <3>1. It!Nth(n)
      BY <1>5, <2>4, <2>5 DEF It!Nth
    <3> QED
      BY <1>5, <3>1 DEF It!Next
  <2>6. CASE ~ ((size - iter.remaining) + n < Len(Items))
    <3>1. (size - iter.remaining) + n >= Len(Items)
      <4>1. size \in Nat /\ iter.remaining \in Nat
        BY DEF IterInv, IterTypeOK, TypeOK, Iter
      <4>2. Lists(heap, before, size, Items)
        BY <2>1, <2>2, ListItems DEF Items
      <4>3. Len(Items) = size
        BY <4>2 DEF Lists
      <4> QED
        BY <2>1, <2>6, <4>1, <4>3
    <3>2. It!Nth(n)
      BY <1>5, <2>4, <2>6, <3>1 DEF It!Nth
    <3> QED
      BY <1>5, <3>2 DEF It!Next
  <2> QED
    BY <2>5, <2>6
<1>6. CASE IterNext
  <2>1. iter.state = "open" /\ 0 \in 0..MaxSkip
    BY <1>6, MaxSkipAssumption DEF IterNext
  <2> QED
    BY <1>5, <1>6, <2>1
<1>7. CASE \E n \in 0..MaxSkip : IterNth(n)
  <2>1. PICK n \in 0..MaxSkip : IterNth(n)
    BY <1>7
  <2>2. iter.state = "open"
    BY <2>1 DEF IterNth
  <2> QED
    BY <1>5, <2>1, <2>2
<1>8. CASE UNCHANGED <<vars, itervars>>
  <2>1. iter' = iter /\ yielded' = yielded /\ UNCHANGED vars
    BY <1>8 DEF itervars
  <2> QED
    BY <1>1, <2>1 DEF It!itervars
<1> QED
  BY <1>2, <1>3, <1>4, <1>6, <1>7, <1>8 DEF IterNextState

\* next yields every item once and in order and nth skips what its doc says,
\* along the leaf list or up and down the tree, and then both return None.
THEOREM IterImplements ==
  ASSUME B >= 4
  PROVE  IterSpecification => ImplementsIter
<1>1. IterInit => It!Init
  BY InitRefines
<1>2. IterInv /\ [IterNextState]_<<vars, itervars>> => [It!Next]_(It!itervars)
  BY StepRefines
<1> QED
  BY <1>1, <1>2, AlwaysIterInv, PTL DEF IterSpecification, ImplementsIter, It!Spec
=============================================================================
