----------------------- MODULE BTreeRefinementProofs -----------------------
(***************************************************************************)
(* BTreeVec implements VecSpec: the items of its leaves, in the order of   *)
(* the leaf list, are the sequence that the calls on a vector read and     *)
(* change.  Each climb leaves them alone, and the step of a call at a leaf *)
(* inserts, removes, reads or replaces the one item of its index, for      *)
(* every B >= 3, every set of items and addresses and every bound MaxSize. *)
(***************************************************************************)
EXTENDS BTreeRefinement, BTreeShapeProofs

-----------------------------------------------------------------------------
(***************************************************************************)
(* Sequences.                                                              *)
(***************************************************************************)

\* The places of two sequences in a row.
LEMMA JoinPlaces ==
  ASSUME NEW a \in Seq(Item), NEW b \in Seq(Item)
  PROVE  /\ a \o b \in Seq(Item) /\ Len(a \o b) = Len(a) + Len(b)
         /\ \A k \in 1..(Len(a) + Len(b)) :
              (a \o b)[k] = IF k <= Len(a) THEN a[k] ELSE b[k - Len(a)]
  OBVIOUS

\* c is the one sequence and then the other.
Joins(c, a, b) ==
  /\ c \in Seq(Item) /\ c = a \o b /\ Len(c) = Len(a) + Len(b)
  /\ \A k \in 1..(Len(a) + Len(b)) :
       c[k] = IF k <= Len(a) THEN a[k] ELSE b[k - Len(a)]

\* The concatenation of two sequences is the one and then the other.
LEMMA JoinOf ==
  ASSUME NEW a \in Seq(Item), NEW b \in Seq(Item)
  PROVE  Joins(a \o b, a, b)
BY JoinPlaces DEF Joins

\* The sequence of one item.
LEMMA Single ==
  ASSUME NEW x \in Item
  PROVE  \E s : s \in Seq(Item) /\ s = <<x>> /\ Len(s) = 1 /\ s[1] = x
<1>1. <<x>> \in Seq(Item) /\ Len(<<x>>) = 1 /\ <<x>>[1] = x
  OBVIOUS
<1> QED
  BY <1>1

\* Three sequences joined in one order or the other are the same.
LEMMA JoinOrder ==
  ASSUME NEW a \in Seq(Item), NEW b \in Seq(Item), NEW c \in Seq(Item)
  PROVE  (a \o b) \o c = a \o (b \o c)
BY ConcatAssociative

\* Sequences of one length that agree are one.
LEMMA SameSeq ==
  ASSUME NEW a \in Seq(Item), NEW b \in Seq(Item), Len(a) = Len(b),
         \A k \in 1..Len(a) : a[k] = b[k]
  PROVE  a = b
  OBVIOUS

\* What is before, between and behind the parts of a sequence of two parts.
LEMMA TwoParts ==
  ASSUME NEW p \in Seq(Item), NEW q \in Seq(Item)
  PROVE  /\ SubSeq(p \o q, 1, Len(p)) = p
         /\ SubSeq(p \o q, Len(p) + 1, Len(p \o q)) = q
<1> DEFINE v == p \o q
           n == Len(p)
           m == Len(q)
           a == SubSeq(v, 1, n)
           b == SubSeq(v, n + 1, n + m)
<1>1. n \in Nat /\ m \in Nat
  OBVIOUS
<1>2. v \in Seq(Item) /\ Len(v) = n + m
      /\ \A k \in 1..(n + m) : v[k] = IF k <= n THEN p[k] ELSE q[k - n]
  BY JoinPlaces
<1> HIDE DEF v
<1>3. a \in Seq(Item) /\ Len(a) = n /\ \A k \in 1..n : a[k] = v[k]
  BY <1>1, <1>2
<1>4. \A k \in 1..n : v[k] = p[k]
  BY <1>1, <1>2
<1>5. a = p
  <2> HIDE DEF a
  <2> QED
    BY <1>3, <1>4, SameSeq
<1>6. b \in Seq(Item) /\ Len(b) = m /\ \A k \in 1..m : b[k] = v[n + k]
  <2> HIDE DEF n, m
  <2> QED
    BY <1>1, <1>2
<1>7. \A k \in 1..m : v[n + k] = q[k]
  <2> HIDE DEF n, m
  <2> TAKE k \in 1..m
  <2>1. n + k \in 1..(n + m) /\ ~ (n + k <= n) /\ (n + k) - n = k
    BY <1>1
  <2>2. v[n + k] = q[(n + k) - n]
    BY <1>2, <2>1
  <2> QED
    BY <2>1, <2>2
<1>8. b = q
  <2> HIDE DEF b
  <2> QED
    BY <1>6, <1>7, SameSeq
<1> QED
  BY <1>2, <1>5, <1>8 DEF v

\* What the places of a sequence of two parts hold.
LEMMA JoinAt ==
  ASSUME NEW a \in Seq(Item), NEW b \in Seq(Item), NEW e, e = a \o b,
         NEW n \in Nat, n = Len(a), NEW m \in Nat, m = Len(b)
  PROVE  /\ e \in Seq(Item) /\ Len(e) = n + m
         /\ \A k \in 1..n : e[k] = a[k]
         /\ \A k \in 1..m : e[n + k] = b[k]
<1>1. /\ e \in Seq(Item) /\ Len(e) = n + m
      /\ \A k \in 1..(n + m) : e[k] = IF k <= n THEN a[k] ELSE b[k - n]
  BY JoinPlaces
<1>2. \A k \in 1..n : k \in 1..(n + m) /\ k <= n
  OBVIOUS
<1>3. \A k \in 1..m : n + k \in 1..(n + m) /\ ~ (n + k <= n) /\ (n + k) - n = k
  OBVIOUS
<1> QED
  BY <1>1, <1>2, <1>3

\* v is p, then y, then q.
InParts(v, p, y, q) ==
  /\ SubSeq(v, 1, Len(p)) = p /\ SubSeq(v, Len(p) + 2, Len(v)) = q
  /\ v[Len(p) + 1] = y /\ v \in Seq(Item)
  /\ Len(v) = Len(p) + 1 + Len(q)

\* What the places of a sequence hold whose parts are one, an item and another.
LEMMA ThreeParts ==
  ASSUME NEW p \in Seq(Item), NEW q \in Seq(Item), NEW y \in Item
  PROVE  InParts((p \o <<y>>) \o q, p, y, q)
<1> DEFINE v == (p \o <<y>>) \o q
<1>20. PICK n \in Nat : n = Len(p)
  OBVIOUS
<1>21. PICK m \in Nat : m = Len(q)
  OBVIOUS
<1>1. PICK s : s \in Seq(Item) /\ s = <<y>> /\ Len(s) = 1 /\ s[1] = y
  BY Single
<1>2. PICK c : c = p \o s
  OBVIOUS
<1>3. PICK d : d = s \o q
  OBVIOUS
<1>4. c \in Seq(Item) /\ Len(c) = n + 1 /\ c[n + 1] = s[1]
  <2>1. 1 \in 1..1
    OBVIOUS
  <2> QED
    BY <1>1, <1>2, <1>20, <2>1, JoinAt
<1>5. d \in Seq(Item)
  BY <1>1, <1>3, JoinPlaces
<1>6. v = c \o q
  BY <1>1, <1>2
<1> HIDE DEF v
<1>7. v = p \o d
  <2>1. (p \o s) \o q = p \o (s \o q)
    BY <1>1, JoinOrder
  <2> QED
    BY <1>2, <1>3, <1>6, <2>1
<1>8. v \in Seq(Item) /\ Len(v) = n + 1 + m /\ v[n + 1] = c[n + 1]
  <2>1. PICK l \in Nat : l = n + 1 /\ n + 1 \in 1..l
    OBVIOUS
  <2>3. l = Len(c)
    BY <1>4, <2>1
  <2>7. Joins(c \o q, c, q)
    BY <1>4, JoinOf, Zenon
  <2>4. Joins(v, c, q)
    BY <1>6, <2>7
  <2>5. /\ v \in Seq(Item) /\ Len(v) = l + m
        /\ \A k \in 1..(l + m) : v[k] = IF k <= l THEN c[k] ELSE q[k - l]
    BY <1>21, <2>3, <2>4, Zenon DEF Joins
  <2>6. n + 1 \in 1..(l + m) /\ n + 1 <= l
    BY <2>1
  <2> QED
    BY <2>1, <2>5, <2>6
<1>9. SubSeq(p \o d, 1, Len(p)) = p
  BY <1>5, TwoParts, Zenon
<1>10. SubSeq(c \o q, Len(c) + 1, Len(c \o q)) = q
  BY <1>4, TwoParts, Zenon
<1>11. SubSeq(v, 1, n) = p
  BY <1>7, <1>9, <1>20
<1>12. SubSeq(v, n + 2, n + 1 + m) = q
  <2>1. Len(c) + 1 = n + 2
    BY <1>4
  <2>2. Len(c \o q) = n + 1 + m
    BY <1>6, <1>8
  <2> QED
    BY <1>6, <1>10, <2>1, <2>2, Zenon
<1>13. InParts(v, p, y, q)
  BY <1>1, <1>4, <1>8, <1>11, <1>12, <1>20, <1>21, Zenon DEF InParts
<1> QED
  BY <1>13 DEF v

\* The four sequences make one, in either order.
Fours(u, p, q, w) == u \o ((p \o q) \o w) = (u \o p) \o (q \o w)

\* So do these five.
Fives(u, p, s, q, w) ==
  u \o (((p \o s) \o q) \o w) = ((u \o p) \o s) \o (q \o w)

\* Four sequences joined in one order or the other.
LEMMA JoinFour ==
  ASSUME NEW u \in Seq(Item), NEW p \in Seq(Item), NEW q \in Seq(Item),
         NEW w \in Seq(Item)
  PROVE  Fours(u, p, q, w)
<1> DEFINE S == Seq(Item)
           C(x, y) == x \o y
<1>1. \A x, y, z \in S : C(C(x, y), z) = C(x, C(y, z))
  BY JoinOrder
<1>2. \A x, y \in S : C(x, y) \in S
  OBVIOUS
<1>3. u \in S /\ p \in S /\ q \in S /\ w \in S
  OBVIOUS
<1> SUFFICES C(u, C(C(p, q), w)) = C(C(u, p), C(q, w))
  BY DEF Fours
<1> HIDE DEF S, C
<1> QED
  BY <1>1, <1>2, <1>3

\* Five sequences joined in one order or the other.
LEMMA JoinFive ==
  ASSUME NEW u \in Seq(Item), NEW p \in Seq(Item), NEW q \in Seq(Item),
         NEW w \in Seq(Item), NEW s \in Seq(Item)
  PROVE  Fives(u, p, s, q, w)
<1> DEFINE S == Seq(Item)
           C(x, y) == x \o y
<1>1. \A x, y, z \in S : C(C(x, y), z) = C(x, C(y, z))
  BY JoinOrder
<1>2. \A x, y \in S : C(x, y) \in S
  OBVIOUS
<1>3. u \in S /\ p \in S /\ q \in S /\ w \in S /\ s \in S
  OBVIOUS
<1> SUFFICES C(u, C(C(C(p, s), q), w)) = C(C(C(u, p), s), C(q, w))
  BY DEF Fives
<1> HIDE DEF S, C
<1> QED
  BY <1>1, <1>2, <1>3

\* a is what is before the place behind p, b what is behind it.
Around(u, p, q, w, a, b) ==
  /\ a \in Seq(Item) /\ b \in Seq(Item)
  /\ Len(a) = Len(u) + Len(p)
  /\ u \o ((p \o q) \o w) = a \o b
  /\ \A x \in Item : u \o (((p \o <<x>>) \o q) \o w) = (a \o <<x>>) \o b

\* What is before an item in the middle and what is behind it.
LEMMA AroundIt ==
  ASSUME NEW u \in Seq(Item), NEW p \in Seq(Item), NEW q \in Seq(Item),
         NEW w \in Seq(Item)
  PROVE  Around(u, p, q, w, u \o p, q \o w)
<1>1. u \o p \in Seq(Item) /\ Len(u \o p) = Len(u) + Len(p)
  BY JoinPlaces
<1>4. q \o w \in Seq(Item)
  BY JoinPlaces
<1>2. u \o ((p \o q) \o w) = (u \o p) \o (q \o w)
  <2>1. Fours(u, p, q, w)
    BY JoinFour, Zenon
  <2> QED
    BY <2>1, Zenon DEF Fours
<1>3. ASSUME NEW x \in Item
      PROVE  u \o (((p \o <<x>>) \o q) \o w) = ((u \o p) \o <<x>>) \o (q \o w)
  <2>1. <<x>> \in Seq(Item)
    OBVIOUS
  <2> QED
    <3>1. Fives(u, p, <<x>>, q, w)
      BY <2>1, JoinFive, Zenon
    <3> QED
      BY <3>1, Zenon DEF Fives
<1> QED
  BY <1>1, <1>2, <1>3, <1>4, Zenon DEF Around

\* The item between a and b is replaced.
Replaces(a, y, b, x) ==
  [(a \o <<y>>) \o b EXCEPT ![Len(a) + 1] = x] = (a \o <<x>>) \o b

\* A sequence with one item replaced, in parts.
LEMMA Replaced ==
  ASSUME NEW a \in Seq(Item), NEW b \in Seq(Item), NEW x \in Item, NEW y \in Item
  PROVE  Replaces(a, y, b, x)
<1>1. PICK i \in Nat : i = Len(a)
  OBVIOUS
<1>2. PICK n \in Nat : n = Len(b)
  OBVIOUS
<1>3. ASSUME NEW z \in Item
      PROVE  \E e \in Seq(Item) :
               /\ e = (a \o <<z>>) \o b /\ Len(e) = i + 1 + n /\ e[i + 1] = z
               /\ \A k \in 1..i : e[k] = a[k]
               /\ \A k \in (i + 2)..(i + 1 + n) : e[k] = b[k - (i + 1)]
  <2>1. PICK s : s \in Seq(Item) /\ s = <<z>> /\ Len(s) = 1 /\ s[1] = z
    BY Single
  <2>9. PICK c : Joins(c, a, s)
    BY <2>1, JoinOf
  <2>2. c \in Seq(Item) /\ c = a \o s /\ Len(c) = i + 1
        /\ \A k \in 1..(i + 1) : c[k] = IF k <= i THEN a[k] ELSE s[k - i]
    BY <1>1, <2>1, <2>9 DEF Joins
  <2>10. PICK e : Joins(e, c, b)
    BY <2>2, JoinOf
  <2>3. e \in Seq(Item) /\ e = c \o b /\ Len(e) = i + 1 + n
        /\ \A k \in 1..(i + 1 + n) :
               e[k] = IF k <= i + 1 THEN c[k] ELSE b[k - (i + 1)]
    BY <1>2, <2>2, <2>10 DEF Joins
  <2>4. i + 1 \in 1..(i + 1) /\ ~ (i + 1 <= i) /\ (i + 1) - i = 1
        /\ i + 1 \in 1..(i + 1 + n) /\ i + 1 <= i + 1
    OBVIOUS
  <2>5. c[i + 1] = s[(i + 1) - i]
    BY <2>2, <2>4
  <2>6. e[i + 1] = z
    BY <2>1, <2>3, <2>4, <2>5
  <2>7. \A k \in 1..i : e[k] = a[k]
    BY <2>2, <2>3
  <2>8. \A k \in (i + 2)..(i + 1 + n) : e[k] = b[k - (i + 1)]
    BY <2>3
  <2> QED
    BY <2>1, <2>2, <2>3, <2>6, <2>7, <2>8
<1>4. PICK f \in Seq(Item) :
               /\ f = (a \o <<y>>) \o b /\ Len(f) = i + 1 + n /\ f[i + 1] = y
               /\ \A k \in 1..i : f[k] = a[k]
               /\ \A k \in (i + 2)..(i + 1 + n) : f[k] = b[k - (i + 1)]
  BY <1>3
<1>5. PICK e \in Seq(Item) :
               /\ e = (a \o <<x>>) \o b /\ Len(e) = i + 1 + n /\ e[i + 1] = x
               /\ \A k \in 1..i : e[k] = a[k]
               /\ \A k \in (i + 2)..(i + 1 + n) : e[k] = b[k - (i + 1)]
  BY <1>3
<1>6. PICK g \in Seq(Item) :
          /\ g = [f EXCEPT ![i + 1] = x] /\ Len(g) = i + 1 + n
          /\ \A k \in 1..(i + 1 + n) : g[k] = IF k = i + 1 THEN x ELSE f[k]
  <2> DEFINE g == [f EXCEPT ![i + 1] = x]
  <2>1. PICK m \in Nat : m = i + 1 + n /\ i + 1 \in 1..m
    OBVIOUS
  <2>2. f \in [1..m -> Item]
    <3>1. f \in Seq(Item) /\ Len(f) = m
      BY <1>4, <2>1, Zenon
    <3> QED
      BY <3>1
  <2>3. g \in [1..m -> Item] /\ \A k \in 1..m : g[k] = IF k = i + 1 THEN x ELSE f[k]
    BY <2>1, <2>2
  <2>4. g \in Seq(Item) /\ Len(g) = m
    <3> HIDE DEF g
    <3> QED
      BY <2>3
  <2> HIDE DEF g
  <2>5. g \in Seq(Item) /\ g = [f EXCEPT ![i + 1] = x] /\ Len(g) = i + 1 + n
    BY <2>1, <2>4 DEF g
  <2> QED
    BY <2>1, <2>3, <2>5
<1>7. \A k \in 1..Len(g) : g[k] = e[k]
  <2> TAKE k \in 1..Len(g)
  <2>1. k \in 1..(i + 1 + n)
    BY <1>6
  <2>2. CASE k = i + 1
    BY <1>5, <1>6, <2>1, <2>2
  <2>3. CASE k < i + 1
    <3>1. k \in 1..i /\ k # i + 1
      BY <2>1, <2>3
    <3> QED
      BY <1>4, <1>5, <1>6, <2>1, <3>1
  <2>4. CASE k > i + 1
    <3>1. k \in (i + 2)..(i + 1 + n) /\ k # i + 1
      BY <2>1, <2>4
    <3> QED
      BY <1>4, <1>5, <1>6, <2>1, <3>1
  <2> QED
    BY <2>1, <2>2, <2>3, <2>4
<1>8. g = e
  BY <1>5, <1>6, <1>7, SameSeq
<1> QED
  BY <1>1, <1>4, <1>5, <1>6, <1>8 DEF Replaces

-----------------------------------------------------------------------------
(***************************************************************************)
(* The leaf list of one heap and of another.                               *)
(***************************************************************************)

\* The leaf list of a tree, which ends.
Listed(h, rank, bound) ==
  /\ h \in Heap /\ EndsBy(h, rank, bound)
  /\ \E lev : Tree(h, lev)

\* p is a leaf.
LeafIn(h, p) == p \in Ptr /\ IsLeaf(h, p)

\* The walk, step by step, with what it passes.
LEMMA ItemsStep ==
  ASSUME NEW h, NEW rank, NEW bound, Listed(h, rank, bound)
  PROVE  /\ ItemsFrom(h, None) = <<>>
         /\ \A p : LeafIn(h, p) =>
              /\ ItemsFrom(h, p) = Children(h, p) \o ItemsFrom(h, h[p].next)
              /\ Children(h, p) \in Seq(Item) /\ Len(Children(h, p)) = h[p].length
              /\ h[p].length \in Nat /\ rank[p] \in Nat /\ rank[p] <= bound
              /\ h[p].next = None \/ (LeafIn(h, h[p].next) /\ rank[h[p].next] < rank[p])
<1>1. PICK lev : Tree(h, lev)
  BY DEF Listed
<1>2. h \in Heap /\ EndsBy(h, rank, bound)
  BY DEF Listed
<1>3. ItemsFrom(h, None) = <<>>
  <2>1. None \in PtrOrNone
    BY DEF PtrOrNone
  <2> QED
    BY <1>1, <1>2, <2>1, ItemsFromStep
<1>4. ASSUME NEW p, LeafIn(h, p)
      PROVE  /\ ItemsFrom(h, p) = Children(h, p) \o ItemsFrom(h, h[p].next)
             /\ Children(h, p) \in Seq(Item) /\ Len(Children(h, p)) = h[p].length
             /\ h[p].length \in Nat /\ rank[p] \in Nat /\ rank[p] <= bound
             /\ h[p].next = None \/ (LeafIn(h, h[p].next) /\ rank[h[p].next] < rank[p])
  <2>1. p \in Ptr /\ IsLeaf(h, p) /\ p \in PtrOrNone /\ p # None
    BY <1>4, NodeAssumption DEF LeafIn, PtrOrNone
  <2>2. ItemsFrom(h, p) = Children(h, p) \o ItemsFrom(h, h[p].next)
    BY <1>1, <1>2, <2>1, ItemsFromStep
  <2>3. Children(h, p) \in Seq(Item) /\ Len(Children(h, p)) = h[p].length
    BY <1>1, <1>2, <2>1, LeafItems
  <2>4. h[p].length \in Nat
    BY <1>2, <2>1, FieldTypes, NodeAssumption
  <2>7. bound \in Nat /\ rank[p] \in 0..bound
    BY <1>2, <2>1 DEF EndsBy
  <2>5. rank[p] \in Nat /\ rank[p] <= bound
    BY <2>7
  <2>6. h[p].next = None \/ (LeafIn(h, h[p].next) /\ rank[h[p].next] < rank[p])
    BY <1>2, <2>1 DEF EndsBy, LeafIn
  <2> QED
    BY <2>2, <2>3, <2>4, <2>5, <2>6
<1> QED
  BY <1>3, <1>4

\* What holds of a leaf if it holds of the next one, and of no leaf, holds of
\* every leaf.
LEMMA ListInduction ==
  ASSUME NEW h, NEW rank, NEW bound, Listed(h, rank, bound), NEW T,
         \A p : LeafIn(h, p) /\ (h[p].next = None \/ h[p].next \in T) => p \in T
  PROVE  \A p : LeafIn(h, p) => p \in T
<1> DEFINE S == {p \in Ptr : IsLeaf(h, p)}
           high == [p \in S |-> rank[p]]
<1>1. \A p : LeafIn(h, p) <=> p \in S
  BY DEF LeafIn
<1>2. \A p \in S : rank[p] \in Nat
                   /\ (h[p].next = None \/ (h[p].next \in S /\ rank[h[p].next] < rank[p]))
  BY <1>1, ItemsStep
<1> HIDE DEF S
<1>3. high \in [S -> Nat] /\ \A p \in S : high[p] = rank[p]
  BY <1>2
<1> HIDE DEF high
<1>4. ASSUME NEW s \in S, \A t \in S : high[t] < high[s] => t \in T PROVE s \in T
  BY <1>1, <1>2, <1>3, <1>4
<1>5. \A s \in S : s \in T
  BY <1>3, <1>4, RankInduction
<1> QED
  BY <1>1, <1>5

\* The items from a leaf on are a sequence of items.
LEMMA ItemsType ==
  ASSUME NEW h, NEW rank, NEW bound, Listed(h, rank, bound), NEW p,
         p = None \/ LeafIn(h, p)
  PROVE  ItemsFrom(h, p) \in Seq(Item)
<1> DEFINE T == {q \in Ptr : ItemsFrom(h, q) \in Seq(Item)}
<1>1. ItemsFrom(h, None) \in Seq(Item)
  BY ItemsStep, EmptySeq
<1>2. ASSUME NEW q, LeafIn(h, q), h[q].next = None \/ h[q].next \in T PROVE q \in T
  <2>1. ItemsFrom(h, h[q].next) \in Seq(Item)
    BY <1>1, <1>2
  <2>2. Children(h, q) \in Seq(Item)
        /\ ItemsFrom(h, q) = Children(h, q) \o ItemsFrom(h, h[q].next)
    BY <1>2, ItemsStep
  <2>3. ItemsFrom(h, q) \in Seq(Item)
    BY <2>1, <2>2, JoinPlaces
  <2> QED
    BY <1>2, <2>3 DEF LeafIn
<1> HIDE DEF T
<1>3. \A q : LeafIn(h, q) => q \in T
  BY <1>2, ListInduction
<1> QED
  BY <1>1, <1>3 DEF T

\* p is the same leaf in both heaps.
SameLeaf(h, g, p) ==
  /\ LeafIn(h, p) /\ LeafIn(g, p)
  /\ Children(g, p) = Children(h, p) /\ g[p].next = h[p].next

\* From leaf to leaf among leaves that are the same, the items are the same.
LEMMA SameItems ==
  ASSUME NEW h, NEW rank, NEW bound, Listed(h, rank, bound),
         NEW g, NEW rank1, NEW bound1, Listed(g, rank1, bound1), NEW S,
         \A p \in S : SameLeaf(h, g, p) /\ (h[p].next = None \/ h[p].next \in S)
  PROVE  \A p \in S : ItemsFrom(g, p) = ItemsFrom(h, p)
<1> DEFINE T == {p \in Ptr : p \in S => ItemsFrom(g, p) = ItemsFrom(h, p)}
<1>1. ItemsFrom(g, None) = ItemsFrom(h, None)
  BY ItemsStep
<1>2. ASSUME NEW p, LeafIn(h, p), h[p].next = None \/ h[p].next \in T PROVE p \in T
  <2>1. ASSUME p \in S PROVE ItemsFrom(g, p) = ItemsFrom(h, p)
    <3>1. /\ LeafIn(g, p) /\ Children(g, p) = Children(h, p) /\ g[p].next = h[p].next
          /\ (h[p].next = None \/ h[p].next \in S)
      BY <2>1 DEF SameLeaf
    <3>2. ItemsFrom(g, h[p].next) = ItemsFrom(h, h[p].next)
      BY <1>1, <1>2, <3>1
    <3>3. ItemsFrom(h, p) = Children(h, p) \o ItemsFrom(h, h[p].next)
      BY <1>2, ItemsStep
    <3>4. ItemsFrom(g, p) = Children(g, p) \o ItemsFrom(g, g[p].next)
      BY <3>1, ItemsStep
    <3> QED
      BY <3>1, <3>2, <3>3, <3>4
  <2> QED
    BY <1>2, <2>1 DEF LeafIn
<1> HIDE DEF T
<1>3. \A p : LeafIn(h, p) => p \in T
  BY <1>2, ListInduction
<1>4. \A p \in S : LeafIn(h, p)
  BY DEF SameLeaf
<1> QED
  BY <1>3, <1>4 DEF T

\* The leaf list starts at `first`: each other leaf follows one.
StartsAt(h, first) ==
  /\ LeafIn(h, first)
  /\ \A p : LeafIn(h, p) /\ p # first => \E q : LeafIn(h, q) /\ h[q].next = p

\* before[p] items precede leaf p.
CountsFrom(h, first, before) ==
  /\ before[first] = 0
  /\ \A p : LeafIn(h, p) => before[p] \in Nat
  /\ \A p, q : LeafIn(h, p) /\ LeafIn(h, q) /\ h[p].next = q =>
       before[q] = before[p] + h[p].length

\* u is what comes before leaf p, in both heaps.
Leads(h, g, first, p, u) ==
  /\ u \in Seq(Item)
  /\ \A before : CountsFrom(h, first, before) => Len(u) = before[p]
  /\ ItemsFrom(h, first) = u \o ItemsFrom(h, p)
  /\ ItemsFrom(g, first) = u \o ItemsFrom(g, p)

\* What comes before a leaf n is what comes before it in a heap in which the
\* leaves from the first one to n are the same.
LEMMA Splice ==
  ASSUME NEW h, NEW rank, NEW bound, Listed(h, rank, bound),
         NEW g, NEW rank1, NEW bound1, Listed(g, rank1, bound1),
         NEW first, StartsAt(h, first),
         NEW n, LeafIn(h, n), LeafIn(g, n),
         \A p : LeafIn(h, p) /\ rank[p] > rank[n] => SameLeaf(h, g, p)
  PROVE  \E u : Leads(h, g, first, n, u)
<1> DEFINE S == {p \in Ptr : IsLeaf(h, p)}
           low == [p \in S |-> bound - rank[p]]
           T == {p \in S : p = n \/ rank[p] > rank[n] => \E u : Leads(h, g, first, p, u)}
<1>1. \A p : LeafIn(h, p) <=> p \in S
  BY DEF LeafIn
<1>2. \A p \in S : rank[p] \in Nat /\ rank[p] <= bound
  BY <1>1, ItemsStep
<1>0. bound \in Nat
  BY DEF Listed, EndsBy
<1>3. low \in [S -> Nat] /\ \A p \in S : low[p] = bound - rank[p]
  <2> HIDE DEF S
  <2>1. \A p \in S : bound - rank[p] \in Nat
    BY <1>0, <1>2
  <2> QED
    BY <2>1
<1> HIDE DEF S, low
<1>4. ASSUME NEW p \in S, \A q \in S : low[q] < low[p] => q \in T PROVE p \in T
  <2> SUFFICES ASSUME p = n \/ rank[p] > rank[n] PROVE \E u : Leads(h, g, first, p, u)
    OBVIOUS
  <2>0. LeafIn(h, p) /\ LeafIn(h, first) /\ first \in S
    BY <1>1 DEF StartsAt
  <2>1. CASE p = first
    <3>1. LeafIn(g, p)
      BY <2>0 DEF SameLeaf
    <3>2. ItemsFrom(h, p) \in Seq(Item) /\ ItemsFrom(g, p) \in Seq(Item)
      BY <2>0, <3>1, ItemsType
    <3>3. Leads(h, g, first, p, <<>>)
      BY <2>1, <3>2 DEF Leads, CountsFrom
    <3> QED
      BY <3>3
  <2>2. CASE p # first
    <3>1. PICK q : LeafIn(h, q) /\ h[q].next = p
      BY <2>0, <2>2 DEF StartsAt
    <3>2. p # None /\ q \in S
      BY <1>1, <2>0, <3>1, NodeAssumption DEF LeafIn
    <3>3. rank[p] < rank[q]
      BY <3>1, <3>2, ItemsStep
    <3>4. rank[p] \in Nat /\ rank[q] \in Nat /\ rank[n] \in Nat
      BY <1>1, <1>2, <2>0, <3>2
    <3>5. low[q] < low[p] /\ rank[q] > rank[n]
      BY <1>0, <1>3, <3>2, <3>3, <3>4
    <3>6. PICK u : Leads(h, g, first, q, u)
      BY <1>4, <3>2, <3>5
    <3>7. SameLeaf(h, g, q)
      BY <3>1, <3>5
    <3>8. /\ ItemsFrom(h, q) = Children(h, q) \o ItemsFrom(h, p)
          /\ Children(h, q) \in Seq(Item) /\ Len(Children(h, q)) = h[q].length
      BY <3>1, ItemsStep
    <3>9. /\ ItemsFrom(g, q) = Children(h, q) \o ItemsFrom(g, p)
          /\ LeafIn(g, p)
      <4>1. LeafIn(g, q) /\ g[q].next = p /\ Children(g, q) = Children(h, q)
        BY <3>1, <3>7 DEF SameLeaf
      <4> QED
        BY <3>2, <4>1, ItemsStep
    <3>10. ItemsFrom(h, p) \in Seq(Item) /\ ItemsFrom(g, p) \in Seq(Item)
      BY <2>0, <3>9, ItemsType
    <3>11. \A before : CountsFrom(h, first, before) => before[p] = Len(u) + h[q].length
      BY <2>0, <3>1, <3>6 DEF CountsFrom, Leads
    <3> DEFINE c == Children(h, q)
               v == u \o c
    <3>12. v \in Seq(Item) /\ Len(v) = Len(u) + h[q].length
      BY <3>6, <3>8, JoinPlaces DEF Leads
    <3>16. \A before : CountsFrom(h, first, before) => Len(v) = before[p]
      BY <3>11, <3>12, Zenon
    <3>13. \A w \in Seq(Item) : u \o (c \o w) = v \o w
      <4>1. u \in Seq(Item) /\ c \in Seq(Item)
        BY <3>6, <3>8 DEF Leads
      <4> HIDE DEF c
      <4>2. \A w \in Seq(Item) : (u \o c) \o w = u \o (c \o w)
        BY <4>1, ConcatAssociative
      <4> QED
        BY <4>2
    <3>14. ItemsFrom(h, first) = v \o ItemsFrom(h, p)
           /\ ItemsFrom(g, first) = v \o ItemsFrom(g, p)
      BY <3>6, <3>8, <3>9, <3>10, <3>13 DEF Leads
    <3>15. Leads(h, g, first, p, v)
      <4> HIDE DEF v
      <4> QED
        BY <3>12, <3>14, <3>16 DEF Leads
    <3> QED
      BY <3>15
  <2> QED
    BY <2>1, <2>2
<1> HIDE DEF T
<1>5. \A p \in S : p \in T
  BY <1>3, <1>4, RankInduction
<1>6. n \in T
  BY <1>1, <1>2, <1>5
<1> QED
  BY <1>6 DEF T

\* Behind a leaf the two heaps have the same leaves.
SameBehind(h, rank, g, c) ==
  \A p : LeafIn(h, p) /\ rank[p] < rank[c] => SameLeaf(h, g, p)

\* Then they have the same items there.
LEMMA TailSame ==
  ASSUME NEW h, NEW rank, NEW bound, Listed(h, rank, bound),
         NEW g, NEW rank1, NEW bound1, Listed(g, rank1, bound1),
         NEW c, LeafIn(h, c), SameBehind(h, rank, g, c)
  PROVE  /\ ItemsFrom(g, h[c].next) = ItemsFrom(h, h[c].next)
         /\ ItemsFrom(h, h[c].next) \in Seq(Item)
<1> DEFINE S == {p \in Ptr : LeafIn(h, p) /\ rank[p] < rank[c]}
           x == h[c].next
<1>1. x = None \/ x \in S
  BY ItemsStep DEF LeafIn
<1>2. ItemsFrom(g, None) = ItemsFrom(h, None)
  BY ItemsStep
<1>3. ASSUME NEW p \in S PROVE SameLeaf(h, g, p) /\ (h[p].next = None \/ h[p].next \in S)
  <2>1. SameLeaf(h, g, p)
    BY DEF SameBehind
  <2>2. h[p].next = None \/ (LeafIn(h, h[p].next) /\ rank[h[p].next] < rank[p])
    BY ItemsStep
  <2>3. CASE h[p].next # None
    <3>1. /\ LeafIn(h, h[p].next) /\ rank[h[p].next] < rank[p] /\ rank[p] < rank[c]
      BY <2>2, <2>3
    <3>2. rank[h[p].next] \in Nat /\ rank[p] \in Nat /\ rank[c] \in Nat
      BY <3>1, ItemsStep
    <3>3. rank[h[p].next] < rank[c]
      BY <3>1, <3>2
    <3>4. h[p].next \in Ptr
      BY <3>1 DEF LeafIn
    <3> QED
      BY <2>1, <3>1, <3>3, <3>4
  <2> QED
    BY <2>1, <2>3
<1> HIDE DEF S
<1>4. \A p \in S : ItemsFrom(g, p) = ItemsFrom(h, p)
  BY <1>3, SameItems
<1>5. ItemsFrom(g, x) = ItemsFrom(h, x)
  BY <1>1, <1>2, <1>4
<1>6. x = None \/ LeafIn(h, x)
  BY <1>1 DEF S
<1>7. ItemsFrom(h, x) \in Seq(Item)
  BY <1>6, ItemsType
<1> QED
  BY <1>5, <1>7

\* Where h has `before`, g has `now`, between u and w.
Differ(h, g, first, p, was, now, u, w) ==
  /\ u \in Seq(Item) /\ w \in Seq(Item)
  /\ \A before : CountsFrom(h, first, before) => Len(u) = before[p]
  /\ ItemsFrom(h, first) = u \o (was \o w)
  /\ ItemsFrom(g, first) = u \o (now \o w)

\* All leaves but p are the same.
SameLeavesBut(h, g, p) == \A q : LeafIn(h, q) /\ q # p => SameLeaf(h, g, q)

\* Then those behind p are, and those before it.
LEMMA SameLeavesAround ==
  ASSUME NEW h, NEW rank, NEW bound, Listed(h, rank, bound), NEW g, NEW p,
         LeafIn(h, p), SameLeavesBut(h, g, p)
  PROVE  /\ SameBehind(h, rank, g, p)
         /\ \A q : LeafIn(h, q) /\ rank[q] > rank[p] => SameLeaf(h, g, q)
<1>1. rank[p] \in Nat
  BY ItemsStep
<1>2. \A q : LeafIn(h, q) /\ (rank[q] < rank[p] \/ rank[q] > rank[p]) => q # p
  BY <1>1
<1> QED
  BY <1>2 DEF SameLeavesBut, SameBehind

\* A change to one leaf: only the items of that leaf differ.
LEMMA OneLeaf ==
  ASSUME NEW h, NEW rank, NEW bound, Listed(h, rank, bound),
         NEW g, NEW rank1, NEW bound1, Listed(g, rank1, bound1),
         NEW first, StartsAt(h, first), NEW p, LeafIn(h, p), SameLeavesBut(h, g, p),
         LeafIn(g, p), g[p].next = h[p].next
  PROVE  \E u, w : Differ(h, g, first, p, Children(h, p), Children(g, p), u, w)
<1>1. /\ SameBehind(h, rank, g, p)
      /\ \A q : LeafIn(h, q) /\ rank[q] > rank[p] => SameLeaf(h, g, q)
  BY SameLeavesAround
<1>2. PICK u : Leads(h, g, first, p, u)
  BY <1>1, Splice
<1>3. /\ ItemsFrom(g, h[p].next) = ItemsFrom(h, h[p].next)
      /\ ItemsFrom(h, h[p].next) \in Seq(Item)
  BY <1>1, TailSame
<1>4. ItemsFrom(h, p) = Children(h, p) \o ItemsFrom(h, h[p].next)
  BY ItemsStep
<1>5. ItemsFrom(g, p) = Children(g, p) \o ItemsFrom(g, g[p].next)
  BY ItemsStep
<1>6. Differ(h, g, first, p, Children(h, p), Children(g, p), u, ItemsFrom(h, h[p].next))
  BY <1>2, <1>3, <1>4, <1>5, Zenon DEF Differ, Leads
<1> QED
  BY <1>6

\* A leaf split in two: its items are replaced by those of both halves.
LEMMA OneSplit ==
  ASSUME NEW h, NEW rank, NEW bound, Listed(h, rank, bound),
         NEW g, NEW rank1, NEW bound1, Listed(g, rank1, bound1),
         NEW first, StartsAt(h, first), NEW p, LeafIn(h, p), SameLeavesBut(h, g, p),
         LeafIn(g, p), NEW new, LeafIn(g, new), g[p].next = new,
         g[new].next = h[p].next
  PROVE  \E u, w : Differ(h, g, first, p, Children(h, p),
                          Children(g, p) \o Children(g, new), u, w)
<1>1. /\ SameBehind(h, rank, g, p)
      /\ \A q : LeafIn(h, q) /\ rank[q] > rank[p] => SameLeaf(h, g, q)
  BY SameLeavesAround
<1>2. PICK u : Leads(h, g, first, p, u)
  BY <1>1, Splice
<1>3. /\ ItemsFrom(g, h[p].next) = ItemsFrom(h, h[p].next)
      /\ ItemsFrom(h, h[p].next) \in Seq(Item)
  BY <1>1, TailSame
<1>4. ItemsFrom(h, p) = Children(h, p) \o ItemsFrom(h, h[p].next)
  BY ItemsStep
<1>5. /\ ItemsFrom(g, p) = Children(g, p) \o ItemsFrom(g, new)
      /\ ItemsFrom(g, new) = Children(g, new) \o ItemsFrom(g, h[p].next)
      /\ Children(g, p) \in Seq(Item) /\ Children(g, new) \in Seq(Item)
  <2>1. /\ ItemsFrom(g, p) = Children(g, p) \o ItemsFrom(g, g[p].next)
        /\ Children(g, p) \in Seq(Item)
    BY ItemsStep
  <2>2. /\ ItemsFrom(g, new) = Children(g, new) \o ItemsFrom(g, g[new].next)
        /\ Children(g, new) \in Seq(Item)
    BY ItemsStep
  <2> QED
    BY <2>1, <2>2
<1> DEFINE a == Children(g, p)
           b == Children(g, new)
           w == ItemsFrom(h, h[p].next)
<1>6. (a \o b) \o w = a \o (b \o w)
  <2>1. a \in Seq(Item) /\ b \in Seq(Item) /\ w \in Seq(Item)
    BY <1>3, <1>5, Zenon
  <2> HIDE DEF a, b, w
  <2> QED
    BY <2>1, JoinOrder
<1>7. ItemsFrom(g, p) = (a \o b) \o w
  BY <1>3, <1>5, <1>6, Zenon
<1>8. Differ(h, g, first, p, Children(h, p), a \o b, u, w)
  <2> HIDE DEF a, b
  <2> QED
    BY <1>2, <1>3, <1>4, <1>7, Zenon DEF Differ, Leads
<1> QED
  BY <1>8, Zenon

\* Two leaves in a row exchange items, or become one.
Exchanged(h, g, a, b) ==
  \/ /\ g[a].next = b /\ LeafIn(g, b) /\ g[b].next = h[b].next
     /\ Children(g, a) \o Children(g, b) = Children(h, a) \o Children(h, b)
  \/ /\ g[a].next = h[b].next
     /\ Children(g, a) = Children(h, a) \o Children(h, b)

\* That changes nothing but where the items are.
LEMMA Exchange ==
  ASSUME NEW h, NEW rank, NEW bound, Listed(h, rank, bound),
         NEW g, NEW rank1, NEW bound1, Listed(g, rank1, bound1),
         NEW first, StartsAt(h, first), NEW a, NEW b, LeafIn(h, a), LeafIn(h, b),
         h[a].next = b, LeafIn(g, a), Exchanged(h, g, a, b),
         \A q : LeafIn(h, q) /\ q # a /\ q # b => SameLeaf(h, g, q)
  PROVE  ItemsFrom(g, first) = ItemsFrom(h, first)
<1>0. rank[b] < rank[a] /\ rank[a] \in Nat /\ rank[b] \in Nat
  <2>1. b # None
    BY NodeAssumption DEF LeafIn
  <2> QED
    BY <2>1, ItemsStep
<1>1. \A q : LeafIn(h, q) /\ rank[q] > rank[a] => SameLeaf(h, g, q)
  <2> SUFFICES ASSUME NEW q, LeafIn(h, q), rank[q] > rank[a] PROVE SameLeaf(h, g, q)
    OBVIOUS
  <2>1. rank[q] \in Nat
    BY ItemsStep
  <2>2. q # a /\ q # b
    BY <1>0, <2>1
  <2> QED
    BY <2>2
<1>2. SameBehind(h, rank, g, b)
  <2> SUFFICES ASSUME NEW q, LeafIn(h, q), rank[q] < rank[b] PROVE SameLeaf(h, g, q)
    BY DEF SameBehind
  <2>1. rank[q] \in Nat
    BY ItemsStep
  <2>2. q # a /\ q # b
    BY <1>0, <2>1
  <2> QED
    BY <2>2
<1>3. PICK u : Leads(h, g, first, a, u)
  BY <1>1, Splice
<1>4. /\ ItemsFrom(g, h[b].next) = ItemsFrom(h, h[b].next)
      /\ ItemsFrom(h, h[b].next) \in Seq(Item)
  BY <1>2, TailSame
<1> DEFINE w == ItemsFrom(h, h[b].next)
           c == Children(h, a)
           d == Children(h, b)
<1>5. /\ ItemsFrom(h, a) = c \o ItemsFrom(h, b) /\ ItemsFrom(h, b) = d \o w
      /\ c \in Seq(Item) /\ d \in Seq(Item)
  BY ItemsStep
<1>6. ItemsFrom(g, a) = Children(g, a) \o ItemsFrom(g, g[a].next)
      /\ Children(g, a) \in Seq(Item)
  BY ItemsStep
<1>7. ItemsFrom(h, a) = (c \o d) \o w
  <2>1. w \in Seq(Item)
    BY <1>4, Zenon
  <2> HIDE DEF c, d, w
  <2>2. (c \o d) \o w = c \o (d \o w)
    BY <1>5, <2>1, JoinOrder
  <2> QED
    BY <1>5, <2>2
<1>8. ItemsFrom(g, a) = (c \o d) \o w
  <2>1. CASE /\ g[a].next = b /\ LeafIn(g, b) /\ g[b].next = h[b].next
             /\ Children(g, a) \o Children(g, b) = c \o d
    <3>1. ItemsFrom(g, b) = Children(g, b) \o w /\ Children(g, b) \in Seq(Item)
      <4>1. ItemsFrom(g, b) = Children(g, b) \o ItemsFrom(g, g[b].next)
            /\ Children(g, b) \in Seq(Item)
        BY <2>1, ItemsStep
      <4> QED
        BY <1>4, <2>1, <4>1, Zenon
    <3> DEFINE e == Children(g, a)
               f == Children(g, b)
    <3>2. e \in Seq(Item) /\ f \in Seq(Item) /\ w \in Seq(Item)
      BY <1>4, <1>6, <3>1, Zenon
    <3>3. ItemsFrom(g, a) = e \o (f \o w) /\ e \o f = c \o d
      BY <1>6, <2>1, <3>1, Zenon
    <3> HIDE DEF e, f, w, c, d
    <3>4. (e \o f) \o w = e \o (f \o w)
      BY <3>2, JoinOrder
    <3> QED
      BY <3>3, <3>4, Zenon
  <2>2. CASE /\ g[a].next = h[b].next
             /\ Children(g, a) = c \o d
    BY <1>4, <1>6, <2>2, Zenon
  <2> QED
    BY <2>1, <2>2 DEF Exchanged
<1> QED
  BY <1>3, <1>7, <1>8, Zenon DEF Leads

-----------------------------------------------------------------------------
(***************************************************************************)
(* Where the leaf list starts.                                             *)
(***************************************************************************)

\* p is a leaf that is not gone.
LiveLeaf(h, gone, p) == LeafIn(h, p) /\ p \notin gone

\* The leaf list starts at `first`, alone, and leads to no leaf that is gone.
ListStarts(h, gone, first) ==
  /\ LiveLeaf(h, gone, first)
  /\ \A p : LiveLeaf(h, gone, p) =>
       /\ h[p].next = None \/ LiveLeaf(h, gone, h[p].next)
       /\ p = first <=> ~ (\E q : LiveLeaf(h, gone, q) /\ h[q].next = p)

\* Every leaf but the first has one before it.
LEMMA StartsThere ==
  ASSUME NEW h, NEW first, ListStarts(h, {}, first)
  PROVE  StartsAt(h, first)
BY DEF ListStarts, StartsAt, LiveLeaf

\* The leaves that are not gone are the same, and none of those of g is gone.
KeepsLeaves(h, gone, g, gone1) ==
  /\ \A p : LiveLeaf(h, gone, p) => SameLeaf(h, g, p)
  /\ \A p : LeafIn(g, p) => LiveLeaf(h, gone, p) /\ p \notin gone1

\* Then the list starts where it did, and has the same items.
LEMMA KeptItems ==
  ASSUME NEW h, NEW rank, NEW bound, Listed(h, rank, bound),
         NEW g, NEW rank1, NEW bound1, Listed(g, rank1, bound1),
         NEW gone, NEW first, ListStarts(h, gone, first),
         NEW gone1, NEW first1, ListStarts(g, gone1, first1),
         KeepsLeaves(h, gone, g, gone1)
  PROVE  first1 = first /\ ItemsFrom(g, first) = ItemsFrom(h, first)
<1> DEFINE S == {p \in Ptr : LiveLeaf(h, gone, p)}
<1>1. \A p : LiveLeaf(h, gone, p) <=> p \in S
  BY DEF LiveLeaf, LeafIn
<1>2. \A p \in S : SameLeaf(h, g, p) /\ (h[p].next = None \/ h[p].next \in S)
  BY <1>1 DEF KeepsLeaves, ListStarts
<1>3. \A p : LiveLeaf(g, gone1, p) <=> p \in S
  <2>1. \A p : LiveLeaf(g, gone1, p) => p \in S
    BY <1>1 DEF KeepsLeaves, LiveLeaf
  <2>2. ASSUME NEW p \in S PROVE LiveLeaf(g, gone1, p)
    <3>1. LeafIn(g, p)
      BY <1>2 DEF SameLeaf
    <3> QED
      BY <3>1 DEF KeepsLeaves, LiveLeaf
  <2> QED
    BY <2>1, <2>2
<1> HIDE DEF S
<1>4. first \in S /\ first1 \in S
  BY <1>1, <1>3 DEF ListStarts
<1>5. \A q \in S : g[q].next = h[q].next
  BY <1>2 DEF SameLeaf
<1>6. first1 = first
  <2>1. \A q : LiveLeaf(g, gone1, q) => g[q].next # first1
    BY <1>3, <1>4 DEF ListStarts
  <2>2. \A q : LiveLeaf(h, gone, q) => h[q].next # first1
    BY <1>1, <1>3, <1>5, <2>1
  <2>3. LiveLeaf(h, gone, first1)
    BY <1>1, <1>4
  <2> QED
    BY <2>2, <2>3 DEF ListStarts
<1>7. ItemsFrom(g, first) = ItemsFrom(h, first)
  BY <1>2, <1>4, SameItems
<1> QED
  BY <1>6, <1>7

\* A list whose leaves are kept ends as it did.
LEMMA KeptEnds ==
  ASSUME NEW h, NEW rank, NEW bound, EndsBy(h, rank, bound),
         NEW gone, NEW first, ListStarts(h, gone, first), NEW g, NEW gone1,
         KeepsLeaves(h, gone, g, gone1)
  PROVE  EndsBy(g, rank, bound)
<1>1. ASSUME NEW p \in Ptr, IsLeaf(g, p), g[p].next # None
      PROVE  g[p].next \in Ptr /\ IsLeaf(g, g[p].next) /\ rank[g[p].next] < rank[p]
  <2>1. LiveLeaf(h, gone, p)
    BY <1>1 DEF KeepsLeaves, LeafIn
  <2>2. SameLeaf(h, g, p)
    BY <2>1 DEF KeepsLeaves
  <2>3. g[p].next = h[p].next /\ IsLeaf(h, p)
    BY <2>2 DEF SameLeaf, LeafIn
  <2>4. LiveLeaf(h, gone, h[p].next)
    BY <1>1, <2>1, <2>3 DEF ListStarts
  <2>5. SameLeaf(h, g, h[p].next)
    BY <2>4 DEF KeepsLeaves
  <2> QED
    BY <1>1, <2>3, <2>5 DEF SameLeaf, LeafIn, EndsBy
<1> QED
  BY <1>1 DEF EndsBy

-----------------------------------------------------------------------------
(***************************************************************************)
(* The items of a leaf, in parts.                                          *)
(***************************************************************************)

\* n slots of ch from `lo` on, as a sequence.
Part(ch, lo, n) == [k \in 1..n |-> ch[lo + k - 1]]

\* They hold items.
ItemsAt(ch, lo, n) == \A j \in lo..(lo + n - 1) : ch[j] \in Item

\* So they are a sequence of items.
LEMMA PartSeq ==
  ASSUME NEW ch, NEW lo \in Nat, NEW n \in Nat, ItemsAt(ch, lo, n)
  PROVE  /\ Part(ch, lo, n) \in Seq(Item) /\ Len(Part(ch, lo, n)) = n
         /\ \A k \in 1..n : Part(ch, lo, n)[k] = ch[lo + k - 1]
<1>1. \A k \in 1..n : ch[lo + k - 1] \in Item
  <2> TAKE k \in 1..n
  <2>1. lo + k - 1 \in lo..(lo + n - 1)
    OBVIOUS
  <2> QED
    BY <2>1 DEF ItemsAt
<1> DEFINE c == Part(ch, lo, n)
<1>2. c \in [1..n -> Item] /\ \A k \in 1..n : c[k] = ch[lo + k - 1]
  BY <1>1 DEF Part
<1> HIDE DEF c
<1>3. c \in Seq(Item) /\ Len(c) = n
  BY <1>2
<1> QED
  BY <1>2, <1>3 DEF c

\* n slots from lo on and m from mid on are `all` slots from lo on.
PartsJoin(ch, lo, n, mid, m, all) ==
  /\ Part(ch, lo, n) \o Part(ch, mid, m) = Part(ch, lo, all)
  /\ ItemsAt(ch, lo, n) /\ ItemsAt(ch, mid, m)

\* One part and the next are one.
LEMMA PartJoin ==
  ASSUME NEW ch, NEW lo \in Nat, NEW n \in Nat, NEW m \in Nat,
         NEW mid \in Nat, mid = lo + n, NEW all \in Nat, all = n + m, ItemsAt(ch, lo, all)
  PROVE  PartsJoin(ch, lo, n, mid, m, all)
<1>1. ItemsAt(ch, lo, n) /\ ItemsAt(ch, mid, m)
  BY DEF ItemsAt
<1> DEFINE a == Part(ch, lo, n)
           b == Part(ch, mid, m)
           c == Part(ch, lo, all)
<1>2. a \in Seq(Item) /\ Len(a) = n /\ \A k \in 1..n : a[k] = ch[lo + k - 1]
  BY <1>1, PartSeq
<1>3. b \in Seq(Item) /\ Len(b) = m /\ \A k \in 1..m : b[k] = ch[(lo + n) + k - 1]
  <2>1. \A k \in 1..m : Part(ch, mid, m)[k] = ch[mid + k - 1]
    BY <1>1, PartSeq
  <2> QED
    BY <1>1, <2>1, PartSeq
<1>4. c \in Seq(Item) /\ Len(c) = n + m /\ \A k \in 1..(n + m) : c[k] = ch[lo + k - 1]
  <2>1. \A k \in 1..all : c[k] = ch[lo + k - 1]
    BY PartSeq
  <2> QED
    BY <2>1, PartSeq
<1> HIDE DEF a, b, c
<1> DEFINE d == a \o b
<1>5. d \in Seq(Item) /\ Len(d) = n + m
      /\ \A k \in 1..(n + m) : d[k] = IF k <= n THEN a[k] ELSE b[k - n]
  BY <1>2, <1>3, JoinPlaces
<1> HIDE DEF d
<1>6. \A k \in 1..(n + m) : d[k] = c[k]
  <2> TAKE k \in 1..(n + m)
  <2>1. CASE k <= n
    <3>1. k \in 1..n
      BY <2>1
    <3> QED
      BY <1>2, <1>4, <1>5, <2>1, <3>1
  <2>2. CASE ~ (k <= n)
    <3>1. k - n \in 1..m /\ (lo + n) + (k - n) - 1 = lo + k - 1
      BY <2>2
    <3>2. d[k] = b[k - n]
      BY <1>5, <2>2
    <3>3. b[k - n] = ch[(lo + n) + (k - n) - 1]
      BY <1>3, <3>1
    <3> QED
      BY <1>4, <3>1, <3>2, <3>3
  <2> QED
    BY <2>1, <2>2
<1>7. d = c
  BY <1>4, <1>5, <1>6, SameSeq
<1> QED
  BY <1>1, <1>7 DEF a, b, c, d, PartsJoin

\* A part of one slot.
LEMMA PartOne ==
  ASSUME NEW ch, NEW lo \in Nat, ch[lo] \in Item
  PROVE  Part(ch, lo, 1) = <<ch[lo]>>
<1>1. \A k \in 1..1 : ch[lo + k - 1] = ch[lo]
  OBVIOUS
<1> QED
  BY <1>1 DEF Part

\* Parts of two arrays hold the same.
SamePart(a, lo, b, lo1, n) == \A k \in 1..n : a[lo + k - 1] = b[lo1 + k - 1]

\* Then they are the same sequence.
LEMMA PartSame ==
  ASSUME NEW a, NEW b, NEW lo, NEW lo1, NEW n, SamePart(a, lo, b, lo1, n)
  PROVE  Part(a, lo, n) = Part(b, lo1, n)
BY DEF Part, SamePart

-----------------------------------------------------------------------------
\* d is c with x as item i, counted from 0.
Gains(c, d, i, x) ==
  \E p, q : /\ p \in Seq(Item) /\ q \in Seq(Item) /\ Len(p) = i
            /\ c = p \o q /\ d = (p \o <<x>>) \o q

\* An array a[0..len-1] with x put at i, and one with it taken out.
LEMMA ArrayGains ==
  ASSUME NEW a, NEW b, NEW i \in Nat, NEW m \in Nat, NEW x \in Item,
         ItemsAt(a, 0, i + m), \A j \in 0..(i - 1) : b[j] = a[j], b[i] = x,
         \A j \in i..(i + m - 1) : b[j + 1] = a[j]
  PROVE  Gains(Part(a, 0, i + m), Part(b, 0, i + m + 1), i, x)
<1> DEFINE p == Part(a, 0, i)
           q == Part(a, i, m)
<1>0. 0 \in Nat /\ i = 0 + i /\ i + m \in Nat
  OBVIOUS
<1>1. Part(a, 0, i + m) = p \o q /\ ItemsAt(a, 0, i) /\ ItemsAt(a, i, m)
  <2>1. PartsJoin(a, 0, i, i, m, i + m)
    BY <1>0, PartJoin
  <2> QED
    BY <2>1 DEF PartsJoin
<1>2. p \in Seq(Item) /\ Len(p) = i /\ q \in Seq(Item)
  BY <1>1, PartSeq
<1>3. Part(b, 0, i) = p
  <2>1. SamePart(b, 0, a, 0, i)
    <3> SUFFICES ASSUME NEW k \in 1..i PROVE b[0 + k - 1] = a[0 + k - 1]
      BY DEF SamePart
    <3>1. 0 + k - 1 \in 0..(i - 1)
      OBVIOUS
    <3> QED
      BY <3>1
  <2> QED
    BY <2>1, PartSame
<1>4. Part(b, i + 1, m) = q
  <2>1. SamePart(b, i + 1, a, i, m)
    <3> SUFFICES ASSUME NEW k \in 1..m PROVE b[(i + 1) + k - 1] = a[i + k - 1]
      BY DEF SamePart
    <3>1. i + k - 1 \in i..(i + m - 1) /\ (i + k - 1) + 1 = (i + 1) + k - 1
      OBVIOUS
    <3> QED
      BY <3>1
  <2> QED
    BY <2>1, PartSame
<1>5. Part(b, i, 1) = <<x>>
  BY PartOne
<1>6. ItemsAt(b, 0, i + m + 1)
  <2> SUFFICES ASSUME NEW j \in 0..(i + m) PROVE b[j] \in Item
    <3>1. 0 + (i + m + 1) - 1 = i + m
      OBVIOUS
    <3> QED
      BY <3>1 DEF ItemsAt
  <2>1. \A k \in 0..(i + m - 1) : a[k] \in Item
    <3>1. 0 + (i + m) - 1 = i + m - 1
      OBVIOUS
    <3> QED
      BY <3>1 DEF ItemsAt
  <2>2. CASE j < i
    <3>1. j \in 0..(i - 1) /\ j \in 0..(i + m - 1)
      BY <2>2
    <3> QED
      BY <2>1, <3>1
  <2>3. CASE j > i
    <3>1. j - 1 \in i..(i + m - 1) /\ (j - 1) + 1 = j /\ j - 1 \in 0..(i + m - 1)
      BY <2>3
    <3> QED
      BY <2>1, <3>1
  <2>4. CASE j = i
    BY <2>4
  <2>5. j < i \/ j > i \/ j = i
    OBVIOUS
  <2> QED
    BY <2>2, <2>3, <2>4, <2>5
<1>7. Part(b, 0, i + m + 1) = Part(b, 0, i + 1) \o Part(b, i + 1, m) /\ ItemsAt(b, 0, i + 1)
  <2>1. i + 1 \in Nat /\ i + 1 = 0 + (i + 1) /\ i + m + 1 \in Nat /\ i + m + 1 = (i + 1) + m
    OBVIOUS
  <2>2. PartsJoin(b, 0, i + 1, i + 1, m, i + m + 1)
    BY <1>6, <2>1, PartJoin
  <2> QED
    BY <2>2 DEF PartsJoin
<1>8. Part(b, 0, i + 1) = p \o <<x>>
  <2>1. i + 1 \in Nat
    OBVIOUS
  <2>2. PartsJoin(b, 0, i, i, 1, i + 1)
    BY <1>0, <1>7, <2>1, PartJoin
  <2> QED
    BY <1>3, <1>5, <2>2 DEF PartsJoin
<1>9. Part(b, 0, i + m + 1) = (p \o <<x>>) \o q
  BY <1>4, <1>7, <1>8
<1> HIDE DEF p, q
<1> QED
  BY <1>1, <1>2, <1>9, Zenon DEF Gains

\* What is so of one of two sequences is so of both together.
LEMMA GainsLeft ==
  ASSUME NEW c, NEW d, NEW i, NEW x \in Item, Gains(c, d, i, x), NEW e \in Seq(Item)
  PROVE  Gains(c \o e, d \o e, i, x)
<1>1. PICK p, q : /\ p \in Seq(Item) /\ q \in Seq(Item) /\ Len(p) = i
                  /\ c = p \o q /\ d = (p \o <<x>>) \o q
  BY Zenon DEF Gains
<1>2. PICK s : s \in Seq(Item) /\ s = <<x>>
  BY Single
<1>3. c \o e = p \o (q \o e)
  BY <1>1, JoinOrder
<1>4. q \o e \in Seq(Item)
  BY <1>1, JoinPlaces
<1>5. p \o s \in Seq(Item)
  BY <1>1, <1>2, JoinPlaces
<1>6. ((p \o s) \o q) \o e = (p \o s) \o (q \o e)
  BY <1>1, <1>5, JoinOrder
<1> QED
  BY <1>1, <1>2, <1>3, <1>4, <1>6, Zenon DEF Gains

\* The same for the second of the two.
LEMMA GainsRight ==
  ASSUME NEW c, NEW d, NEW j, NEW x \in Item, Gains(c, d, j, x), NEW e \in Seq(Item)
  PROVE  Gains(e \o c, e \o d, Len(e) + j, x)
<1>1. PICK p, q : /\ p \in Seq(Item) /\ q \in Seq(Item) /\ Len(p) = j
                  /\ c = p \o q /\ d = (p \o <<x>>) \o q
  BY Zenon DEF Gains
<1>2. PICK s : s \in Seq(Item) /\ s = <<x>>
  BY Single
<1>3. e \o c = (e \o p) \o q
  BY <1>1, JoinOrder
<1>4. e \o p \in Seq(Item) /\ Len(e \o p) = Len(e) + j
  BY <1>1, JoinPlaces
<1>5. p \o s \in Seq(Item)
  BY <1>1, <1>2, JoinPlaces
<1>6. e \o ((p \o s) \o q) = (e \o (p \o s)) \o q
  BY <1>1, <1>5, JoinOrder
<1>7. e \o (p \o s) = (e \o p) \o s
  BY <1>1, <1>2, JoinOrder
<1> QED
  BY <1>1, <1>2, <1>3, <1>4, <1>6, <1>7, Zenon DEF Gains

\* A sequence gains an item at its end.
LEMMA GainsEnd ==
  ASSUME NEW c \in Seq(Item), NEW d, NEW x \in Item, Gains(c, d, Len(c), x)
  PROVE  d = c \o <<x>>
<1>1. PICK p, q : /\ p \in Seq(Item) /\ q \in Seq(Item) /\ Len(p) = Len(c)
                  /\ c = p \o q /\ d = (p \o <<x>>) \o q
  BY Zenon DEF Gains
<1>2. Len(c) = Len(p) + Len(q)
  BY <1>1, JoinPlaces
<1>3. Len(p) \in Nat /\ Len(q) \in Nat
  BY <1>1
<1>4. Len(q) = 0
  BY <1>1, <1>2, <1>3
<1>5. q = <<>>
  BY <1>1, <1>4
<1>6. p \o <<>> = p
  BY <1>1
<1>7. p \o <<x>> \in Seq(Item)
  <2>1. <<x>> \in Seq(Item)
    OBVIOUS
  <2> QED
    BY <1>1, <2>1, JoinPlaces
<1>8. (p \o <<x>>) \o <<>> = p \o <<x>>
  <2>1. \A s \in Seq(Item) : s \o <<>> = s
    OBVIOUS
  <2> QED
    BY <1>7, <2>1
<1> QED
  BY <1>1, <1>5, <1>6, <1>8, Zenon

\* And one at its front.
LEMMA GainsFront ==
  ASSUME NEW c \in Seq(Item), NEW d, NEW x \in Item, Gains(c, d, 0, x)
  PROVE  d = <<x>> \o c
<1>1. PICK p, q : /\ p \in Seq(Item) /\ q \in Seq(Item) /\ Len(p) = 0
                  /\ c = p \o q /\ d = (p \o <<x>>) \o q
  BY Zenon DEF Gains
<1>2. p = <<>>
  BY <1>1
<1>3. \A s \in Seq(Item) : <<>> \o s = s
  OBVIOUS
<1>4. <<x>> \in Seq(Item)
  OBVIOUS
<1> QED
  BY <1>1, <1>2, <1>3, <1>4, Zenon

-----------------------------------------------------------------------------
(***************************************************************************)
(* The first leaf is the one that none leads to.                           *)
(***************************************************************************)

\* q leads to p, and is not gone.
LeadsTo(h, after, gone, q, p) == q \in Allocated(h) /\ q \notin gone /\ after[q] = p

\* Nothing leads to p.
NoneBefore(h, after, gone, p) == \A q : ~ LeadsTo(h, after, gone, q, p)

\* c is the child of a node.
Hanging(h, c) == c \in Allocated(h) /\ h[c].parent # None

\* Where `over` has a node before p, `after` has one, and the other way round.
OrdersAgree(h, over, after, gone) ==
  \A p : Hanging(h, p) /\ p \notin gone =>
    (NoneBefore(h, after, gone, p) <=> \A q : Hanging(h, q) => over[q] # p)

\* The root is the one node without a parent that nothing leads to; what is gone
\* is empty and no first child, and nothing else is empty.
Headed(h, after, gone, top) ==
  /\ top \in Allocated(h) /\ top \notin gone /\ h[top].parent = None
  /\ \A p \in Roots(h) : p # top => ~ NoneBefore(h, after, gone, p)
  /\ \A p \in gone : h[p].length = 0 /\ h[p].index # 0
  /\ \A p \in Allocated(h) : p \notin gone /\ IsInternal(h, p) => h[p].length >= 1

\* All that is used of a tree and its order.
Fronted(h, lev, over, after, gone, top) ==
  /\ h \in Heap /\ Tree(h, lev) /\ Levels(h, over, after, top, gone)
  /\ OrdersAgree(h, over, after, gone) /\ Headed(h, after, gone, top)

\* If nothing leads to a node, nothing leads to its first child.
LEMMA FrontChild ==
  ASSUME NEW h, NEW lev, NEW over, NEW after, NEW gone, NEW top,
         Fronted(h, lev, over, after, gone, top),
         NEW p \in Allocated(h), p \notin gone, IsInternal(h, p),
         NoneBefore(h, after, gone, p)
  PROVE  LET c == h[p].children[0]
         IN  /\ c \in Allocated(h) /\ c \notin gone /\ lev[p] = lev[c] + 1
             /\ lev[p] \in Nat /\ lev[c] \in Nat
             /\ NoneBefore(h, after, gone, c)
<1> DEFINE c == h[p].children[0]
<1>0. h \in Heap /\ Tree(h, lev) /\ Levels(h, over, after, top, gone)
      /\ OrdersAgree(h, over, after, gone) /\ Headed(h, after, gone, top)
  BY DEF Fronted
<1>1. h[p].length >= 1
  BY <1>0 DEF Headed
<1>2. /\ c \in Allocated(h) /\ lev[p] = lev[c] + 1 /\ lev[p] \in Nat /\ lev[c] \in Nat
      /\ h[c].index = 0 /\ h[c].parent = p
  BY <1>0, <1>1, FirstChild
<1>3. c \notin gone
  BY <1>0, <1>2 DEF Headed
<1>4. p # None /\ c # None
  BY <1>0, <1>2, Kinds
<1>5. Hanging(h, c)
  BY <1>2, <1>4 DEF Hanging
<1> HIDE DEF c
<1>6. ASSUME NEW q, Hanging(h, q), over[q] = c PROVE FALSE
  <2>1. q \in Allocated(h) /\ h[q].parent # None
    BY <1>6 DEF Hanging
  <2> DEFINE r == h[q].parent
             k == h[q].index
  <2>2. /\ r \in Allocated(h) /\ IsInternal(h, r) /\ k \in Nat /\ k < h[r].length
        /\ h[r].children[k] = q
    BY <1>0, <2>1, ParentOf
  <2>3. h[r].length \in 0..B
    BY <1>0, <2>2, Kinds
  <2> HIDE DEF r, k
  <2>4. k \in Position
    BY <2>2, <2>3, NodeAssumption DEF Position
  <2>5. ChildFacts(h, over, after, r, k)
    BY <1>0, <2>2, <2>4, ChildFactsAt
  <2>6. c = NextChild(h, after, r, k)
    BY <1>6, <2>2, <2>5 DEF ChildFacts
  <2>7. CASE k + 1 < h[r].length
    <3>1. c = h[r].children[k + 1] /\ k + 1 \in Nat
      BY <2>2, <2>6, <2>7 DEF NextChild
    <3>2. h[c].index = k + 1
      BY <1>0, <2>2, <2>7, <3>1, ChildOf
    <3> QED
      BY <1>2, <2>2, <3>2
  <2>8. CASE ~ (k + 1 < h[r].length)
    <3>1. after[r] # None /\ c = h[after[r]].children[0]
      BY <1>4, <2>6, <2>8, Zenon DEF NextChild
    <3>2. LeadsOn(h, after, gone \cup {top}, r)
      BY <1>0, <2>2, LevelsAt
    <3>3. after[r] \in Allocated(h) /\ h[after[r]].kind = h[r].kind
      BY <3>1, <3>2 DEF LeadsOn
    <3>8. r \notin gone
      <4>1. h[r].length # 0
        BY <2>2, <2>3
      <4> QED
        BY <1>0, <4>1 DEF Headed
    <3>4. CASE h[after[r]].length >= 1
      <4>1. 0 < h[after[r]].length /\ 0 \in Nat
        <5>1. h[after[r]].length \in 0..B
          BY <1>0, <3>3, Kinds
        <5> QED
          BY <3>4, <5>1
      <4>2. IsInternal(h, after[r])
        BY <2>2, <3>3 DEF IsInternal
      <4>3. h[c].parent = after[r]
        BY <1>0, <3>1, <3>3, <4>1, <4>2, ChildOf
      <4>4. after[r] = p
        BY <1>2, <4>3
      <4> QED
        BY <2>2, <3>8, <4>4 DEF NoneBefore, LeadsTo
    <3>5. CASE ~ (h[after[r]].length >= 1)
      <4>2. IsInternal(h, after[r])
        BY <2>2, <3>3 DEF IsInternal
      <4>3. h[after[r]].children[0] = None
        BY <1>0, <3>3, <3>5, <4>2, FirstChild
      <4> QED
        BY <1>4, <3>1, <4>3
    <3> QED
      BY <3>4, <3>5
  <2> QED
    BY <2>7, <2>8
<1>7. NoneBefore(h, after, gone, c)
  BY <1>0, <1>3, <1>5, <1>6 DEF OrdersAgree
<1> QED
  BY <1>2, <1>3, <1>7 DEF c

\* A node that nothing leads to is the root, or the first child of such a node.
LEMMA FrontParent ==
  ASSUME NEW h, NEW lev, NEW over, NEW after, NEW gone, NEW top,
         Fronted(h, lev, over, after, gone, top),
         NEW p \in Allocated(h), p \notin gone, p # top,
         NoneBefore(h, after, gone, p)
  PROVE  LET r == h[p].parent
         IN  /\ r \in Allocated(h) /\ r \notin gone /\ IsInternal(h, r)
             /\ lev[r] = lev[p] + 1 /\ h[r].children[0] = p
             /\ NoneBefore(h, after, gone, r)
<1> DEFINE r == h[p].parent
           k == h[p].index
<1>0. h \in Heap /\ Tree(h, lev) /\ Levels(h, over, after, top, gone)
      /\ OrdersAgree(h, over, after, gone) /\ Headed(h, after, gone, top)
  BY DEF Fronted
<1>1. h[p].parent # None
  BY <1>0 DEF Headed, Roots
<1>2. /\ r \in Allocated(h) /\ IsInternal(h, r) /\ k \in Nat /\ k < h[r].length
      /\ h[r].children[k] = p /\ lev[r] = lev[p] + 1
  BY <1>0, <1>1, ParentOf
<1>3. Hanging(h, p)
  BY <1>1 DEF Hanging
<1>4. \A q : Hanging(h, q) => over[q] # p
  BY <1>0, <1>3 DEF OrdersAgree
<1>5. h[r].length \in 0..B /\ p # None
  BY <1>0, <1>2, Kinds
<1> HIDE DEF r, k
<1>6. r \notin gone
  <2>1. h[r].length # 0
    BY <1>2, <1>5
  <2> QED
    BY <1>0, <2>1 DEF Headed
<1>7. k = 0
  <2> SUFFICES ASSUME k # 0 PROVE FALSE
    OBVIOUS
  <2>1. k - 1 \in Nat /\ k - 1 < h[r].length /\ (k - 1) + 1 = k /\ k - 1 \in Position
    BY <1>2, <1>5, NodeAssumption DEF Position
  <2>2. ChildFacts(h, over, after, r, k - 1)
    BY <1>0, <1>2, <2>1, ChildFactsAt
  <2>3. Hanging(h, h[r].children[k - 1])
    BY <2>2, Zenon DEF ChildFacts, Hanging
  <2>4. over[h[r].children[k - 1]] = NextChild(h, after, r, k - 1)
    BY <2>2, Zenon DEF ChildFacts
  <2>5. NextChild(h, after, r, k - 1) = p
    BY <1>2, <2>1 DEF NextChild
  <2> QED
    BY <1>4, <2>3, <2>4, <2>5
<1>8. ASSUME NEW q, LeadsTo(h, after, gone, q, r) PROVE FALSE
  <2>1. q \in Allocated(h) /\ q \notin gone /\ after[q] = r
    BY <1>8 DEF LeadsTo
  <2>2. r # None
    BY <1>0, <1>2, Kinds
  <2>3. LeadsOn(h, after, gone \cup {top}, q)
    BY <1>0, <2>1, LevelsAt
  <2>4. IsInternal(h, q)
    BY <1>2, <2>1, <2>2, <2>3 DEF LeadsOn, IsInternal
  <2>5. h[q].length >= 1
    BY <1>0, <2>1, <2>4 DEF Headed
  <2>11. h[q].length \in 0..B
    BY <1>0, <2>1, <2>4, Kinds
  <2>12. PICK len \in 1..B : len = h[q].length
    BY <2>5, <2>11
  <2>13. /\ len - 1 \in Nat /\ len - 1 \in Position /\ len - 1 < len
         /\ ~ ((len - 1) + 1 < len)
    BY NodeAssumption DEF Position
  <2>6. PICK l \in Nat : l \in Position /\ l < h[q].length /\ ~ (l + 1 < h[q].length)
    BY <2>12, <2>13
  <2>7. ChildFacts(h, over, after, q, l)
    BY <1>0, <2>1, <2>4, <2>6, ChildFactsAt
  <2>8. Hanging(h, h[q].children[l])
    BY <2>7, Zenon DEF ChildFacts, Hanging
  <2>9. over[h[q].children[l]] = NextChild(h, after, q, l)
    BY <2>7, Zenon DEF ChildFacts
  <2>10. NextChild(h, after, q, l) = p
    BY <1>2, <1>7, <2>1, <2>2, <2>6 DEF NextChild
  <2> QED
    BY <1>4, <2>8, <2>9, <2>10
<1>9. NoneBefore(h, after, gone, r)
  BY <1>8 DEF NoneBefore
<1> QED
  BY <1>2, <1>6, <1>7, <1>9 DEF r

\* The way down from a node that nothing leads to ends at a leaf that nothing
\* leads to.
LEMMA FrontDown ==
  ASSUME NEW h, NEW lev, NEW bound, Bounded(h, lev, bound), NEW over, NEW after,
         NEW gone, NEW top, Fronted(h, lev, over, after, gone, top)
  PROVE  \A p \in Allocated(h) : p \notin gone /\ NoneBefore(h, after, gone, p) =>
           LET first == FirstLeaf(h, p)
           IN  /\ first \in Allocated(h) /\ first \notin gone /\ IsLeaf(h, first)
               /\ NoneBefore(h, after, gone, first)
<1> DEFINE Good(p) == LET first == FirstLeaf(h, p)
                      IN  /\ first \in Allocated(h) /\ first \notin gone /\ IsLeaf(h, first)
                          /\ NoneBefore(h, after, gone, first)
           S == Allocated(h)
           rank == [p \in S |-> lev[p]]
           T == {p \in S : p \notin gone /\ NoneBefore(h, after, gone, p) => Good(p)}
<1>0. h \in Heap /\ Tree(h, lev)
  BY DEF Fronted
<1>1. rank \in [S -> Nat] /\ \A p \in S : rank[p] = lev[p]
  BY <1>0 DEF Tree, Allocated
<1> HIDE DEF rank
<1>2. ASSUME NEW p \in S, \A t \in S : rank[t] < rank[p] => t \in T PROVE p \in T
  <2> SUFFICES ASSUME p \notin gone, NoneBefore(h, after, gone, p) PROVE Good(p)
    OBVIOUS
  <2>1. p \in PtrOrNone /\ p # None /\ (~ IsLeaf(h, p) <=> IsInternal(h, p))
    BY <1>0, Kinds DEF PtrOrNone
  <2>2. CASE IsInternal(h, p)
    <3> DEFINE c == h[p].children[0]
    <3>1. /\ c \in S /\ c \notin gone /\ lev[p] = lev[c] + 1
          /\ lev[p] \in Nat /\ lev[c] \in Nat
          /\ NoneBefore(h, after, gone, c)
      BY <2>2, FrontChild
    <3>2. FirstLeaf(h, p) = FirstLeaf(h, c)
      BY <2>1, <2>2, FirstLeafStep
    <3> HIDE DEF c, S
    <3>3. rank[c] < rank[p]
      BY <1>1, <3>1
    <3>4. Good(c)
      BY <1>2, <3>1, <3>3
    <3> QED
      BY <3>2, <3>4
  <2>3. CASE ~ IsInternal(h, p)
    <3>1. FirstLeaf(h, p) = p
      BY <2>1, <2>3, FirstLeafStep
    <3> QED
      BY <2>1, <2>3, <3>1
  <2> QED
    BY <2>2, <2>3
<1> HIDE DEF S, T
<1>3. \A p \in S : p \in T
  BY <1>1, <1>2, RankInduction
<1> QED
  BY <1>3 DEF S, T

\* All such ways end at the same leaf: they are part of the one from the root.
LEMMA FrontUp ==
  ASSUME NEW h, NEW lev, NEW bound, Bounded(h, lev, bound), NEW over, NEW after,
         NEW gone, NEW top, Fronted(h, lev, over, after, gone, top)
  PROVE  \A p \in Allocated(h) : p \notin gone /\ NoneBefore(h, after, gone, p) =>
           FirstLeaf(h, p) = FirstLeaf(h, top)
<1> DEFINE S == Allocated(h)
           rank == [p \in S |-> bound - lev[p]]
           T == {p \in S : p \notin gone /\ NoneBefore(h, after, gone, p) =>
                             FirstLeaf(h, p) = FirstLeaf(h, top)}
<1>0. h \in Heap /\ Tree(h, lev) /\ bound \in Nat
  BY DEF Fronted, Bounded
<1>1. \A p \in S : lev[p] \in Nat /\ lev[p] <= bound
  BY DEF Tree, Allocated, Bounded
<1>2. rank \in [S -> Nat] /\ \A p \in S : rank[p] = bound - lev[p]
  <2> HIDE DEF S
  <2>1. \A p \in S : bound - lev[p] \in Nat
    BY <1>0, <1>1
  <2> QED
    BY <2>1
<1> HIDE DEF rank
<1>3. ASSUME NEW p \in S, \A t \in S : rank[t] < rank[p] => t \in T PROVE p \in T
  <2> SUFFICES ASSUME p \notin gone, NoneBefore(h, after, gone, p), p # top
               PROVE  FirstLeaf(h, p) = FirstLeaf(h, top)
    OBVIOUS
  <2> DEFINE r == h[p].parent
  <2>1. /\ r \in S /\ r \notin gone /\ IsInternal(h, r)
        /\ lev[r] = lev[p] + 1 /\ h[r].children[0] = p
        /\ NoneBefore(h, after, gone, r)
    BY FrontParent
  <2>2. r \in PtrOrNone /\ r # None
    BY <1>0, <2>1, Kinds DEF PtrOrNone
  <2>3. FirstLeaf(h, r) = FirstLeaf(h, p)
    BY <2>1, <2>2, FirstLeafStep
  <2> HIDE DEF r, S
  <2>4. rank[r] < rank[p]
    BY <1>0, <1>1, <1>2, <2>1
  <2>5. FirstLeaf(h, r) = FirstLeaf(h, top)
    BY <1>3, <2>1, <2>4
  <2> QED
    BY <2>3, <2>5
<1> HIDE DEF S, T
<1>4. \A p \in S : p \in T
  BY <1>2, <1>3, RankInduction
<1> QED
  BY <1>4 DEF S, T

\* So the leaf list starts at the first leaf.
LEMMA FrontStarts ==
  ASSUME NEW h, NEW lev, NEW bound, Bounded(h, lev, bound), NEW over, NEW after,
         NEW gone, NEW top, Fronted(h, lev, over, after, gone, top)
  PROVE  ListStarts(h, gone, FirstLeaf(h, top))
<1> DEFINE first == FirstLeaf(h, top)
<1>0. h \in Heap /\ Tree(h, lev) /\ Levels(h, over, after, top, gone)
      /\ Headed(h, after, gone, top)
  BY DEF Fronted
<1>1. top \in Allocated(h) /\ top \notin gone
  BY <1>0 DEF Headed
<1>2. \A q \in Allocated(h) : LeadsOn(h, after, gone \cup {top}, q)
  BY <1>0, LevelsAt
<1>3. NoneBefore(h, after, gone, top)
  <2>1. top # None
    BY <1>0, <1>1, Kinds
  <2> SUFFICES ASSUME NEW q, LeadsTo(h, after, gone, q, top) PROVE FALSE
    BY DEF NoneBefore
  <2>2. q \in Allocated(h) /\ after[q] = top
    BY DEF LeadsTo
  <2> QED
    BY <1>2, <2>1, <2>2 DEF LeadsOn
<1>4. /\ first \in Allocated(h) /\ first \notin gone /\ IsLeaf(h, first)
      /\ NoneBefore(h, after, gone, first)
  BY <1>1, <1>3, FrontDown
<1> HIDE DEF first
<1>5. \A p : LeafIn(h, p) <=> p \in Allocated(h) /\ IsLeaf(h, p)
  BY DEF LeafIn, Allocated, IsLeaf
<1>6. ASSUME NEW p, LiveLeaf(h, gone, p)
      PROVE  /\ h[p].next = after[p] /\ p \in Allocated(h)
             /\ h[p].next = None \/ LiveLeaf(h, gone, h[p].next)
  <2>1. p \in Allocated(h) /\ IsLeaf(h, p) /\ p \notin gone
    BY <1>5, <1>6 DEF LiveLeaf
  <2>2. LeadsOn(h, after, gone \cup {top}, p)
    BY <1>2, <2>1
  <2>3. h[p].next = after[p]
    BY <2>1, <2>2 DEF LeadsOn
  <2>4. after[p] # None => /\ after[p] \in Allocated(h) /\ after[p] \notin gone
                           /\ IsLeaf(h, after[p])
    BY <2>1, <2>2 DEF LeadsOn, IsLeaf
  <2> QED
    BY <1>5, <2>1, <2>3, <2>4 DEF LiveLeaf
<1>7. ASSUME NEW p, LiveLeaf(h, gone, p)
      PROVE  NoneBefore(h, after, gone, p)
               <=> ~ (\E q : LiveLeaf(h, gone, q) /\ h[q].next = p)
  <2>0. p \in Allocated(h) /\ IsLeaf(h, p) /\ p # None
    BY <1>0, <1>5, <1>7, Kinds DEF LiveLeaf
  <2>1. ASSUME NEW q, LiveLeaf(h, gone, q), h[q].next = p
        PROVE  LeadsTo(h, after, gone, q, p)
    <3>1. q \in Allocated(h) /\ q \notin gone
      BY <1>5, <2>1 DEF LiveLeaf
    <3> QED
      BY <1>6, <2>1, <3>1 DEF LeadsTo
  <2>2. ASSUME NEW q, LeadsTo(h, after, gone, q, p)
        PROVE  LiveLeaf(h, gone, q) /\ h[q].next = p
    <3>1. q \in Allocated(h) /\ q \notin gone /\ after[q] = p
      BY <2>2 DEF LeadsTo
    <3>2. LeadsOn(h, after, gone \cup {top}, q)
      BY <1>2, <3>1
    <3>3. IsLeaf(h, q)
      BY <2>0, <3>1, <3>2 DEF LeadsOn, IsLeaf
    <3> QED
      BY <1>5, <3>1, <3>2, <3>3 DEF LiveLeaf, LeadsOn
  <2> QED
    BY <2>1, <2>2 DEF NoneBefore
<1>8. ASSUME NEW p, LiveLeaf(h, gone, p)
      PROVE  p = first <=> NoneBefore(h, after, gone, p)
  <2>1. p \in Allocated(h) /\ IsLeaf(h, p) /\ p \notin gone /\ p \in PtrOrNone
        /\ ~ IsInternal(h, p)
    BY <1>0, <1>5, <1>8, Kinds DEF LiveLeaf, PtrOrNone
  <2>2. FirstLeaf(h, p) = p
    BY <2>1, FirstLeafStep
  <2>3. NoneBefore(h, after, gone, p) => FirstLeaf(h, p) = first
    BY <2>1, FrontUp DEF first
  <2> QED
    BY <1>4, <2>2, <2>3
<1>9. LiveLeaf(h, gone, first)
  BY <1>4, <1>5 DEF LiveLeaf
<1>10. ListStarts(h, gone, first)
  BY <1>6, <1>7, <1>8, <1>9, Zenon DEF ListStarts
<1> QED
  BY <1>10 DEF first

-----------------------------------------------------------------------------
(***************************************************************************)
(* So it does in the middle of a call as well.                             *)
(***************************************************************************)

\* The tree below `top` has no empty node but those that are gone.
Full(h, gone) ==
  \A p \in Allocated(h) : p \notin gone /\ IsInternal(h, p) => h[p].length >= 1

\* A tree on its own has what the walk down its left edge uses.
LEMMA FrontedAlone ==
  ASSUME NEW h \in Heap, NEW lev, Tree(h, lev), NEW over, NEW after, NEW top,
         Levels(h, over, after, top, {}), SameOrder(h, over, after),
         top # None, Roots(h) = {top}, Full(h, {})
  PROVE  Fronted(h, lev, over, after, {}, top)
<1>1. top \in Allocated(h) /\ h[top].parent = None
  BY DEF Roots
<1>2. over[top] = None
  BY DEF Levels
<1>3. \A q \in Allocated(h) : over[q] = after[q]
  BY DEF SameOrder
<1>4. \A q \in Allocated(h) : q # None /\ (q = top \/ Hanging(h, q))
  BY Kinds DEF Roots, Hanging
<1>5. OrdersAgree(h, over, after, {})
  <2> SUFFICES ASSUME NEW p, Hanging(h, p)
               PROVE  NoneBefore(h, after, {}, p)
                        <=> \A q : Hanging(h, q) => over[q] # p
    BY DEF OrdersAgree
  <2>1. p # None
    BY <1>4 DEF Hanging
  <2> QED
    BY <1>2, <1>3, <1>4, <2>1 DEF Hanging, NoneBefore, LeadsTo
<1>6. Headed(h, after, {}, top)
  BY <1>1 DEF Headed, Full
<1> QED
  BY <1>5, <1>6 DEF Fronted

\* So have a tree and the half that was split off its node n.
LEMMA FrontedHalf ==
  ASSUME NEW h \in Heap, NEW lev, Tree(h, lev), NEW over, NEW after, NEW top,
         NEW n \in Allocated(h), NEW half, n # half,
         Levels(h, over, after, top, {}), HalfApart(h, over, after, n, half),
         top # None, top # half, Roots(h) = {top, half}, Full(h, {})
  PROVE  Fronted(h, lev, over, after, {}, top)
<1>1. /\ top \in Allocated(h) /\ h[top].parent = None
      /\ half \in Allocated(h) /\ h[half].parent = None
  BY DEF Roots
<1>2. over[top] = None
  BY DEF Levels
<1>3. /\ after[n] = half /\ over[n] = after[half]
      /\ \A q \in Allocated(h) : q = n \/ over[q] = after[q]
  BY DEF HalfApart
<1>4. \A q \in Allocated(h) : q # None /\ (q = top \/ q = half \/ Hanging(h, q))
  BY Kinds DEF Roots, Hanging
<1>5. OrdersAgree(h, over, after, {})
  <2> SUFFICES ASSUME NEW p, Hanging(h, p)
               PROVE  NoneBefore(h, after, {}, p)
                        <=> \A q : Hanging(h, q) => over[q] # p
    BY DEF OrdersAgree
  <2>1. p # None /\ p # half
    BY <1>1, <1>4 DEF Hanging
  <2>2. ASSUME NEW q, Hanging(h, q), over[q] = p
        PROVE  \E t : LeadsTo(h, after, {}, t, p)
    <3>1. q \in Allocated(h)
      BY <2>2 DEF Hanging
    <3>2. CASE q = n
      BY <1>1, <1>3, <2>2, <3>2 DEF LeadsTo
    <3>3. CASE q # n
      BY <1>3, <2>2, <3>1, <3>3 DEF LeadsTo
    <3> QED
      BY <3>2, <3>3
  <2>3. ASSUME NEW q, LeadsTo(h, after, {}, q, p)
        PROVE  \E t : Hanging(h, t) /\ over[t] = p
    <3>1. q \in Allocated(h) /\ after[q] = p
      BY <2>3 DEF LeadsTo
    <3>2. q # n
      BY <1>3, <2>1, <3>1
    <3>3. CASE q = half
      <4>1. over[n] = p
        BY <1>3, <3>1, <3>3
      <4>2. Hanging(h, n)
        BY <1>2, <1>4, <2>1, <4>1
      <4> QED
        BY <4>1, <4>2
    <3>4. CASE q # half
      <4>1. over[q] = p
        BY <1>3, <3>1, <3>2
      <4>2. Hanging(h, q)
        BY <1>2, <1>4, <2>1, <3>1, <3>4, <4>1
      <4> QED
        BY <4>1, <4>2
    <3> QED
      BY <3>3, <3>4
  <2> QED
    BY <2>2, <2>3 DEF NoneBefore
<1>6. Headed(h, after, {}, top)
  <2>1. LeadsTo(h, after, {}, n, half)
    BY <1>3 DEF LeadsTo
  <2> QED
    BY <1>1, <2>1 DEF Headed, Full, NoneBefore
<1> QED
  BY <1>5, <1>6 DEF Fronted

\* So has a tree in which src was emptied into dest.
LEMMA FrontedMerged ==
  ASSUME NEW h \in Heap, NEW lev, Tree(h, lev), NEW over, NEW after, NEW top,
         NEW dest \in Allocated(h), NEW src, Hanging(h, src),
         Levels(h, over, after, top, {src}), StillOver(h, over, after, dest, src),
         top # None, Roots(h) = {top}, Full(h, {src}),
         h[src].length = 0, h[src].index # 0
  PROVE  Fronted(h, lev, over, after, {src}, top)
<1>1. /\ top \in Allocated(h) /\ h[top].parent = None
      /\ src \in Allocated(h) /\ src # top
  BY DEF Roots, Hanging
<1>2. over[top] = None
  BY DEF Levels
<1>3. /\ over[dest] = src /\ over[src] = after[dest] /\ dest # src
      /\ \A q \in Allocated(h) : q = dest \/ q = src \/ over[q] = after[q]
  BY DEF StillOver
<1>4. \A q \in Allocated(h) : q # None /\ (q = top \/ Hanging(h, q))
  BY Kinds DEF Roots, Hanging
<1>5. OrdersAgree(h, over, after, {src})
  <2> SUFFICES ASSUME NEW p, Hanging(h, p), p # src
               PROVE  NoneBefore(h, after, {src}, p)
                        <=> \A q : Hanging(h, q) => over[q] # p
    BY DEF OrdersAgree
  <2>1. p # None
    BY <1>4 DEF Hanging
  <2>2. ASSUME NEW q, Hanging(h, q), over[q] = p
        PROVE  \E t : LeadsTo(h, after, {src}, t, p)
    <3>1. q \in Allocated(h) /\ q # dest
      BY <1>3, <2>2 DEF Hanging
    <3>2. CASE q = src
      BY <1>1, <1>3, <2>2, <3>2 DEF LeadsTo
    <3>3. CASE q # src
      BY <1>3, <2>2, <3>1, <3>3 DEF LeadsTo
    <3> QED
      BY <3>2, <3>3
  <2>3. ASSUME NEW q, LeadsTo(h, after, {src}, q, p)
        PROVE  \E t : Hanging(h, t) /\ over[t] = p
    <3>1. q \in Allocated(h) /\ after[q] = p /\ q # src
      BY <2>3 DEF LeadsTo
    <3>3. CASE q = dest
      BY <1>3, <3>1, <3>3
    <3>4. CASE q # dest
      <4>1. over[q] = p
        BY <1>3, <3>1, <3>4
      <4>2. Hanging(h, q)
        BY <1>2, <1>4, <2>1, <3>1, <4>1
      <4> QED
        BY <4>1, <4>2
    <3> QED
      BY <3>3, <3>4
  <2> QED
    BY <2>2, <2>3 DEF NoneBefore
<1>6. Headed(h, after, {src}, top)
  BY <1>1 DEF Headed, Full
<1> QED
  BY <1>5, <1>6 DEF Fronted

-----------------------------------------------------------------------------
(***************************************************************************)
(* Where the leaf list of the vector starts.                               *)
(***************************************************************************)

\* The node that a merge has emptied and the climb of remove has yet to unlink.
Gone == IF Removing THEN GoneIn(heap, node, removal) ELSE {}

\* So has the vector while nothing is being inserted or removed.
LEMMA FrontedAtRest ==
  ASSUME VecInv, ~ Inserting, ~ Removing, ~ Ended, Top # None
  PROVE  \E lev, over, after : Fronted(heap, lev, over, after, {}, Top)
<1>0. TypeInv /\ TreeInv /\ OrderInv /\ heap \in Heap
  BY DEF VecInv, TypeInv, TypeOK
<1>1. PICK lev \in [Ptr -> Nat] : OneTree(lev)
  BY <1>0, OneTreeThen
<1>2. PICK order \in [Ptr -> PtrOrNone] : Ordered(heap, order, root, {})
  BY <1>0, <1>1, OrderedThen
<1>3. Tree(heap, lev) /\ Top = root /\ Roots(heap) = {Top}
  BY <1>1 DEF OneTree, Top
<1>4. Levels(heap, order, order, Top, {}) /\ SameOrder(heap, order, order)
  BY <1>2, <1>3 DEF Ordered, SameOrder
<1>5. Full(heap, {})
  BY <1>0 DEF TreeInv, TreeInvAt, NonEmpty, IsEmptied, Full
<1>6. Fronted(heap, lev, order, order, {}, Top)
  BY <1>0, <1>3, <1>4, <1>5, FrontedAlone
<1> QED
  BY <1>6

\* So has, while insert climbs, any heap with the order and the roots of that
\* climb.
LEMMA FrontedInserting ==
  ASSUME NEW h \in Heap, NEW lev, Tree(h, lev), NEW top, NEW n \in Allocated(h),
         NEW half, HasHalfOrder(h, top, n, half), top # None,
         Roots(h) = {top, half} \ {None}, half # None => half # top /\ half # n,
         Full(h, {})
  PROVE  \E over, after : Fronted(h, lev, over, after, {}, top)
<1>1. PICK over, after : HalfOrder(h, over, after, top, n, half)
  BY DEF HasHalfOrder
<1>2. CASE half = None
  <2>1. Roots(h) = {top}
    BY <1>2
  <2>2. Fronted(h, lev, over, after, {}, top)
    BY <1>1, <1>2, <2>1, FrontedAlone DEF HalfOrder
  <2> QED
    BY <2>2
<1>3. CASE half # None
  <2>1. Roots(h) = {top, half}
    BY <1>3
  <2>2. Fronted(h, lev, over, after, {}, top)
    BY <1>1, <1>3, <2>1, FrontedHalf DEF HalfOrder
  <2> QED
    BY <2>2
<1> QED
  BY <1>2, <1>3

\* The tree and the half split off while insert climbs, with their order.
Growing(lev) ==
  /\ heap \in Heap /\ Tree(heap, lev) /\ Full(heap, {})
  /\ HasHalfOrder(heap, Top, node, split) /\ node \in Allocated(heap)
  /\ Top # None /\ Roots(heap) = {Top, split} \ {None}
  /\ split # None => split # Top /\ split # node
  /\ root # None => root \in Allocated(heap)
  /\ root # None /\ heap[root].parent # None => split = None /\ node = Top

\* OrderInv and TreeInv give it.
LEMMA GrowingThen ==
  ASSUME VecInv, Inserting, root # None
  PROVE  \E lev : Growing(lev)
<1>0. TypeInv /\ TreeInv /\ OrderInv /\ heap \in Heap /\ ~ Removing /\ ~ Ended /\ pc = "climb"
  BY DEF VecInv, TypeInv, TypeOK, Inserting, Removing, Ended
<1>1. PICK lev \in [Ptr -> Nat] : TreeInvAt(lev)
  BY <1>0 DEF TreeInv
<1>2. Tree(heap, lev) /\ SplitOK(lev) /\ RootsOK /\ NonEmpty
  BY <1>0, <1>1 DEF TreeInvAt
<1>3. HasHalfOrder(heap, Top, node, split)
  BY <1>0, HalfOrderThen
<1>4. Full(heap, {})
  BY <1>0, <1>2 DEF NonEmpty, IsEmptied, Full
<1>5. node \in Allocated(heap) /\ Roots(heap) = {Top, split} \ {None}
  BY <1>0, <1>2 DEF RootsOK
<1>6. split # None => split # Top /\ split # node
  BY <1>2 DEF SplitOK
<1>7. root # None => root \in Allocated(heap)
  BY <1>2 DEF RootsOK
<1>8. root # None /\ heap[root].parent # None => split = None /\ node = Top
  BY <1>2 DEF RootsOK, Top
<1>9. Top # None
  BY DEF Top
<1> QED
  BY <1>0, <1>2, <1>3, <1>4, <1>5, <1>6, <1>7, <1>8, <1>9 DEF Growing

\* The vector has what the walk uses while remove climbs.
LEMMA FrontedRemoving ==
  ASSUME VecInv, Removing
  PROVE  /\ Top # None
         /\ \E lev, over, after :
              Fronted(heap, lev, over, after, GoneIn(heap, node, removal), Top)
<1>0. TypeInv /\ TreeInv /\ OrderInv
  BY DEF VecInv
<1>1. PICK lev \in [Ptr -> Nat] : Shrinking(lev)
  BY <1>0, ShrinkingThen
<1>2. PICK over \in [Ptr -> PtrOrNone], after \in [Ptr -> PtrOrNone] :
        Reported(heap, over, after, root, {}, node, removal)
  BY <1>0, <1>1, ReportedThen
<1>3. /\ heap \in Heap /\ Tree(heap, lev) /\ root \in Allocated(heap)
      /\ heap[root].parent = None /\ Roots(heap) = {root} /\ node \in Allocated(heap)
      /\ RemovalFits(heap, node, removal) /\ removal \in Removal
      /\ \A p \in Allocated(heap) : IsInternal(heap, p) =>
           heap[p].length >= 1 \/ EmptiedBy(heap, node, removal, p)
  BY <1>1 DEF Shrinking
<1>4. root # None /\ Top = root
  BY <1>3, Kinds DEF Top
<1>5. /\ Levels(heap, over, after, root, {} \cup GoneIn(heap, node, removal))
      /\ MergeOrder(heap, over, after, node, removal)
  BY <1>2 DEF Reported
<1>6. CASE removal.kind # "Merged"
  <2>1. GoneIn(heap, node, removal) = {}
    BY <1>6 DEF GoneIn
  <2>2. Levels(heap, over, after, root, {}) /\ SameOrder(heap, over, after)
    BY <1>5, <1>6, <2>1 DEF MergeOrder
  <2>3. Full(heap, {})
    BY <1>3, <1>6 DEF EmptiedBy, Full
  <2>4. Fronted(heap, lev, over, after, {}, root)
    BY <1>3, <1>4, <2>2, <2>3, FrontedAlone
  <2> QED
    BY <1>4, <2>1, <2>4
<1>7. CASE removal.kind = "Merged"
  <2> DEFINE q == heap[node].parent
             src == heap[q].children[removal.src]
             dest == heap[q].children[removal.dest]
  <2>1. /\ SourceOf(heap, node, removal) = src /\ TargetOf(heap, node, removal) = dest
        /\ GoneIn(heap, node, removal) = {src}
    BY <1>7 DEF SourceOf, TargetOf, GoneIn
  <2>2. /\ q # None /\ removal.src \in Nat /\ removal.dest \in Nat
        /\ removal.src < heap[q].length /\ removal.dest < heap[q].length
        /\ heap[src].length = 0
    BY <1>3, <1>7 DEF RemovalFits, Removal
  <2>3. q \in Allocated(heap) /\ IsInternal(heap, q)
    BY <1>3, <2>2, ParentOf
  <2>4. /\ src \in Allocated(heap) /\ heap[src].parent = q /\ heap[src].index = removal.src
        /\ dest \in Allocated(heap)
    BY <1>3, <2>2, <2>3, ChildOf
  <2>5. removal.src = removal.dest + 1 /\ StillOver(heap, over, after, dest, src)
    BY <1>5, <1>7, <2>1 DEF MergeOrder
  <2>6. Hanging(heap, src) /\ heap[src].index # 0
    BY <2>2, <2>4, <2>5 DEF Hanging
  <2>7. Full(heap, {src})
    <3> SUFFICES ASSUME NEW p \in Allocated(heap), EmptiedBy(heap, node, removal, p)
                 PROVE  p = src
      BY <1>3 DEF Full
    <3>1. heap[p].parent = q /\ heap[p].parent # None /\ heap[p].index = removal.src
      BY DEF EmptiedBy
    <3> QED
      BY <1>3, <3>1, ParentOf
  <2>8. Levels(heap, over, after, root, {src})
    BY <1>5, <2>1
  <2> HIDE DEF src, dest, q
  <2>9. Fronted(heap, lev, over, after, {src}, root)
    BY <1>3, <1>4, <2>2, <2>4, <2>5, <2>6, <2>7, <2>8, FrontedMerged
  <2> QED
    BY <1>4, <2>1, <2>9
<1> QED
  BY <1>6, <1>7

\* So in each state of a call there is a top and all that makes the leaf list
\* start below it.
LEMMA FrontedThen ==
  ASSUME VecInv, ~ Ended, Top # None
  PROVE  \E lev, over, after : Fronted(heap, lev, over, after, Gone, Top)
<1>1. CASE Removing
  BY <1>1, FrontedRemoving DEF Gone
<1>2. CASE Inserting
  <2>1. ~ Removing /\ root # None
    BY <1>2 DEF Removing, Inserting, Top
  <2>2. PICK lev : Growing(lev)
    BY <1>2, <2>1, GrowingThen
  <2>3. \E over, after : Fronted(heap, lev, over, after, {}, Top)
    BY <2>2, FrontedInserting DEF Growing
  <2> QED
    BY <2>1, <2>3 DEF Gone
<1>3. CASE ~ Inserting /\ ~ Removing
  BY <1>3, FrontedAtRest DEF Gone
<1> QED
  BY <1>1, <1>2, <1>3

\* The leaf list of h ends and starts at `first`.
ListAt(h, gone, first) ==
  /\ \E rank, bound : Listed(h, rank, bound)
  /\ ListStarts(h, gone, first)

\* What is needed of the vector to read the leaf list from the root on: it ends,
\* and where handle_insertion has put a new root above `root`, that is the first
\* child of the new one.
ListInv ==
  ~ Ended => /\ ListEnds(heap)
             /\ pc # "idle" => root # None
             /\ root = None \/ Top = root \/ heap[root].index = 0

\* The way to the first leaf is the same from `root` and from the top.
LEMMA TopFirst ==
  ASSUME NEW lev, NEW bound, Bounded(heap, lev, bound), root \in Allocated(heap),
         Top = root \/ heap[root].index = 0
  PROVE  FirstLeaf(heap, root) = FirstLeaf(heap, Top)
<1>1. CASE Top = root
  BY <1>1
<1>2. CASE Top # root
  <2>0. heap \in Heap /\ Tree(heap, lev)
    BY DEF Bounded
  <2>1. Top = heap[root].parent /\ heap[root].parent # None /\ heap[root].index = 0
    BY <1>2 DEF Top
  <2>2. /\ Top \in Allocated(heap) /\ IsInternal(heap, Top)
        /\ heap[Top].children[0] = root
    BY <2>0, <2>1, ParentOf
  <2>3. Top \in PtrOrNone /\ Top # None
    BY <2>0, <2>2, Kinds DEF PtrOrNone
  <2> HIDE DEF Top
  <2> QED
    BY <2>2, <2>3, FirstLeafStep
<1> QED
  BY <1>1, <1>2

\* An empty vector has no items.
LEMMA NoItems ==
  ASSUME VecInv, FiniteInv, ListEnds(heap), root = None
  PROVE  Items = <<>>
<1>1. PICK lev \in [Ptr -> Nat] : Tree(heap, lev)
  BY DEF VecInv, TreeInv, TreeInvAt
<1>2. heap \in Heap /\ IsFiniteSet(Allocated(heap))
  BY DEF VecInv, TypeInv, TypeOK, FiniteInv
<1>3. PICK bound : Bounded(heap, lev, bound)
  BY <1>1, <1>2, FiniteTrees
<1>4. None \in PtrOrNone
  BY DEF PtrOrNone
<1>5. FirstLeaf(heap, None) = None
  BY <1>3, <1>4, FirstLeafStep
<1>6. PICK rank, high : EndsBy(heap, rank, high)
  BY DEF ListEnds
<1>7. ItemsFrom(heap, None) = <<>>
  BY <1>1, <1>2, <1>4, <1>6, ItemsFromStep
<1> QED
  BY <1>5, <1>7 DEF Items

\* The list of the vector's items starts at the first leaf and ends.
LEMMA ListThen ==
  ASSUME VecInv, FiniteInv, ListInv, ~ Ended, root # None
  PROVE  ListAt(heap, Gone, FirstLeaf(heap, root))
<1>1. heap \in Heap /\ IsFiniteSet(Allocated(heap))
  BY DEF VecInv, TypeInv, TypeOK, FiniteInv
<1>2. Top # None /\ root \in Allocated(heap)
  BY DEF Top, VecInv, TreeInv, TreeInvAt, RootsOK
<1>3. PICK lev, over, after : Fronted(heap, lev, over, after, Gone, Top)
  BY <1>2, FrontedThen
<1>4. Tree(heap, lev)
  BY <1>3 DEF Fronted
<1>5. PICK bound : Bounded(heap, lev, bound)
  BY <1>1, <1>4, FiniteTrees
<1>6. ListStarts(heap, Gone, FirstLeaf(heap, Top))
  BY <1>3, <1>5, FrontStarts
<1>7. FirstLeaf(heap, root) = FirstLeaf(heap, Top)
  BY <1>2, <1>5, TopFirst DEF ListInv
<1>8. \E rank, high : Listed(heap, rank, high)
  BY <1>1, <1>4 DEF Listed, ListInv, ListEnds
<1> QED
  BY <1>6, <1>7, <1>8 DEF ListAt

-----------------------------------------------------------------------------
(***************************************************************************)
(* The items of the vector have the places that the sizes give them.       *)
(***************************************************************************)

\* A node has nothing before its first leaf.
LEMMA FirstPlaced ==
  ASSUME NEW h, NEW lev, NEW w, NEW after, NEW before, NEW top, NEW total,
         NEW bound, Laid(h, lev, w, after, before, top, total, bound)
  PROVE  \A p \in Allocated(h) : before[FirstLeaf(h, p)] = before[p]
<1> DEFINE T == {p \in Allocated(h) : before[FirstLeaf(h, p)] = before[p]}
<1>0. Settled(h, lev, w, after, top, total, bound)
  BY DEF Laid
<1>1. Bounded(h, lev, bound)
  BY <1>0 DEF Settled, Bounded
<1>2. \A p \in Allocated(h) : p \in PtrOrNone /\ p # None /\ (~ IsLeaf(h, p) <=> IsInternal(h, p))
  BY <1>1, Kinds DEF Bounded, PtrOrNone
<1>3. ASSUME NEW p \in Allocated(h), IsLeaf(h, p) PROVE p \in T
  BY <1>1, <1>2, <1>3, FirstLeafStep
<1>4. ASSUME NEW p \in Allocated(h), IsInternal(h, p),
             \A i \in Nat : i < h[p].length => h[p].children[i] \in T
      PROVE  p \in T
  <2> DEFINE c == h[p].children[0]
  <2>1. h[p].length >= 1 /\ h[p].length \in 0..B /\ h[p].sizes \in SizeArray
    BY <1>0, <1>4, SettledAt
  <2>2. 0 \in Nat /\ 0 < h[p].length
    BY <2>1
  <2>3. Placed(h, lev, w, before, c, p, 0) /\ c \in T
    BY <1>4, <2>2, PlacedChild
  <2>4. PrefixSums(h[p].sizes)[0] = 0 /\ before[p] \in Nat
    <3>1. before[p] \in Nat
      BY LaidAt
    <3>2. PrefixSums(h[p].sizes)[0] = 0
      BY <2>1, SumsStep
    <3> QED
      BY <3>1, <3>2
  <2>5. before[c] = before[p]
    BY <2>3, <2>4 DEF Placed
  <2>6. FirstLeaf(h, p) = FirstLeaf(h, c)
    BY <1>1, <1>2, <1>4, FirstLeafStep
  <2> QED
    BY <2>3, <2>5, <2>6
<1> HIDE DEF T
<1>5. \A p \in Allocated(h) : p \in T
  BY <1>0, <1>3, <1>4, FromTheLeaves
<1> QED
  BY <1>5 DEF T

\* The offsets count the items on the leaf list.
LEMMA LaidCounts ==
  ASSUME NEW h, NEW lev, NEW w, NEW after, NEW before, NEW top, NEW total,
         NEW bound, Laid(h, lev, w, after, before, top, total, bound),
         top \in Allocated(h)
  PROVE  /\ CountsFrom(h, FirstLeaf(h, top), before)
         /\ \A p : LeafIn(h, p) =>
              before[p] + h[p].length = IF h[p].next = None THEN total
                                        ELSE before[h[p].next]
<1>0. Settled(h, lev, w, after, top, total, bound)
  BY DEF Laid
<1>1. before[FirstLeaf(h, top)] = 0
  BY FirstPlaced, LaidAt
<1>2. ASSUME NEW p, LeafIn(h, p)
      PROVE  /\ before[p] \in Nat
             /\ before[p] + h[p].length = IF h[p].next = None THEN total
                                          ELSE before[h[p].next]
  <2>1. p \in Allocated(h) /\ IsLeaf(h, p)
    BY <1>2 DEF LeafIn, Allocated, IsLeaf
  <2>2. w[p] = h[p].length
    BY <2>1 DEF Laid, Settled, Weight
  <2>3. h[p].next = after[p]
    BY <1>0, <2>1 DEF Settled, Levels, LeadsOn
  <2>4. EndsRight(w, after, before, total, p) /\ before[p] \in Nat
    BY <2>1, EndsAt, LaidAt
  <2> QED
    BY <2>2, <2>3, <2>4 DEF EndsRight
<1>3. ASSUME NEW p, NEW q, LeafIn(h, p), LeafIn(h, q), h[p].next = q
      PROVE  before[q] = before[p] + h[p].length
  <2>1. q # None
    BY <1>3, NodeAssumption DEF LeafIn
  <2> QED
    BY <1>2, <1>3, <2>1
<1>4. CountsFrom(h, FirstLeaf(h, top), before)
  BY <1>1, <1>2, <1>3 DEF CountsFrom
<1> QED
  BY <1>2, <1>4

\* There are as many as len() says.
LEMMA ItemsCounted ==
  ASSUME NEW h, NEW rank, NEW high, Listed(h, rank, high), NEW before, NEW total \in Nat,
         \A p : LeafIn(h, p) =>
              /\ before[p] \in Nat
              /\ before[p] + h[p].length = IF h[p].next = None THEN total
                                           ELSE before[h[p].next]
  PROVE  \A p : LeafIn(h, p) => before[p] + Len(ItemsFrom(h, p)) = total
<1> DEFINE T == {p \in Ptr : before[p] + Len(ItemsFrom(h, p)) = total}
<1>1. ASSUME NEW p, LeafIn(h, p), h[p].next = None \/ h[p].next \in T
      PROVE  p \in T
  <2> DEFINE c == Children(h, p)
             r == ItemsFrom(h, h[p].next)
  <2>1. /\ ItemsFrom(h, p) = c \o r /\ ItemsFrom(h, None) = <<>>
        /\ c \in Seq(Item) /\ Len(c) = h[p].length /\ h[p].length \in Nat
        /\ h[p].next = None \/ LeafIn(h, h[p].next)
    BY <1>1, ItemsStep
  <2>2. r \in Seq(Item)
    BY <2>1, ItemsType
  <2> HIDE DEF c, r
  <2>3. Len(ItemsFrom(h, p)) = Len(c) + Len(r) /\ Len(r) \in Nat
    <3>1. Len(c \o r) = Len(c) + Len(r)
      BY <2>1, <2>2, JoinPlaces
    <3>2. Len(r) \in Nat
      BY <2>2
    <3> QED
      BY <2>1, <3>1, <3>2
  <2>4. before[p] \in Nat
    BY <1>1
  <2>5. CASE h[p].next = None
    <3>1. r = <<>> /\ Len(<<>>) = 0
      BY <2>1, <2>5 DEF r
    <3>2. before[p] + h[p].length = total
      BY <1>1, <2>5
    <3>3. before[p] + Len(ItemsFrom(h, p)) = total
      BY <2>1, <2>3, <2>4, <3>1, <3>2
    <3> QED
      BY <1>1, <3>3 DEF LeafIn
  <2>6. CASE h[p].next # None
    <3>1. before[h[p].next] + Len(r) = total
      BY <1>1, <2>6 DEF r
    <3>2. before[p] + h[p].length = before[h[p].next] /\ before[h[p].next] \in Nat
      BY <1>1, <2>1, <2>6
    <3>3. before[p] + Len(ItemsFrom(h, p)) = total
      BY <2>1, <2>3, <2>4, <3>1, <3>2
    <3> QED
      BY <1>1, <3>3 DEF LeafIn
  <2> QED
    BY <2>5, <2>6
<1> HIDE DEF T
<1>2. \A p : LeafIn(h, p) => p \in T
  BY <1>1, ListInduction
<1> QED
  BY <1>2 DEF T

\* All that the reading of the vector's items relies on.
ReadInv == VecInv /\ FiniteInv /\ ListInv

\* A vector with a root has a list that starts at the root's first leaf.
LEMMA ListNow ==
  ReadInv /\ ~ Ended /\ root # None => ListAt(heap, Gone, FirstLeaf(heap, root))
BY ListThen DEF ReadInv

\* So it has in the next state.
LEMMA ListNext ==
  ReadInv' /\ ~ Ended' /\ root' # None =>
    ListAt(heap', Gone', FirstLeaf(heap', root'))
<1>1. (ReadInv /\ ~ Ended /\ root # None => ListAt(heap, Gone, FirstLeaf(heap, root)))'
  BY ListNow, PTL
<1> QED
  BY <1>1

\* A step that leaves the leaves as they are, but for one that was gone.
LEMMA KeptStep ==
  ASSUME ReadInv, ~ Ended, root # None, VecInv', FiniteInv', ~ Ended', root' # None,
         Top' = root' \/ heap'[root'].index = 0,
         KeepsLeaves(heap, Gone, heap', Gone')
  PROVE  ReadInv' /\ Items' = Items
<1> DEFINE first == FirstLeaf(heap, root)
           first1 == FirstLeaf(heap', root')
<1>1. ListAt(heap, Gone, first)
  BY ListNow
<1>2. PICK rank, bound : Listed(heap, rank, bound)
  BY <1>1 DEF ListAt
<1>3. ListStarts(heap, Gone, first) /\ EndsBy(heap, rank, bound)
  BY <1>1, <1>2 DEF ListAt, Listed
<1> HIDE DEF first
<1>4. EndsBy(heap', rank, bound)
  BY <1>3, KeptEnds
<1>5. ReadInv'
  BY <1>4 DEF ReadInv, ListInv, ListEnds
<1>6. ListAt(heap', Gone', first1)
  BY <1>5, ListNext
<1>7. PICK rank1, bound1 : Listed(heap', rank1, bound1)
  BY <1>6 DEF ListAt
<1>8. ListStarts(heap', Gone', first1)
  BY <1>6 DEF ListAt
<1> HIDE DEF first1
<1>9. first1 = first /\ ItemsFrom(heap', first) = ItemsFrom(heap, first)
  BY <1>2, <1>3, <1>7, <1>8, KeptItems
<1>10. Items' = ItemsFrom(heap', first1) /\ Items = ItemsFrom(heap, first)
  BY DEF Items, first, first1
<1> QED
  BY <1>5, <1>9, <1>10

-----------------------------------------------------------------------------
(***************************************************************************)
(* Which leaves an operation above the leaves keeps: all.                  *)
(***************************************************************************)

\* A heap in which a leaf has what it had.
LEMMA SameLeafBy ==
  ASSUME NEW h, NEW g, NEW p, LeafIn(h, p), g[p].kind = h[p].kind,
         g[p].length = h[p].length, g[p].children = h[p].children, g[p].next = h[p].next
  PROVE  SameLeaf(h, g, p)
BY DEF SameLeaf, LeafIn, IsLeaf, Children

\* The leaves of both are the same.
LeavesStay(h, g) ==
  \A p \in Ptr : IsLeaf(h, p) \/ IsLeaf(g, p) =>
    /\ g[p].kind = h[p].kind /\ g[p].length = h[p].length
    /\ g[p].children = h[p].children /\ g[p].next = h[p].next

\* Nothing that is gone comes or goes.
LEMMA StayKeeps ==
  ASSUME NEW h, NEW g, LeavesStay(h, g), NEW gone, NEW gone1,
         \A p \in gone \cup gone1 : ~ LeafIn(h, p)
  PROVE  KeepsLeaves(h, gone, g, gone1)
<1>1. ASSUME NEW p, LeafIn(h, p) PROVE SameLeaf(h, g, p)
  BY <1>1, SameLeafBy DEF LeafIn, LeavesStay
<1>2. \A p : LeafIn(g, p) => LeafIn(h, p)
  BY DEF LeafIn, LeavesStay, IsLeaf
<1> QED
  BY <1>1, <1>2 DEF KeepsLeaves, LiveLeaf

\* Two operations that keep the leaves keep them together.
LEMMA StayTwice ==
  ASSUME NEW h, NEW f, NEW g, LeavesStay(h, f), LeavesStay(f, g)
  PROVE  LeavesStay(h, g)
BY DEF LeavesStay, IsLeaf

\* simple_insert of a child keeps the leaves.
LEMMA ChildInsertedStays ==
  ASSUME NEW h, NEW g, NEW n, IsInternal(h, n), NEW i, NEW c, NEW sz,
         ChildInserted(h, g, n, i, c, sz)
  PROVE  LeavesStay(h, g)
BY DEF LeavesStay, ChildInserted, IsLeaf, IsInternal

\* So does simple_remove of a child.
LEMMA ChildRemovedStays ==
  ASSUME NEW h, NEW g, NEW n, IsInternal(h, n), NEW i, ChildRemoved(h, g, n, i)
  PROVE  LeavesStay(h, g)
BY DEF LeavesStay, ChildRemoved, IsLeaf, IsInternal

\* So does merge of internal nodes.
LEMMA MergedStays ==
  ASSUME NEW h, NEW g, NEW dest, NEW src, IsInternal(h, dest), IsInternal(h, src),
         NodesMerged(h, g, dest, src)
  PROVE  LeavesStay(h, g)
BY DEF LeavesStay, NodesMerged, IsLeaf, IsInternal

\* So does split of an internal node.
LEMMA SplitStays ==
  ASSUME NEW h, NEW g, NEW n, IsInternal(h, n), NEW left, NEW new \in Free(h),
         NodeSplit(h, g, n, left, new)
  PROVE  LeavesStay(h, g)
BY DEF LeavesStay, NodeSplit, IsLeaf, IsInternal, Free

\* So does a change to the sizes of a node.
LEMMA ResizedStays ==
  ASSUME NEW h, NEW g, NEW n, Resized(h, g, n)
  PROVE  LeavesStay(h, g)
BY DEF LeavesStay, Resized, IsLeaf

\* So does any change to nodes above the leaves.
LEMMA FrameStays ==
  ASSUME NEW h, NEW g, NEW lev, Tree(h, lev), NEW k, k # 0, Spares(h, g, lev, k),
         Allocated(g) = Allocated(h)
  PROVE  LeavesStay(h, g)
BY DEF LeavesStay, Spares, IsLeaf, Tree, Allocated

-----------------------------------------------------------------------------
(***************************************************************************)
(* The steps that leave the items alone.                                   *)
(***************************************************************************)

\* Outside the climb of insert the root is on top.
LEMMA TopNow == VecInv /\ ~ Inserting /\ ~ Ended => Top = root
<1> SUFFICES ASSUME VecInv, ~ Inserting, ~ Ended PROVE Top = root
  OBVIOUS
<1>1. TypeInv /\ TreeInv
  BY DEF VecInv
<1>2. PICK lev \in [Ptr -> Nat] : OneTree(lev)
  BY <1>1, OneTreeThen
<1> QED
  BY <1>2 DEF OneTree, Top

\* In the next state it is as well.
LEMMA TopNext == VecInv' /\ ~ Inserting' /\ ~ Ended' => Top' = root'
<1>1. (VecInv /\ ~ Inserting /\ ~ Ended => Top = root)'
  BY TopNow, PTL
<1> QED
  BY <1>1

\* A call that runs has a root.
LEMMA RunningRoot ==
  ASSUME ReadInv, pc \in {"seek", "climb", "return"}
  PROVE  ~ Ended /\ root # None
BY DEF ReadInv, ListInv, Ended

\* Leaves that stay, with nothing gone before or after.
LEMMA StayStep ==
  ASSUME ReadInv, ~ Ended, root # None, VecInv', FiniteInv', ~ Ended', root' # None,
         Top' = root' \/ heap'[root'].index = 0,
         LeavesStay(heap, heap'), Gone = {}, Gone' = {}
  PROVE  ReadInv' /\ Items' = Items
<1>1. KeepsLeaves(heap, Gone, heap', Gone')
  <2>1. \A p \in {} \cup {} : ~ LeafIn(heap, p)
    OBVIOUS
  <2>2. KeepsLeaves(heap, {}, heap', {})
    BY <2>1, StayKeeps
  <2> QED
    BY <2>2
<1> QED
  BY <1>1, KeptStep

\* The leaves of one heap.
LEMMA SameStays ==
  ASSUME NEW h, NEW g, g = h
  PROVE  LeavesStay(h, g)
BY DEF LeavesStay

\* A step that changes no node keeps the items: leaf_for, the reads and the ends
\* of calls that read.
LEMMA ReadKept ==
  ASSUME ReadInv, VecInv', FiniteInv', ~ Ended', ~ Ended, root # None,
         ~ Inserting, ~ Removing, ~ Inserting', ~ Removing', UNCHANGED <<heap, root>>
  PROVE  ReadInv' /\ Items' = Items
<1>1. Gone = {} /\ Gone' = {}
  BY DEF Gone
<1>2. Top' = root'
  BY TopNext
<1>3. LeavesStay(heap, heap')
  BY SameStays
<1> QED
  BY <1>1, <1>2, <1>3, StayStep

\* The end of insert keeps the items.
LEMMA FinishInsertKept ==
  ASSUME ReadInv, VecInv', FiniteInv', FinishInsert
  PROVE  ReadInv' /\ Items' = Items
<1>1. /\ pc = "climb" /\ request.op = "insert" /\ heap[node].parent = None
      /\ root' = node /\ pc' = "idle" /\ heap' = heap
  BY DEF FinishInsert, Inserting, Leave
<1>2. ~ Ended /\ root # None /\ ~ Ended' /\ Gone = {} /\ Gone' = {} /\ ~ Inserting'
  BY <1>1, RunningRoot DEF Ended, Gone, Removing, Inserting
<1>3. root' # None
  <2>1. node \in Ptr
    BY <1>1 DEF ReadInv, VecInv, TypeInv, CallOK
  <2> QED
    BY <1>1, <2>1, NodeAssumption
<1>4. Top' = root'
  BY <1>2, TopNext
<1>5. LeavesStay(heap, heap')
  BY <1>1, SameStays
<1> QED
  BY <1>2, <1>3, <1>4, <1>5, StayStep

\* So does handle_insertion with nothing split.
LEMMA ClimbInsertKept ==
  ASSUME ReadInv, VecInv', FiniteInv', NoPanic', ClimbInsert
  PROVE  ReadInv' /\ Items' = Items
<1> DEFINE parent == heap[node].parent
           i == heap[node].index
<1>1. Inserting /\ pc = "climb" /\ heap[node].parent # None
  BY DEF ClimbInsert, Inserting
<1>2. /\ heap' = Credit(heap, parent, i)
      /\ UNCHANGED <<root, size, request, pc, index, held, split, removal>>
  BY DEF ClimbInsert, Panic, Leave, NoPanic
<1>3. TypeInv /\ TreeInv
  BY DEF ReadInv, VecInv
<1>4. PICK lev \in [Ptr -> Nat] : Climbing(lev)
  BY <1>1, <1>3, ClimbingThen
<1>5. heap \in Heap /\ Tree(heap, lev) /\ node \in Allocated(heap) /\ Top = root
  BY <1>1, <1>4 DEF Climbing
<1>6. parent \in Ptr
  BY <1>1, <1>5, ParentOf DEF Allocated
<1>7. Resized(heap, heap', parent)
  BY <1>2, <1>5, <1>6, CreditResized
<1>8. ~ Ended /\ root # None /\ ~ Ended' /\ root' # None /\ Gone = {} /\ Gone' = {}
  BY <1>1, <1>2, RunningRoot DEF Ended, Gone, Removing, Inserting
<1>9. Top' = root'
  <2>1. root \in Allocated(heap) /\ heap[root].parent = None
    <3>1. root \in Allocated(heap)
      BY <1>4, <1>8 DEF Climbing
    <3>2. Top \in Roots(heap)
      BY <1>4, <1>5, <1>8, ClimbInsert DEF Climbing, ClimbInsert
    <3> QED
      BY <1>5, <3>1, <3>2 DEF Roots
  <2>2. heap'[root].parent = None
    BY <1>7, <2>1 DEF Resized, Allocated
  <2> QED
    BY <1>2, <2>2 DEF Top
<1>10. LeavesStay(heap, heap')
  BY <1>7, ResizedStays
<1> QED
  BY <1>8, <1>9, <1>10, StayStep

\* insert_once of a child keeps the leaves.
LEMMA InsertChildStays ==
  ASSUME NEW h \in Heap, NEW lev, Tree(h, lev), NEW n \in Allocated(h), IsInternal(h, n),
         NEW i, NEW entry, InsertOK(h, lev, n, i, entry), NEW new,
         h[n].length = B => new \in Free(h)
  PROVE  LeavesStay(h, InsertOnce(h, n, i, entry, new).heap)
<1> SUFFICES ASSUME NEW r, r = InsertOnce(h, n, i, entry, new)
             PROVE  LeavesStay(h, r.heap)
  OBVIOUS
<1>1. h[n].length \in 0..B /\ n \in Ptr /\ ~ IsLeaf(h, n)
  BY Kinds
<1>2. lev[n] # 0
  BY <1>1 DEF Tree
<1>3. CASE h[n].length < B
  <2>1. InsertedOnce(h, r, lev, n, entry.slot, new)
    BY <1>1, <1>3, InsertOnceTree
  <2>2. Spares(h, r.heap, lev, lev[n]) /\ Allocated(r.heap) = Allocated(h)
    BY <1>3, <2>1 DEF InsertedOnce, Inserted
  <2> QED
    BY <1>2, <2>2, FrameStays
<1>4. CASE h[n].length = B
  <2>1. PICK left \in 1..(B - 1), m \in {n, new}, j \in Nat :
          SplitFirst(h, r, lev, n, entry, new, left, m, j)
    BY <1>4, InsertOnceSplits
  <2> DEFINE f == Split(h, n, left, new)
             lev2 == Beside(lev, n, new)
  <2>2. /\ r.heap = SimpleInsert(f, m, j, entry)
        /\ f \in Heap /\ NodeSplit(h, f, n, left, new) /\ Tree(f, lev2)
        /\ InsertOK(f, lev2, m, j, entry) /\ f[m].length < B
    BY <2>1 DEF SplitFirst
  <2>3. LeavesStay(h, f)
    BY <1>4, <2>2, SplitStays
  <2>4. new \in Ptr
    BY <1>4 DEF Free
  <2>5. f[m].kind = h[n].kind /\ m \in Allocated(f)
    BY <1>1, <2>2, <2>4 DEF NodeSplit, InsertOK
  <2> HIDE DEF f, lev2
  <2>6. Inserted(f, r.heap, lev2, m, entry.slot)
    BY <2>2, SimpleInsertTree
  <2>7. lev2[m] # 0
    BY <1>1, <2>2, <2>5 DEF Tree, IsLeaf
  <2>8. LeavesStay(f, r.heap)
    BY <2>2, <2>6, <2>7, FrameStays DEF Inserted
  <2> QED
    BY <2>3, <2>8, StayTwice
<1> QED
  BY <1>1, <1>3, <1>4, NodeAssumption

\* handle_insertion with a half to link keeps the items.
LEMMA ClimbSplitKept ==
  ASSUME ReadInv, VecInv', FiniteInv', NoPanic', ClimbSplit
  PROVE  ReadInv' /\ Items' = Items
<1> DEFINE parent == heap[node].parent
           i == heap[node].index
           new == Fresh(heap)
<1>1. Inserting /\ pc = "climb" /\ heap[node].parent # None /\ split # None
  BY DEF ClimbSplit, Inserting
<1>2. ~ LinkPanics(heap, parent, i)
  BY DEF ClimbSplit, Panic, Leave, NoPanic
<1>3. TypeInv /\ TreeInv
  BY DEF ReadInv, VecInv
<1>4. PICK lev \in [Ptr -> Nat] : Climbing(lev)
  BY <1>1, <1>3, ClimbingThen
<1>5. PICK g, r : /\ HalfLinked(heap, g, r, lev, parent, i, new)
                  /\ heap' = r.heap /\ split' = r.split /\ node' = parent
                  /\ UNCHANGED <<root, size, request, pc, index, held, removal>>
  BY <1>2, <1>3, <1>4, ClimbSplitLinks
<1> HIDE DEF parent, i, new
<1> DEFINE entry == Entry(split, NodeSize(heap, split))
<1>6. /\ parent \in Allocated(heap) /\ parent \in Ptr /\ IsInternal(heap, parent)
      /\ Resized(heap, g, parent) /\ g \in Heap
      /\ Tree(g, lev) /\ Allocated(g) = Allocated(heap) /\ Roots(g) = Roots(heap)
      /\ g[parent].length = B => new \in Free(g)
      /\ InsertOK(g, lev, parent, i + 1, entry)
      /\ r = InsertOnce(g, parent, i + 1, entry, new)
      /\ InsertedOnce(g, r, lev, parent, split, new)
  BY <1>5 DEF HalfLinked
<1>7. LeavesStay(heap, g)
  BY <1>6, ResizedStays
<1>8. IsInternal(g, parent)
  BY <1>6 DEF Resized, IsInternal
<1> HIDE DEF entry
<1>9. LeavesStay(g, r.heap)
  BY <1>6, <1>8, InsertChildStays
<1>10. LeavesStay(heap, heap')
  BY <1>5, <1>7, <1>9, StayTwice
<1>11. ~ Ended /\ root # None /\ ~ Ended' /\ root' # None /\ Gone = {} /\ Gone' = {}
  BY <1>1, <1>5, RunningRoot DEF Ended, Gone, Removing, Inserting
<1>12. Top' = root'
  <2>1. Top = root /\ root # split /\ Roots(heap) = {Top, split} \ {None}
    BY <1>1, <1>4 DEF Climbing
  <2>2. root \in Roots(g) \ {split}
    BY <1>6, <1>11, <2>1
  <2>3. root \in Roots(r.heap)
    BY <1>6, <2>2 DEF InsertedOnce, Inserted
  <2> QED
    BY <1>5, <2>3 DEF Roots, Top
<1> QED
  BY <1>10, <1>11, <1>12, StayStep

\* The new root takes the old one as its first child.
LEMMA GrowRootKept ==
  ASSUME ReadInv, VecInv', FiniteInv', NoPanic', GrowRoot
  PROVE  ReadInv' /\ Items' = Items
<1> DEFINE parent == Fresh(heap)
           entry == Entry(node, size)
           entry2(c) == Entry(split, NodeSize(c, split))
<1>1. Inserting /\ pc = "climb" /\ split # None
  BY DEF GrowRoot, Inserting
<1>2. ~ LinkPanics(SimpleInsert(Alloc(heap, parent, "internal"), parent, 0, entry),
                   parent, heap[node].index)
  BY DEF GrowRoot, Panic, Leave, NoPanic
<1>3. TypeInv /\ TreeInv
  BY DEF ReadInv, VecInv
<1>4. PICK lev \in [Ptr -> Nat] : Climbing(lev)
  BY <1>1, <1>3, ClimbingThen
<1>5. PICK lev2, f, c, g, r :
        /\ Crowned(heap, f, c, lev2, parent, entry, split)
        /\ HalfLinked(c, g, r, lev2, parent, 0, None)
        /\ heap' = r.heap /\ split' = None /\ node' = parent
        /\ node = root
        /\ UNCHANGED <<root, size, request, pc, index, held, removal>>
  BY <1>2, <1>3, <1>4, GrowRootLinks
<1>6. entry.slot = root
  BY <1>5 DEF Entry
<1>7. root \in Ptr /\ split # root
  BY <1>1, <1>4, <1>5 DEF Climbing, Allocated
<1> HIDE DEF parent, entry
<1>8. /\ f \in Heap /\ Tree(f, lev2) /\ IsInternal(f, parent) /\ f[parent].length < B
      /\ \A p \in Ptr : p # parent => f[p] = heap[p]
      /\ parent \in Ptr /\ parent \notin Allocated(heap)
      /\ InsertOK(f, lev2, parent, 0, entry)
      /\ c \in Heap /\ c = SimpleInsert(f, parent, 0, entry)
      /\ IsInternal(c, parent) /\ c[parent].length = 1
      /\ Inserted(f, c, lev2, parent, entry.slot)
  BY <1>5 DEF Crowned
<1>9. /\ parent \in Allocated(c) /\ Resized(c, g, parent) /\ g \in Heap
      /\ Tree(g, lev2)
      /\ InsertOK(g, lev2, parent, 0 + 1, entry2(c))
      /\ r = InsertOnce(g, parent, 0 + 1, entry2(c), None)
  BY <1>5 DEF HalfLinked
<1>10. entry2(c).slot = split
  BY DEF Entry
<1> HIDE DEF entry2
<1>11. LeavesStay(heap, f)
  BY <1>8 DEF LeavesStay, IsLeaf, IsInternal, Allocated
<1>12. lev2[parent] # 0
  BY <1>8 DEF InsertOK, Tree, IsLeaf, IsInternal
<1>13. LeavesStay(f, c)
  BY <1>8, <1>12, FrameStays DEF Inserted
<1>14. LeavesStay(c, g)
  BY <1>9, ResizedStays
<1>15. IsInternal(g, parent) /\ g[parent].length = 1
  BY <1>8, <1>9 DEF Resized, IsInternal
<1>16. parent \in Allocated(g) /\ 1 < B /\ 1 # B
  BY <1>8, <1>15, NodeAssumption DEF Allocated, IsInternal
<1>17. LeavesStay(g, r.heap)
  BY <1>9, <1>15, <1>16, InsertChildStays
<1>18. LeavesStay(heap, heap')
  <2>1. LeavesStay(heap, c)
    BY <1>11, <1>13, StayTwice
  <2>2. LeavesStay(heap, g)
    BY <2>1, <1>14, StayTwice
  <2>3. LeavesStay(heap, r.heap)
    BY <2>2, <1>17, StayTwice
  <2> QED
    BY <1>5, <2>3
<1>19. heap'[root].index = 0
  <2>1. parent \in Allocated(f) /\ 0 \in 0..f[parent].length
        /\ entry \in [slot : Slot, size : Nat] /\ entry.slot \in Roots(f)
    BY <1>8 DEF InsertOK, IsLeaf, IsInternal
  <2>2. ChildInserted(f, c, parent, 0, entry.slot, entry.size)
    BY <1>8, <2>1, SimpleInsertInternal
  <2>3. c[root].index = 0
    BY <1>6, <1>7, <2>2 DEF ChildInserted
  <2>4. g[root].index = 0
    BY <1>7, <1>9, <2>3 DEF Resized
  <2>5. 0 + 1 \in 0..g[parent].length
        /\ entry2(c) \in [slot : Slot, size : Nat] /\ entry2(c).slot \in Roots(g)
    BY <1>9, <1>15 DEF InsertOK, IsLeaf, IsInternal
  <2>6. g[parent].length < B
    BY <1>15, <1>16
  <2>7. r.heap = SimpleInsert(g, parent, 0 + 1, entry2(c))
    BY <1>9, <2>6 DEF InsertOnce
  <2>8. ChildInserted(g, SimpleInsert(g, parent, 0 + 1, entry2(c)), parent, 0 + 1,
                      entry2(c).slot, entry2(c).size)
    BY <1>9, <1>15, <1>16, <2>5, <2>6, SimpleInsertInternal
  <2>9. ChildInserted(g, r.heap, parent, 0 + 1, split, entry2(c).size)
    BY <1>10, <2>7, <2>8
  <2>10. r.heap[root].index = 0
    BY <1>7, <2>4, <2>9 DEF ChildInserted
  <2> QED
    BY <1>5, <2>10
<1>20. ~ Ended /\ root # None /\ ~ Ended' /\ root' # None /\ Gone = {} /\ Gone' = {}
  BY <1>1, <1>5, RunningRoot DEF Ended, Gone, Removing, Inserting
<1> QED
  BY <1>5, <1>18, <1>19, <1>20, StayStep

\* handle_removal of Moved and Absorbed keeps the items.
LEMMA ClimbRemoveKept ==
  ASSUME ReadInv, VecInv', FiniteInv', NoPanic', ClimbRemove
  PROVE  ReadInv' /\ Items' = Items
<1> DEFINE parent == heap[node].parent
<1>1. Removing /\ pc = "climb" /\ removal.kind # "Merged" /\ request.op = "remove"
  BY DEF ClimbRemove, Removing
<1>2. /\ heap' = Debit(heap, parent) /\ removal' = Absorbed(heap, parent)
      /\ UNCHANGED <<root, size, request, pc, index, held, split>> /\ parent # None
  BY DEF ClimbRemove, Panic, Leave, NoPanic
<1>3. TypeInv /\ TreeInv
  BY DEF ReadInv, VecInv
<1>4. PICK lev \in [Ptr -> Nat] : Shrinking(lev)
  BY <1>1, <1>3, ShrinkingThen
<1>5. heap \in Heap /\ Tree(heap, lev) /\ node \in Allocated(heap)
  BY <1>4 DEF Shrinking
<1>6. parent \in Ptr
  BY <1>2, <1>5, ParentOf DEF Allocated
<1>7. Resized(heap, heap', parent)
  BY <1>2, <1>5, <1>6, DebitResized
<1>8. LeavesStay(heap, heap')
  BY <1>7, ResizedStays
<1>9. ~ Ended /\ root # None /\ ~ Ended' /\ root' # None
  BY <1>1, <1>2, RunningRoot DEF Ended
<1>10. Gone = {} /\ Gone' = {}
  <2>1. removal'.kind = "Absorbed"
    BY <1>2 DEF Absorbed
  <2> QED
    BY <1>1, <2>1 DEF Gone, GoneIn
<1>11. Top' = root'
  BY <1>1, <1>2, <1>9, TopNext DEF Inserting
<1> QED
  BY <1>8, <1>9, <1>10, <1>11, StayStep

\* A node that a merge has emptied is on the level of the current one.
LEMMA GoneAbove ==
  VecInv /\ Removing /\ IsInternal(heap, node) => \A p \in Gone : ~ LeafIn(heap, p)
<1> SUFFICES ASSUME VecInv, Removing, IsInternal(heap, node), NEW p \in Gone,
                    LeafIn(heap, p)
             PROVE  FALSE
  OBVIOUS
<1> DEFINE q == heap[node].parent
<1>1. TypeInv /\ TreeInv
  BY DEF VecInv
<1>2. PICK lev \in [Ptr -> Nat] : Shrinking(lev)
  BY <1>1, ShrinkingThen
<1>3. /\ heap \in Heap /\ Tree(heap, lev) /\ node \in Allocated(heap)
      /\ RemovalFits(heap, node, removal) /\ removal \in Removal
  BY <1>2 DEF Shrinking
<1>4. removal.kind = "Merged" /\ p = heap[q].children[removal.src]
  BY DEF Gone, GoneIn, SourceOf
<1>5. q # None /\ removal.src \in Nat /\ removal.src < heap[q].length
  BY <1>3, <1>4 DEF RemovalFits, Removal
<1>6. q \in Allocated(heap) /\ IsInternal(heap, q) /\ lev[q] = lev[node] + 1
  BY <1>3, <1>5, ParentOf
<1> HIDE DEF q
<1>7. p \in Allocated(heap) /\ lev[q] = lev[p] + 1
  BY <1>3, <1>4, <1>5, <1>6, ChildOf
<1>8. lev[p] = 0 /\ lev[node] # 0 /\ lev[p] \in Nat /\ lev[node] \in Nat
  BY <1>3, <1>7 DEF LeafIn, Tree, IsLeaf, IsInternal, Allocated
<1> QED
  BY <1>6, <1>7, <1>8

\* In the next state it is as well.
LEMMA GoneAboveNext ==
  VecInv' /\ Removing' /\ IsInternal(heap', node') => \A p \in Gone' : ~ LeafIn(heap', p)
<1>1. (VecInv /\ Removing /\ IsInternal(heap, node) =>
         \A p \in Gone : ~ LeafIn(heap, p))'
  BY GoneAbove, PTL
<1> QED
  BY <1>1 DEF LeafIn

\* handle_removal of Merged: the emptied leaf was out of the list already.
LEMMA ClimbMergeKept ==
  ASSUME ReadInv, VecInv', FiniteInv', NoPanic', ClimbMerge
  PROVE  ReadInv' /\ Items' = Items
<1> DEFINE q == heap[node].parent
           src == removal.src
           x == heap[q].children[src]
<1>1. Removing /\ pc = "climb" /\ removal.kind = "Merged" /\ request.op = "remove"
  BY DEF ClimbMerge, Removing
<1>2. TypeInv /\ TreeInv /\ ~ Panic
  BY DEF ReadInv, VecInv, Panic, Leave, NoPanic
<1>3. PICK lev \in [Ptr -> Nat] : Shrinking(lev)
  BY <1>1, <1>2, ShrinkingThen
<1>4. PICK g, r : /\ Unlinked(heap, g, r, heap', lev, q, src)
                  /\ removal' = r.removal /\ node' = q
                  /\ UNCHANGED <<root, size, request, pc, index, held, split>>
  BY <1>2, <1>3, ClimbMergeUnlinks
<1>5. Gone = {x}
  BY <1>1 DEF Gone, GoneIn, SourceOf
<1>6. x = heap[q].children[src]
  OBVIOUS
<1> HIDE DEF q, src, x
<1>7. /\ q \in Allocated(heap) /\ q \in Ptr /\ IsInternal(heap, q) /\ x \in Ptr
      /\ Resized(heap, g, q) /\ g \in Heap
      /\ Tree(g, lev) /\ Allocated(g) = Allocated(heap)
      /\ RemovedOnce(g, r, lev, q, src) /\ r.heap \in Heap
      /\ heap' = Dealloc(r.heap, x)
      /\ \A p \in Ptr : p # x => heap'[p] = r.heap[p]
  BY <1>4, <1>6 DEF Unlinked
<1>8. LeavesStay(heap, g)
  BY <1>7, ResizedStays
<1>9. lev[q] # 0 /\ IsInternal(g, q)
  BY <1>7 DEF Tree, Resized, IsLeaf, IsInternal
<1>10. Spares(g, r.heap, lev, lev[q]) /\ Allocated(r.heap) = Allocated(g)
  BY <1>7 DEF RemovedOnce
<1>11. LeavesStay(g, r.heap)
  BY <1>7, <1>9, <1>10, FrameStays
<1>12. LeavesStay(heap, r.heap)
  BY <1>8, <1>11, StayTwice
<1>13. heap'[x].kind = "free"
  BY <1>7 DEF Dealloc, NewNode, Heap
<1>14. IsInternal(heap', q) \/ q = x
  <2>1. r.heap[q].kind = "internal"
    BY <1>7, <1>9, <1>10 DEF Spares, IsInternal
  <2> QED
    BY <1>7, <2>1 DEF IsInternal
<1>15. q # x
  <2>1. q \in Allocated(heap') /\ TRUE
    <3>1. lev[q] = lev[x] + 1 /\ Allocated(heap') = Allocated(heap) \ {x}
      BY <1>4, <1>6 DEF Unlinked
    <3>2. lev[q] \in Nat
      BY <1>7 DEF Tree
    <3> QED
      BY <1>7, <3>1, <3>2
  <2> QED
    BY <1>13, <2>1 DEF Allocated
<1>16. \A p \in Gone' : ~ LeafIn(heap', p)
  <2>1. Removing' /\ IsInternal(heap', node')
    BY <1>1, <1>4, <1>14, <1>15 DEF Removing
  <2> QED
    BY <2>1, GoneAboveNext
<1>17. KeepsLeaves(heap, Gone, heap', Gone')
  <2>1. ASSUME NEW p, LiveLeaf(heap, Gone, p) PROVE SameLeaf(heap, heap', p)
    <3>1. p # x /\ p \in Ptr /\ IsLeaf(heap, p) /\ LeafIn(heap, p)
      BY <1>5, <2>1 DEF LiveLeaf, LeafIn
    <3>2. heap'[p] = r.heap[p]
      BY <1>7, <3>1
    <3>3. /\ heap'[p].kind = heap[p].kind /\ heap'[p].length = heap[p].length
          /\ heap'[p].children = heap[p].children /\ heap'[p].next = heap[p].next
      BY <1>12, <3>1, <3>2 DEF LeavesStay
    <3> QED
      BY <3>1, <3>3, SameLeafBy
  <2>2. ASSUME NEW p, LeafIn(heap', p)
        PROVE  LiveLeaf(heap, Gone, p) /\ p \notin Gone'
    <3>1. p # x /\ p \in Ptr
      BY <1>13, <2>2 DEF LeafIn, IsLeaf
    <3>2. IsLeaf(r.heap, p)
      BY <1>7, <2>2, <3>1 DEF LeafIn, IsLeaf
    <3>3. IsLeaf(heap, p)
      BY <1>12, <3>1, <3>2 DEF LeavesStay, IsLeaf
    <3> QED
      BY <1>5, <1>16, <2>2, <3>1, <3>3 DEF LiveLeaf, LeafIn
  <2> QED
    BY <2>1, <2>2 DEF KeepsLeaves
<1>18. ~ Ended /\ root # None /\ ~ Ended' /\ root' # None
  BY <1>1, <1>4, RunningRoot DEF Ended
<1>19. Top' = root'
  BY <1>1, <1>4, <1>18, TopNext DEF Inserting
<1> QED
  BY <1>17, <1>18, <1>19, KeptStep

\* The end of remove: an only child becomes the root.
LEMMA FinishRemoveKept ==
  ASSUME ReadInv, VecInv', FiniteInv', NoPanic', FinishRemove
  PROVE  ReadInv' /\ Items' = Items
<1>1. Removing /\ pc = "climb" /\ removal.kind = "Absorbed" /\ heap[node].parent = None
  BY DEF FinishRemove, Removing
<1>2. TypeInv /\ TreeInv /\ ~ Panic
  BY DEF ReadInv, VecInv, Panic, Leave, NoPanic
<1>3. PICK lev \in [Ptr -> Nat] : Shrinking(lev)
  BY <1>1, <1>2, ShrinkingThen
<1>4. /\ heap \in Heap /\ Tree(heap, lev) /\ node \in Allocated(heap) /\ node \in Ptr
      /\ node # None
  BY <1>3, Kinds DEF Shrinking
<1>5. ~ Ended /\ root # None /\ Gone = {}
  BY <1>1, RunningRoot DEF Gone, GoneIn
<1>6. CASE IsInternal(heap, node) /\ heap[node].length = 1
  <2> DEFINE child == heap[node].children[0]
             f == SimpleRemove(heap, node, 0)
  <2>1. heap' = Dealloc(f, node) /\ root' = child /\ pc' = "idle" /\ child \in Ptr
    BY <1>2, <1>6 DEF FinishRemove, Leave
  <2>2. 0 \in Nat /\ 0 < heap[node].length
    BY <1>6
  <2>3. ChildRemoved(heap, f, node, 0) /\ f \in Heap
    BY <1>4, <1>6, <2>2, SimpleRemoveInternal, SimpleRemoveType
  <2> HIDE DEF f, child
  <2>4. LeavesStay(heap, f)
    BY <1>6, <2>3, ChildRemovedStays
  <2>5. IsInternal(f, node)
    BY <1>4, <1>6, <2>3 DEF ChildRemoved, IsInternal
  <2>6. /\ heap'[node].kind = "free"
        /\ \A p \in Ptr : p # node => heap'[p] = f[p]
    BY <1>4, <2>1, <2>3 DEF Dealloc, Heap, NewNode
  <2>7. LeavesStay(f, heap')
    BY <2>5, <2>6 DEF LeavesStay, IsLeaf, IsInternal
  <2>8. LeavesStay(heap, heap')
    BY <2>4, <2>7, StayTwice
  <2>9. ~ Ended' /\ root' # None /\ Gone' = {}
    BY <2>1, NodeAssumption DEF Ended, Gone, Removing
  <2>10. Top' = root'
    BY <2>1, <2>9, TopNext DEF Inserting
  <2> QED
    BY <1>5, <2>8, <2>9, <2>10, StayStep
<1>7. CASE ~ (IsInternal(heap, node) /\ heap[node].length = 1)
  <2>1. root' = node /\ pc' = "idle" /\ heap' = heap
    BY <1>7 DEF FinishRemove, Leave
  <2>2. ~ Ended' /\ root' # None /\ Gone' = {}
    BY <1>4, <2>1 DEF Ended, Gone, Removing
  <2>3. Top' = root'
    BY <2>1, <2>2, TopNext DEF Inserting
  <2>4. LeavesStay(heap, heap')
    BY <2>1, SameStays
  <2> QED
    BY <1>5, <2>2, <2>3, <2>4, StayStep
<1> QED
  BY <1>6, <1>7

\* The first insertion gets a leaf, in which nothing is yet.
LEMMA FirstLeafKept ==
  ASSUME ReadInv, VecInv', FiniteInv', ~ Ended, root = None, NEW new \in Free(heap),
         heap' = Alloc(heap, new, "leaf"), root' = new, pc' = "seek"
  PROVE  ReadInv' /\ Items' = Items
<1>1. heap \in Heap /\ new \in Ptr /\ new # None
  BY NodeAssumption DEF ReadInv, VecInv, TypeInv, TypeOK, Free
<1>2. PICK rank, bound : EndsBy(heap, rank, bound)
  BY DEF ReadInv, ListInv, ListEnds
<1>3. /\ heap'[new] = NewNode("leaf") /\ \A p \in Ptr : p # new => heap'[p] = heap[p]
  BY <1>1 DEF Alloc, Heap
<1>4. EndsBy(heap', rank, bound)
  BY <1>1, <1>2, <1>3 DEF EndsBy, IsLeaf, Free, NewNode
<1>5. ~ Ended' /\ ~ Inserting'
  BY DEF Ended, Inserting
<1>6. Top' = root'
  BY <1>5, TopNext
<1>7. ReadInv'
  BY <1>1, <1>4, <1>6 DEF ReadInv, ListInv, ListEnds
<1>8. PICK lev \in [Ptr -> Nat] : Tree(heap', lev)
  BY DEF VecInv, TreeInv, TreeInvAt
<1>9. heap' \in Heap /\ IsFiniteSet(Allocated(heap'))
  BY DEF VecInv, TypeInv, TypeOK, FiniteInv
<1>10. PICK high : Bounded(heap', lev, high)
  BY <1>8, <1>9, FiniteTrees
<1>11. new \in PtrOrNone /\ None \in PtrOrNone
  BY <1>1 DEF PtrOrNone
<1>12. IsLeaf(heap', new) /\ heap'[new].next = None /\ heap'[new].length = 0
       /\ ~ IsInternal(heap', new)
  BY <1>3 DEF IsLeaf, IsInternal, NewNode
<1>13. FirstLeaf(heap', new) = new
  BY <1>10, <1>11, <1>12, FirstLeafStep
<1>14. ItemsFrom(heap', new) = Children(heap', new) \o ItemsFrom(heap', None)
  BY <1>1, <1>4, <1>8, <1>9, <1>11, <1>12, ItemsFromStep
<1>15. ItemsFrom(heap', None) = <<>>
  BY <1>4, <1>8, <1>9, <1>11, ItemsFromStep
<1>16. Children(heap', new) \in Seq(Item) /\ Len(Children(heap', new)) = 0
  BY <1>1, <1>8, <1>9, <1>12, LeafItems
<1>17. ItemsFrom(heap', new) = <<>>
  BY <1>14, <1>15, <1>16
<1>18. Items = <<>>
  BY NoItems DEF ReadInv, ListInv
<1> QED
  BY <1>7, <1>13, <1>17, <1>18 DEF Items

\* insert, remove, get and get_mut up to leaf_for keep the items.
LEMMA BeginKept ==
  ASSUME ReadInv, VecInv', FiniteInv', Begin
  PROVE  ReadInv' /\ Items' = Items
<1>1. pc = "idle" /\ pc' = "seek"
  BY DEF Begin, BeginInsert, BeginRemove, BeginGet, BeginSet, Enter
<1>2. ~ Ended /\ ~ Inserting /\ ~ Removing /\ ~ Ended' /\ ~ Inserting' /\ ~ Removing'
  BY <1>1 DEF Ended, Inserting, Removing
<1>3. CASE root # None
  <2>1. UNCHANGED <<heap, root>>
    BY <1>3 DEF Begin, BeginInsert, BeginRemove, BeginGet, BeginSet, fields
  <2> QED
    BY <1>2, <1>3, <2>1, ReadKept
<1>4. CASE root = None
  <2>1. size = 0
    BY <1>4 DEF ReadInv, VecInv, TypeInv, CallOK
  <2>2. PICK i \in 0..MaxSize :
          \/ \E x \in Item : BeginInsert(i, x) \/ BeginSet(i, x)
          \/ BeginRemove(i)
          \/ BeginGet(i)
    BY DEF Begin
  <2>3. ~ (i < size) /\ i \in Nat
    BY <2>1, MaxSizeAssumption
  <2>4. \E x \in Item : BeginInsert(i, x)
    BY <2>2, <2>3 DEF BeginSet, BeginRemove, BeginGet
  <2>5. Free(heap) # {} /\ heap' = Alloc(heap, Fresh(heap), "leaf") /\ root' = Fresh(heap)
    BY <1>4, <2>4 DEF BeginInsert
  <2>6. Fresh(heap) \in Free(heap)
    BY <2>5 DEF Fresh, Free
  <2> QED
    BY <1>1, <1>2, <1>4, <2>5, <2>6, FirstLeafKept
<1> QED
  BY <1>3, <1>4

\* So does a step of leaf_for.
LEMMA DescendKept ==
  ASSUME ReadInv, VecInv', FiniteInv', NoPanic', Descend
  PROVE  ReadInv' /\ Items' = Items
<1>1. pc = "seek" /\ pc' = "seek" /\ UNCHANGED <<heap, root>>
  BY DEF Descend, Panic, Leave, NoPanic, fields
<1>2. /\ ~ Inserting /\ ~ Removing /\ ~ Ended' /\ ~ Inserting' /\ ~ Removing'
      /\ ~ Ended /\ root # None
  BY <1>1, RunningRoot DEF Ended, Inserting, Removing
<1> QED
  BY <1>1, <1>2, ReadKept

\* So does get.
LEMMA GetKept ==
  ASSUME ReadInv, VecInv', FiniteInv', NoPanic', Get \/ Return
  PROVE  ReadInv' /\ Items' = Items
<1>1. pc \in {"seek", "return"} /\ pc' \in {"return", "idle"} /\ UNCHANGED <<heap, root>>
  BY DEF Get, Return, AtLeaf, Panic, Leave, NoPanic, fields
<1>2. /\ ~ Inserting /\ ~ Removing /\ ~ Ended' /\ ~ Inserting' /\ ~ Removing'
      /\ ~ Ended /\ root # None
  BY <1>1, RunningRoot DEF Ended, Inserting, Removing
<1> QED
  BY <1>1, <1>2, ReadKept

\* So does a failing allocation, perhaps after the sizes of the parent have
\* changed.
LEMMA AllocFailsKept ==
  ASSUME ReadInv, VecInv', FiniteInv', AllocFails
  PROVE  ReadInv' /\ Items' = Items
<1>1. pc' = "aborted" /\ root' = root
  BY DEF AllocFails, Leave
<1>2. ReadInv'
  BY <1>1 DEF ReadInv, ListInv, Ended
<1>3. CASE heap' = heap
  BY <1>1, <1>2, <1>3 DEF Items
<1>4. CASE heap' # heap
  <2> DEFINE parent == heap[node].parent
  <2>1. /\ Inserting /\ split # None /\ parent # None
        /\ heap' = Credit(heap, parent, heap[node].index)
        /\ ~ LinkPanics(heap, parent, heap[node].index)
    BY <1>4 DEF AllocFails
  <2>2. ~ Ended /\ root # None /\ Gone = {}
    BY <2>1, RunningRoot DEF Inserting, Gone, Removing
  <2>3. VecInv /\ TypeInv /\ TreeInv /\ OrderInv
    BY DEF ReadInv, VecInv
  <2>4. PICK lev \in [Ptr -> Nat] : Climbing(lev)
    BY <2>1, <2>3, ClimbingThen
  <2>5. /\ heap \in Heap /\ Tree(heap, lev) /\ node \in Allocated(heap) /\ Top = root
        /\ Roots(heap) = {root, split} \ {None} /\ split # root /\ split # node
        /\ \A p \in Allocated(heap) : IsInternal(heap, p) => heap[p].length >= 1
    BY <2>1, <2>4 DEF Climbing
  <2>6. parent \in Ptr
    BY <2>1, <2>5, ParentOf DEF Allocated
  <2> HIDE DEF parent
  <2>7. Resized(heap, heap', parent)
    BY <2>1, <2>5, <2>6, CreditResized DEF parent
  <2>8. /\ Tree(heap', lev) /\ Allocated(heap') = Allocated(heap)
        /\ Roots(heap') = Roots(heap)
    BY <2>5, <2>7, ResizedTree
  <2>9. heap' \in Heap /\ IsFiniteSet(Allocated(heap'))
    BY DEF VecInv, TypeInv, TypeOK, FiniteInv
  <2>10. PICK over \in [Ptr -> PtrOrNone], after \in [Ptr -> PtrOrNone] :
           HalfOrder(heap, over, after, root, node, split)
    BY <2>1, <2>3, <2>5, HalfOrderThen DEF HasHalfOrder
  <2>11. HasHalfOrder(heap', root, node, split)
    BY <2>5, <2>7, <2>10, ResizedHalf DEF HasHalfOrder
  <2>12. Full(heap', {})
    BY <2>5, <2>7, <2>8 DEF Full, Resized, IsInternal, Allocated
  <2>13. PICK over1, after1 : Fronted(heap', lev, over1, after1, {}, root)
    BY <2>2, <2>5, <2>8, <2>9, <2>11, <2>12, FrontedInserting
  <2>14. PICK high : Bounded(heap', lev, high)
    BY <2>8, <2>9, FiniteTrees
  <2>15. ListStarts(heap', {}, FirstLeaf(heap', root))
    BY <2>13, <2>14, FrontStarts
  <2>16. ListAt(heap, {}, FirstLeaf(heap, root))
    BY <2>2, ListNow
  <2>17. PICK rank, bound : Listed(heap, rank, bound)
    BY <2>16 DEF ListAt
  <2>18. ListStarts(heap, {}, FirstLeaf(heap, root)) /\ EndsBy(heap, rank, bound)
    BY <2>16, <2>17 DEF ListAt, Listed
  <2>19. LeavesStay(heap, heap')
    BY <2>7, ResizedStays
  <2>20. \A p \in {} \cup {} : ~ LeafIn(heap, p)
    OBVIOUS
  <2>21. KeepsLeaves(heap, {}, heap', {})
    BY <2>19, <2>20, StayKeeps
  <2>22. EndsBy(heap', rank, bound)
    BY <2>18, <2>21, KeptEnds
  <2>23. Listed(heap', rank, bound)
    BY <2>8, <2>9, <2>22 DEF Listed
  <2>24. /\ FirstLeaf(heap', root) = FirstLeaf(heap, root)
         /\ ItemsFrom(heap', FirstLeaf(heap, root)) = ItemsFrom(heap, FirstLeaf(heap, root))
    BY <2>15, <2>17, <2>18, <2>21, <2>23, KeptItems
  <2> QED
    BY <1>1, <1>2, <2>24 DEF Items
<1> QED
  BY <1>3, <1>4

-----------------------------------------------------------------------------
(***************************************************************************)
(* Where leaf_for is, and how many items there are.                        *)
(***************************************************************************)

\* On its way down leaf_for looks for the index that was asked for, with the
\* item that was given.
SeekPlaced ==
  pc = "seek" =>
    /\ held = request.item
    /\ \A lev, w, after, before, bound :
         Laid(heap, lev, w, after, before, root, size, bound) =>
           before[node] + index = request.index

\* The start of a call keeps SeekPlaced.
LEMMA BeginPlaced ==
  ASSUME TypeInv, TypeInv', Begin
  PROVE  SeekPlaced'
<1>1. PICK i \in 0..MaxSize :
        \/ \E x \in Item : BeginInsert(i, x) \/ BeginSet(i, x)
        \/ BeginRemove(i)
        \/ BeginGet(i)
  BY DEF Begin
<1>2. i \in Nat
  BY MaxSizeAssumption
<1>3. held' = request'.item /\ index' = i /\ request'.index = i
  BY <1>1 DEF BeginInsert, BeginSet, BeginRemove, BeginGet, Enter
<1>4. node' = root'
  BY <1>1 DEF BeginInsert, BeginSet, BeginRemove, BeginGet, fields
<1>5. root' # None
  BY <1>1, NodeAssumption DEF BeginInsert, BeginSet, BeginRemove, BeginGet, fields, Fresh,
     Free, TypeInv, CallOK, Enter
<1>6. ASSUME NEW lev, NEW w, NEW after, NEW before, NEW bound,
             Laid(heap', lev, w, after, before, root', size', bound)
      PROVE  before[node'] + index' = request'.index
  <2>1. before[root'] = 0
    BY <1>5, <1>6 DEF Laid, Offsets
  <2> QED
    BY <1>2, <1>3, <1>4, <2>1
<1> QED
  BY <1>3, <1>6 DEF SeekPlaced

\* So does a step down.
LEMMA DescendPlaced ==
  ASSUME VecInv, SeekPlaced, NoPanic', Descend
  PROVE  SeekPlaced'
<1>1. /\ pc = "seek" /\ IsInternal(heap, node) /\ UNCHANGED <<heap, root, size, request, held>>
      /\ node' = Deeper(heap, node, index) /\ index' = IndexThere(heap, node, index)
  BY DEF Descend, Panic, Leave, NoPanic, fields, Deeper, IndexThere
<1>2. node \in Allocated(heap) /\ index \in Nat
  BY <1>1 DEF VecInv, TypeInv, TypeOK, CallOK, IsInternal, Allocated
<1>3. ASSUME NEW lev, NEW w, NEW after, NEW before, NEW bound,
             Laid(heap, lev, w, after, before, root, size, bound)
      PROVE  before[node'] + index' = request.index
  <2>1. before[node] + index = request.index
    BY <1>1, <1>3 DEF SeekPlaced
  <2>2. Passes(heap, w, before, node, index, Deeper(heap, node, index),
               IndexThere(heap, node, index))
    BY <1>1, <1>2, <1>3, PassesDeeper
  <2>3. before[node'] + index' = before[node] + index
    BY <1>1, <2>2 DEF Passes
  <2> QED
    BY <2>1, <2>3
<1> QED
  BY <1>1, <1>3 DEF SeekPlaced

\* So does every step.
LEMMA NextSeekPlaced ==
  ASSUME VecInv, TypeInv', NoPanic', SeekPlaced, [Next]_vars
  PROVE  SeekPlaced'
<1>1. TypeInv
  BY DEF VecInv
<1>2. CASE Begin
  BY <1>1, <1>2, BeginPlaced
<1>3. CASE Descend
  BY <1>3, DescendPlaced
<1>4. CASE Get \/ Set \/ Return \/ FinishInsert \/ FinishRemove \/ AllocFails
  <2>1. pc' # "seek"
    BY <1>4 DEF Get, Set, Return, FinishInsert, FinishRemove, AllocFails, Panic, Leave
  <2> QED
    BY <2>1 DEF SeekPlaced
<1>5. CASE InsertAtLeaf \/ ClimbInsert \/ ClimbSplit \/ GrowRoot
           \/ RemoveAtLeaf \/ ClimbRemove \/ ClimbMerge
  <2>1. pc' # "seek"
    BY <1>5 DEF InsertAtLeaf, ClimbInsert, ClimbSplit, GrowRoot, RemoveAtLeaf,
       ClimbRemove, ClimbMerge, Inserting, Removing, Panic, Leave
  <2> QED
    BY <2>1 DEF SeekPlaced
<1>6. CASE UNCHANGED vars
  BY <1>6 DEF SeekPlaced, vars
<1> QED
  BY <1>2, <1>3, <1>4, <1>5, <1>6 DEF Next, Step

\* Unless an item is on its way in or out, there are as many as `size` says.
LEMMA CountedThen ==
  ASSUME ReadInv, pc # "climb", ~ Ended
  PROVE  Items \in Seq(Item) /\ Len(Items) = size
<1>1. VecInv /\ FiniteInv /\ TypeInv
  BY DEF ReadInv, VecInv
<1>2. CASE root = None
  <2>1. Items = <<>>
    BY <1>2, NoItems DEF ReadInv, ListInv
  <2>2. size = 0
    BY <1>1, <1>2 DEF TypeInv, CallOK
  <2> QED
    BY <2>1, <2>2
<1>3. CASE root # None
  <2> DEFINE first == FirstLeaf(heap, root)
  <2>1. PICK lev, w, after, before, bound :
          Laid(heap, lev, w, after, before, root, size, bound)
    BY <1>1, RestLaid DEF HasPlaces
  <2>2. root \in Allocated(heap)
    BY <1>1, <1>3 DEF VecInv, TreeInv, TreeInvAt, RootsOK
  <2>3. /\ CountsFrom(heap, first, before)
        /\ \A p : LeafIn(heap, p) =>
             before[p] + heap[p].length = IF heap[p].next = None THEN size
                                          ELSE before[heap[p].next]
    BY <2>1, <2>2, LaidCounts
  <2>4. ListAt(heap, {}, first)
    <3>1. Gone = {}
      BY DEF Gone, Removing
    <3> QED
      BY <1>3, <3>1, ListNow
  <2>5. LeafIn(heap, first) /\ Items = ItemsFrom(heap, first)
    BY <2>4 DEF ListAt, ListStarts, LiveLeaf, Items
  <2> HIDE DEF first
  <2>6. PICK rank, high : Listed(heap, rank, high)
    BY <2>4 DEF ListAt
  <2>7. before[first] = 0 /\ \A p : LeafIn(heap, p) => before[p] \in Nat
    BY <2>3 DEF CountsFrom
  <2>8. size \in Nat
    BY <1>1 DEF TypeInv, TypeOK
  <2>9. before[first] + Len(ItemsFrom(heap, first)) = size
    BY <2>3, <2>5, <2>6, <2>7, <2>8, ItemsCounted
  <2>10. ItemsFrom(heap, first) \in Seq(Item)
    BY <2>5, <2>6, ItemsType
  <2> QED
    BY <2>5, <2>7, <2>9, <2>10
<1> QED
  BY <1>2, <1>3

-----------------------------------------------------------------------------
(***************************************************************************)
(* What a change to one leaf does to the vector.                           *)
(***************************************************************************)

\* r is v with x put before item i.
Gets(v, i, x, r) == r = Vec!VecInsert(v, i, x)

\* An item inserted in the middle of a sequence, in parts.
LEMMA InsertedInto ==
  ASSUME NEW u \in Seq(Item), NEW p \in Seq(Item), NEW q \in Seq(Item),
         NEW w \in Seq(Item), NEW x \in Item
  PROVE  Gets(u \o ((p \o q) \o w), Len(u) + Len(p), x,
              u \o (((p \o <<x>>) \o q) \o w))
<1>1. PICK a, b : Around(u, p, q, w, a, b)
  BY AroundIt, Zenon
<1>2. SubSeq(a \o b, 1, Len(a)) = a /\ SubSeq(a \o b, Len(a) + 1, Len(a \o b)) = b
  BY <1>1, TwoParts, Zenon DEF Around
<1>3. Vec!VecInsert(a \o b, Len(a), x) = a \o <<x>> \o b
  BY <1>2, Zenon DEF Vec!VecInsert
<1> QED
  BY <1>1, <1>3, Zenon DEF Around, Gets

\* Item i of v is y, and v without it is r.
Loses(v, i, y, r) ==
  v \in Seq(Item) /\ i \in 0..(Len(v) - 1) /\ v[i + 1] = y /\ Vec!VecRemove(v, i) = r

\* Item i of v is y, and v with x in its place is r.
Sets(v, i, y, x, r) ==
  v \in Seq(Item) /\ i \in 0..(Len(v) - 1) /\ v[i + 1] = y /\ [v EXCEPT ![i + 1] = x] = r

\* An item among others: what reading, replacing and removing it does.
LEMMA FoundIn ==
  ASSUME NEW u \in Seq(Item), NEW p \in Seq(Item), NEW q \in Seq(Item),
         NEW w \in Seq(Item), NEW y \in Item,
         NEW v, v = u \o (((p \o <<y>>) \o q) \o w), NEW i, i = Len(u) + Len(p)
  PROVE  /\ Loses(v, i, y, u \o ((p \o q) \o w))
         /\ \A x \in Item : Sets(v, i, y, x, u \o (((p \o <<x>>) \o q) \o w))
<1>1. PICK a, b : Around(u, p, q, w, a, b)
  BY AroundIt, Zenon
<1>10. a \in Seq(Item) /\ b \in Seq(Item) /\ i = Len(a)
       /\ u \o ((p \o q) \o w) = a \o b
       /\ \A x \in Item : u \o (((p \o <<x>>) \o q) \o w) = (a \o <<x>>) \o b
  BY <1>1, Zenon DEF Around
<1>2. v = (a \o <<y>>) \o b
  BY <1>10, Zenon
<1>5. InParts(v, a, y, b)
  BY <1>2, <1>10, ThreeParts, Zenon
<1>6. Vec!VecRemove(v, i) = a \o b
  BY <1>5, <1>10, Zenon DEF Vec!VecRemove, InParts
<1>7. ASSUME NEW x \in Item
      PROVE  [v EXCEPT ![i + 1] = x] = u \o (((p \o <<x>>) \o q) \o w)
  <2>3. Replaces(a, y, b, x)
    BY <1>10, Replaced, Zenon
  <2>1. [(a \o <<y>>) \o b EXCEPT ![Len(a) + 1] = x] = (a \o <<x>>) \o b
    BY <2>3, Zenon DEF Replaces
  <2>2. u \o (((p \o <<x>>) \o q) \o w) = (a \o <<x>>) \o b
    BY <1>10, Zenon
  <2> QED
    BY <1>2, <1>10, <2>1, <2>2, Zenon
<1>3. PICK n \in Nat : n = Len(a)
  BY <1>10
<1>4. PICK m \in Nat : m = Len(b)
  BY <1>10
<1>11. Len(v) = n + 1 + m /\ i = n
  BY <1>3, <1>4, <1>5, <1>10, Zenon DEF InParts
<1>8. n \in 0..(n + 1 + m - 1)
  OBVIOUS
<1>9. i \in 0..(Len(v) - 1)
  BY <1>8, <1>11
<1>12. v \in Seq(Item) /\ v[i + 1] = y
  BY <1>5, <1>10, Zenon DEF InParts
<1> QED
  BY <1>6, <1>7, <1>9, <1>10, <1>12, Zenon DEF Loses, Sets

\* The parts of the items around leaf p, where item j of p is item i of all.
LEMMA DifferPlace ==
  ASSUME NEW h, NEW g, NEW first, NEW p, NEW c, NEW d, NEW u, NEW w,
         Differ(h, g, first, p, c, d, u, w), NEW before, CountsFrom(h, first, before),
         NEW j, NEW i, i = before[p] + j
  PROVE  /\ u \in Seq(Item) /\ w \in Seq(Item) /\ i = Len(u) + j
         /\ ItemsFrom(h, first) = u \o (c \o w)
         /\ ItemsFrom(g, first) = u \o (d \o w)
BY DEF Differ

\* A leaf gets an item, and so does the vector.
LEMMA LeafGets ==
  ASSUME NEW h, NEW g, NEW first, NEW p, NEW c, NEW d, NEW u, NEW w,
         Differ(h, g, first, p, c, d, u, w), NEW before, CountsFrom(h, first, before),
         NEW j, NEW i, i = before[p] + j, NEW x \in Item, Gains(c, d, j, x)
  PROVE  Gets(ItemsFrom(h, first), i, x, ItemsFrom(g, first))
<1>1. /\ u \in Seq(Item) /\ w \in Seq(Item) /\ i = Len(u) + j
      /\ ItemsFrom(h, first) = u \o (c \o w)
      /\ ItemsFrom(g, first) = u \o (d \o w)
  BY DifferPlace
<1>2. PICK s, t : /\ s \in Seq(Item) /\ t \in Seq(Item) /\ Len(s) = j
                  /\ c = s \o t /\ d = (s \o <<x>>) \o t
  BY DEF Gains
<1>3. Gets(u \o ((s \o t) \o w), Len(u) + Len(s), x,
           u \o (((s \o <<x>>) \o t) \o w))
  BY <1>1, <1>2, InsertedInto, Zenon
<1> QED
  BY <1>1, <1>2, <1>3, Zenon

\* A leaf loses an item, and so does the vector.
LEMMA LeafLoses ==
  ASSUME NEW h, NEW g, NEW first, NEW p, NEW c, NEW d, NEW u, NEW w,
         Differ(h, g, first, p, c, d, u, w), NEW before, CountsFrom(h, first, before),
         NEW j, NEW i, i = before[p] + j, NEW y \in Item, Gains(d, c, j, y)
  PROVE  Loses(ItemsFrom(h, first), i, y, ItemsFrom(g, first))
<1>1. /\ u \in Seq(Item) /\ w \in Seq(Item) /\ i = Len(u) + j
      /\ ItemsFrom(h, first) = u \o (c \o w)
      /\ ItemsFrom(g, first) = u \o (d \o w)
  BY DifferPlace
<1>2. PICK s, t : /\ s \in Seq(Item) /\ t \in Seq(Item) /\ Len(s) = j
                  /\ d = s \o t /\ c = (s \o <<y>>) \o t
  BY DEF Gains
<1>3. i = Len(u) + Len(s)
  BY <1>1, <1>2, Zenon
<1>4. PICK v : v = u \o (((s \o <<y>>) \o t) \o w)
  OBVIOUS
<1>5. Loses(v, i, y, u \o ((s \o t) \o w))
  BY <1>1, <1>2, <1>3, <1>4, FoundIn, Zenon
<1>6. ItemsFrom(h, first) = v /\ ItemsFrom(g, first) = u \o ((s \o t) \o w)
  BY <1>1, <1>2, <1>4, Zenon
<1> QED
  BY <1>5, <1>6, Zenon

\* One item in the place of another.
Swaps(c, d, j, y, x) ==
  \E s, t : /\ s \in Seq(Item) /\ t \in Seq(Item) /\ Len(s) = j
            /\ c = (s \o <<y>>) \o t /\ d = (s \o <<x>>) \o t

\* Sequences that are the same without their item j differ in that item only.
LEMMA GainsSwap ==
  ASSUME NEW b, NEW c, NEW d, NEW j, NEW y, NEW x, Gains(b, c, j, y), Gains(b, d, j, x)
  PROVE  Swaps(c, d, j, y, x)
<1>1. PICK s, t : /\ s \in Seq(Item) /\ t \in Seq(Item) /\ Len(s) = j
                  /\ b = s \o t /\ c = (s \o <<y>>) \o t
  BY DEF Gains
<1>2. PICK s1, t1 : /\ s1 \in Seq(Item) /\ t1 \in Seq(Item) /\ Len(s1) = j
                    /\ b = s1 \o t1 /\ d = (s1 \o <<x>>) \o t1
  BY DEF Gains
<1>3. /\ SubSeq(s \o t, 1, Len(s)) = s
      /\ SubSeq(s \o t, Len(s) + 1, Len(s \o t)) = t
  BY <1>1, TwoParts
<1>4. /\ SubSeq(s1 \o t1, 1, Len(s1)) = s1
      /\ SubSeq(s1 \o t1, Len(s1) + 1, Len(s1 \o t1)) = t1
  BY <1>2, TwoParts
<1>5. s1 = s /\ t1 = t
  BY <1>1, <1>2, <1>3, <1>4, Zenon
<1>6. d = (s \o <<x>>) \o t
  BY <1>2, <1>5, Zenon
<1> QED
  BY <1>1, <1>6, Zenon DEF Swaps

\* A leaf gets an item in the place of another, and so does the vector.
LEMMA LeafSets ==
  ASSUME NEW h, NEW g, NEW first, NEW p, NEW c, NEW d, NEW u, NEW w,
         Differ(h, g, first, p, c, d, u, w), NEW before, CountsFrom(h, first, before),
         NEW j, NEW i, i = before[p] + j, NEW y \in Item, NEW x \in Item,
         Swaps(c, d, j, y, x)
  PROVE  Sets(ItemsFrom(h, first), i, y, x, ItemsFrom(g, first))
<1>1. /\ u \in Seq(Item) /\ w \in Seq(Item) /\ i = Len(u) + j
      /\ ItemsFrom(h, first) = u \o (c \o w)
      /\ ItemsFrom(g, first) = u \o (d \o w)
  BY DifferPlace
<1>2. PICK s, t : /\ s \in Seq(Item) /\ t \in Seq(Item) /\ Len(s) = j
                  /\ c = (s \o <<y>>) \o t /\ d = (s \o <<x>>) \o t
  BY DEF Swaps
<1>3. i = Len(u) + Len(s)
  BY <1>1, <1>2, Zenon
<1>4. PICK v : v = u \o (((s \o <<y>>) \o t) \o w)
  OBVIOUS
<1>5. Sets(v, i, y, x, u \o (((s \o <<x>>) \o t) \o w))
  BY <1>1, <1>2, <1>3, <1>4, FoundIn, Zenon
<1>6. /\ ItemsFrom(h, first) = v
      /\ ItemsFrom(g, first) = u \o (((s \o <<x>>) \o t) \o w)
  BY <1>1, <1>2, <1>4, Zenon
<1> QED
  BY <1>5, <1>6, Zenon

-----------------------------------------------------------------------------
(***************************************************************************)
(* What the operations on slots do to the items of a leaf.                 *)
(***************************************************************************)

\* The items of a leaf are the part of its slots up to its length.
LEMMA ChildrenPart ==
  ASSUME NEW h, NEW n, h[n].length \in Nat
  PROVE  Children(h, n) = Part(h[n].children, 0, h[n].length)
<1>1. \A k \in 1..h[n].length : 0 + k - 1 = k - 1
  OBVIOUS
<1> QED
  BY <1>1 DEF Children, Part

\* The items of a leaf gain the one that is rotated in.
LEMMA RotateInGains ==
  ASSUME NEW a, NEW len \in Nat, len < B, NEW i \in 0..len, NEW x \in Item,
         ItemsAt(a, 0, len)
  PROVE  Gains(Part(a, 0, len), Part(RotateIn(a, i, len, x), 0, len + 1), i, x)
<1>0. B \in Nat /\ i \in Nat
  BY NodeAssumption
<1> DEFINE b == RotateIn(a, i, len, x)
<1>1. PICK m \in Nat : i + m = len
  <2>1. len - i \in Nat /\ i + (len - i) = len
    BY <1>0
  <2> QED
    BY <2>1
<1>2. \A j \in 0..(i - 1) : b[j] = a[j]
  BY <1>0 DEF RotateIn, Position
<1>3. b[i] = x
  BY <1>0 DEF RotateIn, Position
<1>4. \A j \in i..(i + m - 1) : b[j + 1] = a[j]
  <2> TAKE j \in i..(i + m - 1)
  <2>1. j \in Nat /\ j + 1 \in Position /\ i < j + 1 /\ j + 1 <= len /\ (j + 1) - 1 = j
    BY <1>0, <1>1 DEF Position
  <2> QED
    BY <1>0, <2>1 DEF RotateIn
<1> HIDE DEF b
<1>5. ItemsAt(a, 0, i + m)
  BY <1>1
<1>6. Gains(Part(a, 0, i + m), Part(b, 0, i + m + 1), i, x)
  BY <1>0, <1>2, <1>3, <1>4, <1>5, ArrayGains
<1> QED
  BY <1>1, <1>6 DEF b

\* The slots without the one rotated out gain its item when it is put back; with
\* another item in its place they gain that one.
LEMMA RotateOutGains ==
  ASSUME NEW a, NEW len \in Nat, len <= B, NEW i \in Nat, i < len, NEW b, NEW x \in Item,
         ItemsAt(a, 0, len), b[i] = x, \A j \in 0..(len - 1) : j # i => b[j] = a[j]
  PROVE  Gains(Part(RotateOut(a, i, len, None), 0, len - 1), Part(b, 0, len), i, x)
<1>0. B \in Nat
  BY NodeAssumption
<1> DEFINE c == RotateOut(a, i, len, None)
<1>1. PICK m \in Nat : i + m = len - 1
  <2>1. len - 1 - i \in Nat /\ i + (len - 1 - i) = len - 1
    BY <1>0
  <2> QED
    BY <2>1
<1>2. \A j \in 0..(i - 1) : c[j] = a[j] /\ b[j] = a[j] /\ a[j] \in Item
  BY <1>0 DEF RotateOut, Position, ItemsAt
<1>3. \A j \in i..(i + m - 1) : c[j] = a[j + 1] /\ b[j + 1] = a[j + 1] /\ a[j + 1] \in Item
  <2> TAKE j \in i..(i + m - 1)
  <2>1. j \in Position /\ ~ (j < i) /\ ~ (j >= len) /\ j # len - 1
        /\ j + 1 # i /\ j + 1 \in 0..(len - 1) /\ j + 1 \in 0..(0 + len - 1)
    BY <1>0, <1>1 DEF Position
  <2> QED
    BY <1>0, <2>1 DEF RotateOut, ItemsAt
<1> HIDE DEF c
<1>4. ItemsAt(c, 0, i + m)
  <2>1. ASSUME NEW j \in 0..(0 + (i + m) - 1) PROVE c[j] \in Item
    <3>1. j \in 0..(i - 1) \/ j \in i..(i + m - 1)
      OBVIOUS
    <3> QED
      BY <1>2, <1>3, <3>1
  <2> QED
    BY <2>1 DEF ItemsAt
<1>5. (\A j \in 0..(i - 1) : b[j] = c[j]) /\ \A j \in i..(i + m - 1) : b[j + 1] = c[j]
  BY <1>2, <1>3
<1>6. Gains(Part(c, 0, i + m), Part(b, 0, i + m + 1), i, x)
  BY <1>4, <1>5, ArrayGains
<1>7. i + m + 1 = len
  BY <1>1
<1> QED
  BY <1>1, <1>6, <1>7 DEF c

-----------------------------------------------------------------------------
(***************************************************************************)
(* The steps at a leaf.                                                    *)
(***************************************************************************)

\* The nodes and the leaf list are as they were.
SameLeafList(h, g) == \A p \in Ptr : g[p].kind = h[p].kind /\ g[p].next = h[p].next

\* Then the list ends as it did.
LEMMA LeafListEnds ==
  ASSUME NEW h, NEW g, SameLeafList(h, g), NEW rank, NEW bound, EndsBy(h, rank, bound)
  PROVE  EndsBy(g, rank, bound)
BY DEF SameLeafList, EndsBy, IsLeaf

\* A leaf leads to `first` only if one did before.
NoneNewBefore(h, g, gone, first) ==
  \A q : LiveLeaf(g, gone, q) /\ g[q].next = first =>
    \E p : LiveLeaf(h, {}, p) /\ h[p].next = first

\* Then the list starts where it did.
LEMMA FirstKept ==
  ASSUME NEW h, NEW first, ListStarts(h, {}, first),
         NEW g, NEW gone1, NEW first1, ListStarts(g, gone1, first1),
         LiveLeaf(g, gone1, first), NoneNewBefore(h, g, gone1, first)
  PROVE  first1 = first
<1>1. ~ (\E p : LiveLeaf(h, {}, p) /\ h[p].next = first)
  BY DEF ListStarts
<1>2. ~ (\E q : LiveLeaf(g, gone1, q) /\ g[q].next = first)
  BY <1>1 DEF NoneNewBefore
<1> QED
  BY <1>2 DEF ListStarts

\* So it does where nothing is linked anew.
LEMMA LeafListFirst ==
  ASSUME NEW h, NEW g, SameLeafList(h, g), NEW first, ListStarts(h, {}, first)
  PROVE  LiveLeaf(g, {}, first) /\ NoneNewBefore(h, g, {}, first)
BY DEF SameLeafList, ListStarts, LiveLeaf, LeafIn, IsLeaf, NoneNewBefore

\* A step at a leaf that leaves a list with the same first leaf.
LEMMA LeafStep ==
  ASSUME ReadInv, pc = "seek", VecInv', FiniteInv', ~ Ended', root' = root, Top' = root',
         ListEnds(heap'), NEW first, first = FirstLeaf(heap, root),
         LiveLeaf(heap', Gone', first), NoneNewBefore(heap, heap', Gone', first)
  PROVE  /\ ReadInv'
         /\ Items = ItemsFrom(heap, first) /\ Items' = ItemsFrom(heap', first)
         /\ \E rank, bound : Listed(heap', rank, bound)
<1>1. ~ Ended /\ root # None
  BY RunningRoot
<1>2. Gone = {}
  BY DEF Gone, Removing
<1>3. ListAt(heap, {}, first)
  BY <1>1, <1>2, ListNow
<1>4. ListInv'
  BY <1>1 DEF ListInv
<1>5. ReadInv'
  BY <1>4 DEF ReadInv
<1>6. ListAt(heap', Gone', FirstLeaf(heap', root'))
  BY <1>1, <1>5, ListNext
<1>7. FirstLeaf(heap', root') = first
  BY <1>3, <1>6, FirstKept DEF ListAt
<1> QED
  BY <1>5, <1>6, <1>7 DEF ListAt, Items

\* leaf_for has come to a leaf, and request.index is in it.
AtPlace(first, before, rank, bound) ==
  /\ first = FirstLeaf(heap, root)
  /\ Listed(heap, rank, bound) /\ ListStarts(heap, {}, first)
  /\ CountsFrom(heap, first, before)
  /\ LeafIn(heap, node) /\ request.index = before[node] + index

\* Where leaf_for ends it has.
LEMMA LeafPlace ==
  ASSUME ReadInv, SeekPlaced, pc = "seek", IsLeaf(heap, node)
  PROVE  \E first, before, rank, bound : AtPlace(first, before, rank, bound)
<1>1. VecInv /\ FiniteInv
  BY DEF ReadInv
<1>2. ~ Ended /\ root # None
  BY RunningRoot
<1>3. PICK lev, w, after, before, bound :
        Laid(heap, lev, w, after, before, root, size, bound)
  BY <1>1, <1>2, RestLaid DEF HasPlaces
<1>4. root \in Allocated(heap)
  BY <1>1, <1>2 DEF VecInv, TreeInv, TreeInvAt, RootsOK
<1>5. CountsFrom(heap, FirstLeaf(heap, root), before)
  BY <1>3, <1>4, LaidCounts
<1>6. Gone = {}
  BY DEF Gone, Removing
<1>7. ListAt(heap, {}, FirstLeaf(heap, root))
  BY <1>2, <1>6, ListNow
<1>8. before[node] + index = request.index
  BY <1>3 DEF SeekPlaced
<1>9. LeafIn(heap, node)
  BY <1>1, LeafHolds DEF LeafIn, Allocated
<1> QED
  BY <1>5, <1>7, <1>8, <1>9 DEF AtPlace, ListAt

\* The slots of a leaf below its length hold its items.
LEMMA LeafPart ==
  ASSUME NEW h, NEW rank, NEW bound, Listed(h, rank, bound), NEW p, LeafIn(h, p)
  PROVE  /\ h[p].length \in Nat /\ h[p].length <= B
         /\ ItemsAt(h[p].children, 0, h[p].length)
         /\ Children(h, p) = Part(h[p].children, 0, h[p].length)
<1>1. h \in Heap /\ p \in Ptr /\ IsLeaf(h, p)
  BY DEF Listed, LeafIn
<1>2. PICK lev : Tree(h, lev)
  BY DEF Listed
<1>3. h[p].length \in 0..B
  BY <1>1, FieldTypes
<1>4. /\ Children(h, p) \in Seq(Item) /\ Len(Children(h, p)) = h[p].length
      /\ \A i \in 1..h[p].length : Children(h, p)[i] = h[p].children[i - 1]
  BY <1>1, <1>2, LeafItems
<1>5. B \in Nat
  BY NodeAssumption
<1>6. ASSUME NEW j \in 0..(0 + h[p].length - 1) PROVE h[p].children[j] \in Item
  <2>1. j + 1 \in 1..h[p].length /\ (j + 1) - 1 = j
    BY <1>3
  <2>2. Children(h, p)[j + 1] = h[p].children[j]
    BY <1>4, <2>1
  <2>3. Children(h, p)[j + 1] \in Item
    BY <1>4, <2>1
  <2> QED
    BY <2>2, <2>3
<1> QED
  BY <1>3, <1>5, <1>6, ChildrenPart DEF ItemsAt

\* A write to one slot swaps one item.
LEMMA SlotSwaps ==
  ASSUME NEW a, NEW b, NEW len \in Nat, len <= B, NEW i \in Nat, i < len,
         ItemsAt(a, 0, len), NEW x \in Item, b[i] = x,
         \A j \in 0..(len - 1) : j # i => b[j] = a[j]
  PROVE  Swaps(Part(a, 0, len), Part(b, 0, len), i, a[i], x) /\ a[i] \in Item
<1> DEFINE c == Part(RotateOut(a, i, len, None), 0, len - 1)
<1>1. a[i] \in Item
  BY DEF ItemsAt
<1>2. Gains(c, Part(a, 0, len), i, a[i])
  BY <1>1, RotateOutGains
<1>3. Gains(c, Part(b, 0, len), i, x)
  BY RotateOutGains
<1> HIDE DEF c
<1> QED
  BY <1>1, <1>2, <1>3, GainsSwap

\* get reads the item at its index.
LEMMA GetReads ==
  ASSUME ReadInv, SeekPlaced, pc = "seek", IsLeaf(heap, node), index < heap[node].length,
         NEW y, y = heap[node].children[index]
  PROVE  Sets(Items, request.index, y, y, Items)
<1>1. PICK first, before, rank, bound : AtPlace(first, before, rank, bound)
  BY LeafPlace
<1>2. index \in Nat
  BY LeafHolds DEF ReadInv
<1>3. /\ Listed(heap, rank, bound) /\ StartsAt(heap, first) /\ LeafIn(heap, node)
      /\ CountsFrom(heap, first, before) /\ request.index = before[node] + index
      /\ first = FirstLeaf(heap, root)
  BY <1>1, StartsThere DEF AtPlace
<1> DEFINE ch == heap[node].children
           len == heap[node].length
<1>4. /\ len \in Nat /\ len <= B /\ ItemsAt(ch, 0, len)
      /\ Children(heap, node) = Part(ch, 0, len)
  BY <1>3, LeafPart
<1>5. y \in Item
  BY <1>2, <1>4 DEF ItemsAt
<1>6. Swaps(Children(heap, node), Children(heap, node), index, y, y)
  <2>1. Swaps(Part(ch, 0, len), Part(ch, 0, len), index, ch[index], y)
    BY <1>2, <1>4, <1>5, SlotSwaps
  <2> QED
    BY <1>4, <2>1
<1> HIDE DEF ch, len
<1>7. SameLeavesBut(heap, heap, node)
  BY DEF SameLeavesBut, SameLeaf
<1>8. PICK u, w : Differ(heap, heap, first, node, Children(heap, node),
                         Children(heap, node), u, w)
  BY <1>3, <1>7, OneLeaf
<1>9. Sets(ItemsFrom(heap, first), request.index, y, y, ItemsFrom(heap, first))
  BY <1>3, <1>5, <1>6, <1>8, LeafSets
<1> QED
  BY <1>3, <1>9 DEF Items

\* Leaf p holds the first len of the slots, and the list is as it was.
LeafRefilled(h, g, p, slots, len) ==
  /\ SameLeafList(h, g) /\ SameLeavesBut(h, g, p)
  /\ LeafIn(g, p) /\ g[p].next = h[p].next
  /\ Children(g, p) = Part(slots, 0, len)

\* New slots in a leaf leave the list and the other leaves alone.
LEMMA LeafPutList ==
  ASSUME NEW h, NEW g, NEW p, LeafIn(h, p), NEW slots, NEW len \in Nat,
         LeafPut(h, g, p, slots, len)
  PROVE  LeafRefilled(h, g, p, slots, len)
<1>1. SameLeafList(h, g) /\ LeafIn(g, p) /\ g[p].next = h[p].next /\ g[p].length = len
      /\ g[p].children = slots
  BY DEF SameLeafList, LeafPut, LeafIn, IsLeaf
<1>2. SameLeavesBut(h, g, p)
  BY DEF SameLeavesBut, SameLeaf, LeafPut, LeafIn, IsLeaf, Children
<1> QED
  BY <1>1, <1>2, ChildrenPart DEF LeafRefilled

\* get_mut with the caller writing through the reference: the item at the index
\* is another one.
LEMMA SetKept ==
  ASSUME ReadInv, SeekPlaced, VecInv', FiniteInv', NoPanic', Set
  PROVE  ReadInv' /\ \E y : Sets(Items, request.index, y, request.item, Items')
<1>1. pc = "seek" /\ request.op = "set" /\ IsLeaf(heap, node) /\ VecInv
  BY DEF Set, AtLeaf, ReadInv
<1>2. /\ node \in Allocated(heap) /\ heap \in Heap /\ index \in Nat
      /\ index < heap[node].length
  BY <1>1, LeafHolds
<1>3. held \in Item /\ held = request.item
  BY <1>1 DEF VecInv, TreeInv, TreeInvAt, HeldOK, SeekPlaced
<1>4. /\ heap' = [heap EXCEPT ![node].children[index] = held] /\ pc' = "return"
      /\ UNCHANGED <<root, size, request>>
  BY <1>2 DEF Set
<1>5. PICK first, before, rank, bound : AtPlace(first, before, rank, bound)
  BY <1>1, LeafPlace
<1>6. /\ Listed(heap, rank, bound) /\ StartsAt(heap, first) /\ LeafIn(heap, node)
      /\ CountsFrom(heap, first, before) /\ request.index = before[node] + index
      /\ first = FirstLeaf(heap, root) /\ ListStarts(heap, {}, first)
  BY <1>5, StartsThere DEF AtPlace
<1> DEFINE len == heap[node].length
           ch == [heap[node].children EXCEPT ![index] = held]
<1>7. /\ len \in Nat /\ len <= B /\ ItemsAt(heap[node].children, 0, len)
      /\ Children(heap, node) = Part(heap[node].children, 0, len)
  BY <1>6, LeafPart
<1>8. node \in Ptr /\ heap[node] \in Node /\ heap[node].children \in [Position -> Slot]
  BY <1>2, FieldTypes DEF Allocated, Heap
<1>9. LeafPut(heap, heap', node, ch, len)
  <2>1. heap' = [heap EXCEPT ![node] = [heap[node] EXCEPT !.children = ch]]
    BY <1>4
  <2> HIDE DEF ch
  <2>2. heap'[node] = [heap[node] EXCEPT !.children = ch]
    BY <1>2, <1>8, <2>1 DEF Heap
  <2>3. \A p \in Ptr : p # node => heap'[p] = heap[p]
    BY <1>2, <2>1 DEF Heap
  <2> QED
    BY <1>8, <2>2, <2>3 DEF LeafPut, Node
<1>10. ch[index] = held /\ \A j \in 0..(len - 1) : j # index => ch[j] = heap[node].children[j]
  <2>1. B \in Nat /\ index \in Position /\ \A j \in 0..(len - 1) : j \in Position
    BY <1>2, <1>7, NodeAssumption DEF Position
  <2> QED
    BY <1>8, <2>1
<1> HIDE DEF ch
<1>11. PICK y \in Item : Swaps(Part(heap[node].children, 0, len), Part(ch, 0, len), index, y, held)
  BY <1>2, <1>3, <1>7, <1>10, SlotSwaps
<1> HIDE DEF len
<1>20. LeafRefilled(heap, heap', node, ch, len)
  BY <1>6, <1>7, <1>9, LeafPutList, Zenon
<1>12. /\ SameLeafList(heap, heap') /\ SameLeavesBut(heap, heap', node) /\ LeafIn(heap', node)
       /\ heap'[node].next = heap[node].next /\ Children(heap', node) = Part(ch, 0, len)
  BY <1>20, Zenon DEF LeafRefilled
<1>13. Swaps(Children(heap, node), Children(heap', node), index, y, held)
  BY <1>7, <1>11, <1>12
<1>14. ListEnds(heap')
  BY <1>6, <1>12, LeafListEnds DEF ListEnds, Listed
<1>15. ~ Ended' /\ Gone' = {} /\ Top' = root'
  <2>1. ~ Ended' /\ ~ Inserting' /\ ~ Removing'
    BY <1>4 DEF Ended, Inserting, Removing
  <2> QED
    BY <2>1, TopNext DEF Gone
<1>16. LiveLeaf(heap', Gone', first) /\ NoneNewBefore(heap, heap', Gone', first)
  BY <1>6, <1>12, <1>15, LeafListFirst
<1>17. /\ ReadInv'
       /\ Items = ItemsFrom(heap, first) /\ Items' = ItemsFrom(heap', first)
       /\ \E rank1, bound1 : Listed(heap', rank1, bound1)
  BY <1>1, <1>4, <1>6, <1>14, <1>15, <1>16, LeafStep
<1>18. PICK u, w : Differ(heap, heap', first, node, Children(heap, node),
                          Children(heap', node), u, w)
  BY <1>6, <1>12, <1>17, OneLeaf
<1>19. Sets(ItemsFrom(heap, first), request.index, y, held, ItemsFrom(heap', first))
  BY <1>3, <1>6, <1>13, <1>18, LeafSets
<1> QED
  BY <1>3, <1>17, <1>19

\* insert_once into a leaf that has room: the leaf gains the item.
LEMMA RoomGains ==
  ASSUME NEW h, NEW rank, NEW bound, Listed(h, rank, bound), NEW n, LeafIn(h, n),
         h[n].length < B, NEW j \in 0..h[n].length, NEW entry, entry.slot \in Item,
         NEW g, g = SimpleInsert(h, n, j, entry)
  PROVE  /\ SameLeafList(h, g) /\ SameLeavesBut(h, g, n) /\ LeafIn(g, n) /\ g[n].next = h[n].next
         /\ Gains(Children(h, n), Children(g, n), j, entry.slot)
<1> DEFINE len == h[n].length
           ch == RotateIn(h[n].children, j, len, entry.slot)
<1>1. /\ len \in Nat /\ len <= B /\ ItemsAt(h[n].children, 0, len)
      /\ Children(h, n) = Part(h[n].children, 0, len)
  BY LeafPart
<1>2. Gains(Part(h[n].children, 0, len), Part(ch, 0, len + 1), j, entry.slot)
  BY <1>1, RotateInGains
<1>3. LeafPut(h, g, n, ch, len + 1)
  BY SimpleInsertLeaf DEF LeafIn, Listed
<1>5. len + 1 \in Nat
  BY <1>1
<1> HIDE DEF ch
<1>6. LeafRefilled(h, g, n, ch, len + 1)
  BY <1>3, <1>5, LeafPutList, Zenon
<1>4. /\ SameLeafList(h, g) /\ SameLeavesBut(h, g, n) /\ LeafIn(g, n) /\ g[n].next = h[n].next
      /\ Children(g, n) = Part(ch, 0, len + 1)
  BY <1>6, Zenon DEF LeafRefilled
<1> QED
  BY <1>1, <1>2, <1>4

-----------------------------------------------------------------------------
(***************************************************************************)
(* An item inserted.                                                       *)
(***************************************************************************)

\* Leaf n of h is n and `new` of f.
Halves(h, f, n, new) ==
  /\ SameLeavesBut(h, f, n)
  /\ LeafIn(f, n) /\ LeafIn(f, new) /\ f[n].next = new /\ f[new].next = h[n].next
  /\ \A p : LeafIn(f, p) => p = new \/ LeafIn(h, p)

\* A list with a new leaf behind leaf n ends as the one without.
LEMMA HalvesEnd ==
  ASSUME NEW h, NEW rank, NEW bound, EndsBy(h, rank, bound), NEW n, LeafIn(h, n),
         NEW new \in Free(h), NEW f, Halves(h, f, n, new)
  PROVE  ListEnds(f)
<1> DEFINE high == 2 * bound + 1
           place == [p \in Ptr |-> IF p = new THEN 2 * rank[n] ELSE 2 * rank[p] + 1]
<1>1. bound \in Nat /\ \A p \in Ptr : rank[p] \in Nat /\ rank[p] <= bound
  BY DEF EndsBy
<1>2. high \in Nat /\ n \in Ptr /\ new \in Ptr /\ ~ LeafIn(h, new)
  BY <1>1 DEF LeafIn, Free, IsLeaf
<1>3. place \in [Ptr -> 0..high]
  BY <1>1, <1>2
<1>4. ASSUME NEW p \in Ptr, IsLeaf(f, p), f[p].next # None
      PROVE  f[p].next \in Ptr /\ IsLeaf(f, f[p].next) /\ place[f[p].next] < place[p]
  <2>1. ASSUME NEW q, LeafIn(h, q), h[q].next # None
        PROVE  /\ LeafIn(h, h[q].next) /\ LeafIn(f, h[q].next) /\ h[q].next \in Ptr
               /\ rank[h[q].next] < rank[q] /\ h[q].next # new
    <3>1. LeafIn(h, h[q].next) /\ rank[h[q].next] < rank[q]
      BY <2>1 DEF EndsBy, LeafIn
    <3> QED
      BY <1>2, <3>1 DEF Halves, SameLeavesBut, SameLeaf, LeafIn
  <2>2. CASE p = n
    <3>1. f[p].next = new /\ LeafIn(f, new) /\ p # new
      BY <1>2, <2>2 DEF Halves
    <3>2. place[new] = 2 * rank[n] /\ place[p] = 2 * rank[n] + 1 /\ rank[n] \in Nat
      BY <1>1, <1>2, <2>2, <3>1
    <3> HIDE DEF place
    <3>3. place[new] < place[p]
      BY <3>2
    <3> QED
      BY <3>1, <3>3 DEF LeafIn
  <2>3. CASE p = new
    <3>1. f[p].next = h[n].next
      BY <2>3 DEF Halves
    <3>2. /\ LeafIn(f, f[p].next) /\ f[p].next \in Ptr /\ rank[f[p].next] < rank[n]
          /\ f[p].next # new
      BY <1>4, <2>1, <3>1
    <3>3. place[f[p].next] = 2 * rank[f[p].next] + 1 /\ place[p] = 2 * rank[n]
      BY <2>3, <3>2
    <3> HIDE DEF place
    <3>4. PICK a \in Nat, b \in Nat : a = rank[f[p].next] /\ b = rank[n]
      BY <1>1, <1>2, <3>2
    <3>5. place[f[p].next] < place[p]
      BY <3>2, <3>3, <3>4
    <3> QED
      BY <3>2, <3>5 DEF LeafIn
  <2>4. CASE p # n /\ p # new
    <3>1. LeafIn(h, p) /\ f[p].next = h[p].next
      BY <1>4, <2>4 DEF Halves, SameLeavesBut, SameLeaf, LeafIn
    <3>2. /\ LeafIn(f, f[p].next) /\ f[p].next \in Ptr /\ rank[f[p].next] < rank[p]
          /\ f[p].next # new
      BY <1>4, <2>1, <3>1
    <3>3. place[f[p].next] = 2 * rank[f[p].next] + 1 /\ place[p] = 2 * rank[p] + 1
      BY <2>4, <3>2
    <3> HIDE DEF place
    <3>4. PICK a \in Nat, b \in Nat : a = rank[f[p].next] /\ b = rank[p]
      BY <1>1, <3>2
    <3>5. place[f[p].next] < place[p]
      BY <3>2, <3>3, <3>4
    <3> QED
      BY <3>2, <3>5 DEF LeafIn
  <2> QED
    BY <2>2, <2>3, <2>4
<1> HIDE DEF place, high
<1>5. EndsBy(f, place, high)
  BY <1>2, <1>3, <1>4 DEF EndsBy
<1> QED
  BY <1>5 DEF ListEnds

\* What a leaf held and what its halves hold.
HalfItems(h, f, n, new, left) ==
  /\ f[n].length = left /\ f[new].length = B - left
  /\ Children(f, n) \in Seq(Item) /\ Children(f, new) \in Seq(Item)
  /\ Len(Children(f, n)) = left
  /\ Children(f, n) \o Children(f, new) = Children(h, n)

\* split of a full leaf: the halves hold what it held, in order.
LEMMA SplitLeaf ==
  ASSUME NEW h, NEW rank, NEW bound, Listed(h, rank, bound), NEW n, LeafIn(h, n),
         h[n].length = B, NEW new \in Free(h), NEW left \in 1..(B - 1),
         NEW f, NodeSplit(h, f, n, left, new)
  PROVE  Halves(h, f, n, new) /\ HalfItems(h, f, n, new, left)
<1> DEFINE right == B - left
<1>1. /\ B \in Nat /\ left \in Nat /\ right \in Nat /\ left + right = B
      /\ \A j \in 0..(left - 1) : j \in Position
      /\ \A j \in 0..(right - 1) : j \in Position
  BY NodeAssumption DEF Position
<1>2. n \in Ptr /\ new \in Ptr /\ n # new /\ IsLeaf(h, n)
  BY DEF LeafIn, Free, IsLeaf
<1>3. Halves(h, f, n, new)
  <2>1. \A p \in Ptr : p # n /\ p # new =>
          /\ f[p].kind = h[p].kind /\ f[p].next = h[p].next
          /\ f[p].length = h[p].length /\ f[p].children = h[p].children
    BY <1>2 DEF NodeSplit
  <2>2. /\ f[new].kind = h[n].kind /\ f[new].next = h[n].next
        /\ f[n].kind = h[n].kind /\ f[n].next = new
    BY <1>2 DEF NodeSplit
  <2>3. SameLeavesBut(h, f, n)
    <3> SUFFICES ASSUME NEW p, LeafIn(h, p), p # n PROVE SameLeaf(h, f, p)
      BY DEF SameLeavesBut
    <3>1. p # new /\ p \in Ptr
      BY DEF LeafIn, Free, IsLeaf
    <3> QED
      BY <2>1, <3>1, SameLeafBy
  <2> QED
    BY <1>2, <2>1, <2>2, <2>3 DEF Halves, LeafIn, IsLeaf
<1>4. /\ f[n].length = left /\ f[new].length = right
      /\ \A j \in 0..(left - 1) : f[n].children[j] = h[n].children[j]
      /\ \A j \in 0..(right - 1) : f[new].children[j] = h[n].children[left + j]
  <2>1. /\ f[n].length = left /\ f[new].length = right
        /\ f[n].children = [j \in Position |-> IF j < left THEN h[n].children[j] ELSE None]
        /\ f[new].children =
             [j \in Position |-> IF j < right THEN h[n].children[left + j] ELSE None]
    BY <1>2 DEF NodeSplit
  <2>2. \A j \in 0..(left - 1) : j \in Position /\ j < left
    BY <1>1
  <2>3. \A j \in 0..(right - 1) : j \in Position /\ j < right
    BY <1>1
  <2> HIDE DEF right
  <2>4. \A j \in 0..(left - 1) : f[n].children[j] = h[n].children[j]
    BY <2>1, <2>2
  <2>5. \A j \in 0..(right - 1) : f[new].children[j] = h[n].children[left + j]
    BY <2>1, <2>3
  <2> QED
    BY <2>1, <2>4, <2>5
<1> HIDE DEF right
<1>5. ItemsAt(h[n].children, 0, B) /\ Children(h, n) = Part(h[n].children, 0, B)
  BY LeafPart
<1>6. PartsJoin(h[n].children, 0, left, left, right, B)
  <2>1. left = 0 + left /\ B = left + right /\ 0 \in Nat
    BY <1>1
  <2> QED
    BY <1>1, <1>5, <2>1, PartJoin, Zenon
<1>7. Children(f, n) = Part(h[n].children, 0, left)
  <2>1. Children(f, n) = Part(f[n].children, 0, left)
    BY <1>1, <1>4, ChildrenPart
  <2>2. SamePart(f[n].children, 0, h[n].children, 0, left)
    <3>1. \A k \in 1..left : 0 + k - 1 \in 0..(left - 1)
      BY <1>1
    <3> QED
      BY <1>4, <3>1 DEF SamePart
  <2> QED
    BY <2>1, <2>2, PartSame
<1>8. Children(f, new) = Part(h[n].children, left, right)
  <2>1. Children(f, new) = Part(f[new].children, 0, right)
    BY <1>1, <1>4, ChildrenPart
  <2>2. SamePart(f[new].children, 0, h[n].children, left, right)
    <3>1. \A k \in 1..right : 0 + k - 1 \in 0..(right - 1) /\ left + (0 + k - 1) = left + k - 1
      BY <1>1
    <3> QED
      BY <1>4, <3>1 DEF SamePart
  <2> QED
    BY <2>1, <2>2, PartSame
<1>9. /\ ItemsAt(h[n].children, 0, left) /\ ItemsAt(h[n].children, left, right)
      /\ Children(f, n) \o Children(f, new) = Children(h, n)
  BY <1>5, <1>6, <1>7, <1>8, Zenon DEF PartsJoin
<1>10. Children(f, n) \in Seq(Item) /\ Len(Children(f, n)) = left
  <2>1. Part(h[n].children, 0, left) \in Seq(Item) /\ Len(Part(h[n].children, 0, left)) = left
    BY <1>1, <1>9, PartSeq
  <2> QED
    BY <1>7, <2>1
<1>11. Children(f, new) \in Seq(Item)
  <2>1. Part(h[n].children, left, right) \in Seq(Item)
    BY <1>1, <1>9, PartSeq
  <2> QED
    BY <1>8, <2>1
<1> QED
  BY <1>3, <1>4, <1>9, <1>10, <1>11, Zenon DEF HalfItems, right

\* Item i of the two leaves is x, and what else they hold is what leaf n of h held.
HalvesGain(h, g, n, new, i, x) ==
  /\ Halves(h, g, n, new)
  /\ Gains(Children(h, n), Children(g, n) \o Children(g, new), i, x)

\* Then an item put into one of the halves.
LEMMA HalfGains ==
  ASSUME NEW h, NEW n, LeafIn(h, n), NEW new \in Free(h), NEW f, Halves(h, f, n, new),
         NEW left, HalfItems(h, f, n, new, left),
         NEW m \in {n, new}, NEW j, NEW i, i = IF m = new THEN left + j ELSE j,
         NEW x \in Item, NEW g, SameLeafList(f, g), SameLeavesBut(f, g, m), LeafIn(g, m),
         g[m].next = f[m].next, Gains(Children(f, m), Children(g, m), j, x)
  PROVE  HalvesGain(h, g, n, new, i, x)
<1>1. n # new
  BY DEF LeafIn, Free, IsLeaf
<1>2. Halves(h, g, n, new)
  <2>1. LeafIn(g, n) /\ LeafIn(g, new) /\ g[n].next = new /\ g[new].next = h[n].next
    BY DEF Halves, SameLeafList, LeafIn, IsLeaf
  <2>2. \A p : LeafIn(g, p) => p = new \/ LeafIn(h, p)
    BY DEF Halves, SameLeafList, LeafIn, IsLeaf
  <2>3. SameLeavesBut(h, g, n)
    <3> SUFFICES ASSUME NEW p, LeafIn(h, p), p # n PROVE SameLeaf(h, g, p)
      BY DEF SameLeavesBut
    <3>1. p # new
      BY DEF LeafIn, Free, IsLeaf
    <3>2. SameLeaf(h, f, p)
      BY DEF Halves, SameLeavesBut
    <3>3. SameLeaf(f, g, p)
      BY <3>1, <3>2 DEF SameLeavesBut, SameLeaf
    <3> QED
      BY <3>2, <3>3 DEF SameLeaf
  <2> QED
    BY <2>1, <2>2, <2>3 DEF Halves
<1>3. CASE m = new
  <2>1. Children(g, n) = Children(f, n)
    BY <1>1, <1>3 DEF Halves, SameLeavesBut, SameLeaf
  <2>2. Children(f, n) \in Seq(Item) /\ left + j = Len(Children(f, n)) + j
    BY DEF HalfItems
  <2>3. Gains(Children(f, n) \o Children(f, new), Children(f, n) \o Children(g, new),
              Len(Children(f, n)) + j, x)
    BY <1>3, <2>2, GainsRight
  <2>4. Children(f, n) \o Children(f, new) = Children(h, n)
    BY DEF HalfItems
  <2>5. i = Len(Children(f, n)) + j
    BY <1>3, <2>2
  <2> QED
    BY <1>2, <2>1, <2>3, <2>4, <2>5, Zenon DEF HalvesGain
<1>4. CASE m # new
  <2>1. Children(g, new) = Children(f, new) /\ m = n /\ i = j
    BY <1>1, <1>4 DEF Halves, SameLeavesBut, SameLeaf
  <2>2. Children(f, new) \in Seq(Item)
    BY DEF HalfItems
  <2>3. Gains(Children(f, n) \o Children(f, new), Children(g, n) \o Children(f, new), j, x)
    BY <2>1, <2>2, GainsLeft
  <2>4. Children(f, n) \o Children(f, new) = Children(h, n)
    BY DEF HalfItems
  <2> QED
    BY <1>2, <2>1, <2>3, <2>4, Zenon DEF HalvesGain
<1> QED
  BY <1>3, <1>4

\* insert_once into a full leaf: the halves gain the item.
LEMMA SplitGains ==
  ASSUME NEW h, NEW rank, NEW bound, Listed(h, rank, bound), NEW n, LeafIn(h, n),
         h[n].length = B, NEW new \in Free(h), NEW i \in 0..B,
         NEW entry \in [slot : Slot, size : Nat], entry.slot \in Item,
         NEW r, r = InsertOnce(h, n, i, entry, new)
  PROVE  HalvesGain(h, r.heap, n, new, i, entry.slot)
<1> DEFINE larger == B - MinLength
           left == IF i >= larger THEN larger ELSE MinLength
           f == Split(h, n, left, new)
           m == IF i >= larger THEN new ELSE n
           j == IF i >= larger THEN i - larger ELSE i
<1>1. h \in Heap /\ n \in Allocated(h) /\ n \in Ptr /\ new \in Ptr /\ n # new
  BY DEF Listed, LeafIn, IsLeaf, Allocated, Free
<1>2. PICK lev : Tree(h, lev)
  BY DEF Listed
<1>3. B \in Nat /\ i \in Nat /\ larger \in 1..(B - 1) /\ MinLength \in 1..(B - 1)
  BY NodeAssumption DEF MinLength
<1>4. r.heap = SimpleInsert(f, m, j, entry)
  <2>1. ~ (h[n].length < B)
    BY <1>3
  <2> QED
    BY <2>1 DEF InsertOnce
<1>5. left \in 1..(B - 1) /\ m \in {n, new}
  BY <1>3
<1>6. NodeSplit(h, f, n, left, new) /\ f \in Heap
  <2> HIDE DEF left
  <2> QED
    BY <1>1, <1>2, <1>5, SplitRelinks, SplitType
<1>7. /\ i = IF m = new THEN left + j ELSE j
      /\ j \in 0..(IF m = new THEN B - left ELSE left)
      /\ (IF m = new THEN B - left ELSE left) < B
  <2> HIDE DEF larger
  <2>1. CASE i >= larger
    <3>1. m = new /\ left = larger /\ j = i - larger
      BY <2>1
    <3> HIDE DEF m, left, j
    <3> QED
      BY <1>3, <2>1, <3>1
  <2>2. CASE ~ (i >= larger)
    <3>1. m = n /\ left = MinLength /\ j = i /\ larger <= MinLength + 1
      BY <2>2, NodeAssumption DEF MinLength, larger
    <3> HIDE DEF m, left, j
    <3> QED
      BY <1>1, <1>3, <2>2, <3>1
  <2> QED
    BY <2>1, <2>2
<1> HIDE DEF larger, left, f, m, j
<1>8. Tree(f, Beside(lev, n, new))
  BY <1>1, <1>2, <1>5, <1>6, NodeSplitTree
<1>9. Halves(h, f, n, new) /\ HalfItems(h, f, n, new, left)
  BY <1>5, <1>6, SplitLeaf
<1>10. PICK rank1, bound1 : Listed(f, rank1, bound1)
  <2>1. EndsBy(h, rank, bound)
    BY DEF Listed
  <2>2. ListEnds(f)
    BY <1>9, <2>1, HalvesEnd
  <2> QED
    BY <1>6, <1>8, <2>2 DEF Listed, ListEnds
<1>11. LeafIn(f, m) /\ f[m].length < B /\ j \in 0..f[m].length
  <2>1. f[m].length = IF m = new THEN B - left ELSE left
    BY <1>1, <1>5, <1>9 DEF HalfItems
  <2> QED
    BY <1>5, <1>7, <1>9, <2>1 DEF Halves
<1>12. /\ SameLeafList(f, r.heap) /\ SameLeavesBut(f, r.heap, m) /\ LeafIn(r.heap, m)
       /\ r.heap[m].next = f[m].next
       /\ Gains(Children(f, m), Children(r.heap, m), j, entry.slot)
  BY <1>4, <1>10, <1>11, RoomGains
<1> QED
  BY <1>5, <1>7, <1>9, <1>12, HalfGains

\* The vector is the top of the tree, after the first step of handle_insertion
\* as before.
LEMMA InsertAtLeafTop ==
  ASSUME VecInv, InsertAtLeaf, pc' # "panicked"
  PROVE  /\ pc = "seek" /\ request.op = "insert" /\ IsLeaf(heap, node)
         /\ node \in Allocated(heap) /\ heap \in Heap /\ index \in 0..heap[node].length
         /\ heap[node].length \in 0..B
         /\ held \in Item
         /\ heap[node].length = B => Fresh(heap) \in Free(heap)
         /\ heap' = InsertOnce(heap, node, index, Entry(held, 1), Fresh(heap)).heap
         /\ pc' = "climb" /\ UNCHANGED <<root, size, request, node>>
         /\ Top' = root'
<1> DEFINE entry == Entry(held, 1)
           new == Fresh(heap)
           r == InsertOnce(heap, node, index, entry, new)
<1>1. pc = "seek" /\ request.op = "insert" /\ IsLeaf(heap, node)
  BY DEF InsertAtLeaf, AtLeaf
<1>2. /\ node \in Allocated(heap) /\ heap \in Heap /\ index \in Nat
      /\ heap[node].length \in 0..B /\ index <= heap[node].length
  BY <1>1, LeafHolds
<1>3. held \in Item
  BY <1>1 DEF VecInv, TreeInv, TreeInvAt, HeldOK
<1>4. /\ heap' = r.heap /\ pc' = "climb" /\ UNCHANGED <<root, size, request, node>>
  BY DEF InsertAtLeaf, Panic, Leave
<1>5. heap[node].length = B => new \in Free(heap)
  BY DEF InsertAtLeaf, Fresh, Free
<1>6. index \in 0..heap[node].length
  BY <1>2
<1>7. ~ Inserting /\ ~ Removing /\ ~ Ended /\ TypeInv /\ TreeInv
  BY <1>1 DEF Inserting, Removing, Ended, VecInv
<1>8. PICK lev \in [Ptr -> Nat] : OneTree(lev)
  BY <1>7, OneTreeThen
<1>9. entry.slot = held /\ entry \in [slot : Slot, size : Nat]
  BY <1>3 DEF Entry, Slot
<1> HIDE DEF entry, new
<1>10. InsertOK(heap, lev, node, index, entry)
  BY <1>1, <1>2, <1>3, <1>6, <1>9 DEF InsertOK
<1>11. InsertedOnce(heap, r, lev, node, held, new)
  BY <1>2, <1>5, <1>8, <1>9, <1>10, InsertOnceTree DEF OneTree
<1>12. Roots(heap) \ {held} = {root} \ {None}
  <2>1. held \notin Roots(heap)
    BY <1>3, NodeAssumption DEF Roots, Allocated
  <2>2. Roots(heap) = {root} \ {None}
    BY <1>8 DEF OneTree
  <2> QED
    BY <2>1, <2>2
<1> HIDE DEF r
<1>13. root # None => heap'[root].parent = None
  BY <1>4, <1>11, <1>12, RootStays
<1>14. Top' = root'
  BY <1>4, <1>13 DEF Top
<1> QED
  BY <1>1, <1>2, <1>3, <1>4, <1>5, <1>6, <1>14 DEF r, entry, new

\* One leaf instead of two: its list starts where it did.
LEMMA HalvesFirst ==
  ASSUME NEW h, NEW g, NEW n, NEW new \in Free(h), Halves(h, g, n, new), LeafIn(h, n),
         NEW first, ListStarts(h, {}, first)
  PROVE  LiveLeaf(g, {}, first) /\ NoneNewBefore(h, g, {}, first)
<1>1. LeafIn(h, first) /\ first # new
  BY DEF ListStarts, LiveLeaf, LeafIn, Free, IsLeaf
<1>2. LeafIn(g, first)
  BY <1>1 DEF Halves, SameLeavesBut, SameLeaf
<1>3. ASSUME NEW q, LeafIn(g, q), g[q].next = first
      PROVE  \E p : LeafIn(h, p) /\ h[p].next = first
  <2>1. CASE q = new
    BY <1>3, <2>1 DEF Halves
  <2>2. CASE q # new
    <3>1. LeafIn(h, q) /\ q # n
      BY <1>1, <1>3, <2>2 DEF Halves
    <3> QED
      BY <1>3, <3>1 DEF Halves, SameLeavesBut, SameLeaf
  <2> QED
    BY <2>1, <2>2
<1> QED
  BY <1>2, <1>3 DEF LiveLeaf, NoneNewBefore

\* insert at the leaf: the item is at its index.
LEMMA InsertAtLeafKept ==
  ASSUME ReadInv, SeekPlaced, VecInv', FiniteInv', NoPanic', InsertAtLeaf
  PROVE  ReadInv' /\ Gets(Items, request.index, request.item, Items')
<1> DEFINE entry == Entry(held, 1)
           new == Fresh(heap)
           r == InsertOnce(heap, node, index, entry, new)
           x == request.item
<1>1. /\ pc = "seek" /\ request.op = "insert" /\ IsLeaf(heap, node)
      /\ node \in Allocated(heap) /\ heap \in Heap /\ index \in 0..heap[node].length
      /\ heap[node].length \in 0..B
      /\ held \in Item
      /\ heap[node].length = B => new \in Free(heap)
      /\ heap' = r.heap
      /\ pc' = "climb" /\ UNCHANGED <<root, size, request, node>>
      /\ Top' = root'
  BY InsertAtLeafTop DEF NoPanic, ReadInv
<1>2. entry \in [slot : Slot, size : Nat] /\ entry.slot = x /\ x \in Item
  BY <1>1 DEF Entry, Slot, SeekPlaced
<1>3. PICK first, before, rank, bound : AtPlace(first, before, rank, bound)
  BY <1>1, LeafPlace
<1>4. /\ Listed(heap, rank, bound) /\ StartsAt(heap, first) /\ LeafIn(heap, node)
      /\ CountsFrom(heap, first, before) /\ request.index = before[node] + index
      /\ first = FirstLeaf(heap, root) /\ ListStarts(heap, {}, first)
      /\ EndsBy(heap, rank, bound)
  BY <1>3, StartsThere DEF AtPlace, Listed
<1>5. ~ Ended' /\ Gone' = {}
  BY <1>1 DEF Ended, Gone, Removing
<1>6. r = InsertOnce(heap, node, index, entry, new)
  OBVIOUS
<1>7. B \in Nat
  BY NodeAssumption
<1> HIDE DEF entry, new, r, x
<1>8. CASE heap[node].length < B
  <2>1. heap' = SimpleInsert(heap, node, index, entry)
    BY <1>1, <1>6, <1>8 DEF InsertOnce
  <2>2. /\ SameLeafList(heap, heap') /\ SameLeavesBut(heap, heap', node) /\ LeafIn(heap', node)
        /\ heap'[node].next = heap[node].next
        /\ Gains(Children(heap, node), Children(heap', node), index, x)
    <3> DEFINE g == heap'
    <3>1. g = SimpleInsert(heap, node, index, entry)
      BY <2>1
    <3> HIDE DEF g
    <3>2. /\ SameLeafList(heap, g) /\ SameLeavesBut(heap, g, node) /\ LeafIn(g, node)
          /\ g[node].next = heap[node].next
          /\ Gains(Children(heap, node), Children(g, node), index, entry.slot)
      BY <1>1, <1>2, <1>4, <1>8, <3>1, RoomGains
    <3> QED
      BY <1>2, <3>2 DEF g
  <2>3. ListEnds(heap')
    BY <1>4, <2>2, LeafListEnds DEF ListEnds
  <2>4. LiveLeaf(heap', Gone', first) /\ NoneNewBefore(heap, heap', Gone', first)
    BY <1>4, <1>5, <2>2, LeafListFirst
  <2>5. /\ ReadInv'
        /\ Items = ItemsFrom(heap, first) /\ Items' = ItemsFrom(heap', first)
        /\ \E rank1, bound1 : Listed(heap', rank1, bound1)
    BY <1>1, <1>4, <1>5, <2>3, <2>4, LeafStep
  <2>6. PICK u, w : Differ(heap, heap', first, node, Children(heap, node),
                           Children(heap', node), u, w)
    BY <1>4, <2>2, <2>5, OneLeaf
  <2>7. Gets(ItemsFrom(heap, first), request.index, x, ItemsFrom(heap', first))
    BY <1>2, <1>4, <2>2, <2>6, LeafGets
  <2> QED
    BY <2>5, <2>7 DEF x
<1>9. CASE heap[node].length = B
  <2>1. HalvesGain(heap, heap', node, new, index, x)
    <3>1. HalvesGain(heap, r.heap, node, new, index, entry.slot)
      BY <1>1, <1>2, <1>4, <1>6, <1>9, SplitGains
    <3> QED
      BY <1>1, <1>2, <3>1
  <2>2. /\ Halves(heap, heap', node, new) /\ new \in Free(heap)
        /\ Gains(Children(heap, node), Children(heap', node) \o Children(heap', new), index, x)
    BY <1>1, <1>9, <2>1 DEF HalvesGain
  <2>3. ListEnds(heap')
    BY <1>4, <2>2, HalvesEnd
  <2>4. LiveLeaf(heap', Gone', first) /\ NoneNewBefore(heap, heap', Gone', first)
    BY <1>4, <1>5, <2>2, HalvesFirst
  <2>5. /\ ReadInv'
        /\ Items = ItemsFrom(heap, first) /\ Items' = ItemsFrom(heap', first)
        /\ \E rank1, bound1 : Listed(heap', rank1, bound1)
    BY <1>1, <1>4, <1>5, <2>3, <2>4, LeafStep
  <2>6. PICK u, w : Differ(heap, heap', first, node, Children(heap, node),
                           Children(heap', node) \o Children(heap', new), u, w)
    BY <1>4, <2>2, <2>5, OneSplit DEF Halves
  <2>7. Gets(ItemsFrom(heap, first), request.index, x, ItemsFrom(heap', first))
    BY <1>2, <1>4, <2>2, <2>6, LeafGets
  <2> QED
    BY <2>5, <2>7 DEF x
<1> QED
  BY <1>1, <1>7, <1>8, <1>9

-----------------------------------------------------------------------------
(***************************************************************************)
(* An item removed.                                                        *)
(***************************************************************************)

\* Item i is taken out of a leaf.
LEMMA TakenGains ==
  ASSUME NEW h, NEW rank, NEW bound, Listed(h, rank, bound), NEW n, LeafIn(h, n),
         NEW i \in Nat, i < h[n].length, NEW g, g = SimpleRemove(h, n, i),
         NEW y, y = h[n].children[i]
  PROVE  /\ SameLeafList(h, g) /\ SameLeavesBut(h, g, n) /\ LeafIn(g, n)
         /\ g[n].next = h[n].next /\ y \in Item /\ Listed(g, rank, bound)
         /\ Gains(Children(g, n), Children(h, n), i, y)
<1> DEFINE len == h[n].length
           ch == RotateOut(h[n].children, i, len, None)
<1>1. /\ len \in Nat /\ len <= B /\ ItemsAt(h[n].children, 0, len)
      /\ Children(h, n) = Part(h[n].children, 0, len)
  BY LeafPart
<1>2. y \in Item
  BY <1>1 DEF ItemsAt
<1>3. Gains(Part(ch, 0, len - 1), Part(h[n].children, 0, len), i, y)
  BY <1>1, <1>2, RotateOutGains
<1>4. LeafPut(h, g, n, ch, len - 1)
  BY SimpleRemoveLeaf DEF LeafIn, Listed
<1>5. len - 1 \in Nat
  BY <1>1
<1> HIDE DEF ch
<1>6. LeafRefilled(h, g, n, ch, len - 1)
  BY <1>4, <1>5, LeafPutList, Zenon
<1>7. /\ SameLeafList(h, g) /\ SameLeavesBut(h, g, n) /\ LeafIn(g, n) /\ g[n].next = h[n].next
      /\ Children(g, n) = Part(ch, 0, len - 1)
  BY <1>6, Zenon DEF LeafRefilled
<1>8. Listed(g, rank, bound)
  <2>1. PICK lev : Tree(h, lev)
    BY DEF Listed
  <2>2. h \in Heap /\ n \in Ptr /\ n \in Allocated(h) /\ EndsBy(h, rank, bound)
    BY DEF Listed, LeafIn, IsLeaf, Allocated
  <2>3. Tree(g, lev) /\ g \in Heap
    <3>1. Removed(h, g, lev, n, i)
      BY <2>1, <2>2, SimpleRemoveTree
    <3>2. g \in Heap
      BY <2>2, SimpleRemoveType
    <3> QED
      BY <3>1, <3>2 DEF Removed
  <2>4. EndsBy(g, rank, bound)
    BY <1>7, <2>2, LeafListEnds
  <2> QED
    BY <2>3, <2>4 DEF Listed
<1> QED
  BY <1>1, <1>2, <1>3, <1>7, <1>8

\* Item i of leaf d has become item j of leaf t.
ItemMoved(h, g, d, i, t, j, y) ==
  /\ SameLeafList(h, g) /\ LeafIn(g, d) /\ LeafIn(g, t) /\ y \in Item
  /\ \A q : LeafIn(h, q) /\ q # d /\ q # t => SameLeaf(h, g, q)
  /\ Gains(Children(g, d), Children(h, d), i, y)
  /\ Gains(Children(h, t), Children(g, t), j, y)
  /\ Children(g, d) \in Seq(Item) /\ Len(Children(g, d)) = h[d].length - 1

\* An entry moved from leaf to leaf moves that item.
LEMMA MoveItem ==
  ASSUME NEW h, NEW rank, NEW bound, Listed(h, rank, bound),
         NEW d, LeafIn(h, d), NEW t, LeafIn(h, t), d # t,
         NEW i \in Nat, i < h[d].length, h[t].length < B, NEW j \in 0..h[t].length,
         NEW g, g = MoveEntry(h, d, i, t, j).heap
  PROVE  \E y : ItemMoved(h, g, d, i, t, j, y)
<1> DEFINE f == SimpleRemove(h, d, i)
           y == h[d].children[i]
           entry == Taken(h, d, i)
<1>1. g = SimpleInsert(f, t, j, entry)
  BY DEF MoveEntry
<1>2. entry.slot = y
  BY DEF Taken, Entry
<1>3. f = SimpleRemove(h, d, i) /\ y = h[d].children[i]
  OBVIOUS
<1>9. h[d].length \in Nat
  BY LeafPart
<1> HIDE DEF f, y, entry
<1>4. /\ SameLeafList(h, f) /\ SameLeavesBut(h, f, d) /\ LeafIn(f, d)
      /\ f[d].next = h[d].next /\ y \in Item /\ Listed(f, rank, bound)
      /\ Gains(Children(f, d), Children(h, d), i, y)
  BY <1>3, TakenGains
<1>5. SameLeaf(h, f, t)
  BY <1>4 DEF SameLeavesBut
<1>6. LeafIn(f, t) /\ f[t].length = h[t].length
  <2>1. LeafIn(f, t) /\ Children(f, t) = Children(h, t)
    BY <1>5 DEF SameLeaf
  <2>2. Len(Children(h, t)) = h[t].length /\ Len(Children(f, t)) = f[t].length
    BY <1>4, <2>1, ItemsStep
  <2> QED
    BY <2>1, <2>2
<1>7. /\ SameLeafList(f, g) /\ SameLeavesBut(f, g, t) /\ LeafIn(g, t)
      /\ Gains(Children(f, t), Children(g, t), j, y)
  BY <1>1, <1>2, <1>4, <1>6, RoomGains
<1>8. SameLeafList(h, g) /\ LeafIn(g, d)
  BY <1>4, <1>7 DEF SameLeafList, LeafIn, IsLeaf
<1>10. \A q : LeafIn(h, q) /\ q # d /\ q # t => SameLeaf(h, g, q)
  BY <1>4, <1>7 DEF SameLeavesBut, SameLeaf
<1>11. Children(g, d) = Children(f, d)
  BY <1>4, <1>7 DEF SameLeavesBut, SameLeaf
<1>12. Children(f, d) \in Seq(Item) /\ Len(Children(f, d)) = h[d].length - 1
  <2>1. Children(f, d) \in Seq(Item) /\ Len(Children(f, d)) = f[d].length
    BY <1>4, ItemsStep
  <2>2. f[d].length = h[d].length - 1
    BY <1>3, SimpleRemoveLeaf DEF LeafPut, LeafIn, Listed
  <2> QED
    BY <2>1, <2>2
<1>13. Children(f, t) = Children(h, t)
  BY <1>5 DEF SameLeaf
<1> QED
  BY <1>4, <1>7, <1>8, <1>10, <1>11, <1>12, <1>13, Zenon DEF ItemMoved

\* The items in two neighbouring leaves stay as they are, in order.
Rejoined(h, g, a, b) ==
  /\ LeafIn(g, a) /\ Exchanged(h, g, a, b)
  /\ \A q : LeafIn(h, q) /\ q # a /\ q # b => SameLeaf(h, g, q)

\* The last item of a leaf becomes the first of the next one.
LEMMA MovedOn ==
  ASSUME NEW h, NEW rank, NEW bound, Listed(h, rank, bound),
         NEW a, NEW b, LeafIn(h, a), LeafIn(h, b), h[a].next = b,
         NEW g, NEW y, ItemMoved(h, g, a, h[a].length - 1, b, 0, y)
  PROVE  Rejoined(h, g, a, b)
<1>1. /\ Children(g, a) \in Seq(Item) /\ Len(Children(g, a)) = h[a].length - 1
      /\ Gains(Children(g, a), Children(h, a), Len(Children(g, a)), y) /\ y \in Item
      /\ Gains(Children(h, b), Children(g, b), 0, y)
  BY DEF ItemMoved
<1>2. Children(h, b) \in Seq(Item) /\ <<y>> \in Seq(Item)
  <2>1. <<y>> \in Seq(Item)
    BY <1>1
  <2> QED
    BY <2>1, ItemsStep
<1>3. Children(h, a) = Children(g, a) \o <<y>>
  BY <1>1, GainsEnd
<1>4. Children(g, b) = <<y>> \o Children(h, b)
  BY <1>1, <1>2, GainsFront
<1>5. (Children(g, a) \o <<y>>) \o Children(h, b) = Children(g, a) \o (<<y>> \o Children(h, b))
  BY <1>1, <1>2, JoinOrder
<1>6. Children(g, a) \o Children(g, b) = Children(h, a) \o Children(h, b)
  BY <1>3, <1>4, <1>5, Zenon
<1>7. g[a].next = b /\ LeafIn(g, b) /\ g[b].next = h[b].next /\ LeafIn(g, a)
  BY DEF ItemMoved, SameLeafList, LeafIn
<1>8. Exchanged(h, g, a, b)
  BY <1>6, <1>7, Zenon DEF Exchanged
<1> QED
  BY <1>7, <1>8 DEF Rejoined, ItemMoved

\* The first item of a leaf becomes the last of the one before.
LEMMA MovedBack ==
  ASSUME NEW h, NEW rank, NEW bound, Listed(h, rank, bound),
         NEW a, NEW b, LeafIn(h, a), LeafIn(h, b), h[a].next = b,
         NEW g, NEW y, ItemMoved(h, g, b, 0, a, h[a].length, y)
  PROVE  Rejoined(h, g, a, b)
<1>1. /\ Children(g, b) \in Seq(Item)
      /\ Gains(Children(g, b), Children(h, b), 0, y) /\ y \in Item
      /\ Gains(Children(h, a), Children(g, a), h[a].length, y)
  BY DEF ItemMoved
<1>2. /\ Children(h, a) \in Seq(Item) /\ <<y>> \in Seq(Item)
      /\ Len(Children(h, a)) = h[a].length
  <2>1. <<y>> \in Seq(Item)
    BY <1>1
  <2> QED
    BY <2>1, ItemsStep
<1>3. Children(g, a) = Children(h, a) \o <<y>>
  BY <1>1, <1>2, GainsEnd
<1>4. Children(h, b) = <<y>> \o Children(g, b)
  BY <1>1, <1>2, GainsFront
<1>5. (Children(h, a) \o <<y>>) \o Children(g, b) = Children(h, a) \o (<<y>> \o Children(g, b))
  BY <1>1, <1>2, JoinOrder
<1>6. Children(g, a) \o Children(g, b) = Children(h, a) \o Children(h, b)
  BY <1>3, <1>4, <1>5, Zenon
<1>7. g[a].next = b /\ LeafIn(g, b) /\ g[b].next = h[b].next /\ LeafIn(g, a)
  BY DEF ItemMoved, SameLeafList, LeafIn
<1>8. Exchanged(h, g, a, b)
  BY <1>6, <1>7, Zenon DEF Exchanged
<1> QED
  BY <1>7, <1>8 DEF Rejoined, ItemMoved

\* Leaf b is out of the list in which it followed a.
Unlisted(h, g, a, b) ==
  /\ \A p \in Ptr : g[p].kind = h[p].kind
  /\ \A p \in Ptr : p # a /\ p # b => g[p].next = h[p].next
  /\ g[a].next = h[b].next /\ g[b].next = None

\* Then the list still ends.
LEMMA UnlistedEnds ==
  ASSUME NEW h, NEW rank, NEW bound, EndsBy(h, rank, bound),
         NEW a, NEW b, LeafIn(h, a), LeafIn(h, b), h[a].next = b,
         NEW g, Unlisted(h, g, a, b)
  PROVE  EndsBy(g, rank, bound)
<1>1. b # None /\ rank[b] < rank[a]
  BY NodeAssumption DEF EndsBy, LeafIn
<1>2. bound \in Nat /\ rank \in [Ptr -> 0..bound]
  BY DEF EndsBy
<1>3. \A p \in Ptr : IsLeaf(g, p) <=> IsLeaf(h, p)
  BY DEF Unlisted, IsLeaf
<1>4. ASSUME NEW p \in Ptr, IsLeaf(g, p), g[p].next # None
      PROVE  g[p].next \in Ptr /\ IsLeaf(g, g[p].next) /\ rank[g[p].next] < rank[p]
  <2>1. ASSUME NEW q \in Ptr, IsLeaf(h, q), h[q].next # None
        PROVE  h[q].next \in Ptr /\ IsLeaf(g, h[q].next) /\ rank[h[q].next] < rank[q]
    BY <1>3, <2>1 DEF EndsBy
  <2>2. CASE p = a
    <3>1. g[p].next = h[b].next
      BY <2>2 DEF Unlisted
    <3>2. /\ h[b].next \in Ptr /\ IsLeaf(g, h[b].next) /\ rank[h[b].next] < rank[b]
      BY <1>4, <2>1, <3>1 DEF LeafIn
    <3>3. rank[h[b].next] \in Nat /\ rank[b] \in Nat /\ rank[a] \in Nat
      BY <1>2, <3>2 DEF LeafIn
    <3>4. rank[h[b].next] < rank[a]
      BY <1>1, <3>2, <3>3
    <3> QED
      BY <2>2, <3>1, <3>2, <3>4
  <2>3. CASE p # a
    <3>1. p # b /\ g[p].next = h[p].next
      BY <1>4, <2>3 DEF Unlisted
    <3> QED
      BY <1>3, <1>4, <2>1, <3>1
  <2> QED
    BY <2>2, <2>3
<1> QED
  BY <1>2, <1>4 DEF EndsBy

\* It starts where it did, for b was not its first leaf.
LEMMA UnlistedFirst ==
  ASSUME NEW h, NEW first, ListStarts(h, {}, first),
         NEW a, NEW b, LeafIn(h, a), LeafIn(h, b), h[a].next = b, a # b,
         NEW g, Unlisted(h, g, a, b)
  PROVE  LiveLeaf(g, {b}, first) /\ NoneNewBefore(h, g, {b}, first)
<1>1. \A p : LeafIn(g, p) <=> LeafIn(h, p)
  BY DEF Unlisted, LeafIn, IsLeaf
<1>2. first # b /\ LeafIn(h, first)
  BY DEF ListStarts, LiveLeaf
<1>3. ASSUME NEW q, LiveLeaf(g, {b}, q), g[q].next = first
      PROVE  \E p : LiveLeaf(h, {}, p) /\ h[p].next = first
  <2>1. LeafIn(h, q) /\ q # b /\ q \in Ptr
    BY <1>1, <1>3 DEF LiveLeaf, LeafIn
  <2>2. CASE q = a
    BY <1>3, <2>2 DEF Unlisted, LiveLeaf
  <2>3. CASE q # a
    BY <1>3, <2>1, <2>3 DEF Unlisted, LiveLeaf
  <2> QED
    BY <2>2, <2>3
<1> QED
  BY <1>1, <1>2, <1>3 DEF LiveLeaf, NoneNewBefore

\* The slots of one leaf and then those of another.
PartsJoined(u, len, v, more) ==
  Part(Joined(u, len, v, more), 0, len + more) = Part(u, 0, len) \o Part(v, 0, more)

\* That is what the slots of both are.
LEMMA SlotsJoined ==
  ASSUME NEW u, NEW v, NEW len \in Nat, NEW more \in Nat, len + more <= B,
         ItemsAt(u, 0, len), ItemsAt(v, 0, more)
  PROVE  PartsJoined(u, len, v, more)
<1> DEFINE c == Joined(u, len, v, more)
<1>1. B \in Nat
  BY NodeAssumption
<1>2. \A j \in 0..(len - 1) : c[j] = u[j]
  BY <1>1 DEF Joined, Position
<1>3. \A j \in 0..(more - 1) : c[len + j] = v[j]
  <2> TAKE j \in 0..(more - 1)
  <2>1. len + j \in Position /\ len + j \in len..(len + more - 1) /\ (len + j) - len = j
    BY <1>1 DEF Position
  <2> QED
    BY <2>1 DEF Joined
<1> HIDE DEF c
<1>4. ItemsAt(c, 0, len + more)
  <2> SUFFICES ASSUME NEW j \in 0..(0 + (len + more) - 1) PROVE c[j] \in Item
    BY DEF ItemsAt
  <2>1. CASE j < len
    <3>1. j \in 0..(len - 1) /\ j \in 0..(0 + len - 1)
      BY <2>1
    <3> QED
      BY <1>2, <3>1 DEF ItemsAt
  <2>2. CASE ~ (j < len)
    <3>1. j - len \in 0..(more - 1) /\ j - len \in 0..(0 + more - 1) /\ len + (j - len) = j
      BY <2>2
    <3>2. c[len + (j - len)] = v[j - len]
      BY <1>3, <3>1
    <3> QED
      BY <3>1, <3>2 DEF ItemsAt
  <2> QED
    BY <2>1, <2>2
<1>5. PartsJoin(c, 0, len, len, more, len + more)
  <2>1. len = 0 + len /\ len + more \in Nat
    OBVIOUS
  <2> QED
    BY <1>4, <2>1, PartJoin
<1>6. SamePart(c, 0, u, 0, len)
  <2>1. \A k \in 1..len : 0 + k - 1 \in 0..(len - 1)
    OBVIOUS
  <2> QED
    BY <1>2, <2>1 DEF SamePart
<1>7. SamePart(c, len, v, 0, more)
  <2>1. \A k \in 1..more : 0 + k - 1 \in 0..(more - 1) /\ len + (0 + k - 1) = len + k - 1
    OBVIOUS
  <2> QED
    BY <1>3, <2>1 DEF SamePart
<1>8. Part(c, 0, len) = Part(u, 0, len) /\ Part(c, len, more) = Part(v, 0, more)
  BY <1>6, <1>7, PartSame
<1> QED
  BY <1>5, <1>8, Zenon DEF PartsJoin, PartsJoined, c

\* merge of a leaf into the one before: the items of both are in the first.
LEMMA LeavesMerged ==
  ASSUME NEW h, NEW rank, NEW bound, Listed(h, rank, bound), NEW lev,
         NEW a, NEW b, LeafIn(h, a), LeafIn(h, b), h[a].next = b, Mergeable(h, lev, a, b),
         NEW g, NodesMerged(h, g, a, b)
  PROVE  Rejoined(h, g, a, b) /\ Unlisted(h, g, a, b)
<1> DEFINE len == h[a].length
           more == h[b].length
           slots == Joined(h[a].children, len, h[b].children, more)
<1>1. a \in Ptr /\ b \in Ptr /\ a # b /\ IsLeaf(h, a) /\ IsLeaf(h, b)
  BY DEF LeafIn, Mergeable
<1>2. /\ len \in Nat /\ more \in Nat /\ len + more <= B
      /\ ItemsAt(h[a].children, 0, len) /\ ItemsAt(h[b].children, 0, more)
      /\ Children(h, a) = Part(h[a].children, 0, len)
      /\ Children(h, b) = Part(h[b].children, 0, more)
  BY LeafPart DEF Mergeable
<1>3. g[a].length = len + more /\ g[a].children = slots /\ g[a].kind = h[a].kind
  BY <1>1 DEF NodesMerged
<1>4. Unlisted(h, g, a, b)
  BY <1>1 DEF NodesMerged, Unlisted
<1>5. \A q : LeafIn(h, q) /\ q # a /\ q # b => SameLeaf(h, g, q)
  <2> SUFFICES ASSUME NEW q, LeafIn(h, q), q # a, q # b PROVE SameLeaf(h, g, q)
    OBVIOUS
  <2>1. q \in Ptr
    BY DEF LeafIn
  <2>2. /\ g[q].kind = h[q].kind /\ g[q].length = h[q].length
        /\ g[q].children = h[q].children /\ g[q].next = h[q].next
    BY <1>1, <2>1 DEF NodesMerged
  <2> QED
    BY <2>2, SameLeafBy
<1> HIDE DEF len, more
<1>12. PartsJoined(h[a].children, len, h[b].children, more)
  BY <1>2, SlotsJoined
<1>6. Part(slots, 0, len + more) = Part(h[a].children, 0, len) \o Part(h[b].children, 0, more)
  BY <1>12, Zenon DEF PartsJoined
<1>7. Children(g, a) = Part(g[a].children, 0, g[a].length)
  <2>1. g[a].length \in Nat
    BY <1>2, <1>3
  <2> QED
    BY <2>1, ChildrenPart
<1> HIDE DEF slots
<1>8. Children(g, a) = Children(h, a) \o Children(h, b)
  BY <1>2, <1>3, <1>6, <1>7, Zenon
<1>9. LeafIn(g, a)
  BY <1>1, <1>3 DEF LeafIn, IsLeaf
<1>10. g[a].next = h[b].next
  BY <1>4 DEF Unlisted
<1>11. Exchanged(h, g, a, b)
  BY <1>8, <1>10, Zenon DEF Exchanged
<1> QED
  BY <1>4, <1>5, <1>9, <1>11 DEF Rejoined

\* Leaf b comes after leaf a.
Neighbours(h, a, b) == LeafIn(h, a) /\ LeafIn(h, b) /\ h[a].next = b /\ a # b

\* remove_once has put the items of two neighbours elsewhere among them, or all
\* of them in the first.
LeafPair(h, r, n, a, b) ==
  /\ Neighbours(h, a, b) /\ Rejoined(h, r.heap, a, b)
  /\ \/ SameLeafList(h, r.heap) /\ r.removal.kind = "Moved"
     \/ Unlisted(h, r.heap, a, b) /\ GoneIn(r.heap, n, r.removal) = {b}

\* Sibling leaves are neighbours.
LEMMA LeafSiblings ==
  ASSUME NEW h \in Heap, NEW lev, Tree(h, lev), NEW a, NEW b,
         Siblings(h, lev, a, b), h[b].index = h[a].index + 1, IsLeaf(h, a) \/ IsLeaf(h, b),
         NEW order, NEW top, NEW gone, Ordered(h, order, top, gone)
  PROVE  Neighbours(h, a, b)
<1>1. /\ a \in Allocated(h) /\ b \in Allocated(h) /\ a # b /\ lev[a] = lev[b]
      /\ a \in Ptr /\ b \in Ptr
  BY DEF Siblings, Allocated
<1>2. IsLeaf(h, a) /\ IsLeaf(h, b)
  BY <1>1 DEF Tree
<1>3. order[a] = b
  BY SiblingFollows DEF Ordered
<1>4. h[a].next = b
  BY <1>1, <1>2, <1>3, LevelsAt DEF LeadsOn, Ordered
<1> QED
  BY <1>1, <1>2, <1>4 DEF Neighbours, LeafIn

\* A sibling lends a leaf an item: the two hold what they held, in order.
LEMMA LeafLends ==
  ASSUME NEW h, NEW rank, NEW bound, Listed(h, rank, bound), NEW lev, Tree(h, lev),
         NEW n, LeafIn(h, n), NEW s, Siblings(h, lev, s, n), NEW r, LendsTo(h, r, s, n),
         NEW order, NEW top, NEW gone, Ordered(h, order, top, gone)
  PROVE  \E a, b : LeafPair(h, r, n, a, b)
<1>1. h \in Heap /\ IsLeaf(h, n) /\ n \in Ptr /\ s # n /\ s \in Ptr
  BY DEF Listed, LeafIn, Siblings, Allocated
<1>2. /\ h[n].length \in 0..B /\ h[s].length \in 0..B /\ MinLength \in 1..(B - 1)
      /\ h[s].length > MinLength /\ h[n].length < MinLength /\ B \in Nat
  <2>1. B \in Nat /\ MinLength \in 1..(B - 1)
    BY NodeAssumption DEF MinLength
  <2> QED
    BY <1>1, <2>1, FieldTypes DEF LendsTo, CanLend
<1>3. /\ h[s].length - 1 \in Nat /\ h[s].length - 1 < h[s].length /\ 0 < h[s].length
      /\ h[n].length < B /\ 0 \in 0..h[n].length /\ h[n].length \in 0..h[n].length
      /\ 0 \in Nat
  BY <1>2
<1>4. Siblings(h, lev, n, s)
  BY DEF Siblings
<1>5. CASE h[n].index = h[s].index + 1 /\ r = MoveEntry(h, s, h[s].length - 1, n, 0)
  <2>1. Neighbours(h, s, n)
    BY <1>1, <1>5, LeafSiblings
  <2>2. LeafIn(h, s) /\ h[s].next = n
    BY <2>1 DEF Neighbours
  <2>3. PICK y : ItemMoved(h, r.heap, s, h[s].length - 1, n, 0, y)
    BY <1>1, <1>3, <1>5, <2>2, MoveItem
  <2>4. Rejoined(h, r.heap, s, n)
    BY <2>2, <2>3, MovedOn
  <2>5. SameLeafList(h, r.heap) /\ r.removal.kind = "Moved"
    BY <1>5, <2>3 DEF ItemMoved, MoveEntry
  <2> QED
    BY <2>1, <2>4, <2>5 DEF LeafPair
<1>6. CASE h[s].index = h[n].index + 1 /\ r = MoveEntry(h, s, 0, n, h[n].length)
  <2>1. Neighbours(h, n, s)
    BY <1>1, <1>4, <1>6, LeafSiblings
  <2>2. LeafIn(h, s) /\ h[n].next = s
    BY <2>1 DEF Neighbours
  <2>3. PICK y : ItemMoved(h, r.heap, s, 0, n, h[n].length, y)
    BY <1>1, <1>3, <1>6, <2>2, MoveItem
  <2>4. Rejoined(h, r.heap, n, s)
    BY <2>2, <2>3, MovedBack
  <2>5. SameLeafList(h, r.heap) /\ r.removal.kind = "Moved"
    BY <1>6, <2>3 DEF ItemMoved, MoveEntry
  <2> QED
    BY <2>1, <2>4, <2>5 DEF LeafPair
<1> QED
  BY <1>5, <1>6 DEF LendsTo

\* A leaf goes into the one before: the first holds what both held, in order.
LEMMA LeafGoes ==
  ASSUME NEW h, NEW rank, NEW bound, Listed(h, rank, bound), NEW lev, Tree(h, lev),
         NEW a, NEW b, Siblings(h, lev, a, b), NEW n \in {a, b}, LeafIn(h, n),
         NEW r, GoesInto(h, r, b, a),
         NEW order, NEW top, NEW gone, Ordered(h, order, top, gone)
  PROVE  LeafPair(h, r, n, a, b)
<1> DEFINE g == Merge(h, a, b)
           m == r.removal
<1>0. h \in Heap
  BY DEF Listed
<1>1. /\ ~ MergePanics(h, a, b) /\ h[b].index = h[a].index + 1
      /\ r.heap = g /\ m.kind = "Merged"
      /\ m.src = h[b].index /\ m.dest = h[a].index
  BY DEF GoesInto, MergeInto
<1>2. Neighbours(h, a, b)
  BY <1>0, <1>1, LeafSiblings DEF LeafIn
<1>3. Mergeable(h, lev, a, b)
  BY <1>0, <1>1, CanMerge
<1>4. NodesMerged(h, g, a, b)
  BY <1>0, <1>3, MergeRelinks
<1> HIDE DEF g, m
<1>5. Rejoined(h, g, a, b) /\ Unlisted(h, g, a, b)
  BY <1>2, <1>3, <1>4, LeavesMerged DEF Neighbours
<1>6. Spares(h, g, lev, lev[b])
  BY <1>0, <1>3, <1>4, NodesMergedFrame DEF Siblings
<1>7. Siblings(h, lev, b, a)
  BY DEF Siblings
<1>8. Names(h, g, n, m, b, a)
  <2>1. m.kind # "Absorbed"
    BY <1>1
  <2> QED
    BY <1>0, <1>1, <1>6, <1>7, <2>1, SiblingNames
<1>9. GoneIn(g, n, m) = {b}
  BY <1>1, <1>8 DEF GoneIn, Names
<1> QED
  BY <1>1, <1>2, <1>5, <1>9 DEF LeafPair, m

\* What remove_once does at a leaf after the item is out, it does to a pair of
\* neighbours.
LEMMA LeafRebalanced ==
  ASSUME NEW h, NEW rank, NEW bound, Listed(h, rank, bound), NEW lev, Tree(h, lev),
         NEW n, LeafIn(h, n), NEW r, RebalancedBy(h, r, lev, n),
         NEW order, NEW top, NEW gone, Ordered(h, order, top, gone)
  PROVE  \/ r.heap = h /\ r.removal.kind = "Absorbed"
         \/ \E a, b : LeafPair(h, r, n, a, b)
<1>1. CASE r.heap = h /\ r.removal = Absorbed(h, n)
  BY <1>1 DEF Absorbed
<1>2. ASSUME NEW s \in Ptr, Siblings(h, lev, s, n), LendsTo(h, r, s, n)
      PROVE  \E a, b : LeafPair(h, r, n, a, b)
  BY <1>2, LeafLends
<1>3. ASSUME NEW s \in Ptr, Siblings(h, lev, n, s), GoesInto(h, r, s, n)
      PROVE  LeafPair(h, r, n, n, s)
  BY <1>3, LeafGoes
<1>4. ASSUME NEW s \in Ptr, Siblings(h, lev, s, n), GoesInto(h, r, n, s)
      PROVE  LeafPair(h, r, n, s, n)
  BY <1>4, LeafGoes
<1> QED
  BY <1>1, <1>2, <1>3, <1>4 DEF RebalancedBy

\* r is what remove_once does after taking an entry out, which left f.
Taking(f, r, n) ==
  \E lev, order, top : /\ Tree(f, lev) /\ Ordered(f, order, top, {})
                       /\ RebalancedBy(f, r, lev, n)

\* remove_once at a leaf is that.
LEMMA LeafTaken ==
  ASSUME VecInv, RemoveAtLeaf, pc' # "panicked",
         NEW f, f = SimpleRemove(heap, node, index)
  PROVE  \E r : Taking(f, r, node) /\ heap' = r.heap /\ removal' = r.removal
<1>0. /\ pc = "seek" /\ request.op = "remove" /\ IsLeaf(heap, node)
      /\ TypeInv /\ TreeInv /\ OrderInv
  BY DEF RemoveAtLeaf, AtLeaf, VecInv
<1>1. ~ Inserting /\ ~ Removing /\ ~ Ended
  BY <1>0 DEF Inserting, Removing, Ended
<1>2. /\ node \in Allocated(heap) /\ heap \in Heap /\ index \in Nat
      /\ index < heap[node].length /\ node \in Ptr
  BY <1>0, LeafHolds DEF Allocated
<1>3. PICK lev \in [Ptr -> Nat] : OneTree(lev)
  BY <1>0, <1>1, OneTreeThen
<1>4. Tree(heap, lev)
  BY <1>3 DEF OneTree
<1>5. PICK order \in [Ptr -> PtrOrNone] : Ordered(heap, order, root, {})
  BY <1>0, <1>1, <1>3, OrderedThen
<1> DEFINE r == RemoveOnce(heap, node, index)
<1>6. ~ RemovePanics(heap, node, index) /\ heap' = r.heap /\ removal' = r.removal
  BY DEF RemoveAtLeaf, Panic, Leave
<1>7. r = Rebalance(f, node) /\ ~ RebalancePanics(f, node)
  BY <1>6 DEF RemoveOnce, RemovePanics
<1>8. Removed(heap, f, lev, node, index) /\ f \in Heap
  BY <1>2, <1>4, SimpleRemoveTree, SimpleRemoveType
<1>9. SameLinks(heap, f)
  BY <1>0, <1>2, SimpleRemoveLeaf, LeafPutLinks
<1> HIDE DEF r
<1>10. Tree(f, lev) /\ Allocated(f) = Allocated(heap) /\ Roots(f) = Roots(heap)
  BY <1>0, <1>8 DEF Removed
<1>11. Ordered(f, order, root, {})
  BY <1>2, <1>5, <1>9, <1>10, LevelsFrame DEF Ordered
<1>12. RebalancedBy(f, r, lev, node)
  BY <1>2, <1>7, <1>8, <1>10, RebalanceCases
<1>13. Taking(f, r, node)
  BY <1>10, <1>11, <1>12 DEF Taking
<1> QED
  BY <1>6, <1>13

\* The vector is the top of the tree, after the first step of handle_removal as
\* before.
LEMMA RemoveAtLeafTop ==
  ASSUME VecInv, VecInv', RemoveAtLeaf, pc' # "panicked"
  PROVE  /\ pc = "seek" /\ request.op = "remove" /\ IsLeaf(heap, node)
         /\ index \in Nat /\ index < heap[node].length
         /\ held' = heap[node].children[index]
         /\ pc' = "climb" /\ UNCHANGED <<root, size, request, node>>
         /\ ~ Ended' /\ Removing' /\ Top' = root'
<1>1. pc = "seek" /\ request.op = "remove" /\ IsLeaf(heap, node)
  BY DEF RemoveAtLeaf, AtLeaf
<1>2. index \in Nat /\ index < heap[node].length
  BY <1>1, LeafHolds
<1>3. /\ held' = heap[node].children[index]
      /\ pc' = "climb" /\ UNCHANGED <<root, size, request, node>>
  BY DEF RemoveAtLeaf, Panic, Leave
<1>4. ~ Ended' /\ Removing' /\ ~ Inserting'
  BY <1>1, <1>3 DEF Ended, Removing, Inserting
<1> QED
  BY <1>1, <1>2, <1>3, <1>4, TopNext

\* remove at the leaf: the item is gone from its index.
LEMMA RemoveAtLeafKept ==
  ASSUME ReadInv, SeekPlaced, VecInv', FiniteInv', NoPanic', RemoveAtLeaf
  PROVE  ReadInv' /\ Loses(Items, request.index, held', Items')
<1> DEFINE f == SimpleRemove(heap, node, index)
           y == heap[node].children[index]
<1>1. /\ pc = "seek" /\ request.op = "remove" /\ IsLeaf(heap, node)
      /\ index \in Nat /\ index < heap[node].length
      /\ held' = y
      /\ pc' = "climb" /\ UNCHANGED <<root, size, request, node>>
      /\ ~ Ended' /\ Removing' /\ Top' = root'
  BY RemoveAtLeafTop DEF NoPanic, ReadInv
<1>2. PICK first, before, rank, bound : AtPlace(first, before, rank, bound)
  BY <1>1, LeafPlace
<1>3. /\ Listed(heap, rank, bound) /\ StartsAt(heap, first) /\ LeafIn(heap, node)
      /\ CountsFrom(heap, first, before) /\ request.index = before[node] + index
      /\ first = FirstLeaf(heap, root) /\ ListStarts(heap, {}, first)
      /\ EndsBy(heap, rank, bound)
  BY <1>2, StartsThere DEF AtPlace, Listed
<1>4. f = SimpleRemove(heap, node, index) /\ y = heap[node].children[index]
  OBVIOUS
<1> HIDE DEF f, y
<1>5. PICK r : Taking(f, r, node) /\ heap' = r.heap /\ removal' = r.removal
  BY <1>4, LeafTaken DEF NoPanic, ReadInv
<1>6. /\ SameLeafList(heap, f) /\ SameLeavesBut(heap, f, node) /\ LeafIn(f, node)
      /\ f[node].next = heap[node].next /\ y \in Item /\ Listed(f, rank, bound)
      /\ Gains(Children(f, node), Children(heap, node), index, y)
  BY <1>1, <1>3, <1>4, TakenGains
<1>7. Loses(ItemsFrom(heap, first), request.index, y, ItemsFrom(f, first))
  <2>1. PICK u, w : Differ(heap, f, first, node, Children(heap, node),
                           Children(f, node), u, w)
    BY <1>3, <1>6, OneLeaf
  <2> QED
    BY <1>1, <1>3, <1>6, <2>1, LeafLoses
<1>8. LiveLeaf(f, {}, first) /\ NoneNewBefore(heap, f, {}, first)
  BY <1>3, <1>6, LeafListFirst
<1>9. StartsAt(f, first)
  BY <1>3, <1>6 DEF StartsAt, SameLeafList, LeafIn, IsLeaf
<1>10. \/ r.heap = f /\ r.removal.kind = "Absorbed"
       \/ \E a, b : LeafPair(f, r, node, a, b)
  <2>1. PICK lev, order, top : /\ Tree(f, lev) /\ Ordered(f, order, top, {})
                               /\ RebalancedBy(f, r, lev, node)
    BY <1>5 DEF Taking
  <2> QED
    BY <1>6, <2>1, LeafRebalanced
<1>11. Gone' = GoneIn(heap', node, removal')
  BY <1>1 DEF Gone
<1>12. SUFFICES /\ ListEnds(heap')
                /\ LiveLeaf(heap', Gone', first) /\ NoneNewBefore(heap, heap', Gone', first)
                /\ \A rank1, bound1 : Listed(heap', rank1, bound1) =>
                     ItemsFrom(heap', first) = ItemsFrom(f, first)
  <2>1. /\ ReadInv'
        /\ Items = ItemsFrom(heap, first) /\ Items' = ItemsFrom(heap', first)
        /\ \E rank1, bound1 : Listed(heap', rank1, bound1)
    BY <1>1, <1>3, <1>12, LeafStep
  <2>2. ItemsFrom(heap', first) = ItemsFrom(f, first)
    BY <1>12, <2>1
  <2> QED
    BY <1>1, <1>7, <2>1, <2>2
<1>13. CASE r.heap = f /\ r.removal.kind = "Absorbed"
  <2>1. heap' = f /\ Gone' = {}
    BY <1>5, <1>11, <1>13 DEF GoneIn
  <2>2. EndsBy(heap', rank, bound)
    BY <1>6, <2>1 DEF Listed
  <2> QED
    BY <1>8, <2>1, <2>2 DEF ListEnds
<1>14. ASSUME NEW a, NEW b, LeafPair(f, r, node, a, b)
       PROVE  /\ ListEnds(heap')
              /\ LiveLeaf(heap', Gone', first) /\ NoneNewBefore(heap, heap', Gone', first)
              /\ \A rank1, bound1 : Listed(heap', rank1, bound1) =>
                   ItemsFrom(heap', first) = ItemsFrom(f, first)
  <2> DEFINE g == heap'
  <2>1. g = r.heap /\ Gone' = GoneIn(g, node, r.removal)
    BY <1>1, <1>5, <1>11
  <2> HIDE DEF g
  <2>2. LeafIn(f, a) /\ LeafIn(f, b) /\ f[a].next = b /\ a # b
    BY <1>14 DEF LeafPair, Neighbours
  <2>3. \A rank1, bound1 : Listed(g, rank1, bound1) => ItemsFrom(g, first) = ItemsFrom(f, first)
    <3>1. SUFFICES ASSUME NEW rank1, NEW bound1, Listed(g, rank1, bound1)
                   PROVE  ItemsFrom(g, first) = ItemsFrom(f, first)
      OBVIOUS
    <3>2. /\ LeafIn(g, a) /\ Exchanged(f, g, a, b)
          /\ \A q : LeafIn(f, q) /\ q # a /\ q # b => SameLeaf(f, g, q)
      BY <1>14, <2>1 DEF LeafPair, Rejoined
    <3> QED
      BY <1>6, <1>9, <2>2, <3>1, <3>2, Exchange
  <2>4. EndsBy(f, rank, bound)
    BY <1>6 DEF Listed
  <2>5. LeafIn(heap, a) /\ LeafIn(heap, b) /\ heap[a].next = b
    BY <1>6, <2>2 DEF SameLeafList, LeafIn, IsLeaf
  <2>6. CASE SameLeafList(f, g) /\ r.removal.kind = "Moved"
    <3>1. Gone' = {}
      BY <2>1, <2>6 DEF GoneIn
    <3>2. EndsBy(g, rank, bound)
      BY <2>4, <2>6, LeafListEnds
    <3>3. SameLeafList(heap, g)
      BY <1>6, <2>6 DEF SameLeafList
    <3>4. LiveLeaf(g, {}, first) /\ NoneNewBefore(heap, g, {}, first)
      BY <1>3, <3>3, LeafListFirst
    <3> QED
      BY <2>3, <3>1, <3>2, <3>4 DEF g, ListEnds
  <2>7. CASE Unlisted(f, g, a, b) /\ GoneIn(g, node, r.removal) = {b}
    <3>1. Gone' = {b}
      BY <2>1, <2>7
    <3>2. EndsBy(g, rank, bound)
      BY <2>2, <2>4, <2>7, UnlistedEnds
    <3>3. Unlisted(heap, g, a, b)
      BY <1>6, <2>2, <2>7 DEF SameLeafList, Unlisted, LeafIn
    <3>4. LiveLeaf(g, {b}, first) /\ NoneNewBefore(heap, g, {b}, first)
      BY <1>3, <2>2, <2>5, <3>3, UnlistedFirst
    <3> QED
      BY <2>3, <3>1, <3>2, <3>4 DEF g, ListEnds
  <2> QED
    BY <1>14, <2>1, <2>6, <2>7 DEF LeafPair
<1> QED
  BY <1>10, <1>13, <1>14

-----------------------------------------------------------------------------
(***************************************************************************)
(* Each step is a step of the sequence.                                    *)
(***************************************************************************)

\* A step of the vector that the sequence allows.
Allowed == [Vec!Next]_(Vec!vecvars)

\* The caller sees nothing happen.
Unseen == Items' = Items /\ request' = request /\ Phase' = Phase /\ Result' = Result

\* Which is no step of the sequence.
LEMMA UnseenAllowed == Unseen => Allowed
BY DEF Unseen, Allowed, Vec!vecvars

\* Nor does the caller see a step of a loop.
LEMMA LoopUnseen ==
  ASSUME Items' = Items, request' = request, pc \in {"seek", "climb"}, pc' = pc,
         held' = held
  PROVE  Unseen
BY DEF Unseen, Phase, Result

\* The start of a call is the sequence's: the request is allowed there.
LEMMA BeginAllowed ==
  ASSUME ReadInv, Begin, Items' = Items
  PROVE  Allowed
<1>1. pc = "idle" /\ pc' = "seek"
  BY DEF Begin, BeginInsert, BeginRemove, BeginGet, BeginSet, Enter
<1>2. Len(Items) = size /\ size \in Nat
  <2>1. size \in Nat
    BY DEF ReadInv, VecInv, TypeInv, TypeOK
  <2> QED
    BY <1>1, <2>1, CountedThen DEF Ended
<1>3. Phase = "idle" /\ Phase' = "called" /\ Result = None /\ Result' = None
  BY <1>1 DEF Phase, Result
<1>4. PICK i \in Nat :
        \/ \E x \in Item : /\ i <= size /\ size < MaxSize
                           /\ request' = [op |-> "insert", index |-> i, item |-> x]
        \/ \E x \in Item : i < size /\ request' = [op |-> "set", index |-> i, item |-> x]
        \/ i < size /\ request' = [op |-> "remove", index |-> i, item |-> None]
        \/ i < size /\ request' = [op |-> "get", index |-> i, item |-> None]
  BY DEF Begin, BeginInsert, BeginRemove, BeginGet, BeginSet, Enter
<1>5. \/ /\ Len(Items) < MaxSize
         /\ \E k \in 0..Len(Items), x \in Item :
              request' = [op |-> "insert", index |-> k, item |-> x]
      \/ \E k \in 0..(Len(Items) - 1) :
           \/ \E x \in Item : request' = [op |-> "set", index |-> k, item |-> x]
           \/ \E op \in {"get", "remove"} :
                request' = [op |-> op, index |-> k, item |-> None]
  <2>1. i <= size => i \in 0..Len(Items)
    BY <1>2
  <2>2. i < size => i \in 0..(Len(Items) - 1)
    BY <1>2
  <2> QED
    BY <1>2, <1>4, <2>1, <2>2
<1>6. Vec!Call
  BY <1>3, <1>5 DEF Vec!Call
<1> QED
  BY <1>6 DEF Allowed, Vec!Next

\* It takes effect.
TakesEffect == Phase = "called" /\ Phase' = "done" /\ request' = request

\* A call that has put its item in takes effect as the sequence's insertion.
LEMMA InsertAllowed ==
  ASSUME TakesEffect, request.op = "insert", Result' = None,
         Gets(Items, request.index, request.item, Items')
  PROVE  Allowed
<1>1. Vec!Effect
  BY DEF Vec!Effect, TakesEffect, Gets, Vec!VecInsert
<1> QED
  BY <1>1 DEF Allowed, Vec!Next

\* One that has taken its item out does as the sequence's removal.
LEMMA RemoveAllowed ==
  ASSUME TakesEffect, request.op = "remove",
         Loses(Items, request.index, Result', Items')
  PROVE  Allowed
<1>1. Vec!Effect
  BY DEF Vec!Effect, TakesEffect, Loses, Vec!VecRemove
<1> QED
  BY <1>1 DEF Allowed, Vec!Next

\* One that has read its item does as the sequence's access.
LEMMA GetAllowed ==
  ASSUME TakesEffect, request.op = "get", Items' = Items,
         Sets(Items, request.index, Result', Result', Items)
  PROVE  Allowed
<1>1. Vec!Effect
  BY DEF Vec!Effect, TakesEffect, Sets
<1> QED
  BY <1>1 DEF Allowed, Vec!Next

\* One that has written its item does as the sequence's replacement.
LEMMA SetAllowed ==
  ASSUME TakesEffect, request.op = "set", Result' = None, NEW y,
         Sets(Items, request.index, y, request.item, Items')
  PROVE  Allowed
<1>1. Vec!Effect
  BY DEF Vec!Effect, TakesEffect, Sets
<1> QED
  BY <1>1 DEF Allowed, Vec!Next

\* A call that returns does so in the sequence.
LEMMA ReturnAllowed ==
  ASSUME pc \in {"climb", "return"}, Leave("idle"), Items' = Items
  PROVE  Allowed
<1>1. Phase = "done" /\ Phase' = "idle" /\ Result' = None
  BY DEF Phase, Result, Leave
<1>2. Vec!Return
  BY <1>1 DEF Vec!Return, Leave, NoRequest, Vec!NoCall
<1> QED
  BY <1>2 DEF Allowed, Vec!Next

\* Or it ends as the allocator fails.
LEMMA AbortAllowed ==
  ASSUME ReadInv, AllocFails, Items' = Items
  PROVE  Allowed
<1>1. Leave("aborted")
  BY DEF AllocFails
<1>2. Phase' = "aborted" /\ Result' = None
  BY <1>1 DEF Phase, Result, Leave
<1>3. request.op = "insert" \/ (Phase = "idle" /\ Items = <<>> /\ MaxSize > 0)
  <2>1. CASE pc = "idle" /\ root = None /\ size < MaxSize
    <3>1. Items = <<>>
      BY <2>1, NoItems DEF ReadInv, ListInv, Ended
    <3>2. MaxSize > 0
      BY <2>1, MaxSizeAssumption DEF ReadInv, VecInv, TypeInv, TypeOK
    <3> QED
      BY <2>1, <3>1, <3>2 DEF Phase
  <2>2. CASE AtLeaf("insert") \/ Inserting
    BY <2>2 DEF AtLeaf, Inserting
  <2> QED
    BY <2>1, <2>2 DEF AllocFails
<1>4. Vec!Abort
  BY <1>1, <1>2, <1>3 DEF Vec!Abort, Leave, NoRequest, Vec!NoCall
<1> QED
  BY <1>4 DEF Allowed, Vec!Next

\* What every reachable state satisfies.
VecReadInv == ReadInv /\ NoPanic /\ SeekPlaced

\* The steps that change or read a leaf are allowed.
LEMMA LeafAllowed ==
  ASSUME VecReadInv, VecInv', FiniteInv', NoPanic',
         Get \/ Set \/ InsertAtLeaf \/ RemoveAtLeaf
  PROVE  ReadInv' /\ Allowed
<1>0. ReadInv /\ SeekPlaced /\ VecInv /\ pc' # "panicked"
  BY DEF VecReadInv, ReadInv, NoPanic
<1>1. CASE Get
  <2>1. /\ pc = "seek" /\ request.op = "get" /\ IsLeaf(heap, node)
        /\ index < heap[node].length /\ held' = heap[node].children[index]
        /\ pc' = "return" /\ request' = request
    BY <1>0, <1>1 DEF Get, AtLeaf, Panic, Leave
  <2>2. ReadInv' /\ Items' = Items
    BY <1>0, <1>1, GetKept
  <2>3. Sets(Items, request.index, held', held', Items)
    <3>1. PICK y : y = heap[node].children[index]
      OBVIOUS
    <3>2. Sets(Items, request.index, y, y, Items)
      BY <1>0, <2>1, <3>1, GetReads
    <3> QED
      BY <2>1, <3>1, <3>2
  <2>4. TakesEffect /\ Result' = held'
    BY <2>1 DEF TakesEffect, Phase, Result
  <2>5. Sets(Items, request.index, Result', Result', Items)
    BY <2>3, <2>4
  <2> QED
    BY <2>1, <2>2, <2>4, <2>5, GetAllowed
<1>2. CASE Set
  <2>1. /\ pc = "seek" /\ request.op = "set" /\ held' = None
        /\ pc' = "return" /\ request' = request
    BY <1>0, <1>2 DEF Set, AtLeaf, Panic, Leave
  <2>2. ReadInv' /\ \E y : Sets(Items, request.index, y, request.item, Items')
    BY <1>0, <1>2, SetKept
  <2>3. TakesEffect /\ Result' = None
    BY <2>1 DEF TakesEffect, Phase, Result
  <2> QED
    BY <2>1, <2>2, <2>3, SetAllowed
<1>3. CASE InsertAtLeaf
  <2>1. /\ pc = "seek" /\ request.op = "insert" /\ held' = None
        /\ pc' = "climb" /\ request' = request
    BY <1>0, <1>3 DEF InsertAtLeaf, AtLeaf, Panic, Leave
  <2>2. ReadInv' /\ Gets(Items, request.index, request.item, Items')
    BY <1>0, <1>3, InsertAtLeafKept
  <2>3. TakesEffect /\ Result' = None
    BY <2>1 DEF TakesEffect, Phase, Result
  <2> QED
    BY <2>1, <2>2, <2>3, InsertAllowed
<1>4. CASE RemoveAtLeaf
  <2>1. /\ pc = "seek" /\ request.op = "remove"
        /\ pc' = "climb" /\ request' = request
    BY <1>0, <1>4, RemoveAtLeafTop
  <2>2. ReadInv' /\ Loses(Items, request.index, held', Items')
    BY <1>0, <1>4, RemoveAtLeafKept
  <2>3. TakesEffect /\ Result' = held'
    BY <2>1 DEF TakesEffect, Phase, Result
  <2>4. Loses(Items, request.index, Result', Items')
    BY <2>2, <2>3
  <2> QED
    BY <2>1, <2>2, <2>3, <2>4, RemoveAllowed
<1> QED
  BY <1>1, <1>2, <1>3, <1>4

\* So are the steps of the loops.
LEMMA LoopAllowed ==
  ASSUME VecReadInv, VecInv', FiniteInv', NoPanic',
         Descend \/ ClimbInsert \/ ClimbSplit \/ GrowRoot \/ ClimbRemove \/ ClimbMerge
  PROVE  ReadInv' /\ Allowed
<1>0. ReadInv /\ pc' # "panicked"
  BY DEF VecReadInv, NoPanic
<1>1. ReadInv' /\ Items' = Items
  BY <1>0, DescendKept, ClimbInsertKept, ClimbSplitKept, GrowRootKept, ClimbRemoveKept,
     ClimbMergeKept
<1>2. request' = request /\ pc \in {"seek", "climb"} /\ pc' = pc /\ held' = held
  BY <1>0 DEF Descend, ClimbInsert, ClimbSplit, GrowRoot, ClimbRemove, ClimbMerge,
              Inserting, Removing, Panic, Leave
<1> QED
  BY <1>1, <1>2, LoopUnseen, UnseenAllowed

\* And the ends of calls.
LEMMA EndAllowed ==
  ASSUME VecReadInv, VecInv', FiniteInv', NoPanic', Return \/ FinishInsert \/ FinishRemove
  PROVE  ReadInv' /\ Allowed
<1>0. ReadInv /\ pc' # "panicked"
  BY DEF VecReadInv, NoPanic
<1>1. ReadInv' /\ Items' = Items
  BY <1>0, GetKept, FinishInsertKept, FinishRemoveKept
<1>2. pc \in {"climb", "return"} /\ Leave("idle")
  BY <1>0 DEF Return, FinishInsert, FinishRemove, Inserting, Removing, Panic, Leave
<1> QED
  BY <1>1, <1>2, ReturnAllowed

\* Every step keeps the invariant and is a step of the sequence, or none.
LEMMA StepAllowed ==
  VecReadInv /\ [Next]_vars => VecReadInv' /\ Allowed
<1> SUFFICES ASSUME VecReadInv, [Next]_vars PROVE VecReadInv' /\ Allowed
  OBVIOUS
<1>0. ReadInv /\ VecInv /\ FiniteInv /\ ListInv /\ NoPanic /\ SeekPlaced
  BY DEF VecReadInv, ReadInv
<1>1. VecInv' /\ TypeInv'
  BY <1>0, NextTypeInv, NextTreeInv, NextSizesInv, NextOrderInv DEF VecInv
<1>2. FiniteInv'
  BY <1>0, NextFiniteInv DEF VecInv
<1>3. NoPanic'
  BY <1>0, NextNoPanic
<1>4. SeekPlaced'
  BY <1>0, <1>1, <1>3, NextSeekPlaced
<1>5. SUFFICES ReadInv' /\ Allowed
  BY <1>3, <1>4 DEF VecReadInv
<1>6. CASE Begin
  BY <1>0, <1>1, <1>2, <1>6, BeginKept, BeginAllowed
<1>7. CASE Step
  BY <1>1, <1>2, <1>3, <1>7, LeafAllowed, LoopAllowed, EndAllowed DEF Step
<1>8. CASE AllocFails
  BY <1>0, <1>1, <1>2, <1>8, AllocFailsKept, AbortAllowed
<1>9. CASE UNCHANGED vars
  <2>1. ListInv'
    BY <1>0, <1>9 DEF vars, ListInv, Ended, Top, Inserting
  <2>2. Unseen
    BY <1>9 DEF vars, Unseen, Items, Phase, Result
  <2> QED
    BY <1>1, <1>2, <2>1, <2>2, UnseenAllowed DEF ReadInv
<1> QED
  BY <1>6, <1>7, <1>8, <1>9 DEF Next

\* The vector starts empty.
LEMMA InitAllowed == Init => VecReadInv /\ Vec!Init
<1> SUFFICES ASSUME Init PROVE VecReadInv /\ Vec!Init
  OBVIOUS
<1>1. VecInv /\ FiniteInv
  BY InitTypeInv, InitTreeInv, InitSizes, InitOrder, InitFiniteInv DEF VecInv
<1>2. /\ pc = "idle" /\ root = None /\ request = NoRequest /\ held = None
      /\ heap = [p \in Ptr |-> NewNode("free")]
  BY DEF Init
<1>3. ListEnds(heap)
  <2> DEFINE rank == [p \in Ptr |-> 0]
  <2>1. \A p \in Ptr : ~ IsLeaf(heap, p)
    BY <1>2 DEF NewNode, IsLeaf
  <2>2. rank \in [Ptr -> 0..0] /\ 0 \in Nat
    OBVIOUS
  <2> HIDE DEF rank
  <2>3. EndsBy(heap, rank, 0)
    BY <2>1, <2>2 DEF EndsBy
  <2> QED
    BY <2>3 DEF ListEnds
<1>4. ListInv
  BY <1>2, <1>3 DEF ListInv
<1>5. VecReadInv
  BY <1>1, <1>2, <1>4 DEF VecReadInv, ReadInv, NoPanic, SeekPlaced
<1>6. Items = <<>>
  BY <1>1, <1>2, <1>3, NoItems
<1>7. Vec!Init
  BY <1>2, <1>6 DEF Vec!Init, Phase, Result, NoRequest, Vec!NoCall
<1> QED
  BY <1>5, <1>7

\* The vector implements the sequence it promises to be: each call of insert,
\* remove, get and get_mut does to the items in the order of the leaves, in one
\* step, what it does to a sequence, and the loops and climbs do nothing to them.
THEOREM VecImplements == Spec => ImplementsVec
<1>1. Init => VecReadInv /\ Vec!Init
  BY InitAllowed
<1>2. VecReadInv /\ [Next]_vars => VecReadInv' /\ [Vec!Next]_(Vec!vecvars)
  BY StepAllowed DEF Allowed
<1> QED
  BY <1>1, <1>2, PTL DEF Spec, ImplementsVec, Vec!Spec

-----------------------------------------------------------------------------
(***************************************************************************)
(* The leaf list is the leaves of the tree.                                *)
(***************************************************************************)

\* What Chain's function is.
AreChains(h, f) ==
  f = [p \in PtrOrNone |->
         IF p = None THEN <<>>
         ELSE <<p>> \o (IF IsLeaf(h, p) THEN f[h[p].next] ELSE <<>>)]

\* The function Chain names exists.
LEMMA ChainsExist ==
  ASSUME NEW h, NEW rank, NEW bound, Listed(h, rank, bound)
  PROVE  \E f \in [PtrOrNone -> Seq(Ptr)] : AreChains(h, f)
<1> DEFINE S == PtrOrNone
           V == Seq(Ptr)
           Z == {p \in Ptr : IsLeaf(h, p)}
           stops == S \ Z
           next == [p \in S |-> IF p \in stops THEN p ELSE h[p].next]
           high == [p \in S |-> IF p \in stops THEN 0 ELSE rank[p] + 1]
           base == [p \in S |-> IF p = None THEN <<>> ELSE <<p>>]
           g == [p \in S |-> [v \in V |-> IF p \in stops THEN v ELSE <<p>> \o v]]
<1>0. /\ bound \in Nat
      /\ \A p \in Z : /\ rank[p] \in Nat /\ rank[p] <= bound /\ p \in S /\ p \in Ptr
                      /\ h[p].next \in S
                      /\ h[p].next # None =>
                           h[p].next \in Z /\ rank[h[p].next] < rank[p]
  <2>1. bound \in Nat
    BY DEF Listed, EndsBy
  <2>2. ASSUME NEW p \in Z
        PROVE  /\ rank[p] \in Nat /\ rank[p] <= bound
               /\ h[p].next = None \/ (LeafIn(h, h[p].next) /\ rank[h[p].next] < rank[p])
    BY ItemsStep DEF LeafIn
  <2> QED
    BY <2>1, <2>2 DEF LeafIn, PtrOrNone
<1>1. Z \subseteq Ptr /\ None \notin Z /\ None \in S
  BY NodeAssumption DEF PtrOrNone
<1>2. \A p \in S : p \in Ptr \/ p = None
  BY DEF PtrOrNone
<1>3. \A p \in S : p # None /\ IsLeaf(h, p) <=> p \notin stops
  BY <1>1, <1>2 DEF PtrOrNone
<1> HIDE DEF Z, S
<1>4. next \in [S -> S] /\ \A p \in S : next[p] = IF p \in stops THEN p ELSE h[p].next
  BY <1>0
<1>5. bound + 1 \in Nat
  BY <1>0
<1>6. high \in [S -> 0..(bound + 1)]
  <2>1. \A p \in S : p \notin stops => rank[p] + 1 \in 0..(bound + 1)
    BY <1>0
  <2>2. 0 \in 0..(bound + 1)
    BY <1>0
  <2> HIDE DEF stops
  <2> QED
    BY <2>1, <2>2
<1>7. \A p \in S : p \in stops \/ high[next[p]] < high[p]
  <2> SUFFICES ASSUME NEW p \in S, p \in Z PROVE high[next[p]] < high[p]
    OBVIOUS
  <2>1. next[p] = h[p].next /\ next[p] \in S /\ high[p] = rank[p] + 1 /\ rank[p] \in Nat
    BY <1>0, <1>4
  <2>2. CASE next[p] \in Z
    <3>1. high[next[p]] = rank[h[p].next] + 1 /\ rank[h[p].next] \in Nat
      BY <1>0, <2>1, <2>2
    <3>2. rank[h[p].next] < rank[p]
      BY <1>0, <1>1, <2>1, <2>2
    <3> HIDE DEF high, next
    <3> QED
      BY <2>1, <3>1, <3>2
  <2>3. CASE next[p] \notin Z
    <3>1. high[next[p]] = 0
      BY <2>1, <2>3
    <3> HIDE DEF high, next
    <3> QED
      BY <2>1, <3>1
  <2> QED
    BY <2>2, <2>3
<1>8. base \in [S -> V] /\ \A p \in S : base[p] = IF p = None THEN <<>> ELSE <<p>>
  BY <1>2
<1>9. g \in [S -> [V -> V]] /\ \A p \in S, v \in V : p \notin stops => g[p][v] = <<p>> \o v
  <2>1. \A p \in Z, v \in V : <<p>> \o v \in V
    BY <1>1
  <2> HIDE DEF V
  <2>2. \A p \in S, v \in V : (IF p \in stops THEN v ELSE <<p>> \o v) \in V
    BY <2>1
  <2> HIDE DEF stops
  <2> QED
    BY <2>2
<1> HIDE DEF next, high, base, g
<1>10. IsChain(S, stops, next, high, bound + 1)
  BY <1>4, <1>5, <1>6, <1>7 DEF IsChain
<1> HIDE DEF stops, V
<1>11. PICK f \in [S -> V] : Follows(f, S, stops, next, base, g)
  BY <1>8, <1>9, <1>10, ChainFunction
<1>12. \A p \in S : f[p] = IF p = None THEN <<>>
                           ELSE <<p>> \o (IF IsLeaf(h, p) THEN f[h[p].next] ELSE <<>>)
  <2> TAKE p \in S
  <2>1. CASE p \in stops
    <3>1. f[p] = base[p]
      BY <1>11, <2>1 DEF Follows
    <3>2. p # None => p \in Ptr /\ <<p>> \o <<>> = <<p>>
      BY <1>2
    <3> QED
      BY <1>3, <1>8, <2>1, <3>1, <3>2
  <2>2. CASE p \notin stops
    <3>1. f[p] = g[p][f[next[p]]] /\ next[p] = h[p].next /\ next[p] \in S
      BY <1>4, <1>11, <2>2 DEF Follows
    <3> QED
      BY <1>3, <1>9, <1>11, <2>2, <3>1
  <2> QED
    BY <2>1, <2>2
<1>13. AreChains(h, f)
  BY <1>11, <1>12 DEF AreChains, S
<1> QED
  BY <1>11, <1>13 DEF S, V

\* The chain, step by step.
LEMMA ChainStep ==
  ASSUME NEW h, NEW rank, NEW bound, Listed(h, rank, bound)
  PROVE  /\ Chain(h, None) = <<>>
         /\ \A p : LeafIn(h, p) => Chain(h, p) = <<p>> \o Chain(h, h[p].next)
         /\ \A p : p = None \/ LeafIn(h, p) => Chain(h, p) \in Seq(Ptr)
<1> DEFINE F == CHOOSE f : AreChains(h, f)
           T == {p \in Ptr : F[p] \in Seq(Ptr)}
<1>1. \A q : Chain(h, q) = F[q]
  BY Zenon DEF Chain, AreChains
<1>2. AreChains(h, F)
  BY ChainsExist, Zenon
<1> HIDE DEF F
<1>3. \A p \in PtrOrNone : F[p] = IF p = None THEN <<>>
          ELSE <<p>> \o (IF IsLeaf(h, p) THEN F[h[p].next] ELSE <<>>)
  BY <1>2 DEF AreChains
<1>4. F[None] = <<>>
  BY <1>3 DEF PtrOrNone
<1>9. F[None] \in Seq(Ptr)
  BY <1>4, EmptySeq
<1>5. ASSUME NEW p, LeafIn(h, p) PROVE F[p] = <<p>> \o F[h[p].next]
  BY <1>3, <1>5, NodeAssumption DEF LeafIn, PtrOrNone
<1>6. ASSUME NEW p, LeafIn(h, p), h[p].next = None \/ h[p].next \in T PROVE p \in T
  <2>1. F[h[p].next] \in Seq(Ptr)
    BY <1>6, <1>9
  <2>3. p \in Ptr
    BY <1>6 DEF LeafIn
  <2>2. <<p>> \o F[h[p].next] \in Seq(Ptr)
    BY <2>1, <2>3
  <2> QED
    BY <1>5, <1>6, <2>2, <2>3
<1> HIDE DEF T
<1>7. \A p : LeafIn(h, p) => p \in T
  BY <1>6, ListInduction
<1>8. \A p : p = None \/ LeafIn(h, p) => F[p] \in Seq(Ptr)
  <2>1. \A p : LeafIn(h, p) => F[p] \in Seq(Ptr)
    BY <1>7 DEF T
  <2> QED
    BY <1>9, <2>1
<1> QED
  BY <1>1, <1>4, <1>5, <1>8

\* A tree at rest: no node is empty, each level is a list, that of the leaves is
\* the one that `next` stores.
AtRest(h, lev, bound, after, top) ==
  /\ Bounded(h, lev, bound) /\ Full(h, {}) /\ Levels(h, after, after, top, {})
  /\ ListEnds(h)

\* The first leaf below a node is a leaf, and the first one below its first
\* child.
LEMMA FirstIsLeaf ==
  ASSUME NEW h, NEW lev, NEW bound, NEW after, NEW top, AtRest(h, lev, bound, after, top)
  PROVE  /\ FirstLeaf(h, None) = None
         /\ \A p \in Allocated(h) :
              /\ LeafIn(h, FirstLeaf(h, p))
              /\ IsLeaf(h, p) => FirstLeaf(h, p) = p
              /\ IsInternal(h, p) => /\ Degree(h, p) >= 1
                                     /\ FirstLeaf(h, p) = FirstLeaf(h, Kid(h, p, 1))
<1> DEFINE T == {p \in Allocated(h) : LeafIn(h, FirstLeaf(h, p))}
<1>0. Bounded(h, lev, bound) /\ Full(h, {}) /\ h \in Heap
  BY DEF AtRest, Bounded
<1>1. FirstLeaf(h, None) = None
  BY <1>0, FirstLeafStep DEF PtrOrNone
<1>2. ASSUME NEW p \in Allocated(h)
      PROVE  /\ IsLeaf(h, p) => FirstLeaf(h, p) = p /\ LeafIn(h, p)
             /\ IsInternal(h, p) => /\ Degree(h, p) >= 1
                                    /\ FirstLeaf(h, p) = FirstLeaf(h, Kid(h, p, 1))
             /\ IsLeaf(h, p) \/ IsInternal(h, p)
  <2>1. p \in Ptr /\ p # None /\ (~ IsLeaf(h, p) <=> IsInternal(h, p))
    BY <1>0, Kinds
  <2>2. FirstLeaf(h, p) = IF p # None /\ IsInternal(h, p)
                          THEN FirstLeaf(h, h[p].children[0]) ELSE p
    BY <1>0, <2>1, FirstLeafStep DEF PtrOrNone
  <2>3. Kid(h, p, 1) = h[p].children[0]
    <3>1. 1 - 1 = 0
      OBVIOUS
    <3> QED
      BY <3>1, Zenon DEF Kid
  <2>4. IsInternal(h, p) => Degree(h, p) >= 1
    BY <1>0 DEF Full, Degree
  <2> QED
    BY <2>1, <2>2, <2>3, <2>4 DEF LeafIn
<1>3. ASSUME NEW p \in Allocated(h), \A k \in 1..Degree(h, p) : Kid(h, p, k) \in T
      PROVE  p \in T
  <2>1. CASE IsLeaf(h, p)
    BY <1>2, <2>1
  <2>2. CASE IsInternal(h, p)
    <3>1. Degree(h, p) >= 1 /\ Degree(h, p) \in Nat
      BY <1>0, <1>2, <2>2, KidsOf
    <3>2. 1 \in 1..Degree(h, p)
      BY <3>1
    <3>3. Kid(h, p, 1) \in T
      BY <1>3, <3>2
    <3> QED
      BY <1>2, <2>2, <3>3
  <2> QED
    BY <1>2, <2>1, <2>2
<1> HIDE DEF T
<1>4. \A p \in Allocated(h) : p \in T
  BY <1>0, <1>3, FromTheKids
<1> QED
  BY <1>1, <1>2, <1>4 DEF T

\* The leaves of h.
LeavesOf(h) == {p \in Ptr : IsLeaf(h, p)}

\* From the first leaf below p the list passes the leaves below p, and goes on at
\* the first leaf below what follows p.
GoesOver(h, after, p) ==
  Chain(h, FirstLeaf(h, p)) = Walk(LeavesOf(h), h)[p] \o Chain(h, FirstLeaf(h, after[p]))

\* The walk at a leaf is that leaf.
LEMMA WalkAtLeaf ==
  ASSUME NEW h, NEW lev, NEW bound, Bounded(h, lev, bound), NEW p \in Allocated(h),
         IsLeaf(h, p)
  PROVE  Walk(LeavesOf(h), h)[p] = <<p>>
<1> DEFINE L == LeavesOf(h)
<1>0. PICK rank : Grounded(h, rank, bound)
  BY TreeGrounded
<1>1. p \in Ptr
  BY KidsOf
<1> HIDE DEF L
<1>2. PICK part : WalksAt(L, h, Walk(L, h), p, part) /\ Walk(L, h)[p] = part[Degree(h, p)]
  BY <1>0, <1>1, WalkWalks DEF Walked
<1>3. Degree(h, p) = 0
  BY DEF Degree, IsLeaf, IsInternal
<1>4. part[0] = Own(L, p)
  BY <1>2 DEF WalksAt, Appends
<1>5. p \in L
  BY <1>1 DEF L, LeavesOf
<1> QED
  BY <1>2, <1>3, <1>4, <1>5 DEF Own, L

\* At a node with children it is the walks at those.
LEMMA WalkAtNode ==
  ASSUME NEW h, NEW lev, NEW bound, Bounded(h, lev, bound), NEW p \in Allocated(h),
         IsInternal(h, p)
  PROVE  \E part :
           /\ part[0] = <<>> /\ Walk(LeavesOf(h), h)[p] = part[Degree(h, p)]
           /\ \A k \in 0..Degree(h, p) : part[k] \in Seq(Ptr)
           /\ \A k \in 1..Degree(h, p) :
                /\ Walk(LeavesOf(h), h)[Kid(h, p, k)] \in Seq(Ptr)
                /\ part[k] = part[k - 1] \o Walk(LeavesOf(h), h)[Kid(h, p, k)]
<1> DEFINE L == LeavesOf(h)
<1>0. PICK rank : Grounded(h, rank, bound)
  BY TreeGrounded
<1>1. p \in Ptr
  BY KidsOf
<1>5. p \notin L
  BY DEF LeavesOf, IsLeaf, IsInternal
<1> HIDE DEF L
<1>2. PICK part : WalksAt(L, h, Walk(L, h), p, part) /\ Walk(L, h)[p] = part[Degree(h, p)]
  BY <1>0, <1>1, WalkWalks DEF Walked
<1>3. /\ Appends(Ptr, part, Degree(h, p), Own(L, p), Trees(h, Walk(L, h), p))
      /\ Trees(h, Walk(L, h), p) \in [1..Degree(h, p) -> Seq(Ptr)]
  BY <1>2 DEF WalksAt
<1>4. \A k \in 1..Degree(h, p) : Trees(h, Walk(L, h), p)[k] = Walk(L, h)[Kid(h, p, k)]
  BY DEF Trees, Kid
<1>6. /\ part[0] = <<>>
      /\ \A k \in 0..Degree(h, p) : part[k] \in Seq(Ptr)
  BY <1>3, <1>5 DEF Appends, Own
<1>7. ASSUME NEW k \in 1..Degree(h, p)
      PROVE  /\ Walk(L, h)[Kid(h, p, k)] \in Seq(Ptr)
             /\ part[k] = part[k - 1] \o Walk(L, h)[Kid(h, p, k)]
  BY <1>3, <1>4 DEF Appends
<1> QED
  BY <1>2, <1>6, <1>7 DEF L

\* What the walk comes to after k of p's children.
Comes(h, after, p, k) ==
  IF k < Degree(h, p) THEN Kid(h, p, k + 1) ELSE after[p]

\* What follows a child comes after it, with its first leaf.
LEMMA KidFollowed ==
  ASSUME NEW h, NEW lev, NEW bound, NEW after, NEW top, AtRest(h, lev, bound, after, top),
         NEW p \in Allocated(h), NEW k \in 1..Degree(h, p)
  PROVE  FirstLeaf(h, after[Kid(h, p, k)]) = FirstLeaf(h, Comes(h, after, p, k))
<1>0. Bounded(h, lev, bound) /\ h \in Heap /\ Levels(h, after, after, top, {})
  BY DEF AtRest, Bounded
<1>1. IsInternal(h, p) /\ Degree(h, p) = h[p].length /\ h[p].length \in 0..B
  <2>1. IsInternal(h, p)
    BY <1>0, KidsOf
  <2> QED
    BY <1>0, <2>1, Kinds DEF Degree
<1>2. k - 1 \in Position /\ k - 1 < h[p].length /\ (k - 1) + 1 = k
  BY <1>1, NodeAssumption DEF Position
<1>3. after[Kid(h, p, k)] = NextChild(h, after, p, k - 1)
  BY <1>0, <1>1, <1>2 DEF Levels, Kid
<1>4. CASE k < Degree(h, p)
  <2>1. (k + 1) - 1 = k
    OBVIOUS
  <2>2. Kid(h, p, k + 1) = h[p].children[k]
    BY <2>1, Zenon DEF Kid
  <2>3. NextChild(h, after, p, k - 1) = h[p].children[k]
    BY <1>1, <1>2, <1>4 DEF NextChild
  <2> QED
    BY <1>3, <1>4, <2>2, <2>3 DEF Comes
<1>5. CASE ~ (k < Degree(h, p))
  <2>1. NextChild(h, after, p, k - 1) = IF after[p] = None THEN None
                                        ELSE h[after[p]].children[0]
    BY <1>1, <1>2, <1>5 DEF NextChild
  <2>2. CASE after[p] = None
    BY <1>3, <1>5, <2>1, <2>2 DEF Comes
  <2>3. CASE after[p] # None
    <3>1. after[p] \in Allocated(h) /\ IsInternal(h, after[p])
      BY <1>0, <1>1, <2>3 DEF Levels, LeadsOn, IsInternal
    <3>2. FirstLeaf(h, after[p]) = FirstLeaf(h, Kid(h, after[p], 1))
      BY <3>1, FirstIsLeaf
    <3>3. Kid(h, after[p], 1) = h[after[p]].children[0]
      <4>1. 1 - 1 = 0
        OBVIOUS
      <4> QED
        BY <4>1, Zenon DEF Kid
    <3> QED
      BY <1>3, <1>5, <2>1, <2>3, <3>2, <3>3 DEF Comes
  <2> QED
    BY <2>2, <2>3
<1> QED
  BY <1>4, <1>5

\* What comes after some of the children is none, or a node.
LEMMA ComesNext ==
  ASSUME NEW h, NEW lev, NEW bound, NEW after, NEW top, AtRest(h, lev, bound, after, top),
         NEW p \in Allocated(h), NEW k \in 0..Degree(h, p)
  PROVE  Chain(h, FirstLeaf(h, Comes(h, after, p, k))) \in Seq(Ptr)
<1>0. Bounded(h, lev, bound) /\ h \in Heap /\ Levels(h, after, after, top, {})
  BY DEF AtRest, Bounded
<1>1. PICK rank, high : Listed(h, rank, high)
  <2>1. PICK rank, high : EndsBy(h, rank, high)
    BY DEF AtRest, ListEnds
  <2> QED
    BY <2>1 DEF AtRest, Bounded, Listed
<1>2. Comes(h, after, p, k) = None \/ Comes(h, after, p, k) \in Allocated(h)
  <2>1. CASE k < Degree(h, p)
    <3>1. k + 1 \in 1..Degree(h, p)
      BY <1>0, <2>1, KidsOf
    <3> QED
      BY <1>0, <2>1, <3>1, KidsOf DEF Comes
  <2>2. CASE ~ (k < Degree(h, p))
    BY <1>0, <2>2 DEF Comes, Levels, LeadsOn
  <2> QED
    BY <2>1, <2>2
<1>3. FirstLeaf(h, Comes(h, after, p, k)) = None \/ LeafIn(h, FirstLeaf(h, Comes(h, after, p, k)))
  BY <1>2, FirstIsLeaf
<1> QED
  BY <1>1, <1>3, ChainStep

\* So the list passes the leaves below each node in their order.
LEMMA ListPasses ==
  ASSUME NEW h, NEW lev, NEW bound, NEW after, NEW top, AtRest(h, lev, bound, after, top),
         NEW n \in Allocated(h)
  PROVE  GoesOver(h, after, n)
<1> DEFINE T == {p \in Allocated(h) : GoesOver(h, after, p)}
           C(p) == Chain(h, FirstLeaf(h, p))
<1>0. Bounded(h, lev, bound) /\ h \in Heap /\ Levels(h, after, after, top, {})
  BY DEF AtRest, Bounded
<1>1. PICK rank, high : Listed(h, rank, high)
  <2>1. PICK rank, high : EndsBy(h, rank, high)
    BY DEF AtRest, ListEnds
  <2> QED
    BY <2>1 DEF AtRest, Bounded, Listed
<1>2. ASSUME NEW p \in Allocated(h), IsLeaf(h, p) PROVE p \in T
  <2>1. FirstLeaf(h, p) = p /\ LeafIn(h, p)
    BY <1>2, FirstIsLeaf
  <2>2. h[p].next = after[p]
        /\ (after[p] = None \/ (after[p] \in Allocated(h) /\ IsLeaf(h, after[p])))
    BY <1>0, <1>2 DEF Levels, LeadsOn, IsLeaf
  <2>3. FirstLeaf(h, after[p]) = after[p]
    BY <2>2, FirstIsLeaf
  <2>4. Chain(h, p) = <<p>> \o Chain(h, h[p].next)
    BY <1>1, <2>1, ChainStep
  <2>5. Walk(LeavesOf(h), h)[p] = <<p>>
    BY <1>0, <1>2, WalkAtLeaf
  <2> QED
    BY <2>1, <2>2, <2>3, <2>4, <2>5, Zenon DEF GoesOver
<1>3. ASSUME NEW p \in Allocated(h), IsInternal(h, p),
             \A k \in 1..Degree(h, p) : Kid(h, p, k) \in T
      PROVE  p \in T
  <2> DEFINE d == Degree(h, p)
             E(k) == Chain(h, FirstLeaf(h, Comes(h, after, p, k)))
             W(k) == Walk(LeavesOf(h), h)[Kid(h, p, k)]
  <2>1. PICK part :
          /\ part[0] = <<>> /\ Walk(LeavesOf(h), h)[p] = part[d]
          /\ \A k \in 0..d : part[k] \in Seq(Ptr)
          /\ \A k \in 1..d : W(k) \in Seq(Ptr) /\ part[k] = part[k - 1] \o W(k)
    BY <1>0, <1>3, WalkAtNode
  <2>2. d \in Nat /\ d >= 1
    BY <1>0, <1>3, KidsOf, FirstIsLeaf
  <2>3. \A k \in 0..d : E(k) \in Seq(Ptr)
    BY ComesNext
  <2>4. ASSUME NEW k \in 1..d PROVE E(k - 1) = W(k) \o E(k)
    <3>1. k - 1 < d /\ (k - 1) + 1 = k
      BY <2>2
    <3>2. Comes(h, after, p, k - 1) = Kid(h, p, k)
      BY <3>1 DEF Comes
    <3>3. GoesOver(h, after, Kid(h, p, k))
      BY <1>3
    <3>4. FirstLeaf(h, after[Kid(h, p, k)]) = FirstLeaf(h, Comes(h, after, p, k))
      BY KidFollowed
    <3> QED
      BY <3>2, <3>3, <3>4, Zenon DEF GoesOver
  <2>5. E(0) = C(p)
    <3>1. 0 < d /\ 0 + 1 = 1
      BY <2>2
    <3>2. Comes(h, after, p, 0) = Kid(h, p, 1)
      BY <3>1 DEF Comes
    <3>3. FirstLeaf(h, p) = FirstLeaf(h, Kid(h, p, 1))
      BY <1>3, FirstIsLeaf
    <3> QED
      BY <3>2, <3>3, Zenon
  <2>6. E(d) = C(after[p])
    <3>1. ~ (d < d)
      BY <2>2
    <3>2. Comes(h, after, p, d) = after[p]
      BY <3>1, Zenon DEF Comes
    <3> QED
      BY <3>2, Zenon
  <2> DEFINE e == [k \in 0..d |-> E(k)]
             w == [k \in 1..d |-> W(k)]
             P == {k \in 0..d : e[0] = part[k] \o e[k]}
  <2>7. \A k \in 0..d : e[k] = E(k)
    OBVIOUS
  <2>8. \A k \in 1..d : w[k] = W(k)
    OBVIOUS
  <2> HIDE DEF E, W, e, w, d
  <2>9. 0 \in 0..d /\ d \in 0..d /\ \A k \in 1..d : k \in 0..d /\ k - 1 \in 0..d
    BY <2>2
  <2>10. 0 \in P
    <3>1. e[0] \in Seq(Ptr) /\ part[0] = <<>>
      BY <2>1, <2>3, <2>7, <2>9
    <3>2. e[0] = <<>> \o e[0]
      BY <3>1
    <3> QED
      BY <2>9, <3>1, <3>2
  <2>11. ASSUME NEW k \in 1..d, k - 1 \in P PROVE k \in P
    <3>0. k \in 0..d /\ k - 1 \in 0..d
      BY <2>9
    <3>4. e[k] = E(k) /\ e[k - 1] = E(k - 1) /\ w[k] = W(k)
      BY <2>7, <2>8, <3>0
    <3>5. E(k - 1) = W(k) \o E(k)
      BY <2>4, Zenon
    <3>6. part[k - 1] \in Seq(Ptr) /\ e[k] \in Seq(Ptr)
      BY <2>1, <2>3, <3>0, <3>4
    <3>7. w[k] \in Seq(Ptr) /\ part[k] = part[k - 1] \o w[k]
      BY <2>1, <3>4
    <3>8. e[0] = part[k - 1] \o e[k - 1]
      BY <2>11
    <3>9. e[k - 1] = w[k] \o e[k]
      BY <3>4, <3>5, Zenon
    <3>1. /\ part[k - 1] \in Seq(Ptr) /\ w[k] \in Seq(Ptr) /\ e[k] \in Seq(Ptr)
          /\ e[0] = part[k - 1] \o e[k - 1]
          /\ e[k - 1] = w[k] \o e[k] /\ part[k] = part[k - 1] \o w[k]
      BY <3>6, <3>7, <3>8, <3>9
    <3>2. (part[k - 1] \o w[k]) \o e[k] = part[k - 1] \o (w[k] \o e[k])
      <4>1. PICK a \in Seq(Ptr), b \in Seq(Ptr), c \in Seq(Ptr) :
              a = part[k - 1] /\ b = w[k] /\ c = e[k]
        BY <3>6, <3>7
      <4>2. (a \o b) \o c = a \o (b \o c)
        BY ConcatAssociative
      <4> QED
        BY <4>1, <4>2, Zenon
    <3>3. e[0] = part[k] \o e[k]
      BY <3>1, <3>2, Zenon
    <3> QED
      BY <2>9, <3>3
  <2> HIDE DEF P
  <2>12. \A k \in 0..d : k \in P
    BY <2>2, <2>10, <2>11, Upwards
  <2>13. e[0] = part[d] \o e[d]
    BY <2>9, <2>12 DEF P
  <2>14. e[0] = C(p) /\ e[d] = C(after[p])
    BY <2>5, <2>6, <2>7, <2>9
  <2>15. C(p) = Walk(LeavesOf(h), h)[p] \o C(after[p])
    BY <2>1, <2>13, <2>14, Zenon
  <2> QED
    BY <2>15 DEF GoesOver
<1> HIDE DEF T, C
<1>4. ASSUME NEW p \in Allocated(h), \A k \in 1..Degree(h, p) : Kid(h, p, k) \in T
      PROVE  p \in T
  <2>1. IsLeaf(h, p) \/ IsInternal(h, p)
    BY <1>0, Kinds
  <2> QED
    BY <1>2, <1>3, <1>4, <2>1
<1>5. \A p \in Allocated(h) : p \in T
  BY <1>0, <1>4, FromTheKids
<1> QED
  BY <1>5 DEF T

\* So from the first leaf of the tree on it is the leaves of the tree.
LEMMA ListIsLeaves ==
  ASSUME NEW h, NEW lev, NEW bound, NEW after, NEW top, AtRest(h, lev, bound, after, top),
         top = None \/ top \in Allocated(h)
  PROVE  Chain(h, FirstLeaf(h, top)) = Leaves(h, top)
<1> DEFINE W == Walk(LeavesOf(h), h)
<1>0. Bounded(h, lev, bound) /\ Levels(h, after, after, top, {})
  BY DEF AtRest
<1>1. PICK rank : Grounded(h, rank, bound)
  BY <1>0, TreeGrounded
<1>2. PICK high, most : Listed(h, high, most)
  <2>1. PICK high, most : EndsBy(h, high, most)
    BY DEF AtRest, ListEnds
  <2> QED
    BY <2>1 DEF AtRest, Bounded, Listed
<1>3. Chain(h, None) = <<>> /\ FirstLeaf(h, None) = None
  BY <1>2, ChainStep, FirstIsLeaf
<1>4. top \in Ptr \cup {None}
  BY DEF Allocated
<1>5. Leaves(h, top) = IF top = None THEN <<>> ELSE W[top]
  <2>1. NodesIn(LeavesOf(h), h, Root(top)) = IF top = None THEN <<>> ELSE W[top]
    BY <1>1, <1>4, NodesInOne
  <2> QED
    BY <2>1, Zenon DEF Leaves, LeavesOf
<1>6. CASE top = None
  BY <1>3, <1>5, <1>6
<1>7. CASE top \in Allocated(h)
  <2>1. top # None /\ top \in Ptr
    BY <1>0, <1>7, KidsOf
  <2>2. after[top] = None
    BY <1>0, <2>1 DEF Levels
  <2>3. Chain(h, FirstLeaf(h, top)) = W[top] \o Chain(h, FirstLeaf(h, after[top]))
    BY <1>7, ListPasses, Zenon DEF GoesOver
  <2>4. W[top] \in Seq(Ptr)
    BY <1>1, <2>1, WalkWalks DEF Walked
  <2> HIDE DEF W
  <2>5. W[top] \o <<>> = W[top]
    BY <2>4
  <2> QED
    BY <1>3, <1>5, <2>1, <2>2, <2>3, <2>5
<1> QED
  BY <1>6, <1>7

\* Between two calls and while a call reads, the leaf list is the leaves of the
\* tree from left to right, and ends there, after any insertions and removals
\* (LeafNode::split and LeafNode::merge relink `next`, while the tree above
\* changes on its own).
THEOREM AlwaysLeafChain == Spec => []LeafChain
<1>1. Init => VecReadInv
  BY InitAllowed
<1>2. VecReadInv /\ [Next]_vars => VecReadInv'
  BY StepAllowed
<1>3. VecReadInv => LeafChain
  <2> SUFFICES ASSUME VecReadInv, pc \in {"idle", "seek", "return"}
               PROVE  Chain(heap, FirstLeaf(heap, root)) = Leaves(heap, root)
    BY DEF LeafChain
  <2>1. ~ Inserting /\ ~ Removing /\ ~ Ended
    BY DEF Inserting, Removing, Ended
  <2>2. TypeInv /\ TreeInv /\ OrderInv /\ FiniteInv /\ ListEnds(heap)
    BY <2>1 DEF VecReadInv, ReadInv, VecInv, ListInv
  <2>3. PICK lev \in [Ptr -> Nat] : OneTree(lev)
    BY <2>1, <2>2, OneTreeThen
  <2>4. PICK order \in [Ptr -> PtrOrNone] : Ordered(heap, order, root, {})
    BY <2>1, <2>2, <2>3, OrderedThen
  <2>5. PICK bound : Bounded(heap, lev, bound)
    BY <2>2, <2>3, FiniteTrees DEF OneTree, FiniteInv, TypeInv, TypeOK
  <2>6. Full(heap, {})
    BY <2>1, <2>2 DEF TreeInv, TreeInvAt, NonEmpty, IsEmptied, Full
  <2>7. AtRest(heap, lev, bound, order, root)
    BY <2>2, <2>4, <2>5, <2>6 DEF AtRest, Ordered
  <2>8. root = None \/ root \in Allocated(heap)
    BY <2>3 DEF OneTree
  <2> QED
    BY <2>7, <2>8, ListIsLeaves
<1> QED
  BY <1>1, <1>2, <1>3, PTL DEF Spec
=============================================================================
