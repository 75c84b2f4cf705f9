------------------------ MODULE BTreeIntoIterProofs ------------------------
(***************************************************************************)
(* The owning iterator and the drop of a vector.  The calls of destroy     *)
(* take the tree apart from the root down: what they leave is a forest,    *)
(* and the roots of its trees are the nodes they have yet to free.         *)
(***************************************************************************)
EXTENDS BTreeIntoIter, BTreeRefinementProofs

USE NodeAssumption DEF Position

-----------------------------------------------------------------------------
(***************************************************************************)
(* A tree taken apart.                                                     *)
(***************************************************************************)

\* The heap h once internal node n has given its children up: each is the root
\* of a tree of its own.
Bared(h, n) ==
  [p \in Ptr |->
     IF p = n THEN [h[p] EXCEPT !.length = 0, !.children = [i \in Position |-> None]]
     ELSE IF h[p].parent = n THEN [h[p] EXCEPT !.parent = None, !.index = 0]
     ELSE h[p]]

\* The children of n.
Kids(h, n) == {h[n].children[i] : i \in 0..(h[n].length - 1)}

\* What that changes.
Bares(h, g, n) ==
  /\ g \in Heap
  /\ \A p \in Ptr :
       /\ g[p].kind = h[p].kind
       /\ p # n => g[p].length = h[p].length /\ g[p].children = h[p].children
       /\ IF p # n /\ h[p].parent = n THEN g[p].parent = None /\ g[p].index = 0
          ELSE g[p].parent = h[p].parent /\ g[p].index = h[p].index
  /\ g[n].length = 0 /\ \A i \in Position : g[n].children[i] = None

\* So it does.
LEMMA BaredFields ==
  ASSUME NEW h \in Heap, NEW n \in Ptr
  PROVE  Bares(h, Bared(h, n), n)
<1> DEFINE g == Bared(h, n)
           none == [i \in Position |-> None]
<1>1. none \in [Position -> Slot]
  BY DEF Slot
<1>2. 0 \in 0..B
  OBVIOUS
<1>3. \A i \in Position : none[i] = None
  OBVIOUS
<1> HIDE DEF none
<1>4. \A p \in Ptr : g[p] = IF p = n THEN [h[p] EXCEPT !.length = 0, !.children = none]
                            ELSE IF h[p].parent = n
                            THEN [h[p] EXCEPT !.parent = None, !.index = 0]
                            ELSE h[p]
  BY DEF Bared, none
<1>5. \A p \in Ptr : h[p] \in Node
  BY DEF Heap
<1>6. [h[n] EXCEPT !.length = 0, !.children = none] \in Node
  BY <1>1, <1>2, <1>5 DEF Node
<1>7. g[n].kind = h[n].kind /\ g[n].length = 0 /\ g[n].children = none
      /\ g[n].parent = h[n].parent /\ g[n].index = h[n].index /\ g[n] \in Node
  BY <1>4, <1>5, <1>6 DEF Node
<1>8. ASSUME NEW p \in Ptr, p # n
      PROVE  /\ g[p] \in Node /\ g[p].kind = h[p].kind
             /\ g[p].length = h[p].length /\ g[p].children = h[p].children
             /\ IF h[p].parent = n THEN g[p].parent = None /\ g[p].index = 0
                ELSE g[p].parent = h[p].parent /\ g[p].index = h[p].index
  <2>1. h[p] \in Node
    BY <1>5
  <2>2. CASE h[p].parent = n
    <3>1. g[p] = [h[p] EXCEPT !.parent = None, !.index = 0]
      BY <1>4, <1>8, <2>2, ZenonT(40)
    <3> QED
      BY <2>1, <2>2, <3>1, DetachedFields, ZenonT(40)
  <2>3. CASE h[p].parent # n
    BY <1>4, <1>8, <2>1, <2>3
  <2> QED
    BY <2>2, <2>3
<1>9. g \in Heap
  <2>1. \A p \in Ptr : g[p] \in Node
    BY <1>7, <1>8
  <2>2. g = [p \in Ptr |-> g[p]]
    BY DEF Bared
  <2> QED
    BY <2>1, <2>2 DEF Heap
<1> HIDE DEF g
<1> QED
  BY <1>3, <1>7, <1>8, <1>9 DEF Bares, g

\* The trees are then those of before, and those of the children of n.
LEMMA BaredTree ==
  ASSUME NEW h, NEW lev, NEW bound, Bounded(h, lev, bound),
         NEW n \in Roots(h), IsInternal(h, n), NEW g, Bares(h, g, n)
  PROVE  /\ Bounded(g, lev, bound) /\ Allocated(g) = Allocated(h)
         /\ Roots(g) = Roots(h) \cup Kids(h, n)
<1>0. /\ h \in Heap /\ Tree(h, lev) /\ bound \in Nat
      /\ \A p \in Allocated(h) : lev[p] <= bound
  BY DEF Bounded
<1>1. n \in Allocated(h) /\ n \in Ptr /\ n # None /\ h[n].parent = None
      /\ h[n].length \in 0..B
  BY <1>0, FieldTypes DEF Roots, Allocated
<1>2. Allocated(g) = Allocated(h)
  BY DEF Allocated, Bares
<1>3. \A p \in Allocated(h) : p # None /\ p \in Ptr
  BY DEF Allocated
<1>4. ASSUME NEW i \in 0..(h[n].length - 1)
      PROVE  /\ h[n].children[i] \in Allocated(h) /\ h[h[n].children[i]].parent = n
             /\ h[n].children[i] # n
  <2>1. i \in Nat /\ i < h[n].length
    BY <1>1
  <2> QED
    BY <1>0, <1>1, <2>1, ChildOf
<1>5. \A p \in Allocated(h) : p \in Kids(h, n) <=> h[p].parent = n
  <2> TAKE p \in Allocated(h)
  <2>1. ASSUME h[p].parent = n PROVE p \in Kids(h, n)
    <3>1. h[p].index \in Nat /\ h[p].index < h[n].length /\ h[n].children[h[p].index] = p
      BY <1>0, <1>1, <2>1, ParentOf
    <3>2. h[p].index \in 0..(h[n].length - 1)
      BY <1>1, <3>1
    <3> QED
      BY <3>1, <3>2 DEF Kids
  <2> QED
    BY <1>4, <2>1 DEF Kids
<1>6. Kids(h, n) \subseteq Allocated(h) \ {n}
  BY <1>4 DEF Kids
<1>7. Roots(g) = Roots(h) \cup Kids(h, n)
  <2>1. ASSUME NEW p \in Allocated(h)
        PROVE  g[p].parent = None <=> h[p].parent = None \/ p \in Kids(h, n)
    BY <1>1, <1>3, <1>5, <1>6 DEF Bares
  <2> QED
    BY <1>2, <1>6, <2>1 DEF Roots
<1>8. ASSUME NEW p \in Allocated(h)
      PROVE  (IsLeaf(g, p) <=> lev[p] = 0) /\ SlotsOK(g, lev, p) /\ Hangs(g, p)
  <2>1. /\ p \in Ptr /\ p # None
        /\ (IsLeaf(h, p) <=> lev[p] = 0) /\ SlotsOK(h, lev, p) /\ Hangs(h, p)
    BY <1>0, <1>3 DEF Tree
  <2>2. g[p].kind = h[p].kind
    BY <2>1 DEF Bares
  <2>3. SlotsOK(g, lev, p)
    <3>1. CASE p = n
      <4>1. ~ IsLeaf(g, p) /\ g[p].length = 0 /\ \A i \in Position : g[p].children[i] = None
        BY <2>2, <3>1 DEF Bares, IsLeaf, IsInternal
      <4>2. \A i \in Position : ~ (i < 0)
        OBVIOUS
      <4> QED
        BY <4>1, <4>2 DEF SlotsOK
    <3>2. CASE p # n
      <4>1. ASSUME NEW j \in Position, IsChild(h, lev, p, j) PROVE IsChild(g, lev, p, j)
        <5> DEFINE c == h[p].children[j]
        <5>1. c \in Allocated(h) /\ h[c].parent = p /\ h[c].index = j /\ lev[p] = lev[c] + 1
          BY <4>1 DEF IsChild
        <5>2. g[p].children = h[p].children /\ c \in Ptr
          BY <1>3, <2>1, <3>2, <5>1 DEF Bares
        <5>3. g[c].parent = h[c].parent /\ g[c].index = h[c].index
          BY <3>2, <5>1, <5>2 DEF Bares
        <5> QED
          BY <1>2, <5>1, <5>2, <5>3 DEF IsChild
      <4>2. g[p].length = h[p].length /\ g[p].children = h[p].children
        BY <2>1, <3>2 DEF Bares
      <4> QED
        BY <2>1, <2>2, <4>1, <4>2, SlotsFrame
    <3> QED
      BY <3>1, <3>2
  <2>4. Hangs(g, p)
    <3>1. CASE p # n /\ h[p].parent = n
      BY <2>1, <3>1 DEF Bares, Hangs
    <3>2. CASE ~ (p # n /\ h[p].parent = n)
      <4>1. g[p].parent = h[p].parent /\ g[p].index = h[p].index /\ h[p].parent # n
        BY <1>1, <2>1, <3>2 DEF Bares
      <4>2. h[p].parent # None => h[p].parent \in Ptr
        BY <1>3, <2>1 DEF Hangs
      <4>3. h[p].parent # None =>
              LET q == h[p].parent
              IN  /\ q \in Allocated(g) /\ g[q].kind = h[q].kind
                  /\ g[q].length = h[q].length /\ g[q].children = h[q].children
        BY <1>2, <2>1, <4>1, <4>2 DEF Bares, Hangs
      <4> QED
        BY <2>1, <4>1, <4>3, HangsFrame
    <3> QED
      BY <3>1, <3>2
  <2> QED
    BY <2>1, <2>2, <2>3, <2>4 DEF IsLeaf
<1>9. Tree(g, lev)
  BY <1>0, <1>2, <1>8 DEF Tree
<1>10. g \in Heap
  BY DEF Bares
<1> QED
  BY <1>0, <1>2, <1>7, <1>9, <1>10 DEF Bounded

\* A node that has no child can go.
LEMMA FreedTree ==
  ASSUME NEW h, NEW lev, NEW bound, Bounded(h, lev, bound), NEW n \in Roots(h),
         IsInternal(h, n) => h[n].length = 0
  PROVE  /\ Bounded(Dealloc(h, n), lev, bound)
         /\ Roots(Dealloc(h, n)) = Roots(h) \ {n}
         /\ Allocated(Dealloc(h, n)) = Allocated(h) \ {n}
<1>0. /\ h \in Heap /\ Tree(h, lev) /\ bound \in Nat
      /\ \A p \in Allocated(h) : lev[p] <= bound
  BY DEF Bounded
<1> DEFINE g == Dealloc(h, n)
<1>1. /\ Tree(g, lev) /\ Allocated(g) = Allocated(h) \ {n} /\ Roots(g) = Roots(h) \ {n}
  BY <1>0, DeallocTree
<1>2. g \in Heap
  <2>1. NewNode("free") \in Node
    BY NewNodeType
  <2> QED
    BY <1>0, <2>1 DEF Dealloc, Heap
<1> HIDE DEF g
<1> QED
  BY <1>0, <1>1, <1>2 DEF Bounded, g

-----------------------------------------------------------------------------
(***************************************************************************)
(* The running calls of destroy.                                           *)
(***************************************************************************)

\* The calls work on h.  g is h with what they have loosened: nodes have the
\* same children in both, and those that hang in g hang there in h.
Agree(h, g) ==
  /\ h \in Heap
  /\ \A p \in Ptr :
       /\ h[p].kind = g[p].kind /\ h[p].length = g[p].length
       /\ \A i \in Position : i < g[p].length => h[p].children[i] = g[p].children[i]
       /\ g[p].parent # None => h[p].parent = g[p].parent /\ h[p].index = g[p].index

\* A call is at a root, has taken its children from it, and those it has yet to
\* destroy are roots too.
CallFits(h, g, call) ==
  /\ call.node \in Roots(g) /\ h[call.node].parent = None
  /\ call.at \in Nat /\ call.length \in 0..B /\ call.at <= call.length
  /\ IsLeaf(g, call.node) => call.length = 0
  /\ IsInternal(g, call.node) => g[call.node].length = 0
  /\ \A i \in Position : call.at <= i /\ i < call.length =>
       LET c == h[call.node].children[i]
       IN  c \in Roots(g) /\ h[c].parent = call.node /\ h[c].index = i

\* All calls do, and no two are at one node.
CallsFit(h, g, calls) ==
  /\ \A k \in 1..Len(calls) : CallFits(h, g, calls[k])
  /\ \A j, k \in 1..Len(calls) : calls[j].node = calls[k].node => j = k

\* r is the node of the call or one that the call has yet to destroy.
OwedBy(h, call, r) ==
  \/ r = call.node
  \/ \E i \in Position : call.at <= i /\ i < call.length /\ r = h[call.node].children[i]

\* Each root is that of some call.
AllOwed(h, g, calls) ==
  \A r \in Roots(g) : \E k \in 1..Len(calls) : OwedBy(h, calls[k], r)

\* What a call of destroy for the root n begins with: n gives up its children,
\* and a new call owes n and them.
Opens(h, g, n, f, d, lev, bound) ==
  /\ Bounded(d, lev, bound) /\ Agree(f, d)
  /\ Allocated(d) = Allocated(g) /\ Roots(g) \subseteq Roots(d)
  /\ CallFits(f, d, Frame(h, n))
  /\ \A r \in Roots(d) : r \in Roots(g) \/ OwedBy(f, Frame(h, n), r)
  /\ \A p \in Ptr : /\ f[p].parent = h[p].parent /\ f[p].index = h[p].index
                    /\ f[p].children = h[p].children
  /\ \A p \in Roots(g) : p # n => d[p].kind = g[p].kind /\ d[p].length = g[p].length

\* The heap without what the new call takes over.
Given(g, n) == IF IsLeaf(g, n) THEN g ELSE Bared(g, n)

\* So it does.
LEMMA CallOpens ==
  ASSUME NEW h, NEW g, NEW lev, NEW bound, Bounded(g, lev, bound), Agree(h, g),
         NEW n \in Roots(g), h[n].parent = None
  PROVE  Opens(h, g, n, TakeLength(h, n), Given(g, n), lev, bound)
<1> DEFINE f == TakeLength(h, n)
           d == Given(g, n)
           call == Frame(h, n)
<1>0. g \in Heap /\ h \in Heap /\ Tree(g, lev)
  BY DEF Bounded, Agree
<1>1. n \in Ptr /\ n \in Allocated(g) /\ n # None /\ g[n].length \in 0..B
      /\ (~ IsLeaf(g, n) <=> IsInternal(g, n))
  BY <1>0, Kinds DEF Roots
<1>2. h[n].kind = g[n].kind /\ h[n].length = g[n].length
  BY <1>1 DEF Agree
<1>3. CASE IsLeaf(g, n)
  <2>1. f = h /\ d = g
    BY <1>2, <1>3 DEF TakeLength, Given, IsLeaf
  <2>2. call.node = n /\ call.at = 0 /\ call.length = 0
    BY <1>1, <1>2, <1>3 DEF Frame, IsLeaf, IsInternal
  <2> HIDE DEF f, d, call
  <2>3. CallFits(f, d, call)
    <3>1. \A i \in Position : ~ (0 <= i /\ i < 0)
      OBVIOUS
    <3>2. ~ IsInternal(g, n)
      BY <1>1, <1>3
    <3> QED
      BY <2>1, <2>2, <3>1, <3>2 DEF CallFits
  <2>4. Opens(h, g, n, f, d, lev, bound)
    BY <2>1, <2>3 DEF Opens, call
  <2> QED
    BY <2>4 DEF f, d
<1>4. CASE IsInternal(g, n)
  <2>1. d = Bared(g, n)
    BY <1>1, <1>4 DEF Given
  <2>2. Bares(g, d, n)
    BY <1>0, <1>1, <2>1, BaredFields
  <2>3. Bounded(d, lev, bound) /\ Allocated(d) = Allocated(g)
        /\ Roots(d) = Roots(g) \cup Kids(g, n)
    BY <1>4, <2>2, BaredTree
  <2>4. f = [h EXCEPT ![n].length = 0]
    BY <1>1, <1>2, <1>4 DEF TakeLength, IsLeaf, IsInternal
  <2>5. call.node = n /\ call.at = 0 /\ call.length = g[n].length
    BY <1>2, <1>4 DEF Frame, IsInternal
  <2>6. /\ f \in Heap /\ f[n].length = 0
        /\ \A p \in Ptr : /\ f[p].kind = h[p].kind /\ f[p].parent = h[p].parent
                          /\ f[p].index = h[p].index /\ f[p].children = h[p].children
                          /\ p # n => f[p].length = h[p].length
    <3>0. h[n] \in Node /\ 0 \in 0..B
      BY <1>0, <1>1 DEF Heap
    <3>1. [h[n] EXCEPT !.length = 0] \in Node /\ h[n] \in Node
      BY <3>0 DEF Node
    <3>2. f[n] = [h[n] EXCEPT !.length = 0] /\ \A p \in Ptr : p # n => f[p] = h[p]
      BY <1>0, <1>1, <2>4 DEF Heap
    <3>3. f \in Heap
      BY <1>0, <1>1, <2>4, <3>1 DEF Heap
    <3>4. f[n].length = 0 /\ f[n].kind = h[n].kind /\ f[n].parent = h[n].parent
          /\ f[n].index = h[n].index /\ f[n].children = h[n].children
      BY <3>1, <3>2 DEF Node
    <3> HIDE DEF f
    <3> QED
      BY <3>2, <3>3, <3>4
  <2> HIDE DEF f, d, call
  <2>7. Agree(f, d)
    <3>1. ASSUME NEW p \in Ptr
          PROVE  /\ f[p].kind = d[p].kind /\ f[p].length = d[p].length
                 /\ \A i \in Position : i < d[p].length => f[p].children[i] = d[p].children[i]
                 /\ d[p].parent # None => f[p].parent = d[p].parent /\ f[p].index = d[p].index
      <4>1. h[p].kind = g[p].kind /\ h[p].length = g[p].length
            /\ (g[p].parent # None => h[p].parent = g[p].parent /\ h[p].index = g[p].index)
            /\ \A i \in Position : i < g[p].length => h[p].children[i] = g[p].children[i]
        BY DEF Agree
      <4>2. f[p].kind = d[p].kind
        BY <2>2, <2>6, <4>1 DEF Bares
      <4>3. d[p].parent # None => f[p].parent = d[p].parent /\ f[p].index = d[p].index
        BY <1>1, <2>2, <2>6, <4>1 DEF Bares, Roots
      <4>4. CASE p = n
        <5>1. f[p].length = 0 /\ d[p].length = 0 /\ \A i \in Position : ~ (i < 0)
          BY <2>2, <2>6, <4>4 DEF Bares
        <5> QED
          BY <4>2, <4>3, <5>1
      <4>5. CASE p # n
        <5>1. f[p].length = h[p].length /\ f[p].children = h[p].children
              /\ d[p].length = g[p].length /\ d[p].children = g[p].children
          BY <2>2, <2>6, <4>5 DEF Bares
        <5> QED
          BY <4>1, <4>2, <4>3, <5>1
      <4> QED
        BY <4>4, <4>5
    <3> QED
      BY <2>6, <3>1 DEF Agree
  <2>8. ASSUME NEW i \in Position, i < g[n].length
        PROVE  LET c == f[n].children[i]
               IN  c \in Roots(d) /\ f[c].parent = n /\ f[c].index = i
                   /\ c = g[n].children[i]
    <3> DEFINE c == g[n].children[i]
    <3>1. i \in Nat
      OBVIOUS
    <3>2. c \in Allocated(g) /\ g[c].parent = n /\ g[c].index = i
      BY <1>0, <1>1, <1>4, <2>8, <3>1, ChildOf
    <3>3. c \in Ptr /\ i \in 0..(g[n].length - 1)
      BY <1>1, <2>8, <3>2 DEF Allocated
    <3>4. f[n].children[i] = c
      BY <1>1, <2>6, <2>8 DEF Agree
    <3>5. h[c].parent = n /\ h[c].index = i
      BY <1>1, <3>2, <3>3 DEF Agree
    <3>6. c \in Roots(d)
      BY <2>3, <3>3 DEF Kids
    <3> QED
      BY <2>6, <3>3, <3>4, <3>5, <3>6
  <2>9. CallFits(f, d, call)
    <3>1. f[n].parent = None /\ n \in Roots(d) /\ d[n].length = 0 /\ d[n].kind = g[n].kind
      BY <1>1, <2>2, <2>3, <2>6 DEF Bares
    <3>2. ~ IsLeaf(d, n)
      BY <1>4, <3>1 DEF IsLeaf, IsInternal
    <3>3. 0 <= g[n].length /\ 0 \in Nat
      BY <1>1
    <3> QED
      BY <1>1, <2>5, <2>8, <3>1, <3>2, <3>3 DEF CallFits
  <2>10. ASSUME NEW r \in Roots(d) PROVE r \in Roots(g) \/ OwedBy(f, call, r)
    <3>1. CASE r \in Kids(g, n)
      <4>1. PICK i \in 0..(g[n].length - 1) : r = g[n].children[i]
        BY <3>1 DEF Kids
      <4>2. i \in Position /\ i < g[n].length /\ 0 <= i
        BY <1>1
      <4>3. r = f[n].children[i]
        BY <2>8, <4>1, <4>2
      <4> QED
        BY <2>5, <4>2, <4>3 DEF OwedBy
    <3> QED
      BY <2>3, <3>1
  <2>11. ASSUME NEW p \in Roots(g), p # n
         PROVE  d[p].kind = g[p].kind /\ d[p].length = g[p].length
    BY <2>2, <2>11 DEF Bares, Roots, Allocated
  <2>12. Opens(h, g, n, f, d, lev, bound)
    BY <2>3, <2>6, <2>7, <2>9, <2>10, <2>11 DEF Opens, call
  <2> QED
    BY <2>12 DEF f, d
<1> QED
  BY <1>1, <1>3, <1>4

\* A running call.
Call == [node : Ptr, at : Nat, length : 0..B]

\* The stack without its last call.
LEMMA FrontParts ==
  ASSUME NEW T, NEW calls \in Seq(T), calls # <<>>
  PROVE  /\ Front(calls) \in Seq(T) /\ Len(Front(calls)) = Len(calls) - 1
         /\ \A k \in 1..(Len(calls) - 1) : Front(calls)[k] = calls[k]
<1> DEFINE s == Front(calls)
           m == Len(calls) - 1
<1>1. Len(calls) \in Nat /\ Len(calls) >= 1
  BY EmptySeq
<1>2. m \in Nat /\ 1 \in Int /\ m \in Int
  BY <1>1
<1>3. \A k \in 1..m : calls[k] \in T
  BY <1>1, LenProperties
<1> HIDE DEF m
<1>4. /\ SubSeq(calls, 1, m) \in Seq(T)
      /\ Len(SubSeq(calls, 1, m)) = IF 1 <= m THEN m - 1 + 1 ELSE 0
      /\ \A k \in 1..(m - 1 + 1) : SubSeq(calls, 1, m)[k] = calls[1 + k - 1]
  BY <1>2, <1>3, SubSeqProperties
<1>5. m - 1 + 1 = m /\ (~ (1 <= m) => m = 0) /\ \A k \in 1..m : 1 + k - 1 = k
  BY <1>2
<1>6. s = SubSeq(calls, 1, m)
  BY Zenon DEF Front, s, m
<1> HIDE DEF s
<1>7. s \in Seq(T) /\ Len(s) = m /\ \A k \in 1..m : s[k] = calls[k]
  BY <1>4, <1>5, <1>6
<1> QED
  BY <1>7 DEF s, m

\* The stack with two calls in its place.
LEMMA StackParts ==
  ASSUME NEW T, NEW calls \in Seq(T), calls # <<>>, NEW a \in T, NEW b \in T
  PROVE  /\ Front(calls) \o <<a, b>> \in Seq(T)
         /\ Len(Front(calls) \o <<a, b>>) = Len(calls) + 1
         /\ \A k \in 1..(Len(calls) - 1) : (Front(calls) \o <<a, b>>)[k] = calls[k]
         /\ (Front(calls) \o <<a, b>>)[Len(calls)] = a
         /\ (Front(calls) \o <<a, b>>)[Len(calls) + 1] = b
<1> DEFINE s == Front(calls)
           m == Len(calls) - 1
           u == <<a, b>>
<1>1. s \in Seq(T) /\ Len(s) = m /\ \A k \in 1..m : s[k] = calls[k]
  BY FrontParts
<1>2. m \in Nat /\ m + 1 = Len(calls) /\ m + 2 = Len(calls) + 1
  BY EmptySeq
<1>3. u \in Seq(T) /\ Len(u) = 2 /\ u[1] = a /\ u[2] = b
  OBVIOUS
<1>4. Len(calls) - 1 = m
  OBVIOUS
<1> HIDE DEF s, m, u
<1>5. /\ s \o u \in Seq(T) /\ Len(s \o u) = m + 2
      /\ \A k \in 1..m : (s \o u)[k] = calls[k]
      /\ (s \o u)[m + 1] = a /\ (s \o u)[m + 2] = b
  <2>1. /\ s \o u \in Seq(T) /\ Len(s \o u) = Len(s) + Len(u)
        /\ \A k \in 1..(Len(s) + Len(u)) :
              (s \o u)[k] = IF k <= Len(s) THEN s[k] ELSE u[k - Len(s)]
    BY <1>1, <1>3, ConcatProperties, ZenonT(40)
  <2>2. /\ \A k \in 1..m : k \in 1..(m + 2) /\ k <= m
        /\ m + 1 \in 1..(m + 2) /\ ~ (m + 1 <= m) /\ (m + 1) - m = 1
        /\ m + 2 \in 1..(m + 2) /\ ~ (m + 2 <= m) /\ (m + 2) - m = 2
    BY <1>2
  <2> QED
    BY <1>1, <1>3, <2>1, <2>2
<1> QED
  BY <1>2, <1>4, <1>5 DEF s, u

\* What the calls of destroy rely on, for the trees of g.
Destroys(h, g, lev, bound, calls) ==
  Bounded(g, lev, bound) /\ Agree(h, g) /\ CallsFit(h, g, calls)

\* They may go on with calls1 and h1, and still owe all roots if they did.
GoesOn(h, g, calls, h1, lev, bound, calls1) ==
  \E g1 : /\ Destroys(h1, g1, lev, bound, calls1)
          /\ AllOwed(h, g, calls) => AllOwed(h1, g1, calls1)

\* Child c is taken out of slot i of n.
Loosens(h, h0, n, i, c) ==
  n \in Ptr /\ c \in Ptr /\ c # n =>
    /\ h0 \in Heap
    /\ h0[c].parent = None /\ h0[c].index = h[c].index /\ h0[c].children = h[c].children
    /\ h0[n].parent = h[n].parent
    /\ \A j \in Position : j # i => h0[n].children[j] = h[n].children[j]
    /\ \A p \in Ptr : p # n /\ p # c => h0[p] = h[p]
    /\ \A p \in Ptr : h0[p].kind = h[p].kind /\ h0[p].length = h[p].length
                      /\ h0[p].index = h[p].index

\* What destroy_children does before it destroys a child.
LEMMA ChildLoose ==
  ASSUME NEW h \in Heap, NEW n, NEW i \in Position, NEW c
  PROVE  Loosens(h, [h EXCEPT ![n].children[i] = None, ![c].parent = None], n, i, c)
<1> SUFFICES ASSUME n \in Ptr, c \in Ptr, c # n
             PROVE  Loosens(h, [h EXCEPT ![n].children[i] = None, ![c].parent = None], n, i, c)
  BY DEF Loosens
<1> DEFINE rc == [h[c] EXCEPT !.parent = None]
           rn == [h[n] EXCEPT !.children[i] = None]
           h0 == [h EXCEPT ![n].children[i] = None, ![c].parent = None]
<1>1. h[n] \in Node /\ h[c] \in Node
  BY DEF Heap
<1>2. rc \in Node /\ rc.parent = None /\ rc.index = h[c].index
      /\ rc.children = h[c].children /\ rc.kind = h[c].kind /\ rc.length = h[c].length
  BY <1>1 DEF Node, PtrOrNone
<1>3. rn \in Node /\ rn.parent = h[n].parent /\ rn.index = h[n].index
      /\ rn.kind = h[n].kind /\ rn.length = h[n].length
      /\ \A j \in Position : j # i => rn.children[j] = h[n].children[j]
  BY <1>1 DEF Node, Slot
<1>4. h0 = [p \in Ptr |-> IF p = c THEN rc ELSE IF p = n THEN rn ELSE h[p]]
  BY DEF Heap
<1> HIDE DEF rc, rn, h0
<1>5. h0[c] = rc /\ h0[n] = rn /\ \A p \in Ptr : p # n /\ p # c => h0[p] = h[p]
  BY <1>4
<1>6. \A p \in Ptr : h0[p] \in Node
  BY <1>2, <1>3, <1>5 DEF Heap
<1>7. h0 \in Heap
  BY <1>4, <1>6 DEF Heap
<1>8. \A p \in Ptr : h0[p].kind = h[p].kind /\ h0[p].length = h[p].length
                     /\ h0[p].index = h[p].index
  BY <1>2, <1>3, <1>5
<1>9. Loosens(h, h0, n, i, c)
  BY <1>2, <1>3, <1>5, <1>7, <1>8 DEF Loosens
<1> QED
  BY <1>9 DEF h0

\* call is the last of m calls.
LastCall(calls, m, call) ==
  /\ m \in Nat /\ m >= 1 /\ m \in 1..m /\ Len(calls) = m /\ call = calls[m]
  /\ call.node \in Ptr /\ call.at \in Nat /\ call.length \in 0..B

\* The calls of a drop that goes on.
CallStack(calls) == calls \in Seq(Call) /\ calls # <<>>

\* They have a last one.
LEMMA LastCallType ==
  ASSUME NEW calls, CallStack(calls)
  PROVE  LastCall(calls, Len(calls), Last(calls)) /\ Last(calls) \in Call
<1> DEFINE m == Len(calls)
           call == Last(calls)
<1>1. calls \in Seq(Call) /\ m \in Nat /\ m >= 1 /\ m \in 1..m
  BY EmptySeq DEF CallStack
<1>2. call = calls[m]
  BY DEF Last
<1>3. \A k \in 1..m : calls[k] \in Call
  BY <1>1, LenProperties
<1> HIDE DEF m, call
<1>4. call \in Call
  BY <1>1, <1>2, <1>3
<1>5. call.node \in Ptr /\ call.at \in Nat /\ call.length \in 0..B
  BY <1>4 DEF Call
<1>6. LastCall(calls, m, call)
  BY <1>1, <1>2, <1>5 DEF LastCall, m
<1> QED
  BY <1>4, <1>6 DEF m, call

\* calls1 has a and b in the place of the last of m calls.
TwoForLast(calls, m, a, b, calls1) ==
  /\ Len(calls1) = m + 1 /\ calls1[m] = a /\ calls1[m + 1] = b
  /\ \A k \in 1..(m - 1) : calls1[k] = calls[k]

\* So has the stack after it.
LEMMA CallsPush ==
  ASSUME NEW calls, CallStack(calls), NEW a \in Call, NEW b \in Call
  PROVE  TwoForLast(calls, Len(calls), a, b, Front(calls) \o <<a, b>>)
<1> DEFINE C == Call
<1>1. calls \in Seq(C) /\ calls # <<>> /\ a \in C /\ b \in C
  BY DEF CallStack
<1> HIDE DEF C
<1>2. /\ Len(Front(calls) \o <<a, b>>) = Len(calls) + 1
      /\ \A k \in 1..(Len(calls) - 1) : (Front(calls) \o <<a, b>>)[k] = calls[k]
      /\ (Front(calls) \o <<a, b>>)[Len(calls)] = a
      /\ (Front(calls) \o <<a, b>>)[Len(calls) + 1] = b
  BY <1>1, StackParts
<1> QED
  BY <1>2, Zenon DEF TwoForLast

\* The stack without its last call.
LEMMA CallsPop ==
  ASSUME NEW calls, CallStack(calls)
  PROVE  /\ Len(Front(calls)) = Len(calls) - 1
         /\ \A k \in 1..(Len(calls) - 1) : Front(calls)[k] = calls[k]
<1> DEFINE C == Call
<1>1. calls \in Seq(C) /\ calls # <<>>
  BY DEF CallStack
<1> HIDE DEF C
<1> QED
  BY <1>1, FrontParts

\* a is the call after it took its child, and b the one it makes for that child.
Descends(h, call, c, a, b) ==
  /\ a.node = call.node /\ a.at = call.at + 1 /\ a.length = call.length
  /\ b = Frame(h, c) /\ b.node = c

\* The call, at the root n, and its next child c, which is a root too.
AtChild(h, g, calls, m, call, c) ==
  /\ LastCall(calls, m, call) /\ CallFits(h, g, call)
  /\ call.at \in Position /\ call.at < call.length
  /\ call.node \in Roots(g) /\ h[call.node].parent = None /\ call.node # None
  /\ ~ IsLeaf(g, call.node) /\ g[call.node].length = 0
  /\ c \in Roots(g) /\ h[c].parent = call.node /\ h[c].index = call.at
  /\ c \in Ptr /\ c # call.node /\ c = h[call.node].children[call.at]

\* The last call has one.
LEMMA ChildFound ==
  ASSUME NEW h, NEW g, NEW lev, NEW bound, NEW calls, NEW m, NEW call, NEW c,
         Destroys(h, g, lev, bound, calls), LastCall(calls, m, call),
         call.at < call.length, c = h[call.node].children[call.at]
  PROVE  AtChild(h, g, calls, m, call, c)
<1> DEFINE n == call.node
           i == call.at
<1>1. CallsFit(h, g, calls) /\ g \in Heap /\ Tree(g, lev)
  BY DEF Destroys, Bounded
<1>2. CallFits(h, g, call)
  BY <1>1 DEF CallsFit, LastCall
<1>3. i \in Position /\ i \in Nat /\ n \in Ptr
  BY NodeAssumption DEF LastCall, Position
<1>4. c \in Roots(g) /\ h[c].parent = n /\ h[c].index = i
  BY <1>2, <1>3 DEF CallFits
<1>5. n \in Roots(g) /\ h[n].parent = None /\ ~ IsLeaf(g, n)
  BY <1>2, <1>3 DEF CallFits, LastCall
<1>6. c \in Ptr /\ n # None /\ c # n
  BY <1>3, <1>4, <1>5 DEF Roots, Allocated
<1>7. IsInternal(g, n)
  BY <1>1, <1>5, Kinds DEF Roots
<1>8. g[n].length = 0
  BY <1>2, <1>7 DEF CallFits
<1> QED
  BY <1>2, <1>3, <1>4, <1>5, <1>6, <1>8 DEF AtChild

\* The last call takes that child out of its slot and destroys it.
LEMMA ChildTaken ==
  ASSUME NEW h, NEW g, NEW lev, NEW bound, NEW calls, NEW m, NEW call, NEW c, NEW h0,
         NEW a, NEW b, NEW calls1,
         Destroys(h, g, lev, bound, calls), AtChild(h, g, calls, m, call, c),
         Loosens(h, h0, call.node, call.at, c), Descends(h0, call, c, a, b),
         TwoForLast(calls, m, a, b, calls1)
  PROVE  GoesOn(h, g, calls, TakeLength(h0, c), lev, bound, calls1)
<1> DEFINE n == call.node
           i == call.at
           f == TakeLength(h0, c)
           d == Given(g, c)
<1>0. Bounded(g, lev, bound) /\ Agree(h, g) /\ CallsFit(h, g, calls)
      /\ g \in Heap /\ Tree(g, lev) /\ h \in Heap
  BY SMTT(30) DEF Destroys, Bounded, Agree
<1>1. m \in Nat /\ m >= 1 /\ call = calls[m] /\ m \in 1..m /\ Len(calls) = m
  BY DEF AtChild, LastCall
<1>2. CallFits(h, g, call)
  BY SMTT(30) DEF AtChild
<1>3. i \in Position /\ i \in Nat /\ call.length \in 0..B /\ i < call.length
      /\ n \in Ptr /\ i + 1 \in Nat
  BY DEF AtChild, LastCall
<1>4. c \in Roots(g) /\ h[c].parent = n /\ h[c].index = i
  BY DEF AtChild
<1>5. c \in Ptr /\ n # None /\ c # n
  BY DEF AtChild
<1>6. n \in Roots(g) /\ h[n].parent = None /\ g[n].length = 0 /\ ~ IsLeaf(g, n)
  BY DEF AtChild
<1>7. /\ h0 \in Heap
      /\ h0[c].parent = None /\ h0[c].index = h[c].index /\ h0[c].children = h[c].children
      /\ h0[n].parent = None
      /\ \A j \in Position : j # i => h0[n].children[j] = h[n].children[j]
      /\ \A p \in Ptr : p # n /\ p # c => h0[p] = h[p]
      /\ \A p \in Ptr : h0[p].kind = h[p].kind /\ h0[p].length = h[p].length
                        /\ h0[p].index = h[p].index
  BY <1>3, <1>5, <1>6 DEF Loosens
<1>8. Agree(h0, g)
  <2>1. ASSUME NEW p \in Ptr
        PROVE  /\ h0[p].kind = g[p].kind /\ h0[p].length = g[p].length
               /\ \A j \in Position : j < g[p].length => h0[p].children[j] = g[p].children[j]
               /\ g[p].parent # None => h0[p].parent = g[p].parent /\ h0[p].index = g[p].index
    <3>1. h[p].kind = g[p].kind /\ h[p].length = g[p].length
          /\ (g[p].parent # None => h[p].parent = g[p].parent /\ h[p].index = g[p].index)
          /\ \A j \in Position : j < g[p].length => h[p].children[j] = g[p].children[j]
      BY <1>0 DEF Agree
    <3>2. g[p].parent # None => h0[p] = h[p]
      BY <1>4, <1>6, <1>7 DEF Roots
    <3>3. p # n => h0[p].children = h[p].children
      BY <1>7
    <3>4. p = n => \A j \in Position : ~ (j < g[p].length)
      BY <1>6
    <3> QED
      BY <1>7, <3>1, <3>2, <3>3, <3>4
  <2> QED
    BY <1>7, <2>1 DEF Agree
<1>9. Opens(h0, g, c, f, d, lev, bound)
  <2>1. h0[c].parent = None
    BY <1>7
  <2> QED
    BY <1>0, <1>4, <1>8, <2>1, CallOpens
<1>11. a.node = n /\ a.at = i + 1 /\ a.length = call.length /\ b.node = c
       /\ b = Frame(h0, c)
  BY DEF Descends
<1>12. /\ Len(calls1) = m + 1 /\ calls1[m] = a /\ calls1[m + 1] = b
       /\ \A k \in 1..(m - 1) : calls1[k] = calls[k]
  BY DEF TwoForLast
<1> HIDE DEF f, d
<1>13. /\ Bounded(d, lev, bound) /\ Agree(f, d) /\ Roots(g) \subseteq Roots(d)
       /\ CallFits(f, d, b)
       /\ \A r \in Roots(d) : r \in Roots(g) \/ OwedBy(f, b, r)
       /\ \A p \in Ptr : /\ f[p].parent = h0[p].parent /\ f[p].index = h0[p].index
                         /\ f[p].children = h0[p].children
       /\ \A p \in Roots(g) : p # c => d[p].kind = g[p].kind /\ d[p].length = g[p].length
  BY <1>9, <1>11 DEF Opens
<1>14. ASSUME NEW k \in 1..(m - 1)
       PROVE  /\ CallFits(f, d, calls[k]) /\ calls[k].node # n /\ calls[k].node # c
              /\ \A r : OwedBy(h, calls[k], r) => OwedBy(f, calls[k], r)
  <2> DEFINE e == calls[k]
             q == e.node
  <2>1. k \in 1..m /\ k # m
    BY <1>1
  <2>2. CallFits(h, g, e) /\ q # n
    BY <1>0, <1>1, <2>1 DEF CallsFit
  <2> HIDE DEF e
  <2>3. q \in Roots(g) /\ q \in Ptr /\ h[q].parent = None /\ q # c
    BY <1>4, <1>5, <2>2 DEF CallFits, Roots, Allocated
  <2>4. h0[q] = h[q]
    BY <1>7, <2>2, <2>3
  <2>5. f[q].parent = None /\ f[q].children = h[q].children
    BY <1>13, <2>3, <2>4
  <2>6. d[q].kind = g[q].kind /\ d[q].length = g[q].length
    BY <1>13, <2>3
  <2>7. ASSUME NEW j \in Position, e.at <= j, j < e.length
        PROVE  LET x == f[q].children[j]
               IN  x \in Roots(d) /\ f[x].parent = q /\ f[x].index = j
    <3> DEFINE x == h[q].children[j]
    <3>1. x \in Roots(g) /\ h[x].parent = q /\ h[x].index = j
      BY <2>2, <2>7 DEF CallFits
    <3>2. x \in Ptr /\ x # n /\ x # c /\ q # None
      BY <1>4, <1>5, <1>6, <2>2, <2>3, <3>1 DEF Roots, Allocated
    <3>3. h0[x] = h[x]
      BY <1>7, <3>2, SMTT(30)
    <3> QED
      BY <1>13, <2>5, <3>1, <3>2, <3>3
  <2>8. CallFits(f, d, e)
    BY <1>13, <2>2, <2>3, <2>5, <2>6, <2>7 DEF CallFits, IsLeaf, IsInternal
  <2>9. \A r : OwedBy(h, e, r) => OwedBy(f, e, r)
    BY <2>5 DEF OwedBy
  <2> QED
    BY <2>2, <2>3, <2>8, <2>9 DEF e
<1>15. /\ CallFits(f, d, a)
       /\ \A r : OwedBy(h, call, r) => OwedBy(f, a, r) \/ r = c
  <2>1. f[n].parent = None /\ n \in Roots(d)
    BY <1>3, <1>6, <1>7, <1>13
  <2>2. \A j \in Position : j # i => f[n].children[j] = h[n].children[j]
    BY <1>3, <1>7, <1>13
  <2>3. d[n].kind = g[n].kind /\ d[n].length = g[n].length
    BY <1>5, <1>6, <1>13
  <2>4. ASSUME NEW j \in Position, i + 1 <= j, j < call.length
        PROVE  LET x == f[n].children[j]
               IN  x \in Roots(d) /\ f[x].parent = n /\ f[x].index = j
    <3> DEFINE x == h[n].children[j]
    <3>0. i <= j /\ j # i
      BY <1>3, <2>4
    <3>1. x \in Roots(g) /\ h[x].parent = n /\ h[x].index = j
      BY <1>2, <2>4, <3>0 DEF CallFits
    <3>2. x \in Ptr /\ x # n /\ x # c
      BY <1>4, <1>5, <1>6, <3>0, <3>1 DEF Roots, Allocated
    <3>3. h0[x] = h[x]
      BY <1>7, <3>2
    <3> QED
      BY <1>13, <2>2, <3>0, <3>1, <3>2, <3>3
  <2>5. i + 1 <= call.length /\ ~ IsLeaf(d, n) /\ d[n].length = 0
    BY <1>3, <1>6, <2>3 DEF IsLeaf, IsInternal
  <2>6. CallFits(f, d, a)
    BY <1>3, <1>11, <2>1, <2>4, <2>5 DEF CallFits
  <2>7. ASSUME NEW r, OwedBy(h, call, r), r # c PROVE OwedBy(f, a, r)
    <3>1. CASE r = n
      BY <1>11, <3>1 DEF OwedBy
    <3>2. CASE r # n
      <4>0. r = n \/ \E j \in Position : i <= j /\ j < call.length /\ r = h[n].children[j]
        BY <2>7, Zenon DEF OwedBy
      <4>1. PICK j \in Position : i <= j /\ j < call.length /\ r = h[n].children[j]
        BY <3>2, <4>0, Zenon
      <4>2. j # i
        <5>1. c = h[n].children[i]
          BY DEF AtChild
        <5> QED
          BY <2>7, <4>1, <5>1, Zenon
      <4>3. i + 1 <= j /\ r = f[n].children[j]
        BY <1>3, <2>2, <4>1, <4>2
      <4> QED
        BY <1>11, <4>1, <4>3 DEF OwedBy
    <3> QED
      BY <3>1, <3>2
  <2> QED
    BY <2>6, <2>7
<1>16. CallsFit(f, d, calls1)
  <2>1. \A k \in 1..(m + 1) : k \in 1..(m - 1) \/ k = m \/ k = m + 1
    BY <1>1
  <2>2. \A k \in 1..(m + 1) : CallFits(f, d, calls1[k])
    BY <1>12, <1>13, <1>14, <1>15, <2>1
  <2>3. ASSUME NEW j \in 1..(m - 1), NEW k \in 1..(m - 1), calls[j].node = calls[k].node
        PROVE  j = k
    <3>1. j \in 1..m /\ k \in 1..m
      BY <1>1
    <3> QED
      BY <1>0, <1>1, <2>3, <3>1 DEF CallsFit
  <2>4. ASSUME NEW j \in 1..(m + 1), NEW k \in 1..(m + 1), calls1[j].node = calls1[k].node
        PROVE  j = k
    BY <1>5, <1>11, <1>12, <1>14, <2>1, <2>3, <2>4
  <2> QED
    BY <1>12, <2>2, <2>4 DEF CallsFit
<1>17. ASSUME AllOwed(h, g, calls) PROVE AllOwed(f, d, calls1)
  <2> SUFFICES ASSUME NEW r \in Roots(d)
               PROVE  \E k \in 1..(m + 1) : OwedBy(f, calls1[k], r)
    BY <1>12 DEF AllOwed
  <2>1. m \in 1..(m + 1) /\ m + 1 \in 1..(m + 1) /\ \A k \in 1..(m - 1) : k \in 1..(m + 1)
    BY <1>1
  <2>2. CASE OwedBy(f, b, r)
    BY <1>12, <2>1, <2>2
  <2>3. CASE r \in Roots(g)
    <3>1. PICK k \in 1..m : OwedBy(h, calls[k], r)
      BY <1>1, <1>17, <2>3 DEF AllOwed
    <3>2. CASE k = m
      <4>1. OwedBy(f, a, r) \/ r = c
        BY <1>1, <1>15, <3>1, <3>2
      <4>2. OwedBy(f, b, c)
        BY <1>11 DEF OwedBy
      <4> QED
        BY <1>12, <2>1, <4>1, <4>2
    <3>3. CASE k # m
      <4>1. k \in 1..(m - 1)
        BY <1>1, <3>3
      <4> QED
        BY <1>12, <1>14, <2>1, <3>1, <4>1
    <3> QED
      BY <3>2, <3>3
  <2> QED
    BY <1>13, <2>2, <2>3
<1>18. Destroys(f, d, lev, bound, calls1)
  BY <1>13, <1>16 DEF Destroys
<1>19. GoesOn(h, g, calls, f, lev, bound, calls1)
  BY <1>17, <1>18 DEF GoesOn
<1> QED
  BY <1>19 DEF f

\* So the calls go on when the last one destroys its next child.
LEMMA ChildFits ==
  ASSUME NEW h, NEW g, NEW lev, NEW bound,
         NEW calls, CallStack(calls),
         Destroys(h, g, lev, bound, calls),
         NEW call, call = Last(calls), call.at < call.length,
         NEW c, c = h[call.node].children[call.at],
         NEW h0, Loosens(h, h0, call.node, call.at, c)
  PROVE  /\ c \in Ptr
         /\ GoesOn(h, g, calls, TakeLength(h0, c), lev, bound,
                   Front(calls) \o <<[call EXCEPT !.at = @ + 1], Frame(h, c)>>)
<1> DEFINE m == Len(calls)
           a == [call EXCEPT !.at = @ + 1]
           b == Frame(h0, c)
           calls1 == Front(calls) \o <<a, b>>
<1>1. AtChild(h, g, calls, m, call, c) /\ call \in Call
  <2>1. LastCall(calls, m, call) /\ call \in Call
    BY LastCallType, SMTT(30)
  <2> HIDE DEF m
  <2> QED
    BY <2>1, ChildFound
<1>2. /\ call.at \in Nat /\ call.node \in Ptr /\ call.length \in 0..B
      /\ c \in Ptr /\ c # call.node /\ call.at \in Position
  <2> HIDE DEF m
  <2> QED
    BY <1>1, SMTT(30) DEF AtChild, LastCall
<1>3. h0 \in Heap /\ h0[c].kind = h[c].kind /\ h0[c].length = h[c].length
  BY <1>2 DEF Loosens
<1>4. Frame(h, c) = b
  <2>2. PICK old, new : /\ old = IF IsInternal(h, c) THEN h[c].length ELSE 0
                        /\ new = IF IsInternal(h0, c) THEN h0[c].length ELSE 0
    BY SMTT(30)
  <2>3. old = new
    BY <1>3, <2>2 DEF IsInternal
  <2>4. Frame(h, c) = [node |-> c, at |-> 0, length |-> old]
        /\ b = [node |-> c, at |-> 0, length |-> new]
    BY <2>2, Zenon DEF Frame, b
  <2> HIDE DEF b
  <2> QED
    BY <2>3, <2>4, SMTT(30)
<1>5. Descends(h0, call, c, a, b) /\ a \in Call /\ b \in Call
  <2>1. /\ a \in Call /\ a.node = call.node /\ a.at = call.at + 1
        /\ a.length = call.length
    BY <1>1, <1>2, SMTT(30) DEF Call
  <2>2. h0[c].length \in 0..B /\ 0 \in 0..B /\ 0 \in Nat
    BY <1>2, <1>3, FieldTypes, SMTT(30)
  <2>3. b \in Call /\ b.node = c
    BY <1>2, <2>2 DEF Frame, Call
  <2> HIDE DEF a
  <2> QED
    BY <2>1, <2>3 DEF Descends
<1>6. TwoForLast(calls, m, a, b, calls1)
  <2> HIDE DEF a, b
  <2> QED
    BY <1>5, CallsPush
<1> HIDE DEF a, b, m, calls1
<1>7. GoesOn(h, g, calls, TakeLength(h0, c), lev, bound, calls1)
  BY <1>1, <1>5, <1>6, ChildTaken
<1>8. calls1 = Front(calls) \o <<[call EXCEPT !.at = @ + 1], Frame(h, c)>>
  BY <1>4, Zenon DEF calls1, a
<1>9. c \in Ptr
  BY <1>2
<1> QED
  BY <1>7, <1>8, <1>9, Zenon

\* A tree agrees with itself.
LEMMA AgreeSelf ==
  ASSUME NEW h \in Heap
  PROVE  Agree(h, h)
BY DEF Agree

\* The drop of a tree begins with one call, which owes all of it.
LEMMA RootFits ==
  ASSUME NEW h, NEW lev, NEW bound, Bounded(h, lev, bound),
         NEW n, Roots(h) = {n}
  PROVE  \E d : /\ Destroys(TakeLength(h, n), d, lev, bound, <<Frame(h, n)>>)
                /\ AllOwed(TakeLength(h, n), d, <<Frame(h, n)>>)
<1> DEFINE f == TakeLength(h, n)
           d == Given(h, n)
           call == Frame(h, n)
           calls == <<call>>
<1>1. Agree(h, h) /\ n \in Roots(h) /\ h[n].parent = None
  BY AgreeSelf DEF Bounded, Roots
<1>2. Opens(h, h, n, f, d, lev, bound)
  BY <1>1, CallOpens
<1>3. call.node = n
  BY DEF Frame
<1> HIDE DEF call
<1>4. Len(calls) = 1 /\ calls[1] = call
  OBVIOUS
<1> HIDE DEF f, d, calls
<1>5. /\ Bounded(d, lev, bound) /\ Agree(f, d) /\ CallFits(f, d, call)
      /\ \A r \in Roots(d) : r \in Roots(h) \/ OwedBy(f, call, r)
  BY <1>2 DEF Opens, call
<1>6. \A k \in 1..1 : k = 1
  OBVIOUS
<1>7. CallsFit(f, d, calls)
  BY <1>4, <1>5, <1>6 DEF CallsFit
<1>8. AllOwed(f, d, calls)
  <2>1. \A r \in Roots(d) : OwedBy(f, call, r)
    BY <1>3, <1>5 DEF OwedBy
  <2>2. 1 \in 1..1
    OBVIOUS
  <2> QED
    BY <1>4, <2>1, <2>2 DEF AllOwed
<1> QED
  BY <1>5, <1>7, <1>8 DEF Destroys, f, calls, call

\* The last call has no child left and frees its node.
LEMMA NodeFits ==
  ASSUME NEW h, NEW g, NEW lev, NEW bound,
         NEW calls, CallStack(calls),
         Destroys(h, g, lev, bound, calls),
         NEW call, call = Last(calls), call.at = call.length
  PROVE  GoesOn(h, g, calls, Dealloc(h, call.node), lev, bound, Front(calls))
<1> DEFINE m == Len(calls)
           n == call.node
           f == Dealloc(h, n)
           d == Dealloc(g, n)
           calls1 == Front(calls)
<1>0. Bounded(g, lev, bound) /\ Agree(h, g) /\ CallsFit(h, g, calls)
      /\ g \in Heap /\ h \in Heap
  BY DEF Destroys, Bounded, Agree
<1>1. m \in Nat /\ m >= 1 /\ call = calls[m] /\ m \in 1..m
  BY LastCallType DEF LastCall
<1> HIDE DEF m
<1>2. CallFits(h, g, call)
  BY <1>0, <1>1 DEF CallsFit, m
<1>3. n \in Roots(g) /\ n \in Ptr /\ (IsInternal(g, n) => g[n].length = 0)
  BY <1>2 DEF CallFits, Roots, Allocated
<1>4. Bounded(d, lev, bound) /\ Roots(d) = Roots(g) \ {n}
  BY <1>0, <1>3, FreedTree
<1>5. /\ f[n] = NewNode("free") /\ d[n] = NewNode("free") /\ f \in Heap
      /\ \A p \in Ptr : p # n => f[p] = h[p] /\ d[p] = g[p]
  <2>1. NewNode("free") \in Node
    BY NewNodeType
  <2> QED
    BY <1>0, <1>3, <2>1 DEF Dealloc, Heap
<1>6. Len(calls1) = m - 1 /\ \A k \in 1..(m - 1) : calls1[k] = calls[k]
  BY CallsPop DEF m
<1> HIDE DEF f, d, calls1
<1>7. Agree(f, d)
  <2>1. NewNode("free").parent = None
    BY DEF NewNode
  <2> QED
    BY <1>0, <1>5, <2>1 DEF Agree
<1>8. ASSUME NEW k \in 1..(m - 1)
      PROVE  /\ CallFits(f, d, calls[k])
             /\ \A r : OwedBy(h, calls[k], r) => OwedBy(f, calls[k], r)
  <2> DEFINE e == calls[k]
             q == e.node
  <2>1. k \in 1..m /\ k # m
    BY <1>1
  <2>2. CallFits(h, g, e) /\ q # n
    BY <1>0, <1>1, <2>1 DEF CallsFit, m
  <2> HIDE DEF e
  <2>3. q \in Roots(g) /\ q \in Ptr /\ h[q].parent = None
    BY <2>2 DEF CallFits, Roots, Allocated
  <2>4. f[q] = h[q] /\ d[q] = g[q] /\ q \in Roots(d)
    BY <1>4, <1>5, <2>2, <2>3
  <2>5. ASSUME NEW j \in Position, e.at <= j, j < e.length
        PROVE  LET x == f[q].children[j]
               IN  x \in Roots(d) /\ f[x].parent = q /\ f[x].index = j
    <3> DEFINE x == h[q].children[j]
    <3>1. x \in Roots(g) /\ h[x].parent = q /\ h[x].index = j
      BY <2>2, <2>5 DEF CallFits
    <3>2. x \in Ptr /\ x # n
      BY <1>2, <2>3, <3>1 DEF CallFits, Roots, Allocated
    <3> QED
      BY <1>4, <1>5, <2>4, <3>1, <3>2
  <2>6. CallFits(f, d, e)
    BY <2>2, <2>4, <2>5 DEF CallFits, IsLeaf, IsInternal
  <2>7. \A r : OwedBy(h, e, r) => OwedBy(f, e, r)
    BY <2>4 DEF OwedBy
  <2> QED
    BY <2>6, <2>7 DEF e
<1>9. CallsFit(f, d, calls1)
  <2>1. ASSUME NEW j \in 1..(m - 1), NEW k \in 1..(m - 1), calls[j].node = calls[k].node
        PROVE  j = k
    <3>1. j \in 1..m /\ k \in 1..m
      BY <1>1
    <3> QED
      BY <1>0, <2>1, <3>1 DEF CallsFit, m
  <2> QED
    BY <1>6, <1>8, <2>1 DEF CallsFit
<1>10. ASSUME AllOwed(h, g, calls) PROVE AllOwed(f, d, calls1)
  <2> SUFFICES ASSUME NEW r \in Roots(d)
               PROVE  \E k \in 1..(m - 1) : OwedBy(f, calls1[k], r)
    BY <1>6 DEF AllOwed
  <2>1. r \in Roots(g) /\ r # n
    BY <1>4
  <2>2. PICK k \in 1..m : OwedBy(h, calls[k], r)
    BY <1>10, <2>1 DEF AllOwed, m
  <2>3. k # m
    <3>1. ASSUME NEW i \in Position PROVE ~ (call.at <= i /\ i < call.length)
      <4>1. call.at \in Nat
        BY <1>2 DEF CallFits
      <4> QED
        BY <4>1
    <3>2. ~ OwedBy(h, call, r)
      BY <2>1, <3>1 DEF OwedBy
    <3> QED
      BY <1>1, <2>2, <3>2
  <2>4. k \in 1..(m - 1)
    BY <1>1, <2>3
  <2> QED
    BY <1>6, <1>8, <2>2, <2>4
<1>11. Destroys(f, d, lev, bound, calls1)
  BY <1>4, <1>7, <1>9 DEF Destroys
<1>12. GoesOn(h, g, calls, f, lev, bound, calls1)
  BY <1>10, <1>11 DEF GoesOn
<1> QED
  BY <1>12 DEF f, calls1

-----------------------------------------------------------------------------
(***************************************************************************)
(* What the calls have yet to free.                                        *)
(***************************************************************************)

\* The node of a call and the children it has yet to destroy.
Owes(h, call) ==
  <<call.node>> \o [i \in 1..(call.length - call.at) |->
                      h[call.node].children[call.at + i - 1]]

\* No node twice.
LEMMA OwesOnce ==
  ASSUME NEW h, NEW g, NEW call, CallFits(h, g, call)
  PROVE  /\ Owes(h, call) \in Seq(Ptr) /\ IsInjective(Owes(h, call))
         /\ \A r : r \in ToSet(Owes(h, call)) <=> OwedBy(h, call, r)
         /\ ToSet(Owes(h, call)) \subseteq Roots(g)
<1> DEFINE n == call.node
           at == call.at
           m == call.length - call.at
           kids == [i \in 1..m |-> h[n].children[at + i - 1]]
<1>0. /\ n \in Roots(g) /\ h[n].parent = None
      /\ at \in Nat /\ call.length \in 0..B /\ at <= call.length
  BY DEF CallFits
<1>1. m \in Nat /\ at + m = call.length
  BY <1>0
<1>2. n \in Ptr /\ n # None
  BY <1>0 DEF Roots, Allocated
<1>3. ASSUME NEW i \in 1..m
      PROVE  /\ kids[i] = h[n].children[at + i - 1] /\ at + i - 1 \in Position
             /\ at <= at + i - 1 /\ at + i - 1 < call.length
             /\ kids[i] \in Roots(g) /\ kids[i] \in Ptr
             /\ h[kids[i]].parent = n /\ h[kids[i]].index = at + i - 1
  <2>1. kids[i] = h[n].children[at + i - 1]
    OBVIOUS
  <2>2. at + i - 1 \in Position /\ at <= at + i - 1 /\ at + i - 1 < call.length
    BY <1>0, <1>1
  <2> HIDE DEF kids
  <2>3. LET c == h[n].children[at + i - 1]
        IN  c \in Roots(g) /\ h[c].parent = n /\ h[c].index = at + i - 1
    BY <2>2 DEF CallFits
  <2>4. kids[i] \in Ptr
    BY <2>1, <2>3 DEF Roots, Allocated
  <2> QED
    BY <2>1, <2>2, <2>3, <2>4
<1>4. kids \in Seq(Ptr) /\ Len(kids) = m /\ DOMAIN kids = 1..m
  <2>1. \A i \in 1..m : kids[i] \in Ptr
    BY <1>3
  <2> QED
    BY <1>1, <2>1
<1>5. Owes(h, call) = <<n>> \o kids
  BY DEF Owes
<1>6. <<n>> \in Seq(Ptr) /\ Len(<<n>>) = 1 /\ <<n>>[1] = n /\ DOMAIN <<n>> = {1}
  BY <1>2
<1> DEFINE one == <<n>>
<1>7. one \in Seq(Ptr) /\ IsInjective(one) /\ ToSet(one) = {n}
  BY <1>6 DEF IsInjective, ToSet
<1>8. IsInjective(kids)
  <2>1. ASSUME NEW i \in 1..m, NEW j \in 1..m, kids[i] = kids[j] PROVE i = j
    <3>1. at + i - 1 = at + j - 1
      BY <1>3, <2>1
    <3> QED
      BY <1>0, <3>1
  <2> QED
    BY <1>4, <2>1 DEF IsInjective
<1>9. \A r : r \in ToSet(kids) <=>
        \E i \in Position : at <= i /\ i < call.length /\ r = h[n].children[i]
  <2> TAKE r
  <2>1. ASSUME NEW i \in Position, at <= i, i < call.length, r = h[n].children[i]
        PROVE  r \in ToSet(kids)
    <3>1. i - at + 1 \in 1..m /\ at + (i - at + 1) - 1 = i
      BY <1>0, <1>1, <2>1
    <3>2. kids[i - at + 1] = r
      BY <1>3, <2>1, <3>1
    <3> QED
      BY <1>4, <3>1, <3>2 DEF ToSet
  <2>2. ASSUME r \in ToSet(kids)
        PROVE  \E i \in Position : at <= i /\ i < call.length /\ r = h[n].children[i]
    <3>1. PICK i \in 1..m : r = kids[i]
      BY <1>4, <2>2, SMTT(30) DEF ToSet
    <3> QED
      BY <1>3, <3>1
  <2> QED
    BY <2>1, <2>2
<1>10. \A r \in ToSet(kids) : r \in Roots(g) /\ r # n
  <2> TAKE r \in ToSet(kids)
  <2>1. PICK i \in 1..m : r = kids[i]
    BY <1>4 DEF ToSet
  <2> QED
    BY <1>0, <1>2, <1>3, <2>1
<1> HIDE DEF kids, one, n, at
<1>11. /\ one \o kids \in Seq(Ptr) /\ ToSet(one \o kids) = {n} \cup ToSet(kids)
       /\ IsInjective(one \o kids)
  <2>1. ToSet(one) \cap ToSet(kids) = {}
    BY <1>7, <1>10
  <2> QED
    BY <1>4, <1>7, <1>8, <2>1, ConcatToSet, ConcatInjective, ConcatProperties
<1>12. Owes(h, call) = one \o kids
  BY <1>5 DEF one
<1>13. \A r : OwedBy(h, call, r) <=> r = n \/ r \in ToSet(kids)
  BY <1>9 DEF OwedBy, n, at
<1> QED
  BY <1>0, <1>10, <1>11, <1>12, <1>13

\* rest[k] is what the first k calls owe, from the k-th on down.
RestsOn(rest, h, calls) ==
  /\ rest \in [0..Len(calls) -> Seq(Ptr)] /\ rest[0] = <<>>
  /\ \A k \in 1..Len(calls) : rest[k] = Owes(h, calls[k]) \o rest[k - 1]

\* What Unfreed's function is.
IsRest(rest, h, calls) ==
  rest = [k \in 0..Len(calls) |->
            IF k = 0 THEN <<>>
            ELSE <<calls[k].node>>
                 \o [i \in 1..(calls[k].length - calls[k].at) |->
                       h[calls[k].node].children[calls[k].at + i - 1]]
                 \o rest[k - 1]]

\* Such a function exists, and Unfreed is its value for all calls.
LEMMA UnfreedRests ==
  ASSUME NEW h, NEW g, NEW calls, Len(calls) \in Nat, CallsFit(h, g, calls)
  PROVE  \E rest : RestsOn(rest, h, calls) /\ Unfreed(h, calls) = rest[Len(calls)]
<1> DEFINE m == Len(calls)
           V == Seq(Ptr)
           S == 0..m
           stops == {0}
           next == [k \in S |-> IF k = 0 THEN 0 ELSE k - 1]
           rank == [k \in S |-> k]
           base == [k \in S |-> <<>>]
           g1 == [k \in S |-> [v \in V |-> IF k = 0 THEN v ELSE Owes(h, calls[k]) \o v]]
           C == CHOOSE rest : IsRest(rest, h, calls)
<1>1. \A k \in 1..m : Owes(h, calls[k]) \in V
  BY OwesOnce DEF CallsFit
<1> HIDE DEF m
<1>2. <<>> \in V /\ \A v, w \in V : v \o w \in V
  BY EmptySeq
<1> HIDE DEF V
<1>3. IsChain(S, stops, next, rank, m)
  <2>1. m \in Nat /\ \A k \in S : k = 0 \/ (k - 1 \in S /\ k - 1 < k /\ k # 0)
    BY DEF m
  <2>2. rank \in [S -> 0..m] /\ next \in [S -> S]
    BY <2>1
  <2>3. \A k \in S : k \in stops \/ rank[next[k]] < rank[k]
    BY <2>1
  <2> QED
    BY <2>1, <2>2, <2>3 DEF IsChain
<1>4. base \in [S -> V] /\ g1 \in [S -> [V -> V]]
  <2>1. \A k \in S : k = 0 \/ k \in 1..m
    BY DEF m
  <2>2. \A k \in S, v \in V : (IF k = 0 THEN v ELSE Owes(h, calls[k]) \o v) \in V
    BY <1>1, <1>2, <2>1
  <2> QED
    BY <1>2, <2>2
<1>5. PICK f \in [S -> V] : Follows(f, S, stops, next, base, g1)
  <2> HIDE DEF S, stops, next, rank, base, g1
  <2> QED
    BY <1>3, <1>4, ChainFunction
<1>6. \A k \in S : f[k] = IF k = 0 THEN <<>> ELSE Owes(h, calls[k]) \o f[k - 1]
  <2> TAKE k \in S
  <2>1. f[k] = IF k \in stops THEN base[k] ELSE g1[k][f[next[k]]]
    BY <1>5 DEF Follows
  <2>2. CASE k = 0
    BY <2>1, <2>2
  <2>3. CASE k # 0
    <3>1. k - 1 \in S /\ next[k] = k - 1
      BY <2>3 DEF m
    <3>2. f[k - 1] \in V
      BY <1>5, <3>1
    <3>3. g1[k][f[k - 1]] = Owes(h, calls[k]) \o f[k - 1]
      BY <2>3, <3>2
    <3> QED
      BY <2>1, <2>3, <3>1, <3>3
  <2> QED
    BY <2>2, <2>3
<1>7. \A rest : IsRest(rest, h, calls) <=>
        rest = [k \in 0..m |-> IF k = 0 THEN <<>> ELSE Owes(h, calls[k]) \o rest[k - 1]]
  BY Zenon DEF IsRest, Owes, m
<1>8. IsRest(f, h, calls)
  <2>1. f = [k \in S |-> f[k]]
    BY <1>5
  <2>2. f = [k \in S |-> IF k = 0 THEN <<>> ELSE Owes(h, calls[k]) \o f[k - 1]]
    BY <1>6, <2>1
  <2> QED
    BY <1>7, <2>2
<1>9. IsRest(C, h, calls)
  BY <1>8, Zenon
<1>10. Unfreed(h, calls) = C[m]
  BY Zenon DEF Unfreed, C, IsRest, m
<1> HIDE DEF C
<1>11. C = [k \in 0..m |-> IF k = 0 THEN <<>> ELSE Owes(h, calls[k]) \o C[k - 1]]
  BY <1>7, <1>9
<1>12. C[0] = <<>> /\ \A k \in 1..m : C[k] = Owes(h, calls[k]) \o C[k - 1]
  <2>1. 0 \in 0..m /\ \A k \in 1..m : k \in 0..m /\ k # 0
    BY DEF m
  <2> QED
    BY <1>11, <2>1
<1>13. \A k \in 0..m : C[k] \in V
  <2> DEFINE P == {k \in 0..m : C[k] \in V}
  <2>1. m \in Nat /\ 0 \in P
    BY <1>2, <1>12 DEF m
  <2>2. \A k \in 1..m : k - 1 \in P => k \in P
    <3> SUFFICES ASSUME NEW k \in 1..m, k - 1 \in P
                 PROVE  k \in P
      OBVIOUS
    <3>1. k \in 0..m
      BY DEF m
    <3>2. C[k - 1] \in V
      OBVIOUS
    <3>3. Owes(h, calls[k]) \in V
      BY <1>1
    <3>4. Owes(h, calls[k]) \o C[k - 1] \in V
      BY <1>2, <3>2, <3>3
    <3>5. C[k] = Owes(h, calls[k]) \o C[k - 1]
      BY <1>12
    <3> QED
      BY <3>1, <3>4, <3>5
  <2> HIDE DEF P
  <2>3. \A k \in 0..m : k \in P
    BY <2>1, <2>2, Upwards
  <2> QED
    BY <2>3 DEF P
<1>14. C \in [0..m -> V]
  BY <1>11, <1>13
<1>15. RestsOn(C, h, calls)
  BY <1>12, <1>14 DEF RestsOn, m, V
<1> QED
  BY <1>10, <1>15 DEF m

\* Two calls owe no node both.
LEMMA OwedApart ==
  ASSUME NEW h, NEW g, NEW a, NEW b, CallFits(h, g, a), CallFits(h, g, b),
         a.node # b.node, NEW x, OwedBy(h, a, x)
  PROVE  ~ OwedBy(h, b, x)
<1>1. /\ h[a.node].parent = None /\ h[b.node].parent = None
      /\ a.node # None /\ b.node # None
  BY DEF CallFits, Roots, Allocated
<1>2. \A i \in Position : a.at <= i /\ i < a.length => h[h[a.node].children[i]].parent = a.node
  BY DEF CallFits
<1>3. \A i \in Position : b.at <= i /\ i < b.length => h[h[b.node].children[i]].parent = b.node
  BY DEF CallFits
<1>4. x = a.node \/ h[x].parent = a.node
  BY <1>2 DEF OwedBy
<1>5. ASSUME OwedBy(h, b, x) PROVE x = b.node \/ h[x].parent = b.node
  BY <1>3, <1>5 DEF OwedBy
<1> QED
  BY <1>1, <1>4, <1>5

\* The calls have roots to free, none of them twice, and all if they owe all.
LEMMA UnfreedOnce ==
  ASSUME NEW h, NEW g, NEW calls, Len(calls) \in Nat, CallsFit(h, g, calls)
  PROVE  /\ Unfreed(h, calls) \in Seq(Ptr) /\ IsInjective(Unfreed(h, calls))
         /\ ToSet(Unfreed(h, calls)) \subseteq Roots(g)
         /\ AllOwed(h, g, calls) => Roots(g) \subseteq ToSet(Unfreed(h, calls))
<1> DEFINE m == Len(calls)
<1>1. PICK rest : RestsOn(rest, h, calls) /\ Unfreed(h, calls) = rest[m]
  BY UnfreedRests
<1>2. m \in Nat /\ m \in 0..m
  OBVIOUS
<1>3. /\ \A k \in 0..m : rest[k] \in Seq(Ptr)
      /\ rest[0] = <<>>
      /\ \A k \in 1..m : rest[k] = Owes(h, calls[k]) \o rest[k - 1]
  BY <1>1 DEF RestsOn
<1>4. \A k \in 1..m : CallFits(h, g, calls[k])
  BY DEF CallsFit
<1>5. \A j, k \in 1..m : calls[j].node = calls[k].node => j = k
  BY DEF CallsFit
<1> HIDE DEF m
<1> DEFINE P == {k \in 0..m : /\ IsInjective(rest[k])
                              /\ \A x : x \in ToSet(rest[k])
                                          <=> \E j \in 1..k : OwedBy(h, calls[j], x)}
<1>6. 0 \in P
  <2>1. rest[0] = <<>> /\ DOMAIN <<>> = {} /\ 1..0 = {} /\ 0 \in 0..m
    BY <1>2, <1>3
  <2> QED
    BY <2>1 DEF IsInjective, ToSet
<1>7. ASSUME NEW k \in 1..m, k - 1 \in P PROVE k \in P
  <2> DEFINE own == Owes(h, calls[k])
  <2>1. /\ own \in Seq(Ptr) /\ IsInjective(own)
        /\ \A x : x \in ToSet(own) <=> OwedBy(h, calls[k], x)
    BY <1>4, OwesOnce
  <2>2. k \in 0..m /\ k - 1 \in 0..m /\ k \in 1..k
        /\ \A j : j \in 1..k <=> j \in 1..(k - 1) \/ j = k
    BY <1>2
  <2>3. rest[k - 1] \in Seq(Ptr) /\ rest[k] = own \o rest[k - 1]
    BY <1>3, <2>2
  <2>4. /\ IsInjective(rest[k - 1])
        /\ \A x : x \in ToSet(rest[k - 1]) <=> \E j \in 1..(k - 1) : OwedBy(h, calls[j], x)
    BY <1>7
  <2> HIDE DEF own, P
  <2>5. ASSUME NEW x, x \in ToSet(own) PROVE x \notin ToSet(rest[k - 1])
    <3>1. OwedBy(h, calls[k], x)
      BY <2>1, <2>5
    <3>2. ASSUME NEW j \in 1..(k - 1) PROVE ~ OwedBy(h, calls[j], x)
      <4>1. j \in 1..m /\ j # k
        BY <1>2
      <4>2. calls[k].node # calls[j].node
        BY <1>5, <4>1
      <4> QED
        BY <1>4, <3>1, <4>1, <4>2, OwedApart
    <3> QED
      BY <2>4, <3>2
  <2>6. ToSet(own) \cap ToSet(rest[k - 1]) = {}
    BY <2>5
  <2>7. IsInjective(own \o rest[k - 1])
    BY <2>1, <2>3, <2>4, <2>6, ConcatInjective
  <2>8. ToSet(own \o rest[k - 1]) = ToSet(own) \cup ToSet(rest[k - 1])
    BY <2>1, <2>3, ConcatToSet
  <2>9. \A x : x \in ToSet(rest[k]) <=> \E j \in 1..k : OwedBy(h, calls[j], x)
    BY <2>1, <2>2, <2>3, <2>4, <2>8
  <2> QED
    BY <2>2, <2>3, <2>7, <2>9 DEF P
<1> HIDE DEF P
<1>8. \A k \in 0..m : k \in P
  BY <1>2, <1>6, <1>7, Upwards
<1>9. /\ IsInjective(rest[m])
      /\ \A x : x \in ToSet(rest[m]) <=> \E j \in 1..m : OwedBy(h, calls[j], x)
  BY <1>2, <1>8 DEF P
<1>10. \A j \in 1..m : \A x : OwedBy(h, calls[j], x) => x \in Roots(g)
  BY <1>4, OwesOnce
<1>11. rest[m] \in Seq(Ptr)
  BY <1>2, <1>3
<1>12. AllOwed(h, g, calls) => \A r \in Roots(g) : \E j \in 1..m : OwedBy(h, calls[j], r)
  BY DEF AllOwed, m
<1> QED
  BY <1>1, <1>9, <1>10, <1>11, <1>12

-----------------------------------------------------------------------------
(***************************************************************************)
(* The nodes of the trees they are the roots of.                           *)
(***************************************************************************)

\* The walks at a sequence of roots, one after the other.
Walks(f, roots) == [k \in 1..Len(roots) |-> f[roots[k]]]

\* A forest is their concatenation.
LEMMA ForestJoins ==
  ASSUME NEW f \in [Ptr -> Seq(Ptr)], NEW roots \in Seq(Ptr)
  PROVE  /\ Walks(f, roots) \in [1..Len(roots) -> Seq(Ptr)]
         /\ \E part : /\ Appends(Ptr, part, Len(roots), <<>>, Walks(f, roots))
                      /\ Forest(f, roots) = part[Len(roots)]
<1> DEFINE m == Len(roots)
           seqs == Walks(f, roots)
           C == CHOOSE forest : IsForest(f, roots, forest)
<1>1. m \in Nat /\ \A k \in 1..m : roots[k] \in Ptr
  BY LenProperties
<1>2. seqs = [k \in 1..m |-> f[roots[k]]]
  BY DEF Walks
<1>3. Forest(f, roots) = C[m]
  BY Zenon DEF Forest, C, m
<1>4. \A c : IsForest(f, roots, c) <=>
              c = [k \in 0..m |-> IF k = 0 THEN <<>> ELSE c[k - 1] \o f[roots[k]]]
  BY Zenon DEF IsForest, m
<1> HIDE DEF m, seqs
<1>5. seqs \in [1..m -> Seq(Ptr)] /\ <<>> \in Seq(Ptr)
  BY <1>1, <1>2, EmptySeq
<1>6. \A c : IsForest(f, roots, c) <=> JoinedBy(c, m, <<>>, seqs)
  <2> TAKE c
  <2>1. \A k \in 0..m : k # 0 => seqs[k] = f[roots[k]]
    BY <1>1, <1>2
  <2>2. [k \in 0..m |-> IF k = 0 THEN <<>> ELSE c[k - 1] \o seqs[k]]
        = [k \in 0..m |-> IF k = 0 THEN <<>> ELSE c[k - 1] \o f[roots[k]]]
    BY <2>1
  <2> QED
    BY <1>4, <2>2, Zenon DEF JoinedBy
<1>7. PICK part : Appends(Ptr, part, m, <<>>, seqs)
  BY <1>1, <1>5, AppendsExist
<1>8. IsForest(f, roots, part)
  BY <1>1, <1>5, <1>6, <1>7, AppendsOf
<1>9. IsForest(f, roots, C)
  BY <1>8, Zenon DEF C
<1>10. Appends(Ptr, C, m, <<>>, seqs)
  BY <1>1, <1>5, <1>6, <1>9, AppendsOf
<1> HIDE DEF C
<1> QED
  BY <1>3, <1>5, <1>10 DEF m, seqs

\* No roots, no nodes.
LEMMA ForestEmpty ==
  ASSUME NEW f \in [Ptr -> Seq(Ptr)]
  PROVE  Forest(f, <<>>) = <<>>
<1>1. <<>> \in Seq(Ptr) /\ Len(<<>>) = 0
  OBVIOUS
<1>2. PICK part : /\ Appends(Ptr, part, Len(<<>>), <<>>, Walks(f, <<>>))
                  /\ Forest(f, <<>>) = part[Len(<<>>)]
  BY <1>1, ForestJoins
<1> QED
  BY <1>1, <1>2 DEF Appends

\* The trees of different roots pass no node twice, and all nodes when they are
\* all of the roots.
LEMMA ForestOnce ==
  ASSUME NEW g, NEW lev, NEW bound, Bounded(g, lev, bound),
         NEW roots \in Seq(Ptr), IsInjective(roots), ToSet(roots) \subseteq Roots(g)
  PROVE  /\ PreorderOf(g, roots) \in Seq(Ptr) /\ IsInjective(PreorderOf(g, roots))
         /\ ToSet(PreorderOf(g, roots)) \subseteq Allocated(g)
         /\ Roots(g) \subseteq ToSet(roots)
              => ToSet(PreorderOf(g, roots)) = Allocated(g)
<1> DEFINE m == Len(roots)
           W == Walk(Ptr, g)
           seqs == Walks(W, roots)
<1>1. PICK rank : Grounded(g, rank, bound)
  BY TreeGrounded
<1>2. W \in [Ptr -> Seq(Ptr)]
  BY <1>1, WalkWalks DEF Walked
<1>3. PreorderOf(g, roots) = Forest(W, roots)
  BY NodesInForest, Zenon DEF PreorderOf
<1>4. m \in Nat /\ DOMAIN roots = 1..m /\ (m \in 0..m)
  BY LenProperties
<1>5. \A k \in 1..m : roots[k] \in Roots(g)
  BY <1>4 DEF ToSet
<1>6. \A r \in ToSet(roots) : \E k \in 1..m : r = roots[k]
  BY <1>4 DEF ToSet
<1>7. \A j, k \in 1..m : roots[j] = roots[k] => j = k
  BY <1>4 DEF IsInjective
<1>8. \A k \in 1..m : seqs[k] = W[roots[k]]
  BY DEF Walks
<1> HIDE DEF W
<1>9. /\ seqs \in [1..m -> Seq(Ptr)]
      /\ \E part : /\ Appends(Ptr, part, m, <<>>, seqs)
                   /\ Forest(W, roots) = part[m]
  BY <1>2, ForestJoins
<1>10. PICK part : Appends(Ptr, part, m, <<>>, seqs) /\ Forest(W, roots) = part[m]
  BY <1>9
<1> HIDE DEF m, seqs
<1>11. \A k \in 1..m : /\ roots[k] \in Allocated(g)
                       /\ IsInjective(seqs[k]) /\ ToSet(seqs[k]) = Below(g, roots[k])
  <2> TAKE k \in 1..m
  <2>1. roots[k] \in Allocated(g)
    BY <1>5 DEF Roots
  <2>2. IsInjective(W[roots[k]]) /\ ToSet(W[roots[k]]) = Below(g, roots[k])
    BY <2>1, WalkOnce DEF Below, W
  <2> QED
    BY <1>8, <2>1, <2>2
<1>12. \A i, j \in 1..m : i # j => ToSet(seqs[i]) \cap ToSet(seqs[j]) = {}
  <2> SUFFICES ASSUME NEW i \in 1..m, NEW j \in 1..m, i # j
               PROVE  ToSet(seqs[i]) \cap ToSet(seqs[j]) = {}
    OBVIOUS
  <2>1. roots[i] # roots[j] /\ IsRoot(g, roots[i]) /\ IsRoot(g, roots[j])
        /\ roots[i] # None /\ roots[j] # None
    BY <1>5, <1>7 DEF IsRoot, Roots, Allocated
  <2>2. NodesBelow(g, roots[i]) \cap NodesBelow(g, roots[j]) = {}
    BY <2>1, RootsApart
  <2> QED
    BY <1>11, <2>1, <2>2 DEF NodesBelow
<1> DEFINE none == <<>>
<1>13. none \in Seq(Ptr) /\ IsInjective(none) /\ ToSet(none) = {}
  <2>1. none \in Seq(Ptr) /\ DOMAIN none = {}
    OBVIOUS
  <2> QED
    BY <2>1 DEF IsInjective, ToSet
<1>14. Appends(Ptr, part, m, none, seqs)
  BY <1>10
<1> HIDE DEF none
<1>15. IsInjective(part[m])
  <2>1. \A k \in 1..m : IsInjective(seqs[k]) /\ ToSet(none) \cap ToSet(seqs[k]) = {}
    BY <1>11, <1>13
  <2>2. m \in Nat /\ m \in 0..m
    BY <1>4
  <2> QED
    BY <1>9, <1>12, <1>13, <1>14, <2>1, <2>2, AppendsInjective
<1>16. part[m] \in Seq(Ptr)
  BY <1>4, <1>14 DEF Appends
<1>17. \A x : x \in ToSet(part[m]) <=> \E k \in 1..m : x \in Below(g, roots[k])
  <2>1. Gathers(part, m, none, seqs)
    BY <1>4, <1>9, <1>14, AppendsToSet
  <2>2. \A x : x \in ToSet(part[m]) <=>
                 x \in ToSet(none) \/ \E k \in 1..m : x \in ToSet(seqs[k])
    BY <1>4, <2>1, Zenon DEF Gathers
  <2> QED
    BY <1>11, <1>13, <2>2
<1>18. ToSet(part[m]) \subseteq Allocated(g)
  <2> SUFFICES ASSUME NEW x \in ToSet(part[m]) PROVE x \in Allocated(g)
    OBVIOUS
  <2>1. PICK k \in 1..m : x \in Below(g, roots[k])
    BY <1>17
  <2>2. IsBelow(g, lev, roots[k], x)
    BY <1>11, <2>1, BelowDown
  <2> QED
    BY <2>2 DEF IsBelow
<1>19. ASSUME Roots(g) \subseteq ToSet(roots)
       PROVE  \A p \in Allocated(g) : p \in ToSet(part[m])
  <2> DEFINE T == ToSet(part[m])
  <2>1. ASSUME NEW p \in Allocated(g), g[p].parent = None \/ g[p].parent \in T
        PROVE  p \in T
    <3>1. CASE g[p].parent = None
      <4>1. p \in ToSet(roots)
        BY <1>19, <3>1 DEF Roots
      <4>2. PICK k \in 1..m : p = roots[k]
        BY <1>6, <4>1
      <4>3. p \in Below(g, p)
        BY BelowKids
      <4> QED
        BY <1>17, <4>2, <4>3
    <3>2. CASE g[p].parent # None
      <4>1. PICK k \in 1..m : g[p].parent \in Below(g, roots[k])
        BY <1>17, <2>1, <3>2
      <4>2. p \in Below(g, roots[k])
        BY <1>11, <3>2, <4>1, BelowUp
      <4> QED
        BY <1>17, <4>2
    <3> QED
      BY <3>1, <3>2
  <2> HIDE DEF T
  <2>2. \A p \in Allocated(g) : p \in T
    BY <2>1, FromTheRoots
  <2> QED
    BY <2>2 DEF T
<1> QED
  BY <1>3, <1>10, <1>15, <1>16, <1>18, <1>19

\* Heaps that agree on the nodes' kinds and children have the same walks.
LEMMA WalkAgree ==
  ASSUME NEW S, NEW h, NEW g, Agree(h, g), g \in Heap
  PROVE  Walk(S, h) = Walk(S, g)
<1>1. ASSUME NEW p \in Ptr
      PROVE  /\ Degree(h, p) = Degree(g, p)
             /\ \A k \in 0..Degree(g, p) :
                  k # 0 => h[p].children[k - 1] = g[p].children[k - 1]
  <2>1. h[p].kind = g[p].kind /\ h[p].length = g[p].length /\ g[p].length \in 0..B
    BY FieldTypes DEF Agree
  <2>2. Degree(h, p) = Degree(g, p)
    BY <2>1 DEF Degree, IsInternal
  <2>3. Degree(g, p) \in 0..B /\ (Degree(g, p) # 0 => Degree(g, p) = g[p].length)
    BY <2>1 DEF Degree
  <2>4. \A k \in 0..Degree(g, p) :
          k # 0 => k - 1 \in Position /\ k - 1 < g[p].length
    BY <2>1, <2>3
  <2> QED
    BY <2>2, <2>4 DEF Agree
<1>2. ASSUME NEW f, NEW p \in Ptr PROVE Whole(S, h, f, p) = Whole(S, g, f, p)
  <2> DEFINE d == Degree(g, p)
  <2>1. Degree(h, p) = d
    BY <1>1
  <2>2. \A part : IsPart(S, h, f, p, part) <=> IsPart(S, g, f, p, part)
    <3> TAKE part
    <3>1. [k \in 0..d |-> IF k = 0 THEN (IF p \in S THEN <<p>> ELSE <<>>)
                          ELSE part[k - 1] \o f[h[p].children[k - 1]]]
          = [k \in 0..d |-> IF k = 0 THEN (IF p \in S THEN <<p>> ELSE <<>>)
                            ELSE part[k - 1] \o f[g[p].children[k - 1]]]
      BY <1>1
    <3> QED
      BY <2>1, <3>1, Zenon DEF IsPart
  <2>3. (CHOOSE part : IsPart(S, h, f, p, part)) = (CHOOSE part : IsPart(S, g, f, p, part))
    BY <2>2, Zenon
  <2> QED
    BY <2>1, <2>3, Zenon DEF Whole
<1>3. \A f : IsWalk(S, h, f) <=> IsWalk(S, g, f)
  <2> TAKE f
  <2>1. [p \in Ptr |-> Whole(S, h, f, p)] = [p \in Ptr |-> Whole(S, g, f, p)]
    BY <1>2, Zenon
  <2> QED
    BY <2>1, Zenon DEF IsWalk
<1>4. (CHOOSE f : IsWalk(S, h, f)) = (CHOOSE f : IsWalk(S, g, f))
  BY <1>3, Zenon
<1> QED
  BY <1>4, Zenon DEF Walk

\* What the calls of destroy still own: nodes of their trees, none twice, and
\* all that are allocated if they owe all roots.
LEMMA PendingOnce ==
  ASSUME NEW h, NEW g, NEW lev, NEW bound, NEW calls, Len(calls) \in Nat,
         Destroys(h, g, lev, bound, calls)
  PROVE  /\ PreorderOf(h, <<>>) = <<>>
         /\ PreorderOf(h, Unfreed(h, calls)) \in Seq(Ptr)
         /\ IsInjective(PreorderOf(h, Unfreed(h, calls)))
         /\ ToSet(PreorderOf(h, Unfreed(h, calls))) \subseteq Allocated(h)
         /\ AllOwed(h, g, calls)
              => ToSet(PreorderOf(h, Unfreed(h, calls))) = Allocated(h)
<1>0. Bounded(g, lev, bound) /\ Agree(h, g) /\ CallsFit(h, g, calls) /\ g \in Heap
  BY DEF Destroys, Bounded
<1> DEFINE roots == Unfreed(h, calls)
<1>1. /\ roots \in Seq(Ptr) /\ IsInjective(roots) /\ ToSet(roots) \subseteq Roots(g)
      /\ AllOwed(h, g, calls) => Roots(g) \subseteq ToSet(roots)
  BY <1>0, UnfreedOnce
<1> HIDE DEF roots
<1>2. Walk(Ptr, h) = Walk(Ptr, g)
  BY <1>0, WalkAgree
<1>3. PreorderOf(h, roots) = PreorderOf(g, roots)
      /\ PreorderOf(h, <<>>) = Forest(Walk(Ptr, g), <<>>)
  BY <1>2, NodesInForest, Zenon DEF PreorderOf
<1>4. PICK rank : Grounded(g, rank, bound)
  BY <1>0, TreeGrounded
<1>5. Forest(Walk(Ptr, g), <<>>) = <<>>
  BY <1>4, WalkWalks, ForestEmpty DEF Walked
<1>6. Allocated(h) = Allocated(g)
  BY <1>0 DEF Agree, Allocated
<1>7. /\ PreorderOf(g, roots) \in Seq(Ptr) /\ IsInjective(PreorderOf(g, roots))
      /\ ToSet(PreorderOf(g, roots)) \subseteq Allocated(g)
      /\ Roots(g) \subseteq ToSet(roots)
           => ToSet(PreorderOf(g, roots)) = Allocated(g)
  BY <1>0, <1>1, ForestOnce
<1> QED
  BY <1>1, <1>3, <1>5, <1>6, <1>7 DEF roots

-----------------------------------------------------------------------------
(***************************************************************************)
(* A leaf whose items are taken out.                                       *)
(***************************************************************************)

\* Leaf q of h has fewer items in g, from the same slots, and no more changes.
ItemsTaken(h, g, q) ==
  /\ g \in Heap
  /\ \A p \in Ptr : p # q => g[p] = h[p]
  /\ g[q].kind = h[q].kind /\ g[q].parent = h[q].parent /\ g[q].index = h[q].index
  /\ g[q].next = h[q].next
  /\ g[q].length <= h[q].length
  /\ \A j \in Position : j < g[q].length => g[q].children[j] = h[q].children[j]

\* Slot i is taken.
SlotTaken(h, g, q, i) ==
  /\ ItemsTaken(h, g, q)
  /\ g[q].length <= i
  /\ \A j \in Position : j # i => g[q].children[j] = h[q].children[j]

\* take_raw_child does that.
LEMMA RawTaken ==
  ASSUME NEW h \in Heap, NEW q \in Ptr, NEW i \in Position
  PROVE  SlotTaken(h, TakeRawChild(h, q, i), q, i)
<1> DEFINE g == TakeRawChild(h, q, i)
           len == IF i < h[q].length THEN i ELSE h[q].length
           ch == [h[q].children EXCEPT ![i] = None]
           r == [h[q] EXCEPT !.length = len, !.children = ch]
<1>1. h[q] \in Node /\ h[q].length \in 0..B /\ h[q].children \in [Position -> Slot]
  BY FieldTypes DEF Heap
<1>2. len \in 0..B /\ len <= h[q].length /\ len <= i
  BY <1>1
<1>3. ch \in [Position -> Slot] /\ \A j \in Position : j # i => ch[j] = h[q].children[j]
  BY <1>1 DEF Slot
<1>4. g = [h EXCEPT ![q] = r]
  <2>1. h = [p \in Ptr |-> h[p]]
    BY DEF Heap
  <2> QED
    BY <2>1 DEF TakeRawChild
<1> HIDE DEF g, len, ch
<1>5. /\ r \in Node /\ r.kind = h[q].kind /\ r.parent = h[q].parent
      /\ r.index = h[q].index /\ r.next = h[q].next /\ r.length = len /\ r.children = ch
  BY <1>1, <1>2, <1>3 DEF Node
<1> HIDE DEF r
<1>6. g[q] = r /\ (\A p \in Ptr : p # q => g[p] = h[p]) /\ g \in Heap
  BY <1>4, <1>5 DEF Heap
<1>7. \A j \in Position : j < len => j # i
  BY <1>1, <1>2
<1> QED
  BY <1>2, <1>3, <1>5, <1>6, <1>7 DEF SlotTaken, ItemsTaken, g

\* So does setting the length to 0, and no slot changes.
LEMMA ShortTaken ==
  ASSUME NEW h \in Heap, NEW q \in Ptr, NEW g, g = [h EXCEPT ![q].length = 0]
  PROVE  ItemsTaken(h, g, q) /\ g[q].children = h[q].children /\ g[q].length = 0
<1> DEFINE r == [h[q] EXCEPT !.length = 0]
<1>1. h[q] \in Node /\ h[q].length \in 0..B
  BY FieldTypes DEF Heap
<1>2. /\ r \in Node /\ r.kind = h[q].kind /\ r.parent = h[q].parent
      /\ r.index = h[q].index /\ r.next = h[q].next /\ r.length = 0
      /\ r.children = h[q].children
  BY <1>1, SMTT(30) DEF Node
<1>3. g = [h EXCEPT ![q] = r]
  OBVIOUS
<1> HIDE DEF r
<1>4. g[q] = r /\ (\A p \in Ptr : p # q => g[p] = h[p]) /\ g \in Heap
  BY <1>2, <1>3 DEF Heap
<1> QED
  BY <1>1, <1>2, <1>4 DEF ItemsTaken

\* Taken twice is taken.
LEMMA TakenTwice ==
  ASSUME NEW h \in Heap, NEW f, NEW g, NEW q \in Ptr, ItemsTaken(h, f, q), ItemsTaken(f, g, q)
  PROVE  ItemsTaken(h, g, q)
<1>1. h[q].length \in 0..B /\ f[q].length \in 0..B /\ g[q].length \in 0..B
  BY FieldTypes DEF ItemsTaken
<1>2. \A j \in Position : j < g[q].length => j < f[q].length
  BY <1>1 DEF ItemsTaken
<1> QED
  BY <1>1, <1>2 DEF ItemsTaken

\* The tree over the leaves stays, and so does their list.
LEMMA TakenTree ==
  ASSUME NEW h, NEW lev, NEW bound, Bounded(h, lev, bound), NEW g, NEW q, LeafIn(h, q),
         ItemsTaken(h, g, q)
  PROVE  /\ Bounded(g, lev, bound)
         /\ Roots(g) = Roots(h) /\ Allocated(g) = Allocated(h)
         /\ \A p : LeafIn(g, p) <=> LeafIn(h, p)
         /\ \A rank, high : EndsBy(h, rank, high) => EndsBy(g, rank, high)
<1>0. h \in Heap /\ Tree(h, lev) /\ bound \in Nat /\ \A p \in Allocated(h) : lev[p] <= bound
  BY DEF Bounded
<1>1. q \in Ptr /\ IsLeaf(h, q) /\ q \in Allocated(h)
  BY DEF LeafIn, Allocated, IsLeaf
<1>2. h[q].length \in 0..B /\ g[q].length \in 0..B
  BY <1>0, <1>1, FieldTypes DEF ItemsTaken
<1>3. \A p \in Ptr : g[p].kind = h[p].kind /\ g[p].parent = h[p].parent
                     /\ g[p].index = h[p].index /\ g[p].next = h[p].next
  BY <1>1 DEF ItemsTaken
<1>4. LeavesEdited(h, g)
  <2>1. ASSUME NEW p \in Ptr, IsLeaf(h, p), NEW i \in Position, i < g[p].length
        PROVE  g[p].children[i] \in Item
    <3>1. \A j \in Position : j < h[p].length => h[p].children[j] \in Item
      BY <1>0, <2>1 DEF Tree, SlotsOK, Allocated, IsLeaf
    <3>2. CASE p = q
      <4>1. i < h[p].length
        BY <1>2, <2>1, <3>2 DEF ItemsTaken
      <4> QED
        BY <2>1, <3>1, <3>2, <4>1 DEF ItemsTaken
    <3>3. CASE p # q
      BY <2>1, <3>1, <3>3 DEF ItemsTaken
    <3> QED
      BY <3>2, <3>3
  <2>2. \A p \in Ptr : ~ IsLeaf(h, p) => p # q
    BY <1>1
  <2> QED
    BY <1>3, <2>1, <2>2 DEF LeavesEdited, ItemsTaken
<1>5. Tree(g, lev) /\ Allocated(g) = Allocated(h) /\ Roots(g) = Roots(h)
  BY <1>0, <1>4, LeavesEditedTree
<1>6. Bounded(g, lev, bound)
  BY <1>0, <1>5 DEF Bounded, ItemsTaken
<1>7. \A p \in Ptr : IsLeaf(g, p) <=> IsLeaf(h, p)
  BY <1>3 DEF IsLeaf
<1>8. \A rank, high : EndsBy(h, rank, high) => EndsBy(g, rank, high)
  BY <1>3, <1>7 DEF EndsBy
<1> QED
  BY <1>5, <1>6, <1>7, <1>8 DEF LeafIn

-----------------------------------------------------------------------------
(***************************************************************************)
(* The invariant behind NodesFreedOnce.                                    *)
(***************************************************************************)

\* The types of the fields of IntoIter.
IntoFields == [state : IntoState, leaf : PtrOrNone, index : Nat, length : 0..B,
               remaining : Nat]

IntoTyped ==
  /\ TypeOK /\ stack \in Seq(Call) /\ dropped \in Nat /\ unwinding \in BOOLEAN
  /\ into \in IntoFields

\* The nodes are one tree with root r over one list of leaves.
Iterating(h, r) ==
  /\ Roots(h) = {r} \ {None}
  /\ ListEnds(h)
  /\ \E lev, bound : Bounded(h, lev, bound)

\* The calls of destroy own the nodes, all of them unless some are `lost`.
Owning(h, calls, lost) ==
  \E g, lev, bound : /\ Destroys(h, g, lev, bound, calls)
                     /\ lost \/ AllOwed(h, g, calls)

\* A vector keeps its own invariant until it is iterated or dropped.
AtVector == into.state = "none" => VecReadInv /\ stack = <<>>

\* An iterator has the tree, and is at a leaf of it.
AtIterator ==
  into.state \in {"open", "draining", "undefined"} /\ pc = "idle" =>
    /\ stack = <<>> /\ Iterating(heap, root)
    /\ into.leaf = None \/ LeafIn(heap, into.leaf)

\* Then the calls of destroy have it.
AtDrop ==
  into.state \in {"destroying", "gone"} /\ pc = "idle" =>
    root = None /\ Owning(heap, stack, unwinding)

OwnInv == IntoTyped /\ AtVector /\ AtIterator /\ AtDrop

\* A call that ends leaves its locals typed.
LEMMA LeaveTypeOK ==
  ASSUME NEW where \in PC, Leave(where), heap' \in Heap, root' \in PtrOrNone, size' \in Nat
  PROVE  TypeOK'
<1>1. request' \in Request /\ pc' \in PC /\ node' \in PtrOrNone /\ index' \in Nat
      /\ held' \in Slot /\ split' \in PtrOrNone
  BY DEF Leave, NoRequest, Request, PtrOrNone, Slot
<1>2. removal' \in Removal
  BY DEF Leave, NoRemoval, Removal, RemovalKind
<1> QED
  BY <1>1, <1>2 DEF TypeOK

\* A vector between calls is such a tree.
LEMMA IdleIterating ==
  ASSUME VecReadInv, pc = "idle"
  PROVE  /\ Iterating(heap, root)
         /\ HasPlaces(heap, root, size)
         /\ root # None => LeafIn(heap, LeafFor(heap, root, 0).leaf)
         /\ root = None => size = 0
<1>1. /\ VecInv /\ FiniteInv /\ ListInv /\ pc # "climb" /\ ~ Ended
  BY DEF VecReadInv, ReadInv, Ended
<1>2. HasPlaces(heap, root, size)
  BY <1>1, RestLaid
<1>3. PICK lev, w, after, before, bound :
        Laid(heap, lev, w, after, before, root, size, bound)
  BY <1>2 DEF HasPlaces
<1>4. Settled(heap, lev, w, after, root, size, bound)
  BY <1>3 DEF Laid
<1>5. /\ Roots(heap) = {root} \ {None} /\ Bounded(heap, lev, bound)
      /\ root # None => root \in Allocated(heap)
  BY <1>4 DEF Settled, Bounded, Roots, Allocated, IsTop
<1>6. ListEnds(heap)
  BY <1>1 DEF ListInv
<1>7. ASSUME root # None PROVE LeafIn(heap, LeafFor(heap, root, 0).leaf)
  <2> DEFINE at == LeafFor(heap, root, 0)
  <2>1. root \in Allocated(heap) /\ 0 \in Nat
    BY <1>5, <1>7
  <2>2. Found(heap, w, before, root, 0, at)
    BY <1>3, <2>1, LeafForAt
  <2> HIDE DEF at
  <2>3. LeafIn(heap, at.leaf)
    BY <2>2 DEF Found, LeafIn, Allocated
  <2> QED
    BY <2>3 DEF at
<1>8. root = None => size = 0
  BY <1>1 DEF VecInv, TypeInv, CallOK
<1> QED
  BY <1>2, <1>5, <1>6, <1>7, <1>8 DEF Iterating

\* What the invariant says of an iterator and its tree.
LEMMA IteratorTree ==
  ASSUME OwnInv, pc = "idle", into.state \in {"open", "draining", "undefined"}
  PROVE  /\ stack = <<>> /\ heap \in Heap /\ into \in IntoFields
         /\ Iterating(heap, root)
         /\ into.leaf = None \/ LeafIn(heap, into.leaf)
         /\ \A p : LeafIn(heap, p) =>
              /\ heap[p].length \in 0..B
              /\ heap[p].next = None \/ LeafIn(heap, heap[p].next)
<1>1. /\ stack = <<>> /\ heap \in Heap /\ into \in IntoFields
      /\ Iterating(heap, root)
      /\ into.leaf = None \/ LeafIn(heap, into.leaf)
  BY DEF OwnInv, IntoTyped, AtIterator, TypeOK
<1>2. PICK rank, high : EndsBy(heap, rank, high)
  BY <1>1 DEF Iterating, ListEnds
<1>3. ASSUME NEW p, LeafIn(heap, p)
      PROVE  /\ heap[p].length \in 0..B
             /\ heap[p].next = None \/ LeafIn(heap, heap[p].next)
  BY <1>1, <1>2, <1>3, FieldTypes DEF LeafIn, EndsBy
<1> QED
  BY <1>1, <1>3

\* A change of one leaf keeps it.
LEMMA TakenIterating ==
  ASSUME NEW h, NEW r, Iterating(h, r), NEW q, LeafIn(h, q), NEW g, ItemsTaken(h, g, q)
  PROVE  Iterating(g, r) /\ \A p : LeafIn(g, p) <=> LeafIn(h, p)
<1>1. PICK lev, bound : Bounded(h, lev, bound)
  BY DEF Iterating
<1>2. PICK rank, high : EndsBy(h, rank, high)
  BY DEF Iterating, ListEnds
<1>3. /\ Bounded(g, lev, bound) /\ Roots(g) = Roots(h)
      /\ \A p : LeafIn(g, p) <=> LeafIn(h, p)
      /\ EndsBy(g, rank, high)
  BY <1>1, <1>2, TakenTree
<1> QED
  BY <1>3 DEF Iterating, ListEnds

\* The end of next keeps the invariant.
LEMMA TakeItemOwns ==
  ASSUME OwnInv, pc = "idle", into.state = "open", UNCHANGED dropvars,
         NEW h, NEW q, LeafIn(heap, q), ItemsTaken(heap, h, q),
         NEW i \in Nat, NEW len \in 0..B, TakeItem(h, q, i, len)
  PROVE  OwnInv'
<1>0. /\ stack = <<>> /\ heap \in Heap /\ into \in IntoFields
      /\ Iterating(heap, root) /\ TypeOK /\ dropped \in Nat /\ unwinding \in BOOLEAN
      /\ stack \in Seq(Call)
  BY IteratorTree DEF OwnInv, IntoTyped
<1>1. stack' = stack /\ dropped' = dropped /\ unwinding' = unwinding
  BY DEF dropvars
<1>2. q \in Ptr /\ h \in Heap
  BY DEF LeafIn, ItemsTaken
<1>3. CASE into.remaining = 0 \/ i \notin Position
  <2>1. Leave("panicked") /\ UNCHANGED fields /\ into' = into
    BY <1>3 DEF TakeItem, Panic, intovars
  <2>2. heap' \in Heap /\ root' \in PtrOrNone /\ size' \in Nat
    BY <1>0, <2>1 DEF fields, TypeOK
  <2>3. TypeOK'
    <3>1. "panicked" \in PC
      BY DEF PC
    <3> QED
      BY <2>1, <2>2, <3>1, LeaveTypeOK
  <2>4. pc' = "panicked"
    BY <2>1 DEF Leave
  <2> QED
    BY <1>0, <1>1, <2>1, <2>3, <2>4 DEF OwnInv, IntoTyped, AtVector, AtIterator, AtDrop
<1>4. CASE ~ (into.remaining = 0 \/ i \notin Position)
  <2>1. /\ heap' = TakeRawChild(h, q, i)
        /\ into' = [into EXCEPT
                      !.state = IF h[q].children[i] = None THEN "undefined" ELSE @,
                      !.leaf = q, !.index = i + 1, !.length = len, !.remaining = @ - 1]
        /\ UNCHANGED <<root, size, locals>>
    BY <1>4 DEF TakeItem
  <2>2. i \in Position /\ into.remaining \in Nat /\ into.remaining - 1 \in Nat
    BY <1>0, <1>4 DEF IntoFields
  <2>3. ItemsTaken(heap, heap', q)
    <3>1. ItemsTaken(h, heap', q)
      BY <1>2, <2>1, <2>2, RawTaken DEF SlotTaken
    <3> QED
      BY <1>0, <1>2, <3>1, TakenTwice
  <2>4. Iterating(heap', root) /\ LeafIn(heap', q) /\ heap' \in Heap
    BY <1>0, <2>3, TakenIterating DEF ItemsTaken
  <2>5. into' \in IntoFields /\ into'.leaf = q /\ into'.state \in {"open", "undefined"}
    <3>1. PICK s : /\ s = IF h[q].children[i] = None THEN "undefined" ELSE "open"
                   /\ into' = [into EXCEPT !.state = s, !.leaf = q, !.index = i + 1,
                                           !.length = len, !.remaining = @ - 1]
      BY <2>1
    <3>2. s \in {"open", "undefined"} /\ s \in IntoState
      BY <3>1 DEF IntoState
    <3>3. i + 1 \in Nat /\ q \in PtrOrNone
      BY <1>2 DEF PtrOrNone
    <3> QED
      BY <1>0, <2>2, <3>1, <3>2, <3>3 DEF IntoFields
  <2>6. TypeOK'
    BY <1>0, <2>1, <2>4 DEF TypeOK, locals
  <2>7. Iterating(heap', root') /\ stack' = <<>>
    BY <1>0, <1>1, <2>1, <2>4, SMTT(30)
  <2> QED
    BY <1>0, <1>1, <2>4, <2>5, <2>6, <2>7
       DEF OwnInv, IntoTyped, AtVector, AtIterator, AtDrop
<1> QED
  BY <1>3, <1>4

\* What next does with the leaf it is at or the one after it.
LEMMA IntoNextTakes ==
  ASSUME OwnInv, IntoNext
  PROVE  \/ UNCHANGED vars /\ into' = into /\ yielded' = None /\ into.leaf = None
         \/ /\ UNCHANGED vars /\ into' = [into EXCEPT !.leaf = None] /\ yielded' = None
            /\ LeafIn(heap, into.leaf) /\ into.index = into.length
            /\ heap[into.leaf].next = None
         \/ /\ LeafIn(heap, into.leaf) /\ into.index # into.length
            /\ TakeItem(heap, into.leaf, into.index, into.length)
         \/ /\ LeafIn(heap, into.leaf) /\ into.index = into.length
            /\ LeafIn(heap, heap[into.leaf].next)
            /\ \E h : /\ h = [heap EXCEPT ![heap[into.leaf].next].length = 0]
                      /\ TakeItem(h, heap[into.leaf].next, 0,
                                  heap[heap[into.leaf].next].length)
<1>1. /\ pc = "idle" /\ into.state = "open"
  BY DEF IntoNext
<1>2. /\ into.leaf = None \/ LeafIn(heap, into.leaf)
      /\ \A p : LeafIn(heap, p) => heap[p].next = None \/ LeafIn(heap, heap[p].next)
  BY <1>1, IteratorTree
<1>3. CASE into.leaf = None
  BY <1>1, <1>3 DEF IntoNext
<1>4. CASE into.leaf # None /\ into.index # into.length
  BY <1>1, <1>2, <1>4 DEF IntoNext
<1>5. CASE into.leaf # None /\ into.index = into.length /\ heap[into.leaf].next = None
  BY <1>1, <1>2, <1>5, SMTT(30) DEF IntoNext
<1>6. CASE into.leaf # None /\ into.index = into.length /\ heap[into.leaf].next # None
  <2> DEFINE h == [heap EXCEPT ![heap[into.leaf].next].length = 0]
  <2>1. TakeItem(h, heap[into.leaf].next, 0, heap[heap[into.leaf].next].length)
    BY <1>1, <1>6 DEF IntoNext
  <2>2. LeafIn(heap, into.leaf) /\ LeafIn(heap, heap[into.leaf].next)
    BY <1>2, <1>6
  <2> HIDE DEF h
  <2>3. h = [heap EXCEPT ![heap[into.leaf].next].length = 0]
    BY DEF h
  <2> QED
    BY <1>6, <2>1, <2>2, <2>3
<1> QED
  BY <1>3, <1>4, <1>5, <1>6

\* IntoIter::next keeps it.
LEMMA IntoNextOwns ==
  ASSUME OwnInv, IntoNext
  PROVE  OwnInv'
<1>0. /\ pc = "idle" /\ into.state = "open" /\ UNCHANGED dropvars
      /\ heap \in Heap /\ into \in IntoFields
      /\ \A p : LeafIn(heap, p) => heap[p].length \in 0..B
  BY IteratorTree DEF IntoNext
<1>1. into.index \in Nat /\ into.length \in 0..B
  BY <1>0 DEF IntoFields
<1>2. CASE UNCHANGED vars /\ (into' = into \/ into' = [into EXCEPT !.leaf = None])
  <2>1. TypeOK' /\ stack' = stack /\ dropped' = dropped /\ unwinding' = unwinding
        /\ heap' = heap /\ root' = root
    BY <1>0, <1>2 DEF vars, dropvars, OwnInv, IntoTyped, TypeOK
  <2>2. into' \in IntoFields /\ into'.state = "open"
        /\ (into'.leaf = None \/ into'.leaf = into.leaf)
    BY <1>0, <1>2 DEF IntoFields, PtrOrNone
  <2>3. Iterating(heap, root) => Iterating(heap', root')
    BY <2>1
  <2>4. stack = <<>> /\ Iterating(heap, root) /\ (into.leaf = None \/ LeafIn(heap, into.leaf))
    BY <1>0, IteratorTree
  <2> QED
    BY <2>1, <2>2, <2>3, <2>4
       DEF OwnInv, IntoTyped, AtVector, AtIterator, AtDrop, LeafIn, IsLeaf
<1>3. CASE /\ LeafIn(heap, into.leaf)
           /\ TakeItem(heap, into.leaf, into.index, into.length)
  <2>1. ItemsTaken(heap, heap, into.leaf)
    <3>1. heap[into.leaf].length \in 0..B
      BY <1>0, <1>3
    <3> QED
      BY <1>0, <3>1 DEF ItemsTaken
  <2> QED
    BY <1>0, <1>1, <1>3, <2>1, TakeItemOwns
<1>4. ASSUME NEW q, LeafIn(heap, q), NEW h, h = [heap EXCEPT ![q].length = 0],
             TakeItem(h, q, 0, heap[q].length)
      PROVE  OwnInv'
  <2>1. ItemsTaken(heap, h, q) /\ heap[q].length \in 0..B /\ 0 \in Nat
    BY <1>0, <1>4, ShortTaken DEF LeafIn
  <2> QED
    BY <1>0, <1>4, <2>1, TakeItemOwns
<1> QED
  BY <1>2, <1>3, <1>4, IntoNextTakes

\* So does an iteration of the loop of IntoIter::drop.
LEMMA DrainItemOwns ==
  ASSUME OwnInv, DrainItem
  PROVE  OwnInv'
<1>0. /\ pc = "idle" /\ into.state = "draining" /\ MoreToDrain
      /\ heap' = TakeRawChild(heap, into.leaf, into.index)
      /\ dropped' = dropped + 1
      /\ UNCHANGED <<root, size, locals, stack, yielded>>
      /\ \/ /\ into' = [into EXCEPT !.index = @ + 1,
                          !.state = IF heap[into.leaf].children[into.index] = None
                                    THEN "undefined" ELSE @]
            /\ UNCHANGED unwinding
         \/ /\ into' = [into EXCEPT !.index = into.length]
            /\ unwinding' = TRUE
  BY DEF DrainItem, Draining
<1>a. into.state = "draining"
  BY <1>0
<1>1. /\ stack = <<>> /\ heap \in Heap /\ into \in IntoFields /\ Iterating(heap, root)
      /\ TypeOK /\ dropped \in Nat /\ unwinding \in BOOLEAN
      /\ stack \in Seq(Call)
  BY <1>0, IteratorTree DEF OwnInv, IntoTyped
<1>2. LeafIn(heap, into.leaf)
  BY <1>0, IteratorTree DEF MoreToDrain
<1>3. into.index \in Position /\ into.index \in Nat /\ into.length \in Nat
  BY <1>0, <1>1 DEF MoreToDrain, IntoFields
<1>4. ItemsTaken(heap, heap', into.leaf)
  BY <1>0, <1>1, <1>2, <1>3, RawTaken DEF SlotTaken, LeafIn
<1>5. Iterating(heap', root) /\ LeafIn(heap', into.leaf) /\ heap' \in Heap
  BY <1>1, <1>2, <1>4, TakenIterating DEF ItemsTaken
<1>6. into' \in IntoFields /\ into'.leaf = into.leaf
      /\ into'.state \in {"draining", "undefined"}
  <2>1. PICK s, i : /\ s \in {"draining", "undefined"} /\ i \in Nat
                    /\ into' = [into EXCEPT !.index = i, !.state = s]
    <3>1. CASE into' = [into EXCEPT !.index = into.length]
      <4>1. into' = [into EXCEPT !.index = into.length, !.state = "draining"]
        BY <1>0, <1>1, <3>1 DEF IntoFields
      <4> QED
        BY <1>3, <4>1
    <3>2. CASE into' = [into EXCEPT !.index = @ + 1,
                          !.state = IF heap[into.leaf].children[into.index] = None
                                    THEN "undefined" ELSE @]
      <4>1. PICK s : /\ s = IF heap[into.leaf].children[into.index] = None
                            THEN "undefined" ELSE into.state
                     /\ into' = [into EXCEPT !.index = into.index + 1, !.state = s]
        BY <3>2, Zenon
      <4>2. s \in {"draining", "undefined"} /\ into.index + 1 \in Nat
        BY <1>3, <1>a, <4>1
      <4> QED
        BY <4>1, <4>2, Zenon
    <3> QED
      BY <1>0, <3>1, <3>2
  <2>2. s \in IntoState
    BY <2>1 DEF IntoState
  <2> QED
    BY <1>1, <2>1, <2>2 DEF IntoFields
<1>7. TypeOK'
  <2>1. UNCHANGED root /\ UNCHANGED size /\ UNCHANGED locals
    BY <1>0
  <2>2. TypeOK
    BY <1>1
  <2>3. heap' \in Heap
    BY <1>5
  <2>4. /\ request' = request /\ pc' = pc /\ node' = node /\ index' = index
        /\ held' = held /\ split' = split /\ removal' = removal
    BY <2>1 DEF locals
  <2> QED
    BY <2>1, <2>2, <2>3, <2>4 DEF TypeOK
<1>8. dropped' \in Nat /\ unwinding' \in BOOLEAN /\ stack' = <<>> /\ stack' \in Seq(Call)
  <2>1. dropped' = dropped + 1 /\ stack' = stack
    BY <1>0, Zenon
  <2>2. unwinding' = unwinding \/ unwinding' = TRUE
    BY <1>0, Zenon
  <2>3. dropped' \in Nat
    BY <1>1, <2>1
  <2>4. unwinding' \in BOOLEAN
    BY <1>1, <2>2, Zenon
  <2> QED
    BY <1>1, <2>1, <2>3, <2>4, Zenon
<1>9. Iterating(heap', root')
  BY <1>0, <1>5
<1> QED
  BY <1>5, <1>6, <1>7, <1>8, <1>9 DEF OwnInv, IntoTyped, AtVector, AtIterator, AtDrop

\* BTreeVec::drop begins with calls that own all nodes.
LEMMA DropOwns ==
  ASSUME Iterating(heap, root), stack = <<>>, TypeOK, StartDestroy(root)
  PROVE  /\ Owning(heap', stack', FALSE) /\ stack' \in Seq(Call)
         /\ heap' \in Heap /\ UNCHANGED locals
<1>1. PICK lev, bound : Bounded(heap, lev, bound)
  BY DEF Iterating
<1>2. heap \in Heap /\ root \in PtrOrNone
  BY DEF TypeOK
<1>3. CASE root = None
  <2>1. heap' = heap /\ UNCHANGED locals /\ stack' = stack
    BY <1>3 DEF StartDestroy
  <2> DEFINE none == <<>>
  <2>2. Len(none) = 0 /\ none \in Seq(Call) /\ 1..0 = {}
    OBVIOUS
  <2>3. Roots(heap) = {}
    BY <1>3 DEF Iterating
  <2> HIDE DEF none
  <2>4. CallsFit(heap, heap, none) /\ AllOwed(heap, heap, none)
    BY <2>2, <2>3 DEF CallsFit, AllOwed
  <2>5. Destroys(heap, heap, lev, bound, none)
    BY <1>1, <1>2, <2>4, AgreeSelf DEF Destroys
  <2>6. Owning(heap, none, FALSE)
    BY <2>4, <2>5 DEF Owning
  <2>7. stack' = none
    BY <2>1 DEF none
  <2> QED
    BY <1>2, <2>1, <2>2, <2>6, <2>7
<1>4. CASE root # None
  <2>1. Roots(heap) = {root}
    BY <1>4 DEF Iterating
  <2>2. heap[root].parent = None /\ root \in Ptr
    BY <2>1 DEF Roots, Allocated
  <2>3. /\ heap' = TakeLength(heap, root) /\ stack' = <<Frame(heap, root)>>
        /\ UNCHANGED locals
    BY <1>4, <2>2 DEF StartDestroy
  <2>4. PICK d : /\ Destroys(TakeLength(heap, root), d, lev, bound, <<Frame(heap, root)>>)
                 /\ AllOwed(TakeLength(heap, root), d, <<Frame(heap, root)>>)
    BY <1>1, <2>1, RootFits
  <2>5. Owning(heap', stack', FALSE) /\ heap' \in Heap
    BY <2>3, <2>4 DEF Owning, Destroys, Agree
  <2>6. Frame(heap, root) \in Call
    BY <1>2, <2>2, FieldTypes DEF Frame, Call
  <2> HIDE DEF Call
  <2>7. <<Frame(heap, root)>> \in Seq(Call)
    BY <2>6
  <2> QED
    BY <2>3, <2>5, <2>7
<1> QED
  BY <1>3, <1>4

\* So that keeps the invariant.
LEMMA DropTreeOwns ==
  ASSUME OwnInv, DropTree
  PROVE  OwnInv'
<1>0. /\ pc = "idle" /\ into.state \in {"none", "draining"}
      /\ StartDestroy(root)
      /\ into' = [into EXCEPT !.state = "destroying", !.leaf = None]
      /\ root' = None /\ size' = 0
      /\ UNCHANGED <<dropped, unwinding>>
  BY DEF DropTree, Draining
<1>1. /\ TypeOK /\ dropped \in Nat /\ unwinding \in BOOLEAN /\ into \in IntoFields
  BY DEF OwnInv, IntoTyped
<1>2. stack = <<>> /\ Iterating(heap, root)
  <2>1. CASE into.state = "none"
    BY <1>0, <2>1, IdleIterating DEF OwnInv, AtVector
  <2>2. CASE into.state = "draining"
    BY <1>0, <2>2, IteratorTree
  <2> QED
    BY <1>0, <2>1, <2>2
<1>3. /\ Owning(heap', stack', FALSE) /\ stack' \in Seq(Call) /\ heap' \in Heap
      /\ UNCHANGED locals
  BY <1>0, <1>1, <1>2, DropOwns
<1>4. Owning(heap', stack', unwinding')
  BY <1>3 DEF Owning
<1>5. into' \in IntoFields /\ into'.state = "destroying"
  BY <1>0, <1>1 DEF IntoFields, IntoState, PtrOrNone
<1>6. TypeOK'
  BY <1>0, <1>1, <1>3 DEF TypeOK, locals, PtrOrNone
<1>7. dropped' \in Nat /\ unwinding' \in BOOLEAN
  BY <1>0, <1>1
<1> QED
  BY <1>0, <1>3, <1>4, <1>5, <1>6, <1>7
     DEF OwnInv, IntoTyped, AtVector, AtIterator, AtDrop

\* into_iter starts at the first leaf of the tree.
LEMMA IntoIterOwns ==
  ASSUME OwnInv, IntoIter
  PROVE  OwnInv'
<1>0. pc = "idle" /\ into.state = "none" /\ UNCHANGED <<vars, dropvars>>
  BY DEF IntoIter
<1>1. PICK l, n : /\ l = IF root = None THEN None ELSE LeafFor(heap, root, 0).leaf
                  /\ n = IF l = None THEN 0 ELSE heap[l].length
                  /\ into' = [state |-> "open", leaf |-> l, index |-> 0, length |-> n,
                              remaining |-> size]
  BY Zenon DEF IntoIter
<1>2. VecReadInv /\ stack = <<>> /\ TypeOK
  BY <1>0 DEF OwnInv, AtVector, IntoTyped
<1>3. Iterating(heap, root) /\ (l = None \/ LeafIn(heap, l))
  BY <1>0, <1>1, <1>2, IdleIterating
<1>4. n \in 0..B /\ l \in PtrOrNone /\ size \in Nat
  <2>1. heap \in Heap /\ size \in Nat
    BY <1>2 DEF TypeOK
  <2>2. CASE l = None
    BY <1>1, <2>1, <2>2 DEF PtrOrNone
  <2>3. CASE l # None
    BY <1>1, <1>3, <2>1, <2>3, FieldTypes DEF PtrOrNone, LeafIn
  <2> QED
    BY <2>2, <2>3
<1>5. into' \in IntoFields /\ into'.state = "open" /\ into'.leaf = l
  BY <1>1, <1>4 DEF IntoFields, IntoState
<1>6. TypeOK' /\ stack' = stack /\ dropped' = dropped /\ unwinding' = unwinding
      /\ heap' = heap /\ root' = root
  BY <1>0, <1>2 DEF vars, dropvars, TypeOK
<1>7. Iterating(heap', root') /\ (into'.leaf = None \/ LeafIn(heap', into'.leaf))
  BY <1>3, <1>5, <1>6
<1>8. stack' = <<>> /\ stack' \in Seq(Call) /\ dropped' \in Nat /\ unwinding' \in BOOLEAN
  BY <1>2, <1>6 DEF OwnInv, IntoTyped
<1> QED
  BY <1>5, <1>6, <1>7, <1>8 DEF OwnInv, IntoTyped, AtVector, AtIterator, AtDrop

\* Nothing but the iterator's state changes when its drop begins.
LEMMA DropIntoIterOwns ==
  ASSUME OwnInv, DropIntoIter
  PROVE  OwnInv'
<1>0. /\ pc = "idle" /\ into.state = "open" /\ UNCHANGED <<vars, dropvars>>
      /\ into' = [into EXCEPT !.state = "draining"]
  BY DEF DropIntoIter
<1>1. /\ into \in IntoFields /\ Iterating(heap, root) /\ stack = <<>>
      /\ into.leaf = None \/ LeafIn(heap, into.leaf)
  BY <1>0, IteratorTree
<1>2. into' \in IntoFields /\ into'.state = "draining" /\ into'.leaf = into.leaf
  BY <1>0, <1>1 DEF IntoFields, IntoState
<1>3. TypeOK
  BY DEF OwnInv, IntoTyped
<1>4. TypeOK' /\ stack' = stack /\ dropped' = dropped /\ unwinding' = unwinding
      /\ heap' = heap /\ root' = root
  BY <1>0, <1>3 DEF vars, dropvars, TypeOK
<1>5. Iterating(heap', root') /\ (into'.leaf = None \/ LeafIn(heap', into'.leaf))
  BY <1>1, <1>2, <1>4
<1>6. stack' = <<>> /\ stack' \in Seq(Call) /\ dropped' \in Nat /\ unwinding' \in BOOLEAN
  BY <1>1, <1>4 DEF OwnInv, IntoTyped
<1> QED
  BY <1>2, <1>4, <1>5, <1>6 DEF OwnInv, IntoTyped, AtVector, AtIterator, AtDrop

\* When calls of destroy run, they own the nodes.
LEMMA RunningOwns ==
  ASSUME OwnInv, pc = "idle", stack # <<>>
  PROVE  /\ into.state \in {"destroying", "gone"} /\ root = None
         /\ Owning(heap, stack, unwinding)
         /\ stack \in Seq(Call) /\ Running \in Call /\ heap \in Heap
<1>1. into.state \in IntoState
  BY DEF OwnInv, IntoTyped, IntoFields
<1>2. into.state \in {"destroying", "gone"}
  BY <1>1 DEF OwnInv, AtVector, AtIterator, IntoState
<1>3. root = None /\ Owning(heap, stack, unwinding)
  BY <1>2 DEF OwnInv, AtDrop
<1>4. stack \in Seq(Call) /\ heap \in Heap
  BY DEF OwnInv, IntoTyped, TypeOK
<1>5. Running \in Call
  <2> DEFINE C == Call
  <2> HIDE DEF C
  <2>1. stack \in Seq(C)
    BY <1>4 DEF C
  <2>2. Len(stack) \in 1..Len(stack)
    BY <2>1, EmptySeq
  <2>3. Last(stack) \in C
    BY <2>1, <2>2 DEF Last
  <2> QED
    BY <2>3 DEF C, Running
<1> QED
  BY <1>2, <1>3, <1>4, <1>5

\* A step of the calls to calls that own the nodes keeps the invariant.
LEMMA CallsGoOn ==
  ASSUME OwnInv, pc = "idle", stack # <<>>, into' = into,
         heap' \in Heap, UNCHANGED <<root, size, locals>>, stack' \in Seq(Call),
         dropped' \in Nat, unwinding' \in BOOLEAN, Owning(heap', stack', unwinding')
  PROVE  OwnInv'
<1>1. into.state \in {"destroying", "gone"} /\ root = None
  BY RunningOwns
<1>2. TypeOK /\ into \in IntoFields
  BY DEF OwnInv, IntoTyped
<1>3. TypeOK'
  <2>1. root' = root /\ size' = size
    BY Zenon
  <2>2. /\ request' = request /\ pc' = pc /\ node' = node /\ index' = index
        /\ held' = held /\ split' = split /\ removal' = removal
    BY DEF locals
  <2> QED
    BY <1>2, <2>1, <2>2 DEF TypeOK
<1>4. into' \in IntoFields /\ into'.state \in {"destroying", "gone"} /\ root' = None
  BY <1>1, <1>2
<1>5. IntoTyped'
  BY <1>3, <1>4, Zenon DEF IntoTyped
<1>6. AtVector' /\ AtIterator'
  BY <1>4 DEF AtVector, AtIterator
<1>7. AtDrop'
  BY <1>4, ZenonT(40) DEF AtDrop
<1> QED
  BY <1>5, <1>6, <1>7, Zenon DEF OwnInv

\* destroy_children finds a child in the slot it comes to, and goes on with it.
LEMMA DestroyChildOwns ==
  ASSUME OwnInv, into' = into, DestroyChild
  PROVE  OwnInv'
<1>0. pc = "idle" /\ stack # <<>> /\ Running.at < Running.length
  BY DEF DestroyChild
<1>1. /\ Owning(heap, stack, unwinding)
      /\ stack \in Seq(Call) /\ Running \in Call /\ heap \in Heap
  BY <1>0, RunningOwns
<1>2. PICK g, lev, bound : /\ Destroys(heap, g, lev, bound, stack)
                           /\ unwinding \/ AllOwed(heap, g, stack)
  BY <1>1 DEF Owning
<1> DEFINE n == Running.node
<1> DEFINE c == heap[n].children[Running.at]
<1> DEFINE loose == [heap EXCEPT ![n].children[Running.at] = None, ![c].parent = None]
<1> DEFINE calls == Front(stack) \o <<[Running EXCEPT !.at = @ + 1], Frame(heap, c)>>
<1>3. n \in Ptr /\ Running.at \in Position /\ Running.at \in Nat
  <2>1. n \in Ptr /\ Running.at \in Nat /\ Running.length \in 0..B
    BY <1>1, SMTT(30) DEF Call
  <2> QED
    BY <1>0, <2>1
<1>4. Loosens(heap, loose, n, Running.at, c)
  BY <1>1, <1>3, ChildLoose
<1>5. c \in Ptr /\ GoesOn(heap, g, stack, TakeLength(loose, c), lev, bound, calls)
  <2> HIDE DEF loose
  <2> DEFINE call == Running
  <2>1. call = Last(stack)
    BY DEF Running
  <2> HIDE DEF call
  <2>2. call.at < call.length /\ c = heap[call.node].children[call.at]
        /\ Loosens(heap, loose, call.node, call.at, c)
    BY <1>0, <1>4 DEF call
  <2>0. CallStack(stack)
    BY <1>0, <1>1 DEF CallStack
  <2>3. /\ c \in Ptr
        /\ GoesOn(heap, g, stack, TakeLength(loose, c), lev, bound,
                  Front(stack) \o <<[call EXCEPT !.at = @ + 1], Frame(heap, c)>>)
    BY <1>2, <2>0, <2>1, <2>2, ChildFits
  <2> QED
    BY <2>3 DEF call
<1>6. /\ heap' = TakeLength(loose, c) /\ stack' = calls
      /\ UNCHANGED <<root, size, locals, dropped, unwinding>>
  BY <1>5, Zenon DEF DestroyChild
<1>7. calls \in Seq(Call)
  <2> DEFINE C == Call
  <2> DEFINE a == [Running EXCEPT !.at = @ + 1]
  <2> DEFINE b == Frame(heap, c)
  <2>1. a \in C
    <3> DEFINE call == Running
    <3>1. call \in Call /\ call.at + 1 \in Nat
      BY <1>1, <1>3
    <3> HIDE DEF call
    <3>2. [call EXCEPT !.at = call.at + 1] \in Call
      BY <3>1, SMTT(30) DEF Call
    <3> QED
      BY <3>2, Zenon DEF call
  <2>2. b \in C
    BY <1>1, <1>5, FieldTypes DEF Call, Frame
  <2>3. stack \in Seq(C)
    BY <1>1
  <2> HIDE DEF C, a, b
  <2>4. Front(stack) \o <<a, b>> \in Seq(C)
    BY <1>0, <2>1, <2>2, <2>3, StackParts
  <2> QED
    BY <2>4 DEF C, a, b
<1> HIDE DEF loose, calls, c, n
<1>8. PICK g1 : /\ Destroys(heap', g1, lev, bound, stack')
                /\ AllOwed(heap, g, stack) => AllOwed(heap', g1, stack')
  BY <1>5, <1>6 DEF GoesOn
<1>9. Owning(heap', stack', unwinding') /\ heap' \in Heap
  <2>1. heap' \in Heap
    BY <1>8 DEF Destroys, Agree
  <2>2. unwinding' = unwinding
    BY <1>6
  <2> QED
    BY <1>2, <1>8, <2>1, <2>2 DEF Owning
<1>10. dropped' \in Nat /\ unwinding' \in BOOLEAN
  BY <1>6 DEF OwnInv, IntoTyped
<1>11. stack' \in Seq(Call) /\ UNCHANGED <<root, size, locals>>
  BY <1>6, <1>7
<1> QED
  BY <1>0, <1>9, <1>10, <1>11, CallsGoOn, SMTT(30)

\* destroy frees its node when the children are gone.
LEMMA DestroyNodeOwns ==
  ASSUME OwnInv, into' = into, DestroyNode
  PROVE  OwnInv'
<1>0. /\ pc = "idle" /\ stack # <<>> /\ Running.at = Running.length
      /\ heap' = Dealloc(heap, Running.node) /\ stack' = Front(stack)
      /\ dropped' = dropped + DestructorsIn(Running.node)
      /\ unwinding' = unwinding /\ UNCHANGED <<root, size, locals>>
  BY DEF DestroyNode
<1>1. /\ Owning(heap, stack, unwinding)
      /\ stack \in Seq(Call) /\ Running \in Call /\ heap \in Heap
  BY <1>0, RunningOwns
<1>2. PICK g, lev, bound : /\ Destroys(heap, g, lev, bound, stack)
                           /\ unwinding \/ AllOwed(heap, g, stack)
  BY <1>1 DEF Owning
<1>3. GoesOn(heap, g, stack, heap', lev, bound, stack')
  <2>1. CallStack(stack)
    BY <1>0, <1>1 DEF CallStack
  <2> DEFINE call == Running
  <2>2. call = Last(stack)
    BY DEF Running
  <2>3. call.at = call.length
    BY <1>0
  <2> HIDE DEF call
  <2>4. GoesOn(heap, g, stack, Dealloc(heap, call.node), lev, bound, Front(stack))
    BY <1>2, <2>1, <2>2, <2>3, NodeFits
  <2> QED
    BY <1>0, <2>4, Zenon DEF call
<1>4. PICK g1 : /\ Destroys(heap', g1, lev, bound, stack')
                /\ AllOwed(heap, g, stack) => AllOwed(heap', g1, stack')
  BY <1>3 DEF GoesOn
<1>5. Owning(heap', stack', unwinding') /\ heap' \in Heap
  <2>1. heap' \in Heap
    BY <1>4 DEF Destroys, Agree
  <2>2. unwinding' = unwinding
    BY <1>0
  <2> QED
    BY <1>2, <1>4, <2>1, <2>2 DEF Owning
<1>6. dropped' \in Nat /\ unwinding' \in BOOLEAN
  <2>1. Running.node \in Ptr
    BY <1>1 DEF Call
  <2>2. DestructorsIn(Running.node) \in Nat
    BY <1>1, <2>1, FieldTypes DEF DestructorsIn
  <2>3. dropped \in Nat /\ unwinding \in BOOLEAN
    BY DEF OwnInv, IntoTyped
  <2>4. dropped' = dropped + DestructorsIn(Running.node) /\ unwinding' = unwinding
    BY <1>0
  <2> QED
    BY <2>2, <2>3, <2>4
<1>7. stack' \in Seq(Call)
  <2> DEFINE C == Call
  <2>1. stack \in Seq(C) /\ stack # <<>>
    BY <1>0, <1>1
  <2> HIDE DEF C
  <2>2. Front(stack) \in Seq(C)
    BY <2>1, FrontParts
  <2> QED
    BY <1>0, <2>2 DEF C
<1>8. UNCHANGED <<root, size, locals>>
  BY <1>0
<1> QED
  BY <1>0, <1>5, <1>6, <1>7, <1>8, CallsGoOn

\* A destructor's panic ends the calls, or the program.
LEMMA ItemPanicsOwns ==
  ASSUME OwnInv, into' = into, ItemPanics
  PROVE  OwnInv'
<1>0. /\ pc = "idle" /\ stack # <<>> /\ heap' = heap /\ root' = root /\ size' = size
      /\ \E k \in 1..DestructorsIn(Running.node) : dropped' = dropped + k
  BY DEF ItemPanics, fields
<1>1. /\ Owning(heap, stack, unwinding)
      /\ stack \in Seq(Call) /\ Running \in Call /\ heap \in Heap
  BY <1>0, RunningOwns
<1>2. dropped \in Nat /\ unwinding \in BOOLEAN /\ TypeOK /\ into \in IntoFields
  BY DEF OwnInv, IntoTyped
<1>3. dropped' \in Nat
  <2>1. Running.node \in Ptr
    BY <1>1 DEF Call
  <2>2. DestructorsIn(Running.node) \in Nat
    BY <1>1, <2>1, FieldTypes DEF DestructorsIn
  <2> QED
    BY <1>0, <1>2, <2>2
<1>4. CASE unwinding
  <2>1. Leave("aborted") /\ stack' = stack /\ unwinding' = unwinding
    BY <1>4 DEF ItemPanics
  <2>2. TypeOK'
    <3>1. "aborted" \in PC
      BY DEF PC
    <3>2. heap' \in Heap /\ root' \in PtrOrNone /\ size' \in Nat
      BY <1>0, <1>2 DEF TypeOK
    <3> QED
      BY <2>1, <3>1, <3>2, LeaveTypeOK
  <2>3. pc' = "aborted" /\ into'.state \in {"destroying", "gone"}
    BY <1>0, <2>1, RunningOwns DEF Leave
  <2>4. stack' \in Seq(Call) /\ unwinding' \in BOOLEAN /\ into' \in IntoFields
    BY <1>1, <1>2, <2>1
  <2> QED
    BY <1>3, <2>2, <2>3, <2>4 DEF OwnInv, IntoTyped, AtVector, AtIterator, AtDrop
<1>5. CASE ~ unwinding
  <2>1. unwinding' = TRUE /\ stack' = <<>> /\ UNCHANGED locals
    BY <1>5 DEF ItemPanics
  <2>2. PICK g, lev, bound : Destroys(heap, g, lev, bound, stack)
    BY <1>1 DEF Owning
  <2> DEFINE none == <<>>
  <2>3. Len(none) = 0 /\ 1..0 = {}
    OBVIOUS
  <2>4. stack' = none
    BY <2>1
  <2> HIDE DEF none
  <2>5. CallsFit(heap, g, none)
    BY <2>3 DEF CallsFit
  <2>6. Owning(heap, none, TRUE)
    BY <2>2, <2>5 DEF Owning, Destroys
  <2>7. Owning(heap', stack', unwinding')
    BY <1>0, <2>1, <2>4, <2>6
  <2>8. stack' \in Seq(Call)
    <3> DEFINE C == Call
    <3> HIDE DEF C
    <3>1. <<>> \in Seq(C)
      OBVIOUS
    <3> QED
      BY <2>1, <3>1 DEF C
  <2>9. heap' \in Heap /\ unwinding' \in BOOLEAN /\ UNCHANGED <<root, size, locals>>
    BY <1>0, <1>1, <2>1
  <2> QED
    BY <1>0, <1>3, <2>7, <2>8, <2>9, CallsGoOn
<1> QED
  BY <1>4, <1>5

\* The last call has returned.
LEMMA DropDoneOwns ==
  ASSUME OwnInv, DropDone
  PROVE  OwnInv'
<1>0. /\ pc = "idle" /\ into.state = "destroying" /\ UNCHANGED <<vars, dropvars>>
      /\ into' = [into EXCEPT !.state = "gone"]
  BY DEF DropDone
<1>1. into \in IntoFields /\ TypeOK /\ stack \in Seq(Call) /\ dropped \in Nat
      /\ unwinding \in BOOLEAN /\ root = None /\ Owning(heap, stack, unwinding)
  BY <1>0 DEF OwnInv, IntoTyped, AtDrop
<1>2. into' \in IntoFields /\ into'.state = "gone"
  BY <1>0, <1>1 DEF IntoFields, IntoState
<1>3. stack' = stack /\ dropped' = dropped /\ unwinding' = unwinding
      /\ heap' = heap /\ root' = root
  BY <1>0 DEF vars, dropvars
<1>4. TypeOK'
  BY <1>0, <1>1 DEF vars, TypeOK
<1>5. Owning(heap', stack', unwinding') /\ root' = None
  BY <1>1, <1>3
<1>6. stack' \in Seq(Call) /\ dropped' \in Nat /\ unwinding' \in BOOLEAN
  BY <1>1, <1>3
<1> QED
  BY <1>2, <1>4, <1>5, <1>6 DEF OwnInv, IntoTyped, AtVector, AtIterator, AtDrop

\* Until then the vector's own steps keep its own invariant.
LEMMA VectorOwns ==
  ASSUME OwnInv, into.state = "none", [Next]_vars, UNCHANGED <<dropvars, into>>
  PROVE  OwnInv'
<1>1. VecReadInv /\ stack = <<>>
  BY DEF OwnInv, AtVector
<1>2. VecReadInv'
  BY <1>1, StepAllowed
<1>3. TypeOK'
  BY <1>2 DEF VecReadInv, ReadInv, VecInv, TypeInv
<1>4. into' = into /\ stack' = stack /\ dropped' = dropped /\ unwinding' = unwinding
  BY DEF dropvars
<1>5. /\ stack' \in Seq(Call) /\ dropped' \in Nat /\ unwinding' \in BOOLEAN
      /\ into' \in IntoFields /\ into'.state = "none" /\ stack' = <<>>
  BY <1>1, <1>4 DEF OwnInv, IntoTyped
<1> QED
  BY <1>2, <1>3, <1>5 DEF OwnInv, IntoTyped, AtVector, AtIterator, AtDrop

\* The vector is empty and nothing runs.
LEMMA InitOwns == IntoInit => OwnInv
<1> SUFFICES ASSUME IntoInit PROVE OwnInv
  OBVIOUS
<1>1. VecReadInv /\ stack = <<>> /\ dropped = 0 /\ unwinding = FALSE
  BY InitAllowed DEF IntoInit, DropInit
<1>2. into = [state |-> "none", leaf |-> None, index |-> 0, length |-> 0, remaining |-> 0]
  BY DEF IntoInit
<1>3. into \in IntoFields /\ into.state = "none"
  BY <1>2 DEF IntoFields, IntoState, PtrOrNone
<1>4. TypeOK
  BY <1>1 DEF VecReadInv, ReadInv, VecInv, TypeInv
<1>5. stack \in Seq(Call)
  <2> DEFINE C == Call
  <2> HIDE DEF C
  <2>1. <<>> \in Seq(C)
    OBVIOUS
  <2> QED
    BY <1>1, <2>1 DEF C
<1> QED
  BY <1>1, <1>3, <1>4, <1>5 DEF OwnInv, IntoTyped, AtVector, AtIterator, AtDrop

\* Every step keeps the invariant.
LEMMA NextOwns == OwnInv /\ [IntoNextState]_allvars => OwnInv'
<1> SUFFICES ASSUME OwnInv, [IntoNextState]_allvars PROVE OwnInv'
  OBVIOUS
<1>1. CASE into.state = "none" /\ Next /\ UNCHANGED <<dropvars, intovars>>
  BY <1>1, VectorOwns DEF intovars
<1>2. CASE IntoIter \/ IntoNext \/ DropIntoIter
  BY <1>2, IntoIterOwns, IntoNextOwns, DropIntoIterOwns
<1>3. CASE DrainItem \/ DropTree \/ DropDone
  BY <1>3, DrainItemOwns, DropTreeOwns, DropDoneOwns
<1>4. CASE DestroyStep /\ UNCHANGED intovars
  BY <1>4, DestroyChildOwns, DestroyNodeOwns, ItemPanicsOwns DEF DestroyStep, intovars
<1>5. CASE UNCHANGED allvars
  <2>1. UNCHANGED vars /\ UNCHANGED dropvars /\ into' = into
    BY <1>5 DEF allvars, intovars
  <2>2. CASE into.state = "none"
    BY <2>1, <2>2, VectorOwns
  <2>3. CASE into.state # "none"
    <3>1. TypeOK' /\ heap' = heap /\ root' = root /\ pc' = pc
      BY <2>1 DEF OwnInv, IntoTyped, TypeOK, vars
    <3>2. stack' = stack /\ dropped' = dropped /\ unwinding' = unwinding
      BY <2>1 DEF dropvars
    <3>3. IntoTyped'
      BY <2>1, <3>1, <3>2 DEF OwnInv, IntoTyped
    <3>4. AtVector'
      BY <2>1, <2>3 DEF AtVector
    <3>5. AtIterator'
      BY <2>1, <3>1, <3>2 DEF OwnInv, AtIterator
    <3>6. AtDrop'
      BY <2>1, <3>1, <3>2 DEF OwnInv, AtDrop
    <3> QED
      BY <3>3, <3>4, <3>5, <3>6 DEF OwnInv
  <2> QED
    BY <2>2, <2>3
<1> QED
  BY <1>1, <1>2, <1>3, <1>4, <1>5 DEF IntoNextState, DropStep

\* Every run of the vector, its iterator and its drop keeps it.
LEMMA AlwaysOwnInv == IntoSpec => []OwnInv
<1> QED
  BY InitOwns, NextOwns, PTL DEF IntoSpec

\* A tree owns its nodes.
LEMMA TreeOwned ==
  ASSUME NEW h, NEW r, Iterating(h, r)
  PROVE  /\ Preorder(h, r) \in Seq(Ptr) /\ IsInjective(Preorder(h, r))
         /\ ToSet(Preorder(h, r)) = Allocated(h)
<1>1. PICK lev, bound : Bounded(h, lev, bound)
  BY DEF Iterating
<1>2. Root(r) \in Seq(Ptr) /\ IsInjective(Root(r)) /\ ToSet(Root(r)) = Roots(h)
  <2>1. CASE r = None
    <3>1. Roots(h) = {} /\ Root(r) = <<>> /\ DOMAIN <<>> = {} /\ <<>> \in Seq(Ptr)
      BY <2>1 DEF Iterating, Root
    <3> QED
      BY <3>1 DEF IsInjective, ToSet
  <2>2. CASE r # None
    <3>1. Roots(h) = {r} /\ Root(r) = <<r>>
      BY <2>2 DEF Iterating, Root
    <3>2. r \in Ptr
      BY <3>1 DEF Roots, Allocated
    <3>3. <<r>> \in Seq(Ptr) /\ DOMAIN <<r>> = {1} /\ <<r>>[1] = r
      BY <3>2
    <3> QED
      BY <3>1, <3>3 DEF IsInjective, ToSet
  <2> QED
    BY <2>1, <2>2
<1>3. /\ PreorderOf(h, Root(r)) \in Seq(Ptr) /\ IsInjective(PreorderOf(h, Root(r)))
      /\ ToSet(PreorderOf(h, Root(r))) = Allocated(h)
  BY <1>1, <1>2, ForestOnce
<1> QED
  BY <1>3, Zenon DEF Preorder

\* No calls, nothing to free.
LEMMA NothingPending ==
  ASSUME NEW h, NEW g, NEW lev, NEW bound, Bounded(g, lev, bound), Agree(h, g)
  PROVE  PreorderOf(h, Unfreed(h, <<>>)) = <<>>
<1> DEFINE none == <<>>
<1>1. Len(none) = 0 /\ 1..0 = {}
  OBVIOUS
<1> HIDE DEF none
<1>2. CallsFit(h, g, none) /\ Len(none) \in Nat
  BY <1>1 DEF CallsFit
<1>3. Destroys(h, g, lev, bound, none)
  BY <1>2 DEF Destroys
<1>4. PreorderOf(h, <<>>) = <<>>
  BY <1>2, <1>3, PendingOnce
<1>5. PICK rest : RestsOn(rest, h, none) /\ Unfreed(h, none) = rest[Len(none)]
  BY <1>2, UnfreedRests
<1>6. Unfreed(h, none) = <<>>
  BY <1>1, <1>5 DEF RestsOn
<1> QED
  BY <1>4, <1>6 DEF none

\* The invariant says who owns what.
LEMMA OwnsOnce ==
  ASSUME OwnInv, pc = "idle", NEW owned, owned = Preorder(heap, root) \o Pending
  PROVE  /\ IsInjective(owned)
         /\ ToSet(owned) \subseteq Allocated(heap)
         /\ ~ unwinding => ToSet(owned) = Allocated(heap)
<1>0. into.state \in IntoState /\ heap \in Heap
  BY DEF OwnInv, IntoTyped, IntoFields, TypeOK
<1>1. CASE into.state \in {"none", "open", "draining", "undefined"}
  <2>1. stack = <<>> /\ Iterating(heap, root)
    BY <1>1, IteratorTree, IdleIterating DEF OwnInv, AtVector
  <2>2. PICK lev, bound : Bounded(heap, lev, bound)
    BY <2>1 DEF Iterating
  <2>3. Pending = <<>>
    BY <1>0, <2>1, <2>2, AgreeSelf, NothingPending DEF Pending
  <2>4. /\ Preorder(heap, root) \in Seq(Ptr) /\ IsInjective(Preorder(heap, root))
        /\ ToSet(Preorder(heap, root)) = Allocated(heap)
    BY <2>1, TreeOwned
  <2>5. owned = Preorder(heap, root)
    <3>1. \A s \in Seq(Ptr) : s \o <<>> = s
      OBVIOUS
    <3> QED
      BY <2>3, <2>4, <3>1, Zenon
  <2> QED
    BY <2>4, <2>5
<1>2. CASE into.state \in {"destroying", "gone"}
  <2>1. root = None /\ Owning(heap, stack, unwinding) /\ stack \in Seq(Call)
    BY <1>2 DEF OwnInv, AtDrop, IntoTyped
  <2>2. PICK g, lev, bound : /\ Destroys(heap, g, lev, bound, stack)
                             /\ unwinding \/ AllOwed(heap, g, stack)
    BY <2>1 DEF Owning
  <2>3. Len(stack) \in Nat
    <3> DEFINE C == Call
    <3> HIDE DEF C
    <3>1. stack \in Seq(C)
      BY <2>1 DEF C
    <3> QED
      BY <3>1
  <2>4. /\ PreorderOf(heap, <<>>) = <<>>
        /\ Pending \in Seq(Ptr) /\ IsInjective(Pending)
        /\ ToSet(Pending) \subseteq Allocated(heap)
        /\ AllOwed(heap, g, stack) => ToSet(Pending) = Allocated(heap)
    BY <2>2, <2>3, PendingOnce DEF Pending
  <2>5. Preorder(heap, root) = <<>>
    BY <2>1, <2>4, Zenon DEF Preorder, Root
  <2>6. owned = Pending
    <3>1. \A s \in Seq(Ptr) : <<>> \o s = s
      OBVIOUS
    <3> QED
      BY <2>4, <2>5, <3>1, Zenon
  <2> QED
    BY <2>2, <2>4, <2>6
<1> QED
  BY <1>0, <1>1, <1>2 DEF IntoState

\* Every node is freed exactly once, wherever the iteration stopped and whatever
\* destructor panicked: no node is owned twice, by the tree or by two calls of
\* destroy, none that is free is owned, and while none has panicked no node is
\* left behind.
THEOREM IntoFreesOnce == IntoSpec => []NodesFreedOnce
<1>1. OwnInv => NodesFreedOnce
  BY OwnsOnce DEF NodesFreedOnce
<1> QED
  BY <1>1, AlwaysOwnInv, PTL

-----------------------------------------------------------------------------
(***************************************************************************)
(* The slots that are read.                                                *)
(***************************************************************************)

\* In a tree, and while it is taken apart, the slots below `length` are
\* initialised.
LEMMA TreeInitialised ==
  ASSUME heap \in Heap, NEW g, NEW lev, g \in Heap, Tree(g, lev), Agree(heap, g)
  PROVE  Initialised
<1> SUFFICES ASSUME NEW p \in Allocated(heap), NEW i \in 0..(heap[p].length - 1)
             PROVE  /\ IsLeaf(heap, p) => heap[p].children[i] \in Item
                    /\ IsInternal(heap, p) =>
                         /\ heap[p].children[i] \in Allocated(heap)
                         /\ heap[heap[p].children[i]].kind
                              = heap[heap[p].children[0]].kind
  BY DEF Initialised
<1>1. p \in Ptr /\ heap[p].length \in 0..B /\ g[p].length \in 0..B
  BY FieldTypes DEF Allocated
<1>2. /\ g[p].length = heap[p].length /\ g[p].kind = heap[p].kind
      /\ \A q \in Ptr : g[q].kind = heap[q].kind
      /\ \A j \in Position : j < g[p].length => heap[p].children[j] = g[p].children[j]
  BY <1>1 DEF Agree
<1>3. /\ i \in Position /\ i < g[p].length /\ 0 \in Position /\ 0 < g[p].length
  BY <1>1, <1>2
<1>4. heap[p].children[i] = g[p].children[i] /\ heap[p].children[0] = g[p].children[0]
  BY <1>2, <1>3
<1>5. p \in Allocated(g) /\ \A q \in Allocated(g) : q \in Allocated(heap)
  BY <1>1, <1>2 DEF Allocated
<1>6. CASE IsLeaf(g, p)
  <2>1. g[p].children[i] \in Item
    BY <1>3, <1>6, <1>5 DEF Tree, SlotsOK, IsLeaf, IsInternal
  <2>2. ~ IsInternal(heap, p)
    BY <1>2, <1>6 DEF IsLeaf, IsInternal
  <2> QED
    BY <1>4, <2>1, <2>2
<1>7. CASE IsInternal(g, p)
  <2> DEFINE c == g[p].children[i]
             d == g[p].children[0]
  <2>1. /\ c \in Allocated(g) /\ d \in Allocated(g)
        /\ lev[p] = lev[c] + 1 /\ lev[p] = lev[d] + 1
    BY <1>3, <1>5, <1>7, ChildOf
  <2>2. lev[c] \in Nat /\ lev[d] \in Nat
    BY <2>1 DEF Tree, Allocated
  <2> HIDE DEF c, d
  <2>3. lev[c] = lev[d]
    BY <2>1, <2>2
  <2>4. IsLeaf(g, c) <=> IsLeaf(g, d)
    BY <2>1, <2>3 DEF Tree
  <2>5. g[c].kind = g[d].kind
    BY <2>1, <2>4, Kinds DEF IsLeaf, IsInternal
  <2>6. ~ IsLeaf(heap, p)
    BY <1>2, <1>7 DEF IsLeaf, IsInternal
  <2>7. c \in Ptr /\ d \in Ptr /\ c \in Allocated(heap)
    BY <1>5, <2>1 DEF Allocated
  <2>8. heap[c].kind = heap[d].kind
    BY <1>2, <2>5, <2>7
  <2> QED
    BY <1>4, <2>6, <2>7, <2>8 DEF c, d
<1> QED
  BY <1>5, <1>6, <1>7, Kinds

\* So they are whenever no call has ended for good.
LEMMA OwnsInitialised ==
  OwnInv /\ (pc = "idle" \/ into.state = "none") => Initialised
<1> SUFFICES ASSUME OwnInv, pc = "idle" \/ into.state = "none" PROVE Initialised
  OBVIOUS
<1>0. into.state \in IntoState /\ heap \in Heap
  BY DEF OwnInv, IntoTyped, IntoFields, TypeOK
<1>1. CASE into.state = "none"
  <2>1. TreeInv
    BY <1>1 DEF OwnInv, AtVector, VecReadInv, ReadInv, VecInv
  <2>2. PICK lev \in [Ptr -> Nat] : Tree(heap, lev)
    BY <2>1 DEF TreeInv, TreeInvAt
  <2> QED
    BY <1>0, <2>2, AgreeSelf, TreeInitialised
<1>2. CASE pc = "idle" /\ into.state \in {"open", "draining", "undefined"}
  <2>1. PICK lev, bound : Bounded(heap, lev, bound)
    BY <1>2 DEF OwnInv, AtIterator, Iterating
  <2> QED
    BY <1>0, <2>1, AgreeSelf, TreeInitialised DEF Bounded
<1>3. CASE pc = "idle" /\ into.state \in {"destroying", "gone"}
  <2>1. PICK g, lev, bound : Destroys(heap, g, lev, bound, stack)
    BY <1>3 DEF OwnInv, AtDrop, Owning
  <2> QED
    BY <1>0, <2>1, TreeInitialised DEF Destroys, Bounded
<1> QED
  BY <1>0, <1>1, <1>2, <1>3 DEF IntoState

\* A call that ends for good leaves the nodes as they are.
LEMMA EndKeepsHeap ==
  ASSUME OwnInv, [IntoNextState]_allvars
  PROVE  pc' = "idle" \/ into'.state = "none" \/ heap' = heap
<1>1. CASE into.state = "none" /\ Next /\ UNCHANGED <<dropvars, intovars>>
  BY <1>1 DEF intovars
<1>2. CASE IntoIter \/ DropIntoIter \/ DropDone
  BY <1>2 DEF IntoIter, DropIntoIter, DropDone, vars
<1>3. CASE IntoNext
  <2>1. pc = "idle"
    BY <1>3 DEF IntoNext
  <2>2. ASSUME NEW h, NEW q, NEW i, NEW len, TakeItem(h, q, i, len)
        PROVE  pc' = "idle" \/ heap' = heap
    <3>1. CASE into.remaining = 0 \/ i \notin Position
      BY <2>2, <3>1 DEF TakeItem, Panic, fields
    <3>2. CASE ~ (into.remaining = 0 \/ i \notin Position)
      BY <2>1, <2>2, <3>2 DEF TakeItem, locals
    <3> QED
      BY <3>1, <3>2
  <2> QED
    BY <1>3, <2>1, <2>2, IntoNextTakes DEF vars
<1>4. CASE DrainItem
  BY <1>4 DEF DrainItem, Draining, locals
<1>5. CASE DropTree
  BY <1>5 DEF DropTree, StartDestroy, locals
<1>6. CASE DestroyStep /\ UNCHANGED intovars
  <2>1. CASE DestroyChild
    BY <2>1, SMTT(30) DEF DestroyChild, Panic, fields, locals
  <2>2. CASE DestroyNode
    BY <2>2, Zenon DEF DestroyNode, locals
  <2>3. CASE ItemPanics
    BY <2>3 DEF ItemPanics, fields
  <2> QED
    BY <1>6, <2>1, <2>2, <2>3, SMTT(30) DEF DestroyStep
<1>7. CASE UNCHANGED allvars
  BY <1>7 DEF allvars, vars
<1> QED
  BY <1>1, <1>2, <1>3, <1>4, <1>5, <1>6, <1>7 DEF IntoNextState, DropStep

\* They stay so.
StaysInitialised == pc = "idle" \/ into.state = "none" \/ Initialised

\* Every slot below a node's `length` is initialised at every step of the
\* iterator and of the drop, and after a destructor's panic: what is read and
\* dropped by `length` is always there.
THEOREM IntoInitialised == IntoSpec => []Initialised
<1>1. IntoInit => StaysInitialised
  BY DEF IntoInit, StaysInitialised
<1>2. OwnInv /\ StaysInitialised => Initialised
  BY OwnsInitialised DEF StaysInitialised
<1>3. OwnInv /\ StaysInitialised /\ [IntoNextState]_allvars => StaysInitialised'
  <2> SUFFICES ASSUME OwnInv, StaysInitialised, [IntoNextState]_allvars
               PROVE  StaysInitialised'
    OBVIOUS
  <2>1. CASE heap' = heap
    <3>1. Initialised
      BY <1>2
    <3>2. Initialised'
      BY <2>1, <3>1 DEF Initialised
    <3> QED
      BY <3>2 DEF StaysInitialised
  <2>2. CASE pc' = "idle" \/ into'.state = "none"
    BY <2>2 DEF StaysInitialised
  <2> QED
    BY <2>1, <2>2, EndKeepsHeap
<1> QED
  BY <1>1, <1>2, <1>3, AlwaysOwnInv, PTL DEF IntoSpec
=============================================================================
