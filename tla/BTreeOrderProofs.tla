-------------------------- MODULE BTreeOrderProofs --------------------------
(***************************************************************************)
(* The order of the leaves and of the levels above them: what each         *)
(* operation does to it, that each action keeps OrderInv, and, with what   *)
(* is known of the tree and of the sizes, that no check of the code fails. *)
(***************************************************************************)
EXTENDS BTreeSizesProofs, BTreeOrder

USE NodeAssumption DEF Position

-----------------------------------------------------------------------------
(***************************************************************************)
(* What the changes to nodes do to the order of their levels.              *)
(***************************************************************************)

\* The children of p are followed by what NextChild says.
ChildrenFollow(h, over, after, p) ==
  IsInternal(h, p) => \A i \in Position :
    i < h[p].length => over[h[p].children[i]] = NextChild(h, after, p, i)

\* top is a node, if there is one.
IsTop(h, top) == top \in Allocated(h) \cup {None}

\* The order is kept when it leads on from each node and follows its children.
LEMMA LevelsBy ==
  ASSUME NEW h, NEW over, NEW after \in [Ptr -> PtrOrNone], NEW top, NEW gone,
         \A p \in Allocated(h) : LeadsOn(h, after, gone \cup {top}, p),
         \A p \in Allocated(h) : ChildrenFollow(h, over, after, p),
         top # None => over[top] = None
  PROVE  Levels(h, over, after, top, gone)
BY DEF Levels, ChildrenFollow

\* And is so of each node in turn.
LEMMA LevelsAt ==
  ASSUME NEW h, NEW over, NEW after, NEW top, NEW gone,
         Levels(h, over, after, top, gone), NEW p \in Allocated(h)
  PROVE  /\ after \in [Ptr -> PtrOrNone]
         /\ LeadsOn(h, after, gone \cup {top}, p)
         /\ ChildrenFollow(h, over, after, p)
BY DEF Levels, ChildrenFollow

\* Nothing changes of what the order is about.
SameLinks(h, g) ==
  \A p \in Ptr :
    /\ g[p].kind = h[p].kind /\ g[p].next = h[p].next
    /\ IsInternal(h, p) => /\ g[p].length = h[p].length
                           /\ g[p].children = h[p].children

\* Then the order is as it was.
LEMMA LevelsFrame ==
  ASSUME NEW h \in Heap, NEW g, SameLinks(h, g), NEW over, NEW after, NEW top,
         NEW gone, Levels(h, over, after, top, gone)
  PROVE  Levels(g, over, after, top, gone)
<1>1. Allocated(g) = Allocated(h) /\ \A p \in Ptr : g[p].kind = h[p].kind
  BY DEF SameLinks, Allocated
<1>2. ASSUME NEW p \in Allocated(g)
      PROVE  LeadsOn(g, after, gone \cup {top}, p)
  <2>1. LeadsOn(h, after, gone \cup {top}, p)
    BY <1>1, <1>2, LevelsAt
  <2>2. p \in Ptr /\ g[p].next = h[p].next
    BY <1>2 DEF Allocated, SameLinks
  <2>3. after[p] # None => after[p] \in Ptr
    BY <2>1 DEF LeadsOn, Allocated
  <2> QED
    BY <1>1, <2>1, <2>2, <2>3 DEF LeadsOn, IsLeaf
<1>3. ASSUME NEW p \in Allocated(g)
      PROVE  ChildrenFollow(g, over, after, p)
  <2>1. ChildrenFollow(h, over, after, p) /\ LeadsOn(h, after, gone \cup {top}, p)
    BY <1>1, <1>3, LevelsAt
  <2>2. SUFFICES ASSUME IsInternal(g, p), NEW i \in Position, i < g[p].length
                 PROVE  over[g[p].children[i]] = NextChild(g, after, p, i)
    BY DEF ChildrenFollow
  <2>3. p \in Ptr /\ IsInternal(h, p)
    BY <1>1, <1>3, <2>2 DEF Allocated, IsInternal
  <2>4. g[p].length = h[p].length /\ g[p].children = h[p].children
    BY <2>3 DEF SameLinks
  <2>5. ASSUME after[p] # None
        PROVE  g[after[p]].children = h[after[p]].children
    <3>1. after[p] \in Ptr /\ h[after[p]].kind = h[p].kind
      BY <2>1, <2>5 DEF LeadsOn, Allocated
    <3> QED
      BY <2>3, <3>1 DEF SameLinks, IsInternal
  <2>6. NextChild(g, after, p, i) = NextChild(h, after, p, i)
    BY <2>4, <2>5 DEF NextChild
  <2> QED
    BY <2>1, <2>2, <2>3, <2>4, <2>6 DEF ChildrenFollow
<1>4. after \in [Ptr -> PtrOrNone] /\ (top # None => over[top] = None)
  BY DEF Levels
<1> QED
  BY <1>2, <1>3, <1>4, LevelsBy

\* The order seen from above counts for nodes only.
LEMMA LevelsAgree ==
  ASSUME NEW h \in Heap, NEW lev, Tree(h, lev), NEW over, NEW after, NEW top,
         IsTop(h, top), NEW gone, Levels(h, over, after, top, gone),
         NEW over1, \A p \in Allocated(h) : over1[p] = over[p]
  PROVE  Levels(h, over1, after, top, gone)
<1>1. ASSUME NEW p \in Allocated(h)
      PROVE  ChildrenFollow(h, over1, after, p)
  <2>1. ChildrenFollow(h, over, after, p)
    BY <1>1, LevelsAt
  <2>2. ASSUME IsInternal(h, p), NEW i \in Position, i < h[p].length
        PROVE  h[p].children[i] \in Allocated(h)
    BY <1>1, <2>2, ChildOf
  <2> QED
    BY <2>1, <2>2 DEF ChildrenFollow
<1>2. top # None => over1[top] = None
  BY DEF IsTop, Levels
<1>3. after \in [Ptr -> PtrOrNone]
  BY DEF Levels
<1>4. \A p \in Allocated(h) : LeadsOn(h, after, gone \cup {top}, p)
  BY LevelsAt
<1> QED
  BY <1>1, <1>2, <1>3, <1>4, LevelsBy

\* `new` comes behind n.
Spliced(after, n, new) == [after EXCEPT ![n] = new, ![new] = after[n]]

\* split puts the new half behind the node, and its children follow each other
\* as before.
LEMMA LevelsSplit ==
  ASSUME NEW h \in Heap, NEW lev, Tree(h, lev), NEW g,
         NEW n \in Allocated(h), h[n].length = B,
         NEW left \in 1..(B - 1), NEW new \in Free(h),
         NodeSplit(h, g, n, left, new), Allocated(g) = Allocated(h) \cup {new},
         NEW over, NEW after, NEW top, IsTop(h, top), NEW gone,
         gone \subseteq Allocated(h), Levels(h, over, after, top, gone)
  PROVE  Levels(g, over, Spliced(after, n, new), top, gone)
<1> DEFINE after1 == Spliced(after, n, new)
<1>0. /\ n \in Ptr /\ new \in Ptr /\ new # n /\ new \notin Allocated(h)
      /\ new # None /\ n # None /\ B \in Nat
  BY DEF Allocated, Free
<1>1. after \in [Ptr -> PtrOrNone] /\ after1 \in [Ptr -> PtrOrNone]
  BY <1>0 DEF Levels, Spliced, PtrOrNone
<1>2. /\ after1[n] = new /\ after1[new] = after[n]
      /\ \A p \in Ptr \ {n, new} : after1[p] = after[p]
  BY <1>0, <1>1 DEF Spliced
<1>3. /\ \A p \in Ptr : p # new => g[p].kind = h[p].kind
      /\ g[new].kind = h[n].kind
      /\ g[new].next = h[n].next /\ (IsLeaf(h, n) => g[n].next = new)
      /\ \A p \in Ptr : p # n /\ p # new => g[p].next = h[p].next
  BY <1>0 DEF NodeSplit
<1>4. ASSUME NEW p \in Allocated(h) PROVE LeadsOn(h, after, gone \cup {top}, p)
  BY <1>4, LevelsAt
<1> HIDE DEF after1
<1>5. ASSUME NEW p \in Allocated(g)
      PROVE  LeadsOn(g, after1, gone \cup {top}, p)
  <2>1. new \notin gone \cup {top}
    BY <1>0 DEF IsTop
  <2>2. \A q \in Allocated(h) : after[q] # new
    BY <1>0, <1>4 DEF LeadsOn
  <2>3. n \in Allocated(g) /\ new \in Allocated(g)
    BY <1>0
  <2>4. CASE p = n
    <3>1. \A q \in Allocated(g) : after1[q] = new => q = n
      BY <1>0, <1>2, <2>2 DEF Allocated
    <3> QED
      BY <1>0, <1>2, <1>3, <2>1, <2>3, <2>4, <3>1 DEF LeadsOn, IsLeaf
  <2>5. CASE p # n
    <3> DEFINE o == IF p = new THEN n ELSE p
    <3>1. /\ o \in Allocated(h) /\ o \in Ptr /\ after1[p] = after[o]
          /\ g[p].kind = h[o].kind /\ g[p].next = h[o].next
      BY <1>0, <1>2, <1>3, <2>5 DEF Allocated
    <3>2. ASSUME after[o] # None
          PROVE  /\ after[o] \in Allocated(h) \ (gone \cup {top})
                 /\ h[after[o]].kind = h[o].kind
                 /\ \A q \in Allocated(h) : after[q] = after[o] => q = o
      BY <1>4, <3>1, <3>2 DEF LeadsOn
    <3>3. ASSUME after[o] # None, NEW q \in Allocated(g), after1[q] = after[o]
          PROVE  q = p
      <4>1. after[o] # new
        BY <2>2, <3>1
      <4>2. CASE q = n
        BY <1>2, <3>3, <4>1, <4>2
      <4>3. CASE q = new
        BY <1>0, <1>2, <2>5, <3>2, <3>3, <4>3
      <4>4. CASE q # n /\ q # new
        <5>1. q \in Allocated(h) /\ after1[q] = after[q]
          BY <1>2, <3>3, <4>4 DEF Allocated
        <5> QED
          BY <3>2, <3>3, <4>4, <5>1
      <4> QED
        BY <4>2, <4>3, <4>4
    <3>4. after[o] # None => /\ after[o] \in Allocated(g) \ (gone \cup {top})
                             /\ g[after[o]].kind = g[p].kind
      BY <1>0, <1>3, <3>1, <3>2 DEF Allocated
    <3>5. IsLeaf(g, p) => g[p].next = after1[p]
      BY <1>4, <3>1 DEF LeadsOn, IsLeaf
    <3> HIDE DEF o
    <3> QED
      BY <3>1, <3>3, <3>4, <3>5 DEF LeadsOn
  <2> QED
    BY <2>4, <2>5
<1>6. ASSUME NEW p \in Allocated(h), p # n
      PROVE  g[p].length = h[p].length /\ g[p].children = h[p].children
  BY <1>0, <1>6 DEF NodeSplit, Allocated
<1>7. /\ g[n].length = left /\ g[new].length = B - left
      /\ \A j \in Position : j < left => g[n].children[j] = h[n].children[j]
      /\ \A j \in Position : j < B - left =>
           g[new].children[j] = h[n].children[left + j]
  BY <1>0 DEF NodeSplit
<1>8. ASSUME NEW q \in Allocated(h)
      PROVE  g[q].children[0] = h[q].children[0]
  BY <1>6, <1>7
<1>9. ASSUME NEW p \in Allocated(h), after[p] # None
      PROVE  g[after[p]].children[0] = h[after[p]].children[0]
  BY <1>4, <1>8, <1>9 DEF LeadsOn
<1>10. ASSUME NEW p \in Allocated(g)
       PROVE  ChildrenFollow(g, over, after1, p)
  <2>1. SUFFICES ASSUME IsInternal(g, p), NEW i \in Position, i < g[p].length
                 PROVE  over[g[p].children[i]] = NextChild(g, after1, p, i)
    BY DEF ChildrenFollow
  <2>2. ASSUME NEW q \in Allocated(h), IsInternal(h, q), NEW k \in Position,
               k < h[q].length
        PROVE  over[h[q].children[k]] = NextChild(h, after, q, k)
    <3>1. ChildrenFollow(h, over, after, q)
      BY <2>2, LevelsAt
    <3> QED
      BY <2>2, <3>1 DEF ChildrenFollow
  <2>3. CASE p # n /\ p # new
    <3>1. p \in Allocated(h) /\ IsInternal(h, p) /\ after1[p] = after[p]
      BY <1>2, <1>3, <2>1, <2>3 DEF Allocated, IsInternal
    <3>2. NextChild(g, after1, p, i) = NextChild(h, after, p, i)
      BY <1>6, <1>9, <2>3, <3>1 DEF NextChild
    <3> QED
      BY <1>6, <2>1, <2>2, <2>3, <3>1, <3>2
  <2>4. CASE p = n
    <3>1. IsInternal(h, n) /\ i < left /\ i < B
      BY <1>0, <1>3, <1>7, <2>1, <2>4 DEF IsInternal
    <3>2. over[h[n].children[i]] = h[n].children[i + 1]
      BY <2>1, <2>2, <3>1 DEF NextChild
    <3>3. NextChild(g, after1, n, i) = h[n].children[i + 1]
      <4>1. CASE i + 1 < left
        BY <1>7, <2>1, <4>1 DEF NextChild
      <4>2. CASE ~ (i + 1 < left)
        <5>1. i + 1 = left /\ 0 < B - left
          BY <2>1, <3>1, <4>2
        <5>2. g[new].children[0] = h[n].children[left]
          BY <1>7, <5>1
        <5> QED
          BY <1>0, <1>2, <1>7, <5>1, <5>2 DEF NextChild
      <4> QED
        BY <4>1, <4>2
    <3> QED
      BY <1>7, <2>1, <2>4, <3>1, <3>2, <3>3
  <2>5. CASE p = new
    <3>1. IsInternal(h, n) /\ i < B - left /\ left + i \in Position
      BY <1>0, <1>3, <1>7, <2>1, <2>5 DEF IsInternal
    <3>2. over[h[n].children[left + i]] = NextChild(h, after, n, left + i)
      BY <2>2, <3>1
    <3>3. NextChild(g, after1, new, i) = NextChild(h, after, n, left + i)
      <4>1. CASE i + 1 < B - left
        BY <1>7, <2>1, <4>1 DEF NextChild
      <4>2. CASE ~ (i + 1 < B - left)
        BY <1>0, <1>2, <1>7, <1>9, <2>1, <4>2 DEF NextChild
      <4> QED
        BY <4>1, <4>2
    <3> QED
      BY <1>7, <2>1, <2>5, <3>1, <3>2, <3>3
  <2> QED
    BY <2>3, <2>4, <2>5
<1>11. top # None => over[top] = None
  BY DEF Levels
<1> QED
  BY <1>1, <1>5, <1>10, <1>11, LevelsBy DEF after1

\* The leaf list and the kinds are as they were.
SameList(h, g) ==
  \A p \in Ptr : g[p].kind = h[p].kind /\ g[p].next = h[p].next

\* Then the nodes lead on as they did.
LEMMA LeadsOnFrame ==
  ASSUME NEW h, NEW g, SameList(h, g), NEW after, NEW gone, NEW p \in Allocated(h),
         LeadsOn(h, after, gone, p)
  PROVE  p \in Allocated(g) /\ LeadsOn(g, after, gone, p)
<1>1. Allocated(g) = Allocated(h) /\ p \in Ptr
  BY DEF SameList, Allocated
<1>2. after[p] # None => after[p] \in Ptr
  BY DEF LeadsOn, Allocated
<1> QED
  BY <1>1, <1>2 DEF SameList, LeadsOn, IsLeaf

\* x is what follows c on its level.
PutBehind(h, over, over1, c, x) ==
  /\ over1[c] = x /\ over1[x] = over[c]
  /\ \A p \in Allocated(h) : p # c /\ p # x => over1[p] = over[p]

\* A child inserted behind the child c of the same node.
LEMMA LevelsInsertedBehind ==
  ASSUME NEW h \in Heap, NEW lev, Tree(h, lev), NEW g,
         NEW n \in Allocated(h), IsInternal(h, n), h[n].length < B,
         NEW i \in 1..h[n].length, NEW x \in Roots(h),
         NEW sz, ChildInserted(h, g, n, i, x, sz),
         NEW over, NEW after, NEW top, top # x, IsTop(h, top), NEW gone,
         Levels(h, over, after, top, gone), top \in Roots(h) \cup {None},
         NEW over1, PutBehind(h, over, over1, h[n].children[i - 1], x)
  PROVE  Levels(g, over1, after, top, gone)
<1> DEFINE c == h[n].children[i - 1]
           len == h[n].length
<1>0. /\ n \in Ptr /\ x \in Allocated(h) /\ x \in Ptr /\ h[x].parent = None
      /\ len \in 0..B /\ x # None /\ B \in Nat /\ i \in Nat /\ i >= 1 /\ i <= len
      /\ len < B /\ i - 1 \in Position /\ i - 1 < len
  BY FieldTypes DEF Roots, Allocated
<1>1. c \in Allocated(h) /\ h[c].parent = n /\ h[c].index = i - 1 /\ n # None
  BY <1>0, ChildOf DEF Allocated
<1>2. c # x /\ c # top
  BY <1>0, <1>1 DEF Roots, Allocated
<1>3. after \in [Ptr -> PtrOrNone] /\ SameList(h, g)
  BY DEF Levels, SameList, ChildInserted
<1>4. Allocated(g) = Allocated(h) /\ \A p \in Ptr : IsInternal(g, p) = IsInternal(h, p)
  BY <1>3 DEF SameList, Allocated, IsInternal
<1>5. ASSUME NEW p \in Allocated(g) PROVE LeadsOn(g, after, gone \cup {top}, p)
  BY <1>3, <1>4, <1>5, LevelsAt, LeadsOnFrame
<1>6. top # None => over1[top] = None
  BY <1>2 DEF PutBehind, Levels, IsTop
<1>7. ASSUME NEW p \in Ptr, p # n
      PROVE  g[p].length = h[p].length /\ g[p].children = h[p].children
  BY <1>7 DEF ChildInserted
<1>8. /\ g[n].length = len + 1
      /\ g[n].children = RotateIn(h[n].children, i, len, x)
  BY <1>0 DEF ChildInserted
<1>9. /\ \A j \in Position : j < i => g[n].children[j] = h[n].children[j]
      /\ i \in Position /\ g[n].children[i] = x
      /\ \A j \in Position : i < j /\ j <= len =>
           g[n].children[j] = h[n].children[j - 1]
  BY <1>0, <1>8 DEF RotateIn
<1> HIDE DEF c, len
<1>10. ASSUME NEW p \in Allocated(h), after[p] # None
       PROVE  g[after[p]].children[0] = h[after[p]].children[0]
  <2>1. after[p] \in Ptr
    BY <1>10, LevelsAt DEF LeadsOn, Allocated
  <2> QED
    BY <1>0, <1>7, <1>9, <2>1
<1>11. ASSUME NEW p \in Allocated(h), IsInternal(h, p), NEW k \in Position,
              k < h[p].length
       PROVE  /\ over[h[p].children[k]] = NextChild(h, after, p, k)
              /\ h[p].children[k] \in Allocated(h)
              /\ h[h[p].children[k]].parent = p /\ h[h[p].children[k]].index = k
              /\ h[p].children[k] # x
  <2>1. ChildrenFollow(h, over, after, p)
    BY <1>11, LevelsAt
  <2>2. p # None
    BY <1>11 DEF Allocated
  <2> QED
    BY <1>0, <1>11, <2>1, <2>2, ChildOf DEF ChildrenFollow
<1>12. over1[c] = x /\ over1[x] = over[c]
  BY DEF PutBehind, c
<1>13. ASSUME NEW p \in Allocated(h), p # c, p # x PROVE over1[p] = over[p]
  BY <1>13 DEF PutBehind, c
<1>14. c = h[n].children[i - 1] /\ len = h[n].length
  BY DEF c, len
<1>15. ASSUME NEW p \in Allocated(g)
       PROVE  ChildrenFollow(g, over1, after, p)
  <2>1. SUFFICES ASSUME IsInternal(g, p), NEW k \in Position, k < g[p].length
                 PROVE  over1[g[p].children[k]] = NextChild(g, after, p, k)
    BY DEF ChildrenFollow
  <2>0. p \in Ptr /\ p \in Allocated(h) /\ IsInternal(h, p)
    BY <1>4, <1>15, <2>1 DEF Allocated
  <2>2. CASE p # n
    <3>1. g[p].length = h[p].length /\ g[p].children = h[p].children
      BY <1>7, <2>0, <2>2
    <3>2. over1[h[p].children[k]] = over[h[p].children[k]]
      BY <1>1, <1>11, <1>13, <2>0, <2>1, <2>2, <3>1
    <3>3. NextChild(g, after, p, k) = NextChild(h, after, p, k)
      BY <1>10, <2>0, <3>1 DEF NextChild
    <3> QED
      BY <1>11, <2>0, <2>1, <3>1, <3>2, <3>3
  <2>3. CASE p = n /\ k < i - 1
    <3>1. k \in Nat /\ k < len /\ k + 1 < i /\ k + 1 < len /\ k + 1 \in Position
      BY <1>0, <2>3
    <3>2. over1[h[n].children[k]] = over[h[n].children[k]]
      BY <1>0, <1>1, <1>11, <1>13, <1>14, <2>0, <2>3, <3>1
    <3>3. over[h[n].children[k]] = h[n].children[k + 1]
      BY <1>11, <1>14, <2>0, <2>3, <3>1 DEF NextChild
    <3>4. NextChild(g, after, n, k) = g[n].children[k + 1]
      BY <1>0, <1>8, <1>14, <3>1 DEF NextChild, len
    <3> QED
      BY <1>0, <1>9, <2>3, <3>1, <3>2, <3>3, <3>4
  <2>4. CASE p = n /\ k = i - 1
    <3>1. g[n].children[k] = c /\ NextChild(g, after, n, k) = g[n].children[i]
      BY <1>0, <1>8, <1>9, <1>14, <2>4 DEF NextChild, len
    <3> QED
      BY <1>9, <1>12, <2>4, <3>1
  <2>5. CASE p = n /\ k = i
    <3>1. g[n].children[k] = x
      BY <1>9, <2>5
    <3>2. over[c] = NextChild(h, after, n, i - 1)
      BY <1>0, <1>11, <1>14, <2>0, <2>5
    <3>3. CASE i < len
      <4>1. i + 1 \in Position /\ i + 1 <= len /\ i < i + 1
        BY <1>0, <3>3
      <4>2. g[n].children[i + 1] = h[n].children[i]
        BY <1>0, <1>9, <4>1
      <4>3. NextChild(g, after, n, i) = g[n].children[i + 1]
        BY <1>0, <1>8, <3>3 DEF NextChild, len
      <4>4. NextChild(h, after, n, i - 1) = h[n].children[i]
        BY <1>0, <1>14, <3>3 DEF NextChild
      <4> QED
        BY <1>12, <2>5, <3>1, <3>2, <4>2, <4>3, <4>4
    <3>4. CASE i = len
      <4>1. NextChild(g, after, n, i) =
              IF after[n] = None THEN None ELSE g[after[n]].children[0]
        BY <1>0, <1>8, <3>4 DEF NextChild, len
      <4>2. NextChild(h, after, n, i - 1) =
              IF after[n] = None THEN None ELSE h[after[n]].children[0]
        BY <1>0, <1>14, <3>4 DEF NextChild
      <4> QED
        BY <1>10, <1>12, <2>5, <3>1, <3>2, <4>1, <4>2
    <3> QED
      BY <1>0, <3>3, <3>4
  <2>6. CASE p = n /\ k > i
    <3>1. k - 1 \in Position /\ k - 1 < len /\ k <= len /\ k - 1 # i - 1
      BY <1>0, <1>8, <2>1, <2>6 DEF len
    <3>2. g[n].children[k] = h[n].children[k - 1]
      BY <1>9, <2>6, <3>1
    <3>3. over[h[n].children[k - 1]] = NextChild(h, after, n, k - 1)
      BY <1>11, <1>14, <2>0, <2>6, <3>1
    <3>4. over1[h[n].children[k - 1]] = over[h[n].children[k - 1]]
      BY <1>1, <1>11, <1>13, <1>14, <2>0, <2>6, <3>1
    <3>5. CASE k < len
      <4>1. k + 1 \in Position /\ i < k + 1 /\ k + 1 <= len
        BY <1>0, <2>6, <3>5
      <4>2. g[n].children[k + 1] = h[n].children[k]
        BY <1>0, <1>9, <2>6, <4>1
      <4>3. NextChild(g, after, n, k) = g[n].children[k + 1]
        BY <1>0, <1>8, <3>5 DEF NextChild, len
      <4>4. NextChild(h, after, n, k - 1) = h[n].children[k]
        BY <1>0, <1>14, <3>5 DEF NextChild
      <4> QED
        BY <2>6, <3>2, <3>3, <3>4, <4>2, <4>3, <4>4
    <3>6. CASE k = len
      <4>1. NextChild(g, after, n, k) =
              IF after[n] = None THEN None ELSE g[after[n]].children[0]
        BY <1>0, <1>8, <3>6 DEF NextChild, len
      <4>2. NextChild(h, after, n, k - 1) =
              IF after[n] = None THEN None ELSE h[after[n]].children[0]
        BY <1>0, <1>14, <3>6 DEF NextChild
      <4> QED
        BY <1>10, <2>0, <2>6, <3>2, <3>3, <3>4, <4>1, <4>2
    <3> QED
      BY <1>0, <3>1, <3>5, <3>6
  <2> QED
    BY <1>0, <2>2, <2>3, <2>4, <2>5, <2>6
<1> QED
  BY <1>3, <1>5, <1>6, <1>15, LevelsBy

\* What the order says of the children of a node, and that they are its own.
ChildFacts(h, over, after, p, k) ==
  /\ over[h[p].children[k]] = NextChild(h, after, p, k)
  /\ h[p].children[k] \in Allocated(h)
  /\ h[h[p].children[k]].parent = p /\ h[h[p].children[k]].index = k
  /\ h[p].children[k] # None /\ p # None

\* So it is of each child.
LEMMA ChildFactsAt ==
  ASSUME NEW h \in Heap, NEW lev, Tree(h, lev), NEW over, NEW after, NEW top,
         NEW gone, Levels(h, over, after, top, gone),
         NEW p \in Allocated(h), IsInternal(h, p),
         NEW k \in Position, k < h[p].length
  PROVE  ChildFacts(h, over, after, p, k)
<1>1. ChildrenFollow(h, over, after, p)
  BY LevelsAt
<1>2. p # None /\ k \in Nat
  BY DEF Allocated
<1>3. h[p].children[k] \in Allocated(h)
  BY <1>2, ChildOf
<1>4. h[p].children[k] # None
  BY <1>3 DEF Allocated
<1> QED
  BY <1>1, <1>2, <1>3, <1>4, ChildOf DEF ChildrenFollow, ChildFacts

\* A child inserted as the first of a node: it follows the last child of the
\* node before.
LEMMA LevelsInsertedFirst ==
  ASSUME NEW h \in Heap, NEW lev, Tree(h, lev), NEW g,
         NEW n \in Allocated(h), IsInternal(h, n), h[n].length < B,
         h[n].length >= 1, NEW x \in Roots(h),
         NEW sz, ChildInserted(h, g, n, 0, x, sz),
         NEW over, NEW after, NEW top, top # x, IsTop(h, top), NEW gone,
         Levels(h, over, after, top, gone), top \in Roots(h) \cup {None},
         NEW m \in Allocated(h), after[m] = n, h[m].length >= 1,
         NEW over1, PutBehind(h, over, over1, h[m].children[h[m].length - 1], x)
  PROVE  Levels(g, over1, after, top, gone)
<1> DEFINE last == h[m].length - 1
           c == h[m].children[last]
           len == h[n].length
<1>0. /\ n \in Ptr /\ x \in Allocated(h) /\ x \in Ptr /\ h[x].parent = None
      /\ len \in 0..B /\ x # None /\ n # None /\ B \in Nat
      /\ len < B /\ len >= 1 /\ m \in Ptr /\ h[m].length \in 0..B
      /\ last \in Position /\ last < h[m].length /\ last + 1 = h[m].length
      /\ 0 \in Position
  BY FieldTypes DEF Roots, Allocated
<1>m. IsInternal(h, m) /\ \A q \in Allocated(h) : after[q] = n => q = m
  BY <1>0, LevelsAt DEF LeadsOn, IsInternal
<1>1. ChildFacts(h, over, after, m, last)
  BY <1>0, <1>m, ChildFactsAt
<1>2. c # x /\ c # top /\ c \in Allocated(h) /\ h[c].parent = m /\ h[c].index = last
  BY <1>0, <1>1 DEF Roots, Allocated, ChildFacts
<1>3. after \in [Ptr -> PtrOrNone] /\ SameList(h, g)
  BY DEF Levels, SameList, ChildInserted
<1>4. Allocated(g) = Allocated(h) /\ \A p \in Ptr : IsInternal(g, p) = IsInternal(h, p)
  BY <1>3 DEF SameList, Allocated, IsInternal
<1>5. ASSUME NEW p \in Allocated(g) PROVE LeadsOn(g, after, gone \cup {top}, p)
  BY <1>3, <1>4, <1>5, LevelsAt, LeadsOnFrame
<1>6. top # None => over1[top] = None
  BY <1>2 DEF PutBehind, Levels, IsTop
<1>7. ASSUME NEW p \in Ptr, p # n
      PROVE  g[p].length = h[p].length /\ g[p].children = h[p].children
  BY <1>7 DEF ChildInserted
<1>8. /\ g[n].length = len + 1
      /\ g[n].children = RotateIn(h[n].children, 0, len, x)
  BY <1>0 DEF ChildInserted
<1>9. /\ g[n].children[0] = x
      /\ \A j \in Position : 0 < j /\ j <= len =>
           g[n].children[j] = h[n].children[j - 1]
  BY <1>0, <1>8 DEF RotateIn
<1> HIDE DEF c, len, last
<1>10. ASSUME NEW p \in Allocated(h), after[p] # None, p # m
       PROVE  g[after[p]].children[0] = h[after[p]].children[0]
  <2>1. after[p] \in Ptr /\ after[p] # n
    BY <1>m, <1>10, LevelsAt DEF LeadsOn, Allocated
  <2> QED
    BY <1>7, <2>1
<1>12. over1[c] = x /\ over1[x] = over[c]
  BY DEF PutBehind, c, last
<1>13. ASSUME NEW p \in Allocated(h), p # c, p # x PROVE over1[p] = over[p]
  BY <1>13 DEF PutBehind, c, last
<1>14. /\ c = h[m].children[last] /\ len = h[n].length
       /\ last + 1 = h[m].length /\ last \in Nat
  BY <1>0 DEF c, len, last
<1>t. over[c] = h[n].children[0]
  BY <1>0, <1>1, <1>14 DEF ChildFacts, NextChild
<1>15. ASSUME NEW p \in Allocated(g)
       PROVE  ChildrenFollow(g, over1, after, p)
  <2>1. SUFFICES ASSUME IsInternal(g, p), NEW k \in Position, k < g[p].length
                 PROVE  over1[g[p].children[k]] = NextChild(g, after, p, k)
    BY DEF ChildrenFollow
  <2>0. p \in Ptr /\ p \in Allocated(h) /\ IsInternal(h, p) /\ k \in Nat
    BY <1>4, <1>15, <2>1 DEF Allocated
  <2>a. ASSUME NEW j \in Position, j < h[p].length, ~ (p = m /\ j = last)
        PROVE  /\ ChildFacts(h, over, after, p, j)
               /\ over1[h[p].children[j]] = over[h[p].children[j]]
    <3>1. ChildFacts(h, over, after, p, j)
      BY <2>0, <2>a, ChildFactsAt
    <3> QED
      BY <1>0, <1>2, <1>13, <2>a, <3>1 DEF ChildFacts
  <2>n. \/ p = n /\ k = 0
        \/ p = n /\ k > 0
        \/ p # n /\ p = m /\ k = last
        \/ p # n /\ ~ (p = m /\ k = last)
    BY <1>0
  <2>2. CASE p # n /\ ~ (p = m /\ k = last)
    <3>1. g[p].length = h[p].length /\ g[p].children = h[p].children
      BY <1>7, <2>0, <2>2
    <3>2. /\ ChildFacts(h, over, after, p, k)
          /\ over1[h[p].children[k]] = over[h[p].children[k]]
      BY <2>a, <2>1, <2>2, <3>1
    <3>3. NextChild(g, after, p, k) = NextChild(h, after, p, k)
      <4>1. CASE k + 1 < h[p].length
        BY <3>1, <4>1 DEF NextChild
      <4>2. CASE ~ (k + 1 < h[p].length)
        <5>1. p # m
          BY <1>14, <2>0, <2>1, <2>2, <3>1, <4>2
        <5> QED
          BY <1>10, <2>0, <3>1, <5>1 DEF NextChild
      <4> QED
        BY <4>1, <4>2
    <3> QED
      BY <3>1, <3>2, <3>3 DEF ChildFacts
  <2>3. CASE p # n /\ p = m /\ k = last
    <3>1. g[m].length = h[m].length /\ g[m].children = h[m].children
      BY <1>0, <1>7, <2>3
    <3>2. NextChild(g, after, m, last) = g[n].children[0]
      BY <1>0, <1>14, <3>1 DEF NextChild
    <3> QED
      BY <1>9, <1>12, <1>14, <2>3, <3>1, <3>2
  <2>4. CASE p = n /\ k = 0
    <3>1. 1 \in Position /\ g[n].children[1] = h[n].children[0]
      <4>1. 1 \in Position /\ 0 < 1 /\ 1 <= len /\ 1 - 1 = 0
        BY <1>0, <1>14
      <4> QED
        BY <1>9, <4>1
    <3>2. NextChild(g, after, n, 0) = g[n].children[1]
      BY <1>0, <1>8, <1>14 DEF NextChild
    <3> QED
      BY <1>9, <1>12, <1>t, <2>4, <3>1, <3>2
  <2>5. CASE p = n /\ k > 0
    <3>1. k - 1 \in Position /\ k - 1 < len /\ k <= len
      BY <1>0, <1>8, <1>14, <2>1, <2>5
    <3>2. g[n].children[k] = h[n].children[k - 1]
      BY <1>9, <2>5, <3>1
    <3>3. CASE n = m /\ k - 1 = last
      <4>1. k = len /\ g[n].length = len + 1 /\ after[n] = n
        BY <1>0, <1>8, <1>14, <3>3
      <4>2. NextChild(g, after, n, k) = g[n].children[0]
        BY <1>0, <4>1 DEF NextChild
      <4> QED
        BY <1>9, <1>12, <1>14, <2>5, <3>2, <3>3, <4>2
    <3>4. CASE ~ (n = m /\ k - 1 = last)
      <4>1. /\ ChildFacts(h, over, after, n, k - 1)
            /\ over1[h[n].children[k - 1]] = over[h[n].children[k - 1]]
        BY <1>14, <2>a, <2>5, <3>1, <3>4
      <4>2. CASE k < len
        <5>1. k + 1 \in Position /\ 0 < k + 1 /\ k + 1 <= len /\ (k + 1) - 1 = k
              /\ (k - 1) + 1 = k
          BY <1>0, <1>14, <2>0, <4>2
        <5>2. g[n].children[k + 1] = h[n].children[k]
          BY <1>9, <5>1
        <5>3. NextChild(g, after, n, k) = g[n].children[k + 1]
          BY <1>0, <1>8, <1>14, <2>0, <4>2 DEF NextChild
        <5>4. NextChild(h, after, n, k - 1) = h[n].children[k]
          BY <1>14, <4>2, <5>1 DEF NextChild
        <5> QED
          BY <2>5, <3>2, <4>1, <5>2, <5>3, <5>4 DEF ChildFacts
      <4>3. CASE k = len
        <5>0. n # m
          BY <1>0, <1>14, <3>4, <4>3
        <5>1. NextChild(g, after, n, k) =
                IF after[n] = None THEN None ELSE g[after[n]].children[0]
          BY <1>0, <1>8, <1>14, <4>3 DEF NextChild
        <5>2. NextChild(h, after, n, k - 1) =
                IF after[n] = None THEN None ELSE h[after[n]].children[0]
          BY <1>0, <1>14, <4>3 DEF NextChild
        <5> QED
          BY <1>10, <2>5, <3>2, <4>1, <5>0, <5>1, <5>2 DEF ChildFacts
      <4> QED
        BY <1>0, <1>14, <3>1, <4>2, <4>3
    <3> QED
      BY <3>3, <3>4
  <2> QED
    BY <2>n, <2>2, <2>3, <2>4, <2>5
<1> QED
  BY <1>3, <1>5, <1>6, <1>15, LevelsBy

\* What followed x follows c.
TakenFrom(h, over, over1, c, x) ==
  /\ over1[c] = over[x]
  /\ \A p \in Allocated(h) : p # c /\ p # x => over1[p] = over[p]

\* A child, not the first, taken out of a node.
LEMMA LevelsRemoved ==
  ASSUME NEW h \in Heap, NEW lev, Tree(h, lev), NEW g,
         NEW n \in Allocated(h), IsInternal(h, n),
         NEW i \in Nat, i >= 1, i < h[n].length, ChildRemoved(h, g, n, i),
         NEW over, NEW after, NEW top, NEW gone,
         Levels(h, over, after, top, gone), top \in Roots(h) \cup {None},
         NEW over1,
         TakenFrom(h, over, over1, h[n].children[i - 1], h[n].children[i])
  PROVE  Levels(g, over1, after, top, gone)
<1> DEFINE c == h[n].children[i - 1]
           x == h[n].children[i]
           len == h[n].length
<1>0. /\ n \in Ptr /\ len \in 0..B /\ n # None /\ B \in Nat
      /\ i - 1 \in Position /\ i - 1 < len /\ i \in Position /\ i < len
      /\ 0 \in Position
  BY FieldTypes DEF Allocated
<1>1. ChildFacts(h, over, after, n, i - 1) /\ ChildFacts(h, over, after, n, i)
  BY <1>0, ChildFactsAt
<1>2. /\ c \in Allocated(h) /\ h[c].parent = n /\ h[c].index = i - 1
      /\ x \in Allocated(h) /\ h[x].parent = n /\ h[x].index = i
      /\ over[x] = NextChild(h, after, n, i)
  BY <1>1 DEF ChildFacts
<1>3. after \in [Ptr -> PtrOrNone] /\ SameList(h, g)
  BY DEF Levels, SameList, ChildRemoved
<1>4. Allocated(g) = Allocated(h) /\ \A p \in Ptr : IsInternal(g, p) = IsInternal(h, p)
  BY <1>3 DEF SameList, Allocated, IsInternal
<1>5. ASSUME NEW p \in Allocated(g) PROVE LeadsOn(g, after, gone \cup {top}, p)
  BY <1>3, <1>4, <1>5, LevelsAt, LeadsOnFrame
<1>6. top # None => over1[top] = None
  <2>1. top # None => top \in Allocated(h) /\ h[top].parent = None
    BY DEF Roots
  <2>2. top # None => over[top] = None
    BY DEF Levels
  <2> QED
    BY <1>0, <1>2, <2>1, <2>2 DEF TakenFrom
<1>7. ASSUME NEW p \in Ptr, p # n
      PROVE  g[p].length = h[p].length /\ g[p].children = h[p].children
  BY <1>7 DEF ChildRemoved
<1>8. /\ g[n].length = len - 1
      /\ g[n].children = RotateOut(h[n].children, i, len, None)
  BY <1>0 DEF ChildRemoved
<1>9. /\ \A j \in Position : j < i => g[n].children[j] = h[n].children[j]
      /\ \A j \in Position : i <= j /\ j < len - 1 =>
           g[n].children[j] = h[n].children[j + 1]
  BY <1>0, <1>8 DEF RotateOut
<1>12. over1[c] = over[x]
  BY DEF TakenFrom
<1>13. ASSUME NEW p \in Allocated(h), p # c, p # x PROVE over1[p] = over[p]
  BY <1>13 DEF TakenFrom
<1>14. c = h[n].children[i - 1] /\ len = h[n].length /\ x = h[n].children[i]
  OBVIOUS
<1> HIDE DEF c, len, x
<1>10. ASSUME NEW p \in Allocated(h), after[p] # None
       PROVE  g[after[p]].children[0] = h[after[p]].children[0]
  <2>1. after[p] \in Ptr
    BY <1>10, LevelsAt DEF LeadsOn, Allocated
  <2> QED
    BY <1>0, <1>7, <1>9, <2>1
<1>15. ASSUME NEW p \in Allocated(g)
       PROVE  ChildrenFollow(g, over1, after, p)
  <2>1. SUFFICES ASSUME IsInternal(g, p), NEW k \in Position, k < g[p].length
                 PROVE  over1[g[p].children[k]] = NextChild(g, after, p, k)
    BY DEF ChildrenFollow
  <2>0. p \in Ptr /\ p \in Allocated(h) /\ IsInternal(h, p) /\ k \in Nat
    BY <1>4, <1>15, <2>1 DEF Allocated
  <2>a. ASSUME NEW j \in Position, j < h[p].length, p = n => j # i - 1 /\ j # i
        PROVE  /\ ChildFacts(h, over, after, p, j)
               /\ over1[h[p].children[j]] = over[h[p].children[j]]
    <3>1. ChildFacts(h, over, after, p, j)
      BY <2>0, <2>a, ChildFactsAt
    <3>2. h[p].children[j] # c /\ h[p].children[j] # x
      BY <1>2, <2>a, <3>1 DEF ChildFacts
    <3> QED
      BY <1>13, <3>1, <3>2 DEF ChildFacts
  <2>n. \/ p # n
        \/ p = n /\ k < i - 1
        \/ p = n /\ k = i - 1
        \/ p = n /\ k >= i
    BY <1>0, <2>0
  <2>2. CASE p # n
    <3>1. g[p].length = h[p].length /\ g[p].children = h[p].children
      BY <1>7, <2>0, <2>2
    <3>2. /\ ChildFacts(h, over, after, p, k)
          /\ over1[h[p].children[k]] = over[h[p].children[k]]
      BY <2>a, <2>1, <2>2, <3>1
    <3>3. NextChild(g, after, p, k) = NextChild(h, after, p, k)
      BY <1>10, <2>0, <3>1 DEF NextChild
    <3> QED
      BY <3>1, <3>2, <3>3 DEF ChildFacts
  <2>3. CASE p = n /\ k < i - 1
    <3>1. /\ k + 1 < i /\ k + 1 < len - 1 /\ k < len /\ k + 1 \in Position /\ k < i
          /\ k # i - 1 /\ k # i /\ k + 1 < len
      BY <1>0, <2>0, <2>3
    <3>2. /\ ChildFacts(h, over, after, n, k)
          /\ over1[h[n].children[k]] = over[h[n].children[k]]
      BY <1>14, <2>a, <2>3, <3>1
    <3>3. NextChild(h, after, n, k) = h[n].children[k + 1]
      BY <1>14, <3>1 DEF NextChild
    <3>4. NextChild(g, after, n, k) = g[n].children[k + 1]
      BY <1>8, <3>1 DEF NextChild
    <3> QED
      BY <1>9, <2>3, <3>1, <3>2, <3>3, <3>4 DEF ChildFacts
  <2>4. CASE p = n /\ k = i - 1
    <3>1. g[n].children[k] = c
      BY <1>0, <1>9, <1>14, <2>4
    <3>2. CASE i + 1 < len
      <4>1. i <= i /\ i < len - 1 /\ k + 1 = i
        BY <1>0, <2>4, <3>2
      <4>2. g[n].children[i] = h[n].children[i + 1]
        BY <1>0, <1>9, <4>1
      <4>3. NextChild(g, after, n, k) = g[n].children[i]
        BY <1>8, <4>1 DEF NextChild
      <4>4. NextChild(h, after, n, i) = h[n].children[i + 1]
        BY <1>14, <3>2 DEF NextChild
      <4> QED
        BY <1>2, <1>12, <2>4, <3>1, <4>2, <4>3, <4>4
    <3>3. CASE ~ (i + 1 < len)
      <4>1. ~ (k + 1 < len - 1)
        BY <1>0, <2>4, <3>3
      <4>2. NextChild(g, after, n, k) =
              IF after[n] = None THEN None ELSE g[after[n]].children[0]
        BY <1>8, <4>1 DEF NextChild
      <4>3. NextChild(h, after, n, i) =
              IF after[n] = None THEN None ELSE h[after[n]].children[0]
        BY <1>14, <3>3 DEF NextChild
      <4> QED
        BY <1>2, <1>10, <1>12, <2>4, <3>1, <4>2, <4>3
    <3> QED
      BY <3>2, <3>3
  <2>5. CASE p = n /\ k >= i
    <3>1. /\ k < len - 1 /\ k + 1 \in Position /\ k + 1 < len
          /\ k + 1 # i - 1 /\ k + 1 # i
      BY <1>0, <1>8, <2>0, <2>1, <2>5
    <3>2. /\ ChildFacts(h, over, after, n, k + 1)
          /\ over1[h[n].children[k + 1]] = over[h[n].children[k + 1]]
      BY <1>14, <2>a, <2>5, <3>1
    <3>3. g[n].children[k] = h[n].children[k + 1]
      BY <1>9, <2>5, <3>1
    <3>4. CASE k + 1 < len - 1
      <4>1. i <= k + 1 /\ (k + 1) + 1 < len
        BY <1>0, <2>0, <2>5, <3>4
      <4>2. g[n].children[k + 1] = h[n].children[(k + 1) + 1]
        BY <1>9, <3>1, <3>4, <4>1
      <4>3. NextChild(g, after, n, k) = g[n].children[k + 1]
        BY <1>8, <3>4 DEF NextChild
      <4>4. NextChild(h, after, n, k + 1) = h[n].children[(k + 1) + 1]
        BY <1>14, <4>1 DEF NextChild
      <4> QED
        BY <2>5, <3>2, <3>3, <4>2, <4>3, <4>4 DEF ChildFacts
    <3>5. CASE ~ (k + 1 < len - 1)
      <4>1. ~ ((k + 1) + 1 < len)
        BY <1>0, <2>0, <3>5
      <4>2. NextChild(g, after, n, k) =
              IF after[n] = None THEN None ELSE g[after[n]].children[0]
        BY <1>8, <3>5 DEF NextChild
      <4>3. NextChild(h, after, n, k + 1) =
              IF after[n] = None THEN None ELSE h[after[n]].children[0]
        BY <1>14, <4>1 DEF NextChild
      <4> QED
        BY <1>10, <2>0, <2>5, <3>2, <3>3, <4>2, <4>3 DEF ChildFacts
    <3> QED
      BY <3>4, <3>5
  <2> QED
    BY <2>n, <2>2, <2>3, <2>4, <2>5
<1> QED
  BY <1>3, <1>5, <1>6, <1>15, LevelsBy

\* src leaves the list in which it followed dest.
Bypassed(after, dest, src) == [after EXCEPT ![dest] = after[src], ![src] = None]

\* A node merged into the one before: its children follow those of the other,
\* and it is out of the list.
LEMMA LevelsMerged ==
  ASSUME NEW h \in Heap, NEW lev, Tree(h, lev), NEW g, NEW dest, NEW src,
         Mergeable(h, lev, dest, src), NodesMerged(h, g, dest, src),
         NEW over, NEW after, NEW top, NEW gone,
         Levels(h, over, after, top, gone), after[dest] = src,
         IsInternal(h, src) => h[src].length >= 1
  PROVE  Levels(g, over, Bypassed(after, dest, src), top, gone \cup {src})
<1> DEFINE after1 == Bypassed(after, dest, src)
           len == h[dest].length
           more == h[src].length
<1>0. /\ dest \in Allocated(h) /\ src \in Allocated(h) /\ dest # src
      /\ dest \in Ptr /\ src \in Ptr /\ dest # None /\ src # None
      /\ len \in 0..B /\ more \in 0..B /\ len + more <= B /\ B \in Nat
      /\ 0 \in Position
  BY FieldTypes DEF Mergeable, Allocated
<1>1. after \in [Ptr -> PtrOrNone] /\ after1 \in [Ptr -> PtrOrNone]
  BY <1>0 DEF Levels, Bypassed, PtrOrNone
<1>2. /\ after1[dest] = after[src] /\ after1[src] = None
      /\ \A p \in Ptr \ {dest, src} : after1[p] = after[p]
  BY <1>0, <1>1 DEF Bypassed
<1>3. \A p \in Ptr : g[p].kind = h[p].kind
  BY DEF NodesMerged
<1>4. ASSUME NEW p \in Allocated(h) PROVE LeadsOn(h, after, gone \cup {top}, p)
  BY <1>4, LevelsAt
<1>5. /\ h[src].kind = h[dest].kind
      /\ \A q \in Allocated(h) : after[q] = src => q = dest
  BY <1>0, <1>4 DEF LeadsOn
<1>6. Allocated(g) = Allocated(h) /\ \A p \in Ptr : IsInternal(g, p) = IsInternal(h, p)
  BY <1>3 DEF Allocated, IsInternal
<1>7. /\ IsLeaf(h, dest) => g[dest].next = h[src].next /\ g[src].next = None
      /\ \A p \in Ptr \ {dest, src} : g[p].next = h[p].next
  BY <1>0 DEF NodesMerged
<1>8. after[src] # src
  BY <1>0, <1>5
<1> HIDE DEF after1
<1>9. ASSUME NEW p \in Allocated(g)
      PROVE  LeadsOn(g, after1, (gone \cup {src}) \cup {top}, p)
  <2>0. p \in Ptr /\ p \in Allocated(h)
    BY <1>6, <1>9 DEF Allocated
  <2>1. CASE p = src
    BY <1>0, <1>2, <1>3, <1>5, <1>7, <2>1 DEF LeadsOn, IsLeaf
  <2>2. CASE p # src
    <3> DEFINE o == IF p = dest THEN src ELSE p
    <3>1. /\ o \in Allocated(h) /\ o \in Ptr /\ after1[p] = after[o]
          /\ h[o].kind = h[p].kind /\ (o = src <=> p = dest) /\ (o # src => o = p)
          /\ after[o] # src
      BY <1>0, <1>2, <1>5, <1>8, <2>0, <2>2
    <3>2. IsLeaf(g, p) => g[p].next = after[o]
      <4>1. IsLeaf(h, o) => h[o].next = after[o]
        BY <1>4, <3>1 DEF LeadsOn
      <4>2. IsLeaf(g, p) => IsLeaf(h, o)
        BY <1>3, <2>0, <3>1 DEF IsLeaf
      <4>3. IsLeaf(h, o) => g[p].next = h[o].next
        BY <1>5, <1>7, <2>0, <2>2, <3>1 DEF IsLeaf
      <4> QED
        BY <4>1, <4>2, <4>3
    <3> HIDE DEF o
    <3>3. ASSUME after[o] # None
          PROVE  /\ after[o] \in Allocated(h) \ (gone \cup {top})
                 /\ h[after[o]].kind = h[o].kind
                 /\ \A q \in Allocated(h) : after[q] = after[o] => q = o
      BY <1>4, <3>1, <3>3 DEF LeadsOn
    <3>4. ASSUME after[o] # None, NEW q \in Allocated(h), after1[q] = after[o]
          PROVE  q = p
      <4>1. CASE q = dest
        BY <1>0, <1>2, <3>1, <3>3, <3>4, <4>1
      <4>2. CASE q = src
        BY <1>2, <3>4, <4>2
      <4>3. CASE q # dest /\ q # src
        <5>1. after1[q] = after[q]
          BY <1>2, <3>4, <4>3 DEF Allocated
        <5> QED
          BY <3>1, <3>3, <3>4, <4>3, <5>1
      <4> QED
        BY <4>1, <4>2, <4>3
    <3>5. after[o] # None => /\ after[o] \in Allocated(g) \ ((gone \cup {src}) \cup {top})
                             /\ g[after[o]].kind = g[p].kind
      BY <1>3, <1>6, <2>0, <3>1, <3>3 DEF Allocated
    <3> QED
      BY <1>6, <3>1, <3>2, <3>4, <3>5 DEF LeadsOn
  <2> QED
    BY <2>1, <2>2
<1>10. ASSUME NEW p \in Ptr \ {dest, src}
       PROVE  g[p].length = h[p].length /\ g[p].children = h[p].children
  BY <1>10 DEF NodesMerged
<1>11. /\ g[dest].length = len + more /\ g[src].length = 0
       /\ g[dest].children = Joined(h[dest].children, len, h[src].children, more)
  BY <1>0 DEF NodesMerged
<1>12. /\ \A j \in Position : j < len => g[dest].children[j] = h[dest].children[j]
       /\ \A j \in Position : len <= j /\ j < len + more =>
            g[dest].children[j] = h[src].children[j - len]
  BY <1>0, <1>11 DEF Joined
<1>13. IsInternal(h, dest) => len >= 1 /\ more >= 1
  BY <1>5 DEF Mergeable, IsInternal
<1>14. ASSUME NEW q \in Ptr, q # src, IsInternal(h, q)
       PROVE  g[q].children[0] = h[q].children[0]
  BY <1>0, <1>10, <1>12, <1>13, <1>14
<1> HIDE DEF len, more
<1>15. ASSUME NEW p \in Allocated(h), IsInternal(h, p), after[p] # None, after[p] # src
       PROVE  g[after[p]].children[0] = h[after[p]].children[0]
  <2>1. after[p] \in Ptr /\ IsInternal(h, after[p])
    BY <1>4, <1>15 DEF LeadsOn, IsInternal, Allocated
  <2> QED
    BY <1>14, <1>15, <2>1
<1>16. ASSUME NEW p \in Allocated(g)
       PROVE  ChildrenFollow(g, over, after1, p)
  <2>1. SUFFICES ASSUME IsInternal(g, p), NEW k \in Position, k < g[p].length
                 PROVE  over[g[p].children[k]] = NextChild(g, after1, p, k)
    BY DEF ChildrenFollow
  <2>0. p \in Ptr /\ p \in Allocated(h) /\ IsInternal(h, p) /\ k \in Nat
    BY <1>6, <1>16, <2>1 DEF Allocated
  <2>a. ASSUME NEW q \in Allocated(h), IsInternal(h, q), NEW j \in Position,
               j < h[q].length
        PROVE  over[h[q].children[j]] = NextChild(h, after, q, j)
    <3>1. ChildrenFollow(h, over, after, q)
      BY <2>a, LevelsAt
    <3> QED
      BY <2>a, <3>1 DEF ChildrenFollow
  <2>n. p # src
    BY <1>11, <2>0, <2>1
  <2>2. CASE p # dest
    <3>1. /\ g[p].length = h[p].length /\ g[p].children = h[p].children
          /\ after1[p] = after[p] /\ after[p] # src
      BY <1>2, <1>5, <1>10, <2>0, <2>2, <2>n
    <3>2. NextChild(g, after1, p, k) = NextChild(h, after, p, k)
      BY <1>15, <2>0, <3>1 DEF NextChild
    <3> QED
      BY <2>0, <2>1, <2>a, <3>1, <3>2
  <2>3. CASE p = dest /\ k < len
    <3>0. len = h[dest].length /\ more >= 1 /\ more \in Nat /\ len \in Nat
          /\ len + more <= B
      BY <1>0, <1>13, <2>0, <2>3 DEF len, more
    <3>1. /\ g[dest].children[k] = h[dest].children[k]
          /\ over[h[dest].children[k]] = NextChild(h, after, dest, k)
      BY <1>12, <2>0, <2>3, <2>a, <3>0
    <3>2. CASE k + 1 < len
      <4>1. k + 1 \in Position /\ k + 1 < len + more
        BY <1>0, <2>0, <3>0, <3>2
      <4>2. NextChild(g, after1, dest, k) = g[dest].children[k + 1]
        BY <1>11, <4>1 DEF NextChild
      <4>3. NextChild(h, after, dest, k) = h[dest].children[k + 1]
        BY <3>0, <3>2 DEF NextChild
      <4> QED
        BY <1>12, <2>3, <3>1, <3>2, <4>1, <4>2, <4>3
    <3>3. CASE ~ (k + 1 < len)
      <4>1. /\ k + 1 \in Position /\ k + 1 < len + more /\ len <= k + 1
            /\ (k + 1) - len = 0
        BY <1>0, <2>0, <2>3, <3>0, <3>3
      <4>2. NextChild(g, after1, dest, k) = g[dest].children[k + 1]
        BY <1>11, <4>1 DEF NextChild
      <4>3. NextChild(h, after, dest, k) = h[src].children[0]
        BY <1>0, <3>0, <3>3 DEF NextChild
      <4>4. g[dest].children[k + 1] = h[src].children[0]
        BY <1>12, <4>1
      <4> QED
        BY <2>3, <3>1, <4>2, <4>3, <4>4
    <3> QED
      BY <3>2, <3>3
  <2>4. CASE p = dest /\ ~ (k < len)
    <3>0. /\ len = h[dest].length /\ more = h[src].length /\ IsInternal(h, src)
          /\ more \in Nat /\ len \in Nat /\ k - len \in Position /\ k - len < more
          /\ len <= k /\ k < len + more /\ (k + 1) - len = (k - len) + 1
      BY <1>0, <1>5, <1>11, <2>0, <2>1, <2>4 DEF len, more, IsInternal
    <3>1. /\ g[dest].children[k] = h[src].children[k - len]
          /\ over[h[src].children[k - len]] = NextChild(h, after, src, k - len)
      BY <1>0, <1>12, <2>a, <3>0
    <3>2. CASE k + 1 < len + more
      <4>1. k + 1 \in Position /\ len <= k + 1 /\ (k - len) + 1 < more
        BY <1>0, <2>0, <3>0, <3>2
      <4>2. NextChild(g, after1, dest, k) = g[dest].children[k + 1]
        BY <1>11, <3>2 DEF NextChild
      <4>3. NextChild(h, after, src, k - len) = h[src].children[(k - len) + 1]
        BY <3>0, <4>1 DEF NextChild
      <4>4. g[dest].children[k + 1] = h[src].children[(k + 1) - len]
        BY <1>12, <3>2, <4>1
      <4> QED
        BY <2>4, <3>0, <3>1, <4>2, <4>3, <4>4
    <3>3. CASE ~ (k + 1 < len + more)
      <4>1. ~ ((k - len) + 1 < more)
        BY <2>0, <3>0, <3>3
      <4>2. NextChild(g, after1, dest, k) =
              IF after[src] = None THEN None ELSE g[after[src]].children[0]
        BY <1>2, <1>11, <3>3 DEF NextChild
      <4>3. NextChild(h, after, src, k - len) =
              IF after[src] = None THEN None ELSE h[after[src]].children[0]
        BY <3>0, <4>1 DEF NextChild
      <4> QED
        BY <1>0, <1>8, <1>15, <2>4, <3>0, <3>1, <4>2, <4>3
    <3> QED
      BY <3>2, <3>3
  <2> QED
    BY <2>2, <2>3, <2>4
<1>17. top # None => over[top] = None
  BY DEF Levels
<1> QED
  BY <1>1, <1>9, <1>16, <1>17, LevelsBy DEF after1

\* The first child taken out of a node that has another: what is then the first
\* follows the last child of the node before.
LEMMA LevelsRemovedFirst ==
  ASSUME NEW h \in Heap, NEW lev, Tree(h, lev), NEW g,
         NEW n \in Allocated(h), IsInternal(h, n),
         h[n].length >= 2, ChildRemoved(h, g, n, 0),
         NEW over, NEW after, NEW top, NEW gone,
         Levels(h, over, after, top, gone), top \in Roots(h) \cup {None},
         NEW m \in Allocated(h), m # n, after[m] = n, h[m].length >= 1,
         NEW over1,
         TakenFrom(h, over, over1, h[m].children[h[m].length - 1], h[n].children[0])
  PROVE  Levels(g, over1, after, top, gone)
<1> DEFINE last == h[m].length - 1
           c == h[m].children[last]
           x == h[n].children[0]
           len == h[n].length
<1>0. /\ n \in Ptr /\ len \in 0..B /\ n # None /\ B \in Nat /\ len >= 2
      /\ 0 \in Position /\ 0 < len /\ m \in Ptr /\ h[m].length \in 0..B
      /\ last \in Position /\ last < h[m].length /\ last + 1 = h[m].length
  BY FieldTypes DEF Allocated
<1>m. IsInternal(h, m) /\ \A q \in Allocated(h) : after[q] = n => q = m
  BY <1>0, LevelsAt DEF LeadsOn, IsInternal
<1>1. ChildFacts(h, over, after, m, last) /\ ChildFacts(h, over, after, n, 0)
  BY <1>0, <1>m, ChildFactsAt
<1>2. /\ c \in Allocated(h) /\ h[c].parent = m /\ h[c].index = last
      /\ x \in Allocated(h) /\ h[x].parent = n /\ h[x].index = 0
      /\ over[x] = NextChild(h, after, n, 0)
  BY <1>1 DEF ChildFacts
<1>3. after \in [Ptr -> PtrOrNone] /\ SameList(h, g)
  BY DEF Levels, SameList, ChildRemoved
<1>4. Allocated(g) = Allocated(h) /\ \A p \in Ptr : IsInternal(g, p) = IsInternal(h, p)
  BY <1>3 DEF SameList, Allocated, IsInternal
<1>5. ASSUME NEW p \in Allocated(g) PROVE LeadsOn(g, after, gone \cup {top}, p)
  BY <1>3, <1>4, <1>5, LevelsAt, LeadsOnFrame
<1>6. top # None => over1[top] = None
  <2>1. top # None => top \in Allocated(h) /\ h[top].parent = None
    BY DEF Roots
  <2>2. top # None => over[top] = None
    BY DEF Levels
  <2>3. m # None
    BY <1>0
  <2> QED
    BY <1>0, <1>2, <2>1, <2>2, <2>3 DEF TakenFrom
<1>7. ASSUME NEW p \in Ptr, p # n
      PROVE  g[p].length = h[p].length /\ g[p].children = h[p].children
  BY <1>7 DEF ChildRemoved
<1>8. /\ g[n].length = len - 1
      /\ g[n].children = RotateOut(h[n].children, 0, len, None)
  BY <1>0 DEF ChildRemoved
<1>9. \A j \in Position : j < len - 1 => g[n].children[j] = h[n].children[j + 1]
  BY <1>0, <1>8 DEF RotateOut
<1>12. over1[c] = over[x]
  BY DEF TakenFrom
<1>13. ASSUME NEW p \in Allocated(h), p # c, p # x PROVE over1[p] = over[p]
  BY <1>13 DEF TakenFrom
<1>14. /\ c = h[m].children[last] /\ len = h[n].length /\ x = h[n].children[0]
       /\ last + 1 = h[m].length /\ last \in Nat
  BY <1>0
<1> HIDE DEF c, len, x, last
<1>10. ASSUME NEW p \in Allocated(h), after[p] # None, p # m
       PROVE  g[after[p]].children[0] = h[after[p]].children[0]
  <2>1. after[p] \in Ptr /\ after[p] # n
    BY <1>m, <1>10, LevelsAt DEF LeadsOn, Allocated
  <2> QED
    BY <1>7, <2>1
<1>15. ASSUME NEW p \in Allocated(g)
       PROVE  ChildrenFollow(g, over1, after, p)
  <2>1. SUFFICES ASSUME IsInternal(g, p), NEW k \in Position, k < g[p].length
                 PROVE  over1[g[p].children[k]] = NextChild(g, after, p, k)
    BY DEF ChildrenFollow
  <2>0. p \in Ptr /\ p \in Allocated(h) /\ IsInternal(h, p) /\ k \in Nat
    BY <1>4, <1>15, <2>1 DEF Allocated
  <2>a. ASSUME NEW j \in Position, j < h[p].length, ~ (p = n /\ j = 0),
               ~ (p = m /\ j = last)
        PROVE  /\ ChildFacts(h, over, after, p, j)
               /\ over1[h[p].children[j]] = over[h[p].children[j]]
    <3>1. ChildFacts(h, over, after, p, j)
      BY <2>0, <2>a, ChildFactsAt
    <3>2. h[p].children[j] # c /\ h[p].children[j] # x
      BY <1>2, <2>a, <3>1 DEF ChildFacts
    <3> QED
      BY <1>13, <3>1, <3>2 DEF ChildFacts
  <2>n. \/ p = n
        \/ p # n /\ p = m /\ k = last
        \/ p # n /\ ~ (p = m /\ k = last)
    OBVIOUS
  <2>2. CASE p # n /\ ~ (p = m /\ k = last)
    <3>1. g[p].length = h[p].length /\ g[p].children = h[p].children
      BY <1>7, <2>0, <2>2
    <3>2. /\ ChildFacts(h, over, after, p, k)
          /\ over1[h[p].children[k]] = over[h[p].children[k]]
      BY <2>a, <2>1, <2>2, <3>1
    <3>3. NextChild(g, after, p, k) = NextChild(h, after, p, k)
      <4>1. CASE k + 1 < h[p].length
        BY <3>1, <4>1 DEF NextChild
      <4>2. CASE ~ (k + 1 < h[p].length)
        <5>0. h[p].length \in Nat
          BY <2>0, FieldTypes
        <5>1. p # m
          BY <1>14, <2>0, <2>1, <2>2, <3>1, <4>2, <5>0
        <5> QED
          BY <1>10, <2>0, <3>1, <5>1 DEF NextChild
      <4> QED
        BY <4>1, <4>2
    <3> QED
      BY <3>1, <3>2, <3>3 DEF ChildFacts
  <2>s. 1 \in Position /\ 0 + 1 < len /\ 0 < len - 1 /\ 0 + 1 = 1
    BY <1>0
  <2>3. CASE p # n /\ p = m /\ k = last
    <3>1. g[m].length = h[m].length /\ g[m].children = h[m].children
      BY <1>0, <1>7, <2>3
    <3>2. NextChild(g, after, m, last) = g[n].children[0]
      BY <1>0, <1>14, <3>1 DEF NextChild
    <3>3. g[n].children[0] = h[n].children[1]
      BY <1>0, <1>9, <2>s
    <3>4. NextChild(h, after, n, 0) = h[n].children[1]
      BY <1>14, <2>s DEF NextChild
    <3> QED
      BY <1>2, <1>12, <1>14, <2>3, <3>1, <3>2, <3>3, <3>4
  <2>4. CASE p = n
    <3>1. /\ k < len - 1 /\ k + 1 \in Position /\ k + 1 < len /\ k + 1 # 0
      BY <1>0, <1>8, <2>0, <2>1, <2>4
    <3>2. /\ ChildFacts(h, over, after, n, k + 1)
          /\ over1[h[n].children[k + 1]] = over[h[n].children[k + 1]]
      BY <1>14, <2>a, <2>4, <3>1
    <3>3. g[n].children[k] = h[n].children[k + 1]
      BY <1>9, <2>4, <3>1
    <3>4. CASE k + 1 < len - 1
      <4>1. (k + 1) + 1 < len
        BY <1>0, <2>0, <3>4
      <4>2. g[n].children[k + 1] = h[n].children[(k + 1) + 1]
        BY <1>9, <3>1, <3>4
      <4>3. NextChild(g, after, n, k) = g[n].children[k + 1]
        BY <1>8, <3>4 DEF NextChild
      <4>4. NextChild(h, after, n, k + 1) = h[n].children[(k + 1) + 1]
        BY <1>14, <4>1 DEF NextChild
      <4> QED
        BY <2>4, <3>2, <3>3, <4>2, <4>3, <4>4 DEF ChildFacts
    <3>5. CASE ~ (k + 1 < len - 1)
      <4>1. ~ ((k + 1) + 1 < len)
        BY <1>0, <2>0, <3>5
      <4>2. NextChild(g, after, n, k) =
              IF after[n] = None THEN None ELSE g[after[n]].children[0]
        BY <1>8, <3>5 DEF NextChild
      <4>3. NextChild(h, after, n, k + 1) =
              IF after[n] = None THEN None ELSE h[after[n]].children[0]
        BY <1>14, <4>1 DEF NextChild
      <4> QED
        BY <1>10, <2>0, <2>4, <3>2, <3>3, <4>2, <4>3 DEF ChildFacts
    <3> QED
      BY <3>4, <3>5
  <2> QED
    BY <2>n, <2>2, <2>3, <2>4
<1> QED
  BY <1>3, <1>5, <1>6, <1>15, LevelsBy

-----------------------------------------------------------------------------
(***************************************************************************)
(* remove_once: siblings moved and merged, with no assertion failing.      *)
(***************************************************************************)

\* The content of leaves is no link.
LEMMA LeafPutLinks ==
  ASSUME NEW h, NEW g, NEW n, IsLeaf(h, n), NEW ch, NEW len, LeafPut(h, g, n, ch, len)
  PROVE  SameLinks(h, g)
BY DEF LeafPut, SameLinks, IsLeaf, IsInternal

\* From f to h, x is put back behind c.
LEMMA PutBack ==
  ASSUME NEW h, NEW f, Allocated(f) = Allocated(h), NEW over, NEW c, NEW x,
         over[c] = x, c # x, NEW over1, over1 = [over EXCEPT ![c] = over[x]],
         c \in DOMAIN over
  PROVE  TakenFrom(h, over, over1, c, x) /\ PutBehind(f, over1, over, c, x)
BY DEF TakenFrom, PutBehind

\* An entry taken from one end of a leaf's sibling.
LEMMA LeafMoved ==
  ASSUME NEW h \in Heap, NEW donor \in Ptr, NEW n \in Ptr,
         IsLeaf(h, donor), IsLeaf(h, n), NEW i, NEW j,
         SimpleRemove(h, donor, i) \in Heap,
         NEW over, NEW after, NEW top, NEW gone, Levels(h, over, after, top, gone)
  PROVE  Levels(MoveEntry(h, donor, i, n, j).heap, over, after, top, gone)
<1> DEFINE f == SimpleRemove(h, donor, i)
           entry == Taken(h, donor, i)
           g == SimpleInsert(f, n, j, entry)
<1>1. SameLinks(h, f)
  BY SimpleRemoveLeaf, LeafPutLinks
<1>2. IsLeaf(f, n)
  BY <1>1 DEF SameLinks, IsLeaf
<1>3. MoveEntry(h, donor, i, n, j).heap = g
  BY DEF MoveEntry
<1> HIDE DEF f, entry
<1>4. SameLinks(f, g)
  BY <1>2, SimpleInsertLeaf, LeafPutLinks DEF f
<1>5. Levels(f, over, after, top, gone)
  BY <1>1, LevelsFrame
<1> HIDE DEF g
<1>6. Levels(g, over, after, top, gone)
  BY <1>4, <1>5, LevelsFrame DEF f
<1> QED
  BY <1>3, <1>6

\* The last child of a node becomes the first of the next one, or the first the
\* last of the one before: that changes no order.
LEMMA ChildMoved ==
  ASSUME NEW h \in Heap, NEW lev, Tree(h, lev), NEW donor, NEW n,
         Siblings(h, lev, donor, n), IsInternal(h, donor), IsInternal(h, n),
         NEW i \in Nat, i < h[donor].length, h[donor].length > 1,
         NEW j \in 0..h[n].length, h[n].length < B, h[n].length >= 1,
         NEW over \in [Ptr -> PtrOrNone], NEW after, NEW top, NEW gone,
         Levels(h, over, after, top, gone), top \in Roots(h) \cup {None},
         \/ after[donor] = n /\ i = h[donor].length - 1 /\ j = 0
         \/ after[n] = donor /\ i = 0 /\ j = h[n].length
  PROVE  Levels(MoveEntry(h, donor, i, n, j).heap, over, after, top, gone)
<1> DEFINE f == SimpleRemove(h, donor, i)
           entry == Taken(h, donor, i)
           g == SimpleInsert(f, n, j, entry)
           x == h[donor].children[i]
<1>1. /\ donor \in Allocated(h) /\ n \in Allocated(h) /\ donor # n
      /\ donor \in Ptr /\ n \in Ptr /\ donor # None
  BY DEF Siblings, Allocated
<1>0. /\ h[donor].length \in 0..B /\ h[n].length \in 0..B /\ B \in Nat
      /\ i \in Position /\ 0 \in Position
  BY <1>1, FieldTypes
<1>2. /\ f \in Heap /\ Tree(f, lev) /\ Allocated(f) = Allocated(h)
      /\ f[n].length = h[n].length /\ InsertOK(f, lev, n, j, entry)
      /\ entry.slot = x
  BY MoveEntryLends DEF Lent, Removed
<1>3. ChildRemoved(h, f, donor, i)
  BY <1>1, SimpleRemoveInternal
<1>4. IsInternal(f, n) /\ f[n].length < B /\ n \in Allocated(f)
      /\ f[n].children = h[n].children
  BY <1>1, <1>2, <1>3 DEF ChildRemoved, IsInternal
<1>5. /\ x \in Allocated(h) /\ h[x].parent = donor /\ h[x].index = i /\ x # None
      /\ x \in Ptr
  BY <1>1, ChildOf DEF Allocated
<1>6. /\ entry \in [slot : Slot, size : Nat] /\ x \in Roots(f)
      /\ j \in 0..f[n].length
  <2>1. ~ IsLeaf(f, n)
    BY <1>4 DEF IsInternal, IsLeaf
  <2> HIDE DEF f, entry, x
  <2>2. /\ entry \in [slot : Slot, size : Nat] /\ entry.slot \in Roots(f)
        /\ j \in 0..f[n].length
    BY <1>2, <2>1, Zenon DEF InsertOK
  <2> QED
    BY <1>2, <2>2, Zenon
<1>7. top # x /\ IsTop(f, top) /\ top \in Roots(f) \cup {None}
  <2> HIDE DEF f
  <2>1. Roots(f) = Roots(h) \cup {x}
    BY <1>1, <1>3, ChildRemovedTree, SMTT(60)
  <2>2. x \notin Roots(h)
    BY <1>1, <1>5 DEF Roots
  <2> HIDE DEF x
  <2>3. top # x
    BY <1>5, <2>2
  <2> QED
    BY <2>1, <2>3 DEF IsTop, Roots
<1>8. MoveEntry(h, donor, i, n, j).heap = g
  BY DEF MoveEntry
<1> HIDE DEF f, entry
<1>9. ChildInserted(f, g, n, j, x, entry.size)
  BY <1>2, <1>4, <1>6, SimpleInsertInternal
<1> HIDE DEF g
<1>10. CASE after[donor] = n /\ i = h[donor].length - 1 /\ j = 0
  <2> DEFINE c == h[donor].children[i - 1]
             over1 == [over EXCEPT ![c] = over[x]]
  <2>1. i >= 1 /\ i - 1 \in Nat /\ i - 1 < h[donor].length /\ i - 1 \in Position
        /\ (i - 1) + 1 = i
    BY <1>0, <1>10
  <2>2. ChildFacts(h, over, after, donor, i - 1)
    BY <1>1, <2>1, ChildFactsAt
  <2>3. over[c] = x /\ c # x /\ c \in Ptr
    <3>1. c \in Ptr /\ h[c].index = i - 1
      BY <2>2 DEF ChildFacts, Allocated
    <3>2. c # x
      BY <1>5, <2>1, <3>1
    <3>3. over[c] = NextChild(h, after, donor, i - 1)
      BY <2>2 DEF ChildFacts
    <3>4. NextChild(h, after, donor, i - 1) = h[donor].children[i]
      BY <2>1 DEF NextChild
    <3> QED
      BY <3>1, <3>2, <3>3, <3>4
  <2>4. f[donor].length = i /\ f[donor].children[i - 1] = c
    <3>1. /\ f[donor].length = h[donor].length - 1
          /\ f[donor].children = RotateOut(h[donor].children, i, h[donor].length, None)
      BY <1>1, <1>3 DEF ChildRemoved
    <3> QED
      BY <1>0, <1>10, <2>1, <3>1 DEF RotateOut
  <2> HIDE DEF c, x, over1
  <2>5. TakenFrom(h, over, over1, c, x) /\ PutBehind(f, over1, over, c, x)
    BY <1>2, <2>3, PutBack DEF over1
  <2>6. Levels(f, over1, after, top, gone)
    BY <1>1, <1>3, <2>1, <2>5, LevelsRemoved DEF c, x
  <2>7. f[donor].length >= 1 /\ f[n].length >= 1 /\ donor \in Allocated(f)
    BY <1>1, <1>2, <2>1, <2>4
  <2>8. PutBehind(f, over1, over, f[donor].children[f[donor].length - 1], x)
    BY <2>4, <2>5
  <2>9. ChildInserted(f, g, n, 0, x, entry.size)
    BY <1>9, <1>10
  <2>10. Levels(g, over, after, top, gone)
    BY <1>2, <1>4, <1>6, <1>7, <1>10, <2>6, <2>7, <2>8, <2>9, LevelsInsertedFirst
  <2> QED
    BY <1>8, <2>10
<1>11. CASE after[n] = donor /\ i = 0 /\ j = h[n].length
  <2> DEFINE last == h[n].length - 1
             c == h[n].children[last]
             over1 == [over EXCEPT ![c] = over[x]]
  <2>1. last \in Nat /\ last < h[n].length /\ last \in Position
        /\ last + 1 = h[n].length /\ h[donor].length >= 2
    BY <1>0
  <2>2. ChildFacts(h, over, after, n, last)
    BY <1>1, <2>1, ChildFactsAt
  <2>3. over[c] = x /\ c # x /\ c \in Ptr
    <3>1. c \in Ptr /\ h[c].parent = n
      BY <2>2 DEF ChildFacts, Allocated
    <3>2. c # x
      BY <1>1, <1>5, <3>1
    <3>3. over[c] = NextChild(h, after, n, last)
      BY <2>2 DEF ChildFacts
    <3>4. NextChild(h, after, n, last) = h[donor].children[0]
      BY <1>1, <1>11, <2>1 DEF NextChild
    <3> QED
      BY <1>11, <3>1, <3>2, <3>3, <3>4
  <2> HIDE DEF last
  <2>4. f[n].children[last] = c /\ f[n].length = last + 1
    BY <1>2, <1>4, <2>1
  <2> HIDE DEF c, x, over1
  <2>5. TakenFrom(h, over, over1, c, x) /\ PutBehind(f, over1, over, c, x)
    BY <1>2, <2>3, PutBack DEF over1
  <2>6. Levels(f, over1, after, top, gone)
    <3>1. TakenFrom(h, over, over1, h[n].children[h[n].length - 1],
                    h[donor].children[0])
      BY <1>11, <2>5 DEF c, x, last
    <3>2. ChildRemoved(h, f, donor, 0)
      BY <1>3, <1>11
    <3> QED
      BY <1>1, <1>11, <2>1, <3>1, <3>2, LevelsRemovedFirst
  <2>7. j \in 1..f[n].length /\ j - 1 = last
    BY <1>2, <1>11, <2>1
  <2>8. PutBehind(f, over1, over, f[n].children[j - 1], x)
    BY <2>4, <2>5, <2>7
  <2>10. Levels(g, over, after, top, gone)
    BY <1>2, <1>4, <1>6, <1>7, <1>9, <2>6, <2>7, <2>8, LevelsInsertedBehind
  <2> QED
    BY <1>8, <2>10
<1> QED
  BY <1>10, <1>11

\* A sibling to the right is what follows.
LEMMA SiblingFollows ==
  ASSUME NEW h \in Heap, NEW lev, Tree(h, lev), NEW a, NEW b,
         Siblings(h, lev, a, b), h[b].index = h[a].index + 1,
         NEW over, NEW after, NEW top, NEW gone, Levels(h, over, after, top, gone)
  PROVE  over[a] = b
<1> DEFINE q == h[a].parent
           i == h[a].index
<1>1. /\ a \in Allocated(h) /\ b \in Allocated(h) /\ q # None /\ h[b].parent = q
  BY DEF Siblings
<1>2. /\ q \in Allocated(h) /\ IsInternal(h, q) /\ i \in Nat /\ i < h[q].length
      /\ h[q].children[i] = a
  BY <1>1, ParentOf
<1>3. h[b].index < h[q].length /\ h[q].children[h[b].index] = b
  BY <1>1, ParentOf
<1> HIDE DEF q, i
<1>4. i + 1 < h[q].length /\ h[q].children[i + 1] = b
  BY <1>3 DEF i
<1>5. i \in Position
  BY <1>2, FieldTypes DEF Allocated
<1>6. ChildFacts(h, over, after, q, i)
  BY <1>2, <1>5, ChildFactsAt
<1>7. NextChild(h, after, q, i) = b
  BY <1>4 DEF NextChild
<1> QED
  BY <1>2, <1>6, <1>7 DEF ChildFacts

\* The level of n has no node without children, unless they are leaves.
LevelFilled(h, lev, n) ==
  \A p \in Allocated(h) : lev[p] = lev[n] /\ IsInternal(h, p) => h[p].length >= 1

\* The levels are in order from both sides.
Ordered(h, order, top, gone) ==
  /\ Levels(h, order, order, top, gone)
  /\ top \in Roots(h) \cup {None}

\* A merge of siblings that both are short has no assertion fail.
LEMMA MergeSafe ==
  ASSUME NEW h \in Heap, NEW lev, Tree(h, lev), NEW dest, NEW src,
         Siblings(h, lev, dest, src), h[src].index = h[dest].index + 1,
         h[dest].length <= MinLength, h[src].length <= MinLength,
         LevelFilled(h, lev, dest),
         NEW order, NEW top, NEW gone, Ordered(h, order, top, gone)
  PROVE  ~ MergePanics(h, dest, src)
<1>1. dest \in Allocated(h) /\ src \in Allocated(h) /\ dest \in Ptr /\ src \in Ptr
  BY DEF Siblings, Allocated
<1>2. order[dest] = src
  BY SiblingFollows DEF Ordered
<1>3. IsLeaf(h, dest) => h[dest].next = src
  BY <1>1, <1>2, LevelsAt DEF LeadsOn, Ordered
<1>4. ~ IsLeaf(h, dest) => ChildPtr(h, dest, 0) \in Ptr
  <2>1. SUFFICES ASSUME ~ IsLeaf(h, dest) PROVE ChildPtr(h, dest, 0) \in Ptr
    OBVIOUS
  <2>2. IsInternal(h, dest) /\ h[dest].length \in 0..B
    BY <1>1, <2>1, Kinds
  <2>3. h[dest].length >= 1
    BY <1>1, <2>2 DEF LevelFilled
  <2>4. 0 < h[dest].length
    BY <2>2, <2>3
  <2>5. h[dest].children[0] \in Ptr
    BY <1>1, <2>2, <2>4, ChildOf DEF Allocated
  <2> QED
    BY <2>4, <2>5 DEF ChildPtr
<1>5. h[dest].length \in Nat /\ h[src].length \in Nat /\ MinLength \in Nat
  BY <1>1, FieldTypes DEF MinLength
<1>6. ~ (h[dest].length > MinLength) /\ ~ (h[src].length > MinLength)
  BY <1>5
<1> QED
  BY <1>3, <1>4, <1>6 DEF MergePanics

\* remove_once has no assertion fail: the leaf to the right of a leaf is the one
\* it leads on to.
LEMMA RebalanceSafe ==
  ASSUME NEW h \in Heap, NEW lev, Tree(h, lev), NEW n \in Allocated(h),
         LevelFilled(h, lev, n),
         NEW order, NEW top, NEW gone, Ordered(h, order, top, gone)
  PROVE  ~ RebalancePanics(h, n)
<1> DEFINE left == LeftSibling(h, n)
           right == RightSibling(h, n)
<1>1. SUFFICES ASSUME h[n].length < MinLength, ~ CanLend(h, left), ~ CanLend(h, right)
               PROVE  /\ right # None => ~ MergePanics(h, n, right)
                      /\ left # None => ~ MergePanics(h, left, n)
  BY DEF RebalancePanics
<1>2. left # None => Siblings(h, lev, left, n)
  BY SiblingsFound
<1>3. right # None => Siblings(h, lev, n, right)
  BY SiblingsFound
<1>4. /\ left # None => h[n].index = h[left].index + 1
      /\ right # None => h[right].index = h[n].index + 1
  BY SiblingsBeside
<1> HIDE DEF left, right
<1>5. h[n].length \in Nat /\ MinLength \in Nat
  BY FieldTypes DEF MinLength, Allocated
<1>6. h[n].length <= MinLength
  BY <1>1, <1>5
<1>7. ASSUME NEW s \in Ptr, ~ CanLend(h, s) PROVE h[s].length <= MinLength
  <2>1. h[s].length \in Nat
    BY FieldTypes
  <2> QED
    BY <1>5, <1>7, <2>1 DEF CanLend
<1>8. right # None => ~ MergePanics(h, n, right)
  <2>1. SUFFICES ASSUME right # None PROVE ~ MergePanics(h, n, right)
    OBVIOUS
  <2>2. right \in Ptr
    BY <1>3, <2>1 DEF Siblings, Allocated
  <2>3. h[right].length <= MinLength
    BY <1>1, <1>7, <2>2
  <2> QED
    BY <1>3, <1>4, <1>6, <2>1, <2>3, MergeSafe
<1>9. left # None => ~ MergePanics(h, left, n)
  <2>1. SUFFICES ASSUME left # None PROVE ~ MergePanics(h, left, n)
    OBVIOUS
  <2>2. left \in Ptr /\ lev[left] = lev[n]
    BY <1>2, <2>1 DEF Siblings, Allocated
  <2>3. h[left].length <= MinLength
    BY <1>1, <1>7, <2>2
  <2>4. LevelFilled(h, lev, left)
    BY <2>2 DEF LevelFilled
  <2> QED
    BY <1>2, <1>4, <1>6, <2>1, <2>3, <2>4, MergeSafe
<1> QED
  BY <1>8, <1>9

\* What remove_once leaves of the order when it reports r.
Reported(h, over, after, top, gone, n, r) ==
  /\ Levels(h, over, after, top, gone \cup GoneIn(h, n, r))
  /\ MergeOrder(h, over, after, n, r)

\* An entry moved from a sibling.
LEMMA LendsOrder ==
  ASSUME NEW h \in Heap, NEW lev, Tree(h, lev), NEW n, NEW s \in Ptr,
         Siblings(h, lev, s, n), NEW r, LendsTo(h, r, s, n), LevelFilled(h, lev, n),
         NEW order \in [Ptr -> PtrOrNone], NEW top, NEW gone,
         Ordered(h, order, top, gone)
  PROVE  Reported(r.heap, order, order, top, gone, n, r.removal)
<1> DEFINE i == h[s].length - 1
<1>1. /\ s \in Allocated(h) /\ n \in Allocated(h) /\ n \in Ptr /\ lev[s] = lev[n]
  BY DEF Siblings, Allocated
<1>2. h[s].length > MinLength /\ h[n].length < MinLength
      /\ h[s].length \in 0..B /\ h[n].length \in 0..B /\ MinLength \in 1..(B - 1)
  BY <1>1, FieldTypes DEF LendsTo, CanLend, MinLength
<1>3. /\ h[s].length > 1 /\ h[n].length < B
      /\ i \in Nat /\ i < h[s].length /\ 0 \in Nat /\ 0 < h[s].length
      /\ 0 \in 0..h[n].length /\ h[n].length \in 0..h[n].length
  BY <1>2
<1>4. \/ h[n].index = h[s].index + 1 /\ r = MoveEntry(h, s, i, n, 0)
      \/ h[s].index = h[n].index + 1 /\ r = MoveEntry(h, s, 0, n, h[n].length)
  BY DEF LendsTo
<1>5. PICK k \in Nat, j \in 0..h[n].length :
        /\ r = MoveEntry(h, s, k, n, j) /\ k < h[s].length
        /\ \/ order[s] = n /\ k = h[s].length - 1 /\ j = 0
           \/ order[n] = s /\ k = 0 /\ j = h[n].length
  <2>1. CASE h[n].index = h[s].index + 1 /\ r = MoveEntry(h, s, i, n, 0)
    <3>1. order[s] = n
      BY <2>1, SiblingFollows DEF Ordered
    <3> QED
      BY <1>3, <2>1, <3>1
  <2>2. CASE h[s].index = h[n].index + 1 /\ r = MoveEntry(h, s, 0, n, h[n].length)
    <3>1. Siblings(h, lev, n, s)
      BY DEF Siblings
    <3>2. order[n] = s
      BY <2>2, <3>1, SiblingFollows DEF Ordered
    <3> QED
      BY <1>3, <2>2, <3>2
  <2> QED
    BY <1>4, <2>1, <2>2
<1>6. Levels(r.heap, order, order, top, gone)
  <2>1. CASE IsLeaf(h, n)
    <3>1. IsLeaf(h, s)
      BY <1>1, <2>1 DEF Tree
    <3>2. SimpleRemove(h, s, k) \in Heap
      BY <1>1, <1>5, SimpleRemoveType
    <3> QED
      BY <1>1, <1>5, <2>1, <3>1, <3>2, LeafMoved DEF Ordered
  <2>2. CASE ~ IsLeaf(h, n)
    <3>1. IsInternal(h, n) /\ IsInternal(h, s)
      <4>1. ~ IsLeaf(h, s)
        BY <1>1, <2>2 DEF Tree
      <4> QED
        BY <1>1, <2>2, <4>1, Kinds
    <3>2. h[n].length >= 1
      BY <1>1, <3>1 DEF LevelFilled
    <3>3. Levels(MoveEntry(h, s, k, n, j).heap, order, order, top, gone)
      BY <1>3, <1>5, <3>1, <3>2, ChildMoved DEF Ordered
    <3> QED
      BY <1>5, <3>3
  <2> QED
    BY <2>1, <2>2
<1>7. r.removal.kind = "Moved"
  BY <1>5 DEF MoveEntry
<1> QED
  BY <1>6, <1>7 DEF Reported, GoneIn, MergeOrder, SameOrder

\* Two siblings merged.
LEMMA MergeIntoOrder ==
  ASSUME NEW h \in Heap, NEW lev, Tree(h, lev), NEW dest, NEW src,
         Siblings(h, lev, dest, src), NEW r, GoesInto(h, r, src, dest),
         LevelFilled(h, lev, dest), NEW n \in {dest, src},
         NEW order \in [Ptr -> PtrOrNone], NEW top, NEW gone,
         Ordered(h, order, top, gone)
  PROVE  Reported(r.heap, order, Bypassed(order, dest, src), top, gone, n, r.removal)
<1> DEFINE g == Merge(h, dest, src)
           m == r.removal
           after1 == Bypassed(order, dest, src)
<1>1. /\ ~ MergePanics(h, dest, src) /\ h[src].index = h[dest].index + 1
      /\ r = MergeInto(h, dest, src)
  BY DEF GoesInto
<1>2. /\ dest \in Allocated(h) /\ src \in Allocated(h) /\ dest # src
      /\ lev[dest] = lev[src] /\ dest \in Ptr /\ src \in Ptr
  BY DEF Siblings, Allocated
<1>3. /\ r.heap = g /\ m.kind = "Merged"
      /\ m.src = h[src].index /\ m.dest = h[dest].index
  BY <1>1 DEF MergeInto
<1>4. Mergeable(h, lev, dest, src)
  BY <1>1, CanMerge
<1>5. NodesMerged(h, g, dest, src)
  BY <1>4, MergeRelinks
<1> HIDE DEF g, m, after1
<1>6. order[dest] = src
  BY <1>1, SiblingFollows DEF Ordered
<1>7. IsInternal(h, src) => h[src].length >= 1
  BY <1>2 DEF LevelFilled
<1>8. Levels(g, order, after1, top, gone \cup {src})
  BY <1>4, <1>5, <1>6, <1>7, LevelsMerged DEF Ordered, after1
<1>9. Spares(h, g, lev, lev[src]) /\ Allocated(g) = Allocated(h)
  BY <1>2, <1>4, <1>5, NodesMergedFrame, NodesMergedTree
<1>10. Siblings(h, lev, src, dest)
  BY DEF Siblings
<1>11. Names(h, g, n, m, src, dest)
  <2>1. m.kind # "Absorbed"
    BY <1>3
  <2> QED
    BY <1>3, <1>9, <1>10, <2>1, SiblingNames
<1>12. GoneIn(g, n, m) = {src}
  BY <1>3, <1>11 DEF GoneIn, Names
<1>13. StillOver(g, order, after1, dest, src)
  BY <1>2, <1>6, <1>9 DEF StillOver, after1, Bypassed, Allocated
<1>14. m.src = m.dest + 1
  BY <1>1, <1>3
<1>15. MergeOrder(g, order, after1, n, m)
  BY <1>3, <1>11, <1>13, <1>14 DEF MergeOrder, Names
<1> QED
  BY <1>3, <1>8, <1>12, <1>15 DEF Reported, m, after1

\* The order that remove_once leaves after the removal itself.
LEMMA RebalanceOrder ==
  ASSUME NEW h \in Heap, NEW lev, Tree(h, lev), NEW n \in Allocated(h),
         NEW r, RebalancedBy(h, r, lev, n), LevelFilled(h, lev, n),
         NEW order \in [Ptr -> PtrOrNone], NEW top, NEW gone,
         Ordered(h, order, top, gone)
  PROVE  \E after1 \in [Ptr -> PtrOrNone] :
           Reported(r.heap, order, after1, top, gone, n, r.removal)
<1>1. CASE r.heap = h /\ r.removal = Absorbed(h, n)
  <2>1. r.removal.kind = "Absorbed"
    BY <1>1 DEF Absorbed
  <2>2. Reported(r.heap, order, order, top, gone, n, r.removal)
    BY <1>1, <2>1 DEF Reported, GoneIn, MergeOrder, SameOrder, Ordered
  <2> QED
    BY <2>2
<1>2. ASSUME NEW s \in Ptr, Siblings(h, lev, s, n), LendsTo(h, r, s, n)
      PROVE  Reported(r.heap, order, order, top, gone, n, r.removal)
  BY <1>2, LendsOrder
<1>3. ASSUME NEW dest \in Ptr, NEW src \in Ptr PROVE Bypassed(order, dest, src) \in [Ptr -> PtrOrNone]
  BY <1>3 DEF Bypassed, PtrOrNone
<1>4. ASSUME NEW s \in Ptr, Siblings(h, lev, n, s), GoesInto(h, r, s, n)
      PROVE  Reported(r.heap, order, Bypassed(order, n, s), top, gone, n, r.removal)
  BY <1>4, MergeIntoOrder
<1>5. ASSUME NEW s \in Ptr, Siblings(h, lev, s, n), GoesInto(h, r, n, s)
      PROVE  Reported(r.heap, order, Bypassed(order, s, n), top, gone, n, r.removal)
  <2>1. LevelFilled(h, lev, s)
    BY <1>5 DEF LevelFilled, Siblings
  <2> QED
    BY <1>5, <2>1, MergeIntoOrder
<1>6. n \in Ptr
  BY DEF Allocated
<1> QED
  BY <1>1, <1>2, <1>3, <1>4, <1>5, <1>6 DEF RebalancedBy

-----------------------------------------------------------------------------
(***************************************************************************)
(* insert_once, and the half it splits off.                                *)
(***************************************************************************)

\* The order while `half`, if there is one, is not linked behind n.
HalfOrder(h, over, after, top, n, half) ==
  /\ Levels(h, over, after, top, {})
  /\ IF half # None THEN HalfApart(h, over, after, n, half)
     ELSE SameOrder(h, over, after)

\* The order of after with new behind n, as the level above has it.
Unaware(after, n, new) == [after EXCEPT ![new] = after[n]]

\* A half linked behind the child it was split from.
LEMMA RoomOrder ==
  ASSUME NEW h \in Heap, NEW lev, Tree(h, lev), NEW g,
         NEW n \in Allocated(h), IsInternal(h, n), h[n].length < B,
         NEW i \in Nat, i < h[n].length, NEW x \in Roots(h),
         NEW sz, ChildInserted(h, g, n, i + 1, x, sz),
         NEW over, NEW after, NEW top, top # x, top \in Roots(h) \cup {None},
         HalfOrder(h, over, after, top, h[n].children[i], x)
  PROVE  HalfOrder(g, after, after, top, n, None)
<1> DEFINE c == h[n].children[i]
<1>1. x # None
  BY DEF Roots, Allocated
<1>2. HalfApart(h, over, after, c, x) /\ Levels(h, over, after, top, {})
  BY <1>1 DEF HalfOrder
<1>3. PutBehind(h, over, after, c, x)
  BY <1>2 DEF HalfApart, PutBehind
<1>4. i + 1 \in 1..h[n].length /\ (i + 1) - 1 = i /\ IsTop(h, top)
  BY FieldTypes DEF IsTop, Roots, Allocated
<1>5. PutBehind(h, over, after, h[n].children[(i + 1) - 1], x)
  BY <1>3, <1>4
<1>6. Levels(g, after, after, top, {})
  BY <1>2, <1>4, <1>5, LevelsInsertedBehind
<1> QED
  BY <1>6 DEF HalfOrder, SameOrder

\* A node split in two.
LEMMA SplitOrder ==
  ASSUME NEW h \in Heap, NEW lev, Tree(h, lev), NEW f,
         NEW n \in Allocated(h), h[n].length = B,
         NEW left \in 1..(B - 1), NEW new \in Free(h),
         NodeSplit(h, f, n, left, new), Allocated(f) = Allocated(h) \cup {new},
         NEW over \in [Ptr -> PtrOrNone], NEW after, NEW top, IsTop(h, top),
         Levels(h, over, after, top, {})
  PROVE  Levels(f, [over EXCEPT ![new] = after[n]], Spliced(after, n, new), top, {})
<1> DEFINE over0 == [over EXCEPT ![new] = after[n]]
<1>1. \A p \in Allocated(h) : over0[p] = over[p]
  BY DEF Allocated, Free
<1> HIDE DEF over0
<1>2. Levels(h, over0, after, top, {})
  BY <1>1, LevelsAgree
<1>3. Levels(f, over0, Spliced(after, n, new), top, {})
  BY <1>2, LevelsSplit
<1> QED
  BY <1>3 DEF over0

\* The new half is not linked.
LEMMA HalfSpliced ==
  ASSUME NEW h, NEW n \in Allocated(h), NEW new \in Free(h),
         NEW g, Allocated(g) = Allocated(h) \cup {new},
         NEW after \in [Ptr -> PtrOrNone]
  PROVE  /\ HalfApart(g, Unaware(after, n, new), Spliced(after, n, new), n, new)
         /\ Unaware(after, n, new) \in [Ptr -> PtrOrNone]
         /\ Spliced(after, n, new) \in [Ptr -> PtrOrNone]
BY DEF HalfApart, Unaware, Spliced, Allocated, Free, PtrOrNone

\* c comes right before entry j of m, if new follows n.
ComesBefore(f, n, new, c, m, j) ==
  IF j = 0 THEN m = new /\ c = f[n].children[f[n].length - 1]
  ELSE c = f[m].children[j - 1]

\* Of the halves of n, in f, the one that c went to gets x behind c.
LEMMA HalvesOrder ==
  ASSUME NEW f \in Heap, NEW lev, Tree(f, lev), NEW n, NEW new, new # n,
         n \in Allocated(f), new \in Allocated(f), NEW m \in {n, new},
         IsInternal(f, m), f[m].length < B, f[m].length >= 1, f[n].length >= 1,
         NEW j \in 0..f[m].length, NEW x \in Roots(f),
         NEW sz, NEW g, ChildInserted(f, g, m, j, x, sz),
         NEW over, NEW over2, NEW after, NEW top, top # x,
         top \in Roots(f) \cup {None}, Levels(f, over, after, top, {}),
         NEW c, PutBehind(f, over, over2, c, x), after[n] = new,
         ComesBefore(f, n, new, c, m, j)
  PROVE  Levels(g, over2, after, top, {})
<1>1. IsTop(f, top)
  BY DEF IsTop, Roots
<1>2. CASE j = 0
  <2>1. m = new /\ PutBehind(f, over, over2, f[n].children[f[n].length - 1], x)
    BY <1>2 DEF ComesBefore
  <2>2. ChildInserted(f, g, new, 0, x, sz) /\ IsInternal(f, new)
        /\ f[new].length < B /\ f[new].length >= 1
    BY <1>2, <2>1
  <2> QED
    BY <1>1, <2>1, <2>2, LevelsInsertedFirst
<1>3. CASE j # 0
  <2>0. f[m].length \in Nat /\ m \in Allocated(f)
    BY FieldTypes DEF Allocated
  <2>1. j \in 1..f[m].length /\ PutBehind(f, over, over2, f[m].children[j - 1], x)
    BY <1>3, <2>0 DEF ComesBefore
  <2> QED
    BY <1>1, <2>0, <2>1, LevelsInsertedBehind
<1> QED
  BY <1>2, <1>3

\* From h to f, n was split at left; x goes behind the child i, as entry j of m.
SplitAt(h, f, n, i, left, new, m, j) ==
  /\ left \in 1..(B - 1) /\ m \in {n, new} /\ j \in 0..f[m].length
  /\ f = Split(h, n, left, new) /\ f \in Heap /\ f[m].length < B
  /\ NodeSplit(h, f, n, left, new) /\ Allocated(f) = Allocated(h) \cup {new}
  /\ f[n].length = left /\ f[new].length = B - left
  /\ IF j = 0 THEN m = new /\ h[n].children[i] = f[n].children[f[n].length - 1]
     ELSE h[n].children[i] = f[m].children[j - 1]

\* insert_once knows where in the two halves an entry goes.
LEMMA InsertOnceAt ==
  ASSUME NEW h \in Heap, NEW lev, Tree(h, lev), NEW n \in Allocated(h),
         h[n].length = B, NEW i \in Nat, i < B, NEW entry, NEW new \in Free(h)
  PROVE  \E f, left, m, j :
           /\ SplitAt(h, f, n, i, left, new, m, j)
           /\ InsertOnce(h, n, i + 1, entry, new).heap = SimpleInsert(f, m, j, entry)
           /\ InsertOnce(h, n, i + 1, entry, new).split = new
<1> DEFINE larger == B - MinLength
           r == InsertOnce(h, n, i + 1, entry, new)
           late == i + 1 >= larger
           left == IF late THEN larger ELSE MinLength
           f == Split(h, n, left, new)
           m == IF late THEN new ELSE n
           j == IF late THEN i + 1 - larger ELSE i + 1
<1>1. /\ n \in Ptr /\ new \in Ptr /\ new \notin Allocated(h) /\ n # new
      /\ B \in Nat /\ B >= 3
      /\ MinLength \in 1..(B - 1) /\ larger \in 1..(B - 1) /\ larger <= MinLength + 1
  BY DEF MinLength, Free, Allocated
<1>2. r.heap = SimpleInsert(f, m, j, entry) /\ r.split = new
  BY <1>1 DEF InsertOnce
<1>3. /\ left \in 1..(B - 1) /\ left \in Nat /\ j \in Nat
      /\ late => /\ left + j = i + 1 /\ j <= B - left /\ m = new
                 /\ j # 0 => j - 1 \in Position /\ j - 1 < B - left
                             /\ left + (j - 1) = i
                 /\ j = 0 => left - 1 = i
      /\ ~ late => j = i + 1 /\ i < left /\ j <= left /\ m = n /\ j # 0 /\ j - 1 = i
      /\ i \in Position /\ left - 1 \in Position /\ left - 1 < left
  <2> HIDE DEF larger
  <2>1. CASE late
    BY <1>1, <2>1
  <2>2. CASE ~ late
    BY <1>1, <2>2
  <2> QED
    BY <2>1, <2>2
<1> HIDE DEF left
<1>4. NodeSplit(h, f, n, left, new) /\ f \in Heap
  BY <1>1, <1>3, SplitRelinks, SplitType
<1> HIDE DEF f, larger, late, r, m, j
<1>5. Allocated(f) = Allocated(h) \cup {new}
  <2>1. left \in 1..(B - 1)
    BY <1>3
  <2> QED
    BY <1>4, <2>1, NodeSplitTree
<1>6. /\ f[n].length = left /\ f[new].length = B - left
      /\ f[new].children = [q \in Position |->
           IF q < B - left THEN h[n].children[left + q] ELSE None]
      /\ f[n].children = [q \in Position |-> IF q < left THEN h[n].children[q] ELSE None]
  BY <1>1, <1>4 DEF NodeSplit
<1>7. m \in {n, new} /\ j \in 0..f[m].length /\ f[m].length < B
  <2>1. CASE late
    BY <1>1, <1>3, <1>6, <2>1
  <2>2. CASE ~ late
    BY <1>1, <1>3, <1>6, <2>2
  <2> QED
    BY <2>1, <2>2
<1>8. IF j = 0 THEN m = new /\ h[n].children[i] = f[n].children[f[n].length - 1]
      ELSE h[n].children[i] = f[m].children[j - 1]
  <2>1. CASE late /\ j = 0
    BY <1>3, <1>6, <2>1
  <2>2. CASE late /\ j # 0
    <3>1. f[new].children[j - 1] = h[n].children[left + (j - 1)]
      BY <1>3, <1>6, <2>2
    <3> QED
      BY <1>3, <2>2, <3>1
  <2>3. CASE ~ late
    BY <1>3, <1>6, <2>3
  <2> QED
    BY <2>1, <2>2, <2>3
<1>9. SplitAt(h, f, n, i, left, new, m, j)
  BY <1>3, <1>4, <1>5, <1>6, <1>7, <1>8 DEF SplitAt, f
<1> QED
  BY <1>2, <1>9 DEF r

\* The full node n of a tree is what was split.
FullSplit(h, lev, n, i, new, f, left, m, j) ==
  /\ h \in Heap /\ Tree(h, lev) /\ n \in Allocated(h) /\ h[n].length = B
  /\ new \in Free(h) /\ SplitAt(h, f, n, i, left, new, m, j)

\* Which leaves trees.
LEMMA FullSplitTree ==
  ASSUME NEW h, NEW lev, NEW n, NEW i, NEW new, NEW f, NEW left, NEW m, NEW j,
         FullSplit(h, lev, n, i, new, f, left, m, j)
  PROVE  Tree(f, Beside(lev, n, new)) /\ Roots(f) = Roots(h) \cup {new}
<1>1. /\ h \in Heap /\ Tree(h, lev) /\ n \in Allocated(h) /\ h[n].length = B
      /\ new \in Free(h) /\ left \in 1..(B - 1) /\ NodeSplit(h, f, n, left, new)
  BY DEF FullSplit, SplitAt
<1>2. Tree(f, Beside(lev, n, new))
  BY <1>1, NodeSplitTree
<1>3. Roots(f) = Roots(h) \cup {new}
  BY <1>1, <1>2, NodeSplitTree
<1> QED
  BY <1>2, <1>3

\* A half linked in a full node, which is split for it.
LEMMA FullOrder ==
  ASSUME NEW h \in Heap, NEW lev, Tree(h, lev), NEW n \in Allocated(h),
         IsInternal(h, n), h[n].length = B, NEW i \in Nat, i < B,
         NEW entry \in [slot : Slot, size : Nat], entry.slot \in Roots(h),
         NEW new \in Free(h),
         NEW over \in [Ptr -> PtrOrNone], NEW after \in [Ptr -> PtrOrNone],
         NEW top, top # entry.slot, top \in Roots(h) \cup {None},
         HalfOrder(h, over, after, top, h[n].children[i], entry.slot),
         NEW f, NEW left, NEW m, NEW j, SplitAt(h, f, n, i, left, new, m, j),
         NEW g, g = SimpleInsert(f, m, j, entry)
  PROVE  HalfOrder(g, Unaware(after, n, new), Spliced(after, n, new), top, n, new)
<1> DEFINE x == entry.slot
           c == h[n].children[i]
           lev2 == Beside(lev, n, new)
           over0 == [over EXCEPT ![new] = after[n]]
           over2 == Unaware(after, n, new)
           after1 == Spliced(after, n, new)
<1>1. /\ n \in Ptr /\ new \in Ptr /\ new \notin Allocated(h) /\ n # new
      /\ x \in Allocated(h) /\ h[x].parent = None /\ x # None /\ x # new /\ x \in Ptr
      /\ new # None /\ n # None
  BY DEF Free, Allocated, Roots
<1>2. /\ left \in 1..(B - 1) /\ m \in {n, new} /\ j \in 0..f[m].length
      /\ f \in Heap /\ f[m].length < B
      /\ NodeSplit(h, f, n, left, new) /\ Allocated(f) = Allocated(h) \cup {new}
      /\ f[n].length = left /\ f[new].length = B - left
      /\ IF j = 0 THEN m = new /\ c = f[n].children[f[n].length - 1]
         ELSE c = f[m].children[j - 1]
  BY DEF SplitAt
<1> HIDE DEF lev2, c, x
<1>3. Tree(f, lev2) /\ Roots(f) = Roots(h) \cup {new}
  <2>1. FullSplit(h, lev, n, i, new, f, left, m, j)
    BY DEF FullSplit
  <2>2. Tree(f, Beside(lev, n, new)) /\ Roots(f) = Roots(h) \cup {new}
    BY <2>1, FullSplitTree
  <2> QED
    BY <2>2 DEF lev2
<1>4. HalfApart(h, over, after, c, x) /\ Levels(h, over, after, top, {})
  BY <1>1 DEF HalfOrder, c, x
<1>5. c \in Allocated(h) /\ h[c].parent = n /\ c # new /\ c # n /\ c # x
  <2>1. c \in Allocated(h) /\ h[c].parent = n /\ lev[n] = lev[c] + 1
    BY ChildOf DEF c
  <2>2. lev[c] \in Nat
    BY <2>1 DEF Tree, Allocated
  <2> QED
    BY <1>1, <2>1, <2>2
<1>6. IsTop(h, top)
  BY DEF IsTop, Roots
<1>7. Levels(f, over0, after1, top, {})
  BY <1>2, <1>4, <1>6, SplitOrder
<1>8. PutBehind(f, over0, over2, c, x)
  <2>1. over2[c] = x /\ over2[x] = over0[c]
    BY <1>1, <1>4, <1>5 DEF HalfApart, Unaware, Allocated
  <2>2. ASSUME NEW p \in Allocated(f), p # c, p # x PROVE over2[p] = over0[p]
    BY <1>1, <1>2, <1>4, <2>2 DEF HalfApart, Unaware, Allocated
  <2> QED
    BY <2>1, <2>2 DEF PutBehind
<1>9. after1[n] = new
  BY <1>1 DEF Spliced
<1>10. /\ n \in Allocated(f) /\ new \in Allocated(f) /\ IsInternal(f, m)
       /\ f[m].length >= 1 /\ f[n].length >= 1
  <2>1. f[new].kind = h[n].kind /\ f[n].kind = h[n].kind
    BY <1>1, <1>2 DEF NodeSplit
  <2>2. left >= 1 /\ B - left >= 1
    BY <1>2
  <2> QED
    BY <1>1, <1>2, <2>1, <2>2 DEF IsInternal
<1>11. x \in Roots(f) /\ top # x /\ top \in Roots(f) \cup {None}
  BY <1>3 DEF x
<1>12. ChildInserted(f, g, m, j, x, entry.size)
  <2>1. m \in Allocated(f) /\ entry.slot \in Roots(f)
    BY <1>2, <1>10, <1>11 DEF x
  <2> QED
    BY <1>2, <1>3, <1>10, <2>1, SimpleInsertInternal DEF x
<1> HIDE DEF over0, over2, after1
<1>13. Levels(g, over2, after1, top, {})
  <2>1. /\ new # n /\ m \in {n, new} /\ j \in 0..f[m].length /\ f \in Heap
        /\ f[m].length < B /\ ComesBefore(f, n, new, c, m, j)
    BY <1>1, <1>2 DEF ComesBefore
  <2> QED
    BY <1>3, <1>7, <1>8, <1>9, <1>10, <1>11, <1>12, <2>1, HalvesOrder, SMTT(60)
<1>14. Allocated(g) = Allocated(h) \cup {new}
  BY <1>2, <1>12 DEF ChildInserted, Allocated
<1>15. HalfApart(g, over2, after1, n, new)
  BY <1>14, HalfSpliced DEF over2, after1
<1> QED
  BY <1>1, <1>13, <1>15 DEF HalfOrder, over2, after1

\* An order of the heap g in which half, if there is one, is not linked.
HasHalfOrder(g, top, n, half) ==
  \E over, after \in [Ptr -> PtrOrNone] : HalfOrder(g, over, after, top, n, half)

\* insert_once of the half x that was split off child i of n.
LEMMA LinkOrder ==
  ASSUME NEW h \in Heap, NEW lev, Tree(h, lev), NEW n \in Allocated(h),
         IsInternal(h, n), NEW i \in Nat, i < h[n].length, NEW entry,
         InsertOK(h, lev, n, i + 1, entry), NEW new, h[n].length = B => new \in Free(h),
         NEW over \in [Ptr -> PtrOrNone], NEW after \in [Ptr -> PtrOrNone],
         NEW top, top # entry.slot, top \in Roots(h) \cup {None},
         HalfOrder(h, over, after, top, h[n].children[i], entry.slot)
  PROVE  LET r == InsertOnce(h, n, i + 1, entry, new)
         IN  HasHalfOrder(r.heap, top, n, r.split)
<1> DEFINE r == InsertOnce(h, n, i + 1, entry, new)
           g == SimpleInsert(h, n, i + 1, entry)
<1>1. /\ entry \in [slot : Slot, size : Nat] /\ entry.slot \in Roots(h)
      /\ i + 1 \in 0..h[n].length
  <2>1. ~ IsLeaf(h, n)
    BY DEF IsLeaf, IsInternal
  <2> QED
    BY <2>1, Zenon DEF InsertOK
<1>2. h[n].length \in 0..B
  BY Kinds
<1>3. CASE h[n].length < B
  <2>1. r.heap = g /\ r.split = None
    BY <1>3 DEF InsertOnce
  <2> HIDE DEF g, r
  <2>2. ChildInserted(h, g, n, i + 1, entry.slot, entry.size)
    BY <1>1, <1>3, SimpleInsertInternal DEF g
  <2>3. HalfOrder(g, after, after, top, n, None)
    BY <1>1, <1>3, <2>2, RoomOrder
  <2> QED
    BY <2>1, <2>3 DEF HasHalfOrder, r
<1>4. CASE h[n].length = B
  <2>1. new \in Free(h) /\ i < B
    BY <1>4
  <2>2. PICK f, left, m, j :
          /\ SplitAt(h, f, n, i, left, new, m, j)
          /\ r.heap = SimpleInsert(f, m, j, entry)
          /\ r.split = new
    BY <1>4, <2>1, InsertOnceAt
  <2> HIDE DEF r
  <2> DEFINE k == r.heap
  <2>3. k = SimpleInsert(f, m, j, entry)
    BY <2>2
  <2> HIDE DEF k
  <2>4. HalfOrder(k, Unaware(after, n, new), Spliced(after, n, new), top, n, new)
    BY <1>1, <1>4, <2>1, <2>2, <2>3, FullOrder
  <2>5. /\ Unaware(after, n, new) \in [Ptr -> PtrOrNone]
        /\ Spliced(after, n, new) \in [Ptr -> PtrOrNone]
    BY <2>1 DEF Unaware, Spliced, Free, Allocated, PtrOrNone
  <2> QED
    BY <2>2, <2>4, <2>5 DEF HasHalfOrder, k, r
<1> QED
  BY <1>2, <1>3, <1>4

\* insert_once of an item.
LEMMA LeafOrder ==
  ASSUME NEW h \in Heap, NEW lev, Tree(h, lev), NEW n \in Allocated(h),
         IsLeaf(h, n), NEW i, NEW entry,
         InsertOK(h, lev, n, i, entry), NEW new, h[n].length = B => new \in Free(h),
         NEW after \in [Ptr -> PtrOrNone], NEW top, IsTop(h, top),
         Levels(h, after, after, top, {})
  PROVE  LET r == InsertOnce(h, n, i, entry, new)
         IN  HasHalfOrder(r.heap, top, n, r.split)
<1> DEFINE r == InsertOnce(h, n, i, entry, new)
           g == SimpleInsert(h, n, i, entry)
<1>2. h[n].length \in 0..B /\ n \in Ptr
  BY Kinds
<1>3. CASE h[n].length < B
  <2>1. r.heap = g /\ r.split = None
    BY <1>3 DEF InsertOnce
  <2>2. SameLinks(h, g)
    BY <1>2, SimpleInsertLeaf, LeafPutLinks
  <2> HIDE DEF g, r
  <2>3. Levels(g, after, after, top, {})
    BY <2>2, LevelsFrame
  <2>4. HalfOrder(g, after, after, top, n, None)
    BY <2>3 DEF HalfOrder, SameOrder
  <2> QED
    BY <2>1, <2>4 DEF HasHalfOrder, r
<1>4. CASE h[n].length = B
  <2>1. new \in Free(h)
    BY <1>4
  <2>2. PICK left \in 1..(B - 1), m \in {n, new}, j \in Nat :
          SplitFirst(h, r, lev, n, entry, new, left, m, j)
    BY <1>4, <2>1, InsertOnceSplits
  <2> HIDE DEF r
  <2> DEFINE f == Split(h, n, left, new)
             k == SimpleInsert(f, m, j, entry)
             over2 == Unaware(after, n, new)
             after1 == Spliced(after, n, new)
  <2>3. /\ r.heap = k /\ r.split = new /\ f \in Heap
        /\ NodeSplit(h, f, n, left, new)
    BY <2>2 DEF SplitFirst
  <2>4. m \in Ptr /\ new # None /\ n # new
    BY <2>1, <1>2 DEF Free, Allocated
  <2> HIDE DEF f
  <2>5. Allocated(f) = Allocated(h) \cup {new}
    BY <1>4, <2>1, <2>3, NodeSplitTree
  <2>6. Levels(f, over2, after1, top, {})
    BY <1>4, <2>1, <2>3, <2>5, SplitOrder DEF Unaware
  <2>7. IsLeaf(f, m)
    BY <1>2, <2>3, <2>4 DEF NodeSplit, IsLeaf
  <2> HIDE DEF over2, after1
  <2>8. SameLinks(f, k)
    BY <2>3, <2>4, <2>7, SimpleInsertLeaf, LeafPutLinks
  <2> HIDE DEF k
  <2>9. Levels(k, over2, after1, top, {})
    BY <2>3, <2>6, <2>8, LevelsFrame
  <2>10. Allocated(k) = Allocated(h) \cup {new}
    BY <2>5, <2>8 DEF SameLinks, Allocated
  <2>11. /\ HalfApart(k, over2, after1, n, new)
         /\ over2 \in [Ptr -> PtrOrNone] /\ after1 \in [Ptr -> PtrOrNone]
    BY <2>1, <2>10, HalfSpliced DEF over2, after1
  <2>12. HalfOrder(k, over2, after1, top, n, new)
    BY <2>4, <2>9, <2>11 DEF HalfOrder
  <2> QED
    BY <2>3, <2>11, <2>12 DEF HasHalfOrder, r
<1> QED
  BY <1>2, <1>3, <1>4

-----------------------------------------------------------------------------
(***************************************************************************)
(* New roots, old roots and freed nodes.                                   *)
(***************************************************************************)

\* A new node at the end of an order leads nowhere.
LEMMA LevelsAlloc ==
  ASSUME NEW h \in Heap, NEW lev, Tree(h, lev), NEW new \in Free(h),
         NEW kind \in {"leaf", "internal"}, NEW g, g = Alloc(h, new, kind),
         NEW over \in [Ptr -> PtrOrNone], NEW after, NEW top, IsTop(h, top),
         Levels(h, over, after, top, {})
  PROVE  /\ Levels(g, [over EXCEPT ![new] = None], [after EXCEPT ![new] = None], top, {})
         /\ \A p \in Allocated(g) : [after EXCEPT ![new] = None][p] # new
         /\ [over EXCEPT ![new] = None] \in [Ptr -> PtrOrNone]
<1> DEFINE over1 == [over EXCEPT ![new] = None]
           after1 == [after EXCEPT ![new] = None]
<1>1. /\ new \in Ptr /\ new \notin Allocated(h) /\ new # None
      /\ after \in [Ptr -> PtrOrNone]
  BY DEF Free, Allocated, Levels
<1>2. /\ after1 \in [Ptr -> PtrOrNone] /\ over1 \in [Ptr -> PtrOrNone]
      /\ after1[new] = None /\ over1[new] = None
      /\ \A p \in Ptr : p # new => after1[p] = after[p] /\ over1[p] = over[p]
  BY <1>1 DEF PtrOrNone
<1>3. /\ Allocated(g) = Allocated(h) \cup {new} /\ g[new] = NewNode(kind)
      /\ \A p \in Ptr : p # new => g[p] = h[p]
  BY <1>1 DEF Alloc, Heap, Allocated, NewNode
<1>4. ASSUME NEW p \in Allocated(h)
      PROVE  /\ p \in Ptr /\ p # new /\ after1[p] = after[p] /\ g[p] = h[p]
             /\ after[p] # None => /\ after[p] \in Allocated(h) /\ after[p] # top
                                   /\ g[after[p]] = h[after[p]]
                                   /\ h[after[p]].kind = h[p].kind
  <2>1. LeadsOn(h, after, {} \cup {top}, p)
    BY <1>4, LevelsAt
  <2> QED
    BY <1>1, <1>2, <1>3, <1>4, <2>1 DEF LeadsOn, Allocated
<1> HIDE DEF over1, after1
<1>5. ASSUME NEW p \in Allocated(g) PROVE LeadsOn(g, after1, {} \cup {top}, p)
  <2>1. CASE p = new
    <3>1. IsLeaf(g, p) => g[p].next = None
      BY <1>3, <2>1 DEF NewNode
    <3> QED
      BY <1>2, <2>1, <3>1 DEF LeadsOn
  <2>2. CASE p # new
    <3>1. p \in Allocated(h) /\ LeadsOn(h, after, {} \cup {top}, p)
      BY <1>3, <1>5, <2>2, LevelsAt
    <3>2. \A q \in Allocated(g) : after1[q] = after1[p] /\ after1[p] # None => q = p
      BY <1>2, <1>3, <1>4, <3>1 DEF LeadsOn
    <3>3. IsLeaf(g, p) => g[p].next = after1[p]
      BY <1>4, <3>1 DEF LeadsOn, IsLeaf
    <3>4. after1[p] # None => /\ after1[p] \in Allocated(g) \ ({} \cup {top})
                              /\ g[after1[p]].kind = g[p].kind
      BY <1>3, <1>4, <3>1
    <3> QED
      BY <3>2, <3>3, <3>4 DEF LeadsOn
  <2> QED
    BY <2>1, <2>2
<1>6. ASSUME NEW p \in Allocated(g) PROVE ChildrenFollow(g, over1, after1, p)
  <2>1. CASE p = new
    BY <1>3, <2>1 DEF NewNode, ChildrenFollow
  <2>2. CASE p # new
    <3>1. p \in Allocated(h) /\ ChildrenFollow(h, over, after, p)
      BY <1>3, <1>6, <2>2, LevelsAt
    <3>2. SUFFICES ASSUME IsInternal(g, p), NEW i \in Position, i < g[p].length
                   PROVE  over1[g[p].children[i]] = NextChild(g, after1, p, i)
      BY DEF ChildrenFollow
    <3>3. g[p] = h[p] /\ IsInternal(h, p)
      BY <1>4, <3>1, <3>2 DEF IsInternal
    <3>4. h[p].children[i] \in Allocated(h)
      BY <3>1, <3>2, <3>3, ChildOf
    <3>5. over1[h[p].children[i]] = over[h[p].children[i]]
      BY <1>2, <1>4, <3>4
    <3>6. NextChild(g, after1, p, i) = NextChild(h, after, p, i)
      BY <1>4, <3>1, <3>3 DEF NextChild
    <3> QED
      BY <3>1, <3>2, <3>3, <3>5, <3>6 DEF ChildrenFollow
  <2> QED
    BY <2>1, <2>2
<1>7. top # None => over1[top] = None
  BY <1>2, <1>4 DEF IsTop, Levels, Allocated
<1>8. Levels(g, over1, after1, top, {})
  BY <1>2, <1>5, <1>6, <1>7, LevelsBy
<1>9. \A p \in Allocated(g) : after1[p] # new
  BY <1>1, <1>2, <1>3, <1>4
<1> QED
  BY <1>2, <1>8, <1>9 DEF over1, after1

\* The first leaf is the root.
LEMMA LevelsNewTop ==
  ASSUME NEW h, NEW over, NEW after, Levels(h, over, after, None, {}),
         NEW top, over[top] = None, \A p \in Allocated(h) : after[p] # top
  PROVE  Levels(h, over, after, top, {})
BY DEF Levels, LeadsOn

\* A new root takes the one that was the root until now.
LEMMA LevelsCrowned ==
  ASSUME NEW h \in Heap, NEW lev, Tree(h, lev), NEW g,
         NEW n \in Allocated(h), IsInternal(h, n), h[n].length = 0,
         NEW c, NEW sz, ChildInserted(h, g, n, 0, c, sz),
         NEW over, NEW after, c # None, Levels(h, over, after, c, {}),
         over[n] = None, after[n] = None, \A p \in Allocated(h) : after[p] # n
  PROVE  Levels(g, over, after, n, {})
<1>1. /\ Allocated(g) = Allocated(h) /\ after \in [Ptr -> PtrOrNone] /\ over[c] = None
      /\ n \in Ptr
  BY DEF ChildInserted, Allocated, Levels
<1>2. ASSUME NEW p \in Allocated(h)
      PROVE  /\ p \in Ptr /\ LeadsOn(h, after, {} \cup {c}, p)
             /\ after[p] # None => after[p] \in Ptr /\ after[p] # n
  <2>1. LeadsOn(h, after, {} \cup {c}, p)
    BY <1>2, LevelsAt
  <2> QED
    BY <1>2, <2>1 DEF LeadsOn, Allocated
<1>3. ASSUME NEW p \in Allocated(g) PROVE LeadsOn(g, after, {} \cup {n}, p)
  <2>1. p \in Allocated(h)
    BY <1>1, <1>3
  <2>2. \A q \in Ptr : g[q].kind = h[q].kind /\ g[q].next = h[q].next
    BY DEF ChildInserted
  <2> QED
    BY <1>1, <1>2, <2>1, <2>2 DEF LeadsOn, IsLeaf
<1>4. ASSUME NEW p \in Allocated(g) PROVE ChildrenFollow(g, over, after, p)
  <2>1. p \in Allocated(h) /\ ChildrenFollow(h, over, after, p) /\ p \in Ptr
    BY <1>1, <1>2, <1>4, LevelsAt
  <2>2. SUFFICES ASSUME IsInternal(g, p), NEW i \in Position, i < g[p].length
                 PROVE  over[g[p].children[i]] = NextChild(g, after, p, i)
    BY DEF ChildrenFollow
  <2>3. CASE p = n
    <3>1. g[n].length = 1 /\ g[n].children = RotateIn(h[n].children, 0, 0, c)
      BY <1>1 DEF ChildInserted
    <3>2. i = 0
      BY <2>2, <2>3, <3>1
    <3>3. g[n].children[0] = c
      BY <3>1, <3>2, <2>2 DEF RotateIn
    <3>4. NextChild(g, after, n, 0) = None
      BY <3>1 DEF NextChild
    <3> QED
      BY <1>1, <2>3, <3>2, <3>3, <3>4
  <2>4. CASE p # n
    <3>1. \A q \in Ptr : q # n => g[q].length = h[q].length /\ g[q].children = h[q].children
      BY DEF ChildInserted
    <3>2. IsInternal(h, p)
      BY <2>1, <2>2 DEF ChildInserted, IsInternal
    <3>3. NextChild(g, after, p, i) = NextChild(h, after, p, i)
      BY <1>2, <2>1, <2>4, <3>1 DEF NextChild
    <3> QED
      BY <2>1, <2>2, <2>4, <3>1, <3>2, <3>3 DEF ChildrenFollow
  <2> QED
    BY <2>3, <2>4
<1> QED
  BY <1>1, <1>3, <1>4, LevelsBy

\* A root gives way to its only child.
LEMMA LevelsUncrowned ==
  ASSUME NEW h \in Heap, NEW lev, Tree(h, lev), NEW g, NEW n \in Allocated(h),
         IsInternal(h, n), h[n].length = 1, Roots(h) = {n},
         NEW c, c = h[n].children[0], ChildRemoved(h, g, n, 0),
         NEW order, Levels(h, order, order, n, {})
  PROVE  Levels(g, order, order, c, {n})
<1>1. /\ Allocated(g) = Allocated(h) /\ order \in [Ptr -> PtrOrNone] /\ order[n] = None
      /\ n \in Ptr /\ n # None
  BY DEF ChildRemoved, Allocated, Levels
<1>2. c \in Allocated(h) /\ h[c].parent = n /\ h[c].index = 0
  BY ChildOf
<1>3. order[c] = None
  <2>1. ChildrenFollow(h, order, order, n)
    BY LevelsAt
  <2>2. order[c] = NextChild(h, order, n, 0)
    BY <2>1 DEF ChildrenFollow
  <2> QED
    BY <1>1, <2>2 DEF NextChild
<1>4. ASSUME NEW p \in Allocated(h)
      PROVE  /\ p \in Ptr /\ LeadsOn(h, order, {} \cup {n}, p)
             /\ order[p] # None => order[p] \in Ptr /\ order[p] \in Allocated(h) /\ order[p] # n
  <2>1. LeadsOn(h, order, {} \cup {n}, p)
    BY <1>4, LevelsAt
  <2> QED
    BY <1>4, <2>1 DEF LeadsOn, Allocated
<1>5. ASSUME NEW q \in Allocated(h), order[q] = c PROVE FALSE
  <2>1. q # n /\ q \in Ptr /\ c # None
    BY <1>1, <1>2, <1>4, <1>5 DEF Allocated
  <2> DEFINE p == h[q].parent
             i == h[q].index
  <2>2. p # None
    BY <1>5, <2>1 DEF Roots
  <2>3. /\ p \in Allocated(h) /\ IsInternal(h, p)
        /\ i \in Nat /\ i < h[p].length /\ h[p].children[i] = q
    BY <1>5, <2>2, ParentOf
  <2>4. p \in Ptr /\ h[p].length \in 0..B
    BY <2>3, FieldTypes DEF Allocated
  <2> HIDE DEF p, i
  <2>5. c = NextChild(h, order, p, i)
    <3>1. ChildrenFollow(h, order, order, p)
      BY <2>3, LevelsAt
    <3>2. i \in Position
      BY <2>3, <2>4
    <3> QED
      BY <1>5, <2>3, <3>1, <3>2 DEF ChildrenFollow
  <2>6. CASE i + 1 < h[p].length
    <3>1. c = h[p].children[i + 1]
      BY <2>5, <2>6 DEF NextChild
    <3>2. i + 1 \in Nat /\ i + 1 # 0
      BY <2>3
    <3>3. h[c].index = i + 1
      BY <2>3, <2>6, <3>1, <3>2, ChildOf
    <3> QED
      BY <1>2, <3>2, <3>3
  <2>7. CASE ~ (i + 1 < h[p].length)
    <3> DEFINE m == order[p]
    <3>1. m # None /\ c = h[m].children[0]
      BY <2>1, <2>5, <2>7 DEF NextChild
    <3>2. /\ m \in Allocated(h) /\ m # n /\ h[m].kind = h[p].kind
      BY <1>4, <2>3, <3>1 DEF LeadsOn
    <3> HIDE DEF m
    <3>3. IsInternal(h, m)
      BY <2>3, <3>2 DEF IsInternal
    <3>4. CASE 0 < h[m].length
      <4>1. h[c].parent = m
        BY <3>1, <3>2, <3>3, <3>4, ChildOf
      <4> QED
        BY <1>2, <3>2, <4>1
    <3>5. CASE ~ (0 < h[m].length)
      <4>1. h[m].children[0] = None
        <5>1. SlotsOK(h, lev, m) /\ 0 \in Position
          BY <3>2 DEF Tree
        <5> QED
          BY <3>3, <3>5, <5>1 DEF SlotsOK
      <4> QED
        BY <2>1, <3>1, <4>1
    <3> QED
      BY <3>4, <3>5
  <2> QED
    BY <2>6, <2>7
<1>6. ASSUME NEW p \in Allocated(g) PROVE LeadsOn(g, order, {n} \cup {c}, p)
  <2>1. p \in Allocated(h) /\ order[p] # c
    BY <1>1, <1>5, <1>6
  <2>2. \A q \in Ptr : g[q].kind = h[q].kind /\ g[q].next = h[q].next
    BY DEF ChildRemoved
  <2> QED
    BY <1>1, <1>4, <2>1, <2>2 DEF LeadsOn, IsLeaf
<1>7. ASSUME NEW p \in Allocated(g) PROVE ChildrenFollow(g, order, order, p)
  <2>1. p \in Allocated(h) /\ ChildrenFollow(h, order, order, p) /\ p \in Ptr
    BY <1>1, <1>4, <1>7, LevelsAt
  <2>2. SUFFICES ASSUME IsInternal(g, p), NEW i \in Position, i < g[p].length
                 PROVE  order[g[p].children[i]] = NextChild(g, order, p, i)
    BY DEF ChildrenFollow
  <2>3. p # n
    <3>1. g[n].length = 0
      BY <1>1 DEF ChildRemoved
    <3> QED
      BY <2>2, <3>1
  <2>4. \A q \in Ptr : q # n => g[q].length = h[q].length /\ g[q].children = h[q].children
    BY DEF ChildRemoved
  <2>5. IsInternal(h, p)
    BY <2>1, <2>2 DEF ChildRemoved, IsInternal
  <2>6. NextChild(g, order, p, i) = NextChild(h, order, p, i)
    BY <1>4, <2>1, <2>3, <2>4 DEF NextChild
  <2> QED
    BY <2>1, <2>2, <2>3, <2>4, <2>5, <2>6 DEF ChildrenFollow
<1> QED
  BY <1>1, <1>3, <1>6, <1>7, LevelsBy

\* A node that nobody leads to can go.
LEMMA LevelsFreed ==
  ASSUME NEW h \in Heap, NEW c \in Allocated(h), NEW g, g = Dealloc(h, c),
         NEW over, NEW after, NEW top, NEW gone,
         Levels(h, over, after, top, {c} \cup gone)
  PROVE  Levels(g, over, after, top, gone)
<1>1. /\ Allocated(g) = Allocated(h) \ {c} /\ after \in [Ptr -> PtrOrNone]
      /\ c \in Ptr /\ \A p \in Ptr : p # c => g[p] = h[p]
  BY DEF Dealloc, Heap, Allocated, NewNode, Levels
<1>2. ASSUME NEW p \in Allocated(h)
      PROVE  /\ p \in Ptr /\ LeadsOn(h, after, ({c} \cup gone) \cup {top}, p)
             /\ after[p] # None => /\ after[p] \in Ptr /\ after[p] \in Allocated(h)
                                   /\ after[p] # c /\ after[p] \notin gone /\ after[p] # top
                                   /\ g[after[p]] = h[after[p]]
  <2>1. LeadsOn(h, after, ({c} \cup gone) \cup {top}, p)
    BY <1>2, LevelsAt
  <2> QED
    BY <1>1, <1>2, <2>1 DEF LeadsOn, Allocated
<1>3. ASSUME NEW p \in Allocated(g) PROVE LeadsOn(g, after, gone \cup {top}, p)
  <2>1. p \in Allocated(h) /\ g[p] = h[p]
    BY <1>1, <1>2, <1>3
  <2>2. \A q \in Allocated(g) : after[q] = after[p] /\ after[p] # None => q = p
    BY <1>1, <1>2, <2>1 DEF LeadsOn
  <2>3. IsLeaf(g, p) => g[p].next = after[p]
    BY <1>2, <2>1 DEF LeadsOn, IsLeaf
  <2>4. after[p] # None => /\ after[p] \in Allocated(g) \ (gone \cup {top})
                           /\ g[after[p]].kind = g[p].kind
    BY <1>1, <1>2, <2>1 DEF LeadsOn
  <2> QED
    BY <2>2, <2>3, <2>4 DEF LeadsOn
<1>4. ASSUME NEW p \in Allocated(g) PROVE ChildrenFollow(g, over, after, p)
  <2>1. p \in Allocated(h) /\ g[p] = h[p] /\ ChildrenFollow(h, over, after, p)
    BY <1>1, <1>2, <1>4, LevelsAt
  <2>2. \A i : NextChild(g, after, p, i) = NextChild(h, after, p, i)
    BY <1>2, <2>1 DEF NextChild
  <2> QED
    BY <2>1, <2>2 DEF ChildrenFollow, IsInternal
<1>5. top # None => over[top] = None
  BY DEF Levels
<1> QED
  BY <1>1, <1>3, <1>4, <1>5, LevelsBy

-----------------------------------------------------------------------------
(***************************************************************************)
(* The actions that leave the levels alone.                                *)
(***************************************************************************)

\* Two orders that are one.
LEMMA LevelsSame ==
  ASSUME NEW h \in Heap, NEW lev, Tree(h, lev), NEW over, NEW after, NEW top,
         IsTop(h, top), NEW gone, Levels(h, over, after, top, gone),
         SameOrder(h, over, after)
  PROVE  Levels(h, after, after, top, gone)
<1>1. \A p \in Allocated(h) : after[p] = over[p]
  BY DEF SameOrder
<1> QED
  BY <1>1, LevelsAgree

\* Outside the climbs there is one order.
LEMMA OrderedThen ==
  ASSUME TypeInv, OrderInv, ~ Inserting, ~ Removing, ~ Ended, NEW lev, OneTree(lev)
  PROVE  \E order \in [Ptr -> PtrOrNone] : Ordered(heap, order, root, {})
<1>1. PICK over \in [Ptr -> PtrOrNone], after \in [Ptr -> PtrOrNone] :
        OrderInvAt(over, after)
  BY DEF OrderInv
<1>2. /\ heap \in Heap /\ Tree(heap, lev) /\ split = None /\ Top = root
      /\ root \in Roots(heap) \cup {None} /\ IsTop(heap, root)
  BY DEF OneTree, TypeInv, TypeOK, Top, IsTop
<1>3. Levels(heap, over, after, root, {}) /\ SameOrder(heap, over, after)
  BY <1>1, <1>2 DEF OrderInvAt
<1>4. Ordered(heap, after, root, {})
  BY <1>2, <1>3, LevelsSame DEF Ordered
<1> QED
  BY <1>4

\* It is enough there.
LEMMA OrderedStep ==
  ASSUME NEW order \in [Ptr -> PtrOrNone], Levels(heap', order, order, Top', {}),
         split' = None, ~ Removing'
  PROVE  OrderInv'
BY DEF OrderInv, OrderInvAt, SameOrder

\* While insert climbs.
LEMMA HalfOrderThen ==
  ASSUME Inserting, OrderInv
  PROVE  HasHalfOrder(heap, Top, node, split)
<1>1. ~ Ended /\ ~ Removing
  BY DEF Inserting, Removing, Ended
<1>2. PICK over \in [Ptr -> PtrOrNone], after \in [Ptr -> PtrOrNone] :
        OrderInvAt(over, after)
  BY <1>1 DEF OrderInv
<1>3. HalfOrder(heap, over, after, Top, node, split)
  BY <1>1, <1>2 DEF OrderInvAt, HalfOrder
<1> QED
  BY <1>3 DEF HasHalfOrder

\* It is enough there.
LEMMA HalfOrderStep ==
  ASSUME HasHalfOrder(heap', Top', node', split'), ~ Removing'
  PROVE  OrderInv'
<1>1. PICK over \in [Ptr -> PtrOrNone], after \in [Ptr -> PtrOrNone] :
        HalfOrder(heap', over, after, Top', node', split')
  BY DEF HasHalfOrder
<1>2. OrderInvAt(over, after)'
  BY <1>1 DEF OrderInvAt, HalfOrder
<1> QED
  BY <1>2 DEF OrderInv

\* While remove climbs.
LEMMA ReportedThen ==
  ASSUME Removing, OrderInv, NEW lev, Shrinking(lev)
  PROVE  \E over, after \in [Ptr -> PtrOrNone] :
           Reported(heap, over, after, root, {}, node, removal)
<1>1. ~ Ended /\ split = None /\ Top = root
  BY DEF Shrinking, Top
<1>2. PICK over \in [Ptr -> PtrOrNone], after \in [Ptr -> PtrOrNone] :
        OrderInvAt(over, after)
  BY <1>1 DEF OrderInv
<1>3. Reported(heap, over, after, root, {}, node, removal)
  BY <1>1, <1>2 DEF OrderInvAt, Reported
<1> QED
  BY <1>3

\* It is enough there.
LEMMA ReportedStep ==
  ASSUME NEW over \in [Ptr -> PtrOrNone], NEW after \in [Ptr -> PtrOrNone],
         Reported(heap', over, after, Top', {}, node', removal'),
         Removing', split' = None
  PROVE  OrderInv'
<1>1. OrderInvAt(over, after)'
  BY DEF OrderInvAt, Reported
<1> QED
  BY <1>1 DEF OrderInv

\* A failed check.
LEMMA PanicOrder == Panic => OrderInv'
BY DEF Panic, Leave, OrderInv, Ended

\* The empty vector.
LEMMA InitOrder == Init => OrderInv
<1> SUFFICES ASSUME Init PROVE OrderInv
  OBVIOUS
<1> DEFINE none == [p \in Ptr |-> None]
<1>1. Allocated(heap) = {} /\ Top = None /\ split = None /\ ~ Removing
  BY DEF Init, Allocated, NewNode, Top, Removing
<1>2. none \in [Ptr -> PtrOrNone]
  BY DEF PtrOrNone
<1>3. OrderInvAt(none, none)
  BY <1>1, <1>2 DEF OrderInvAt, Levels, SameOrder
<1> QED
  BY <1>2, <1>3 DEF OrderInv

\* A step that reads, or writes to a leaf.
LEMMA ReadOrder ==
  ASSUME TypeInv, TreeInv, OrderInv, ~ Inserting, ~ Removing, ~ Ended,
         SameLinks(heap, heap'), root # None => heap'[root].parent = heap[root].parent,
         root' = root, split' = split, ~ Removing'
  PROVE  OrderInv'
<1>1. PICK lev \in [Ptr -> Nat] : OneTree(lev)
  BY OneTreeThen
<1>2. PICK order \in [Ptr -> PtrOrNone] : Ordered(heap, order, root, {})
  BY <1>1, OrderedThen
<1>3. /\ heap \in Heap /\ split = None /\ Levels(heap, order, order, root, {})
      /\ root # None => heap[root].parent = None
  BY <1>1, <1>2 DEF OneTree, Ordered, TypeInv, TypeOK
<1>4. Levels(heap', order, order, root, {}) /\ Top' = root
  BY <1>3, LevelsFrame DEF Top
<1> QED
  BY <1>3, <1>4, OrderedStep

\* The same, with the heap untouched.
LEMMA ReadOnlyOrder ==
  ASSUME TypeInv, TreeInv, OrderInv, ~ Inserting, ~ Removing, ~ Ended,
         UNCHANGED fields, split' = split, ~ Removing'
  PROVE  OrderInv'
<1>1. SameLinks(heap, heap') /\ root' = root /\ heap'[root].parent = heap[root].parent
  BY DEF SameLinks, fields
<1> QED
  BY <1>1, ReadOrder

\* insert, remove, get and get_mut up to leaf_for.
LEMMA BeginOrder == TypeInv /\ TreeInv /\ OrderInv /\ Begin => OrderInv'
<1> SUFFICES ASSUME TypeInv, TreeInv, OrderInv, NEW i \in 0..MaxSize,
                    \/ \E x \in Item : BeginInsert(i, x) \/ BeginSet(i, x)
                    \/ BeginRemove(i)
                    \/ BeginGet(i)
             PROVE  OrderInv'
  BY DEF Begin
<1>1. pc = "idle" /\ pc' = "seek" /\ split' = split
  BY DEF BeginInsert, BeginSet, BeginRemove, BeginGet, Enter
<1>2. ~ Inserting /\ ~ Removing /\ ~ Ended /\ ~ Removing' /\ heap \in Heap
  BY <1>1 DEF Inserting, Removing, Ended, TypeInv, TypeOK
<1>3. CASE UNCHANGED fields
  BY <1>1, <1>2, <1>3, ReadOnlyOrder
<1>4. CASE (\E x \in Item : BeginInsert(i, x)) /\ root = None
  <2> DEFINE new == Fresh(heap)
  <2>1. /\ Free(heap) # {} /\ heap' = Alloc(heap, new, "leaf") /\ root' = new
    BY <1>4 DEF BeginInsert
  <2>2. new \in Free(heap)
    BY <2>1 DEF Fresh, Free
  <2> HIDE DEF new
  <2>3. new \in Ptr /\ new # None
    BY <2>2 DEF Free
  <2>4. PICK lev \in [Ptr -> Nat] : OneTree(lev)
    BY <1>2, OneTreeThen
  <2>5. PICK order \in [Ptr -> PtrOrNone] : Ordered(heap, order, root, {})
    BY <1>2, <2>4, OrderedThen
  <2>6. Tree(heap, lev) /\ Levels(heap, order, order, None, {}) /\ split = None
    BY <1>4, <2>4, <2>5 DEF OneTree, Ordered
  <2> DEFINE order1 == [order EXCEPT ![new] = None]
  <2>7. /\ Levels(heap', order1, order1, None, {}) /\ order1 \in [Ptr -> PtrOrNone]
        /\ \A p \in Allocated(heap') : order1[p] # new
    <3>1. IsTop(heap, None) /\ "leaf" \in {"leaf", "internal"}
      BY DEF IsTop
    <3> QED
      BY <1>2, <2>1, <2>2, <2>6, <3>1, LevelsAlloc
  <2>8. order1[new] = None
    BY <2>3
  <2> HIDE DEF order1
  <2>9. Levels(heap', order1, order1, new, {})
    BY <2>7, <2>8, LevelsNewTop
  <2>10. heap'[new].parent = None
    BY <1>2, <2>1, <2>3 DEF Alloc, Heap, NewNode
  <2>11. Top' = new
    BY <2>1, <2>3, <2>10 DEF Top
  <2> QED
    BY <1>1, <1>2, <2>6, <2>7, <2>9, <2>11, OrderedStep
<1> QED
  BY <1>3, <1>4 DEF BeginInsert, BeginSet, BeginRemove, BeginGet

\* leaf_for goes from a node to one of its children.
LEMMA DescendOrder == TypeInv /\ TreeInv /\ OrderInv /\ Descend => OrderInv'
<1> SUFFICES ASSUME TypeInv, TreeInv, OrderInv, Descend PROVE OrderInv'
  OBVIOUS
<1>1. CASE Panic
  BY <1>1, PanicOrder
<1>2. CASE ~ Panic
  <2>1. /\ pc = "seek" /\ UNCHANGED fields /\ pc' = pc /\ split' = split
    BY <1>2 DEF Descend
  <2>2. ~ Inserting /\ ~ Removing /\ ~ Ended /\ ~ Removing'
    BY <2>1 DEF Inserting, Removing, Ended
  <2> QED
    BY <2>1, <2>2, ReadOnlyOrder
<1> QED
  BY <1>1, <1>2

\* get and get_mut at the leaf.
LEMMA AccessOrder == TypeInv /\ TreeInv /\ OrderInv /\ (Get \/ Set \/ Return) => OrderInv'
<1> SUFFICES ASSUME TypeInv, TreeInv, OrderInv, Get \/ Set \/ Return PROVE OrderInv'
  OBVIOUS
<1>1. CASE Panic
  BY <1>1, PanicOrder
<1>2. CASE ~ Panic /\ (Get \/ Set)
  <2>1. /\ pc = "seek" /\ pc' = "return" /\ split' = split /\ root' = root
        /\ node \in Ptr /\ heap \in Heap /\ IsLeaf(heap, node)
    BY <1>2 DEF Get, Set, AtLeaf, TypeInv, TypeOK, CallOK, fields
  <2>2. ~ Inserting /\ ~ Removing /\ ~ Ended /\ ~ Removing'
    BY <2>1 DEF Inserting, Removing, Ended
  <2>3. CASE UNCHANGED fields
    BY <2>1, <2>2, <2>3, ReadOnlyOrder
  <2>4. CASE heap' = [heap EXCEPT ![node].children[index] = held]
    <3>1. \A p \in Ptr : /\ heap'[p].kind = heap[p].kind /\ heap'[p].next = heap[p].next
                         /\ heap'[p].length = heap[p].length
                         /\ heap'[p].parent = heap[p].parent
                         /\ p # node => heap'[p] = heap[p]
      BY <2>1, <2>4 DEF Heap, Node
    <3>2. SameLinks(heap, heap')
      BY <2>1, <3>1 DEF SameLinks, IsLeaf, IsInternal
    <3>3. root # None => heap'[root].parent = heap[root].parent
      BY <3>1 DEF TypeInv, TypeOK, PtrOrNone
    <3> QED
      BY <2>1, <2>2, <3>2, <3>3, ReadOrder
  <2> QED
    BY <1>2, <2>3, <2>4 DEF Get, Set
<1>3. CASE Return
  <2>1. pc = "return" /\ UNCHANGED fields /\ pc' = "idle" /\ split' = None
    BY <1>3 DEF Return, Leave
  <2>2. ~ Inserting /\ ~ Removing /\ ~ Ended /\ ~ Removing'
    BY <2>1 DEF Inserting, Removing, Ended
  <2>3. split = None
    BY <2>2, OneTreeThen DEF OneTree
  <2> QED
    BY <2>1, <2>2, <2>3, ReadOnlyOrder
<1> QED
  BY <1>1, <1>2, <1>3

-----------------------------------------------------------------------------
(***************************************************************************)
(* insert.                                                                 *)
(***************************************************************************)

\* Sizes are no link.
LEMMA ResizedOrder ==
  ASSUME NEW h \in Heap, NEW g, NEW n, Resized(h, g, n), NEW over, NEW after,
         NEW top, NEW gone, Levels(h, over, after, top, gone)
  PROVE  Levels(g, over, after, top, gone) /\ Allocated(g) = Allocated(h)
<1>1. SameLinks(h, g) /\ Allocated(g) = Allocated(h)
  BY DEF Resized, SameLinks, Allocated
<1> QED
  BY <1>1, LevelsFrame

\* So a half may wait while they change.
LEMMA ResizedHalf ==
  ASSUME NEW h \in Heap, NEW g, NEW n, Resized(h, g, n), NEW over, NEW after,
         NEW top, NEW child, NEW half, HalfOrder(h, over, after, top, child, half)
  PROVE  HalfOrder(g, over, after, top, child, half)
<1>1. Levels(g, over, after, top, {}) /\ Allocated(g) = Allocated(h)
  BY ResizedOrder DEF HalfOrder
<1> QED
  BY <1>1 DEF HalfOrder, HalfApart, SameOrder

\* insert_once at the leaf.
LEMMA InsertAtLeafOrder == TypeInv /\ TreeInv /\ OrderInv /\ InsertAtLeaf => OrderInv'
<1> SUFFICES ASSUME TypeInv, TreeInv, OrderInv, InsertAtLeaf
             PROVE  OrderInv'
  OBVIOUS
<1> DEFINE entry == Entry(held, 1)
           new == Fresh(heap)
           r == InsertOnce(heap, node, index, entry, new)
<1>0. /\ pc = "seek" /\ request.op = "insert" /\ node \in Ptr /\ heap \in Heap
      /\ index \in Nat /\ held \in Item /\ IsLeaf(heap, node)
  BY DEF InsertAtLeaf, AtLeaf, TypeInv, TypeOK, CallOK, TreeInv, TreeInvAt, HeldOK
<1>1. ~ Inserting /\ ~ Removing /\ ~ Ended
  BY <1>0 DEF Inserting, Removing, Ended
<1>2. PICK lev \in [Ptr -> Nat] : OneTree(lev)
  BY <1>1, OneTreeThen
<1>3. CASE InsertPanics(heap, node, index)
  BY <1>3, PanicOrder DEF InsertAtLeaf
<1>4. CASE ~ InsertPanics(heap, node, index)
  <2>1. /\ heap' = r.heap /\ split' = r.split
        /\ pc' = "climb" /\ root' = root /\ request' = request /\ node' = node
    BY <1>4 DEF InsertAtLeaf
  <2>2. heap[node].length = B => new \in Free(heap)
    BY DEF InsertAtLeaf, Fresh, Free
  <2>3. entry.slot = held /\ entry \in [slot : Slot, size : Nat]
    BY <1>0 DEF Entry, Slot
  <2>4. node \in Allocated(heap) /\ heap[node].length \in 0..B
    BY <1>0, FieldTypes DEF Allocated, IsLeaf
  <2>5. index \in 0..heap[node].length
    BY <1>0, <1>4, <2>4 DEF InsertPanics
  <2> HIDE DEF entry, new
  <2>6. InsertOK(heap, lev, node, index, entry)
    BY <1>0, <2>3, <2>4, <2>5 DEF InsertOK
  <2>7. InsertedOnce(heap, r, lev, node, held, new)
    BY <1>0, <1>2, <2>2, <2>3, <2>6, InsertOnceTree DEF OneTree
  <2>8. PICK order \in [Ptr -> PtrOrNone] : Ordered(heap, order, root, {})
    BY <1>1, <1>2, OrderedThen
  <2>9. /\ Tree(heap, lev) /\ Roots(heap) = {root} \ {None} /\ IsTop(heap, root)
        /\ Levels(heap, order, order, root, {})
    BY <1>2, <2>8 DEF OneTree, Ordered, IsTop
  <2>10. HasHalfOrder(r.heap, root, node, r.split)
    BY <1>0, <2>2, <2>4, <2>6, <2>9, LeafOrder
  <2> HIDE DEF r
  <2>11. Roots(heap) \ {held} = {root} \ {None}
    <3>1. held \notin Roots(heap)
      BY <1>0 DEF Roots, Allocated
    <3> QED
      BY <2>9, <3>1
  <2>12. root # None => heap'[root].parent = None
    BY <2>1, <2>7, <2>11, RootStays
  <2>13. Top' = root /\ ~ Removing'
    BY <1>0, <2>1, <2>12 DEF Top, Removing
  <2> QED
    BY <2>1, <2>10, <2>13, HalfOrderStep
<1> QED
  BY <1>3, <1>4

\* handle_insertion with nothing split: only sizes change.
LEMMA ClimbInsertOrder == TypeInv /\ TreeInv /\ OrderInv /\ ClimbInsert => OrderInv'
<1> SUFFICES ASSUME TypeInv, TreeInv, OrderInv, ClimbInsert PROVE OrderInv'
  OBVIOUS
<1> DEFINE parent == heap[node].parent
           i == heap[node].index
           g == Credit(heap, parent, i)
<1>1. Inserting /\ split = None /\ parent # None
  BY DEF ClimbInsert
<1>2. PICK lev \in [Ptr -> Nat] : Climbing(lev)
  BY <1>1, ClimbingThen
<1>3. CASE LinkPanics(heap, parent, i)
  BY <1>3, PanicOrder DEF ClimbInsert
<1>4. CASE ~ LinkPanics(heap, parent, i)
  <2>1. /\ heap' = g /\ node' = parent /\ root' = root /\ pc' = pc
        /\ request' = request /\ split' = split
    BY <1>4 DEF ClimbInsert
  <2>2. /\ heap \in Heap /\ Tree(heap, lev) /\ node \in Allocated(heap) /\ Top = root
        /\ Roots(heap) = {root} \ {None} /\ ~ Removing
    BY <1>1, <1>2 DEF Climbing
  <2>3. parent \in Ptr
    BY <1>1, <2>2, ParentOf DEF Allocated
  <2>4. Resized(heap, g, parent)
    BY <2>2, <2>3, CreditResized
  <2> HIDE DEF g, parent
  <2>5. PICK over \in [Ptr -> PtrOrNone], after \in [Ptr -> PtrOrNone] :
          HalfOrder(heap, over, after, root, node, split)
    BY <1>1, <2>2, HalfOrderThen DEF HasHalfOrder
  <2>6. HalfOrder(heap', over, after, root, node, None)
    BY <1>1, <2>1, <2>2, <2>4, <2>5, ResizedHalf
  <2>7. HalfOrder(heap', over, after, root, node', split')
    BY <1>1, <2>1, <2>6 DEF HalfOrder
  <2>8. Top' = root /\ ~ Removing'
    BY <2>1, <2>2, <2>4 DEF Top, Removing, Roots, Allocated, Resized
  <2> QED
    BY <2>7, <2>8, HalfOrderStep DEF HasHalfOrder
<1> QED
  BY <1>3, <1>4

\* A half that handle_insertion links behind its child, i of `parent`.
LEMMA HalfLinkedOrder ==
  ASSUME NEW h \in Heap, NEW g, NEW r, NEW lev, NEW parent, NEW i, NEW new,
         HalfLinked(h, g, r, lev, parent, i, new),
         NEW over \in [Ptr -> PtrOrNone], NEW after \in [Ptr -> PtrOrNone], NEW top,
         top # split, top \in Roots(h) \cup {None},
         HalfOrder(h, over, after, top, h[parent].children[i], split)
  PROVE  HasHalfOrder(r.heap, top, parent, r.split)
<1> DEFINE entry == Entry(split, NodeSize(h, split))
           child == h[parent].children[i]
<1>1. /\ parent \in Allocated(g) /\ parent \in Ptr /\ IsInternal(h, parent)
      /\ i \in Nat /\ i < h[parent].length
      /\ Resized(h, g, parent) /\ g \in Heap
      /\ Tree(g, lev) /\ Roots(g) = Roots(h)
      /\ g[parent].length = B => new \in Free(g)
      /\ InsertOK(g, lev, parent, i + 1, entry)
      /\ r = InsertOnce(g, parent, i + 1, entry, new)
  BY DEF HalfLinked
<1>2. entry.slot = split
  BY DEF Entry
<1> HIDE DEF entry
<1>3. /\ IsInternal(g, parent) /\ i < g[parent].length
      /\ g[parent].children[i] = child
  BY <1>1 DEF Resized, IsInternal
<1> HIDE DEF child
<1>4. HalfOrder(g, over, after, top, child, split)
  BY <1>1, ResizedHalf DEF child
<1>5. HalfOrder(g, over, after, top, g[parent].children[i], entry.slot)
  BY <1>2, <1>3, <1>4
<1>6. top # entry.slot /\ top \in Roots(g) \cup {None}
  BY <1>1, <1>2
<1> QED
  BY <1>1, <1>3, <1>5, <1>6, LinkOrder

\* handle_insertion with a new sibling.
LEMMA ClimbSplitOrder == TypeInv /\ TreeInv /\ OrderInv /\ ClimbSplit => OrderInv'
<1> SUFFICES ASSUME TypeInv, TreeInv, OrderInv, ClimbSplit PROVE OrderInv'
  OBVIOUS
<1> DEFINE parent == heap[node].parent
           i == heap[node].index
           new == Fresh(heap)
<1>1. Inserting /\ split # None /\ parent # None
  BY DEF ClimbSplit
<1>2. PICK lev \in [Ptr -> Nat] : Climbing(lev)
  BY <1>1, ClimbingThen
<1>3. CASE LinkPanics(heap, parent, i)
  BY <1>3, PanicOrder DEF ClimbSplit
<1>4. CASE ~ LinkPanics(heap, parent, i)
  <2>1. PICK g, r : /\ HalfLinked(heap, g, r, lev, parent, i, new)
                    /\ heap' = r.heap /\ split' = r.split
                    /\ node' = parent
                    /\ UNCHANGED <<root, size, request, pc, index, held, removal>>
    BY <1>2, <1>4, ClimbSplitLinks
  <2>2. /\ heap \in Heap /\ Tree(heap, lev) /\ node \in Allocated(heap) /\ Top = root
        /\ Roots(heap) = {root, split} \ {None} /\ split # root /\ ~ Removing
    BY <1>1, <1>2 DEF Climbing
  <2>3. heap[parent].children[i] = node
    BY <1>1, <2>2, ParentOf
  <2> HIDE DEF parent, i, new
  <2>4. PICK over \in [Ptr -> PtrOrNone], after \in [Ptr -> PtrOrNone] :
          HalfOrder(heap, over, after, root, node, split)
    BY <1>1, <2>2, HalfOrderThen DEF HasHalfOrder
  <2>5. root \in Roots(heap) \cup {None}
    BY <2>2
  <2>6. HasHalfOrder(heap', root, node', split')
    BY <2>1, <2>2, <2>3, <2>4, <2>5, HalfLinkedOrder
  <2>7. Roots(g) \ {split} = {root} \ {None} /\ InsertedOnce(g, r, lev, parent, split, new)
    BY <2>1, <2>2 DEF HalfLinked
  <2>8. root # None => heap'[root].parent = None
    BY <2>1, <2>7, RootStays
  <2>9. Top' = root /\ ~ Removing'
    BY <2>1, <2>2, <2>8 DEF Top, Removing
  <2> QED
    BY <2>6, <2>9, HalfOrderStep
<1> QED
  BY <1>3, <1>4

\* The new root with the old one as its child 0: the half follows that.
LEMMA CrownOrder ==
  ASSUME NEW h \in Heap, NEW lev, Tree(h, lev), NEW f, NEW c, NEW lev2, NEW parent,
         NEW entry, NEW half \in Allocated(h),
         Crowned(h, f, c, lev2, parent, entry, half), entry.slot \in Allocated(h),
         HasHalfOrder(h, entry.slot, entry.slot, half), half # None
  PROVE  /\ \E over, after \in [Ptr -> PtrOrNone] :
              HalfOrder(c, over, after, parent, entry.slot, half)
         /\ c[parent].children[0] = entry.slot /\ c[entry.slot].parent = parent
<1> DEFINE child == entry.slot
<1>1. /\ f \in Heap /\ Tree(f, lev2) /\ f[parent] = NewNode("internal")
      /\ \A p \in Ptr : p # parent => f[p] = h[p]
      /\ IsInternal(f, parent) /\ f[parent].length < B
      /\ parent \in Ptr /\ parent \notin Allocated(h)
      /\ InsertOK(f, lev2, parent, 0, entry)
      /\ c = SimpleInsert(f, parent, 0, entry)
      /\ Allocated(c) = Allocated(h) \cup {parent}
  BY DEF Crowned
<1>2. /\ parent \in Allocated(f) /\ 0 \in 0..f[parent].length
      /\ entry \in [slot : Slot, size : Nat] /\ child \in Roots(f)
  BY <1>1 DEF InsertOK, IsLeaf, IsInternal
<1>3. ChildInserted(f, c, parent, 0, child, entry.size)
  BY <1>1, <1>2, SimpleInsertInternal
<1>4. parent \in Free(h) /\ f = Alloc(h, parent, "internal")
  <2>1. parent \in Free(h)
    BY <1>1 DEF Free, Allocated
  <2>2. f = [p \in Ptr |-> f[p]]
    BY <1>1 DEF Heap
  <2> QED
    BY <1>1, <2>1, <2>2 DEF Alloc, Heap
<1>5. PICK over \in [Ptr -> PtrOrNone], after \in [Ptr -> PtrOrNone] :
        HalfOrder(h, over, after, child, child, half)
  BY DEF HasHalfOrder
<1>6. /\ Levels(h, over, after, child, {}) /\ HalfApart(h, over, after, child, half)
      /\ IsTop(h, child) /\ child \in Ptr /\ child # None /\ child # parent
      /\ half \in Ptr /\ half # parent
  BY <1>1, <1>5 DEF HalfOrder, IsTop, Allocated
<1> DEFINE over1 == [over EXCEPT ![parent] = None]
           after1 == [after EXCEPT ![parent] = None]
<1> HIDE DEF child
<1>7. /\ Levels(f, over1, after1, child, {}) /\ over1 \in [Ptr -> PtrOrNone]
      /\ \A p \in Allocated(f) : after1[p] # parent
  BY <1>4, <1>6, LevelsAlloc
<1>8. /\ over1[parent] = None /\ after1[parent] = None
      /\ after1 \in [Ptr -> PtrOrNone]
      /\ \A p \in Ptr : p # parent => over1[p] = over[p] /\ after1[p] = after[p]
  BY <1>1 DEF PtrOrNone
<1> HIDE DEF over1, after1
<1>9. f[parent].length = 0
  BY <1>1 DEF NewNode
<1>10. Levels(c, over1, after1, parent, {})
  BY <1>1, <1>2, <1>3, <1>6, <1>7, <1>8, <1>9, LevelsCrowned
<1>11. HalfApart(c, over1, after1, child, half)
  <2>1. after1[child] = half /\ over1[child] = after1[half]
    BY <1>6, <1>8 DEF HalfApart
  <2>2. \A p \in Allocated(c) \ {child} : over1[p] = after1[p]
    BY <1>1, <1>6, <1>8 DEF HalfApart, Allocated
  <2> QED
    BY <2>1, <2>2 DEF HalfApart
<1>12. HalfOrder(c, over1, after1, parent, child, half)
  BY <1>10, <1>11 DEF HalfOrder
<1>13. c[parent].children[0] = child /\ c[child].parent = parent
  <2>1. c[parent].children = RotateIn(f[parent].children, 0, 0, child)
    BY <1>1, <1>3, <1>9 DEF ChildInserted
  <2>2. RotateIn(f[parent].children, 0, 0, child)[0] = child
    <3>1. 0 \in Position
      OBVIOUS
    <3> QED
      BY <3>1 DEF RotateIn
  <2>3. c[child].parent = parent
    BY <1>3, <1>6 DEF ChildInserted
  <2> QED
    BY <2>1, <2>2, <2>3
<1> QED
  BY <1>7, <1>8, <1>12, <1>13 DEF child

\* handle_insertion at the root: the new root takes both halves.
LEMMA GrowRootOrder == TypeInv /\ TreeInv /\ OrderInv /\ GrowRoot => OrderInv'
<1> SUFFICES ASSUME TypeInv, TreeInv, OrderInv, GrowRoot PROVE OrderInv'
  OBVIOUS
<1> DEFINE parent == Fresh(heap)
           entry == Entry(node, size)
           grown == SimpleInsert(Alloc(heap, parent, "internal"), parent, 0, entry)
<1>1. Inserting /\ split # None /\ heap[node].parent = None
  BY DEF GrowRoot
<1>2. PICK lev \in [Ptr -> Nat] : Climbing(lev)
  BY <1>1, ClimbingThen
<1>3. CASE LinkPanics(grown, parent, heap[node].index)
  BY <1>3, PanicOrder DEF GrowRoot
<1>4. CASE ~ LinkPanics(grown, parent, heap[node].index)
  <2>1. PICK lev2, f, c, g, r :
          /\ Crowned(heap, f, c, lev2, parent, entry, split)
          /\ HalfLinked(c, g, r, lev2, parent, 0, None)
          /\ Inserted(g, r.heap, lev2, parent, split)
          /\ heap' = r.heap /\ split' = None /\ node' = parent
          /\ node = root /\ heap[node].index = 0 /\ split \in Ptr
          /\ UNCHANGED <<root, size, request, pc, index, held, removal>>
    BY <1>2, <1>4, GrowRootLinks
  <2> HIDE DEF parent, grown
  <2>2. /\ heap \in Heap /\ Tree(heap, lev) /\ node \in Allocated(heap) /\ Top = node
        /\ split \in Allocated(heap) /\ split # node /\ ~ Removing
    BY <1>1, <1>2, <2>1 DEF Climbing, Roots
  <2>3. entry.slot = node
    BY DEF Entry
  <2> HIDE DEF entry
  <2>4. HasHalfOrder(heap, entry.slot, entry.slot, split)
    BY <1>1, <2>2, <2>3, HalfOrderThen
  <2>5. /\ \E over, after \in [Ptr -> PtrOrNone] :
              HalfOrder(c, over, after, parent, entry.slot, split)
        /\ c[parent].children[0] = entry.slot /\ c[entry.slot].parent = parent
    BY <1>1, <2>1, <2>2, <2>3, <2>4, CrownOrder
  <2>6. PICK over \in [Ptr -> PtrOrNone], after \in [Ptr -> PtrOrNone] :
          HalfOrder(c, over, after, parent, c[parent].children[0], split)
    BY <2>5
  <2>7. /\ c \in Heap /\ Roots(c) = {parent, split} /\ split # parent /\ parent \in Ptr
    BY <2>1 DEF Crowned
  <2>8. HasHalfOrder(r.heap, parent, parent, r.split)
    BY <2>1, <2>6, <2>7, HalfLinkedOrder
  <2>9. r.split = None
    BY <2>1 DEF HalfLinked, InsertedOnce
  <2>10. heap'[node].parent = parent
    <3>1. g[node].parent = c[node].parent
      BY <2>1, <2>2 DEF HalfLinked, Resized, Allocated
    <3> QED
      BY <2>1, <2>2, <2>3, <2>5, <3>1 DEF Inserted, Allocated
  <2>11. Top' = parent /\ ~ Removing'
    <3>1. parent # None /\ node # None
      BY <2>2, <2>7 DEF Allocated
    <3> QED
      BY <2>1, <2>2, <2>10, <3>1 DEF Top, Removing
  <2> QED
    BY <2>1, <2>8, <2>9, <2>11, HalfOrderStep
<1> QED
  BY <1>3, <1>4

\* The end of insert.
LEMMA FinishInsertOrder == TypeInv /\ TreeInv /\ OrderInv /\ FinishInsert => OrderInv'
<1> SUFFICES ASSUME TypeInv, TreeInv, OrderInv, FinishInsert PROVE OrderInv'
  OBVIOUS
<1>1. /\ Inserting /\ split = None /\ heap[node].parent = None
      /\ root' = node /\ heap' = heap /\ pc' = "idle" /\ split' = None
  BY DEF FinishInsert, Leave
<1>2. PICK lev \in [Ptr -> Nat] : Climbing(lev)
  BY <1>1, ClimbingThen
<1>3. /\ heap \in Heap /\ Tree(heap, lev) /\ node \in Allocated(heap)
      /\ Roots(heap) = {Top} \ {None}
  BY <1>1, <1>2 DEF Climbing
<1>4. Top = node /\ IsTop(heap, node)
  BY <1>1, <1>3 DEF Roots, IsTop
<1>5. PICK over \in [Ptr -> PtrOrNone], after \in [Ptr -> PtrOrNone] :
        HalfOrder(heap, over, after, node, node, None)
  BY <1>1, <1>4, HalfOrderThen DEF HasHalfOrder
<1>6. Levels(heap, after, after, node, {})
  BY <1>3, <1>4, <1>5, LevelsSame DEF HalfOrder
<1>7. Top' = node /\ ~ Removing'
  BY <1>1 DEF Top, Removing
<1> QED
  BY <1>1, <1>6, <1>7, OrderedStep

\* A failing allocation ends the program.
LEMMA AllocFailsOrder == AllocFails => OrderInv'
BY DEF AllocFails, Leave, OrderInv, Ended

-----------------------------------------------------------------------------
(***************************************************************************)
(* remove.                                                                 *)
(***************************************************************************)

\* remove_once of an item has no assertion fail, and leaves an order.
LEMMA LeafRemoval ==
  ASSUME NEW h \in Heap, NEW lev, Tree(h, lev), NEW n \in Allocated(h), IsLeaf(h, n),
         NEW i \in Nat, i < h[n].length,
         NEW order \in [Ptr -> PtrOrNone], NEW top, NEW gone,
         Ordered(h, order, top, gone), NEW r, r = RemoveOnce(h, n, i)
  PROVE  /\ ~ RemovePanics(h, n, i)
         /\ \E after \in [Ptr -> PtrOrNone] :
              Reported(r.heap, order, after, top, gone, n, r.removal)
<1> DEFINE f == SimpleRemove(h, n, i)
<1>1. n \in Ptr
  BY Kinds
<1>2. Removed(h, f, lev, n, i) /\ f \in Heap
  BY <1>1, SimpleRemoveTree, SimpleRemoveType
<1>3. SameLinks(h, f)
  BY <1>1, SimpleRemoveLeaf, LeafPutLinks
<1>4. r = Rebalance(f, n) /\ (RemovePanics(h, n, i) => RebalancePanics(f, n))
  <2>1. ~ (i >= h[n].length)
    BY Kinds
  <2> QED
    BY <2>1 DEF RemoveOnce, RemovePanics
<1> HIDE DEF f
<1>5. Tree(f, lev) /\ Allocated(f) = Allocated(h) /\ Roots(f) = Roots(h)
  BY <1>2 DEF Removed
<1>6. Ordered(f, order, top, gone)
  BY <1>3, <1>5, LevelsFrame DEF Ordered
<1>7. LevelFilled(f, lev, n)
  <2>1. IsLeaf(f, n)
    BY <1>1, <1>3 DEF SameLinks, IsLeaf
  <2>2. lev[n] = 0
    BY <1>5, <2>1 DEF Tree
  <2>3. \A p \in Allocated(f) : lev[p] = lev[n] => ~ IsInternal(f, p)
    BY <1>5, <2>2 DEF Tree, IsLeaf, IsInternal
  <2> QED
    BY <2>3 DEF LevelFilled
<1>8. ~ RebalancePanics(f, n)
  BY <1>2, <1>5, <1>6, <1>7, RebalanceSafe
<1>9. RebalancedBy(f, Rebalance(f, n), lev, n)
  BY <1>2, <1>5, <1>8, RebalanceCases
<1>10. \E after \in [Ptr -> PtrOrNone] :
         Reported(r.heap, order, after, top, gone, n, r.removal)
  BY <1>2, <1>4, <1>5, <1>6, <1>7, <1>9, RebalanceOrder
<1> QED
  BY <1>4, <1>8, <1>10

\* Nor does it of a child that a merge has emptied into the one before it.
LEMMA ChildRemoval ==
  ASSUME NEW h \in Heap, NEW lev, Tree(h, lev), NEW n \in Allocated(h),
         IsInternal(h, n), NEW i \in Nat, i >= 1, i < h[n].length,
         LevelFilled(h, lev, n),
         NEW over, NEW after \in [Ptr -> PtrOrNone], NEW top,
         top \in Roots(h) \cup {None}, NEW gone, Levels(h, over, after, top, gone),
         TakenFrom(h, over, after, h[n].children[i - 1], h[n].children[i]),
         NEW r, r = RemoveOnce(h, n, i)
  PROVE  /\ ~ RemovePanics(h, n, i)
         /\ \E after1 \in [Ptr -> PtrOrNone] :
              Reported(r.heap, after, after1, top, gone, n, r.removal)
<1> DEFINE f == SimpleRemove(h, n, i)
<1>1. n \in Ptr /\ ~ IsLeaf(h, n) /\ h[n].length \in 0..B
  BY Kinds
<1>2. Removed(h, f, lev, n, i) /\ f \in Heap
  BY <1>1, SimpleRemoveTree, SimpleRemoveType
<1>3. ChildRemoved(h, f, n, i)
  BY SimpleRemoveInternal
<1>4. r = Rebalance(f, n) /\ (RemovePanics(h, n, i) => RebalancePanics(f, n))
  <2>1. ~ (i >= h[n].length)
    BY <1>1
  <2> QED
    BY <2>1 DEF RemoveOnce, RemovePanics
<1> HIDE DEF f
<1>5. /\ Tree(f, lev) /\ Allocated(f) = Allocated(h) /\ Roots(h) \subseteq Roots(f)
      /\ \A p \in Ptr : f[p].length = h[p].length - (IF p = n THEN 1 ELSE 0)
  BY <1>2 DEF Removed
<1>6. Levels(f, after, after, top, gone)
  BY <1>3, LevelsRemoved
<1>7. Ordered(f, after, top, gone)
  BY <1>5, <1>6 DEF Ordered
<1>8. LevelFilled(f, lev, n)
  <2>1. ASSUME NEW p \in Allocated(f), lev[p] = lev[n], IsInternal(f, p)
        PROVE  f[p].length >= 1
    <3>1. p \in Allocated(h) /\ p \in Ptr /\ h[p].length \in 0..B
      BY <1>5, <2>1, Kinds
    <3>2. IsInternal(h, p)
      BY <1>3, <2>1, <3>1 DEF ChildRemoved, IsInternal
    <3>3. h[p].length >= 1
      BY <2>1, <3>1, <3>2 DEF LevelFilled
    <3>4. CASE p = n
      <4>1. f[p].length = h[p].length - 1
        BY <1>5, <3>1, <3>4
      <4> QED
        BY <3>1, <3>4, <4>1
    <3>5. CASE p # n
      <4>1. f[p].length = h[p].length - 0
        BY <1>5, <3>1, <3>5
      <4> QED
        BY <3>1, <3>3, <4>1
    <3> QED
      BY <3>4, <3>5
  <2> QED
    BY <2>1 DEF LevelFilled
<1>9. n \in Allocated(f)
  BY <1>5
<1>10. ~ RebalancePanics(f, n)
  BY <1>2, <1>5, <1>7, <1>8, <1>9, RebalanceSafe
<1>11. RebalancedBy(f, Rebalance(f, n), lev, n)
  BY <1>2, <1>5, <1>9, <1>10, RebalanceCases
<1>12. \E after1 \in [Ptr -> PtrOrNone] :
         Reported(r.heap, after, after1, top, gone, n, r.removal)
  BY <1>2, <1>4, <1>5, <1>7, <1>8, <1>9, <1>11, RebalanceOrder
<1> QED
  BY <1>4, <1>10, <1>12

\* All that makes child i of n one to take out: it follows what is before it,
\* in what order follows is `after`.
Removable(h, lev, n, i, over, after, top, gone) ==
  /\ h \in Heap /\ Tree(h, lev) /\ n \in Allocated(h) /\ IsInternal(h, n)
  /\ i \in Nat /\ i >= 1 /\ i < h[n].length /\ LevelFilled(h, lev, n)
  /\ after \in [Ptr -> PtrOrNone] /\ top \in Roots(h) \cup {None}
  /\ Levels(h, over, after, top, gone)
  /\ TakenFrom(h, over, after, h[n].children[i - 1], h[n].children[i])

\* So it is taken out, with no assertion failing.
LEMMA RemovableChild ==
  ASSUME NEW h, NEW lev, NEW n, NEW i, NEW over, NEW after, NEW top, NEW gone,
         Removable(h, lev, n, i, over, after, top, gone)
  PROVE  /\ ~ RemovePanics(h, n, i)
         /\ \E after1 \in [Ptr -> PtrOrNone] :
              Reported(RemoveOnce(h, n, i).heap, after, after1, top, gone, n,
                       RemoveOnce(h, n, i).removal)
<1> DEFINE r == RemoveOnce(h, n, i)
<1>1. r = RemoveOnce(h, n, i)
  OBVIOUS
<1> HIDE DEF r
<1>2. /\ h \in Heap /\ Tree(h, lev) /\ n \in Allocated(h) /\ IsInternal(h, n)
      /\ i \in Nat /\ i >= 1 /\ i < h[n].length /\ LevelFilled(h, lev, n)
      /\ after \in [Ptr -> PtrOrNone] /\ top \in Roots(h) \cup {None}
      /\ Levels(h, over, after, top, gone)
      /\ TakenFrom(h, over, after, h[n].children[i - 1], h[n].children[i])
  BY DEF Removable
<1>3. /\ ~ RemovePanics(h, n, i)
      /\ \E after1 \in [Ptr -> PtrOrNone] :
           Reported(r.heap, after, after1, top, gone, n, r.removal)
  BY <1>1, <1>2, ChildRemoval
<1> QED
  BY <1>3 DEF r

\* A report does not change when a node goes that is neither a sibling of n nor
\* its parent.
LEMMA ReportedFreed ==
  ASSUME NEW h \in Heap, NEW c \in Allocated(h), NEW g, g = Dealloc(h, c),
         NEW n \in Ptr, n # c, h[n].parent # c, NEW r, RemovalFits(h, n, r),
         NEW over, NEW after, NEW top,
         Reported(h, over, after, top, {c}, n, r)
  PROVE  Reported(g, over, after, top, {}, n, r)
<1>1. /\ c \in Ptr /\ Allocated(g) \subseteq Allocated(h)
      /\ \A p \in Ptr : p # c => g[p] = h[p]
  BY DEF Dealloc, Heap, Allocated, NewNode
<1>2. Levels(h, over, after, top, {c} \cup GoneIn(h, n, r)) /\ MergeOrder(h, over, after, n, r)
  BY DEF Reported
<1>3. Levels(g, over, after, top, GoneIn(h, n, r))
  BY <1>2, LevelsFreed
<1>4. CASE r.kind # "Merged"
  BY <1>1, <1>2, <1>3, <1>4 DEF Reported, GoneIn, MergeOrder, SameOrder
<1>5. CASE r.kind = "Merged"
  <2>1. g[n].parent = h[n].parent /\ g[h[n].parent] = h[h[n].parent]
    <3>1. h[n].parent \in Ptr
      BY <1>5, FieldTypes DEF RemovalFits, PtrOrNone
    <3> QED
      BY <1>1, <3>1
  <2>2. SourceOf(g, n, r) = SourceOf(h, n, r) /\ TargetOf(g, n, r) = TargetOf(h, n, r)
    BY <2>1 DEF SourceOf, TargetOf
  <2> QED
    BY <1>1, <1>2, <1>3, <1>5, <2>2 DEF Reported, GoneIn, MergeOrder, StillOver
<1> QED
  BY <1>4, <1>5

\* handle_removal of Merged: the emptied child leaves the parent.
LEMMA ShrinkingMerge ==
  ASSUME NEW lev, Shrinking(lev), removal.kind = "Merged",
         NEW over \in [Ptr -> PtrOrNone], NEW after \in [Ptr -> PtrOrNone],
         Reported(heap, over, after, root, {}, node, removal),
         NEW q, q = heap[node].parent, NEW g \in Heap, g = Debit(heap, q),
         NEW x, x = heap[q].children[removal.src],
         NEW r, r = RemoveOnce(g, q, removal.src)
  PROVE  /\ q \in Ptr /\ x \in Ptr
         /\ ~ RemovePanics(g, q, removal.src)
         /\ \E after1 \in [Ptr -> PtrOrNone] :
              Reported(r.heap, after, after1, root, {x}, q, r.removal)
<1> DEFINE src == removal.src
           dest == removal.dest
           d == heap[q].children[dest]
<1>1. /\ heap \in Heap /\ Tree(heap, lev) /\ node \in Allocated(heap)
      /\ Roots(heap) = {root} /\ removal \in Removal
      /\ RemovalFits(heap, node, removal)
      /\ \A p \in Allocated(heap) :
           IsInternal(heap, p) =>
             heap[p].length >= 1 \/ EmptiedBy(heap, node, removal, p)
  BY DEF Shrinking
<1>2. /\ q # None /\ src < heap[q].length /\ dest < heap[q].length
      /\ src \in Nat /\ dest \in Nat
  BY <1>1 DEF RemovalFits, Removal
<1>3. q \in Allocated(heap) /\ q \in Ptr /\ IsInternal(heap, q)
  BY <1>1, <1>2, ParentOf, Kinds
<1>4. /\ Levels(heap, over, after, root, {x}) /\ src = dest + 1
      /\ StillOver(heap, over, after, d, x)
  <2>1. /\ Levels(heap, over, after, root, {} \cup GoneIn(heap, node, removal))
        /\ MergeOrder(heap, over, after, node, removal)
    BY DEF Reported
  <2>2. SourceOf(heap, node, removal) = x /\ TargetOf(heap, node, removal) = d
    BY DEF SourceOf, TargetOf
  <2>3. {} \cup GoneIn(heap, node, removal) = {x}
    BY <2>2 DEF GoneIn
  <2> QED
    BY <2>1, <2>2, <2>3 DEF MergeOrder
<1>5. x \in Allocated(heap) /\ x \in Ptr
  BY <1>1, <1>2, <1>3, ChildOf, Kinds
<1>6. Resized(heap, g, q)
  BY <1>1, <1>3, DebitResized
<1> HIDE DEF src, dest, d
<1>7. Tree(g, lev) /\ Allocated(g) = Allocated(heap) /\ Roots(g) = Roots(heap)
  BY <1>1, <1>6, ResizedTree
<1>8. Levels(g, over, after, root, {x})
  BY <1>1, <1>4, <1>6, ResizedOrder
<1>9. /\ IsInternal(g, q) /\ src < g[q].length /\ src >= 1
      /\ g[q].children[src - 1] = d /\ g[q].children[src] = x
  <2>1. g[q].length = heap[q].length /\ g[q].children = heap[q].children /\ IsInternal(g, q)
    BY <1>3, <1>6 DEF Resized, IsInternal
  <2>2. src >= 1 /\ src - 1 = dest
    BY <1>2, <1>4
  <2>3. heap[q].children[dest] = d /\ heap[q].children[src] = x
    BY DEF d, src
  <2> QED
    BY <1>2, <2>1, <2>2, <2>3
<1>10. TakenFrom(g, over, after, d, x)
  BY <1>4, <1>7 DEF TakenFrom, StillOver
<1>11. LevelFilled(g, lev, q)
  <2>1. ASSUME NEW p \in Allocated(g), lev[p] = lev[q], IsInternal(g, p)
        PROVE  g[p].length >= 1
    <3>1. p \in Allocated(heap) /\ p \in Ptr
      BY <1>7, <2>1, Kinds
    <3>2. IsInternal(heap, p) /\ g[p].length = heap[p].length
      BY <1>6, <2>1, <3>1 DEF Resized, IsInternal
    <3>3. ASSUME EmptiedBy(heap, node, removal, p) PROVE FALSE
      <4>1. heap[p].parent = q /\ heap[p].parent # None
        BY <3>3 DEF EmptiedBy
      <4>2. lev[q] = lev[p] + 1
        BY <1>1, <3>1, <4>1, ParentOf
      <4>3. lev[p] \in Nat
        BY <1>1, <3>1 DEF Tree
      <4> QED
        BY <2>1, <4>2, <4>3
    <3> QED
      BY <1>1, <3>1, <3>2, <3>3
  <2> QED
    BY <2>1 DEF LevelFilled
<1>12. /\ ~ RemovePanics(g, q, src)
       /\ \E after1 \in [Ptr -> PtrOrNone] :
            Reported(r.heap, after, after1, root, {x}, q, r.removal)
  <2>1. q \in Allocated(g) /\ root \in Roots(g) \cup {None}
    BY <1>1, <1>3, <1>7
  <2>2. r = RemoveOnce(g, q, src)
    BY DEF src
  <2>3. TakenFrom(g, over, after, g[q].children[src - 1], g[q].children[src])
    BY <1>9, <1>10
  <2>4. Removable(g, lev, q, src, over, after, root, {x})
    BY <1>2, <1>7, <1>8, <1>9, <1>11, <2>1, <2>3 DEF Removable
  <2>5. /\ ~ RemovePanics(g, q, src)
        /\ \E after1 \in [Ptr -> PtrOrNone] :
             Reported(RemoveOnce(g, q, src).heap, after, after1, root, {x}, q,
                      RemoveOnce(g, q, src).removal)
    BY <2>4, RemovableChild
  <2> QED
    BY <2>2, <2>5
<1> QED
  BY <1>3, <1>5, <1>12 DEF src

\* remove_once at the leaf.
LEMMA RemoveAtLeafOrder ==
  TypeInv /\ TreeInv /\ OrderInv /\ RemoveAtLeaf => OrderInv'
<1> SUFFICES ASSUME TypeInv, TreeInv, OrderInv, RemoveAtLeaf PROVE OrderInv'
  OBVIOUS
<1> DEFINE r == RemoveOnce(heap, node, index)
<1>0. /\ pc = "seek" /\ request.op = "remove" /\ node \in Ptr /\ heap \in Heap
      /\ index \in Nat /\ IsLeaf(heap, node)
  BY DEF RemoveAtLeaf, AtLeaf, TypeInv, TypeOK, CallOK
<1>1. ~ Inserting /\ ~ Removing /\ ~ Ended
  BY <1>0 DEF Inserting, Removing, Ended
<1>2. PICK lev \in [Ptr -> Nat] : OneTree(lev)
  BY <1>1, OneTreeThen
<1>3. CASE RemovePanics(heap, node, index)
  BY <1>3, PanicOrder DEF RemoveAtLeaf
<1>4. CASE ~ RemovePanics(heap, node, index)
  <2>1. /\ heap' = r.heap /\ removal' = r.removal /\ pc' = "climb"
        /\ root' = root /\ request' = request /\ node' = node /\ split' = split
    BY <1>4 DEF RemoveAtLeaf
  <2>2. node \in Allocated(heap) /\ heap[node].length \in 0..B
    BY <1>0, FieldTypes DEF Allocated, IsLeaf
  <2>3. index < heap[node].length
    BY <1>0, <1>4, <2>2 DEF RemovePanics
  <2>4. /\ Tree(heap, lev) /\ split = None
        /\ root # None => root \in Allocated(heap) /\ heap[root].parent = None
    BY <1>2 DEF OneTree
  <2>5. RemovedOnce(heap, r, lev, node, index)
    BY <1>0, <1>4, <2>2, <2>4, RemoveOnceTree
  <2>6. PICK order \in [Ptr -> PtrOrNone] : Ordered(heap, order, root, {})
    BY <1>1, <1>2, OrderedThen
  <2>7. r = RemoveOnce(heap, node, index)
    OBVIOUS
  <2> HIDE DEF r
  <2>8. PICK after \in [Ptr -> PtrOrNone] :
          Reported(r.heap, order, after, root, {}, node, r.removal)
    BY <1>0, <2>2, <2>3, <2>4, <2>6, <2>7, LeafRemoval
  <2>9. Roots(heap') = Roots(heap)
    BY <1>0, <2>1, <2>5 DEF RemovedOnce
  <2>10. root # None => heap'[root].parent = None
    BY <2>4, <2>9 DEF Roots
  <2>11. Top' = root /\ Removing' /\ split' = None
    BY <1>0, <2>1, <2>4, <2>10 DEF Top, Removing
  <2>12. Reported(heap', order, after, Top', {}, node', removal')
    BY <2>1, <2>8, <2>11
  <2> QED
    BY <2>11, <2>12, ReportedStep
<1> QED
  BY <1>3, <1>4

\* handle_removal of Moved and Absorbed: only sizes change.
LEMMA ClimbRemoveOrder ==
  TypeInv /\ TreeInv /\ OrderInv /\ ClimbRemove => OrderInv'
<1> SUFFICES ASSUME TypeInv, TreeInv, OrderInv, ClimbRemove PROVE OrderInv'
  OBVIOUS
<1> DEFINE parent == heap[node].parent
           g == Debit(heap, parent)
<1>1. Removing /\ removal.kind # "Merged"
  BY DEF ClimbRemove
<1>2. PICK lev \in [Ptr -> Nat] : Shrinking(lev)
  BY <1>1, ShrinkingThen
<1>3. CASE parent = None \/ DebitPanics(heap, parent)
  BY <1>3, PanicOrder DEF ClimbRemove
<1>4. CASE ~ (parent = None \/ DebitPanics(heap, parent))
  <2>1. /\ heap' = g /\ removal' = Absorbed(heap, parent) /\ split' = split
        /\ root' = root /\ pc' = pc /\ request' = request /\ node' = parent
    BY <1>4 DEF ClimbRemove
  <2>2. /\ heap \in Heap /\ Tree(heap, lev) /\ node \in Allocated(heap)
        /\ root \in Allocated(heap) /\ heap[root].parent = None /\ split = None
    BY <1>2 DEF Shrinking
  <2>3. parent \in Ptr
    BY <1>4, <2>2, ParentOf DEF Allocated
  <2>4. Resized(heap, g, parent)
    BY <2>2, <2>3, DebitResized
  <2> HIDE DEF g, parent
  <2>5. PICK over \in [Ptr -> PtrOrNone], after \in [Ptr -> PtrOrNone] :
          Reported(heap, over, after, root, {}, node, removal)
    BY <1>1, <1>2, ReportedThen
  <2>6. Levels(heap, over, after, root, {}) /\ SameOrder(heap, over, after)
    BY <1>1, <2>5 DEF Reported, GoneIn, MergeOrder
  <2>7. Levels(heap', over, after, root, {}) /\ Allocated(heap') = Allocated(heap)
    BY <2>1, <2>2, <2>4, <2>6, ResizedOrder
  <2>8. SameOrder(heap', over, after)
    BY <2>6, <2>7 DEF SameOrder
  <2>9. removal'.kind = "Absorbed"
    BY <2>1 DEF Absorbed
  <2>10. Reported(heap', over, after, root, {}, node', removal')
    BY <2>7, <2>8, <2>9 DEF Reported, GoneIn, MergeOrder
  <2>11. Top' = root /\ Removing' /\ split' = None
    BY <1>1, <2>1, <2>2, <2>4 DEF Top, Removing, Resized, Allocated
  <2> QED
    BY <2>10, <2>11, ReportedStep
<1> QED
  BY <1>3, <1>4

\* handle_removal of Merged: the emptied child goes.
LEMMA ClimbMergeOrder ==
  TypeInv /\ TreeInv /\ OrderInv /\ ClimbMerge => OrderInv'
<1> SUFFICES ASSUME TypeInv, TreeInv, OrderInv, ClimbMerge PROVE OrderInv'
  OBVIOUS
<1> DEFINE q == heap[node].parent
           src == removal.src
           x == heap[q].children[src]
<1>1. Removing /\ removal.kind = "Merged"
  BY DEF ClimbMerge
<1>2. PICK lev \in [Ptr -> Nat] : Shrinking(lev)
  BY <1>1, ShrinkingThen
<1>3. CASE Panic
  BY <1>3, PanicOrder
<1>4. CASE ~ Panic
  <2>1. PICK g, r :
          /\ Unlinked(heap, g, r, heap', lev, q, src)
          /\ removal' = r.removal /\ node' = q /\ q # None
          /\ UNCHANGED <<root, size, request, pc, index, held, split>>
    BY <1>2, <1>4, ClimbMergeUnlinks
  <2>2. PICK over \in [Ptr -> PtrOrNone], after \in [Ptr -> PtrOrNone] :
          Reported(heap, over, after, root, {}, node, removal)
    BY <1>1, <1>2, ReportedThen
  <2>3. Roots(heap) = {root} /\ split = None /\ heap \in Heap /\ Tree(heap, lev)
    BY <1>2 DEF Shrinking
  <2>4. x = heap[q].children[src] /\ q = heap[node].parent /\ src = removal.src
    OBVIOUS
  <2> HIDE DEF q, src
  <2>5. /\ g \in Heap /\ g = Debit(heap, q) /\ r = RemoveOnce(g, q, src)
        /\ x \in Ptr /\ x \in Allocated(heap) /\ lev[q] = lev[x] + 1
        /\ q \in Allocated(heap) /\ q \in Ptr
        /\ Allocated(g) = Allocated(heap) /\ RemovedOnce(g, r, lev, q, src)
        /\ r.heap \in Heap
        /\ heap' = Dealloc(r.heap, x) /\ Roots(heap') = Roots(heap)
    BY <2>1 DEF Unlinked
  <2> HIDE DEF x
  <2>6. PICK after1 \in [Ptr -> PtrOrNone] :
          Reported(r.heap, after, after1, root, {x}, q, r.removal)
    <3>1. /\ q = heap[node].parent /\ x = heap[q].children[removal.src]
          /\ g \in Heap /\ g = Debit(heap, q) /\ r = RemoveOnce(g, q, removal.src)
      BY <2>4, <2>5
    <3> QED
      BY <1>1, <1>2, <2>2, <3>1, ShrinkingMerge
  <2>7. /\ Tree(r.heap, lev) /\ Allocated(r.heap) = Allocated(heap)
        /\ RemovalFits(r.heap, q, r.removal)
    BY <2>5 DEF RemovedOnce
  <2>8. lev[x] \in Nat
    BY <2>3, <2>5 DEF Tree
  <2>9. r.heap[q].parent # x /\ q # x
    <3>1. CASE r.heap[q].parent = None
      BY <2>5, <2>8, <3>1
    <3>2. CASE r.heap[q].parent # None
      <4>1. lev[r.heap[q].parent] = lev[q] + 1
        BY <2>5, <2>7, <3>2, ParentOf
      <4> QED
        BY <2>5, <2>8, <4>1
    <3> QED
      BY <3>1, <3>2
  <2>10. Reported(heap', after, after1, root, {}, q, r.removal)
    BY <2>5, <2>6, <2>7, <2>9, ReportedFreed
  <2>11. Top' = root /\ Removing' /\ split' = None
    BY <1>1, <2>1, <2>3, <2>5 DEF Top, Removing, Roots
  <2>12. Reported(heap', after, after1, Top', {}, node', removal')
    BY <2>1, <2>10, <2>11
  <2> QED
    BY <2>11, <2>12, ReportedStep
<1> QED
  BY <1>3, <1>4

\* The end of remove: an only child becomes the root.
LEMMA FinishRemoveOrder ==
  TypeInv /\ TreeInv /\ OrderInv /\ FinishRemove => OrderInv'
<1> SUFFICES ASSUME TypeInv, TreeInv, OrderInv, FinishRemove PROVE OrderInv'
  OBVIOUS
<1>1. Removing /\ removal.kind = "Absorbed" /\ heap[node].parent = None
  BY DEF FinishRemove
<1>2. PICK lev \in [Ptr -> Nat] : Shrinking(lev)
  BY <1>1, ShrinkingThen
<1>3. /\ heap \in Heap /\ Tree(heap, lev) /\ node \in Allocated(heap)
      /\ Roots(heap) = {node} /\ node = root /\ node \in Ptr
  BY <1>1, <1>2 DEF Shrinking, Roots, Allocated
<1>4. PICK over \in [Ptr -> PtrOrNone], order \in [Ptr -> PtrOrNone] :
        Reported(heap, over, order, root, {}, node, removal)
  BY <1>1, <1>2, ReportedThen
<1>5. Levels(heap, order, order, node, {})
  <2>1. Levels(heap, over, order, node, {}) /\ SameOrder(heap, over, order)
    BY <1>1, <1>3, <1>4 DEF Reported, GoneIn, MergeOrder
  <2>2. IsTop(heap, node)
    BY <1>3 DEF IsTop
  <2> QED
    BY <1>3, <2>1, <2>2, LevelsSame
<1>6. CASE IsInternal(heap, node) /\ heap[node].length = 1
  <2> DEFINE child == heap[node].children[0]
             f == SimpleRemove(heap, node, 0)
  <2>1. CASE child \notin Ptr
    BY <1>6, <2>1, PanicOrder DEF FinishRemove
  <2>2. CASE child \in Ptr
    <3>1. heap' = Dealloc(f, node) /\ root' = child /\ Leave("idle")
      BY <1>6, <2>2 DEF FinishRemove
    <3>2. 0 \in Nat /\ 0 < heap[node].length
      BY <1>6
    <3>3. child \in Allocated(heap) /\ heap[child].parent = node
      BY <1>3, <1>6, <3>2, ChildOf
    <3>4. child # node /\ child = heap[node].children[0] /\ child # None
      BY <1>1, <1>3, <2>2, <3>3
    <3> HIDE DEF child
    <3>5. ChildRemoved(heap, f, node, 0) /\ f \in Heap
      BY <1>3, <1>6, <3>2, SimpleRemoveInternal, SimpleRemoveType
    <3> HIDE DEF f
    <3>6. Levels(f, order, order, child, {node})
      BY <1>3, <1>5, <1>6, <3>4, <3>5, LevelsUncrowned
    <3>7. node \in Allocated(f) /\ f[child].parent = None
      BY <1>3, <2>2, <3>4, <3>5 DEF ChildRemoved, Allocated
    <3>8. Levels(heap', order, order, child, {})
      <4>1. Levels(f, order, order, child, {node} \cup {})
        BY <3>6
      <4> QED
        BY <3>1, <3>5, <3>7, <4>1, LevelsFreed
    <3>9. Top' = child /\ split' = None /\ ~ Removing'
      <4>1. heap'[child] = f[child]
        BY <1>3, <2>2, <3>1, <3>4, <3>5 DEF Dealloc, Heap
      <4> QED
        BY <3>1, <3>7, <4>1 DEF Top, Leave, Removing
    <3> QED
      BY <3>8, <3>9, OrderedStep
  <2> QED
    BY <2>1, <2>2
<1>7. CASE ~ (IsInternal(heap, node) /\ heap[node].length = 1)
  <2>1. root' = node /\ Leave("idle") /\ heap' = heap
    BY <1>7 DEF FinishRemove
  <2>2. Top' = node /\ split' = None /\ ~ Removing'
    BY <1>1, <2>1 DEF Top, Leave, Removing
  <2> QED
    BY <1>5, <2>1, <2>2, OrderedStep
<1> QED
  BY <1>6, <1>7

-----------------------------------------------------------------------------
\* Every step of the vector keeps the order.
LEMMA NextOrderInv == TypeInv /\ TreeInv /\ OrderInv /\ [Next]_vars => OrderInv'
<1> SUFFICES ASSUME TypeInv, TreeInv, OrderInv, [Next]_vars PROVE OrderInv'
  OBVIOUS
<1>1. CASE Begin
  BY <1>1, BeginOrder
<1>2. CASE Step
  BY <1>2, DescendOrder, AccessOrder, InsertAtLeafOrder, ClimbInsertOrder,
     ClimbSplitOrder, GrowRootOrder, FinishInsertOrder, RemoveAtLeafOrder,
     ClimbRemoveOrder, ClimbMergeOrder, FinishRemoveOrder
     DEF Step
<1>3. CASE AllocFails
  BY <1>3, AllocFailsOrder
<1>4. CASE UNCHANGED vars
  <2>1. /\ heap' = heap /\ root' = root /\ request' = request /\ pc' = pc
        /\ node' = node /\ split' = split /\ removal' = removal
    BY <1>4 DEF vars
  <2> QED
    BY <2>1 DEF OrderInv, OrderInvAt, Ended, Removing, Top
<1> QED
  BY <1>1, <1>2, <1>3, <1>4 DEF Next

-----------------------------------------------------------------------------
(***************************************************************************)
(* No check fails.                                                         *)
(***************************************************************************)

\* All that is known between two steps.
VecInv == TypeInv /\ TreeInv /\ SizesInv /\ OrderInv

\* The index looked for is in the leaf.
LEMMA LeafHolds ==
  ASSUME VecInv, pc = "seek", IsLeaf(heap, node)
  PROVE  /\ node \in Allocated(heap) /\ heap \in Heap /\ index \in Nat
         /\ heap[node].length \in 0..B
         /\ \/ index < heap[node].length
            \/ request.op = "insert" /\ index = heap[node].length
<1>1. TypeInv /\ SizesInv /\ ~ Ended
  BY DEF VecInv, Ended
<1>2. SeekOK
  BY <1>1, ExactThen
<1>3. node \in Ptr /\ heap \in Heap /\ index \in Nat
  BY <1>1 DEF TypeInv, TypeOK, CallOK
<1>4. node \in Allocated(heap) /\ heap[node].length \in 0..B
  BY <1>3, FieldTypes DEF Allocated, IsLeaf
<1> QED
  BY <1>2, <1>3, <1>4 DEF SeekOK, Weight

\* leaf_for finds a child in an internal node.
LEMMA DescendSafe == VecInv /\ Descend => pc' # "panicked"
<1> SUFFICES ASSUME VecInv, Descend PROVE pc' # "panicked"
  OBVIOUS
<1>1. /\ pc = "seek" /\ node \in Ptr /\ heap \in Heap /\ index \in Nat
      /\ IsInternal(heap, node) /\ TypeInv /\ TreeInv
  BY DEF VecInv, Descend, TypeInv, TypeOK, CallOK
<1>2. ~ Inserting /\ ~ Removing /\ ~ Ended
  BY <1>1 DEF Inserting, Removing, Ended
<1>3. PICK lev \in [Ptr -> Nat] : OneTree(lev)
  BY <1>1, <1>2, OneTreeThen
<1>4. node \in Allocated(heap) /\ heap[node].length \in 0..B
  BY <1>1, FieldTypes DEF Allocated, IsInternal
<1>5. heap[node].length # 0
  BY <1>1, <1>2, <1>4 DEF TreeInv, TreeInvAt, NonEmpty, IsEmptied
<1> DEFINE i == ChildFor(heap, node, index)
<1>6. i \in 0..(heap[node].length - 1)
  BY <1>1, <1>5, ChildForType
<1> HIDE DEF i
<1>7. i \in Nat /\ i < heap[node].length
  BY <1>4, <1>6
<1>8. heap[node].children[i] \in Ptr
  BY <1>1, <1>3, <1>4, <1>7, ChildOf DEF OneTree, Allocated
<1>9. ChildPtr(heap, node, i) \in Ptr
  BY <1>7, <1>8 DEF ChildPtr
<1>10. pc' = pc
  BY <1>5, <1>9 DEF Descend, i
<1> QED
  BY <1>1, <1>10

\* The leaf has the slot that get, get_mut and insert want.
LEMMA LeafSafe ==
  VecInv /\ (Get \/ Set \/ Return \/ InsertAtLeaf) => pc' # "panicked"
<1> SUFFICES ASSUME VecInv, Get \/ Set \/ Return \/ InsertAtLeaf
             PROVE  pc' # "panicked"
  OBVIOUS
<1>1. CASE Get \/ Set
  <2>1. pc = "seek" /\ IsLeaf(heap, node) /\ request.op # "insert"
    BY <1>1 DEF Get, Set, AtLeaf
  <2>2. index < heap[node].length
    BY <2>1, LeafHolds
  <2> QED
    BY <1>1, <2>2 DEF Get, Set
<1>2. CASE Return
  BY <1>2 DEF Return, Leave
<1>3. CASE InsertAtLeaf
  <2>1. pc = "seek" /\ IsLeaf(heap, node)
    BY <1>3 DEF InsertAtLeaf, AtLeaf
  <2>2. ~ InsertPanics(heap, node, index)
    <3>1. /\ index \in Nat /\ heap[node].length \in 0..B
          /\ index < heap[node].length \/ index = heap[node].length
      BY <2>1, LeafHolds
    <3>2. ~ (index > heap[node].length)
      BY <3>1
    <3> QED
      BY <3>2 DEF InsertPanics
  <2>3. pc' = "climb"
    BY <1>3, <2>2 DEF InsertAtLeaf
  <2> QED
    BY <2>3
<1> QED
  BY <1>1, <1>2, <1>3

\* handle_insertion takes no size below 0 and no index out of bounds.
LEMMA ClimbInsertSafe == VecInv /\ (ClimbInsert \/ ClimbSplit) => pc' # "panicked"
<1> SUFFICES ASSUME VecInv, ClimbInsert \/ ClimbSplit PROVE pc' # "panicked"
  OBVIOUS
<1>1. Inserting /\ heap[node].parent # None /\ pc = "climb"
  BY DEF ClimbInsert, ClimbSplit, Inserting
<1>2. TypeInv /\ TreeInv /\ SizesInv
  BY DEF VecInv
<1>3. PICK lev \in [Ptr -> Nat] : Climbing(lev)
  BY <1>1, <1>2, ClimbingThen
<1>4. PICK w : HalfKnown(heap, w, node, HalfWeight(heap, split))
  BY <1>1, <1>2, <1>3, HalfKnownThen
<1>5. heap \in Heap /\ Tree(heap, lev) /\ node \in Allocated(heap) /\ split \in PtrOrNone
  BY <1>3 DEF Climbing
<1>6. ~ LinkPanics(heap, heap[node].parent, heap[node].index)
  BY <1>1, <1>4, <1>5, CreditExact
<1>7. pc' = pc
  BY <1>6 DEF ClimbInsert, ClimbSplit
<1> QED
  BY <1>1, <1>7

\* Nor does it at a new root.
LEMMA RootInsertSafe == VecInv /\ (GrowRoot \/ FinishInsert) => pc' # "panicked"
<1> SUFFICES ASSUME VecInv, GrowRoot \/ FinishInsert PROVE pc' # "panicked"
  OBVIOUS
<1>1. CASE FinishInsert
  BY <1>1 DEF FinishInsert, Leave
<1>2. CASE GrowRoot
  <2>1. /\ Inserting /\ split # None /\ heap[node].parent = None /\ Free(heap) # {}
        /\ pc = "climb" /\ TypeInv /\ TreeInv /\ SizesInv
    BY <1>2 DEF GrowRoot, Inserting, VecInv
  <2>2. PICK lev \in [Ptr -> Nat] : Climbing(lev)
    BY <2>1, ClimbingThen
  <2>3. PICK w : RootSplit(lev, w, HalfWeight(heap, split))
    BY <2>1, <2>2, RootSplitThen
  <2>4. ~ LinkPanics(SimpleInsert(Alloc(heap, Fresh(heap), "internal"),
                                  Fresh(heap), 0, Entry(node, size)),
                     Fresh(heap), heap[node].index)
    BY <2>3, GrowRootSafe
  <2>5. pc' = pc
    BY <1>2, <2>4 DEF GrowRoot
  <2> QED
    BY <2>1, <2>5
<1> QED
  BY <1>1, <1>2

\* remove_once at the leaf.
LEMMA RemoveAtLeafSafe == VecInv /\ RemoveAtLeaf => pc' # "panicked"
<1> SUFFICES ASSUME VecInv, RemoveAtLeaf PROVE pc' # "panicked"
  OBVIOUS
<1>1. /\ pc = "seek" /\ request.op = "remove" /\ IsLeaf(heap, node)
      /\ TypeInv /\ TreeInv /\ OrderInv
  BY DEF RemoveAtLeaf, AtLeaf, VecInv
<1>2. ~ Inserting /\ ~ Removing /\ ~ Ended
  BY <1>1 DEF Inserting, Removing, Ended
<1>3. PICK lev \in [Ptr -> Nat] : OneTree(lev)
  BY <1>1, <1>2, OneTreeThen
<1>4. PICK order \in [Ptr -> PtrOrNone] : Ordered(heap, order, root, {})
  BY <1>1, <1>2, <1>3, OrderedThen
<1>5. /\ node \in Allocated(heap) /\ heap \in Heap /\ index \in Nat
      /\ index < heap[node].length
  BY <1>1, LeafHolds
<1>6. Tree(heap, lev)
  BY <1>3 DEF OneTree
<1>7. ~ RemovePanics(heap, node, index)
  BY <1>1, <1>4, <1>5, <1>6, LeafRemoval
<1>8. pc' = "climb"
  BY <1>7 DEF RemoveAtLeaf
<1> QED
  BY <1>8

\* handle_removal takes no size below 0, and does not run past the root.
LEMMA ClimbRemoveSafe == VecInv /\ ClimbRemove => pc' # "panicked"
<1> SUFFICES ASSUME VecInv, ClimbRemove PROVE pc' # "panicked"
  OBVIOUS
<1>1. /\ Removing /\ pc = "climb" /\ TypeInv /\ TreeInv /\ SizesInv
      /\ removal.kind = "Moved" \/ heap[node].parent # None
  BY DEF ClimbRemove, Removing, VecInv
<1>2. PICK lev \in [Ptr -> Nat] : Shrinking(lev)
  BY <1>1, ShrinkingThen
<1>3. PICK w \in [Ptr -> Nat] : RemoveSized(heap, node, removal, w)
  BY <1>1, <1>2, RemoveSizedThen
<1>4. heap[node].parent # None
  BY <1>1, <1>2 DEF Shrinking, RemovalFits
<1>5. ~ DebitPanics(heap, heap[node].parent)
  BY <1>2, <1>3, <1>4, ShrinkingDebit
<1>6. pc' = pc
  BY <1>4, <1>5 DEF ClimbRemove
<1> QED
  BY <1>1, <1>6

\* Nor does it find a merge that it cannot make.
LEMMA ClimbMergeSafe == VecInv /\ ClimbMerge => pc' # "panicked"
<1> SUFFICES ASSUME VecInv, ClimbMerge PROVE pc' # "panicked"
  OBVIOUS
<1> DEFINE q == heap[node].parent
           g == Debit(heap, q)
           x == heap[q].children[removal.src]
<1>1. /\ Removing /\ pc = "climb" /\ removal.kind = "Merged"
      /\ TypeInv /\ TreeInv /\ SizesInv /\ OrderInv
  BY DEF ClimbMerge, Removing, VecInv
<1>2. PICK lev \in [Ptr -> Nat] : Shrinking(lev)
  BY <1>1, ShrinkingThen
<1>3. PICK w \in [Ptr -> Nat] : RemoveSized(heap, node, removal, w)
  BY <1>1, <1>2, RemoveSizedThen
<1>4. q # None /\ removal.src < heap[q].length
  BY <1>1, <1>2 DEF Shrinking, RemovalFits
<1>5. ~ DebitPanics(heap, q) /\ g \in Heap
  BY <1>2, <1>3, <1>4, ShrinkingDebit
<1>6. PICK over \in [Ptr -> PtrOrNone], after \in [Ptr -> PtrOrNone] :
        Reported(heap, over, after, root, {}, node, removal)
  BY <1>1, <1>2, ReportedThen
<1> HIDE DEF q, g, x
<1>7. x \in Ptr /\ ~ RemovePanics(g, q, removal.src)
  <2> DEFINE r == RemoveOnce(g, q, removal.src)
  <2>1. /\ q = heap[node].parent /\ g = Debit(heap, q)
        /\ x = heap[q].children[removal.src]
    BY DEF q, g, x
  <2>2. r = RemoveOnce(g, q, removal.src)
    OBVIOUS
  <2> HIDE DEF r
  <2>3. removal.kind = "Merged" /\ g \in Heap
    BY <1>1, <1>5
  <2>4. /\ q \in Ptr /\ x \in Ptr
        /\ ~ RemovePanics(g, q, removal.src)
        /\ \E after1 \in [Ptr -> PtrOrNone] :
             Reported(r.heap, after, after1, root, {x}, q, r.removal)
    BY <1>2, <1>6, <2>1, <2>2, <2>3, ShrinkingMerge
  <2> QED
    BY <2>4
<1>8. ChildPtr(heap, q, removal.src) \in Ptr
  BY <1>4, <1>7 DEF ChildPtr, x
<1>9. pc' = pc
  BY <1>4, <1>5, <1>7, <1>8 DEF ClimbMerge, q, g
<1> QED
  BY <1>1, <1>9

\* A root with one child has it.
LEMMA FinishRemoveSafe == VecInv /\ FinishRemove => pc' # "panicked"
<1> SUFFICES ASSUME VecInv, FinishRemove PROVE pc' # "panicked"
  OBVIOUS
<1>1. Removing /\ TypeInv /\ TreeInv
  BY DEF FinishRemove, VecInv
<1>2. PICK lev \in [Ptr -> Nat] : Shrinking(lev)
  BY <1>1, ShrinkingThen
<1>3. /\ heap \in Heap /\ Tree(heap, lev) /\ node \in Allocated(heap)
  BY <1>2 DEF Shrinking
<1>4. IsInternal(heap, node) /\ heap[node].length = 1 => heap[node].children[0] \in Ptr
  BY <1>3, ChildOf DEF Allocated
<1> QED
  BY <1>4 DEF FinishRemove, Leave

\* No step fails a check.
LEMMA NextNoPanic == VecInv /\ NoPanic /\ [Next]_vars => NoPanic'
<1> SUFFICES ASSUME VecInv, NoPanic, [Next]_vars PROVE pc' # "panicked"
  BY DEF NoPanic
<1>1. CASE Begin
  BY <1>1 DEF Begin, BeginInsert, BeginSet, BeginRemove, BeginGet, Enter
<1>2. CASE Step
  BY <1>2, DescendSafe, LeafSafe, ClimbInsertSafe, RootInsertSafe,
     RemoveAtLeafSafe, ClimbRemoveSafe, ClimbMergeSafe, FinishRemoveSafe
     DEF Step
<1>3. CASE AllocFails
  BY <1>3 DEF AllocFails, Leave
<1>4. CASE UNCHANGED vars
  BY <1>4 DEF vars, NoPanic
<1> QED
  BY <1>1, <1>2, <1>3, <1>4 DEF Next

-----------------------------------------------------------------------------
\* The leaves, and the nodes of each level above them, are linked in the order
\* of the tree, but for the half that insert and the emptied node that remove
\* has still to report.
THEOREM OrderKept == Spec => []OrderInv
<1>1. Init => TypeInv /\ TreeInv /\ OrderInv
  BY InitTypeInv, InitTreeInv, InitOrder
<1>2. TypeInv /\ TreeInv /\ OrderInv /\ [Next]_vars => (TypeInv /\ TreeInv /\ OrderInv)'
  BY NextTypeInv, NextTreeInv, NextOrderInv
<1> QED
  BY <1>1, <1>2, PTL DEF Spec

\* No unwrap, assertion, bounds check or overflow check of insert, remove, get
\* and get_mut ever fails once the arguments are in range.
THEOREM NeverPanics == Spec => []NoPanic
<1>1. Init => VecInv /\ NoPanic
  <2>1. Init => NoPanic
    BY DEF Init, NoPanic
  <2> QED
    BY <2>1, InitTypeInv, InitTreeInv, InitSizes, InitOrder DEF VecInv
<1>2. VecInv /\ NoPanic /\ [Next]_vars => (VecInv /\ NoPanic)'
  BY NextTypeInv, NextTreeInv, NextSizesInv, NextOrderInv, NextNoPanic DEF VecInv
<1> QED
  BY <1>1, <1>2, PTL DEF Spec

\* So SizesExact holds without a condition: once no check fails, a call ends
\* short of its return only where an allocation fails, and there the property
\* speaks of no size.
LEMMA SizesExactUnlessPanic == (~ Ended => SizesExact) /\ NoPanic => SizesExact
<1> SUFFICES ASSUME ~ Ended => SizesExact, NoPanic PROVE SizesExact
  OBVIOUS
<1>1. CASE pc = "aborted"
  BY <1>1 DEF SizesExact
<1>2. CASE pc # "aborted"
  BY <1>2 DEF Ended, NoPanic
<1> QED
  BY <1>1, <1>2

\* The subtree sizes that leaf_for and nth go by are exact, but on the edge the
\* running call has yet to bring up to date.
THEOREM SizesAlways == Spec => []SizesExact
BY SizesUntilEnd, NeverPanics, SizesExactUnlessPanic, PTL

\* No node but the root ever holds less than half of B, from the halves of B of
\* at least 4 on.
THEOREM AlwaysFilled ==
  ASSUME B >= 4
  PROVE  Spec => []Filled
<1>1. NoPanic /\ (pc # "panicked" => Filled) => Filled
  BY DEF NoPanic
<1>2. Spec => [](pc # "panicked" => Filled)
  BY FilledUntilPanic
<1> QED
  BY <1>1, <1>2, NeverPanics, PTL
=============================================================================
