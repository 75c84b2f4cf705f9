------------------------------ MODULE BTreeDrop ------------------------------
(***************************************************************************)
(* Drop for BTreeVec: NodeRef::destroy from the root down, with            *)
(* destroy_children of internal nodes and LeafNode::drop.  destroy calls   *)
(* itself for each child; `stack` holds its calls.  The destructors of the *)
(* items are the caller's code and may panic: the calls then unwind, and   *)
(* what they had not come to is never freed.                               *)
(***************************************************************************)
EXTENDS BTreeShape

VARIABLES
  stack,     \* the running calls of destroy, outermost first
  dropped,   \* how many destructors of items have run
  unwinding  \* has one of them panicked?

dropvars == <<stack, dropped, unwinding>>

\* A call of destroy: its node, the next child it will destroy and how many
\* there are, none in a leaf.
Frame(h, n) == [node |-> n, at |-> 0,
                length |-> IF IsInternal(h, n) THEN h[n].length ELSE 0]

DropTypeOK ==
  /\ stack \in Seq([node : Ptr, at : Nat, length : 0..B])
  /\ dropped \in Nat
  /\ unwinding \in BOOLEAN

DropInit == stack = <<>> /\ dropped = 0 /\ unwinding = FALSE

-----------------------------------------------------------------------------
\* The innermost call.
Running == Last(stack)

DestructorsIn(n) == IF IsLeaf(heap, n) THEN heap[n].length ELSE 0

\* mem::take of an internal node's length, at the start of destroy_children.
TakeLength(h, n) == IF IsLeaf(h, n) THEN h ELSE [h EXCEPT ![n].length = 0]

\* BTreeVec::drop up to destroy_children of the root r, with the assertion
\* that it has no parent.
StartDestroy(r) ==
  IF r = None THEN UNCHANGED <<heap, locals, stack>>
  ELSE IF heap[r].parent # None
  THEN Leave("panicked") /\ UNCHANGED <<heap, stack>>
  ELSE /\ heap' = TakeLength(heap, r)
       /\ stack' = <<Frame(heap, r)>>
       /\ UNCHANGED locals

\* The loop of destroy_children: take the next child out of its slot, clear
\* its parent and destroy it.
DestroyChild ==
  /\ pc = "idle" /\ stack # <<>>
  /\ Running.at < Running.length
  /\ LET n     == Running.node
         child == heap[n].children[Running.at]
         loose == [heap EXCEPT ![n].children[Running.at] = None,
                               ![child].parent = None]
     IN  IF child \notin Ptr
         THEN Panic /\ UNCHANGED dropvars
         ELSE /\ heap' = TakeLength(loose, child)
              /\ stack' = Front(stack) \o <<[Running EXCEPT !.at = @ + 1],
                                             Frame(heap, child)>>
              /\ UNCHANGED <<root, size, locals, dropped, unwinding>>

\* Mutant of DestroyNode: a node is freed before its last child.
DestroyNodeEarly ==
  /\ pc = "idle" /\ stack # <<>>
  /\ Running.at + 1 >= Running.length
  /\ heap' = Dealloc(heap, Running.node)
  /\ dropped' = dropped + DestructorsIn(Running.node)
  /\ stack' = Front(stack)
  /\ UNCHANGED <<root, size, locals, unwinding>>

\* The end of destroy: LeafNode::drop runs the destructors of the items below
\* `length`, on a copy of the node, and the node is deallocated.
DestroyNode ==
  /\ pc = "idle" /\ stack # <<>>
  /\ Running.at = Running.length
  /\ heap' = Dealloc(heap, Running.node)
  /\ dropped' = dropped + DestructorsIn(Running.node)
  /\ stack' = Front(stack)
  /\ UNCHANGED <<root, size, locals, unwinding>>

\* The destructor of the k-th item panics in LeafNode::drop.  The calls of
\* destroy unwind; the items after it and the nodes that are left leak.  A
\* second panic while the first unwinds ends the program.
ItemPanics ==
  /\ pc = "idle" /\ stack # <<>>
  /\ \E k \in 1..DestructorsIn(Running.node) : dropped' = dropped + k
  /\ IF unwinding
     THEN Leave("aborted") /\ UNCHANGED <<stack, unwinding>>
     ELSE unwinding' = TRUE /\ stack' = <<>> /\ UNCHANGED locals
  /\ UNCHANGED fields

DestroyStep == DestroyChild \/ DestroyNode \/ ItemPanics

-----------------------------------------------------------------------------
\* The nodes the calls of destroy have yet to free, in the order of their
\* leaves: the innermost call comes first.
Unfreed(h, calls) ==
  LET rest[k \in 0..Len(calls)] ==
        IF k = 0 THEN <<>>
        ELSE LET call == calls[k]
             IN  <<call.node>>
                 \o [i \in 1..(call.length - call.at) |->
                       h[call.node].children[call.at + i - 1]]
                 \o rest[k - 1]
  IN  rest[Len(calls)]

Pending == PreorderOf(heap, Unfreed(heap, stack))

\* The items of the leaves among a sequence of nodes.
ItemsOf(h, nodes) ==
  LET items[k \in 0..Len(nodes)] ==
        IF k = 0 THEN <<>>
        ELSE items[k - 1] \o IF IsLeaf(h, nodes[k]) THEN Children(h, nodes[k])
                                                   ELSE <<>>
  IN  items[Len(nodes)]
=============================================================================
