------------------------------ MODULE VecSpec ------------------------------
(***************************************************************************)
(* What BTreeVec promises its caller: a growable array.  A call takes      *)
(* effect at one moment between its start and its end (Spec), and a call   *)
(* that has started ends, by returning or because the allocator failed     *)
(* (EveryCallEnds).                                                        *)
(***************************************************************************)
EXTENDS Integers, Sequences

CONSTANTS
  Item,     \* the values of the element type T
  None,     \* no item
  MaxSize   \* bound on the length

VARIABLES
  vec,    \* the items
  call,   \* the method called and its arguments
  phase,  \* "idle", "called", "done" or "aborted"
  result  \* what the call returns, once it is done

vecvars == <<vec, call, phase, result>>

NoCall == [op |-> "none", index |-> 0, item |-> None]

\* Item x at zero-based index i, the items from i on one place further.
VecInsert(v, i, x) == SubSeq(v, 1, i) \o <<x>> \o SubSeq(v, i + 1, Len(v))
VecRemove(v, i)    == SubSeq(v, 1, i) \o SubSeq(v, i + 2, Len(v))

Init ==
  /\ vec = <<>>
  /\ call = NoCall
  /\ phase = "idle"
  /\ result = None

\* insert takes an index up to the length, the others an index below it.
Call ==
  /\ phase = "idle"
  /\ \/ /\ Len(vec) < MaxSize
        /\ \E i \in 0..Len(vec), x \in Item :
             call' = [op |-> "insert", index |-> i, item |-> x]
     \/ \E i \in 0..(Len(vec) - 1) :
          \/ \E x \in Item : call' = [op |-> "set", index |-> i, item |-> x]
          \/ \E op \in {"get", "remove"} :
               call' = [op |-> op, index |-> i, item |-> None]
  /\ phase' = "called"
  /\ UNCHANGED <<vec, result>>

Effect ==
  /\ phase = "called"
  /\ phase' = "done"
  /\ UNCHANGED call
  /\ LET i == call.index
     IN  \/ /\ call.op = "insert"
            /\ vec' = VecInsert(vec, i, call.item)
            /\ result' = None
         \/ /\ call.op = "remove"
            /\ vec' = VecRemove(vec, i)
            /\ result' = vec[i + 1]
         \/ /\ call.op = "get"
            /\ vec' = vec
            /\ result' = vec[i + 1]
         \/ /\ call.op = "set"
            /\ vec' = [vec EXCEPT ![i + 1] = call.item]
            /\ result' = None

Return ==
  /\ phase = "done"
  /\ phase' = "idle"
  /\ call' = NoCall
  /\ result' = None
  /\ UNCHANGED vec

\* handle_alloc_error: only an insertion allocates, before or after its item
\* has its place.
Abort ==
  /\ \/ call.op = "insert"
     \/ phase = "idle" /\ vec = <<>> /\ MaxSize > 0
  /\ phase' = "aborted"
  /\ call' = NoCall
  /\ result' = None
  /\ UNCHANGED vec

Next == Call \/ Effect \/ Return \/ Abort

Spec == Init /\ [][Next]_vecvars

\* What is promised of a call's end.
EveryCallEnds ==
  phase \in {"called", "done"} ~> phase \in {"idle", "aborted"}
=============================================================================
