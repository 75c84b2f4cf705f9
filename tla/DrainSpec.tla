------------------------------ MODULE DrainSpec ------------------------------
(***************************************************************************)
(* What an owning iterator over a vector promises (IntoIter::next and the  *)
(* two Drop implementations): the items leave from the front, one after    *)
(* the other, to the caller or to their destructor, and once the vector is *)
(* dropped none is left behind.  A vector can also be dropped as it is.    *)
(***************************************************************************)
EXTENDS Integers, Sequences

CONSTANT None  \* Option::None

VARIABLES
  left,      \* the items the vector or the iterator still owns
  phase,     \* "vector", "iterating", "dropping", "gone" or "aborted"
  yielded,   \* what the last call of next returned
  dropped,   \* how many destructors of items have run
  panicked   \* has one of them panicked?

drainvars == <<left, phase, yielded, dropped, panicked>>

Init ==
  /\ left = <<>>
  /\ phase = "vector"
  /\ yielded = None
  /\ dropped = 0
  /\ panicked = FALSE

\* The calls of the vector, VecSpec's business.
Change ==
  /\ phase = "vector"
  /\ UNCHANGED <<phase, yielded, dropped, panicked>>

IntoIter ==
  /\ phase = "vector"
  /\ phase' = "iterating"
  /\ UNCHANGED <<left, yielded, dropped, panicked>>

\* next: the first item, or None for good.
Yield ==
  /\ phase = "iterating"
  /\ IF left = <<>>
     THEN yielded' = None /\ UNCHANGED left
     ELSE yielded' = Head(left) /\ left' = Tail(left)
  /\ UNCHANGED <<phase, dropped, panicked>>

Drop ==
  /\ phase \in {"vector", "iterating"}
  /\ phase' = "dropping"
  /\ yielded' = None
  /\ UNCHANGED <<left, dropped, panicked>>

ProperSuffix(s, t) ==
  Len(s) < Len(t) /\ s = SubSeq(t, Len(t) - Len(s) + 1, Len(t))

\* The destructors of the next items run, each once.  If one panics, items
\* after it may be lost without theirs being run, never the other way round.
Release ==
  /\ phase = "dropping"
  /\ ProperSuffix(left', left)
  /\ LET gone == Len(left) - Len(left')
     IN  \/ dropped' = dropped + gone /\ UNCHANGED panicked
         \/ /\ ~ panicked /\ panicked'
            /\ dropped' - dropped \in 1..gone
  /\ UNCHANGED <<phase, yielded>>

Finish ==
  /\ phase = "dropping" /\ left = <<>>
  /\ phase' = "gone"
  /\ UNCHANGED <<left, yielded, dropped, panicked>>

\* A second panic while the first one unwinds.
Abort ==
  /\ phase = "dropping" /\ panicked
  /\ phase' = "aborted"
  /\ UNCHANGED <<left, yielded, panicked>>

Next == Change \/ IntoIter \/ Yield \/ Drop \/ Release \/ Finish \/ Abort

Spec == Init /\ [][Next]_drainvars

\* A drop that has begun ends.
DropEnds == phase = "dropping" ~> phase \in {"gone", "aborted"}
=============================================================================
