------------------------------ MODULE IterSpec ------------------------------
(***************************************************************************)
(* What an iterator over a vector promises (Iterator::next and nth): the   *)
(* items in order, each at most once, then None for good.  next is nth(0). *)
(***************************************************************************)
EXTENDS Integers, Sequences

CONSTANTS
  None,    \* Option::None
  MaxSkip  \* bound on the argument of nth

VARIABLES
  vec,     \* the items of the vector
  open,    \* is there an iterator?
  at,      \* how many items it has passed
  yielded  \* what its last call returned

itervars == <<vec, open, at, yielded>>

Init == vec = <<>> /\ open = FALSE /\ at = 0 /\ yielded = None

\* An iterator borrows the vector, which changes only while there is none.
Change == ~ open /\ UNCHANGED <<open, at, yielded>>

Open ==
  /\ ~ open
  /\ open' = TRUE
  /\ at' = 0
  /\ yielded' = None
  /\ UNCHANGED vec

Nth(n) ==
  /\ open
  /\ \/ /\ at + n < Len(vec)
        /\ yielded' = vec[at + n + 1]
        /\ at' = at + n + 1
     \/ /\ at + n >= Len(vec)
        /\ yielded' = None
        /\ at' = Len(vec)
  /\ UNCHANGED <<vec, open>>

Close ==
  /\ open
  /\ open' = FALSE
  /\ at' = 0
  /\ yielded' = None
  /\ UNCHANGED vec

Next == Change \/ Open \/ Close \/ \E n \in 0..MaxSkip : Nth(n)

Spec == Init /\ [][Next]_itervars
=============================================================================
