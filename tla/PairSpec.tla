------------------------------ MODULE PairSpec -------------------------------
(***************************************************************************)
(* What Clone promises of a vector and its copy: the copy has the same     *)
(* items, and from then on each of the two is changed by its own calls     *)
(* only, and outlives the other.                                           *)
(***************************************************************************)
EXTENDS Integers, Sequences

CONSTANTS
  Item,   \* the values of the element type T
  None    \* stands for a vector that is not there (not yet, or dropped)

VARIABLES
  vec,    \* the items of the original
  copy    \* the items of the copy

pairvars == <<vec, copy>>

Init == vec = <<>> /\ copy = None

\* A call on the original, as VecSpec has them.
Change == vec # None /\ vec' # None /\ UNCHANGED copy

Clone ==
  /\ vec # None /\ copy = None
  /\ copy' = vec
  /\ UNCHANGED vec

\* get_mut on the copy.
SetCopy ==
  /\ copy # None
  /\ \E i \in DOMAIN copy, x \in Item : copy' = [copy EXCEPT ![i] = x]
  /\ UNCHANGED vec

DropVec  == vec # None /\ vec' = None /\ UNCHANGED copy
DropCopy == copy # None /\ copy' = None /\ UNCHANGED vec

Next == Change \/ Clone \/ SetCopy \/ DropVec \/ DropCopy

Spec == Init /\ [][Next]_pairvars
=============================================================================
