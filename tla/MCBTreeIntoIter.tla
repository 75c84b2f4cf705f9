--------------------------- MODULE MCBTreeIntoIter ---------------------------
(***************************************************************************)
(* BTreeIntoIter for TLC.  The vector is consumed from one state per view  *)
(* of it, and from there every step is a state.                            *)
(***************************************************************************)
EXTENDS BTreeIntoIter, MCBTreeRefinement

IntoView == IF into.state = "none" THEN <<View, yielded>> ELSE <<allvars>>
=============================================================================
