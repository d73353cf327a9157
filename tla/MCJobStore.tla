------------------------------ MODULE MCJobStore ------------------------------
(***************************************************************************)
(* Instance of JobStore for TLC: three ids, so that a third session can    *)
(* follow a spaced second one, and a clock long enough for a window and a  *)
(* proposal to pass.                                                       *)
(***************************************************************************)
EXTENDS JobStore, TLC

Symmetry == Permutations(Job) \union Permutations(Problem)
==============================================================================
