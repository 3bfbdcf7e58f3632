------------------------- MODULE MCContinuationLoop -------------------------
(***************************************************************************)
(* Instances of ContinuationLoop for TLC.                                  *)
(***************************************************************************)
EXTENDS ContinuationLoop, TLC

\* Sessions are interchangeable.
Symmetry == Permutations(Sessions)
=============================================================================
