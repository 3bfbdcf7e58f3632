------------------------- MODULE MCRoutingController -------------------------
(* Small instances of RoutingController for TLC. *)
EXTENDS RoutingController, TLC

CONSTANTS m1, m2, d1, d2, d3

MCOneModule == {m1}
MCTwoModules == {m1, m2}
MCTwoDogs == {d1, d2}
MCThreeDogs == {d1, d2, d3}
SymDogs == Permutations(MCTwoDogs)
=============================================================================
