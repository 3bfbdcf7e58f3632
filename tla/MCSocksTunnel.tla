---------------------------- MODULE MCSocksTunnel ----------------------------
(* Small instances of SocksTunnel for TLC. *)
EXTENDS SocksTunnel, TLC

CONSTANTS p1, p2, p3, p4

MCPuttys == {p1, p2, p3, p4}
SymPuttys == Permutations(MCPuttys)
=============================================================================
