---------------------------- MODULE MCWriterLease ----------------------------
(* Small instances of WriterLease for TLC. *)
EXTENDS WriterLease, TLC

CONSTANTS r1, r2, r3, l1, l2

MCIssues == {1, 2}
\* Both work units in one conflict domain.
MCOneDomain == [i \in MCIssues |-> "d"]
MCTwoRuns == {r1, r2}
MCThreeRuns == {r1, r2, r3}
SymTwoRuns == Permutations(MCTwoRuns) \cup Permutations({l1, l2})
SymThreeRuns == Permutations(MCThreeRuns) \cup Permutations({l1, l2})
=============================================================================
