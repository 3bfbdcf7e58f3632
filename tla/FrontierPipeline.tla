-------------------------- MODULE FrontierPipeline --------------------------
(***************************************************************************)
(* What the autonomous continuation promises: the governed frontier on the *)
(* default branch names one piece of work after the other, each piece is   *)
(* merged exactly once and in order, and the pipeline reaches its end.     *)
(* Abstract; ContinuationLoop implements it.                               *)
(***************************************************************************)
EXTENDS Integers, Sequences

CONSTANT LastFrontier   \* the frontiers are 1 .. LastFrontier, then NONE (0)

VARIABLES frontier,     \* the frontier recorded on the default branch
          done          \* the frontiers whose work unit has been merged

vars == <<frontier, done>>

Following(f) == IF f = LastFrontier THEN 0 ELSE f + 1

Init == frontier = 1 /\ done = <<>>

\* The merge of the work unit of the current frontier records the next one.
Complete ==
    /\ frontier # 0
    /\ done' = Append(done, frontier)
    /\ frontier' = Following(frontier)

Safety == Init /\ [][Complete]_vars

Spec == Safety /\ WF_vars(Complete)
=============================================================================
