------------------------- MODULE MCScheduleMonitor -------------------------
(* The instants of an hour: 0 is :00, 1 is :02, 2 is :07 (WU144), 3 is :17    *)
(* (WU137) and 4 is :52.  What happens at another time happens, for each      *)
(* workflow, as at one of these.                                              *)
EXTENDS ScheduleMonitor

MCCron == [w \in Schedules |-> IF w = "wu137" THEN 3 ELSE 2]

\* 45 minutes, from :17 to :02 and from :07 to :52.
MCLag == [w \in Schedules |-> IF w = "wu137" THEN 3 ELSE 2]

\* How many instants a job of 10 minutes and a history of 300 seconds reach,
\* begun or fetched at the instant or shortly before the next.
Reach(reach) == [t \in Instants |-> reach[(t % Cadence) + 1]]
MCJobTime == Reach(<<2, 1, 1, 1, 3>>)
MCSnapshotAge == Reach(<<1, 1, 1, 1, 2>>)

\* Two health runs; one, or a dispatch, beside a change; two dispatches; runs of
\* both schedules with a lost runner, with an evaluation by hand; two runs of
\* the observer with an evaluation.
Budget(m, o, d, c, l, f) ==
    [wu137 |-> m, wu144 |-> o, dispatch |-> d, change |-> c, lose |-> l, fetch |-> f]
MCBudgets ==
    {Budget(2, 0, 0, 0, 0, 0), Budget(1, 0, 0, 1, 0, 0), Budget(0, 0, 1, 1, 0, 0),
     Budget(0, 0, 2, 0, 0, 0), Budget(1, 1, 0, 0, 1, 0), Budget(1, 1, 0, 0, 0, 1),
     Budget(0, 2, 0, 0, 0, 1)}
============================================================================
