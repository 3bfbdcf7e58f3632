------------------------- MODULE ScheduleMonitorProofs -------------------------
(***************************************************************************)
(* Proofs about ScheduleMonitor: types; that a health run which ends well  *)
(* saw everything that was wrong for all of its time; that only runs which *)
(* come late revise a miss; and that a healthy observer has judged.        *)
(***************************************************************************)
EXTENDS ScheduleMonitor, FiniteSetTheorems, WellFoundedInduction, TLAPS

\* A job that began at b may still be in progress at t.
InTime(b, t) == b <= t /\ t <= b + JobTime[b]

\* What holds of every run: what was wrong for all of its time is wrong now,
\* and once it has read the provider it has seen that.
Cell(r) ==
    /\ r.pc \in InProgress => InTime(r.began, now)
    /\ r.always \subseteq off
    /\ r.pc = "checks" => r.always \subseteq r.seen

RunsAreRuns ==
    /\ run = [w \in Workflows |-> run[w]]
    /\ \A w \in Workflows : run[w] \in [Keys(w) -> Runs]

Commits == [differs : SUBSET {"frontier", "activation"}, checks : {"pending", "success", "failure"}]

\* The inductive invariant.
Inductive ==
    /\ now \in Instants
    /\ main \in Seq(Commits)
    /\ off \subseteq Outside
    /\ RunsAreRuns
    /\ \A w \in Workflows : \A k \in Keys(w) : Cell(run[w][k])
    /\ fetched.at \in {-1} \cup 0..now
    /\ missed \subseteq Schedules \X Slots

---------------------------------------------------------------------------
\* Bounds of the helpers.

LEMMA Horizon == Cadence \in Nat /\ Hours \in Nat /\ Hours >= 1 /\ Cadence * Hours \in Nat
  BY ConstantsAssumption, SMT

LEMMA NowIsNatural == ASSUME Inductive PROVE now \in Nat
  BY Horizon DEF Inductive, Instants

LEMMA JobTimes ==
  ASSUME NEW b \in Nat, NEW t \in Instants, b <= t
  PROVE  JobTime[b] \in Nat
<1>1. b \in Instants
  <2> DEFINE limit == Cadence * Hours
  <2>1. limit \in Nat /\ t \in 0..limit BY Horizon DEF Instants
  <2> HIDE DEF limit
  <2>2. b \in 0..limit BY <2>1
  <2> QED  BY <2>2 DEF limit, Instants
<1> QED  BY <1>1, ConstantsAssumption

LEMMA MaturedTyped ==
  ASSUME NEW w, NEW t
  PROVE  Matured(w, t) \subseteq Slots
<1> DEFINE past == {k \in Slots : Maturity(w, k) <= t}
<1> HIDE DEF past
<1>1. {k \in past : Cardinality({j \in past : j > k}) < Rolling} \subseteq past
  OBVIOUS
<1>2. past \subseteq Slots
  BY DEF past
<1>3. QED
  BY <1>1, <1>2 DEF Matured, past

LEMMA MissesTyped ==
  ASSUME NEW w \in Schedules, NEW h, NEW t
  PROVE  Misses(w, h, t) \subseteq Schedules \X Slots
<1>1. Unserved(w, Matured(w, t), h) \subseteq Slots
  BY MaturedTyped DEF Unserved
<1>2. QED
  BY <1>1 DEF Misses

LEMMA NoRunTyped == ASSUME Tip \in Nat, Tip >= 1 PROVE NoRun \in Runs
  BY DEF NoRun, Runs, InProgress, Ended

\* main is never empty.
LEMMA TipExists == ASSUME Inductive PROVE Tip \in Nat /\ Tip >= 1
<1>1. main \in Seq(Commits) BY DEF Inductive
<1>2. Tip \in Nat BY <1>1 DEF Tip
<1>3. run["wu149"] \in [1..2 -> Runs]
  <2>1. "wu149" \in Workflows /\ Keys("wu149") = 1..2 BY DEF Workflows, Keys, Dispatches
  <2>2. QED BY <2>1 DEF Inductive, RunsAreRuns
<1>4. run["wu149"][1].sha \in 1..Tip
  <2>1. run["wu149"][1] \in Runs BY <1>3
  <2>2. QED BY <2>1 DEF Runs
<1>5. QED BY <1>2, <1>4

---------------------------------------------------------------------------
\* One run changes.

LEMMA OneRunChanges ==
  ASSUME Inductive,
         NEW w \in Workflows, NEW k \in Keys(w), NEW r \in Runs,
         Cell(r),
         run' = [run EXCEPT ![w][k] = r],
         UNCHANGED <<now, main, off>>
  PROVE  RunsAreRuns' /\ \A v \in Workflows : \A j \in Keys(v) : Cell(run[v][j])'
<1>1. Runs' = Runs BY DEF Runs, Tip
<1>2. run = [v \in Workflows |-> run[v]] /\ \A v \in Workflows : run[v] \in [Keys(v) -> Runs]
  BY DEF Inductive, RunsAreRuns
<1>3. run' = [v \in Workflows |-> IF v = w THEN [run[w] EXCEPT ![k] = r] ELSE run[v]]
  BY <1>2, Zenon
<1>4. \A v \in Workflows : run'[v] \in [Keys(v) -> Runs]
  BY <1>2, <1>3
<1>5. RunsAreRuns'
  BY <1>1, <1>3, <1>4 DEF RunsAreRuns
<1>6. ASSUME NEW v \in Workflows, NEW j \in Keys(v) PROVE Cell(run[v][j])'
  <2>1. run'[v][j] = r \/ run'[v][j] = run[v][j]
    BY <1>2, <1>3
  <2>2. Cell(run[v][j])
    BY DEF Inductive
  <2>3. QED
    BY <2>1, <2>2 DEF Cell
<1>7. QED BY <1>5, <1>6

\* A run that ends is again as new, but for how it ended and what it judged.
LEMMA RunEnds ==
  ASSUME Inductive, NEW r \in Runs, NEW c \in Ended
  PROVE  Over(r, c) \in Runs /\ Cell(Over(r, c))
<1>1. NoRun \in Runs BY TipExists, NoRunTyped
<1>2. Over(r, c) = [NoRun EXCEPT !.pc = c, !.at = r.at, !.gaveWay = r.gaveWay, !.judged = r.judged]
  BY DEF Over
<1>3. r.at \in Nat /\ r.gaveWay \in SUBSET Slots /\ r.judged \in SUBSET Slots
  BY DEF Runs
<1>4. Over(r, c) \in Runs BY <1>1, <1>2, <1>3 DEF Runs
<1>5. Over(r, c).pc = c /\ Over(r, c).always = {}
  BY <1>2 DEF NoRun
<1>6. c \notin InProgress /\ c # "checks" BY DEF Ended, InProgress
<1>7. QED BY <1>4, <1>5, <1>6 DEF Cell

LEMMA RunBegins ==
  ASSUME Inductive
  PROVE  Created \in Runs /\ Cell(Created)
<1>1. NoRun \in Runs /\ Tip \in 1..Tip BY TipExists, NoRunTyped
<1>2. now \in Nat /\ off \in SUBSET Outside BY NowIsNatural DEF Inductive
<1>3. Created = [NoRun EXCEPT !.pc = "queued", !.at = now, !.sha = Tip, !.always = off]
  BY DEF Created
<1>4. Created \in Runs BY <1>1, <1>2, <1>3 DEF Runs
<1>5. Created.pc = "queued" /\ Created.always = off BY <1>3 DEF NoRun
<1>6. QED BY <1>4, <1>5 DEF Cell, InProgress

\* A run of the invariant, by name.
LEMMA RunTyped ==
  ASSUME Inductive, NEW w \in Workflows, NEW k \in Keys(w)
  PROVE  run[w][k] \in Runs /\ Cell(run[w][k])
<1>1. run[w] \in [Keys(w) -> Runs] BY DEF Inductive, RunsAreRuns
<1>2. QED BY <1>1 DEF Inductive

LEMMA RunsOfInvariant ==
  ASSUME Inductive
  PROVE  /\ run = [w \in Workflows |-> run[w]]
         /\ \A w \in Workflows : run[w] \in [Keys(w) -> Runs]
  BY DEF Inductive, RunsAreRuns

---------------------------------------------------------------------------
\* Steps of one run.

LEMMA OneRunStep ==
  ASSUME Inductive,
         NEW w \in Workflows, NEW k \in Keys(w), NEW r \in Runs,
         Cell(r),
         run' = [run EXCEPT ![w][k] = r],
         UNCHANGED <<now, main, off, fetched>>,
         missed' \subseteq Schedules \X Slots
  PROVE  Inductive'
<1>1. RunsAreRuns' /\ \A v \in Workflows : \A j \in Keys(v) : Cell(run[v][j])'
  BY OneRunChanges
<1>2. QED BY <1>1 DEF Inductive, Keys

LEMMA DeliverKeeps ==
  ASSUME Inductive, NEW w \in Schedules, NEW k \in Slots, Deliver(w, k)
  PROVE  Inductive'
<1>1. w \in Workflows /\ k \in Keys(w) BY DEF Workflows, Schedules, Keys
<1>2. Created \in Runs /\ Cell(Created) BY RunBegins
<1>3. missed' \subseteq Schedules \X Slots BY DEF Deliver, Inductive
<1>4. QED BY <1>1, <1>2, <1>3, OneRunStep DEF Deliver

LEMMA StartKeeps ==
  ASSUME Inductive, NEW w \in Workflows, NEW k \in Keys(w), Start(w, k)
  PROVE  Inductive'
<1> DEFINE pc == CASE w = "wu137" -> "overlap" [] w = "wu144" -> "list" [] OTHER -> "fetch"
           r == [run[w][k] EXCEPT !.began = now, !.pc = pc]
<1>1. run[w][k] \in Runs /\ Cell(run[w][k]) BY RunTyped
<1>2. pc \in InProgress /\ pc # "checks" BY DEF InProgress
<1>3. now \in Nat BY NowIsNatural
<1>4. r \in Runs /\ r.pc = pc /\ r.began = now /\ r.always = run[w][k].always
  <2> HIDE DEF pc
  <2> QED BY <1>1, <1>2, <1>3 DEF Runs
<1>5. Cell(r)
  <2>1. now \in Instants /\ JobTime[now] \in Nat BY <1>3, JobTimes DEF Inductive
  <2>2. InTime(now, now) BY <1>3, <2>1 DEF InTime
  <2> QED  BY <1>1, <1>2, <1>4, <2>2 DEF Cell
<1>6. run' = [run EXCEPT ![w][k] = r] BY DEF Start
<1>7. missed' \subseteq Schedules \X Slots BY DEF Start, Inductive
<1>8. QED
  <2> HIDE DEF r
  <2> QED BY <1>4, <1>5, <1>6, <1>7, OneRunStep DEF Start

LEMMA SkipOverlapKeeps ==
  ASSUME Inductive, NEW k \in Slots, SkipOverlap(k)
  PROVE  Inductive'
<1> DEFINE other == {j \in Slots \ {k} : run["wu137"][j].pc \in InProgress}
           pc == IF other = {} THEN "fetch" ELSE "skip"
           r == [run["wu137"][k] EXCEPT !.gaveWay = other, !.pc = pc]
<1>1. "wu137" \in Workflows /\ k \in Keys("wu137") BY DEF Workflows, Schedules, Keys
<1>2. run["wu137"][k] \in Runs /\ Cell(run["wu137"][k]) BY <1>1, RunTyped
<1>3. other \in SUBSET Slots /\ pc \in InProgress /\ pc # "checks" BY DEF InProgress
<1>4. run["wu137"][k].pc \in InProgress BY DEF SkipOverlap, InProgress
<1>5. r \in Runs /\ r.pc = pc /\ r.began = run["wu137"][k].began /\ r.always = run["wu137"][k].always
  <2> HIDE DEF pc, other
  <2> QED BY <1>2, <1>3 DEF Runs
<1>6. Cell(r) BY <1>2, <1>3, <1>4, <1>5 DEF Cell
<1>7. run' = [run EXCEPT !["wu137"][k] = r] BY DEF SkipOverlap
<1>8. missed' \subseteq Schedules \X Slots BY DEF SkipOverlap, Inductive
<1>9. QED
  <2> HIDE DEF r
  <2> QED BY <1>1, <1>5, <1>6, <1>7, <1>8, OneRunStep DEF SkipOverlap

LEMMA EndSkippedKeeps ==
  ASSUME Inductive, NEW k \in Slots, EndSkipped(k)
  PROVE  Inductive'
<1>1. "wu137" \in Workflows /\ k \in Keys("wu137") BY DEF Workflows, Schedules, Keys
<1>2. run["wu137"][k] \in Runs BY <1>1, RunTyped
<1> DEFINE r == Over(run["wu137"][k], "success")
<1>3. r \in Runs /\ Cell(r) BY <1>2, RunEnds DEF Ended
<1>4. run' = [run EXCEPT !["wu137"][k] = r] BY DEF EndSkipped
<1>5. missed' \subseteq Schedules \X Slots BY DEF EndSkipped, Inductive
<1>6. QED
  <2> HIDE DEF r
  <2> QED BY <1>1, <1>3, <1>4, <1>5, OneRunStep DEF EndSkipped

\* The run sees all that is wrong now, hence all that was wrong all the time.
LEMMA FetchKeeps ==
  ASSUME Inductive, NEW w \in Workflows, NEW k \in Keys(w), Fetch(w, k)
  PROVE  Inductive'
<1> DEFINE seen == off \cup (IF run[w][k].sha # Tip THEN {"main"} ELSE {})
           r == [run[w][k] EXCEPT !.pc = "checks", !.seen = seen]
<1>1. run[w][k] \in Runs /\ Cell(run[w][k]) BY RunTyped
<1>2. off \subseteq seen /\ seen \in SUBSET (Outside \cup {"main"}) BY DEF Inductive
<1>3. run[w][k].pc \in InProgress /\ "checks" \in InProgress BY DEF Fetch, InProgress
<1>4. /\ r \in Runs /\ r.pc = "checks" /\ r.seen = seen
      /\ r.began = run[w][k].began /\ r.always = run[w][k].always
  <2> HIDE DEF seen
  <2> QED BY <1>1, <1>2, <1>3 DEF Runs
<1>5. Cell(r)
  <2> HIDE DEF seen
  <2> QED BY <1>1, <1>2, <1>3, <1>4 DEF Cell
<1>6. run' = [run EXCEPT ![w][k] = r] BY DEF Fetch
<1>7. missed' \subseteq Schedules \X Slots BY DEF Fetch, Inductive
<1>8. QED
  <2> HIDE DEF r
  <2> QED BY <1>4, <1>5, <1>6, <1>7, OneRunStep DEF Fetch

LEMMA EvaluateKeeps ==
  ASSUME Inductive, NEW w \in Workflows, NEW k \in Keys(w), Evaluate(w, k)
  PROVE  Inductive'
<1>1. PICK c \in Ended : run' = [run EXCEPT ![w][k] = Over(run[w][k], c)]
  BY DEF Evaluate, Ended
<1>2. run[w][k] \in Runs BY RunTyped
<1>3. Over(run[w][k], c) \in Runs /\ Cell(Over(run[w][k], c)) BY <1>2, RunEnds
<1>4. missed' \subseteq Schedules \X Slots BY DEF Evaluate, Inductive
<1>5. QED BY <1>1, <1>3, <1>4, OneRunStep DEF Evaluate

LEMMA LoseRunnerKeeps ==
  ASSUME Inductive, NEW w \in Workflows, NEW k \in Keys(w), LoseRunner(w, k)
  PROVE  Inductive'
<1>1. run[w][k] \in Runs BY RunTyped
<1>2. Over(run[w][k], "cancelled") \in Runs /\ Cell(Over(run[w][k], "cancelled"))
  BY <1>1, RunEnds DEF Ended
<1>3. missed' \subseteq Schedules \X Slots BY DEF LoseRunner, Inductive
<1>4. QED BY <1>2, <1>3, OneRunStep DEF LoseRunner

\* What an observation does, for the time t that it took.
LEMMA ObservedAt ==
  ASSUME NEW k \in Slots, Observe(k)
  PROVE  \E t \in run["wu144"][k].began..now :
            \/ /\ run' = [run EXCEPT !["wu144"][k] = Over(run["wu144"][k], "failure")]
               /\ missed' = missed
            \/ /\ run' = [run EXCEPT !["wu144"][k] =
                     Over([run["wu144"][k] EXCEPT !.judged = Matured("wu137", t)], "success")]
               /\ missed' = missed \cup Misses("wu137", Listed("wu137"), t)
  BY DEF Observe

LEMMA ObserveKeeps ==
  ASSUME Inductive, NEW k \in Slots, Observe(k)
  PROVE  Inductive'
<1> DEFINE old == run["wu144"][k]
<1>1. "wu144" \in Workflows /\ "wu137" \in Schedules /\ k \in Keys("wu144")
  BY DEF Workflows, Schedules, Keys
<1>2. old \in Runs BY <1>1, RunTyped
<1>3. PICK t \in old.began..now :
        \/ /\ run' = [run EXCEPT !["wu144"][k] = Over(old, "failure")]
           /\ missed' = missed
        \/ /\ run' = [run EXCEPT !["wu144"][k] = Over([old EXCEPT !.judged = Matured("wu137", t)], "success")]
           /\ missed' = missed \cup Misses("wu137", Listed("wu137"), t)
  BY ObservedAt
<1> DEFINE judging == [old EXCEPT !.judged = Matured("wu137", t)]
<1>4. judging \in Runs BY <1>2, MaturedTyped DEF Runs
<1>5. Misses("wu137", Listed("wu137"), t) \subseteq Schedules \X Slots BY <1>1, MissesTyped
<1>6. UNCHANGED <<now, main, off, fetched>> BY DEF Observe
<1>7. PICK r :
        /\ r = Over(old, "failure") \/ r = Over(judging, "success")
        /\ run' = [run EXCEPT !["wu144"][k] = r]
  BY <1>3
<1>8. r \in Runs /\ Cell(r)
  <2>1. Over(old, "failure") \in Runs /\ Cell(Over(old, "failure")) BY <1>2, RunEnds DEF Ended
  <2>2. Over(judging, "success") \in Runs /\ Cell(Over(judging, "success"))
    <3> HIDE DEF judging
    <3> QED BY <1>4, RunEnds DEF Ended
  <2>3. QED BY <1>7, <2>1, <2>2
<1>9. missed' \subseteq Schedules \X Slots BY <1>3, <1>5 DEF Inductive
<1>10. QED
  BY <1>1, <1>6, <1>7, <1>8, <1>9, OneRunStep

---------------------------------------------------------------------------
\* Steps of several runs, of time, of main and of what is outside.

LEMMA DispatchKeeps ==
  ASSUME Inductive, NEW k \in Keys("wu149"), Dispatch(k)
  PROVE  Inductive'
<1> DEFINE old == run["wu149"]
           next(j) == IF j = k THEN Created
                      ELSE IF old[j].pc \in InProgress \cup {"queued"} THEN Over(old[j], "cancelled")
                      ELSE old[j]
<1>1. "wu149" \in Workflows BY DEF Workflows
<1>2. run = [w \in Workflows |-> run[w]] /\ \A w \in Workflows : run[w] \in [Keys(w) -> Runs]
  BY DEF Inductive, RunsAreRuns
<1>3. run' = [run EXCEPT !["wu149"] = [j \in Keys("wu149") |-> next(j)]]
  BY DEF Dispatch
<1>4. UNCHANGED <<now, main, off, fetched, missed>> BY DEF Dispatch
<1>5. ASSUME NEW j \in Keys("wu149") PROVE next(j) \in Runs /\ Cell(next(j))
  <2>1. old[j] \in Runs /\ Cell(old[j]) BY <1>1, RunTyped
  <2>2. Created \in Runs /\ Cell(Created) BY RunBegins
  <2>3. Over(old[j], "cancelled") \in Runs /\ Cell(Over(old[j], "cancelled"))
    BY <2>1, RunEnds DEF Ended
  <2>4. QED BY <2>1, <2>2, <2>3
<1> HIDE DEF next, old
<1>6. run' = [w \in Workflows |-> IF w = "wu149" THEN [j \in Keys(w) |-> next(j)] ELSE run[w]]
  BY <1>2, <1>3, Zenon
<1>7. Runs' = Runs BY <1>4 DEF Runs, Tip
<1>8. \A w \in Workflows : run'[w] \in [Keys(w) -> Runs]
  BY <1>2, <1>5, <1>6
<1>9. RunsAreRuns' BY <1>6, <1>7, <1>8 DEF RunsAreRuns
<1>10. ASSUME NEW w \in Workflows, NEW j \in Keys(w) PROVE Cell(run[w][j])'
  <2>1. Cell(run[w][j]) BY RunTyped
  <2>2. w = "wu149" => run'[w][j] = next(j) /\ Cell(next(j)) BY <1>5, <1>6
  <2>3. w # "wu149" => run'[w][j] = run[w][j] BY <1>6
  <2>4. QED BY <2>1, <2>2, <2>3, <1>4 DEF Cell
<1>11. QED BY <1>4, <1>9, <1>10 DEF Inductive, Keys

LEMMA RestoreOutsideKeeps ==
  ASSUME Inductive, RestoreOutside
  PROVE  Inductive'
<1> DEFINE next(w, k) == [run[w][k] EXCEPT !.always = @ \cap {"updated"}]
<1>1. UNCHANGED <<now, main, fetched, missed>> /\ off' = off \cap {"updated"} BY DEF RestoreOutside
<1>2. run' = [w \in Workflows |-> [k \in Keys(w) |-> next(w, k)]] BY DEF RestoreOutside
<1>3. Runs' = Runs BY <1>1 DEF Runs, Tip
<1>4. ASSUME NEW w \in Workflows, NEW k \in Keys(w) PROVE next(w, k) \in Runs /\ Cell(run[w][k])'
  <2>1. run[w][k] \in Runs /\ Cell(run[w][k]) BY RunTyped
  <2>2. next(w, k) \in Runs BY <2>1 DEF Runs
  <2>3. /\ next(w, k).pc = run[w][k].pc /\ next(w, k).began = run[w][k].began
        /\ next(w, k).seen = run[w][k].seen
        /\ next(w, k).always = run[w][k].always \cap {"updated"}
    BY <2>1 DEF Runs
  <2>4. run'[w][k] = next(w, k) BY <1>2
  <2> HIDE DEF next
  <2>5. /\ run'[w][k].pc \in InProgress => InTime(run'[w][k].began, now)
        /\ run'[w][k].always \subseteq off \cap {"updated"}
        /\ run'[w][k].pc = "checks" => run'[w][k].always \subseteq run'[w][k].seen
    BY <2>1, <2>3, <2>4 DEF Cell
  <2>6. Cell(run[w][k])' BY <1>1, <2>5 DEF Cell, InTime
  <2>7. QED BY <2>2, <2>6
<1>5. RunsAreRuns'
  <2> HIDE DEF next
  <2> QED BY <1>2, <1>3, <1>4 DEF RunsAreRuns
<1>6. \A w \in Workflows : \A k \in Keys(w) : Cell(run[w][k])' BY <1>4
<1>7. QED
  <2> HIDE DEF next
  <2> QED BY <1>1, <1>5, <1>6 DEF Inductive, Keys

\* A step that changes no run, and of main only adds commits or their checks.
LEMMA NoRunStep ==
  ASSUME Inductive,
         UNCHANGED run,
         main' \in Seq(Commits), Len(main') >= Len(main),
         off \subseteq off', off' \subseteq Outside,
         now' \in Instants,
         \A w \in Workflows : \A k \in Keys(w) :
            run[w][k].pc \in InProgress => InTime(run[w][k].began, now'),
         fetched'.at \in {-1} \cup 0..now',
         missed' \subseteq Schedules \X Slots
  PROVE  Inductive'
<1>1. Runs \subseteq Runs'
  <2>1. Tip \in Nat /\ Tip' \in Nat /\ Tip' >= Tip BY DEF Tip, Inductive
  <2>2. 1..Tip \subseteq 1..Tip' BY <2>1
  <2>3. QED BY <2>2 DEF Runs
<1>2. RunsAreRuns'
  <2>1. RunsAreRuns BY DEF Inductive
  <2>2. QED BY <1>1, <2>1 DEF RunsAreRuns
<1>3. ASSUME NEW w \in Workflows, NEW k \in Keys(w) PROVE Cell(run[w][k])'
  <2>1. Cell(run[w][k]) BY RunTyped
  <2>2. QED BY <2>1 DEF Cell, InTime
<1>4. Commits' = Commits /\ Outside' = Outside /\ Instants' = Instants /\ (Schedules \X Slots)' = Schedules \X Slots
  BY DEF Commits, Outside, Instants, Schedules, Slots
<1>5. QED BY <1>2, <1>3, <1>4 DEF Inductive, Keys

\* What the invariant gives for what a step leaves alone.
LEMMA Parts ==
  ASSUME Inductive
  PROVE  /\ now \in Instants /\ main \in Seq(Commits) /\ Len(main) >= Len(main)
         /\ off \subseteq off /\ off \subseteq Outside
         /\ fetched.at \in {-1} \cup 0..now /\ missed \subseteq Schedules \X Slots
<1>1. main \in Seq(Commits) BY DEF Inductive
<1>2. Len(main) \in Nat BY <1>1
<1>3. QED BY <1>2 DEF Inductive

\* What a running job's start is while time stands still.
LEMMA BeganNow ==
  ASSUME Inductive, now' = now
  PROVE  \A w \in Workflows : \A k \in Keys(w) :
            run[w][k].pc \in InProgress => InTime(run[w][k].began, now')
  BY DEF Inductive, Cell

LEMMA TickKeeps ==
  ASSUME Inductive, Tick
  PROVE  Inductive'
<1>1. now \in Nat /\ Cadence * Hours \in Nat /\ now < Cadence * Hours /\ now' = now + 1
  BY NowIsNatural, Horizon DEF Tick
<1>2. now' \in Instants
  <2> DEFINE limit == Cadence * Hours
  <2> HIDE DEF limit
  <2>1. limit \in Nat /\ now < limit BY <1>1 DEF limit
  <2>2. now' \in 0..limit BY <1>1, <2>1
  <2>3. QED BY <2>2 DEF limit, Instants
<1>3. fetched'.at \in {-1} \cup 0..now'
  <2>1. fetched' = NoHistory \/ fetched' = fetched BY DEF Tick
  <2>2. NoHistory.at = -1 BY DEF NoHistory
  <2>3. fetched.at \in {-1} \cup 0..now BY DEF Inductive
  <2>4. QED BY <1>1, <2>1, <2>2, <2>3
<1>4. ASSUME NEW w \in Workflows, NEW k \in Keys(w), run[w][k].pc \in InProgress
      PROVE  InTime(run[w][k].began, now')
  <2>1. PICK b : b = run[w][k].began OBVIOUS
  <2>2. b \in Nat /\ b <= now BY <1>4, <2>1, RunTyped DEF Runs, Cell, InTime
  <2>3. JobTime[b] \in Nat BY <2>2, JobTimes DEF Inductive
  <2>4. now < b + JobTime[b] BY <1>4, <2>1 DEF Tick
  <2>5. InTime(b, now') BY <1>1, <2>2, <2>3, <2>4 DEF InTime
  <2> QED  BY <2>1, <2>5
<1>5. UNCHANGED <<main, off, run, missed>> BY DEF Tick
<1>6. QED BY <1>2, <1>3, <1>4, <1>5, Parts, NoRunStep

LEMMA CommitKeeps ==
  ASSUME Inductive, Commit
  PROVE  Inductive'
<1>1. PICK d \in {{}, {"frontier"}, {"activation"}} :
        main' = Append(main, [differs |-> d, checks |-> "pending"])
  BY DEF Commit
<1>2. [differs |-> d, checks |-> "pending"] \in Commits BY DEF Commits
<1>3. main' \in Seq(Commits) /\ Len(main') >= Len(main) BY <1>1, <1>2 DEF Inductive
<1>4. UNCHANGED <<now, off, run, fetched, missed>> BY DEF Commit
<1>5. QED BY <1>3, <1>4, BeganNow, Parts, NoRunStep

LEMMA EndChecksKeeps ==
  ASSUME Inductive, EndChecks
  PROVE  Inductive'
<1>1. PICK c \in {"success", "failure"} : main' = [main EXCEPT ![Tip].checks = c]
  BY DEF EndChecks
<1>2. main \in Seq(Commits) /\ Tip \in 1..Len(main)
  BY TipExists DEF Inductive, Tip
<1>3. [main[Tip] EXCEPT !.checks = c] \in Commits
  <2>1. main[Tip] \in Commits BY <1>2
  <2>2. QED BY <2>1 DEF Commits
<1>4. main' = [main EXCEPT ![Tip] = [main[Tip] EXCEPT !.checks = c]] BY <1>1
<1>5. main' \in Seq(Commits) /\ Len(main') = Len(main) BY <1>2, <1>3, <1>4
<1>6. UNCHANGED <<now, off, run, fetched, missed>> BY DEF EndChecks
<1>7. QED BY <1>5, <1>6, BeganNow, Parts, NoRunStep

LEMMA ChangeOutsideKeeps ==
  ASSUME Inductive, ChangeOutside
  PROVE  Inductive'
<1>1. PICK d \in {{"registry"}, {"tokens"}, {"enforcement", "updated"}, {"bypass", "updated"}} :
        off' = off \cup d
  BY DEF ChangeOutside
<1>2. off \subseteq off' /\ off' \subseteq Outside BY <1>1 DEF Inductive, Outside
<1>3. UNCHANGED <<now, main, run, fetched, missed>> BY DEF ChangeOutside
<1>4. QED BY <1>2, <1>3, BeganNow, Parts, NoRunStep

LEMMA FetchHistoriesKeeps ==
  ASSUME Inductive, FetchHistories
  PROVE  Inductive'
<1>1. fetched'.at = now /\ UNCHANGED <<now, main, off, run, missed>> BY DEF FetchHistories
<1>2. fetched'.at \in {-1} \cup 0..now' BY <1>1, NowIsNatural
<1>3. QED BY <1>1, <1>2, BeganNow, Parts, NoRunStep

LEMMA QualifyKeeps ==
  ASSUME Inductive, Qualify
  PROVE  Inductive'
<1>1. /\ fetched' = NoHistory /\ UNCHANGED <<now, main, off, run>>
      /\ missed' \subseteq missed \cup Misses("wu144", fetched.wu144, fetched.at)
                                 \cup Misses("wu137", fetched.wu137, fetched.at)
  BY DEF Qualify
<1>2. /\ Misses("wu144", fetched.wu144, fetched.at) \subseteq Schedules \X Slots
      /\ Misses("wu137", fetched.wu137, fetched.at) \subseteq Schedules \X Slots
  BY MissesTyped DEF Schedules
<1>3. missed' \subseteq Schedules \X Slots BY <1>1, <1>2 DEF Inductive
<1>4. fetched'.at = -1 BY <1>1 DEF NoHistory
<1>5. QED BY <1>1, <1>3, <1>4, BeganNow, Parts, NoRunStep

LEMMA CorrelateKeeps ==
  ASSUME Inductive, Correlate
  PROVE  Inductive'
<1>1. missed' = missed \cup {<<"wu144", 0>>} /\ UNCHANGED <<now, main, off, run, fetched>>
  BY DEF Correlate
<1>2. <<"wu144", 0>> \in Schedules \X Slots BY Horizon DEF Schedules, Slots
<1>3. missed' \subseteq Schedules \X Slots BY <1>1, <1>2 DEF Inductive
<1>4. QED BY <1>1, <1>3, BeganNow, Parts, NoRunStep

---------------------------------------------------------------------------
\* The invariant.

LEMMA InitEstablishes == Init => Inductive
<1> SUFFICES ASSUME Init PROVE Inductive OBVIOUS
<1>1. now = 0 /\ off = {} /\ fetched.at = -1 /\ missed = {} BY DEF Init, NoHistory
<1>2. main \in Seq(Commits) /\ Tip = 1 BY DEF Init, Commits, Tip
<1>3. NoRun \in Runs BY <1>2, NoRunTyped
<1>4. RunsAreRuns BY <1>3 DEF Init, RunsAreRuns
<1>5. ASSUME NEW w \in Workflows, NEW k \in Keys(w) PROVE Cell(run[w][k])
  <2>1. run[w][k] = NoRun BY DEF Init
  <2>2. NoRun.pc = "none" /\ NoRun.always = {} BY DEF NoRun
  <2>3. QED BY <2>1, <2>2 DEF Cell, InProgress
<1>6. 0 \in Instants BY Horizon DEF Instants
<1>7. QED BY <1>1, <1>2, <1>4, <1>5, <1>6 DEF Inductive

LEMMA StepPreserves == Inductive /\ [Next]_vars => Inductive'
<1> SUFFICES ASSUME Inductive, [Next]_vars PROVE Inductive' OBVIOUS
<1>1. CASE \E w \in Schedules, k \in Slots : Deliver(w, k)
  BY <1>1, DeliverKeeps
<1>2. CASE \E w \in Workflows : \E k \in Keys(w) : RunStep(w, k)
  BY <1>2, StartKeeps, FetchKeeps, EvaluateKeeps, LoseRunnerKeeps DEF RunStep
<1>3. CASE \E k \in Keys("wu149") : Dispatch(k)
  BY <1>3, DispatchKeeps
<1>4. CASE \E k \in Slots : SkipOverlap(k) \/ EndSkipped(k) \/ Observe(k)
  BY <1>4, SkipOverlapKeeps, EndSkippedKeeps, ObserveKeeps
<1>5. CASE FetchHistories \/ Qualify \/ Correlate
  BY <1>5, FetchHistoriesKeeps, QualifyKeeps, CorrelateKeeps
<1>6. CASE Tick \/ Commit \/ EndChecks \/ ChangeOutside \/ RestoreOutside
  BY <1>6, TickKeeps, CommitKeeps, EndChecksKeeps, ChangeOutsideKeeps, RestoreOutsideKeeps
<1>7. CASE UNCHANGED vars
  <2>1. UNCHANGED <<now, main, off, run, fetched, missed>> BY <1>7 DEF vars
  <2>2. QED BY <2>1, BeganNow, Parts, NoRunStep
<1>8. QED
  BY <1>1, <1>2, <1>3, <1>4, <1>5, <1>6, <1>7 DEF Next

LEMMA InductiveHolds == Spec => []Inductive
  BY InitEstablishes, StepPreserves, PTL DEF Spec

---------------------------------------------------------------------------
\* Every variable keeps its type and no job outlives its time, for any cadence,
\* schedules, lags, windows, times of jobs and event mixes.
THEOREM TypeCorrect == Spec => []TypeOK
<1>1. Inductive => TypeOK
  BY DEF Inductive, TypeOK, RunsAreRuns, Cell, InTime, Commits
<1>2. QED BY <1>1, InductiveHolds, PTL

\* A step of one run concerns that run.
LEMMA OtherRunsStay ==
  ASSUME Inductive,
         NEW v \in Workflows, NEW j \in Keys(v), NEW r,
         run' = [run EXCEPT ![v][j] = r],
         NEW w \in Workflows, NEW k \in Keys(w),
         run'[w][k] # run[w][k]
  PROVE  v = w /\ j = k /\ run'[w][k] = r
<1>1. run = [u \in Workflows |-> run[u]] /\ \A u \in Workflows : run[u] \in [Keys(u) -> Runs]
  BY DEF Inductive, RunsAreRuns
<1>2. run' = [u \in Workflows |-> IF u = v THEN [run[v] EXCEPT ![j] = r] ELSE run[u]]
  BY <1>1, Zenon
<1>3. v = w BY <1>2
<1>4. run'[w] = [run[w] EXCEPT ![j] = r] BY <1>2, <1>3
<1>5. QED BY <1>1, <1>3, <1>4

LEMMA EndsAs == ASSUME NEW r, NEW c PROVE Over(r, c).pc = c
  BY DEF Over, NoRun

\* A run that has read the provider ends well by its evaluation only.
LEMMA OnlyEvaluationSucceeds ==
  ASSUME Inductive, Next,
         NEW w \in Workflows, NEW k \in Keys(w),
         run[w][k].pc = "checks", run'[w][k].pc = "success"
  PROVE  Evaluate(w, k)
<1>0. run'[w][k] # run[w][k] OBVIOUS
<1>1. ASSUME NEW v \in Schedules, NEW j \in Slots, Deliver(v, j) PROVE FALSE
  <2>1. v \in Workflows /\ j \in Keys(v) BY DEF Workflows, Schedules, Keys
  <2>2. run'[w][k] = Created BY <1>0, <1>1, <2>1, OtherRunsStay DEF Deliver
  <2>3. Created.pc = "queued" BY DEF Created, NoRun
  <2>4. QED BY <2>2, <2>3
<1>2. ASSUME NEW j \in Keys("wu149"), Dispatch(j) PROVE FALSE
  <2>1. w = "wu149" BY <1>0, <1>2, RunsOfInvariant DEF Dispatch
  <2>2. run'[w][k] = Created \/ run'[w][k] = Over(run[w][k], "cancelled") \/ run'[w][k] = run[w][k]
    BY <1>2, <2>1, RunsOfInvariant DEF Dispatch, Workflows
  <2>3. Created.pc = "queued" BY DEF Created, NoRun
  <2>4. QED BY <1>0, <2>2, <2>3, EndsAs
<1>3. ASSUME NEW v \in Workflows, NEW j \in Keys(v), RunStep(v, j) PROVE Evaluate(w, k)
  <2>1. CASE Start(v, j)
    <3>1. v = w /\ j = k BY <1>0, <2>1, OtherRunsStay DEF Start
    <3>2. QED BY <2>1, <3>1 DEF Start
  <2>2. CASE Fetch(v, j)
    <3>1. v = w /\ j = k BY <1>0, <2>2, OtherRunsStay DEF Fetch
    <3>2. QED BY <2>2, <3>1 DEF Fetch
  <2>3. CASE Evaluate(v, j)
    <3>1. v = w /\ j = k BY <1>0, <2>3, OtherRunsStay DEF Evaluate
    <3>2. QED BY <2>3, <3>1
  <2>4. CASE LoseRunner(v, j)
    <3>1. run'[w][k] = Over(run[v][j], "cancelled") BY <1>0, <2>4, OtherRunsStay DEF LoseRunner
    <3>2. QED BY <3>1, EndsAs
  <2>5. QED BY <1>3, <2>1, <2>2, <2>3, <2>4 DEF RunStep
<1>4. ASSUME NEW j \in Slots, SkipOverlap(j) \/ EndSkipped(j) \/ Observe(j) PROVE FALSE
  <2>1. /\ "wu137" \in Workflows /\ j \in Keys("wu137")
        /\ "wu144" \in Workflows /\ j \in Keys("wu144")
    BY DEF Workflows, Schedules, Keys
  <2>2. CASE SkipOverlap(j)
    <3>1. PICK r : run' = [run EXCEPT !["wu137"][j] = r] BY <2>2 DEF SkipOverlap
    <3>2. "wu137" = w /\ j = k BY <1>0, <2>1, <3>1, OtherRunsStay
    <3>3. QED BY <2>2, <3>2 DEF SkipOverlap
  <2>3. CASE EndSkipped(j)
    <3>1. "wu137" = w /\ j = k BY <1>0, <2>1, <2>3, OtherRunsStay DEF EndSkipped
    <3>2. QED BY <2>3, <3>1 DEF EndSkipped
  <2>4. CASE Observe(j)
    <3>1. PICK r : run' = [run EXCEPT !["wu144"][j] = r] BY <2>4 DEF Observe
    <3>2. "wu144" = w /\ j = k BY <1>0, <2>1, <3>1, OtherRunsStay
    <3>3. QED BY <2>4, <3>2 DEF Observe
  <2>5. QED BY <1>4, <2>2, <2>3, <2>4
<1>5. ASSUME RestoreOutside PROVE FALSE
  <2>1. run'[w][k] = [run[w][k] EXCEPT !.always = @ \cap {"updated"}] BY <1>5 DEF RestoreOutside
  <2>2. run[w][k] \in Runs BY RunTyped
  <2>3. run'[w][k].pc = run[w][k].pc BY <2>1, <2>2 DEF Runs
  <2>4. QED BY <2>3
<1>6. ASSUME UNCHANGED run PROVE FALSE
  BY <1>0, <1>6
<1>7. QED
  <2>1. CASE FetchHistories \/ Qualify \/ Correlate
    BY <1>6, <2>1 DEF FetchHistories, Qualify, Correlate
  <2>2. CASE Tick \/ Commit \/ EndChecks \/ ChangeOutside
    BY <1>6, <2>2 DEF Tick, Commit, EndChecks, ChangeOutside
  <2>3. QED BY <1>1, <1>2, <1>3, <1>4, <1>5, <2>1, <2>2 DEF Next

\* A run of WU137 or WU149 that ends well was created for a commit that is the
\* activated state with its checks passed, and nothing outside differed for all
\* of its time, whatever changes and is changed back between its reads.
THEOREM HealthyMeansNoDrift == Spec => HealthySawNoDrift
<1> DEFINE Seen == \A w \in {"wu137", "wu149"} : \A k \in Keys(w) :
             run[w][k].pc = "checks" /\ run'[w][k].pc = "success" =>
                 /\ run[w][k].always = {}
                 /\ main[run[w][k].sha] = [differs |-> {}, checks |-> "success"]
<1>1. ASSUME Inductive, [Next]_vars PROVE [Seen]_vars
  <2> SUFFICES ASSUME Next,
                      NEW w \in {"wu137", "wu149"}, NEW k \in Keys(w),
                      run[w][k].pc = "checks", run'[w][k].pc = "success"
               PROVE  /\ run[w][k].always = {}
                      /\ main[run[w][k].sha] = [differs |-> {}, checks |-> "success"]
    BY <1>1
  <2> DEFINE r == run[w][k]
             c == main[r.sha]
  <2>1. w \in Workflows BY DEF Workflows, Schedules
  <2>2. r \in Runs /\ Cell(r) BY <1>1, <2>1, RunTyped
  <2>3. Evaluate(w, k) BY <1>1, <2>1, OnlyEvaluationSucceeds
  <2>4. run'[w][k] = Over(r, IF Outcome(w, k) = "HEALTHY" THEN "success" ELSE "failure")
    BY <1>1, <2>1, <2>3, OtherRunsStay DEF Evaluate
  <2>5. Outcome(w, k) = "HEALTHY" BY <2>4, EndsAs
  <2>6. Health(c, r.seen) = "HEALTHY" BY <2>5 DEF Outcome, Fallback
  <2>7. r.seen = {} /\ c.differs = {} /\ c.checks = "success"
    BY <2>6 DEF Health
  <2>8. c \in Commits
    <3>1. main \in Seq(Commits) /\ r.sha \in 1..Len(main) BY <1>1, <2>2 DEF Inductive, Runs, Tip
    <3>2. QED BY <3>1
  <2>9. c = [differs |-> {}, checks |-> "success"] BY <2>7, <2>8 DEF Commits
  <2>10. r.always = {} BY <2>2, <2>7 DEF Cell
  <2>11. QED BY <2>9, <2>10
<1>2. QED BY <1>1, InductiveHolds, PTL DEF Spec, HealthySawNoDrift

---------------------------------------------------------------------------
\* Verdicts about deliveries.

There(r) == r.pc # "none"
History(w) == IF w = "wu137" THEN fetched.wu137 ELSE fetched.wu144

\* No run is older than its creation, and none is created in the future.
Timely ==
    \A w \in Schedules, k \in Slots :
        /\ There(run[w][k]) => run[w][k].at <= now
        /\ run[w][k].pc \in InProgress => run[w][k].at <= run[w][k].began

\* A run judged, since it was created, what had matured then.
HasJudged(r, limit) == \E t \in Int : r.at <= t /\ t <= limit /\ r.judged = Matured("wu137", t)

\* A WU144 run ends well by its observation only.
Observers ==
    \A k \in Slots :
        /\ run["wu144"][k].pc \notin {"overlap", "skip", "fetch", "checks"}
        /\ run["wu144"][k].pc = "success" => HasJudged(run["wu144"][k], now)

\* A history that was fetched misses only runs created since, and what it
\* lists as a success is one.
Kept ==
    fetched.at # -1 =>
        /\ \A w \in Schedules, k \in Slots :
              There(run[w][k]) /\ run[w][k].at < fetched.at =>
                  \E r \in History(w) : r.at = run[w][k].at
        /\ \A r \in fetched.wu144 : r.ended = "success" =>
              \E k \in Slots : run["wu144"][k].pc = "success" /\ run["wu144"][k].at = r.at

\* A missed opportunity has matured, and no run was created in its window
\* before that.
Closed(w, k) ==
    /\ Maturity(w, k) <= now
    /\ \A j \in Slots :
          There(run[w][j]) /\ Nominal(w, k) <= run[w][j].at /\ run[w][j].at <= Deadline(w, k)
              => run[w][j].at >= Maturity(w, k)
Final == \A w \in Schedules, k \in Slots : <<w, k>> \in missed => Closed(w, k)

Verdicts == Timely /\ Observers /\ Kept /\ Final

\* What one step does to a run of a schedule.
Onward(w, r, s) ==
    /\ There(r) => There(s) /\ s.at = r.at
    /\ ~There(r) /\ There(s) => s.at = now
    /\ s.pc \in InProgress => \/ r.pc \in InProgress /\ s.began = r.began
                              \/ r.pc = "queued" /\ s.began = now
    /\ s.pc = "success" /\ w = "wu144" =>
          \/ r.pc = "success" /\ s.judged = r.judged
          \/ r.pc = "list" /\ \E t \in r.began..now : s.judged = Matured("wu137", t)
          \/ r.pc \in {"overlap", "skip", "fetch", "checks"}
    /\ s.pc \in {"overlap", "skip", "fetch", "checks"} /\ w = "wu144" =>
          r.pc \in {"overlap", "skip", "fetch", "checks"}
    /\ r.pc = "success" => s.pc = "success" /\ s.judged = r.judged

LEMMA StaysOnward ==
  ASSUME NEW w, NEW r PROVE Onward(w, r, r)
  BY DEF Onward

\* A run in progress ends.
LEMMA EndsOnward ==
  ASSUME NEW w, NEW r, NEW t, NEW c \in Ended, r.pc \in InProgress,
         t.at = r.at,
         c = "success" /\ w = "wu144" =>
            \/ r.pc = "list" /\ \E u \in r.began..now : t.judged = Matured("wu137", u)
            \/ r.pc \in {"overlap", "skip", "fetch", "checks"}
  PROVE  Onward(w, r, Over(t, c))
<1>1. /\ Over(t, c).pc = c /\ Over(t, c).at = t.at /\ Over(t, c).judged = t.judged
  BY DEF Over, NoRun
<1>2. c \notin InProgress /\ c \notin {"none", "overlap", "skip", "fetch", "checks"}
  BY DEF Ended, InProgress
<1>3. r.pc # "none" /\ r.pc # "success"
  BY DEF InProgress
<1> HIDE DEF InProgress
<1> QED  BY <1>1, <1>2, <1>3 DEF Onward, There

\* A run goes on, or starts.
LEMMA GoesOnward ==
  ASSUME NEW w, NEW r, NEW s, s.at = r.at,
         s.pc \in InProgress,
         \/ r.pc \in InProgress /\ s.began = r.began
         \/ r.pc = "queued" /\ s.began = now,
         s.pc \in {"overlap", "skip", "fetch", "checks"} /\ w = "wu144" =>
            r.pc \in {"overlap", "skip", "fetch", "checks"}
  PROVE  Onward(w, r, s)
<1>1. r.pc # "none" /\ r.pc # "success" /\ s.pc # "none" /\ s.pc # "success"
  BY DEF InProgress
<1> HIDE DEF InProgress
<1> QED  BY <1>1 DEF Onward, There

LEMMA RunsGoOnward ==
  ASSUME Inductive, [Next]_vars, NEW w \in Schedules, NEW k \in Slots
  PROVE  Onward(w, run[w][k], run'[w][k])
<1>0. w \in Workflows /\ k \in Keys(w)
  BY DEF Workflows, Schedules, Keys
<1>1. run[w][k] \in Runs
  BY <1>0, RunTyped
<1> SUFFICES ASSUME run'[w][k] # run[w][k] PROVE Onward(w, run[w][k], run'[w][k])
  BY StaysOnward, Zenon
<1>2. ASSUME NEW v \in Schedules, NEW j \in Slots, Deliver(v, j) PROVE Onward(w, run[w][k], run'[w][k])
  <2>1. v \in Workflows /\ j \in Keys(v)
    BY DEF Workflows, Schedules, Keys
  <2>2. v = w /\ j = k /\ run'[w][k] = Created
    BY <1>0, <1>2, <2>1, OtherRunsStay DEF Deliver
  <2>3. run[w][k].pc = "none"
    BY <1>2, <2>2 DEF Deliver
  <2>4. Created.pc = "queued" /\ Created.at = now
    BY DEF Created, NoRun
  <2> QED  BY <2>2, <2>3, <2>4 DEF Onward, There, InProgress
<1>3. ASSUME NEW j \in Keys("wu149"), Dispatch(j) PROVE FALSE
  <2>1. w # "wu149"
    BY DEF Schedules
  <2> QED  BY <1>0, <1>3, <2>1, RunsOfInvariant DEF Dispatch
<1>4. ASSUME NEW v \in Workflows, NEW j \in Keys(v), RunStep(v, j) PROVE Onward(w, run[w][k], run'[w][k])
  <2>1. CASE Start(v, j)
    <3>1. PICK pc : pc = CASE v = "wu137" -> "overlap" [] v = "wu144" -> "list" [] OTHER -> "fetch"
      OBVIOUS
    <3>2. run' = [run EXCEPT ![v][j] = [run[v][j] EXCEPT !.began = now, !.pc = pc]]
      BY <2>1, <3>1 DEF Start
    <3>3. v = w /\ j = k /\ run'[w][k] = [run[v][j] EXCEPT !.began = now, !.pc = pc]
      BY <1>0, <3>2, OtherRunsStay
    <3>4. run[w][k].pc = "queued"
      BY <2>1, <3>3 DEF Start
    <3>5. run'[w][k].pc = pc /\ run'[w][k].began = now /\ run'[w][k].at = run[w][k].at
      BY <1>1, <3>3 DEF Runs
    <3>6. pc \in InProgress /\ (w = "wu144" => pc = "list")
      BY <3>1, <3>3 DEF InProgress
    <3> QED  BY <3>4, <3>5, <3>6, GoesOnward
  <2>2. CASE Fetch(v, j)
    <3>1. PICK seen : seen = off \cup (IF run[v][j].sha # Tip THEN {"main"} ELSE {})
      OBVIOUS
    <3>2. run' = [run EXCEPT ![v][j] = [run[v][j] EXCEPT !.pc = "checks", !.seen = seen]]
      BY <2>2, <3>1 DEF Fetch
    <3>3. v = w /\ j = k /\ run'[w][k] = [run[v][j] EXCEPT !.pc = "checks", !.seen = seen]
      BY <1>0, <3>2, OtherRunsStay
    <3>4. run[w][k].pc = "fetch"
      BY <2>2, <3>3 DEF Fetch
    <3>5. /\ run'[w][k].pc = "checks" /\ run'[w][k].began = run[w][k].began
          /\ run'[w][k].at = run[w][k].at
      BY <1>1, <3>3 DEF Runs
    <3> QED  BY <3>4, <3>5, GoesOnward DEF InProgress
  <2>3. CASE Evaluate(v, j)
    <3>1. PICK c \in Ended : run' = [run EXCEPT ![v][j] = Over(run[v][j], c)]
      BY <2>3 DEF Evaluate, Ended
    <3>2. v = w /\ j = k /\ run'[w][k] = Over(run[w][k], c)
      BY <1>0, <3>1, OtherRunsStay
    <3>3. run[w][k].pc = "checks"
      BY <2>3, <3>2 DEF Evaluate
    <3> QED  BY <3>2, <3>3, EndsOnward DEF InProgress
  <2>4. CASE LoseRunner(v, j)
    <3>1. v = w /\ j = k /\ run'[w][k] = Over(run[w][k], "cancelled")
      BY <1>0, <2>4, OtherRunsStay DEF LoseRunner
    <3>2. run[w][k].pc \in InProgress /\ "cancelled" \in Ended
      BY <2>4, <3>1 DEF LoseRunner, Ended
    <3> QED  BY <3>1, <3>2, EndsOnward
  <2> QED  BY <1>4, <2>1, <2>2, <2>3, <2>4 DEF RunStep
<1>5. ASSUME NEW j \in Slots, SkipOverlap(j) PROVE Onward(w, run[w][k], run'[w][k])
  <2>1. "wu137" \in Workflows /\ j \in Keys("wu137")
    BY DEF Workflows, Schedules, Keys
  <2>2. PICK other, pc :
          /\ pc \in {"fetch", "skip"}
          /\ run' = [run EXCEPT !["wu137"][j] = [run["wu137"][j] EXCEPT !.gaveWay = other, !.pc = pc]]
    BY <1>5 DEF SkipOverlap
  <2>3. w = "wu137" /\ j = k /\ run'[w][k] = [run[w][k] EXCEPT !.gaveWay = other, !.pc = pc]
    <3>1. PICK r : r = [run["wu137"][j] EXCEPT !.gaveWay = other, !.pc = pc]
      OBVIOUS
    <3>2. run' = [run EXCEPT !["wu137"][j] = r]
      BY <2>2, <3>1
    <3>3. w = "wu137" /\ j = k /\ run'[w][k] = r
      BY <1>0, <2>1, <3>2, OtherRunsStay
    <3> QED  BY <3>1, <3>3
  <2>4. run[w][k].pc = "overlap"
    BY <1>5, <2>3 DEF SkipOverlap
  <2>5. run'[w][k].pc = pc /\ run'[w][k].began = run[w][k].began /\ run'[w][k].at = run[w][k].at
    BY <1>1, <2>3 DEF Runs
  <2> QED  BY <2>2, <2>3, <2>4, <2>5, GoesOnward DEF InProgress
<1>6. ASSUME NEW j \in Slots, EndSkipped(j) PROVE Onward(w, run[w][k], run'[w][k])
  <2>1. "wu137" \in Workflows /\ j \in Keys("wu137")
    BY DEF Workflows, Schedules, Keys
  <2>2. w = "wu137" /\ j = k /\ run'[w][k] = Over(run[w][k], "success")
    BY <1>0, <1>6, <2>1, OtherRunsStay DEF EndSkipped
  <2>3. run[w][k].pc = "skip"
    BY <1>6, <2>2 DEF EndSkipped
  <2> QED  BY <2>2, <2>3, EndsOnward DEF InProgress, Ended
<1>7. ASSUME NEW j \in Slots, Observe(j) PROVE Onward(w, run[w][k], run'[w][k])
  <2>1. "wu144" \in Workflows /\ j \in Keys("wu144")
    BY DEF Workflows, Schedules, Keys
  <2>2. PICK u \in run["wu144"][j].began..now :
          \/ run' = [run EXCEPT !["wu144"][j] = Over(run["wu144"][j], "failure")]
          \/ run' = [run EXCEPT !["wu144"][j] =
                Over([run["wu144"][j] EXCEPT !.judged = Matured("wu137", u)], "success")]
    BY <1>7, ObservedAt
  <2>3. PICK r :
          /\ \/ r = Over(run["wu144"][j], "failure")
             \/ r = Over([run["wu144"][j] EXCEPT !.judged = Matured("wu137", u)], "success")
          /\ run' = [run EXCEPT !["wu144"][j] = r]
    BY <2>2
  <2>4. w = "wu144" /\ j = k /\ run'[w][k] = r
    BY <1>0, <2>1, <2>3, OtherRunsStay
  <2>5. run[w][k].pc = "list"
    BY <1>7, <2>4 DEF Observe
  <2>6. PICK t : t = [run[w][k] EXCEPT !.judged = Matured("wu137", u)]
    OBVIOUS
  <2>7. t.at = run[w][k].at /\ t.judged = Matured("wu137", u)
    BY <1>1, <2>6 DEF Runs
  <2>8. Onward(w, run[w][k], Over(run[w][k], "failure"))
    BY <2>5, EndsOnward DEF InProgress, Ended
  <2>9. Onward(w, run[w][k], Over(t, "success"))
    <3>1. u \in run[w][k].began..now
      BY <2>2, <2>4
    <3> QED  BY <2>5, <2>7, <3>1, EndsOnward DEF InProgress, Ended
  <2> QED  BY <2>4, <2>6, <2>8, <2>9, <2>3
<1>8. ASSUME RestoreOutside PROVE Onward(w, run[w][k], run'[w][k])
  <2>1. run'[w][k] = [run[w][k] EXCEPT !.always = @ \cap {"updated"}]
    BY <1>0, <1>8 DEF RestoreOutside
  <2>2. /\ run'[w][k].pc = run[w][k].pc /\ run'[w][k].at = run[w][k].at
        /\ run'[w][k].began = run[w][k].began /\ run'[w][k].judged = run[w][k].judged
    BY <1>1, <2>1 DEF Runs
  <2> QED  BY <2>2 DEF Onward, There
<1>9. ASSUME UNCHANGED run PROVE FALSE
  BY <1>9
<1> QED
  <2>1. CASE FetchHistories \/ Qualify \/ Correlate
    BY <1>9, <2>1 DEF FetchHistories, Qualify, Correlate
  <2>2. CASE Tick \/ Commit \/ EndChecks \/ ChangeOutside
    BY <1>9, <2>2 DEF Tick, Commit, EndChecks, ChangeOutside
  <2>3. CASE UNCHANGED vars
    BY <1>9, <2>3 DEF vars
  <2> QED  BY <1>2, <1>3, <1>4, <1>5, <1>6, <1>7, <1>8, <2>1, <2>2, <2>3 DEF Next

LEMMA Times ==
  ASSUME NEW w \in Schedules, NEW k \in Slots
  PROVE  /\ k \in Nat /\ Nominal(w, k) \in Int /\ Deadline(w, k) \in Int /\ Maturity(w, k) \in Int
         /\ Maturity(w, k) <= Deadline(w, k)
<1>1. Cadence \in Nat /\ Lag[w] \in Nat /\ Cron[w] \in Nat
  BY ConstantsAssumption
<1>2. k \in Nat
  BY Horizon DEF Slots
<1>3. Cadence * k \in Nat /\ Cadence * (k + 1) \in Nat
  BY <1>1, <1>2
<1>4. Nominal(w, k) \in Int /\ Deadline(w, k) \in Int
  BY <1>1, <1>3 DEF Nominal, Deadline
<1> QED  BY <1>2, <1>3, <1>4 DEF Maturity

LEMMA TimeGoesOn ==
  ASSUME Inductive, [Next]_vars
  PROVE  now' \in Nat /\ now' >= now
<1>1. now \in Nat
  BY NowIsNatural
<1>2. Inductive'
  BY StepPreserves
<1>3. now' \in Nat
  BY <1>2, Horizon DEF Inductive, Instants
<1>4. Tick \/ UNCHANGED now
  <2>1. \A w \in Workflows : \A k \in Keys(w) : RunStep(w, k) => UNCHANGED now
    BY Zenon DEF RunStep, Start, Fetch, Evaluate, LoseRunner
  <2>2. \A w \in Schedules, k \in Slots : Deliver(w, k) => UNCHANGED now
    BY Zenon DEF Deliver
  <2>3. \A k \in Keys("wu149") : Dispatch(k) => UNCHANGED now
    BY Zenon DEF Dispatch
  <2>4. \A k \in Slots : SkipOverlap(k) \/ EndSkipped(k) \/ Observe(k) => UNCHANGED now
    BY Zenon DEF SkipOverlap, EndSkipped, Observe
  <2>5. FetchHistories \/ Qualify \/ Correlate => UNCHANGED now
    BY Zenon DEF FetchHistories, Qualify, Correlate
  <2>6. Commit \/ EndChecks \/ ChangeOutside \/ RestoreOutside => UNCHANGED now
    BY Zenon DEF Commit, EndChecks, ChangeOutside, RestoreOutside
  <2>7. UNCHANGED vars => UNCHANGED now
    BY Zenon DEF vars
  <2> QED  BY <2>1, <2>2, <2>3, <2>4, <2>5, <2>6, <2>7, Zenon DEF Next
<1>5. Tick => now' = now + 1
  BY DEF Tick
<1> QED  BY <1>1, <1>3, <1>4, <1>5

LEMMA TimelyKept ==
  ASSUME Inductive, Timely, [Next]_vars
  PROVE  Timely'
<1> SUFFICES ASSUME NEW w \in Schedules, NEW k \in Slots
             PROVE  /\ There(run'[w][k]) => run'[w][k].at <= now'
                    /\ run'[w][k].pc \in InProgress => run'[w][k].at <= run'[w][k].began
  BY DEF Timely
<1>1. PICK r, s : r = run[w][k] /\ s = run'[w][k]
  OBVIOUS
<1>2. Onward(w, r, s)
  BY <1>1, RunsGoOnward
<1>3. r.at \in Nat /\ now \in Nat /\ now' \in Nat /\ now' >= now
  <2>1. w \in Workflows /\ k \in Keys(w)
    BY DEF Workflows, Schedules, Keys
  <2> QED  BY <1>1, <2>1, RunTyped, TimeGoesOn, NowIsNatural DEF Runs
<1>4. (There(r) => r.at <= now) /\ (r.pc \in InProgress => r.at <= r.began)
  BY <1>1 DEF Timely
<1>5. r.pc \in InProgress \/ r.pc = "queued" => There(r)
  BY DEF There, InProgress
<1>6. There(s) => s.at <= now'
  BY <1>2, <1>3, <1>4 DEF Onward
<1>7. s.pc \in InProgress => s.at <= s.began
  BY <1>2, <1>3, <1>4, <1>5 DEF Onward
<1> QED  BY <1>1, <1>6, <1>7

LEMMA ObserversKept ==
  ASSUME Inductive, Timely, Observers, [Next]_vars
  PROVE  Observers'
<1> DEFINE Own == {"overlap", "skip", "fetch", "checks"}
<1> SUFFICES ASSUME NEW k \in Slots
             PROVE  /\ run'["wu144"][k].pc \notin Own
                    /\ run'["wu144"][k].pc = "success" => HasJudged(run'["wu144"][k], now')
  BY DEF Observers, HasJudged, Matured, Maturity, Slots, Deadline, Nominal
<1>0. "wu144" \in Schedules /\ "wu137" \in Schedules /\ "wu144" \in Workflows /\ k \in Keys("wu144")
  BY DEF Schedules, Workflows, Keys
<1>1. PICK r, s : r = run["wu144"][k] /\ s = run'["wu144"][k]
  OBVIOUS
<1>2. Onward("wu144", r, s)
  BY <1>0, <1>1, RunsGoOnward
<1>3. r.at \in Nat /\ r.began \in Nat /\ (r.pc = "list" => r.at <= r.began)
  BY <1>0, <1>1, RunTyped DEF Runs, Timely, InProgress
<1>4. r.pc \notin Own /\ (r.pc = "success" => HasJudged(r, now))
  BY <1>1 DEF Observers
<1>5. s.pc \notin Own
  BY <1>2, <1>4 DEF Onward
<1>6. now \in Nat /\ now' \in Nat /\ now <= now'
  BY TimeGoesOn, NowIsNatural
<1>7. ASSUME s.pc = "success" PROVE HasJudged(s, now')
  <2>1. CASE r.pc = "success" /\ s.judged = r.judged
    <3>1. s.at = r.at
      BY <1>2, <2>1 DEF Onward, There
    <3>2. PICK t \in Int : r.at <= t /\ t <= now /\ r.judged = Matured("wu137", t)
      BY <1>4, <2>1 DEF HasJudged
    <3>3. t <= now'
      BY <1>6, <3>2
    <3> QED  BY <2>1, <3>1, <3>2, <3>3 DEF HasJudged
  <2>2. CASE r.pc = "list" /\ \E t \in r.began..now : s.judged = Matured("wu137", t)
    <3>1. s.at = r.at
      BY <1>2, <2>2 DEF Onward, There
    <3>2. PICK t \in r.began..now : s.judged = Matured("wu137", t)
      BY <2>2
    <3>3. t \in Int /\ s.at <= t /\ t <= now'
      BY <1>3, <1>6, <2>2, <3>1, <3>2
    <3> QED  BY <3>2, <3>3 DEF HasJudged
  <2> QED  BY <1>2, <1>4, <1>7, <2>1, <2>2 DEF Onward
<1> QED  BY <1>1, <1>5, <1>7

\* What a listing shows, and of which runs.
LEMMA Listing ==
  ASSUME NEW w \in Schedules
  PROVE  /\ \A k \in Slots : There(run[w][k]) => \E r \in Listed(w) : r.at = run[w][k].at
         /\ \A r \in Listed(w) : r.ended = "success" =>
               \E k \in Slots : run[w][k].pc = "success" /\ run[w][k].at = r.at
<1> DEFINE Entry(k) == [at |-> run[w][k].at,
                        ended |-> IF run[w][k].pc \in Ended THEN run[w][k].pc ELSE "not"]
<1>1. Listed(w) = {Entry(k) : k \in {j \in Slots : run[w][j].pc # "none"}}
  BY DEF Listed, Keys, Schedules
<1>2. \A k \in Slots : Entry(k).at = run[w][k].at /\ (Entry(k).ended = "success" => run[w][k].pc = "success")
  OBVIOUS
<1> HIDE DEF Entry
<1> QED  BY <1>1, <1>2 DEF There

LEMMA KeptKept ==
  ASSUME Inductive, Timely, Kept, [Next]_vars
  PROVE  Kept'
<1>1. fetched' = fetched \/ fetched' = NoHistory \/ FetchHistories
  <2>1. \A w \in Workflows : \A k \in Keys(w) : RunStep(w, k) => fetched' = fetched
    BY Zenon DEF RunStep, Start, Fetch, Evaluate, LoseRunner
  <2>2. \A w \in Schedules, k \in Slots : Deliver(w, k) => fetched' = fetched
    BY Zenon DEF Deliver
  <2>3. \A k \in Keys("wu149") : Dispatch(k) => fetched' = fetched
    BY Zenon DEF Dispatch
  <2>4. \A k \in Slots : SkipOverlap(k) \/ EndSkipped(k) \/ Observe(k) => fetched' = fetched
    BY Zenon DEF SkipOverlap, EndSkipped, Observe
  <2>5. Qualify \/ Correlate => fetched' = fetched \/ fetched' = NoHistory
    BY Zenon DEF Qualify, Correlate
  <2>6. Commit \/ EndChecks \/ ChangeOutside \/ RestoreOutside => fetched' = fetched
    BY Zenon DEF Commit, EndChecks, ChangeOutside, RestoreOutside
  <2>7. UNCHANGED vars => fetched' = fetched
    BY Zenon DEF vars
  <2>8. Tick => fetched' = fetched \/ fetched' = NoHistory
    BY DEF Tick
  <2> QED  BY <2>1, <2>2, <2>3, <2>4, <2>5, <2>6, <2>7, <2>8, Zenon DEF Next
<1>2. CASE fetched' = NoHistory
  BY <1>2 DEF NoHistory, Kept
<1>3. CASE FetchHistories
  <2>1. /\ fetched'.at = now /\ fetched'.wu137 = Listed("wu137") /\ fetched'.wu144 = Listed("wu144")
        /\ run' = run
    BY <1>3 DEF FetchHistories
  <2>2. ASSUME NEW w \in Schedules, NEW k \in Slots, There(run'[w][k])
        PROVE  \E r \in History(w)' : r.at = run'[w][k].at
    <3>1. History(w)' = Listed(w)
      BY <2>1 DEF History, Schedules
    <3>2. \E r \in Listed(w) : r.at = run[w][k].at
      BY <2>1, <2>2, Listing
    <3> QED  BY <2>1, <3>1, <3>2
  <2>3. \A r \in fetched'.wu144 : r.ended = "success" =>
           \E k \in Slots : run'["wu144"][k].pc = "success" /\ run'["wu144"][k].at = r.at
    BY <2>1, Listing DEF Schedules
  <2> QED  BY <2>2, <2>3 DEF Kept, Slots
<1>4. CASE fetched' = fetched
  <2> SUFFICES ASSUME fetched.at # -1
               PROVE  /\ \A w \in Schedules, k \in Slots :
                           There(run'[w][k]) /\ run'[w][k].at < fetched.at =>
                             \E r \in History(w) : r.at = run'[w][k].at
                      /\ \A r \in fetched.wu144 : r.ended = "success" =>
                           \E k \in Slots : run'["wu144"][k].pc = "success" /\ run'["wu144"][k].at = r.at
    BY <1>4 DEF Kept, History, Slots
  <2>1. ASSUME NEW w \in Schedules, NEW k \in Slots, There(run'[w][k]), run'[w][k].at < fetched.at
        PROVE  \E r \in History(w) : r.at = run'[w][k].at
    <3>1. Onward(w, run[w][k], run'[w][k])
      BY RunsGoOnward
    <3>2. fetched.at \in Int /\ fetched.at <= now /\ now \in Nat
      BY NowIsNatural DEF Inductive
    <3>3. There(run[w][k]) /\ run'[w][k].at = run[w][k].at
      BY <2>1, <3>1, <3>2 DEF Onward
    <3> QED  BY <2>1, <3>3 DEF Kept
  <2>2. ASSUME NEW r \in fetched.wu144, r.ended = "success"
        PROVE  \E k \in Slots : run'["wu144"][k].pc = "success" /\ run'["wu144"][k].at = r.at
    <3>1. PICK k \in Slots : run["wu144"][k].pc = "success" /\ run["wu144"][k].at = r.at
      BY <2>2 DEF Kept
    <3>2. Onward("wu144", run["wu144"][k], run'["wu144"][k])
      BY RunsGoOnward DEF Schedules
    <3> QED  BY <3>1, <3>2 DEF Onward, There
  <2> QED  BY <2>1, <2>2
<1> QED  BY <1>1, <1>2, <1>3, <1>4

LEMMA ClosedStays ==
  ASSUME Inductive, [Next]_vars, NEW w \in Schedules, NEW k \in Slots, Closed(w, k)
  PROVE  Closed(w, k)'
<1>1. Maturity(w, k) \in Int /\ now \in Nat /\ now' \in Nat /\ now <= now'
  BY Times, TimeGoesOn, NowIsNatural
<1>2. ASSUME NEW j \in Slots, There(run'[w][j]), Nominal(w, k) <= run'[w][j].at,
             run'[w][j].at <= Deadline(w, k)
      PROVE  run'[w][j].at >= Maturity(w, k)
  <2>1. Onward(w, run[w][j], run'[w][j])
    BY RunsGoOnward
  <2>2. CASE There(run[w][j])
    BY <1>2, <2>1, <2>2 DEF Onward, Closed
  <2>3. CASE ~There(run[w][j])
    BY <1>1, <1>2, <2>1, <2>3 DEF Onward, Closed
  <2> QED  BY <2>2, <2>3
<1>3. Maturity(w, k) <= now'
  BY <1>1 DEF Closed
<1> QED  BY <1>2, <1>3 DEF Closed, Slots, Maturity, Deadline, Nominal

\* An opportunity that had matured at t and that no run served which was
\* created before then.
LEMMA MissCloses ==
  ASSUME Inductive, NEW w \in Schedules, NEW k \in Slots, NEW t \in Int, t <= now, NEW h,
         \A j \in Slots : There(run[w][j]) /\ run[w][j].at < t => \E r \in h : r.at = run[w][j].at,
         <<w, k>> \in Misses(w, h, t)
  PROVE  Closed(w, k)
<1>1. k \in Matured(w, t) /\ Window(w, k, h) = {}
  BY DEF Misses, Unserved
<1>2. Maturity(w, k) <= t
  BY <1>1 DEF Matured
<1>3. Maturity(w, k) \in Int /\ now \in Nat
  BY Times, NowIsNatural
<1>4. ASSUME NEW j \in Slots, There(run[w][j]), Nominal(w, k) <= run[w][j].at,
             run[w][j].at <= Deadline(w, k)
      PROVE  run[w][j].at >= Maturity(w, k)
  <2>1. run[w][j].at \in Nat
    <3>1. w \in Workflows /\ j \in Keys(w)
      BY DEF Workflows, Schedules, Keys
    <3> QED  BY <3>1, RunTyped DEF Runs
  <2>2. ~(run[w][j].at < t)
    BY <1>1, <1>4 DEF Window
  <2> QED  BY <1>2, <1>3, <2>1, <2>2
<1>5. Maturity(w, k) <= now
  BY <1>2, <1>3
<1> QED  BY <1>4, <1>5 DEF Closed

\* Every miss of this step is of a window that has closed.
LEMMA NewMissesClosed ==
  ASSUME Inductive, Timely, Kept, [Next]_vars,
         NEW w \in Schedules, NEW k \in Slots, <<w, k>> \in missed', <<w, k>> \notin missed
  PROVE  Closed(w, k)
<1>1. ASSUME NEW j \in Slots, Observe(j) PROVE Closed(w, k)
  <2>1. PICK t \in run["wu144"][j].began..now :
          missed' = missed \/ missed' = missed \cup Misses("wu137", Listed("wu137"), t)
    BY <1>1, ObservedAt
  <2>2. <<w, k>> \in Misses("wu137", Listed("wu137"), t)
    BY <2>1
  <2>3. w = "wu137"
    BY <2>2 DEF Misses
  <2>4. t \in Int /\ t <= now
    <3>1. "wu144" \in Workflows /\ j \in Keys("wu144")
      BY DEF Workflows, Schedules, Keys
    <3>2. run["wu144"][j].began \in Nat /\ now \in Nat
      BY <3>1, RunTyped, NowIsNatural DEF Runs
    <3> QED  BY <2>1, <3>2
  <2>5. \A i \in Slots : There(run[w][i]) => \E r \in Listed("wu137") : r.at = run[w][i].at
    BY <2>3, Listing
  <2> QED  BY <2>2, <2>3, <2>4, <2>5, MissCloses
<1>2. ASSUME Qualify PROVE Closed(w, k)
  <2>1. PICK t, h : t = fetched.at /\ h = History(w)
    OBVIOUS
  <2>2. fetched.at # -1 /\ <<w, k>> \in Misses("wu144", fetched.wu144, t) \cup Misses("wu137", fetched.wu137, t)
    BY <1>2, <2>1 DEF Qualify
  <2>3. <<w, k>> \in Misses(w, h, t)
    BY <2>1, <2>2 DEF Misses, History
  <2>4. t \in Int /\ t <= now
    BY <2>1, <2>2, NowIsNatural DEF Inductive
  <2>5. \A i \in Slots : There(run[w][i]) /\ run[w][i].at < t => \E r \in h : r.at = run[w][i].at
    BY <2>1, <2>2 DEF Kept
  <2> QED  BY <2>3, <2>4, <2>5, MissCloses
<1>3. ASSUME Correlate PROVE Closed(w, k)
  <2>1. w = "wu144" /\ k = 0
    BY <1>3 DEF Correlate
  <2>2. ~(now < Deadline("wu144", 0)) /\ Window("wu144", 0, Listed("wu144")) = {}
    BY <1>3 DEF Correlate, Correlation
  <2>3. now \in Nat /\ Maturity(w, k) \in Int /\ Deadline(w, k) \in Int /\ Maturity(w, k) <= Deadline(w, k)
    BY NowIsNatural, Times
  <2>4. ASSUME NEW j \in Slots, There(run[w][j]), Nominal(w, k) <= run[w][j].at,
               run[w][j].at <= Deadline(w, k)
        PROVE  FALSE
    BY <2>1, <2>2, <2>4, Listing DEF Window
  <2> QED  BY <2>1, <2>2, <2>3, <2>4 DEF Closed
<1>4. \/ \E j \in Slots : Observe(j)
      \/ Qualify \/ Correlate
  <2> SUFFICES ASSUME missed' # missed PROVE \/ \E j \in Slots : Observe(j)
                                            \/ Qualify \/ Correlate
    OBVIOUS
  <2>1. \A v \in Workflows : \A j \in Keys(v) : RunStep(v, j) => missed' = missed
    BY Zenon DEF RunStep, Start, Fetch, Evaluate, LoseRunner
  <2>2. \A v \in Schedules, j \in Slots : Deliver(v, j) => missed' = missed
    BY Zenon DEF Deliver
  <2>3. \A j \in Keys("wu149") : Dispatch(j) => missed' = missed
    BY Zenon DEF Dispatch
  <2>4. \A j \in Slots : SkipOverlap(j) \/ EndSkipped(j) => missed' = missed
    BY Zenon DEF SkipOverlap, EndSkipped
  <2>5. Tick \/ FetchHistories \/ Commit \/ EndChecks \/ ChangeOutside \/ RestoreOutside => missed' = missed
    BY Zenon DEF Tick, FetchHistories, Commit, EndChecks, ChangeOutside, RestoreOutside
  <2>6. UNCHANGED vars => missed' = missed
    BY Zenon DEF vars
  <2> QED  BY <2>1, <2>2, <2>3, <2>4, <2>5, <2>6, Zenon DEF Next
<1> QED  BY <1>1, <1>2, <1>3, <1>4

LEMMA FinalKept ==
  ASSUME Inductive, Timely, Kept, Final, [Next]_vars
  PROVE  Final'
<1>1. ASSUME NEW w \in Schedules, NEW k \in Slots, <<w, k>> \in missed' PROVE Closed(w, k)'
  <2>1. Closed(w, k)
    BY <1>1, NewMissesClosed DEF Final
  <2> QED  BY <2>1, ClosedStays
<1> QED  BY <1>1 DEF Final, Slots

LEMMA VerdictsHold == Spec => [](Inductive /\ Verdicts)
<1>1. ASSUME Init PROVE Verdicts
  <2>1. \A w \in Schedules, k \in Slots : run[w][k] = NoRun
    BY <1>1 DEF Init, Workflows, Schedules, Keys
  <2>2. NoRun.pc = "none" /\ fetched.at = -1 /\ missed = {}
    BY <1>1 DEF Init, NoRun, NoHistory
  <2>3. Timely
    BY <2>1, <2>2 DEF Timely, There, InProgress
  <2>4. Observers
    BY <2>1, <2>2 DEF Observers, Schedules
  <2> QED  BY <2>2, <2>3, <2>4 DEF Verdicts, Kept, Final
<1>2. ASSUME Inductive, Verdicts, [Next]_vars PROVE Verdicts'
  BY <1>2, TimelyKept, ObserversKept, KeptKept, FinalKept DEF Verdicts
<1> QED  BY <1>1, <1>2, InitEstablishes, StepPreserves, PTL DEF Spec

\* An opportunity that WU144, WU145 or WU146 called missed is found to have been
\* served only by a run created since it had matured: whatever is delivered
\* late, slowly or while a history is being judged.
THEOREM MissesAreRevisedByLateRunsOnly == Spec => []OnlyLateRunsReviseMisses
<1>1. ASSUME Inductive, Verdicts PROVE OnlyLateRunsReviseMisses
  <2> SUFFICES ASSUME NEW w \in Schedules, NEW k \in Slots, <<w, k>> \in missed,
                      NEW r \in Window(w, k, Listed(w))
               PROVE  r.at >= Maturity(w, k)
    BY DEF OnlyLateRunsReviseMisses
  <2>1. Nominal(w, k) <= r.at /\ r.at <= Deadline(w, k) /\ r \in Listed(w)
    BY DEF Window
  <2>2. PICK j \in Slots : There(run[w][j]) /\ r.at = run[w][j].at
    BY <2>1 DEF Listed, Keys, Schedules, There
  <2> QED  BY <1>1, <2>1, <2>2 DEF Verdicts, Final, Closed
<1> QED  BY <1>1, VerdictsHold, PTL

---------------------------------------------------------------------------
\* The observer.

\* Deadlines and maturities come in the order of the opportunities.
LEMMA Later ==
  ASSUME NEW w \in Schedules, NEW j \in Slots, NEW k \in Slots, j <= k
  PROVE  Deadline(w, j) <= Deadline(w, k) /\ Maturity(w, j) <= Maturity(w, k)
<1>1. Cadence \in Nat /\ Lag[w] \in Nat /\ Cron[w] \in Nat /\ j \in Nat /\ k \in Nat
  BY ConstantsAssumption, Horizon DEF Slots
<1>2. Cadence * j <= Cadence * k
  <2>1. PICK d \in Nat : k = j + d
    <3>1. k - j \in Nat /\ k = j + (k - j)
      BY <1>1
    <3> QED  BY <3>1
  <2>2. Cadence * k = Cadence * j + Cadence * d /\ Cadence * d \in Nat /\ Cadence * j \in Nat
    BY <1>1, <2>1
  <2> QED  BY <2>2
<1>3. PICK a, b : a = Cadence * j /\ b = Cadence * k
  OBVIOUS
<1>4. a \in Nat /\ b \in Nat /\ a <= b /\ Cadence * (j + 1) = a + Cadence /\ Cadence * (k + 1) = b + Cadence
  BY <1>1, <1>2, <1>3
<1>5. /\ Deadline(w, j) = a + Cron[w] + Lag[w] /\ Deadline(w, k) = b + Cron[w] + Lag[w]
  BY <1>3 DEF Deadline, Nominal
<1>6. Deadline(w, j) <= Deadline(w, k)
  BY <1>1, <1>4, <1>5
<1> QED  BY <1>1, <1>4, <1>5, <1>6 DEF Maturity

LEMMA MaturedUpToNewest ==
  ASSUME NEW w \in Schedules, NEW t \in Int, NEW k \in Slots, Maturity(w, k) <= t,
         \A j \in Slots : Maturity(w, j) <= t => j <= k
  PROVE  Newest(w, t) = k
<1>1. {j \in Slots : Maturity(w, j) <= t} = 0..k
  <2>1. ASSUME NEW j \in 0..k PROVE j \in Slots /\ Maturity(w, j) <= t
    <3>1. j \in Slots /\ j <= k
      BY Horizon DEF Slots
    <3> QED  BY <3>1, Later, Times
  <2> QED  BY <2>1, Times
<1>2. k \in Nat
  BY Times
<1>3. Cardinality(0..k) = k + 1
  BY <1>2, FS_Interval
<1>4. Newest(w, t) = Cardinality(0..k) - 1
  BY <1>1, Zenon DEF Newest
<1> QED  BY <1>2, <1>3, <1>4

\* The offset of the schedules: before a WU144 opportunity begins those of WU137
\* before it have matured, and none of WU137 matures before that of WU144.
LEMMA Offset ==
  ASSUME NEW k \in Slots
  PROVE  /\ \A j \in Slots : j < k => Maturity("wu137", j) <= Nominal("wu144", k)
         /\ Maturity("wu144", k) <= Maturity("wu137", k)
<1>1. "wu137" \in Schedules /\ "wu144" \in Schedules
  BY DEF Schedules
<1>2. /\ Cadence \in Nat /\ Lag["wu137"] \in Nat /\ Lag["wu144"] \in Nat
      /\ Cron["wu137"] \in Nat /\ Cron["wu144"] \in Nat /\ k \in Nat
      /\ Cron["wu137"] + Lag["wu137"] <= Cadence + Cron["wu144"]
      /\ Cron["wu144"] + Lag["wu144"] <= Cadence
      /\ Cron["wu144"] + Lag["wu144"] <= Cron["wu137"] + Lag["wu137"]
  BY <1>1, ConstantsAssumption, Times
<1>3. ASSUME NEW j \in Slots, j < k PROVE Maturity("wu137", j) <= Nominal("wu144", k)
  <2>1. j \in Nat /\ k - 1 \in Slots /\ j <= k - 1
    BY <1>2, <1>3, Horizon DEF Slots
  <2>2. Deadline("wu137", j) <= Deadline("wu137", k - 1) /\ Maturity("wu137", j) <= Deadline("wu137", j)
    BY <1>1, <2>1, Later, Times
  <2>3. Deadline("wu137", k - 1) <= Nominal("wu144", k)
    <3>1. Cadence * k = Cadence * (k - 1) + Cadence /\ Cadence * k \in Int /\ Cadence * (k - 1) \in Int
      BY <1>2
    <3> QED  BY <1>2, <3>1 DEF Deadline, Nominal
  <2>4. /\ Maturity("wu137", j) \in Int /\ Deadline("wu137", j) \in Int
        /\ Deadline("wu137", k - 1) \in Int /\ Nominal("wu144", k) \in Int
    BY <1>1, <2>1, Times
  <2> QED  BY <2>2, <2>3, <2>4
<1>4. Maturity("wu144", k) <= Maturity("wu137", k)
  <2>1. PICK a : a = Cadence * k
    OBVIOUS
  <2>2. a \in Nat /\ Cadence * (k + 1) = a + Cadence
    BY <1>2, <2>1
  <2>3. Deadline("wu144", k) = a + Cron["wu144"] + Lag["wu144"]
    BY <2>1 DEF Deadline, Nominal
  <2>4. Deadline("wu137", k) = a + Cron["wu137"] + Lag["wu137"]
    BY <2>1 DEF Deadline, Nominal
  <2> QED  BY <1>2, <2>2, <2>3, <2>4 DEF Maturity
<1> QED  BY <1>3, <1>4

\* There is a newest matured opportunity, if any has matured.
LEMMA NewestExists ==
  ASSUME NEW S, S \subseteq Slots, S # {}
  PROVE  \E k \in S : \A j \in S : j <= k
<1>1. Hours \in Nat /\ \A k \in Slots : k \in Nat /\ (Hours - k) \in Nat
  BY Horizon DEF Slots
<1> DEFINE T == {Hours - k : k \in S}
           less == {ss \in Nat \X Nat : ss[1] < ss[2]}
<1>2. T \subseteq Nat /\ T # {}
  BY <1>1
<1>3. IsWellFoundedOn(less, Nat)
  BY NatLessThanWellFounded DEF OpToRel
<1>4. PICK x \in T : \A y \in T : ~(<<y, x>> \in less)
  <2> HIDE DEF T, less
  <2> QED  BY <1>2, <1>3, WFMin
<1>5. \A y \in T : ~(y < x)
  BY <1>2, <1>4
<1>6. PICK k \in S : x = Hours - k
  OBVIOUS
<1>7. ASSUME NEW j \in S PROVE j <= k
  <2>1. ~(Hours - j < Hours - k)
    BY <1>5, <1>6
  <2> QED  BY <1>1, <1>7, <2>1
<1> QED  BY <1>7

\* Whenever WU145 calls the delivery of the observer healthy, a WU144 run has
\* judged the opportunities of WU137 before the observer's own newest one, as
\* far back as the rolling window reaches.
THEOREM HealthyMeansJudged == Spec => []HealthyObserverHasJudged
<1>1. ASSUME Inductive, Verdicts PROVE HealthyObserverHasJudged
  <2> SUFFICES ASSUME fetched.at # -1, Qualification(fetched, now) = "OBSERVER_DELIVERY_HEALTHY",
                      NEW n, n = Newest("wu144", now)
               PROVE  \E k \in Slots :
                         /\ run["wu144"][k].pc = "success"
                         /\ {j \in Slots : n - Rolling < j /\ j < n} \subseteq run["wu144"][k].judged
    BY DEF HealthyObserverHasJudged
  <2> DEFINE past == {k \in Slots : Maturity("wu144", k) <= now}
             o == Matured("wu144", now)
             good == Delivered("wu144", o, fetched.wu144)
  <2>1. Streak(o, 1, good)
    BY DEF Qualification
  <2>2. IsFiniteSet(Slots) /\ now \in Nat
    BY Horizon, FS_Interval, 0 \in Int, Hours - 1 \in Int, <1>1, NowIsNatural DEF Slots
  <2>3. o = {k \in past : Cardinality({j \in past : j > k}) < Rolling}
    BY DEF Matured
  <2>4. past # {}
    <3>1. CASE o = {}
      BY <2>1, <3>1, FS_EmptySet DEF Streak
    <3> QED  BY <2>3, <3>1
  <2>5. PICK k \in past : \A j \in past : j <= k
    BY <2>4, NewestExists
  <2>6. k \in Slots /\ k \in Nat /\ \A j \in past : j \in Nat
    BY Times DEF Schedules
  <2>7. {j \in past : j > k} = {} /\ {j \in o : j > k} = {}
    <3> HIDE DEF past, o
    <3>1. o \subseteq past /\ \A j \in past : ~(j > k)
      BY <2>3, <2>5, <2>6
    <3> QED  BY <3>1
  <2>8. k \in o
    BY <2>3, <2>5, <2>7, FS_EmptySet, ConstantsAssumption
  <2>9. k \in good
    <3>1. Cardinality({j \in o : j > k}) < 1
      BY <2>7, FS_EmptySet
    <3> HIDE DEF o, good
    <3> QED  BY <2>1, <2>8, <3>1 DEF Streak
  <2>10. PICK r \in Window("wu144", k, fetched.wu144) : Healthy(r)
    BY <2>9 DEF Delivered
  <2>11. Nominal("wu144", k) <= r.at /\ r \in fetched.wu144 /\ r.ended = "success"
    BY <2>10 DEF Window, Healthy
  <2>12. PICK i \in Slots : run["wu144"][i].pc = "success" /\ run["wu144"][i].at = r.at
    BY <1>1, <2>11 DEF Verdicts, Kept
  <2>13. PICK t \in Int : r.at <= t /\ t <= now /\ run["wu144"][i].judged = Matured("wu137", t)
    BY <1>1, <2>12 DEF Verdicts, Observers, HasJudged
  <2>14. r.at \in Nat
    <3>1. "wu144" \in Workflows /\ i \in Keys("wu144")
      BY DEF Workflows, Schedules, Keys
    <3>2. run["wu144"][i] \in Runs
      BY <1>1, <3>1, RunTyped
    <3> HIDE DEF past, o, good
    <3> QED  BY <2>12, <3>2 DEF Runs
  <2>15. n = k
    BY <2>2, <2>5, <2>6, MaturedUpToNewest DEF Schedules
  <2>16. ASSUME NEW j \in Slots, k - Rolling < j, j < k PROVE j \in Matured("wu137", t)
    <3> DEFINE S == {l \in Slots : Maturity("wu137", l) <= t}
    <3> HIDE DEF past, o, good
    <3>1. j \in Nat /\ Rolling \in Nat
      BY Times, ConstantsAssumption DEF Schedules
    <3>2. j \in S
      <4>1. Maturity("wu137", j) <= Nominal("wu144", k)
        BY <2>6, <2>16, Offset
      <4>2. Maturity("wu137", j) \in Int /\ Nominal("wu144", k) \in Int
        BY <2>6, Times DEF Schedules
      <4> QED  BY <2>11, <2>13, <2>14, <4>1, <4>2
    <3>3. \A l \in S : l \in Nat /\ l <= k
      <4> SUFFICES ASSUME NEW l \in Slots, Maturity("wu137", l) <= t PROVE l \in Nat /\ l <= k
        OBVIOUS
      <4>1. Maturity("wu144", l) <= Maturity("wu137", l)
        BY Offset
      <4>2. l \in Nat /\ Maturity("wu144", l) \in Int /\ Maturity("wu137", l) \in Int
        BY Times DEF Schedules
      <4>3. l \in past
        BY <2>2, <2>13, <4>1, <4>2 DEF past
      <4> QED  BY <2>5, <4>2, <4>3
    <3>4. {l \in S : l > j} \subseteq (j + 1)..k
      <4> HIDE DEF S
      <4> SUFFICES ASSUME NEW l \in S, l > j PROVE l \in (j + 1)..k
        OBVIOUS
      <4> QED  BY <2>6, <3>1, <3>3
    <3>5. IsFiniteSet((j + 1)..k) /\ Cardinality((j + 1)..k) = k - j
      BY <2>6, <2>16, <3>1, FS_Interval, j + 1 \in Int, k \in Int
    <3> HIDE DEF S
    <3>6. /\ Cardinality({l \in S : l > j}) <= Cardinality((j + 1)..k)
          /\ IsFiniteSet({l \in S : l > j})
      BY <3>4, <3>5, FS_Subset
    <3>7. Cardinality({l \in S : l > j}) \in Nat
      BY <3>6, FS_CardinalityType
    <3>8. Cardinality({l \in S : l > j}) < Rolling
      BY <2>6, <2>16, <3>1, <3>5, <3>6, <3>7
    <3>9. Matured("wu137", t) = {m \in S : Cardinality({l \in S : l > m}) < Rolling}
      BY DEF Matured, S
    <3> QED  BY <3>2, <3>8, <3>9
  <2> QED  BY <2>12, <2>13, <2>15, <2>16
<1> QED  BY <1>1, VerdictsHold, PTL
=============================================================================
