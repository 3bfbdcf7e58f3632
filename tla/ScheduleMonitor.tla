---------------------------- MODULE ScheduleMonitor ----------------------------
(***************************************************************************)
(* The scheduled monitors of the pipeline.  WU137 checks every hour that   *)
(* the pipeline is at rest and unchanged (health and drift); WU149 does    *)
(* the same when somebody dispatches it; WU144 observes every hour which   *)
(* WU137 schedules GitHub has delivered; WU145 and WU146 are evaluated by  *)
(* hand over the run histories of both.                                    *)
(*                                                                         *)
(* GitHub delivers a schedule late or never, a run reads the provider in   *)
(* several calls, and a history is judged after it was read.  Time passes  *)
(* from one instant of interest to the next.                               *)
(***************************************************************************)
EXTENDS Integers, Sequences, FiniteSets

CONSTANTS
    Cadence,        \* instants per hour
    Cron,           \* instant of each schedule within the hour
    Lag,            \* bounded delivery lag of each schedule
    Rolling,        \* opportunities of the rolling window
    Stable,         \* consecutive deliveries that count as stable
    Review,         \* consecutive misses that call for a review
    JobTime,        \* how long a job that began at an instant may last
    SnapshotAge,    \* how long a history fetched at an instant is still judged
    Hours,          \* bound: opportunities of the instance
    MaxDelay,       \* bound: how late a schedule is still delivered
    Budgets         \* bounds: how often each event happens in a behaviour

Schedules == {"wu137", "wu144"}
Events == {"wu137", "wu144", "dispatch", "change", "lose", "fetch"}
Instants == 0..(Cadence * Hours)

ASSUME ConstantsAssumption ==
    /\ {Cadence, Rolling, Stable, Review, Hours} \subseteq Nat \ {0}
    /\ MaxDelay \in Nat
    /\ Cron \in [Schedules -> 0..(Cadence - 1)]
    /\ Lag \in [Schedules -> 1..(Cadence - 1)]
    /\ JobTime \in [Instants -> Nat] /\ SnapshotAge \in [Instants -> Nat]
    /\ Budgets \subseteq [Events -> Nat]
    /\ Stable <= Rolling /\ Review <= Rolling
    \* WU144 runs after the deadline of the WU137 opportunity before it, and
    \* its own deadline is in its hour and before that of WU137.
    /\ Cron["wu137"] + Lag["wu137"] <= Cadence + Cron["wu144"]
    /\ Cron["wu144"] + Lag["wu144"] <= Cadence
    /\ Cron["wu144"] + Lag["wu144"] <= Cron["wu137"] + Lag["wu137"]

VARIABLES
    now,        \* the clock
    main,       \* commits of main: what differs from the activation, checks
    off,        \* what else differs from the activation
    run,        \* runs of each workflow, by the schedule or dispatch they are for
    fetched,    \* histories fetched for WU145
    missed,     \* opportunities judged as missed after their deadline
    left        \* how many events of each kind may still happen

vars == <<now, main, off, run, fetched, missed, left>>

Slots == 0..(Hours - 1)
Dispatches == 1..2
Workflows == Schedules \cup {"wu149"}
Tip == Len(main)

Keys(w) == IF w = "wu149" THEN Dispatches ELSE Slots
NoRun == [pc |-> "none", at |-> 0, began |-> 0, sha |-> 1, always |-> {}, seen |-> {},
          gaveWay |-> {}, judged |-> {}]

NoHistory == [at |-> -1, wu137 |-> {}, wu144 |-> {}]

InProgress == {"overlap", "skip", "fetch", "checks", "list"}
Ended == {"success", "failure", "cancelled"}

---------------------------------------------------------------------------
\* Run histories, as the provider lists them, and opportunities.

Nominal(w, k) == Cadence * k + Cron[w]
Deadline(w, k) == Nominal(w, k) + Lag[w]

\* From when on an evaluator takes an opportunity for matured.  WU144 goes
\* back one hour and no further from the opportunity of the current hour: that
\* of the hour before has matured, also while its deadline is still ahead.
\* WU145 goes back as far as the deadline of a WU144 opportunity asks.
Maturity(w, k) ==
    IF w = "wu137" /\ Cadence * (k + 1) < Deadline(w, k) THEN Cadence * (k + 1) ELSE Deadline(w, k)

\* A listed run: when it was created, and how it ended, if it has.
Listed(w) ==
    {[at |-> run[w][k].at, ended |-> IF run[w][k].pc \in Ended THEN run[w][k].pc ELSE "not"] :
        k \in {j \in Keys(w) : run[w][j].pc # "none"}}

\* A run created after the time of the observation contradicts it.
Future(h, t) == \E r \in h : r.at > t

Healthy(r) == r.ended = "success"
Nonterminal(r) == r.ended = "not"
Unhealthy(r) == ~Healthy(r) /\ ~Nonterminal(r)

\* Mutant: an opportunity is judged when it begins.
MaturedAtOnce(w, t) ==
    LET past == {k \in Slots : Nominal(w, k) <= t}
    IN  {k \in past : Cardinality({j \in past : j > k}) < Rolling}

\* The latest matured opportunities, at most as many as the window holds.
Matured(w, t) ==
    LET past == {k \in Slots : Maturity(w, k) <= t}
    IN  {k \in past : Cardinality({j \in past : j > k}) < Rolling}

\* The newest of them, -1 while there is none.
Newest(w, t) == Cardinality({k \in Slots : Maturity(w, k) <= t}) - 1

\* The runs that count for an opportunity: created in its window, whatever
\* schedule they were delivered for.
Window(w, k, h) == {r \in h : Nominal(w, k) <= r.at /\ r.at <= Deadline(w, k)}
InWindows(w, o, h) == UNION {Window(w, k, h) : k \in o}
Delivered(w, o, h) == {k \in o : \E r \in Window(w, k, h) : Healthy(r)}
Unserved(w, o, h) == {k \in o : Window(w, k, h) = {}}

\* The newest n of the opportunities o are all in s.
Streak(o, n, s) ==
    Cardinality(o) >= n /\ {k \in o : Cardinality({j \in o : j > k}) < n} \subseteq s

\* WU144: the delivery of WU137.
Observation(h, t) ==
    LET o == Matured("wu137", t)
        good == Delivered("wu137", o, h)
    IN  CASE Future(h, t) -> "BLOCKED_PROVIDER_DATA"
          [] \E r \in InWindows("wu137", o, h) : Unhealthy(r) -> "EXECUTION_UNHEALTHY_OBSERVED"
          [] \E r \in InWindows("wu137", o, h) : Nonterminal(r) -> "EXECUTION_NONTERMINAL_OBSERVED"
          [] Streak(o, Stable, good) -> "STABLE_DELIVERY_OBSERVED"
          [] \/ Streak(o, Review, o \ good)
             \/ Cardinality(o) = Rolling /\ 2 * Cardinality(good) < Rolling
                -> "REMEDIATION_REVIEW_ELIGIBLE"
          [] Cardinality(good) >= 2 -> "RECOVERED_INTERMITTENT"
          [] Cardinality(good) = 1  -> "RECOVERED_SINGLE"
          [] OTHER -> "NO_MATURED_HEALTHY_DELIVERY_OBSERVED"

\* WU145: the delivery of WU144, from histories that are not too old.
Qualification(f, t) ==
    LET o == Matured("wu144", t)
        h == f.wu144
    IN  CASE t - f.at > SnapshotAge[f.at] \/ Future(h, t) -> "BLOCKED_PROVIDER_DATA"
          [] Observation(f.wu137, t) = "BLOCKED_PROVIDER_DATA" -> "BLOCKED_PROVIDER_DATA"
          [] \E r \in InWindows("wu144", o, h) : Unhealthy(r) -> "OBSERVER_EXECUTION_UNHEALTHY_OBSERVED"
          [] \E r \in InWindows("wu144", o, h) : Nonterminal(r) -> "OBSERVER_EXECUTION_NONTERMINAL_OBSERVED"
          [] o = {} -> "WAITING_MATURE_OBSERVATION_WINDOW"
          [] Streak(o, 1, Delivered("wu144", o, h)) -> "OBSERVER_DELIVERY_HEALTHY"
          [] OTHER -> "OBSERVER_DELIVERY_MISS_OBSERVED"

\* WU146: did GitHub miss the first WU144 opportunity while WU137 ran well?
\* The evaluation is made for one commit of main.
Correlation(h137, h144, t) ==
    CASE Tip # 1 \/ Future(h137, t) \/ Future(h144, t) -> "BLOCKED_PROVIDER_DATA"
      [] t < Deadline("wu144", 0)        -> "WAITING_MATURE_OBSERVATION_WINDOW"
      [] Window("wu144", 0, h144) # {}   -> "BLOCKED_PROVIDER_DATA"
      [] \E r \in h137 : Unhealthy(r)    -> "WU137_EXECUTION_UNHEALTHY_OBSERVED"
      [] \E r \in h137 : Nonterminal(r)  -> "WU137_EXECUTION_NONTERMINAL_OBSERVED"
      [] h137 = {}                       -> "INSUFFICIENT_WU137_DELIVERY_EVIDENCE"
      [] OTHER -> "DELIVERY_DEGRADATION_CORRELATED"

---------------------------------------------------------------------------
\* The health evaluation.

Outside == {"registry", "tokens", "enforcement", "updated", "bypass"}

\* The activation contract of the checkout is the authorized one.
ActivationValid(c) == "activation" \notin c.differs

\* Mutant: the ruleset counts as unchanged while it is enforced.
HealthOfEnforcement(c, seen) ==
    CASE ~ActivationValid(c) -> "BLOCKED"
      [] seen \cap {"bypass", "tokens"} # {} -> "OWNER_EXCEPTION_REQUIRED"
      [] seen \ {"updated"} # {} \/ c.differs # {} \/ c.checks # "success" -> "DRIFT_DETECTED"
      [] OTHER -> "HEALTHY"

\* The activation contract, the frontier and the proposal come from the
\* checkout, everything else was read: a main that moved since the run was
\* created, a registry generation that fell, a ruleset that was updated.
Health(c, seen) ==
    CASE ~ActivationValid(c) -> "BLOCKED"
      [] seen \cap {"bypass", "tokens"} # {} -> "OWNER_EXCEPTION_REQUIRED"
      [] seen # {} \/ c.differs # {} \/ c.checks # "success" -> "DRIFT_DETECTED"
      [] OTHER -> "HEALTHY"

\* WU149 asks WU137, once the files it pins are unchanged.
Fallback(c, seen) == IF ActivationValid(c) THEN Health(c, seen) ELSE "BLOCKED"

---------------------------------------------------------------------------
\* Runs.

Init ==
    /\ now = 0
    /\ main = << [differs |-> {}, checks |-> "success"] >>
    /\ off = {}
    /\ run = [w \in Workflows |-> [k \in Keys(w) |-> NoRun]]
    /\ fetched = NoHistory
    /\ missed = {}
    /\ left \in Budgets

Spend(e) == left[e] > 0 /\ left' = [left EXCEPT ![e] = @ - 1]

Created == [NoRun EXCEPT !.pc = "queued", !.at = now, !.sha = Tip, !.always = off]

\* GitHub delivers a schedule, some time or never; the run is for the commit
\* main has then.
Deliver(w, k) ==
    /\ run[w][k].pc = "none"
    /\ Nominal(w, k) <= now /\ now <= Nominal(w, k) + MaxDelay
    /\ run' = [run EXCEPT ![w][k] = Created]
    /\ Spend(w)
    /\ UNCHANGED <<now, main, off, fetched, missed>>

Over(r, conclusion) == [NoRun EXCEPT !.pc = conclusion, !.at = r.at, !.gaveWay = r.gaveWay, !.judged = r.judged]

\* A dispatch of WU149 cancels the one before it.
Dispatch(k) ==
    /\ run["wu149"][k].pc = "none"
    /\ \A j \in Keys("wu149") : j < k => run["wu149"][j].pc # "none"
    /\ Spend("dispatch")
    /\ run' = [run EXCEPT !["wu149"] = [j \in Keys("wu149") |->
          IF j = k THEN Created
          ELSE IF @[j].pc \in InProgress \cup {"queued"} THEN Over(@[j], "cancelled")
          ELSE @[j]]]
    /\ UNCHANGED <<now, main, off, fetched, missed>>

Start(w, k) ==
    /\ run[w][k].pc = "queued"
    /\ run' = [run EXCEPT ![w][k] = [@ EXCEPT !.began = now,
          !.pc = CASE w = "wu137" -> "overlap" [] w = "wu144" -> "list" [] OTHER -> "fetch"]]
    /\ UNCHANGED <<now, main, off, fetched, missed, left>>

\* WU137 looks for another run of its workflow in progress; it gives way to
\* any, the older as the younger, ...
SkipOverlap(k) ==
    /\ run["wu137"][k].pc = "overlap"
    /\ LET other == {j \in Slots \ {k} : run["wu137"][j].pc \in InProgress}
       IN  run' = [run EXCEPT !["wu137"][k] =
                 [@ EXCEPT !.gaveWay = other, !.pc = IF other = {} THEN "fetch" ELSE "skip"]]
    /\ UNCHANGED <<now, main, off, fetched, missed, left>>

\* ... and ends well.
EndSkipped(k) ==
    /\ run["wu137"][k].pc = "skip"
    /\ run' = [run EXCEPT !["wu137"][k] = Over(@, "success")]
    /\ UNCHANGED <<now, main, off, fetched, missed, left>>

\* The provider is read: main, the registry, the issue with the owner's
\* authorization and the ruleset, ...
Fetch(w, k) ==
    /\ run[w][k].pc = "fetch"
    /\ run' = [run EXCEPT ![w][k] = [@ EXCEPT !.pc = "checks",
          !.seen = off \cup (IF run[w][k].sha # Tip THEN {"main"} ELSE {})]]
    /\ UNCHANGED <<now, main, off, fetched, missed, left>>

Outcome(w, k) ==
    LET r == run[w][k]
    IN  IF w = "wu149" THEN Fallback(main[r.sha], r.seen) ELSE Health(main[r.sha], r.seen)

\* ... and the checks of main; the run fails unless all is healthy.
Evaluate(w, k) ==
    /\ run[w][k].pc = "checks"
    /\ run' = [run EXCEPT ![w][k] = Over(@, IF Outcome(w, k) = "HEALTHY" THEN "success" ELSE "failure")]
    /\ UNCHANGED <<now, main, off, fetched, missed, left>>

\* The matured opportunities that a history leaves unserved.
Misses(w, h, t) == {<<w, k>> : k \in Unserved(w, Matured(w, t), h)}

\* Mutant: an observation that is blocked ends well.
ObserveAnyway(k) ==
    /\ run["wu144"][k].pc = "list"
    /\ \E t \in run["wu144"][k].began..now :
          LET h == Listed("wu137")
              blocked == Observation(h, t) = "BLOCKED_PROVIDER_DATA"
          IN  /\ run' = [run EXCEPT !["wu144"][k] = Over(
                    [@ EXCEPT !.judged = IF blocked THEN {} ELSE Matured("wu137", t)],
                    "success")]
              /\ missed' = IF blocked THEN missed ELSE missed \cup Misses("wu137", h, t)
    /\ UNCHANGED <<now, main, off, fetched, left>>

\* The job takes the time, then lists the runs.  The observation ends well
\* unless the provider's data are contradictory; it has judged the matured
\* opportunities of WU137 in its window.
Observe(k) ==
    /\ run["wu144"][k].pc = "list"
    /\ \E t \in run["wu144"][k].began..now :
          LET h == Listed("wu137")
              blocked == Observation(h, t) = "BLOCKED_PROVIDER_DATA"
          IN  /\ run' = [run EXCEPT !["wu144"][k] =
                    IF blocked THEN Over(@, "failure")
                    ELSE Over([@ EXCEPT !.judged = Matured("wu137", t)], "success")]
              /\ missed' = IF blocked THEN missed ELSE missed \cup Misses("wu137", h, t)
    /\ UNCHANGED <<now, main, off, fetched, left>>

\* A runner is lost, or the job times out.
LoseRunner(w, k) ==
    /\ run[w][k].pc \in InProgress
    /\ Spend("lose")
    /\ run' = [run EXCEPT ![w][k] = Over(@, "cancelled")]
    /\ UNCHANGED <<now, main, off, fetched, missed>>

---------------------------------------------------------------------------
\* The evaluations by hand.

FetchHistories ==
    /\ Spend("fetch")
    /\ fetched' = [at |-> now, wu137 |-> Listed("wu137"), wu144 |-> Listed("wu144")]
    /\ UNCHANGED <<now, main, off, run, missed>>

\* WU145 judges histories that were fetched some time ago; the misses kept
\* here are those of opportunities that had matured by then.
Qualify ==
    /\ fetched.at # -1
    /\ LET q == Qualification(fetched, now)
       IN  missed' = IF q = "BLOCKED_PROVIDER_DATA" THEN missed
                     ELSE missed \cup Misses("wu144", fetched.wu144, fetched.at)
                                 \cup Misses("wu137", fetched.wu137, fetched.at)
    /\ fetched' = NoHistory
    /\ UNCHANGED <<now, main, off, run, left>>

Correlate ==
    /\ Correlation(Listed("wu137"), Listed("wu144"), now) = "DELIVERY_DEGRADATION_CORRELATED"
    /\ missed' = missed \cup {<<"wu144", 0>>}
    /\ UNCHANGED <<now, main, off, run, fetched, left>>

---------------------------------------------------------------------------
\* Time and the provider.

Stale(t) == fetched.at # -1 /\ t - fetched.at > SnapshotAge[fetched.at]

\* Mutant: jobs have no time limit.
TickOverJobs ==
    /\ now < Cadence * Hours
    /\ now' = now + 1
    /\ fetched' = IF Stale(now') THEN NoHistory ELSE fetched
    /\ UNCHANGED <<main, off, run, missed, left>>

\* A job is over when its time is (timeout-minutes: 10); a history that is too
\* old to be judged is dropped.
Tick ==
    /\ now < Cadence * Hours
    /\ \A w \in Workflows : \A k \in Keys(w) :
          LET r == run[w][k] IN r.pc \in InProgress => now < r.began + JobTime[r.began]
    /\ now' = now + 1
    /\ fetched' = IF Stale(now') THEN NoHistory ELSE fetched
    /\ UNCHANGED <<main, off, run, missed, left>>

\* A commit reaches main before its checks have ended there.
Commit ==
    /\ Spend("change")
    /\ \E d \in {{}, {"frontier"}, {"activation"}} :
          main' = Append(main, [differs |-> d, checks |-> "pending"])
    /\ UNCHANGED <<now, off, run, fetched, missed>>

EndChecks ==
    /\ main[Tip].checks = "pending"
    /\ \E c \in {"success", "failure"} : main' = [main EXCEPT ![Tip].checks = c]
    /\ UNCHANGED <<now, off, run, fetched, missed, left>>

\* The ruleset, the issue or the registry is changed outside the pipeline.
ChangeOutside ==
    /\ Spend("change")
    /\ \E d \in {{"registry"}, {"tokens"}, {"enforcement", "updated"}, {"bypass", "updated"}} :
          off' = off \cup d
    /\ UNCHANGED <<now, main, run, fetched, missed>>

\* It is changed back; the ruleset stays updated.
RestoreOutside ==
    /\ off \ {"updated"} # {}
    /\ off' = off \cap {"updated"}
    /\ run' = [w \in Workflows |-> [k \in Keys(w) |-> [run[w][k] EXCEPT !.always = @ \cap {"updated"}]]]
    /\ UNCHANGED <<now, main, fetched, missed, left>>

RunStep(w, k) ==
    \/ Start(w, k) \/ Fetch(w, k)
    \/ Evaluate(w, k) \/ LoseRunner(w, k)

Next ==
    \/ \E w \in Schedules, k \in Slots : Deliver(w, k)
    \/ \E w \in Workflows : \E k \in Keys(w) : RunStep(w, k)
    \/ \E k \in Keys("wu149") : Dispatch(k)
    \/ \E k \in Slots : SkipOverlap(k) \/ EndSkipped(k) \/ Observe(k)
    \/ FetchHistories \/ Qualify \/ Correlate
    \/ Tick \/ Commit \/ EndChecks \/ ChangeOutside \/ RestoreOutside

Spec == Init /\ [][Next]_vars

---------------------------------------------------------------------------
\* Properties.

Runs == [pc : {"none", "queued"} \cup InProgress \cup Ended, at : Nat, began : Nat, sha : 1..Tip,
         always : SUBSET Outside, seen : SUBSET (Outside \cup {"main"}),
         gaveWay : SUBSET Slots, judged : SUBSET Slots]

\* Types; a job in progress is within its time.
TypeOK ==
    /\ now \in Instants
    /\ main \in Seq([differs : SUBSET {"frontier", "activation"},
                     checks : {"pending", "success", "failure"}])
    /\ off \subseteq Outside
    /\ \A w \in Workflows : run[w] \in [Keys(w) -> Runs]
    /\ \A w \in Workflows : \A k \in Keys(w) :
          LET r == run[w][k] IN r.pc \in InProgress => r.began <= now /\ now <= r.began + JobTime[r.began]
    /\ fetched.at \in {-1} \cup 0..now
    /\ missed \subseteq Schedules \X Slots

\* A health run ends well only when nothing was wrong for all of its time: the
\* commit it was created for is the activated state with its checks passed,
\* and no ruleset update, also one that was undone long before, goes by.
HealthySawNoDrift ==
    [][\A w \in {"wu137", "wu149"} : \A k \in Keys(w) :
        run[w][k].pc = "checks" /\ run'[w][k].pc = "success" =>
            /\ run[w][k].always = {}
            /\ main[run[w][k].sha] = [differs |-> {}, checks |-> "success"]]_vars

\* An opportunity that an evaluator called missed turns out to have been served
\* only by a run created since it had matured: never by a run that was queued,
\* slow, or created while the history was being read.  That leaves the instant
\* of the deadline, in which a run still counts, and for WU137 the two minutes
\* from the full hour to the deadline.
OnlyLateRunsReviseMisses ==
    \A w \in Schedules, k \in Slots :
        <<w, k>> \in missed => \A r \in Window(w, k, Listed(w)) : r.at >= Maturity(w, k)

\* "REMEDIATION_REVIEW_ELIGIBLE": opportunities that "have no real schedule run
\* within the bounded lag window" count as missed; the window of an opportunity
\* that was called missed is over, to the instant of its deadline.  No run checks
\* this: it fails for a WU137 opportunity observed between :00 and :02.
MissIsFinal ==
    \A w \in Schedules, k \in Slots :
        <<w, k>> \in missed => \A r \in Window(w, k, Listed(w)) : r.at = Deadline(w, k)

\* Whenever WU145 would call the observer's delivery healthy, one run of the
\* observer has judged the opportunities of WU137 before the observer's own
\* newest matured one, as far back as the rolling window reaches: the offset of
\* the two schedules leaves none of these unobserved.
HealthyObserverHasJudged ==
    fetched.at # -1 /\ Qualification(fetched, now) = "OBSERVER_DELIVERY_HEALTHY" =>
        LET n == Newest("wu144", now)
        IN  \E k \in Slots : /\ run["wu144"][k].pc = "success"
                              /\ {j \in Slots : n - Rolling < j /\ j < n} \subseteq run["wu144"][k].judged

\* "overlap_policy": "SKIP_IF_PREVIOUS_RUN_ACTIVE": of two runs that overlap
\* one evaluates; they do not both give way.
OverlapIsEvaluated ==
    \A j, k \in Slots : ~(j \in run["wu137"][k].gaveWay /\ k \in run["wu137"][j].gaveWay)
=============================================================================
