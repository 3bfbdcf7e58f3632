--------------------------- MODULE SessionHandoff ---------------------------
(***************************************************************************)
(* Sessions that follow one another on the work unit the loop has          *)
(* selected (ContinuationLoop.tla).  A session performs one delegated      *)
(* transaction at a time and reads the provider back after each; at a      *)
(* clean boundary it persists a handoff record, and a session that is      *)
(* interrupted leaves one that says so, or none.  The next session starts  *)
(* from that record, by one of three protocols of .pncc-dev/scripts:       *)
(*                                                                         *)
(*   GENERIC  multi-session steady state (WU117) with resume (WU115)       *)
(*   HBE      the same, wrapped by human-by-exception (WU126, 128, 130)    *)
(*   STATE    the durable development state (validate_state.py)            *)
(*                                                                         *)
(* The evidence of a session is checked by validators that replay the      *)
(* evaluators on it (WU114 .. WU132).                                      *)
(***************************************************************************)
EXTENDS Integers, Sequences, FiniteSets, SequencesExt

CONSTANTS
    Modes,          \* protocols the sessions use
    LastHead,       \* a branch is complete after this many pushes
    Files,          \* policies that may differ from what the others pin
    FaultKinds,     \* kinds of faults that happen
    MaxFaults,      \* bound: faults of the instance
    MaxMain,        \* bound: commits of the default branch
    MaxRecords      \* bound: handoff records

ASSUME ConstantsAssumption ==
    /\ Modes # {} /\ Modes \subseteq {"GENERIC", "HBE", "STATE"}
    /\ {LastHead, MaxFaults, MaxMain, MaxRecords} \subseteq Nat
    /\ Files \subseteq {"steady", "resume", "multi", "hbe", "operational"}
    /\ FaultKinds \subseteq {"interrupt", "lost", "expiry", "rival", "foreign", "owner", "checks"}

VARIABLES
    main,       \* commits of the default branch
    base,       \* base of the selected work unit, which names the work unit
    drift,      \* policies that do not match
    head,       \* commits of the state branch
    generation, \* generation of the Writer Lease registry on it
    lease,      \* and its entries, [gen, wu, state, expired], never removed
    branch,     \* pushes on the work branch, -1: no branch
    checks,     \* required checks at its head
    exception,  \* the owner holds an exception against the sessions
    readiness,  \* decision on the human-by-exception mode
    prior,      \* the last handoff record
    completed,  \* transactions the records name as completed, in their order
    session,    \* the running session
    requests,   \* transactions the provider has not answered
    applied,    \* history: the transactions the provider applied
    faults      \* faults so far

registry == <<head, generation, lease>>
work == <<branch, checks>>
upstream == <<main, base, drift, exception, readiness>>
vars == <<main, base, drift, head, generation, lease, branch, checks, exception, readiness, prior,
          completed, session, requests, applied, faults>>

Fault(k) == k \in FaultKinds /\ faults < MaxFaults /\ faults' = faults + 1

Kinds == {"LEASE", "BRANCH", "PUSH", "RELEASE"}
SessionIds == 1..MaxFaults + 1
Rival == -1

Live == {e \in lease : e.state = "ACTIVE" /\ ~e.expired}
Stale == {e \in lease : e.state = "ACTIVE" /\ e.expired}
Owned == {e \in Live : e.wu = base}
Generations(entries) == {e.gen : e \in entries}

\* What one fresh read of the provider finds, beside the checks.
Truth == [main |-> main, base |-> base, head |-> head, gen |-> generation,
          live |-> {e.wu : e \in Live}, branch |-> branch]
Owns(t) == t.base \in t.live

\* Snapshots of the provider and entries of the registry that are well formed.
Truths == [main : 0..MaxMain, base : 0..MaxMain, head : Nat, gen : Nat,
           live : SUBSET ({Rival} \cup 0..MaxMain), branch : -1..LastHead]
Entries == [gen : Nat \ {0}, wu : {Rival} \cup 0..MaxMain, state : {"ACTIVE", "RELEASED"},
            expired : BOOLEAN]

NoRecord == [seq |-> 0, class |-> "NONE", readback |-> FALSE, txns |-> <<>>,
             truth |-> <<>>, checks |-> "PENDING"]
records == <<prior, completed>>

---------------------------------------------------------------------------
\* Policies: an evaluator blocks when its policy, or a file the policy pins,
\* is not the one it was approved with.

SteadyPins == {"steady"} \cap drift = {}
ResumePins == {"resume", "steady"} \cap drift = {}
MultiSessionPins == {"multi", "resume", "steady"} \cap drift = {}
OperationalPins == {"operational"} \cap drift = {}
HbeSteadyPins == {"hbe", "operational", "steady"} \cap drift = {}
HbeResumePolicy == "hbe" \notin drift

---------------------------------------------------------------------------
\* Start of a session.

\* A required check that failed is a classified failure.
Failure == checks = "FAILURE"

\* A clean record needs a selected work unit, and the selector takes one on
\* the current head only.
SessionStart(class, t) ==
    IF ~MultiSessionPins THEN "BLOCKED"
    ELSE IF Failure THEN "SEPARATE_AUTHORITY"
    ELSE IF class = "UNKNOWN" THEN "RECONCILE"
    ELSE IF class = "PENDING" THEN "WAIT"
    ELSE IF class = "CLEAN" /\ t.base # t.main THEN "BLOCKED"
    ELSE "START"

\* The fields of a checkpoint fresh provider truth no longer confirms.
Drift(t) == {f \in DOMAIN t : prior.truth[f] # t[f]}

Resume(class, readback) ==
    IF ~ResumePins THEN "BLOCKED"
    ELSE IF Failure THEN "SEPARATE_AUTHORITY"
    ELSE IF class \in {"NONE", "CLEAN"} THEN "RECOMPUTE"
    ELSE IF ~readback THEN "WAIT"
    ELSE "RECONCILE"

\* A transaction as the completed ones are remembered.
Fingerprint(kind, t) == <<kind, t.base, IF kind \in {"LEASE", "RELEASE"} THEN t.head ELSE t.branch>>

Fingerprints(log) == [i \in DOMAIN log |-> Fingerprint(log[i].kind, log[i].before)]
Completed == Range(completed \o Fingerprints(session.log))

\* What the human-by-exception layer says of the session at large.
HbeBoundary ==
    IF exception THEN "OWNER_ESCALATION"
    ELSE IF Failure THEN "SEPARATE_AUTHORITY"
    ELSE "CONTINUE"

\* Mutant: without a living lease of its own the work unit is given up.
HbeResumeOwnedOnly(hbe, class, done, next, t) ==
    IF ~HbeResumePolicy \/ t.base # t.main \/ t.branch = -1 THEN "BLOCKED"
    ELSE IF hbe # "CONTINUE" THEN hbe
    ELSE IF class = "UNKNOWN" THEN "RECONCILE"
    ELSE IF class = "PENDING" THEN "WAIT"
    ELSE IF next \in done THEN "BLOCKED"
    ELSE IF t.live = {t.base} THEN "RECOMPUTE"
    ELSE "BLOCKED"

\* Human-by-exception resume: the work unit must have its branch; without a
\* living lease of its own it may claim a fresh one, if nobody else has one.
HbeResume(hbe, class, done, next, t) ==
    IF ~HbeResumePolicy \/ t.base # t.main \/ t.branch = -1 THEN "BLOCKED"
    ELSE IF hbe # "CONTINUE" THEN hbe
    ELSE IF class = "UNKNOWN" THEN "RECONCILE"
    ELSE IF class = "PENDING" THEN "WAIT"
    ELSE IF next \in done THEN "BLOCKED"
    ELSE IF t.live = {t.base} THEN "RECOMPUTE"
    ELSE IF t.live # {} THEN "BLOCKED"
    ELSE "FRESH_LEASE"

\* The durable development state: lease, checkpoint and fresh truth must agree
\* in every field; whether the checkpoint is a clean boundary is unknown to it.
LeaseValid(t) ==
    Owns(t) /\ t.base = prior.truth.base /\ t.branch # -1 /\ t.branch = prior.truth.branch

CheckpointConfirmed(t) ==
    t.branch # -1 /\ t.branch = prior.truth.branch /\ checks = prior.checks

DecideResume(t) ==
    IF prior.class = "NONE" \/ ~LeaseValid(t) THEN "BLOCKED"
    ELSE IF ~CheckpointConfirmed(t) \/ Failure THEN "BLOCKED"
    ELSE IF checks = "PENDING" THEN "WAIT"
    ELSE "START"

\* What the protocols of a mode say together.  The human-by-exception resume
\* knows work units with a branch only; the others resume as WU115 says.
StartDecision(mode, t) ==
    LET first == SessionStart(prior.class, t)
        hbe   == HbeResume(HbeBoundary, prior.class, Completed, <<>>, t)
    IN  IF mode = "STATE" THEN DecideResume(t)
        ELSE IF mode = "HBE" /\ readiness.state # "APPROVED" THEN "BLOCKED"
        ELSE IF first # "START" THEN first
        ELSE IF mode = "HBE" /\ t.branch # -1 THEN
                (IF hbe \in {"RECOMPUTE", "FRESH_LEASE"} THEN "START" ELSE hbe)
        ELSE IF Resume(prior.class, FALSE) # "RECOMPUTE" THEN Resume(prior.class, FALSE)
        ELSE "START"

---------------------------------------------------------------------------
\* One iteration of a session.

\* Steady state: seq is the number of the iteration, previous says whether the
\* one before was read back, txn how far the delegated transaction is.
SteadyState(seq, previous, txn) ==
    IF ~SteadyPins THEN "BLOCKED"
    ELSE IF (seq > 1) # previous THEN "BLOCKED"
    ELSE IF Failure THEN (IF txn = "NOT_STARTED" THEN "SEPARATE_AUTHORITY" ELSE "BLOCKED")
    ELSE IF txn = "NOT_STARTED" THEN "EXECUTE"
    ELSE IF txn = "READBACK_PENDING" THEN "READBACK_REQUIRED"
    ELSE "COMPLETE"

\* The iteration phase of the multi-session protocol.
Iteration(seq, previous, txn) ==
    IF ~MultiSessionPins THEN "BLOCKED"
    ELSE IF Failure THEN "SEPARATE_AUTHORITY"
    ELSE IF seq # 1 /\ ~previous THEN "BLOCKED"
    ELSE IF txn = "NOT_STARTED" THEN "EXECUTE"
    ELSE IF txn = "READBACK_PENDING" THEN "READBACK_REQUIRED"
    ELSE "COMPLETE"

\* Mutant: another work unit's living lease in the conflict domain is ignored.
NextKindBesideOthers(mode, t) ==
    IF t.base # t.main THEN "NONE"
    ELSE IF ~Owns(t) THEN
            (IF t.branch = -1 \/ (mode = "HBE" /\ t.branch < LastHead) THEN "LEASE" ELSE "NONE")
    ELSE IF t.branch = -1 THEN "BRANCH"
    ELSE IF t.branch < LastHead THEN "PUSH"
    ELSE IF checks = "SUCCESS" THEN "RELEASE"
    ELSE "NONE"

\* The control loop's next transaction.  Only a human-by-exception session
\* claims a fresh lease for a work unit that has its branch.
NextKind(mode, t) ==
    IF t.base # t.main THEN "NONE"
    ELSE IF ~Owns(t) /\ t.live # {} THEN "NONE"
    ELSE IF ~Owns(t) THEN
            (IF t.branch = -1 \/ (mode = "HBE" /\ t.branch < LastHead) THEN "LEASE" ELSE "NONE")
    ELSE IF t.branch = -1 THEN "BRANCH"
    ELSE IF t.branch < LastHead THEN "PUSH"
    ELSE IF checks = "SUCCESS" THEN "RELEASE"
    ELSE "NONE"

\* Operationalization: what an admitted decision may do without the owner.
Operational(kind) ==
    IF ~OperationalPins THEN "BLOCKED"
    ELSE IF exception THEN "OWNER_ESCALATION"
    ELSE IF Failure THEN "SEPARATE_AUTHORITY"
    ELSE IF kind = "NONE" THEN "WAIT"
    ELSE "CONTINUE"

\* Human-by-exception steady state: both layers must agree.
HbeSteadyState(seq, previous, txn, kind) ==
    LET inner == SteadyState(seq, previous, txn)
        outer == Operational(kind)
    IN  IF ~HbeSteadyPins THEN "BLOCKED"
        ELSE IF outer = "OWNER_ESCALATION" THEN outer
        ELSE IF inner \in {"EXECUTE", "READBACK_REQUIRED", "COMPLETE"} /\ outer = "CONTINUE" THEN
                inner
        ELSE IF inner = outer THEN inner
        ELSE "BLOCKED"

\* What the session's protocol says about its iteration.
Evaluate(txn, kind) ==
    LET seq == Len(session.log) + 1
        inner == SteadyState(seq, session.previous, txn)
    IN  CASE session.mode = "HBE"   -> HbeSteadyState(seq, session.previous, txn, kind)
          [] session.mode = "STATE" -> inner
          [] OTHER                  -> IF Iteration(seq, session.previous, txn) = inner
                                       THEN inner ELSE "BLOCKED"

NoSession == [id |-> 0, mode |-> "NONE", pc |-> "none", previous |-> FALSE, answer |-> "NONE",
              plan |-> <<>>, start |-> <<>>, log |-> <<>>]

Init ==
    /\ main = 0 /\ base = 0 /\ drift = {} /\ head = 0 /\ generation = 0 /\ lease = {} /\ branch = -1
    /\ checks = "PENDING" /\ exception = FALSE
    /\ readiness = [state |-> "NONE", stale |-> {}]
    /\ prior = NoRecord /\ completed = <<>> /\ session = NoSession /\ requests = {} /\ applied = <<>> /\ faults = 0

\* A session starts, or learns that it must reconcile first.  A session whose
\* control loop has no transaction to plan changes nothing and is left out.
Start(mode) ==
    /\ session.pc = "none" /\ NextKind(mode, Truth) # "NONE"
    /\ \E d \in {StartDecision(mode, Truth)} :
          /\ d \in {"START", "RECONCILE"}
          /\ session' = [NoSession EXCEPT !.mode = mode, !.start = <<Truth>>,
                !.id = CHOOSE n \in SessionIds : \A r \in requests : r.session # n,
                !.pc = IF d = "START" THEN "ready" ELSE "reconcile"]
    /\ UNCHANGED <<upstream, registry, work, records, requests, applied, faults>>

\* The interrupted transaction is reconciled from a fresh read.
Reconcile ==
    /\ session.pc = "reconcile" /\ Resume(prior.class, TRUE) = "RECONCILE"
    /\ session' = [session EXCEPT !.pc = "ready", !.start = <<Truth>>]
    /\ UNCHANGED <<upstream, registry, work, records, requests, applied, faults>>

\* A fresh control loop and admission, and the one delegated transaction.
Delegate ==
    /\ session.pc = "ready"
    /\ \E t \in {Truth}, kind \in Kinds :
          /\ kind = NextKind(session.mode, t) /\ Evaluate("NOT_STARTED", kind) = "EXECUTE"
          /\ session.mode = "HBE" /\ branch # -1 =>
                HbeResume(HbeBoundary, "CLEAN", Completed, Fingerprint(kind, t), t) \in {"RECOMPUTE", "FRESH_LEASE"}
          /\ requests' = requests \cup
                {[session |-> session.id, kind |-> kind, at |-> t, after |-> prior.seq]}
          /\ session' = [session EXCEPT !.pc = "sent", !.plan = <<kind, t>>, !.answer = "NONE"]
    /\ UNCHANGED <<upstream, registry, work, records, applied, faults>>

\* Mutant: the registry is written without comparing what was read.
AcceptsAnyHead(r) ==
    CASE r.kind = "LEASE"   -> TRUE
      [] r.kind = "RELEASE" -> Owned # {}
      [] OTHER              -> base = r.at.base /\ branch = r.at.branch

\* The provider: the registry moves by fast-forward only, a branch is created
\* once and pushed without force.
Accepts(r) ==
    CASE r.kind = "LEASE"   -> head = r.at.head
      [] r.kind = "RELEASE" -> head = r.at.head /\ Owned # {}
      [] OTHER              -> base = r.at.base /\ branch = r.at.branch

Perform(r) ==
    CASE r.kind = "LEASE" ->
            /\ head' = head + 1 /\ generation' = generation + 1
            /\ lease' = lease \cup {[gen |-> generation + 1, wu |-> r.at.base,
                                     state |-> "ACTIVE", expired |-> FALSE]}
            /\ UNCHANGED work
      [] r.kind = "RELEASE" ->
            /\ head' = head + 1
            /\ lease' = (lease \ Owned) \cup {[e EXCEPT !.state = "RELEASED"] : e \in Owned}
            /\ UNCHANGED <<generation, work>>
      [] OTHER -> branch' = branch + 1 /\ checks' = "PENDING" /\ UNCHANGED registry

\* A request is applied or refused, and the session that waits hears of it.
Apply(r) ==
    /\ IF Accepts(r)
       THEN Perform(r) /\ applied' = Append(applied, [txn |-> Fingerprint(r.kind, r.at), head |-> head])
       ELSE UNCHANGED <<registry, work, applied>>
    /\ requests' = requests \ {r}
    /\ session' = IF session.id = r.session /\ session.pc = "sent"
                  THEN [session EXCEPT !.answer = IF Accepts(r) THEN "OK" ELSE "REFUSED"] ELSE session
    /\ UNCHANGED <<upstream, records, faults>>

\* The readback finds what the transaction was to bring about.
Matches(kind, before, t) ==
    CASE kind = "LEASE"   -> t.gen = before.gen + 1 /\ Owns(t)
      [] kind = "RELEASE" -> t.gen = before.gen /\ ~Owns(t)
      [] OTHER            -> t.base = before.base /\ t.branch = before.branch + 1

\* Mutant: the plan of the finished iteration is kept for the next one.
ReadBackKeepingPlan ==
    [session EXCEPT !.pc = "ready", !.previous = TRUE, !.answer = "NONE",
        !.log = Append(@, [kind |-> session.plan[1], before |-> session.plan[2], after |-> Truth])]

\* The iteration is over: the next one starts from a fresh plan.
ReadBack ==
    [session EXCEPT !.pc = "ready", !.previous = TRUE, !.answer = "NONE", !.plan = <<>>,
        !.log = Append(@, [kind |-> session.plan[1], before |-> session.plan[2], after |-> Truth])]

\* Mutant: a transaction that was sent counts as done.
ReadbackOfAnything ==
    /\ session.pc = "sent" /\ Evaluate("COMPLETE", session.plan[1]) = "COMPLETE"
    /\ session' = ReadBack
    /\ UNCHANGED <<upstream, registry, work, records, requests, applied, faults>>

\* The session reads the provider back; the iteration is complete when the
\* transaction was performed and the read shows it.
Readback ==
    /\ session.pc = "sent" /\ session.answer = "OK"
    /\ Matches(session.plan[1], session.plan[2], Truth)
    /\ Evaluate("COMPLETE", session.plan[1]) = "COMPLETE"
    /\ session' = ReadBack
    /\ UNCHANGED <<upstream, registry, work, records, requests, applied, faults>>

---------------------------------------------------------------------------
\* The end of a session.

Record(class) ==
    [seq |-> prior.seq + 1, class |-> class, readback |-> class = "CLEAN",
     txns |-> Fingerprints(session.log), truth |-> Truth, checks |-> checks]

RecordValid(r) ==
    /\ r.seq \in Nat \ {0} /\ r.class \in {"CLEAN", "UNKNOWN", "PENDING"} /\ r.truth \in Truths
    /\ r.class = "CLEAN" => r.readback

Persist(r) ==
    RecordValid(r) /\ r.seq <= MaxRecords /\ prior' = r /\ completed' = completed \o r.txns

\* The refresh phase: a clean record after a clean one, bound to fresh truth.
RefreshAllowed(old, new) ==
    /\ MultiSessionPins /\ ~Failure /\ RecordValid(old) /\ RecordValid(new)
    /\ old.class = "CLEAN" /\ new.class = "CLEAN"
    /\ new.seq = old.seq + 1 /\ new.truth = Truth /\ new.checks = checks

\* At a clean boundary the session hands over; the first record of all has no
\* prior one to be compared with.
Handoff ==
    /\ session.pc = "ready" /\ session.log # <<>>
    /\ prior # NoRecord => RefreshAllowed(prior, Record("CLEAN"))
    /\ Persist(Record("CLEAN"))
    /\ session' = NoSession
    /\ UNCHANGED <<upstream, registry, work, requests, applied, faults>>

\* The class of the record an interrupted session leaves.
Boundary == IF session.answer = "NONE" THEN "UNKNOWN" ELSE "PENDING"

\* A session is interrupted in a transaction and says so, or leaves no record.
Interrupt ==
    /\ \/ /\ session.pc = "sent" /\ Fault("interrupt")
          /\ Persist(Record(Boundary))
       \/ session.pc \in {"sent", "ready"} /\ Fault("lost") /\ UNCHANGED records
    /\ session' = NoSession
    /\ UNCHANGED <<upstream, registry, work, requests, applied>>

\* A session whose transaction was refused or does not read back, or that has
\* nothing to do, ends without a record.
Leave ==
    /\ \/ session.pc = "sent" /\ session.answer = "REFUSED"
       \/ session.pc = "sent" /\ session.answer = "OK" /\ ~Matches(session.plan[1], session.plan[2], Truth)
       \/ session.pc \in {"ready", "reconcile"} /\ NextKind(session.mode, Truth) = "NONE"
    /\ session' = NoSession
    /\ UNCHANGED <<upstream, registry, work, records, requests, applied, faults>>

---------------------------------------------------------------------------
\* The registry beside the sessions, and the decision on human-by-exception.

\* Time runs out: for the selected work unit that is a fault, for others not.
ExpireLease(e) ==
    /\ IF e.wu = base THEN Fault("expiry") ELSE UNCHANGED faults
    /\ lease' = (lease \ {e}) \cup {[e EXCEPT !.expired = TRUE]}
    /\ UNCHANGED <<upstream, head, generation, work, records, session, requests, applied>>

\* Another writer claims a lease in the conflict domain.
RivalClaim ==
    /\ Live = {} /\ Fault("rival")
    /\ head' = head + 1 /\ generation' = generation + 1
    /\ lease' = lease \cup {[gen |-> generation + 1, wu |-> Rival, state |-> "ACTIVE", expired |-> FALSE]}
    /\ UNCHANGED <<upstream, work, records, session, requests, applied>>

\* The assessment lists the stale entries, beside exactly one writer.
AssessReadiness ==
    /\ readiness.state # "APPROVED" /\ Cardinality(Live) = 1
    /\ Generations(Stale) \notin {{}, readiness.stale}
    /\ readiness' = [state |-> "ASSESSED", stale |-> Generations(Stale)]
    /\ UNCHANGED <<main, base, drift, exception, registry, work, records, session, requests, applied, faults>>

\* The decision defers, while the stale entries are the ones assessed.
DeferReadiness ==
    /\ readiness.state = "ASSESSED" /\ Cardinality(Live) = 1
    /\ Generations(Stale) = readiness.stale
    /\ readiness' = [readiness EXCEPT !.state = "DEFERRED"]
    /\ UNCHANGED <<main, base, drift, exception, registry, work, records, session, requests, applied, faults>>

\* The stale entries are exactly the ones the owner was asked about, beside
\* the current writer's.
Reconcilable == Generations(Stale) = readiness.stale /\ Cardinality(Live) = 1

\* Only their state changes; the registry keeps its generation.
Reconciled == (lease \ Stale) \cup {[e EXCEPT !.state = "RELEASED"] : e \in Stale}

\* The owner's reconciliation of the entries the decision was deferred for.
Hygiene ==
    /\ readiness.state = "DEFERRED" /\ Reconcilable
    /\ head' = head + 1 /\ lease' = Reconciled
    /\ UNCHANGED <<upstream, generation, work, records, session, requests, applied, faults>>

\* The decision with no stale entry; no script validates the favourable
\* assessment it rests on.
ApproveReadiness ==
    /\ readiness.state # "APPROVED" /\ Stale = {} /\ Cardinality(Live) = 1
    /\ readiness' = [state |-> "APPROVED", stale |-> {}]
    /\ UNCHANGED <<main, base, drift, exception, registry, work, records, session, requests, applied, faults>>

---------------------------------------------------------------------------
\* The owner, CI and the default branch.

CompleteChecks ==
    /\ checks = "PENDING" /\ branch # -1
    /\ \/ checks' = "SUCCESS" /\ UNCHANGED faults
       \/ checks' = "FAILURE" /\ Fault("checks")
    /\ UNCHANGED <<upstream, registry, branch, records, session, requests, applied>>

\* The separate authority a failed check asks for.
RepairChecks ==
    /\ Failure /\ checks' = "PENDING"
    /\ UNCHANGED <<upstream, registry, branch, records, session, requests, applied, faults>>

ForeignCommit ==
    /\ main < MaxMain /\ Fault("foreign")
    /\ main' = main + 1
    /\ \E files \in {{}} \cup {{f} : f \in Files} : drift' = drift \cup files
    /\ UNCHANGED <<base, exception, readiness, registry, work, records, session, requests, applied>>

RepairPolicies ==
    /\ drift # {} /\ drift' = {}
    /\ UNCHANGED <<main, base, exception, readiness, registry, work, records, session, requests,
                   applied, faults>>

OwnerException ==
    /\ \/ ~exception /\ Fault("owner")
       \/ exception /\ UNCHANGED faults
    /\ exception' = ~exception
    /\ UNCHANGED <<main, base, drift, readiness, registry, work, records, session, requests, applied>>

\* The complete work is merged after its lease is released.
Merge ==
    /\ base = main /\ main < MaxMain /\ branch = LastHead /\ checks = "SUCCESS"
    /\ Owned = {} /\ \E e \in lease : e.wu = base /\ e.state = "RELEASED"
    /\ main' = main + 1
    /\ UNCHANGED <<base, drift, exception, readiness, registry, work, records, session, requests,
                   applied, faults>>

\* The next work unit, when the one before is merged or has a stale base.
NewWork ==
    /\ base # main
    /\ base' = main /\ branch' = -1 /\ checks' = "PENDING"
    /\ UNCHANGED <<main, drift, exception, readiness, registry, records, session, requests,
                   applied, faults>>

Next ==
    \/ \E mode \in Modes : Start(mode)
    \/ Reconcile \/ Delegate \/ Readback \/ Handoff \/ Interrupt \/ Leave
    \/ \E r \in requests : Apply(r)
    \/ \E e \in Live : ExpireLease(e)
    \/ RivalClaim \/ AssessReadiness \/ DeferReadiness \/ Hygiene \/ ApproveReadiness
    \/ CompleteChecks \/ RepairChecks \/ ForeignCommit \/ RepairPolicies \/ OwnerException
    \/ Merge \/ NewWork

\* Sessions are started and go on, requests are answered, other work units'
\* leases run out, and the owner does his part.
Fairness ==
    /\ WF_vars(\E mode \in Modes : Start(mode))
    /\ WF_vars(Reconcile \/ Delegate \/ Readback \/ Leave)
    /\ WF_vars(\E r \in requests : Apply(r))
    /\ WF_vars(\E e \in Live : e.wu # base /\ ExpireLease(e))
    /\ WF_vars(AssessReadiness \/ DeferReadiness \/ Hygiene \/ ApproveReadiness)
    /\ WF_vars(CompleteChecks \/ RepairChecks)
    /\ WF_vars(RepairPolicies \/ (exception /\ OwnerException))
    /\ WF_vars(Merge \/ NewWork)

Spec == Init /\ [][Next]_vars /\ Fairness

---------------------------------------------------------------------------
\* What the validators of evidence accept, of the running session before it
\* hands over and of the records.

\* Two iterations with one transaction each, the lease and then the branch,
\* which the last read finds at the base.
LeaseThenBranch(log) ==
    /\ Len(log) = 2 /\ log[1].kind = "LEASE" /\ log[2].kind = "BRANCH"
    /\ log[2].after.branch = 0

MainUnmoved(log) == log[2].after.main = log[2].after.base

\* Mutant: the registry is not compared again after the branch.
SameRegistryBefore(log) == log[2].before.head = log[1].after.head

\* The second iteration began on the registry the first one left and left it
\* alone.  Each commit of the state branch writes another registry, so the
\* head stands for the registry's blob as well.
SameRegistry(log) == log[2].before.head = log[1].after.head /\ log[2].after.head = log[1].after.head

\* The lease was claimed by the first iteration, whose commit is the head that
\* is read back, and the branch was absent before the second.
ChainedIterations(log) ==
    /\ LeaseThenBranch(log) /\ MainUnmoved(log)
    /\ log[1].after.gen = log[1].before.gen + 1 /\ log[1].after.head = log[1].before.head + 1
    /\ SameRegistry(log) /\ log[2].before.branch = -1

\* Every iteration is replayed before and after its transaction.
Replayed(log) ==
    \A i \in DOMAIN log : /\ SteadyState(i, i > 1, "NOT_STARTED") = "EXECUTE"
                          /\ SteadyState(i, i > 1, "COMPLETE") = "COMPLETE"

Wu114(log) ==
    /\ ChainedIterations(log) /\ ~Owns(log[1].before) /\ Owns(log[1].after)
    /\ Replayed(log)

\* The resumed session: the checkpoint is replayed, as it is and as an
\* interrupted one would be.
ResumeReplayed ==
    /\ Resume(prior.class, TRUE) = "RECOMPUTE"
    /\ Resume("UNKNOWN", TRUE) = "RECONCILE" /\ Resume("PENDING", FALSE) = "WAIT"

CompletionReplayed(log) == \A i \in DOMAIN log : SteadyState(i, i > 1, "COMPLETE") = "COMPLETE"

\* The classes of drift between the checkpoint and a work unit without CI.
DriftClass == [main |-> "current_main", base |-> "selected_work_unit", head |-> "provider_state",
               gen |-> "provider_state", live |-> "writer_lease", branch |-> "branch"]
DriftClasses(t) == {DriftClass[f] : f \in Drift(t)} \cup {c \in {"ci"} : prior.checks # "PENDING"}

\* A clean checkpoint of another work unit, superseded by fresh truth.  The
\* second iteration must find the registry as the first one left it; what
\* becomes of it then is not compared.
Wu116(start, log) ==
    /\ prior.class = "CLEAN"
    /\ DriftClasses(start) = {"current_main", "selected_work_unit", "provider_state", "writer_lease", "branch"}
    /\ LeaseThenBranch(log) /\ MainUnmoved(log)
    /\ log[1].after.gen = log[1].before.gen + 1
    /\ \A f \in {"head", "gen", "live"} : log[1].after[f] = log[2].before[f]
    /\ ResumeReplayed /\ CompletionReplayed(log)

\* The second session of the multi-session protocol and its record.
StartReplayed(start) ==
    /\ SessionStart(prior.class, start) = "START"
    /\ SessionStart("UNKNOWN", start) = "RECONCILE" /\ SessionStart("PENDING", start) = "WAIT"

IterationsReplayed(log) ==
    \A i \in DOMAIN log : /\ Iteration(i, i > 1, "COMPLETE") = "COMPLETE"
                          /\ Iteration(i, i > 1, "READBACK_PENDING") = "READBACK_REQUIRED"

RefreshReplayed == RefreshAllowed(prior, Record("CLEAN"))

\* Of the registry only the generation is compared, which a release and the
\* historical reconciliation keep.
Wu118(start, log) ==
    /\ prior.class = "CLEAN" /\ Drift(start) # {} /\ ~Owns(start) /\ LeaseThenBranch(log)
    /\ \E e \in lease : e.wu = prior.truth.base /\ e.state = "RELEASED"
    /\ log[1].before.gen = start.gen /\ log[1].after.gen = start.gen + 1
    /\ log[2].before.gen = start.gen + 1 /\ log[2].after.gen = start.gen + 1
    /\ StartReplayed(start) /\ IterationsReplayed(log) /\ RefreshReplayed

\* One controlled transaction, the branch, by the only ACTIVE entry there is.
OnlyActive == \E e \in Live : {f \in lease : f.state = "ACTIVE"} = {e} /\ e.wu = base /\ e.gen = generation

Wu127(log) ==
    /\ Len(log) = 1 /\ log[1].kind = "BRANCH" /\ OnlyActive
    /\ log[1].before.head = head /\ log[1].after.head = head
    /\ log[1].before.branch = -1 /\ log[1].after.branch = 0 /\ main = base

\* Two iterations, and a fresh claim after the first lease ran out; its entry
\* stays as it was.
Wu129(log) ==
    /\ Len(log) = 3 /\ ChainedIterations(SubSeq(log, 1, 2)) /\ log[3].kind = "LEASE"
    /\ log[1].before.live = {} /\ Owns(log[1].after)
    /\ log[3].before.head = log[1].after.head /\ log[3].before.live = {}
    /\ log[3].after.gen = log[3].before.gen + 1 /\ Owns(log[3].after)
    /\ \E e \in Stale : e.gen = log[1].after.gen

\* A resumed human-by-exception session, replayed with and without its lease,
\* at every boundary, and with a transaction of its own as the next one.
HbeReplayed(log) ==
    LET done == Range(Fingerprints(log))
        live == log[2].after
        gone == [live EXCEPT !.live = {}]
    IN  /\ HbeResume("CONTINUE", "CLEAN", done, <<>>, live) = "RECOMPUTE"
        /\ HbeResume("CONTINUE", "CLEAN", done, <<>>, gone) = "FRESH_LEASE"
        /\ HbeResume("CONTINUE", "UNKNOWN", done, <<>>, live) = "RECONCILE"
        /\ HbeResume("CONTINUE", "PENDING", done, <<>>, live) = "WAIT"
        /\ \A hbe \in {"OWNER_ESCALATION", "WAIT", "STOP", "SEPARATE_AUTHORITY", "BLOCKED"} :
              HbeResume(hbe, "CLEAN", done, <<>>, live) = hbe
        /\ \A txn \in done : HbeResume("CONTINUE", "CLEAN", done, txn, live) = "BLOCKED"

\* The lease's commit follows the head the session started on and is read
\* back; the registry is not compared after that.
Wu131(start, log) ==
    /\ prior.class = "CLEAN" /\ start.live = {} /\ start.branch = -1 /\ start.base = start.main
    /\ LeaseThenBranch(log) /\ MainUnmoved(log)
    /\ log[1].before.head = start.head /\ log[1].after.head = start.head + 1
    /\ log[1].after.gen = start.gen + 1
    /\ HbeReplayed(log)

\* Two sessions with one transaction each, of which the records keep the first.
Wu132(first, log) ==
    /\ Len(first) = 1 /\ first[1][1] = "LEASE"
    /\ Len(log) = 1 /\ log[1].kind = "BRANCH" /\ log[1].after.branch = 0
    /\ first[1][2] = log[1].before.base
    /\ Range(first) \cap Range(Fingerprints(log)) = {}

\* The transactions of the accepted evidence, of this session or of two.
Accepted ==
    LET log == session.log
        start == Head(session.start)
        own == Wu114(log) \/ Wu127(log) \/ Wu129(log)
               \/ Wu116(start, log) \/ Wu118(start, log) \/ Wu131(start, log)
    IN  IF session.pc # "ready" THEN {}
        ELSE (IF own THEN {Fingerprints(log)} ELSE {})
             \cup (IF Wu132(prior.txns, log) THEN {prior.txns \o Fingerprints(log)} ELSE {})

\* Evidence of a session that compares the registry around every iteration.
RegistryCompared(log) == Wu114(log) \/ Wu129(log)

---------------------------------------------------------------------------
\* Properties.

\* The state of the provider and of the sessions has its type; a work unit is
\* never based on a commit that does not exist, and a session is waiting for
\* a transaction exactly when it has planned one.
TypeOK ==
    /\ base \in 0..main /\ main \in 0..MaxMain /\ drift \subseteq Files /\ head \in Nat /\ generation \in 0..head
    /\ lease \subseteq Entries /\ \A e \in lease : e.gen <= generation
    /\ branch \in -1..LastHead /\ checks \in {"PENDING", "SUCCESS", "FAILURE"}
    /\ exception \in BOOLEAN /\ readiness.state \in {"NONE", "ASSESSED", "DEFERRED", "APPROVED"}
    /\ session.pc \in {"none", "ready", "reconcile", "sent"}
    /\ session.id \in {0} \cup SessionIds /\ session.mode \in {"NONE"} \cup Modes
    /\ session.answer \in {"NONE", "OK", "REFUSED"}
    /\ (session.pc = "sent") = (session.plan # <<>>)
    /\ \A t \in {session.start[i] : i \in DOMAIN session.start} : t \in Truths
    /\ \A i \in DOMAIN session.log : session.log[i] \in [kind : Kinds, before : Truths, after : Truths]
    /\ \A r \in requests : r \in [session : SessionIds, kind : Kinds, at : Truths, after : Nat]
    /\ prior = NoRecord \/ RecordValid(prior)
    /\ faults \in 0..MaxFaults

\* Of the entries of the registry at most one is living, whatever sessions
\* resumed from a record, lost requests and rival writers do.
OneLivingLease == Cardinality(Live) <= 1

\* A transaction that a session completed or a record names was applied by
\* the provider exactly once, and is named once.
TransactionsHappenOnce ==
    LET Times(log, txn) == Cardinality({k \in DOMAIN log : log[k] = txn})
        done == completed \o Fingerprints(session.log)
        provider == [k \in DOMAIN applied |-> applied[k].txn]
    IN  \A txn \in Completed : Times(provider, txn) = 1 /\ Times(done, txn) = 1

\* A clean record is a fence: what an earlier session sent to the registry and
\* never heard of can no longer be applied once it is there.
CleanIsFenced ==
    \A r \in requests :
        prior.class = "CLEAN" /\ r.after < prior.seq /\ r.kind \in {"LEASE", "RELEASE"} => ~Accepts(r)

\* Evidence the validators accept tells the truth: its transactions were
\* applied in this order, and where the registry is compared around every
\* iteration (WU114, WU129) nobody wrote it between the lease and the branch.
EvidenceIsTrue ==
    \A evidence \in Accepted : \A i \in DOMAIN evidence :
        \E k \in DOMAIN applied :
            /\ applied[k].txn = evidence[i]
            /\ i > 1 => \E h \in 1..k - 1 : applied[h].txn = evidence[i - 1]
            /\ i > 1 /\ evidence = Fingerprints(session.log) /\ RegistryCompared(session.log) =>
                    applied[k].head = evidence[1][3] + 1

\* A work unit nobody can go on with: a record says a readback is pending, or
\* its lease is gone and its branch is not, nothing was released, and no
\* human-by-exception session may claim a fresh lease.
Wedged ==
    \/ prior.class = "PENDING"
    \/ /\ branch # -1 /\ Owned = {}
       /\ IF branch = LastHead THEN \A e \in lease : e.wu = base => e.state # "RELEASED"
                               ELSE readiness.state # "APPROVED"

\* The work unit that is selected ends, through interrupted sessions, lost
\* requests and leases that run out, unless it is wedged.
WorkEnds ==
    \A b \in 0..MaxMain - 1 : (base = b) ~> (main > b \/ Wedged)
=============================================================================
