-------------------------- MODULE ContinuationLoop --------------------------
(***************************************************************************)
(* The autonomous continuation of the development pipeline: sessions read  *)
(* the provider (GitHub), run the chain of evaluators in                   *)
(* .pncc-dev/scripts -- continuation, materialization planner, control     *)
(* loop, CI inspection, execution admission, merge eligibility -- and send *)
(* the one transaction that was admitted.  The evaluators only see what    *)
(* was read; between a read and the moment the provider applies the        *)
(* transaction other sessions, the owner and late requests may act.        *)
(*                                                                         *)
(* The default branch is a sequence of commits.  A commit records the      *)
(* governed frontier (a contract file of the tree), the issue whose pull   *)
(* request it merges (0: somebody else's commit) and the contract files    *)
(* that differ from what the other contracts pin.                          *)
(***************************************************************************)
EXTENDS Integers, Sequences, FiniteSets

CONSTANTS
    Sessions,       \* continuation sessions that may overlap
    LastFrontier,   \* frontiers 1 .. LastFrontier are worked, 0 is NONE
    Workflows,      \* CI workflows of a pull request
    Required,       \* required_workflows of the CI inspection policy
    Gate,           \* the workflow that checks the frontier (pipeline-state)
    DriftFiles,     \* contract files a commit from outside may change
    OwnerMarks,     \* marker states the owner may write into an open issue
    FreshCheckout,  \* a session checks out the head it reads
    MaxIssues,      \* bound: issues of the instance
    FaultKinds,     \* the kinds of faults that happen
    MaxFaults       \* bound: faults of the instance

\* The contract files.
Files == {"readiness", "binding", "selector", "planner", "materialization", "grants", "continuation",
          "lifecycle", "ci", "control", "admission", "executor", "claim", "lease"}

ASSUME ConstantsAssumption ==
    /\ Sessions # {} /\ LastFrontier \in Nat \ {0} /\ MaxIssues \in Nat \ {0}
    /\ Gate \in Required /\ Required \subseteq Workflows
    /\ DriftFiles \subseteq Files /\ FreshCheckout \in BOOLEAN
    /\ FaultKinds \subseteq {"timeout", "expiry", "foreign", "ci", "mark"}
    /\ MaxFaults \in Nat

VARIABLES
    main,       \* commits of the default branch, the latest last
    issue,      \* issues: [open, wu, frontier, base, mark]
    lease,      \* Writer Lease of the work unit of each issue
    branch,     \* work branch of each issue: [head, frontier], head -1: none
    pull,       \* pull request of each issue: [state, base, merge]
    ci,         \* workflow runs at the head of each pull request
    pc,         \* what each session does
    seen,       \* what it has read: [head, checkout, open]
    inflight,   \* requests the provider has not applied
    faults      \* faults so far

provider == <<main, issue, lease, branch, pull, ci>>
vars == <<main, issue, lease, branch, pull, ci, pc, seen, inflight, faults>>

Numbers == 1..MaxIssues
Issues == 1..Len(issue)
Tip == Len(main)
NoBranch == [head |-> -1, frontier |-> 0]
NoPull == [state |-> "NONE", base |-> 0, merge |-> 0]
NothingSeen == [head |-> 0, checkout |-> 0, open |-> {}]
NoRuns == [w \in Workflows |-> "absent"]

\* Mutant: the last frontier is succeeded by itself.
FollowingReplayed(f) == IF f = LastFrontier THEN f ELSE f + 1

\* A frontier is succeeded by the next one, the last by NONE.
Following(f) == IF f = LastFrontier THEN 0 ELSE f + 1

Fault(k) == k \in FaultKinds /\ faults < MaxFaults /\ faults' = faults + 1

---------------------------------------------------------------------------
\* Contracts and pins.  Every evaluator reads its policy and the blobs it
\* pins from the local checkout, and blocks when one does not match.

Valid(c, file) == <<file, "invalid">> \notin main[c].drift
Pinned(c, files) == \A f \in files, k \in {"changed", "invalid"} : <<f, k>> \notin main[c].drift

ReadinessGuard(c) == Valid(c, "readiness")
SelectorGuard(c) == ReadinessGuard(c) /\ Valid(c, "binding")

ContinuationPins(c) == Pinned(c, {"selector", "planner", "materialization", "grants"})
ContinuationPolicy(c) == Valid(c, "continuation") /\ ContinuationPins(c) /\ SelectorGuard(c)

PlannerPins(c) == Pinned(c, {"selector"})
PlannerPolicy(c) == Valid(c, "materialization") /\ PlannerPins(c)

CiPins(c) == Pinned(c, {"continuation", "selector", "planner", "grants", "lifecycle"})
CiPolicy(c) == Valid(c, "ci") /\ CiPins(c)

ControlPins(c) == Pinned(c, {"continuation", "ci", "grants", "executor"})
ControlPolicy(c) == Valid(c, "control") /\ ControlPins(c)

AdmissionPins(c) == Pinned(c, {"control", "grants", "executor"})
AdmissionPolicy(c) == Valid(c, "admission") /\ AdmissionPins(c)

ExecutorPins(c) == Pinned(c, {"grants"})
ExecutorAuthority(c) == Valid(c, "executor") /\ ExecutorPins(c)

ClaimPolicy(c) == Valid(c, "claim")
LeasePolicy(c) == Valid(c, "lease")

LifecyclePins(c) == Pinned(c, {"planner", "materialization", "grants", "selector"})
LifecyclePolicy(c) == Valid(c, "lifecycle") /\ LifecyclePins(c)

---------------------------------------------------------------------------
\* The work unit selector, on the open issues a session has read.

Live(open) == {e \in open : e.mark \notin {"DONE", "SUPERSEDED"}}

\* A marker that does not parse, or two live work units with one id or one
\* conflict domain (the frontier names it), stop the selection.
Ambiguous(open) ==
    \/ \E e \in open : e.mark = "MALFORMED"
    \/ \E e, f \in Live(open) :
          /\ e.number # f.number
          /\ \/ issue[e.number].wu = issue[f.number].wu
             \/ issue[e.number].frontier = issue[f.number].frontier

Class(e, head) ==
    IF e.mark \in {"DONE", "SUPERSEDED"} THEN "TERMINAL"
    ELSE IF e.mark = "BLOCKED"           THEN "BLOCKED"
    ELSE IF e.mark = "VERIFYING"         THEN "WAITING_PROVIDER"
    ELSE IF e.mark = "RUNTIME"           THEN "WAITING_RUNTIME"
    ELSE IF issue[e.number].base # head  THEN "STALE_BASE"
    ELSE "EXECUTABLE"

Executable(open, head) == {e \in open : Class(e, head) = "EXECUTABLE"}

Disposition(open, head) ==
    LET classes == {Class(e, head) : e \in open} \ {"TERMINAL"}
    IN  IF "EXECUTABLE" \in classes           THEN "EXECUTABLE"
        ELSE IF "WAITING_RUNTIME" \in classes THEN "WAITING_RUNTIME"
        ELSE IF classes # {}                  THEN "BLOCKED"
        ELSE "NO_WORK"

---------------------------------------------------------------------------
\* The continuation decision: the selector on the open issues, and the
\* planner on the complete history when there is no work.

\* The open issues are read before the history: they must agree.
InventoryAgrees(open) ==
    \A e \in open : issue[e.number].open /\ issue[e.number].mark = e.mark

Materialization(c) ==
    IF ~PlannerPolicy(c) THEN "BLOCKED"
    ELSE IF main[c].frontier = 0 THEN "NO_FRONTIER"
    ELSE IF \E n \in Issues : issue[n].mark = "MALFORMED" \/ issue[n].open THEN "BLOCKED"
    ELSE "PLAN_MATERIALIZATION"

Continuation(v) ==
    IF \/ ~ContinuationPolicy(v.checkout)
       \/ ~InventoryAgrees(v.open)
       \/ Ambiguous(v.open)
    THEN "BLOCKED"
    ELSE LET d == Disposition(v.open, v.head)
         IN  CASE d = "EXECUTABLE" ->
                    IF Cardinality(Executable(v.open, v.head)) = 1 THEN "CONTINUE" ELSE "BLOCKED"
               [] d = "NO_WORK" -> Materialization(v.checkout)
               [] OTHER         -> d

\* max(suffix) + 1 over the markers of the history.
NextId == 1 + CHOOSE i \in {issue[n].wu : n \in Issues} : \A n \in Issues : issue[n].wu <= i

---------------------------------------------------------------------------
\* CI inspection at the exact head of the pull request.

Registered(n) == {w \in Workflows : ci[n][w] # "absent"}

\* Mutant: a required workflow that has not registered is not missed.
CiDecisionOfRegistered(c, n) ==
    IF ~CiPolicy(c) \/ Registered(n) = {} THEN "BLOCKED"
    ELSE CASE \E w \in Registered(n) : ci[n][w] = "pending" -> "CI_PENDING"
           [] \A w \in Registered(n) : ci[n][w] = "success" -> "CI_SUCCESS"
           [] OTHER -> "FAILURE"

CiDecision(c, n) ==
    IF ~CiPolicy(c) \/ Registered(n) = {} \/ ~(Required \subseteq Registered(n)) THEN "BLOCKED"
    ELSE CASE \E w \in Registered(n) : ci[n][w] = "pending" -> "CI_PENDING"
           [] \A w \in Registered(n) : ci[n][w] = "success" -> "CI_SUCCESS"
           [] OTHER -> "FAILURE"

\* The pipeline-state workflow: a branch that changes the frontier file must
\* carry a transition made for the pull request's base; one that leaves the
\* file alone is NOT_APPLICABLE, and passes.
TransitionEligible(n) ==
    LET predecessor == main[pull[n].base].frontier
    IN  /\ LifecyclePolicy(pull[n].base)
        /\ issue[n].base = pull[n].base
        /\ predecessor # 0 /\ branch[n].frontier # predecessor

FrontierGate(n) ==
    branch[n].frontier # main[pull[n].base].frontier => TransitionEligible(n)

---------------------------------------------------------------------------
\* The control loop: the next step of the selected work unit, from its
\* lease, branch and pull request.

\* Mutant: an expired lease is not taken for history.
LeaseStateRecorded(n) == lease[n]

\* An expired lease is history; the loop knows NONE, ACTIVE and RELEASED.
LeaseState(n) == IF lease[n] = "EXPIRED" THEN "NONE" ELSE lease[n]

Step(n, v) ==
    IF branch[n].head = -1 THEN
       (CASE LeaseState(n) = "NONE"   -> "acquire"
          [] LeaseState(n) = "ACTIVE" -> "branch"
          [] OTHER                    -> "none")
    ELSE IF LeaseState(n) = "NONE" THEN "none"
    ELSE IF pull[n].state = "NONE" THEN
       (IF LeaseState(n) # "ACTIVE" THEN "none"
        ELSE IF branch[n].head = 0 THEN "push" ELSE "pr")
    ELSE IF pull[n].state # "OPEN" \/ pull[n].base # v.head THEN "none"
    ELSE IF CiDecision(v.checkout, n) # "CI_SUCCESS" THEN "none"
    ELSE IF lease[n] = "ACTIVE" THEN "release" ELSE "merge"

\* The merge moved main past the base of its own issue: the selector calls
\* the issue STALE_BASE and the loop recognises its own merge.
PostMerge(v) ==
    LET live == {e \in v.open : Class(e, v.head) # "TERMINAL"}
    IN  {e.number : e \in {x \in live :
            /\ live = {x} /\ Class(x, v.head) = "STALE_BASE"
            /\ lease[x.number] = "RELEASED" /\ branch[x.number].head # -1
            /\ pull[x.number].state = "MERGED"
            /\ pull[x.number].base = issue[x.number].base
            /\ pull[x.number].merge = v.head}}

\* The control loop's plan: <<act, issue>>.
Control(v) ==
    LET d == Continuation(v)
    IN  IF ~ControlPolicy(v.checkout) THEN <<"none", 0>>
        ELSE IF d = "PLAN_MATERIALIZATION" THEN <<"create", 0>>
        ELSE IF d = "CONTINUE" THEN
             LET n == (CHOOSE e \in Executable(v.open, v.head) : TRUE).number
             IN  <<Step(n, v), n>>
        ELSE IF d = "BLOCKED" /\ ContinuationPolicy(v.checkout) /\ ~Ambiguous(v.open)
                /\ PostMerge(v) # {} THEN <<"close", CHOOSE n \in PostMerge(v) : TRUE>>
        ELSE <<"none", 0>>

---------------------------------------------------------------------------
\* Execution admission and merge eligibility.

\* Mutant: the claim does not look at the conflict domain.
ClaimAny(n) == TRUE

\* Mutant: an expired lease still holds the conflict domain.
ClaimUnlessHeld(n) ==
    \A m \in Issues \ {n} : lease[m] \in {"ACTIVE", "EXPIRED"} => issue[m].frontier # issue[n].frontier

ClaimEligible(n) ==
    \A m \in Issues : lease[m] = "ACTIVE" => issue[m].frontier # issue[n].frontier

\* Every transaction on a selected work unit, the close after its merge
\* included, needs the base of the work unit to be the current main.
Selected(n, v) == issue[n].open /\ issue[n].base = v.head

\* GitHub merges the pull request when main and the work branch did not
\* both change the frontier file since the base, or changed it alike.
Mergeable(n) ==
    \/ main[Tip].frontier = main[issue[n].base].frontier
    \/ branch[n].frontier \in {main[issue[n].base].frontier, main[Tip].frontier}

Eligible(n, v) ==
    /\ ExecutorAuthority(v.checkout)
    /\ Selected(n, v) /\ issue[n].mark = "READY"
    /\ pull[n].state = "OPEN" /\ pull[n].base = v.head /\ Mergeable(n)
    /\ CiDecision(v.checkout, n) = "CI_SUCCESS"
    /\ lease[n] = "RELEASED"

Admitted(act, n, v) ==
    /\ AdmissionPolicy(v.checkout)
    /\ CASE act = "none"    -> FALSE
         [] act = "create"  -> TRUE
         [] act = "acquire" -> Selected(n, v) /\ ClaimPolicy(v.checkout) /\ ClaimEligible(n)
         [] act = "release" -> Selected(n, v) /\ LeasePolicy(v.checkout) /\ lease[n] = "ACTIVE"
         [] act = "close"   -> Selected(n, v) /\ lease[n] = "RELEASED"
         [] act = "merge"   -> Selected(n, v) /\ Eligible(n, v)
         [] OTHER           -> Selected(n, v) /\ lease[n] = "ACTIVE"

---------------------------------------------------------------------------
\* The sessions.

Init ==
    /\ main = << [frontier |-> 1, issue |-> 0, drift |-> {}] >>
    /\ issue = << [open |-> FALSE, wu |-> 1, frontier |-> 0, base |-> 0, mark |-> "READY"] >>
    /\ lease = [n \in Numbers |-> "NONE"]
    /\ branch = [n \in Numbers |-> NoBranch]
    /\ pull = [n \in Numbers |-> NoPull]
    /\ ci = [n \in Numbers |-> NoRuns]
    /\ pc = [s \in Sessions |-> "idle"]
    /\ seen = [s \in Sessions |-> NothingSeen]
    /\ inflight = {}
    /\ faults = 0

\* The session reads the head of main.  Its checkout is that commit, or an
\* earlier one: no evaluator compares the two.
ReadHead(s) ==
    /\ pc[s] = "idle"
    /\ \E c \in IF FreshCheckout THEN {Tip} ELSE 1..Tip :
          seen' = [seen EXCEPT ![s] = [head |-> Tip, checkout |-> c, open |-> {}]]
    /\ pc' = [pc EXCEPT ![s] = "open"]
    /\ UNCHANGED <<provider, inflight, faults>>

ReadOpen(s) ==
    /\ pc[s] = "open"
    /\ seen' = [seen EXCEPT ![s].open =
          {[number |-> n, mark |-> issue[n].mark] : n \in {m \in Issues : issue[m].open}}]
    /\ pc' = [pc EXCEPT ![s] = "decide"]
    /\ UNCHANGED <<provider, inflight, faults>>

\* What the session sends: the proposal carries the head it read and the
\* frontier of its checkout; a push and a merge name the exact branch head.
Request(s, act, n) ==
    LET v == seen[s]
    IN  [session |-> s, act |-> act, number |-> n, late |-> FALSE,
         wu |-> IF act = "create" THEN NextId ELSE 0,
         at |-> IF act \in {"push", "merge"} THEN branch[n].head ELSE v.head,
         frontier |-> IF act = "create" THEN main[v.checkout].frontier ELSE 0]

\* The history and the execution state are read, the evaluators run, and the
\* admitted transaction is sent; otherwise the session waits or stops.
Decide(s) ==
    /\ pc[s] = "decide"
    /\ LET plan == Control(seen[s])
           sends == Admitted(plan[1], plan[2], seen[s])
       IN  /\ inflight' = IF sends THEN inflight \cup {Request(s, plan[1], plan[2])} ELSE inflight
           /\ pc' = [pc EXCEPT ![s] = IF sends THEN "wait" ELSE "idle"]
    /\ seen' = [seen EXCEPT ![s] = NothingSeen]
    /\ UNCHANGED <<provider, faults>>

\* The session is interrupted, or gives up on the answer: the request may
\* still be applied.
Timeout(r) ==
    /\ ~r.late /\ Fault("timeout")
    /\ inflight' = (inflight \ {r}) \cup {[r EXCEPT !.late = TRUE]}
    /\ pc' = [pc EXCEPT ![r.session] = "idle"]
    /\ UNCHANGED <<provider, seen>>

\* A request nobody waits for may be lost.
Lose(r) ==
    /\ r.late
    /\ inflight' = inflight \ {r}
    /\ UNCHANGED <<provider, pc, seen, faults>>

---------------------------------------------------------------------------
\* The provider applies a request, or rejects it.

\* What GitHub and the lease executor (WriterLease.tla) check when they get
\* the request.  A merge names the head it expects, not the base.
Accepts(r) ==
    LET n == r.number
    IN  CASE r.act = "create"  -> Len(issue) < MaxIssues
          [] r.act = "acquire" -> /\ issue[n].open /\ issue[n].base = Tip
                                  /\ LeaseState(n) = "NONE" /\ ClaimEligible(n)
          [] r.act = "branch"  -> branch[n].head = -1
          [] r.act = "push"    -> branch[n].head = r.at
          [] r.act = "pr"      -> pull[n].state = "NONE"
          [] r.act = "release" -> lease[n] = "ACTIVE"
          [] OTHER -> pull[n].state = "OPEN" /\ branch[n].head = r.at /\ Mergeable(n)

CreateIssue(r) ==
    /\ r.act = "create"
    /\ issue' = Append(issue, [open |-> TRUE, wu |-> r.wu, frontier |-> r.frontier,
                               base |-> r.at, mark |-> "READY"])
    /\ UNCHANGED <<main, lease, branch, pull, ci>>

ChangeLease(r) ==
    /\ r.act \in {"acquire", "release"}
    /\ lease' = [lease EXCEPT ![r.number] = IF r.act = "acquire" THEN "ACTIVE" ELSE "RELEASED"]
    /\ UNCHANGED <<main, issue, branch, pull, ci>>

CreateBranch(r) ==
    /\ r.act = "branch"
    /\ branch' = [branch EXCEPT ![r.number] = [head |-> 0, frontier |-> main[r.at].frontier]]
    /\ UNCHANGED <<main, issue, lease, pull, ci>>

\* The work unit's commit advances the frontier in the same branch.
PushCommit(r) ==
    /\ r.act = "push"
    /\ branch' = [branch EXCEPT ![r.number] = [head |-> r.at + 1, frontier |-> Following(@.frontier)]]
    /\ UNCHANGED <<main, issue, lease, pull, ci>>

CreatePullRequest(r) ==
    /\ r.act = "pr"
    /\ pull' = [pull EXCEPT ![r.number] = [state |-> "OPEN", base |-> Tip, merge |-> 0]]
    /\ UNCHANGED <<main, issue, lease, branch, ci>>

\* Mutant: the merge is recorded at the commit it replaces.
MergePullRequestEarly(r) ==
    /\ r.act = "merge"
    /\ LET n == r.number
       IN  /\ main' = Append(main, [frontier |-> branch[n].frontier, issue |-> n,
                                    drift |-> main[Tip].drift])
           /\ pull' = [pull EXCEPT ![n].state = "MERGED", ![n].merge = Tip]
    /\ UNCHANGED <<issue, lease, branch, ci>>

\* A three-way merge of the frontier file onto whatever main is now.
MergePullRequest(r) ==
    /\ r.act = "merge"
    /\ LET n == r.number
           unchanged == branch[n].frontier = main[issue[n].base].frontier
       IN  /\ main' = Append(main,
                 [frontier |-> IF unchanged THEN main[Tip].frontier ELSE branch[n].frontier,
                  issue |-> n, drift |-> main[Tip].drift])
           /\ pull' = [pull EXCEPT ![n].state = "MERGED", ![n].merge = Tip + 1]
    /\ UNCHANGED <<issue, lease, branch, ci>>

Apply(r) ==
    /\ \/ /\ Accepts(r)
          /\ \/ CreateIssue(r) \/ ChangeLease(r) \/ CreateBranch(r)
             \/ PushCommit(r) \/ CreatePullRequest(r) \/ MergePullRequest(r)
       \/ ~Accepts(r) /\ UNCHANGED provider
    /\ inflight' = inflight \ {r}
    /\ pc' = IF r.late THEN pc ELSE [pc EXCEPT ![r.session] = "idle"]
    /\ UNCHANGED <<seen, faults>>

---------------------------------------------------------------------------
\* Everybody else: GitHub Actions, the clock and the owner.

\* A workflow run appears for the head of an open pull request, and ends.
RegisterRun(n, w) ==
    /\ pull[n].state = "OPEN" /\ ci[n][w] = "absent"
    /\ ci' = [ci EXCEPT ![n][w] = "pending"]
    /\ UNCHANGED <<main, issue, lease, branch, pull, pc, seen, inflight, faults>>

CompleteRun(n, w) ==
    /\ ci[n][w] = "pending"
    /\ IF w = Gate /\ ~FrontierGate(n)
       THEN ci' = [ci EXCEPT ![n][w] = "failure"] /\ UNCHANGED faults
       ELSE \/ ci' = [ci EXCEPT ![n][w] = "success"] /\ UNCHANGED faults
            \/ ci' = [ci EXCEPT ![n][w] = "failure"] /\ Fault("ci")
    /\ UNCHANGED <<main, issue, lease, branch, pull, pc, seen, inflight>>

\* A lease expires: any time under a slow work unit, for sure after its end.
ExpireLease(n) ==
    /\ lease[n] = "ACTIVE"
    /\ IF issue[n].open THEN Fault("expiry") ELSE UNCHANGED faults
    /\ lease' = [lease EXCEPT ![n] = "EXPIRED"]
    /\ UNCHANGED <<main, issue, branch, pull, ci, pc, seen, inflight>>

\* A commit from outside the loop; it may change a pinned contract file.
ForeignCommit ==
    /\ Fault("foreign")
    /\ \E d \in SUBSET (DriftFiles \X {"changed", "invalid"}) :
          /\ Cardinality(d) <= 1
          /\ main' = Append(main, [frontier |-> main[Tip].frontier, issue |-> 0,
                                   drift |-> main[Tip].drift \cup d])
    /\ UNCHANGED <<issue, lease, branch, pull, ci, pc, seen, inflight>>

RepairContracts ==
    /\ main[Tip].drift # {}
    /\ main' = Append(main, [main[Tip] EXCEPT !.issue = 0, !.drift = {}])
    /\ UNCHANGED <<issue, lease, branch, pull, ci, pc, seen, inflight, faults>>

\* A failed run is repaired by a commit of the owner, which starts CI anew.
RepairBranch(n) ==
    /\ pull[n].state = "OPEN" /\ FrontierGate(n) /\ \E w \in Workflows : ci[n][w] = "failure"
    /\ branch' = [branch EXCEPT ![n].head = @ + 1]
    /\ ci' = [ci EXCEPT ![n] = NoRuns]
    /\ UNCHANGED <<main, issue, lease, pull, pc, seen, inflight, faults>>

\* The owner holds an issue back by its marker, and hands it over again.
MarkIssue(n) ==
    /\ issue[n].open /\ issue[n].mark = "READY" /\ Fault("mark")
    /\ \E m \in OwnerMarks : issue' = [issue EXCEPT ![n].mark = m]
    /\ UNCHANGED <<main, lease, branch, pull, ci, pc, seen, inflight>>

RestoreMark(n) ==
    /\ issue[n].mark \in OwnerMarks
    /\ issue' = [issue EXCEPT ![n].mark = "READY"]
    /\ UNCHANGED <<main, lease, branch, pull, ci, pc, seen, inflight, faults>>

\* The work unit cannot go on: its base passed by (by its own merge, too), its
\* branch left without a lease, or the younger of two for one frontier.
Finished(n) ==
    \/ issue[n].base # Tip
    \/ branch[n].head # -1 /\ LeaseState(n) = "NONE"
    \/ \E m \in Issues : m < n /\ issue[m].open /\ issue[m].frontier = issue[n].frontier

\* The owner closes its issue, and the pull request of work he gives up.
CloseIssue(n) ==
    /\ issue[n].open /\ Finished(n)
    /\ issue' = [issue EXCEPT ![n].open = FALSE]
    /\ pull' = [pull EXCEPT ![n].state = IF @ = "MERGED" THEN @ ELSE "CLOSED"]
    /\ UNCHANGED <<main, lease, branch, ci, pc, seen, inflight, faults>>

Session(s) == ReadHead(s) \/ ReadOpen(s) \/ Decide(s)

Owner(n) == RepairBranch(n) \/ RestoreMark(n) \/ CloseIssue(n)

Next ==
    \/ \E s \in Sessions : Session(s)
    \/ \E r \in inflight : Timeout(r) \/ Lose(r) \/ Apply(r)
    \/ \E n \in Issues, w \in Workflows : RegisterRun(n, w) \/ CompleteRun(n, w)
    \/ \E n \in Issues : ExpireLease(n) \/ MarkIssue(n) \/ Owner(n)
    \/ ForeignCommit \/ RepairContracts

Answer(s) == \E r \in inflight : r.session = s /\ ~r.late /\ Apply(r)

\* Sessions run again and again, the provider answers whoever waits, workflow
\* runs start and end, leases of closed work end, and the owner tends to what
\* the loop leaves to him.
Fairness ==
    /\ \A s \in Sessions : WF_vars(Session(s)) /\ WF_vars(Answer(s))
    /\ WF_vars(\E n \in Issues, w \in Workflows : RegisterRun(n, w) \/ CompleteRun(n, w))
    /\ WF_vars(\E n \in Issues : ~issue[n].open /\ ExpireLease(n))
    /\ WF_vars(RepairContracts \/ \E n \in Issues : Owner(n))

Spec == Init /\ [][Next]_vars /\ Fairness

---------------------------------------------------------------------------
\* Properties.

Marks == {"READY"} \cup OwnerMarks
Commits == [frontier : 0..LastFrontier, issue : 0..MaxIssues,
            drift : SUBSET (Files \X {"changed", "invalid"})]

\* Types of the state; a merged pull request is a commit of its issue on main.
TypeOK ==
    /\ main \in Seq(Commits)
    /\ issue \in Seq([open : BOOLEAN, wu : Nat, frontier : 0..LastFrontier, base : 0..Tip,
                      mark : Marks])
    /\ Len(issue) <= MaxIssues
    /\ lease \in [Numbers -> {"NONE", "ACTIVE", "EXPIRED", "RELEASED"}]
    /\ branch \in [Numbers -> [head : Nat \cup {-1}, frontier : 0..LastFrontier]]
    /\ pull \in [Numbers -> [state : {"NONE", "OPEN", "CLOSED", "MERGED"}, base : 0..Tip, merge : 0..Tip]]
    /\ ci \in [Numbers -> [Workflows -> {"absent", "pending", "success", "failure"}]]
    /\ pc \in [Sessions -> {"idle", "open", "decide", "wait"}]
    /\ \A s \in Sessions : pc[s] = "wait" <=> \E r \in inflight : r.session = s /\ ~r.late
    /\ \A n \in Numbers : pull[n].state = "MERGED" => main[pull[n].merge].issue = n

\* What is merged is what CI tested: every required workflow has passed at
\* the head that went to main, and the writer gave up the lease first,
\* whatever ran between the decision and the merge (late runs, repairs).
MergedIsTested ==
    \A n \in Issues : pull[n].state = "MERGED" =>
        lease[n] = "RELEASED" /\ \A w \in Required : ci[n][w] = "success"

\* A completed frontier is not worked and merged again, as the lifecycle policy
\* says (completed_frontier_replay_forbidden).
CompletedIsNotReplayed ==
    \A m, n \in Issues :
        m # n /\ pull[m].state = "MERGED" /\ pull[n].state = "MERGED" =>
            issue[m].frontier # issue[n].frontier

\* Two unfinished work units for one frontier never both get a lease.
OneWriterPerFrontier ==
    \A m, n \in Issues :
        m # n /\ issue[m].frontier = issue[n].frontier => {lease[m], lease[n]} # {"ACTIVE"}

\* Every work unit comes to its end.
WorkUnitsEnd == <>[](\A n \in Issues : ~issue[n].open)

\* The frontiers of the issues that the commits merge, in their order.
MergedFrontiers(commits, issues) ==
    LET upto[c \in 0..Len(commits)] ==
            IF c = 0 THEN <<>>
            ELSE IF commits[c].issue = 0 THEN upto[c - 1]
            ELSE Append(upto[c - 1], issues[commits[c].issue].frontier)
    IN  upto[Len(commits)]

Pipeline == INSTANCE FrontierPipeline
                WITH frontier <- main[Tip].frontier, done <- MergedFrontiers(main, issue)

\* The loop merges every frontier exactly once and in order, ...
KeepsPipelineOrder == Pipeline!Safety

\* ... and reaches the end.
ImplementsPipeline == Pipeline!Spec
=============================================================================
