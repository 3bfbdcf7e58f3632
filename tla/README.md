# VPS Control Center: TLA+ models

This directory holds TLA+ models of VPS Control Center (VCC), the Windows
product that routes selected services through a VPS, and of the governance
machinery ("ADWF") that agents use to change its repository. TLC checks the
models on small instances; TLAPS proves theorems about each of the six, and two
refinements, for every value of the constants. Paths below are relative to the
repository; `V6.3.1` stands for `src/rollback-base/VPS-Control-v6.3.1.ps1` and
`V6.5` for the replacements that
`src/windows-v7/VPS-Control-v7-engine-upgrade.ps1` makes in it: the engine that
runs is V6.3.1 with these functions replaced. Names of Python files are those of
`.pncc-dev/scripts`.

## 1. Inventory

### The product

| component | state it keeps | operations |
|---|---|---|
| routing engine (V6.3.1, V6.5) | `routing-config.json` (mode DIRECT / AUTO / VPS per service), `runtime-state.json` (override, routes in effect, profile hash, health), the Proxifier profile and the last known good one | Apply, Direct, RestartTunnel, StopTunnel, AutoStart, saving a mode, status, self-test |
| watchdog (`Invoke-Watchdog`) | its process, `watchdog.pid`, a heartbeat, AUTO counters in the runtime state | a round: read, repair the tunnel, probe, decide, apply under the mutex |
| SOCKS 1081 tunnel (V6.5) | PuTTY processes, the port, the named mutex `VPSControl-VCC-SOCKS-1081` | `Ensure-SocksTunnel`, `Stop-TunnelProcess`, `Start-PuttyTunnel` |
| reserve tunnel 1080 (tunnel manager) | a second PuTTY, its status file | manual start and stop with ownership checks |
| control center (V7, Windows Forms) | the running engine process, recovery attempts and their backoff | starting engine actions, saving the configuration, runtime recovery on a timer |
| modules/V7-*, evidence worker, Keenetic, VM gateway, VPS manager | reports, snapshots, device settings | mostly input and output |

Engine processes, watchdogs and the control center meet in files, in Proxifier
and in two mutexes. `Invoke-WithMutationLock` (V6.3.1:364) serialises the
mutations, waits 15 s and accepts an abandoned mutex. The 1081 mutex (V6.5)
serialises the tunnel, since the watchdog repairs it without the mutation
mutex. The engine starts the watchdog, records its pid and kills it; the
control center starts engine processes and reads what they leave.

What is hard: the watchdog decides on what it read without a mutex; the engine
kills it at any point; pid files are cleaned by readers; a failed load leaves
Proxifier with a profile nobody chose; PuTTY may come up after everybody has
given up on it; an Apply that nobody asked for races the user's actions.

What makes it correct: the global DIRECT override stays until the user lifts it
and means that nothing is routed over the VPS; a passed Apply is in force and
watched; at most one watchdog runs; a lost tunnel comes back; tunnels are
neither multiplied nor left open.

### Governance

| component | state it keeps | operations |
|---|---|---|
| Writer Lease CAS executor (`writer_lease_cas_executor_wu149.py`, `..._wu150_immutable_readback.py`) | the lease registry on the branch `pncc-provider-state` | ACQUIRE and RELEASE, one workflow run per edit of an issue |
| selector, continuation, planner, control loop, CI inspection, execution admission, merge eligibility and executor | none of their own: issues, leases, branches, pull requests, workflow runs and the frontier contract on main | a session reads, decides and sends one transaction: create an issue, acquire or release a lease, create a branch, push, open and merge a pull request |
| governed frontier lifecycle (`pipeline-state.yml`) | the frontier contract | the gate every pull request that changes the frontier passes |
| session resume, multi-session steady state, human-by-exception, durable development state | checkpoints and handoff records | start, resume, iterate, read back, hand over; readiness decisions, lease hygiene |
| execution evidence validators (WU114 to WU132) | none | accept or refuse the evidence of a session, by replaying the evaluators |
| scheduled monitors (WU137, WU144, WU149) and evaluations by hand (WU145, WU146) | run histories at GitHub, the activation contract | hourly health and drift, hourly observation of deliveries, dispatch, qualification, correlation |
| candidate build, manifests, promotion, release publication | artefacts | linear scripts |
| installer transactions of wave 6 | receipts | one-time steps |
| runtime agent (`tools/runtime-agent`) | evidence | one-time qualification scripts |

All of it runs as GitHub workflow runs or agent sessions that share the
repository through git references, issues and pull requests. What is hard is
the gap between reading provider truth and writing it, sessions that end in the
middle of a transaction, requests that are applied late, and schedules that are
delivered late or never.

What makes it correct: at most one unexpired lease per conflict domain, an
append-only history and a PASS that means the lease is there; each frontier
completed once, in order, by one writer, and only what was tested is merged;
transactions are neither repeated nor assumed when sessions change; evidence
that is accepted is true; a monitor that says healthy has seen everything, and
an opportunity called missed was missed unless a later run served it.

`PROJECT.json` lists every component with its status and every hazard with its
line and the properties that watch it.

## 2. Modules

| module | what it is |
|---|---|
| `LeaseRegistry` | abstract: one registry document and one clock; atomic grants and releases |
| `WriterLease` | the executor at the granularity of its calls to GitHub; refines `LeaseRegistry` |
| `WriterLeaseProofs` | the inductive invariant of `WriterLease` and its theorems |
| `WriterLeaseRefinement` | the proof that `WriterLease` implements `LeaseRegistry` |
| `FrontierPipeline` | abstract: each frontier completed exactly once and in order, to the end |
| `ContinuationLoop` | sessions, the chain of evaluators, GitHub and the owner; refines `FrontierPipeline` |
| `SessionHandoff` | one work unit over several sessions, under three protocols, with the evidence validators |
| `ScheduleMonitor` | the hourly monitors, their observers and the clock |
| `ContinuationLoopProofs` | the inductive invariant of `ContinuationLoop` and its theorems |
| `PipelineOrderProofs` | the proof that `ContinuationLoop` implements the safety part of `FrontierPipeline` |
| `ScheduleMonitorProofs` | the inductive invariant of `ScheduleMonitor` and its theorems |
| `RoutingController` | engine processes, watchdogs, control center, Proxifier and the files they share |
| `SocksTunnel` | the 1081 tunnel under its mutex: engine, watchdog and PuTTY |
| `RoutingControllerProofs`, `SocksTunnelProofs`, `SessionHandoffProofs` | the inductive invariants of these modules and their theorems |
| `MC...` | the model values and small sets that the configurations use |

The modules are cuts through two systems. `RoutingController` treats the tunnel
as up or not; `SocksTunnel` is the detail of what it calls `Provide`,
`DogRepairs` and `StopPutty`. `ContinuationLoop` treats a lease transaction as
one step of the provider, which is what the refinement of `LeaseRegistry` by
`WriterLease` justifies; `SessionHandoff` looks inside one work unit of
`ContinuationLoop` and treats its creation and merge as single steps.

Every operator named like a variant of another one and commented `Mutant:` is
a plausible bug. It is not part of the specification; substituting it for the
operator it stands next to makes TLC find the property violated that
`PROJECT.json` names with it, which shows that the property depends on that
piece of the code.

### WriterLease

State: `lineage` is the state branch, the registries of its commits oldest
first, so a commit is its position; `job` is what a run of the executor has
read and where it stands; `inflight` are PATCH requests GitHub has not
processed, `ack` its answers; `issue`, `main` and `clock` are the issues with
their markers, the head of main, and true time.

A run goes through `ReadIssue`, `ReadMain`, `ReadStateRef`, `ReadRegistry`,
`SelectWorkUnit`, `BuildAcquire` or `BuildRelease`, `PrewriteRef`,
`PrewriteRegistry`, `SendPatch`, `ReceiveAck` and `ReadBack`: one action per
read or write of `live_transaction`, with the guard that raises an
`ExecutorError` in the code as the condition to go on. `ProcessPatch` is
GitHub's, and moves the ref only if that is a fast-forward. `Abort` ends a run
anywhere (provider error, job timeout); a PATCH it has sent can still land.

Abstractions: the selector's read of the default branch and of the issues is
one step; holder, branch and the anchor hashes of the contract files are left
out (constants of the repository, a mismatch only blocks a run); markers are
records. `Releasable` relies on unique ids, which `_validate_registry_shape`
enforces and `LeaseGrantedOnce` checks. `TokenSplit` is FALSE in every run: the
owner takes both tokens from one commit (section 6 says what happens if not).

Bounds: two runs, two work units in one conflict domain, two lease ids, leases
of one time unit, time up to 1, one foreign commit, one advance of main. Two
runs give every order of reads and writes around one another's PATCH, and under
the concurrency group a killed run's PATCH that lands during the next run. One
time unit lets a lease run out and be followed by the next.

### ContinuationLoop

State: `main` is the default branch, each commit with the frontier contract in
its tree, the issue it merges and the contract files that differ from their
pins; `issue`, `lease`, `branch`, `pull` and `ci` are the provider's objects per
work unit; `pc` and `seen` are what a session does and has read; `inflight` are
requests the provider has not applied.

| definition | code |
|---|---|
| `ReadHead`, `ReadOpen` | `fetch_live_provider_truth`, two calls |
| `Decide` | the rest of a session's pass: `Continuation`, `Materialization`, `Control`, `CiDecision`, `Admitted`, `Eligible`, each the decision of one script, with the policy and pins it validates, and `Request`, what is sent |
| `Apply` | the provider applies or rejects a request: `CreateIssue`, `ChangeLease`, `CreateBranch`, `PushCommit`, `CreatePullRequest`, `MergePullRequest` |
| `Timeout`, `Lose` | a session gives up on the answer, or is interrupted; its request may be applied later or never |
| `RegisterRun`, `CompleteRun` | workflow runs appear one by one; `FrontierGate` is the outcome of `pipeline-state.yml` |
| `ExpireLease`, `ForeignCommit`, `RepairContracts`, `RepairBranch`, `MarkIssue`, `RestoreMark`, `CloseIssue` | time and the owner |

Assumptions. The history and the execution state are read in one step with the
decision. Agents advance the frontier in their push; the gate passes as
NOT_APPLICABLE when a branch leaves the frontier alone (`pipeline-state.yml`
lines 88-91). The owner marks an issue DONE only when it is finished, and closes
the pull request of work that is given up. The executor's readback of a merge
changes no state. `FreshCheckout` is TRUE in every passing run: a session checks
out the head it reads; nothing in the code compares the two, and
`continuation_stale` shows what happens if they differ. Closing an issue is
planned by the control loop after its merge but never admitted, because
`_selected` (`evaluate_autonomous_continuation_execution_admission.py:107`)
wants the base of the work unit to be the current main; the owner closes it.

Bounds: races have two sessions, one frontier and one fault; the live run one
session, two frontiers, one fault and drifting contracts; the stale run one
session, two frontiers and no fault. Two sessions give each
decision taken on what another one is changing; two frontiers make order and
repetition visible; eight issues are seven creations for at most two frontiers,
enough for duplicates, replays and work that is given up. A creation beyond
them is rejected, as one that the provider loses is.

### SessionHandoff

State: `main` and `base` (the work unit), `head`, `generation` and `lease` (the
registry), `branch`, `checks`, `readiness`, `exception`, `drift` (policies that
do not match), `prior` (the last handoff record), `completed`, `session`,
`requests` and `applied` (a history variable: what the provider did).

A session starts by `StartDecision` (`SessionStart`, `Resume`, `HbeResume` or
`DecideResume`, by its mode), then alternates `Delegate` (one transaction, after
`Evaluate`: steady state, iteration, operationalization, human-by-exception
steady state) with `Readback`; it ends by `Handoff` and `Leave`, or by
`Interrupt`, which leaves a record of its boundary or none. `Apply` is the
provider. `AssessReadiness`, `DeferReadiness`, `Hygiene` (with `Reconcilable`
and `Reconciled`) and `ApproveReadiness` are the way into human-by-exception.
`Wu114` to `Wu132` are the validators of evidence; `Accepted` is what they
accept of the running session. They differ in what they compare of the registry:
WU114 and WU129 its head around both iterations (`ChainedIterations`), WU116 the
state after the first with that before the second, WU118 generations only, and
WU131 the commit of the lease. A release and the historical reconciliation move
the head and keep the generation.

Assumptions. The repository has policies, evaluators and validators, and no
program that calls them in order: which evaluator a session asks is taken from
the policies and mapped as external. A human-by-exception resume is used once
the branch exists (before, WU115's). An interrupted session writes its record
without a refresh evaluation. The STATE protocol takes the record's provider
truth as its checkpoint and cannot see the boundary class. Sessions of one work
unit do not overlap. The favourable readiness assessment that
`ApproveReadiness` needs is validated by no script and taken as given. Leases of
other work units expire in time. WU116 and WU131 replay the resume with an
execution state and a checkpoint of their own, as the code does.

Bounds: two sessions, one fault, one merge, two records, branches complete after
one push, and one policy that drifts (`resume`, pinned by the others). A fault
anywhere in a session followed by one more session is the story every property
is about; two records are needed for a refresh.

### ScheduleMonitor

State: `now`; `main` with what each commit differs from the activation and its
checks; `off`, what else differs (registry, owner's tokens, ruleset
enforcement, its update time, bypass); `run[w][k]`, the run of workflow `w` for
opportunity or dispatch `k`, with what it has seen; `fetched` (histories
somebody reads for WU145); `missed` (verdicts given).

| definition | code |
|---|---|
| `Deliver`, `LoseRunner`, `Tick` | GitHub's scheduler and runners; `timeout-minutes` |
| `Dispatch` | WU149's `concurrency` with cancellation |
| `SkipOverlap`, `EndSkipped`, `Fetch`, `Evaluate` | the steps of the WU137 and WU149 jobs; `Health`, `Fallback` their evaluators |
| `Observe` | the WU144 job: `Observation` over the matured opportunities |
| `FetchHistories`, `Qualify`, `Correlate` | WU145 and WU146, which people run |
| `Commit`, `EndChecks`, `ChangeOutside`, `RestoreOutside` | everybody else |

Time goes from one instant of interest to the next, five per hour: :00, :02
(WU137's deadline), :07 (WU144), :17 (WU137) and :52 (WU144's deadline).
`Maturity` says from when on an evaluator judges an opportunity. For WU144 that
is its deadline, or the next full hour if this is earlier: the code steps back
one hour once (`evaluate_wave6_wu137_redundant_observer_wu144.py:48`) and does
not test the deadline of the opportunity it arrives at, so that of :17 is judged
from :00 on. `Observe` takes its time at any instant between the start of the
job and the listing, and `judged` is the set of opportunities its window held.

Assumptions: provider data are well formed; main, registry, issue and ruleset
are read in one step and the checks in a later one; a job and a fetched history
last as many instants as their 10 minutes and 300 seconds can touch (`JobTime`,
`SnapshotAge`); there is one run per schedule, at most an hour late. `frontier`
stands for a changed frontier or proposal file.

Bounds: three hours, windows of two opportunities, and mixes of events
(`MCBudgets`): two health runs, a health run or a dispatch beside one change,
two dispatches, both schedules with a lost runner, both with an evaluation by
hand, two runs of the observer with an evaluation. In the third hour the window
slides: an opportunity that nobody judged before drops out, and
`HealthyObserverHasJudged`, asked of every opportunity there was, would fail.

### RoutingController

State: `config`, `runtime`, `disk` (the profile file), `loaded` (what Proxifier
enforces), `lkg`, `tunnel`, `vps`, `mutex`, `pidfile`, `reader`, and `job` per
process. A profile, and its hash, is the set of modules it routes over the VPS.

| actions | code |
|---|---|
| `UserStarts`, `AutoStart`, `RuntimeRecovery` | entry point with `Enter-ForegroundInstance`, `Invoke-AutoStart`, `Invoke-V7RuntimeRecoveryIfNeeded` |
| `Acquire`, `LockTimeout` | `Invoke-WithMutationLock` |
| `ReadForApply`, `Provide`, `WriteProfile`, `Load*`, `Resolve`, `Commit` | `Apply-RoutingConfiguration`: first a provisional profile, then the resolved one through `Apply-EffectiveRoutesOnly`, with `Load-ProxifierProfile` and its restored last known good profile |
| `StopWatchdog`, `StartWatchdog`, `WritePid`, `VerifyWatchdog` | `Stop-Watchdog`, `Start-Watchdog`, `Get-WatchdogPid` |
| `DogReadsConfig`, `DogReadsRuntime`, `DogRepairs`, `DogEvaluates`, `DogExits` | `Invoke-Watchdog`, whose apply is the same `Acquire` to `Commit` |
| `ReaderTakesPid`, `ReaderLooksUpProcess` | `Get-WatchdogPid` of a status or self-test process |

A step is what a process does between two points where another one can see or
change something. Abstractions: probes, health data and AUTO counters are a
nondeterministic verdict (`Resolutions`, `Evaluations`), VPS only while the VPS
can be reached; the watchdog's locked save of health data, the heartbeat's age
and the recovery's backoff times are left out (recovery may start at any time);
`Stop-Process` succeeds; the machine is not rebooted; 1080 is not there.

Bounds: one routed module, two watchdog pids, two or three operations or saved
configurations, one or two faults. One module already tells DIRECT, AUTO and
VPS apart, and every property is about whole profiles; two pids are a recorded
watchdog and an unrecorded one. Three operations are the longest stories found:
Apply, another operation, and one that undoes it.

### SocksTunnel

State: `putty` (per process: none, logging in, up, a stale listener, or running
without the port), the 1081 `mutex`, a `job` each for engine and watchdog,
`stopped` (the engine's last report), and `left`, a history variable that counts
the calls that ended while their PuTTY was still logging in.

`Start` is an engine operation; all of them hold the mutation mutex, hence one
engine actor. `EnterStop`, `StopTimeout`, `KillListener` are
`Stop-TunnelProcess`; `EnterEnsure`, `EnsureTimeout`, `Check`, `Port`,
`Recheck`, `StartPutty`, `StartFails`, `SeesIdentity`, `WaitTimeout` are
`Ensure-SocksTunnel`. The nested stop is part of `Port`. `WatchdogTests` is the
identity test the watchdog makes before it takes any mutex; `KillWatchdog` is
`Stop-Watchdog` (and the start of the next one in Apply), which may hit it
inside the mutex.

Abstractions: Apply's calls of `Ensure-SocksTunnel` are one call; a listener
that VCC does not own is never on the port; the identity query does not fail on
a healthy tunnel. `PuttyConnects` binds the port if it is free; PuTTY stays,
without it, when it is not.

Bounds: four PuTTY processes, four operations and two faults, enough for a
killed repair followed by a slow login or a lost connection.

## 3. Runs

Passing runs:

| run | shows |
|---|---|
| `lease_cas` | without the concurrency group, the compare-and-swap of git alone keeps leases exclusive (`LeasesDoNotOverlap`), history intact (`NoLostUpdate`, `HistoryStays`), one request one lease (`LeaseGrantedOnce`); and `WriterLease` implements `LeaseRegistry` |
| `lease_lag` | the workflow as deployed, with the group, skewed clocks, lagging ref reads and late PATCHes: a PASS is durable and a queued run ends |
| `continuation_races` | two sessions, late and lost requests, expiring leases, failing checks, commits and marks from outside: what is merged was tested at that head with the lease released (`MergedIsTested`); two work units of one frontier never both hold a lease (`OneWriterPerFrontier`); frontiers are merged once and in order (`KeepsPipelineOrder`) |
| `continuation_live` | every work unit ends, and the loop implements `FrontierPipeline`, its liveness included, with contract drift repaired by the owner |
| `session_handoff` | one living lease in the registry, no transaction repeated or invented, a clean record fences late lease requests, accepted evidence is of transactions that were applied in order (and, where a validator compares the registry around every iteration, with no other write between), and work ends unless it is wedged in a way `Wedged` names |
| `schedule_monitor` | a miss is revised only by a run created since the opportunity was taken for matured; behind a healthy qualification one run of the observer has judged what the window holds; a healthy verdict saw no drift |
| `routing_override` | the override is in force while it is recorded, no watchdog lifts it, a passed Apply is watched, and what one failed load leaves in Proxifier is something the watchdog can see |
| `routing_faults` | with the control center open, a status reader and one failure of any kind, a killed process included: one watchdog, a passed Apply in force; operations end, the tunnel is restored, and Proxifier comes to enforce the recorded routes again (`DivergenceHeals`) |
| `socks_mutex` | mutual exclusion under timeouts, no multiplying PuTTY processes, a stop that is final unless a PuTTY was left behind; operations end, a lost tunnel comes back |

Runs in which TLC finds a behaviour of the code that contradicts a statement of
the repository (`findings` quotes the lines):

| run | behaviour |
|---|---|
| `routing_override_recovery` | Direct, then the control center's timer: an Apply nobody asked for lifts the override |
| `schedule_overlap` | two scheduled runs of WU137 overlap, each gives way to the other, both end as HEALTHY: nobody evaluates |
| `continuation_stale` | a session plans on an older checkout than the head it reads: a frontier that is completed is proposed, worked and merged again, and the next one is passed over |

Deadlock is checked in the runs of `ContinuationLoop`, where a session can
always read again, and in no other run: with the bounds on time,
operations and faults used up, every process rests, as the real ones do when
nobody asks for anything. The liveness properties say that nothing stops before
that.

## 4. Fairness

`WriterLease`: weak fairness of each run's next step, since a runner executes
its script and its HTTP calls end by answer, error or timeout
(`urlopen(..., timeout=30)`), and the concurrency group starts the run that
waits when it is free. GitHub's processing of a PATCH is not assumed fair: the
run gives up instead.

`ContinuationLoop`: weak fairness of sessions (they are run again and again), of
the provider's answer to a session that waits, of workflow runs, of the expiry
of leases of closed work, and of the owner's duties: repairing contracts and
failed branches, lifting his own marks, closing what is finished. The last one
is a real assumption: stale work and work without a lease wait for him. Faults,
late requests and foreign commits are not fair.

`SessionHandoff`: weak fairness of starting sessions, of their steps, of the
provider, of the expiry of rivals' leases, of checks and their repair, of the
readiness decisions, of the owner ending his exceptions, and of the merge.

`RoutingController`: weak fairness of every process (Windows schedules it, and
every wait has a time limit in the code) and of the VPS becoming reachable
again. User actions, faults and the control center's recovery are not fair.

`SocksTunnel`: weak fairness of the steps inside a call; strong fairness of
entering the mutex, because Windows queues waiters; weak fairness of a PuTTY
process to connect (or be refused) in the end.

`ScheduleMonitor` has none: GitHub promises no delivery, and its properties are
about what may be said when there was one.

## 5. Theorems

`[]P` is proved by an inductive invariant `I` with `P` a consequence of it:
`Init => I` and `I /\ [Next]_vars => I'`. No property is inductive by itself,
because in all these systems somebody acts on what he saw earlier; the
invariants below say what stays true in between. Each was checked by TLC as an
invariant of a run before it was proved. A step lemma has one case per action.
The decisions of evaluators are chains of IF and ELSE IF, so that the order of
the code's early returns is part of what the proofs use. The only assumption on
constants is `ConstantsAssumption` of the module unless a table names another.

### WriterLease

For any finite set of issues and any runs, lease ids, clocks, lags and bounds;
all assume `~TokenSplit`, that the owner's two tokens come from one commit:

| theorem | property |
|---|---|
| `TypeCorrect` | `TypeOK` |
| `UpdatesAreNotLost` | `NoLostUpdate` |
| `LeasesStayApart` | `LeasesDoNotOverlap` |
| `GenerationsAreMonotonic` | `GenerationsGrow` |
| `GrantedOnce` | `LeaseGrantedOnce` |
| `HistoryIsKept` | `HistoryStays` |
| `ReportedPassesStay` | `PassIsDurable` |
| `ImplementsRegistry` (module `WriterLeaseRefinement`) | `ImplementsLeaseRegistry`, with `MaxSkew = 0` |

The argument. A PATCH carries a registry that was built long before it lands.
The invariant `Inductive` follows the registry from the read to the PATCH: what
a run past its token check has read is the registry of the head it read; what it
has built is a lawful change of that registry; and each request in flight
carries a lawful change of the registry of its parent. `FastForward` lets a
request land only when its parent is the tip, so the appended commit is a lawful
change of the one before it. A lawful change keeps the registry well formed: ids
stay unique, generations grow, and the intervals of leases of one domain stay
disjoint, since the new lease was judged, with the clock that stamps it, against
every lease of the registry. Each of these facts about a registry is a lemma
about the operators `Acquired` and `Released`. The skew of the clocks never
enters: `LeasesDoNotOverlap` compares timestamps of the registry. A PASS stays
because the commit a run has read back is of the lineage, which only grows.

The refinement adds when a change was made (`BuiltIsChange`, `SentIsChange`): a
grant judged at some instant not after now. When it lands, the parent's registry
is still the current one, and time can only have ended leases, so the grant is
still one (`ChangesLater`): it maps to the abstract grant, each other step to a
release, a tick or a stutter. With skewed clocks this is false, because a runner
whose clock is ahead takes a lease for expired that true time has not ended; the
abstract registry has one clock, and `lease_cas` checks the refinement with it.

### ContinuationLoop

For any sessions, frontiers, workflows, owner's marks and faults:

| theorem | property |
|---|---|
| `TypeCorrect` | `TypeOK` |
| `OnlyTestedIsMerged` | `MergedIsTested` |
| `OneWriterAtATime` | `OneWriterPerFrontier` |
| `KeepsOrder` (module `PipelineOrderProofs`) | `KeepsPipelineOrder`, assuming `FreshCheckout` and `OwnerKeepsLive` |

The argument. A transaction is decided on one state and applied in another: the
invariant has to say what stays true of a request on its way. `MergeRequests`: a
merge request names a head that the branch has not been behind since, and as
long as the pull request is open and the branch is still there, the head is
tested. Deciding establishes it (`MergeIsAdmittedWhenTested`), and whatever
would spoil it breaks its premise: a repair moves the branch on, closing ends
the pull request, and a RELEASED lease or a run that passed is never taken back.
`Proposals`: the frontier of a proposal is that of main at the base it names,
which stays so because main only grows (`MainSteps`). `OneWriter` needs no fact
about requests: the provider's executor tests the claim again when it applies an
acquisition, and a new issue has no lease. `SessionTypes` keeps one unanswered
request per session. The steps on the provider are reduced to a few forms (one
lease, one branch, one run, one pull request, one issue, a commit on main), each
with its lemma.

`KeepsOrder` is about several sessions together with several frontiers, which no
run enumerates: `continuation_races` has one frontier, `continuation_live` one
session. Nothing in the loop prevents that two work units are proposed for one
frontier, since a proposal may be applied late; what matters is that only one of
them is ever merged. The invariant `Orderly` adds to `Inductive` why:

- `Elders`, `EldersSeen`: while an issue is open, a younger one for the same
  frontier is untouched. A session that has read the younger has read the elder
  too, because issues are read in one step and never opened again, and finds the
  two ambiguous. So work on the younger begins only after the elder is closed,
  and closing ends the elder's pull request (`Work`).
- `DuplicatesDie`: once a work unit is merged, its duplicates are dead: their
  pull request is closed, or nothing of them exists but claims on their way. Such
  a claim is refused, because main is no longer at the base of the duplicate
  (`LateHasStaleBase`), and a session that decides now sees that it is stale.
- `Passed`, `PassedByMerge`: main has gone past the frontier of every merged work
  unit, and past a frontier by such a merge only. An accepted merge therefore
  finds main at the frontier of its work unit (`MergeMeans`): if main had gone
  past it, there would be a merged duplicate and the pull request would be closed.

Then the merge is the abstract `Complete`, and every other step leaves the
frontier of main and `MergedFrontiers` alone. `MergedFrontiers` is a recursive
function on the commits; what the proof needs of it (`MergesStay`, `MergesGrow`)
follows from two such functions agreeing as far as both go (`Agree`), by the
least number at which they would not.

`FreshCheckout` is needed since otherwise a completed frontier is merged again
(`continuation_stale`). `OwnerKeepsLive` says that the owner does not mark an open issue
DONE or SUPERSEDED, and is needed because the selector leaves such issues out of
its duplicates: with a merge on its way for the marked issue, a duplicate is
worked and merged, and then so is the marked one. TLC finds that behaviour with
`OwnerMarks = {"DONE"}` and one fault.

### SessionHandoff

For any sessions, modes, bounds, faults and drifting policies:

| theorem | property |
|---|---|
| `TypeCorrect` | `TypeOK` |
| `OneLeaseLives` | `OneLivingLease` |
| `CleanRecordsFence` | `CleanIsFenced` |
| `DoneIsAppliedOnce` | `TransactionsHappenOnce` |
| `AcceptedEvidenceIsTrue` | `EvidenceIsTrue` |

The argument has four layers. `Basics`: types, one pending request per session,
and that what a request was sent on is the provider's past or present (`Sent`).
`Leases`: a claim on its way that still names the current head was sent when no
lease lived, and none has been granted since, because a grant moves the head
(`Claims`). `Fencing`: a session that works on the branch, or that has an answer
of the registry, has overtaken every older registry request, for its own reading
came after the head had moved; a clean record is written only then, so it is a
fence. `History`: the provider's truth only grows, each transaction's
fingerprint (its kind and where it was sent) is in the provider's past once it
is applied, and a request whose fingerprint is in the past is refused: nothing
is applied twice (`AppliedOnce`). A transaction a session or a record names was
read back as the very change it makes, so it was applied (`WasApplied`), and the
named ones stand in the order in which they were applied (`InOrder`). The
iterations of a session bound the registry heads between its transactions
(`Between`). WU114 and WU129 compare the head before and after both iterations
(`ComparedIsChained`), so for their evidence nobody wrote the registry between
the lease and the branch; for that of WU116, WU118, WU131 and WU132 the theorem
claims the transactions and their order only, since these validators compare
less (section 6).

### ScheduleMonitor

For any cadence, schedules, lag, windows, horizon and mixes of events:

| theorem | property |
|---|---|
| `TypeCorrect` | `TypeOK` |
| `HealthyMeansNoDrift` | `HealthySawNoDrift` |
| `MissesAreRevisedByLateRunsOnly` | `OnlyLateRunsReviseMisses` |
| `HealthyMeansJudged` | `HealthyObserverHasJudged` |

That a healthy run saw no drift is about its whole time, so the state keeps with
each run what has differed ever since it was created (`always`), and the
invariant says of each run: this still differs (`always` is within `off`), and
once the provider has been read, it was seen. `Fetch` establishes the second
part from the first; `RestoreOutside` takes from both sides.
`OnlyEvaluationSucceeds` shows that nothing but `Evaluate` lets a run past its
reading end well, and there `Health` leaves no case but the activated commit
with nothing seen. A step of one run leaves the others alone (`OneRunStep`), a
step of time or of the provider leaves all runs alone (`NoRunStep`).

The second invariant, `Verdicts`, is about opportunities. A miss is only called
of an opportunity that has matured, and a run created after that is one the
property allows (`MissCloses`); what had been created before was listed and
counted. A history that was fetched can only lack runs created since, which is
why `Qualify` can miss those and no others. A healthy observer: its newest run
ended well, so it had judged what had matured when it took its time, as far back
as the window reaches, and the offset between the schedules (an assumption of
`ConstantsAssumption`) leaves no opportunity of WU137 between those and the
observer's newest one.

### RoutingController

For any modules, watchdogs, operations and bounds:

| theorem | property | assumes |
|---|---|---|
| `TypeCorrect` | `TypeOK` | |
| `OneWatchdog` | `AtMostOneWatchdog` | |
| `AppliedIsInForce` | `ApplyIsInForce` | |
| `AppliedIsWatched` | `ApplyIsWatched` | `Quiet` |
| `OverrideIsEnforced` | `OverrideIsLoaded` | `Quiet`, `NoBlindStop` |
| `OverrideIsFinal` | `OverrideStands` | `Quiet`, `~Recovery` |
| `DivergenceShows` | `DivergenceIsVisible` | `~StatusReader` |

`Quiet`: no process is killed from outside, the pid file is written, and no
status reader runs. `NoBlindStop`: StopTunnel is not used, or no load fails.
Each is needed: TLC finds `ApplyIsWatched` and `OverrideStands` violated with
one crash alone, with one unwritten pid file alone and with a reader alone;
`OverrideStands` with the recovery (a run of section 3); and `OverrideIsLoaded`
with StopTunnel and one failed load, with two crashes, and with an unwritten
pid file or a reader followed by one more fault. `DivergenceIsVisible` itself
speaks of at most one failure; a reader that removes the pid file of a new
watchdog is none, and with it the property fails (section 6). The runs check
these properties under the faults that do not break them. `routing_override`
checks `DivergenceIsVisible` with failed loads and no killed process, since the
other run has a status reader; that it holds when a process dies anywhere is the
theorem's.

The argument. `Base` (types, and a process is inside the mutation mutex exactly
while it owns it) needs nothing else and holds under all faults. At most one
watchdog runs (`OneDog`) because Start-Watchdog kills every watchdog process it
finds, recorded or not, before it starts one, inside the mutex.
`EngineFacts` follows an engine's routes from their resolution to the commit,
inside the mutex. For the other four, `Watch` says that, as long as no process
was killed, every pid file was written and no reader runs, the running watchdog is the recorded one or about to be recorded by the Apply that
started it, so that Direct, which stops the recorded watchdog, stops every one:
while it loads and commits nothing else can commit routes. `OverrideIsSafe` then
says of the override what keeps it: no watchdog, no effective route over the
VPS, and both the loaded and the last known good profile are DIRECT.

`DivergenceShows` has no assumption on faults, because a failure and what the
interrupted operation leaves are its subject: it needs to know, of each place
where an operation can fail, what the profile file, Proxifier and the record
have become by then. The invariant `Accounted` has two halves.

- `Watch /\ Traceable`, kept by every step that kills nobody and writes its pid
  file (`Calm`), other failures included. At rest the state is `Visible`, and
  before a failure it is `Clean`: recorded, loaded and last known good routes
  agree. While somebody owns the mutex, `Shows` gives for each phase what it has
  written already. Before its first write or load an operation is `Untouched`
  and the state as at rest. When it loads, the file has its routes, and either
  what is recorded is loaded and last known good, or the one failure is past and
  the load will not fail (`LoadFacts`). In Apply's second pass Proxifier enforces
  the provisional profile of the first (`Kept`, `SecondFacts`); if the second
  load fails with the recorded routes in the file, the provisional ones were the
  same (`KeptStays`). At the commit the file and Proxifier have the routes about
  to be recorded; only a Direct or StopTunnel whose load failed does without, and
  it records the override (`CommitFacts`).
- `Spent`: a process has died, or a pid file was not written. `CrashSpends` and
  `WritePidFailsSpends` show from `Shows` that each place where this happens
  leaves the divergence `Evident`, or the owner of the mutex with an operation
  that succeeds from there (`Succeeds`). No other failure is left, hence no load
  fails and `Evident` stays (`KeepsSpent`); who runs the watchdog no longer
  matters, since what it may write it also loads and records.

The second half is why the theorem does not follow from what `Quiet` gives: once
a process may die, nothing keeps the running watchdog the recorded one.

### SocksTunnel

For any number of PuTTY processes, operations and faults:

| theorem | property |
|---|---|
| `TypeCorrect` | `TypeOK` |
| `PuttysDoNotMultiply` | `PuttysAreAccountedFor` |
| `StopStaysFinal` | `StopIsFinal` |

The argument. `Exclusion`: a process is in the 1081 mutex exactly while it owns
it. `Counting`: PuTTY processes that run and do not listen are as many as the
calls that left one behind, plus one while a call waits for its own; between
stop and start nobody listens, and who is on the port is one process. A call
leaves one behind only by a fault or because its operation killed the watchdog
(`Budget`), so operations and faults bound the processes. `Final`: after a passed stop nobody listens
and the watchdog is dead, and only an engine operation starts one.

### Only model-checked

Every invariant and action property of a passing run has a theorem. What is
left to TLC is liveness, that of `FrontierPipeline` included: it rests on
fairness and ENABLED, which TLAPS does not reach.

## 6. Observations

Behaviours found while modelling that no run of the project reports, because
they lie outside a run's assumptions or bounds. Each can be seen by changing
the constant or the property named.

- Lease tokens. The registry is read at the head a fresh ref read returns
  (`..._wu150_immutable_readback.py:144`), and nothing compares that head with
  the parent of the commit. With tokens of two commits (`TokenSplit = TRUE`) and
  a ref read that lags by one, the fast-forward replaces a lease its own parent
  recorded, and `NoLostUpdate` fails; the topology contract says
  "last_write_wins_forbidden": true.
- Issues marked done. An open issue that the owner marks DONE or SUPERSEDED no
  longer counts as a duplicate (`select_from_provider_issues`), although a merge
  may be on its way for it: its frontier can then be worked and merged twice.
  The runs and `KeepsOrder` leave such marks out.
- Wedged work units. A record PROVIDER_READBACK_PENDING makes every later
  session wait, and a refresh needs two clean records; a branch whose lease ran
  out before it was complete has no way on unless human-by-exception is
  approved. `Wedged` names these states.
- The human-by-exception resume does not compare the holder of the lease it
  finds, and late branch or push requests are fenced by the branch's position
  only.
- Evidence. WU116 does not compare the registry after the branch iteration
  (`validate_durable_autonomous_continuation_session_resume_execution_wu116.py:339`),
  WU118 compares generations only (`..._wu118.py:333`), WU131 nothing of it
  (`..._wu131.py:258`): each accepts evidence of a session beside which the
  registry was written between lease and branch. No document says it may not.
- Early verdicts. Between :00 and :02 the observer takes the opportunity of :17
  for matured, whose deadline is :02, and may call it missed; a run created
  before :02 then serves it. `MissIsFinal` fails. The proposal
  (`wave6-wu137-provider-scheduler-degradation-remediation-proposal-wu142.json:69`)
  counts what has "no real schedule run within the bounded lag window" as missed,
  and the activation (`wave6-wu137-redundant-observer-activation-wu144.json:18`)
  names the ":02 delivery deadline". The observer's own schedule, :07, avoids
  these minutes unless its delivery is late.
- Deadlines of schedules. Both comparisons of a window are inclusive
  (`evaluate_wave6_wu137_redundant_observer_wu144.py:141`), so in the very
  instant of its deadline an opportunity has matured while a run created then
  still counts. WU145 judges at its own time a history fetched up to 300 s
  before, and calls an opportunity missed whose run was created in between. A run
  that ends in drift fails, and WU144 then reports an unhealthy execution rather
  than drift.
- Saving without applying. The tooltip of the control center's save button
  (`src/windows-v7/VPS-Control-v7.ps1:1640`) says that saving changes nothing of
  the actual routing until an explicit Apply («Фактическая маршрутизация не
  меняется, пока вы явно не примените конфигурацию»). A watchdog reads the saved
  modes anew in every round (V6.3.1:3882) and applies them: after Apply and a
  saved mode, the next round moves the service. `SavedWaitsForApply` fails, after
  one Apply and one saved mode without any fault.
- StopTunnel (V6.3.1:4863) discards the result of loading the DIRECT profile and
  reports "Proxifier DIRECT" while Proxifier enforces the restored profile.
- The read-only self-test (V6.3.1:3783) deletes the pid file of a watchdog that
  has just been started; the next Direct does not find that watchdog, which then
  lifts the override. `OverrideStands` fails with `StatusReader = TRUE`.
- The watchdog tests the tunnel before it waits for the 1081 mutex
  (V6.3.1:3906), and takes down a tunnel that an Apply has restored meanwhile;
  the architecture document says that identity is tested again.
- StopTunnel reports a stopped tunnel while the PuTTY of a killed repair logs in
  (V6.5:866), and the port opens afterwards; `StopIsFinal` excepts calls that
  left a PuTTY behind.
- After two failed loads Proxifier may enforce other routes than recorded with
  the recorded hash on disk, which the watchdog cannot see; with a status reader
  a Direct whose load fails has the same effect, because a watchdog that lost its
  pid file survives it. `DivergenceIsVisible` is about at most one failure and runs
  without a status reader. An Apply passes unwatched when the pid file cannot be
  written, when a crash hits Apply before the start of the watchdog, or when a
  status reader deletes the pid file.

## 7. Plan

Order of work, most important first.

1. `ConfigStore`: `Write-TextAtomic`, backup generations and the fallbacks of
   `Get-Config` and `Get-Runtime` with a crash between any two file operations,
   against an abstract store that returns the last saved value or a default.
2. `AutoFailover`: the counters of `Invoke-Watchdog` (two failures, three
   recoveries, the latency comparison), against a declarative definition over
   the history of probes.
3. `RuntimeRecovery`: attempts and backoff (30, 60, 120, 300 s) of the control
   center, composed with `RoutingController`.
4. `ReserveTunnel`: manual start and stop of 1080, and that no automatism
   touches it.
5. Materializer and dispatch bridge (wu177, wu180): exact bytes written once.

Not modelled, and not planned: the user interface and texts, telemetry and
reports, device helpers, candidate build and manifests (deterministic file
packing), one-time installer, qualification and acceptance scripts, release
publication and the legacy copy. They are linear scripts or input and output
without a state that others share.
