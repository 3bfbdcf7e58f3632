---------------------------- MODULE WriterLease ----------------------------
(***************************************************************************)
(* The Writer Lease compare-and-swap executor.  Agents that change the     *)
(* repository first take a lease on the conflict domain of their work      *)
(* unit.  The leases live in one JSON registry on the branch               *)
(* pncc-provider-state, and a workflow run changes it through GitHub's git *)
(* data API: it reads the request out of an issue, reads main, the head of *)
(* the state branch and the registry, selects the work unit, builds the    *)
(* next registry, re-reads both tokens, and moves the branch with a        *)
(* non-forced PATCH, which it then reads back.  Every read and write of    *)
(* the provider is a step of its own, so that runs, the owner, the other   *)
(* writers of the branch and the clock interleave between them.            *)
(*                                                                         *)
(* A commit of the state branch is its position in lineage, a registry     *)
(* blob is the registry itself (both hashes name their content), a work    *)
(* unit is the number of the issue that carries its marker.                *)
(***************************************************************************)
EXTENDS Naturals, Sequences, FiniteSets

CONSTANTS
  Runs,          \* executor runs; each is started by one edit of an issue
  Issues,        \* numbers of the issues that carry a work unit
  DomainOf,      \* the conflict_domain of each work unit's marker
  LeaseIds,      \* lease_id values an owner can write in a request
  LeaseSeconds,  \* LEASE_SECONDS
  RefPolls,      \* length of REF_CONVERGENCE_DELAYS_SECONDS
  Serialised,    \* the workflow's concurrency group is in force
  MaxSkew,       \* how far a runner's clock may be from the true time
  MaxLag,        \* how many commits a read of the state ref may lag behind
  TokenSplit,    \* the owner's two tokens may come from different commits
  MaxMain,       \* bound: advances of main
  MaxClock,      \* bound: time
  MaxForeign     \* bound: commits by other writers of the state branch

ASSUME ConstantsAssumption ==
  /\ Issues \subseteq Nat /\ IsFiniteSet(Issues)
  /\ LeaseSeconds \in Nat \ {0}
  /\ RefPolls \in Nat \ {0}
  /\ {Serialised, TokenSplit} \subseteq BOOLEAN
  /\ {MaxSkew, MaxLag, MaxMain, MaxClock, MaxForeign} \subseteq Nat

VARIABLES
  clock,     \* true time, in units of which LeaseSeconds are one lease
  main,      \* head of the default branch
  issue,     \* per issue: is it open and READY, its base and its request
  lineage,   \* the registries of the state branch's commits, oldest first
  foreign,   \* commits other writers made
  job,       \* per run: where it is and what it has read
  inflight,  \* PATCH requests (the commit they name) sent and not yet processed by the provider
  ack        \* per run: the provider's answer to its PATCH

vars == <<clock, main, issue, lineage, foreign, job, inflight, ack>>

Tip == Len(lineage)
Registry == lineage[Tip]

Actions == {"ACQUIRE", "RELEASE"}
NoRequest == [action |-> "NONE"]

NoLeases == [generation |-> 0, entries |-> << >>]

-----------------------------------------------------------------------------
(* The registry document: writer_lease_cas_executor_wu149.py.              *)

Entry(reg, j) == reg.entries[j]
Slots(reg) == DOMAIN reg.entries

Unexpired(e, t) == e.expires > t
Holds(e, t) == e.state = "ACTIVE" /\ Unexpired(e, t)
\* Mutant: a lease excludes its own work unit only.
ConflictingWorkUnit(e, w) == e.wu = w
Conflicting(e, w) == e.domain = DomainOf[w] \/ e.wu = w

\* evaluate_claim_admission: every ACTIVE lease has a heartbeat in the past,
\* and none that is unexpired conflicts with the selected work unit.
ClaimEligible(reg, w, now) ==
  \A j \in Slots(reg) : Entry(reg, j).state = "ACTIVE" =>
     /\ Entry(reg, j).acquired <= now
     /\ Unexpired(Entry(reg, j), now) => ~ Conflicting(Entry(reg, j), w)

\* The conflict test of build_acquire_registry, which repeats the claim's.
NoConflict(reg, w, now) ==
  \A j \in Slots(reg) : ~ (Holds(Entry(reg, j), now) /\ Conflicting(Entry(reg, j), w))

\* Mutant: the lease_id is not looked up.
AnyLeaseId(reg, id) == TRUE
NewLeaseId(reg, id) == \A j \in Slots(reg) : Entry(reg, j).id # id

\* Mutant: neither the claim nor the builder looks for conflicting leases.
CanAcquireUnchecked(reg, w, id, now) == NewLeaseId(reg, id)

CanAcquire(reg, w, id, now) ==
  ClaimEligible(reg, w, now) /\ NewLeaseId(reg, id) /\ NoConflict(reg, w, now)

\* Mutant: leases that have run out are dropped when one is added.
AcquiredPruned(reg, w, base, id, now) ==
  [generation |-> reg.generation + 1,
   entries |-> Append(SelectSeq(reg.entries, LAMBDA e : Holds(e, now)),
      [id |-> id, wu |-> w, domain |-> DomainOf[w], base |-> base, state |-> "ACTIVE",
       generation |-> reg.generation + 1,
       acquired |-> now, expires |-> now + LeaseSeconds])]

Acquired(reg, w, base, id, now) ==
  [generation |-> reg.generation + 1,
   entries |-> Append(reg.entries,
      [id |-> id, wu |-> w, domain |-> DomainOf[w], base |-> base, state |-> "ACTIVE",
       generation |-> reg.generation + 1,
       acquired |-> now, expires |-> now + LeaseSeconds])]

\* The lease build_release_registry accepts: bound to this work unit, ACTIVE
\* and unexpired.
Releasable(reg, w, base, id, now) ==
  {j \in Slots(reg) :
     /\ Entry(reg, j).id = id
     /\ Entry(reg, j).wu = w /\ Entry(reg, j).domain = DomainOf[w]
     /\ Entry(reg, j).base = base
     /\ Holds(Entry(reg, j), now)}

\* Mutant: a released lease gets a state the validator does not know.
ReleasedAsExpired(reg, S) ==
  [reg EXCEPT !.entries = [j \in Slots(reg) |->
     IF j \in S THEN [Entry(reg, j) EXCEPT !.state = "EXPIRED"] ELSE Entry(reg, j)]]

Released(reg, S) ==
  [reg EXCEPT !.entries = [j \in Slots(reg) |->
     IF j \in S THEN [Entry(reg, j) EXCEPT !.state = "RELEASED"] ELSE Entry(reg, j)]]

-----------------------------------------------------------------------------
(* The selector: select_provider_work_unit.py.                             *)

Open == {i \in Issues : issue[i].state = "READY"}

\* Two open work units in one conflict domain make the selector fail.
DuplicateDomain == \E i, j \in Open : i # j /\ DomainOf[i] = DomainOf[j]

Executable == {i \in Open : issue[i].base = main}

Selected(i) == ~DuplicateDomain /\ i \in Executable /\ \A j \in Executable : i <= j

-----------------------------------------------------------------------------
IdleJob == [pc |-> "idle", issue |-> 0, base |-> 0, req |-> NoRequest,
            head |-> 0, registry |-> NoLeases, pinned |-> 0,
            next |-> NoLeases, polls |-> 0]

Finished == {"pass", "blocked"}
Live(r) == job[r].pc \notin {"idle", "queued"} \cup Finished

Init ==
  /\ clock = 0
  /\ main = 0
  /\ issue = [i \in Issues |-> [state |-> "NONE", base |-> 0, req |-> NoRequest]]
  /\ lineage = <<NoLeases>>
  /\ foreign = 0
  /\ job = [r \in Runs |-> IdleJob]
  /\ inflight = {}
  /\ ack = [r \in Runs |-> "none"]

-----------------------------------------------------------------------------
(* The owner, time, and the other writers of main and the state branch.    *)

\* A request names the lease and the two tokens the owner has observed.
Requests ==
  {[action |-> a, id |-> id, head |-> k, blob |-> lineage[b]] :
     a \in Actions, id \in LeaseIds, k \in 1..Tip, b \in 1..Tip}

Observable(req) == TokenSplit \/ req.blob = lineage[req.head]

\* An edit of an issue that carries a request marker starts a run.
FileRequest(r, i) ==
  /\ job[r].pc = "idle"
  /\ \E req \in Requests, base \in {main, issue[i].base} :
       /\ Observable(req)
       /\ issue' = [issue EXCEPT ![i] = [state |-> "READY", base |-> base, req |-> req]]
  /\ job' = [job EXCEPT ![r] = [IdleJob EXCEPT !.pc = "queued", !.issue = i]]
  /\ UNCHANGED <<clock, main, lineage, foreign, inflight, ack>>

\* The work unit is done, or its issue closed; the request marker stays.
CloseIssue(i) ==
  /\ issue[i].state = "READY"
  /\ issue' = [issue EXCEPT ![i].state = "DONE"]
  /\ UNCHANGED <<clock, main, lineage, foreign, job, inflight, ack>>

AdvanceMain ==
  /\ main < MaxMain
  /\ main' = main + 1
  /\ UNCHANGED <<clock, issue, lineage, foreign, job, inflight, ack>>

Tick ==
  /\ clock < MaxClock
  /\ clock' = clock + 1
  /\ UNCHANGED <<main, issue, lineage, foreign, job, inflight, ack>>

\* Another commit on the state branch: the historical reconciliation, which
\* marks leases that have run out as RELEASED, or with S = {} a commit that
\* leaves the registry alone.
ForeignCommit ==
  /\ foreign < MaxForeign
  /\ foreign' = foreign + 1
  /\ \E S \in SUBSET {j \in Slots(Registry) : /\ Entry(Registry, j).state = "ACTIVE"
                                             /\ ~Unexpired(Entry(Registry, j), clock)} :
       lineage' = Append(lineage, Released(Registry, S))
  /\ UNCHANGED <<clock, main, issue, job, inflight, ack>>

-----------------------------------------------------------------------------
(* One executor run: live_transaction over the pinned reads of wu150.      *)

\* The run goes on as next when its check holds; an ExecutorError blocks it.
Step(r, ok, next) ==
  /\ job' = [job EXCEPT ![r] = IF ok THEN next ELSE [IdleJob EXCEPT !.pc = "blocked"]]
  /\ UNCHANGED <<clock, main, issue, lineage, foreign>>

At(r, pc) == job[r].pc = pc

\* Commits of the state branch a read of its ref can return.
VisibleHeads == {k \in 1..Tip : k + MaxLag >= Tip}

ReadIssue(r) ==
  /\ At(r, "queued")
  /\ Serialised => \A q \in Runs : ~Live(q)
  /\ LET body == issue[job[r].issue] IN
       Step(r, body.state = "READY" /\ body.req # NoRequest,
            [job[r] EXCEPT !.pc = "main", !.base = body.base, !.req = body.req])
  /\ UNCHANGED <<inflight, ack>>

ReadMain(r) ==
  /\ At(r, "main")
  /\ Step(r, job[r].base = main, [job[r] EXCEPT !.pc = "ref"])
  /\ UNCHANGED <<inflight, ack>>

ReadStateRef(r) ==
  /\ At(r, "ref")
  /\ \E k \in VisibleHeads :
       Step(r, k = job[r].req.head, [job[r] EXCEPT !.pc = "contents", !.head = k])
  /\ UNCHANGED <<inflight, ack>>

\* The contents are read at the commit a fresh read of the ref returns.
ReadRegistry(r) ==
  /\ At(r, "contents")
  /\ \E k \in VisibleHeads :
       Step(r, lineage[k] = job[r].req.blob,
            [job[r] EXCEPT !.pc = "select", !.registry = lineage[k], !.pinned = k])
  /\ UNCHANGED <<inflight, ack>>

SelectWorkUnit(r) ==
  /\ At(r, "select")
  /\ Step(r, Selected(job[r].issue) /\ issue[job[r].issue].base = job[r].base,
          [job[r] EXCEPT !.pc = "build"])
  /\ UNCHANGED <<inflight, ack>>

RunnerClock == {t \in 0..(clock + MaxSkew) : t + MaxSkew >= clock}

BuildAcquire(r) ==
  LET j == job[r] IN
  /\ At(r, "build") /\ j.req.action = "ACQUIRE"
  /\ \E now \in RunnerClock :
       Step(r, CanAcquire(j.registry, j.issue, j.req.id, now),
            [j EXCEPT !.pc = "prewrite_ref",
                      !.next = Acquired(j.registry, j.issue, j.base, j.req.id, now)])
  /\ UNCHANGED <<inflight, ack>>

BuildRelease(r) ==
  LET j == job[r] IN
  /\ At(r, "build") /\ j.req.action = "RELEASE"
  /\ \E now \in RunnerClock :
       LET mine == Releasable(j.registry, j.issue, j.base, j.req.id, now) IN
       Step(r, mine # {},
            [j EXCEPT !.pc = "prewrite_ref", !.next = Released(j.registry, mine)])
  /\ UNCHANGED <<inflight, ack>>

PrewriteRef(r) ==
  /\ At(r, "prewrite_ref")
  /\ \E k \in VisibleHeads :
       Step(r, k = job[r].head, [job[r] EXCEPT !.pc = "prewrite_contents"])
  /\ UNCHANGED <<inflight, ack>>

PrewriteRegistry(r) ==
  /\ At(r, "prewrite_contents")
  /\ \E k \in VisibleHeads :
       Step(r, lineage[k] = job[r].registry, [job[r] EXCEPT !.pc = "patch", !.pinned = k])
  /\ UNCHANGED <<inflight, ack>>

\* Blob, tree and commit (its parent is the head read first) touch nothing
\* that is shared; the PATCH that names the commit does.
SendPatch(r) ==
  /\ At(r, "patch")
  /\ Step(r, TRUE, [job[r] EXCEPT !.pc = "ack"])
  /\ inflight' = inflight \cup
       {[run |-> r, parent |-> job[r].head, registry |-> job[r].next]}
  /\ UNCHANGED ack

\* Mutant: the PATCH is sent with force.
Forced(p) == p.parent <= Tip

\* The provider moves the ref only if that is a fast-forward.
FastForward(p) == p.parent = Tip

ProcessPatch(p) ==
  /\ p \in inflight
  /\ inflight' = inflight \ {p}
  /\ lineage' = IF FastForward(p)
                  THEN Append(SubSeq(lineage, 1, p.parent), p.registry) ELSE lineage
  /\ ack' = [ack EXCEPT ![p.run] = IF FastForward(p) THEN "ok" ELSE "rejected"]
  /\ UNCHANGED <<clock, main, issue, foreign, job>>

ReceiveAck(r) ==
  /\ At(r, "ack") /\ ack[r] # "none"
  /\ Step(r, ack[r] = "ok", [job[r] EXCEPT !.pc = "readback"])
  /\ UNCHANGED <<inflight, ack>>

\* Mutant: the delays are cycled through until the ref moves.
ReadBackForever(r) ==
  LET j == job[r] IN
  /\ At(r, "readback")
  /\ \E k \in VisibleHeads :
       LET mine == k = j.head + 1 /\ lineage[k] = j.next IN
       \/ mine /\ Step(r, j.pinned = j.head, [j EXCEPT !.pc = "pass"])
       \/ ~mine /\ Step(r, k = j.pinned, [j EXCEPT !.polls = (@ + 1) % RefPolls])
  /\ UNCHANGED <<inflight, ack>>

\* prove_ref_convergence: only the head read before the write may still be
\* seen, at most RefPolls times; then the commit's parent is proved.
ReadBack(r) ==
  LET j == job[r] IN
  /\ At(r, "readback")
  /\ \E k \in VisibleHeads :
       LET mine == k = j.head + 1 /\ lineage[k] = j.next IN
       \/ mine /\ Step(r, j.pinned = j.head, [j EXCEPT !.pc = "pass"])
       \/ ~mine /\ Step(r, k = j.pinned /\ j.polls + 1 < RefPolls,
                        [j EXCEPT !.polls = @ + 1])
  /\ UNCHANGED <<inflight, ack>>

\* A provider error, a lost answer, or the job's timeout ends a run anywhere.
Abort(r) ==
  /\ Live(r) \/ At(r, "queued")
  /\ Step(r, FALSE, job[r])
  /\ UNCHANGED <<inflight, ack>>

\* urlopen gives up on an answer that does not come.
AckTimeout(r) ==
  /\ At(r, "ack") /\ ack[r] = "none"
  /\ Step(r, FALSE, job[r])
  /\ UNCHANGED <<inflight, ack>>

Execute(r) ==
  \/ ReadIssue(r) \/ ReadMain(r) \/ ReadStateRef(r) \/ ReadRegistry(r)
  \/ SelectWorkUnit(r) \/ BuildAcquire(r) \/ BuildRelease(r)
  \/ PrewriteRef(r) \/ PrewriteRegistry(r) \/ SendPatch(r)
  \/ ReceiveAck(r) \/ ReadBack(r) \/ AckTimeout(r)

Next ==
  \/ Tick \/ AdvanceMain \/ ForeignCommit
  \/ \E i \in Issues : CloseIssue(i) \/ \E r \in Runs : FileRequest(r, i)
  \/ \E r \in Runs : Execute(r) \/ Abort(r)
  \/ \E p \in inflight : ProcessPatch(p)

Spec == Init /\ [][Next]_vars

\* A runner executes its script; nothing makes the owner, the other writers or
\* the provider's handling of a PATCH happen.
FairSpec == Spec /\ \A r \in Runs : WF_vars(Execute(r))

-----------------------------------------------------------------------------
(* Properties.                                                             *)

Leases == [id : LeaseIds, wu : Issues, domain : {DomainOf[i] : i \in Issues}, base : Nat,
           state : {"ACTIVE", "RELEASED"}, generation : Nat \ {0},
           acquired : Nat, expires : Nat]
Registries == [generation : Nat, entries : Seq(Leases)]
RequestType == {NoRequest} \cup
               [action : Actions, id : LeaseIds, head : Nat \ {0}, blob : Registries]
PCs == {"idle", "queued", "main", "ref", "contents", "select", "build", "prewrite_ref",
        "prewrite_contents", "patch", "ack", "readback"} \cup Finished
JobType == [pc : PCs, issue : Issues \cup {0}, base : Nat, req : RequestType,
            head : Nat, registry : Registries, pinned : Nat,
            next : Registries, polls : Nat]

\* Every variable holds a value of its type.
TypeOK ==
  /\ clock \in Nat /\ main \in Nat /\ foreign \in Nat
  /\ issue \in [Issues -> [state : {"NONE", "READY", "DONE"}, base : Nat, req : RequestType]]
  /\ lineage \in Seq(Registries) /\ lineage # << >>
  /\ job \in [Runs -> JobType]
  /\ inflight \subseteq [run : Runs, parent : Nat \ {0}, registry : Registries]
  /\ ack \in [Runs -> {"none", "ok", "rejected"}]

NoOverlap(reg) ==
  \A j, k \in Slots(reg) :
    j < k /\ Entry(reg, j).domain = Entry(reg, k).domain
      => \/ Entry(reg, j).state = "RELEASED"
         \/ Entry(reg, j).expires <= Entry(reg, k).acquired

\* By the registry's own timestamps, and whatever the runners' clocks say, a
\* lease that was not released ends before the next one of its domain begins.
LeasesDoNotOverlap == NoOverlap(Registry)

GenerationsIncrease(reg) ==
  /\ \A j, k \in Slots(reg) : j < k => Entry(reg, j).generation < Entry(reg, k).generation
  /\ \A j \in Slots(reg) : Entry(reg, j).generation <= reg.generation

\* Generations grow along the registry and never pass the registry's own, so
\* within a domain no two leases carry the same one.
GenerationsGrow == GenerationsIncrease(Registry)

\* old is turned into new by a lawful change: at most one lease is added, at
\* the end and with the next generation, and the others only get RELEASED.
Lawful(old, new) ==
  /\ Len(new.entries) \in {Len(old.entries), Len(old.entries) + 1}
  /\ new.generation - old.generation = Len(new.entries) - Len(old.entries)
  /\ \A j \in Slots(old) :
       \/ Entry(new, j) = Entry(old, j)
       \/ /\ Entry(old, j).state = "ACTIVE"
          /\ Entry(new, j) = [Entry(old, j) EXCEPT !.state = "RELEASED"]

\* No commit of the state branch overwrites what its parent recorded: each is a
\* lawful change of the one before it.
NoLostUpdate == \A k \in 1..(Tip - 1) : Lawful(lineage[k], lineage[k + 1])

\* The state branch is never rewritten: what was its head stays in its history.
HistoryStays == [][Len(lineage') >= Tip /\ SubSeq(lineage', 1, Tip) = lineage]_vars

\* A run that reports PASS has its commit on the branch, on top of the head it
\* read, and the branch still holds it.
PassIsDurable ==
  \A r \in Runs : At(r, "pass") =>
    job[r].head < Tip /\ lineage[job[r].head + 1] = job[r].next

UniqueIds(reg) == \A j, k \in Slots(reg) : Entry(reg, j).id = Entry(reg, k).id => j = k

\* Two edits while a run waits make two runs read the same request: one lease
\* is granted for it, never two.
LeaseGrantedOnce == UniqueIds(Registry)

\* A run that was started ends, although the ref may lag when it reads back.
RunsEnd == \A r \in Runs : At(r, "queued") ~> job[r].pc \in Finished

\* The registry at the tip of the branch is the registry of LeaseRegistry.
Abstract == INSTANCE LeaseRegistry
              WITH WorkUnits <- Issues, Bases <- 0..MaxMain, registry <- Registry

\* Seen from outside, a PATCH that lands is one atomic grant or release, judged
\* against the leases that stand at that instant.
ImplementsLeaseRegistry == Abstract!Spec

=============================================================================
