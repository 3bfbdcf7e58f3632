------------------------- MODULE WriterLeaseProofs -------------------------
(***************************************************************************)
(* Proofs about WriterLease, for every set of runs, issues and leases and  *)
(* every bound.  The argument: a run only sends a registry that lawfully   *)
(* extends the one it read (JobsSound), the one it read is the one its     *)
(* parent commit records because the owner's two tokens name one commit    *)
(* (TokensCoherent), and the provider lets the ref advance from the parent *)
(* only (PatchesSound).  So every commit is lawful with respect to the one *)
(* before it, and lawful changes keep leases of one domain apart.          *)
(***************************************************************************)
EXTENDS WriterLease, SequenceTheorems, TLAPS

WellFormed(reg) ==
  /\ NoOverlap(reg)
  /\ GenerationsIncrease(reg)
  /\ UniqueIds(reg)
  /\ \A j \in Slots(reg) : Entry(reg, j).domain = DomainOf[Entry(reg, j).wu]

-----------------------------------------------------------------------------
(* The two changes of the registry document.                               *)

\* A sequence whose elements are replaced by elements of S is a sequence over S.
LEMMA FunctionIsSeq ==
  ASSUME NEW S, NEW n \in Nat, NEW f \in [1..n -> S]
  PROVE  f \in Seq(S) /\ Len(f) = n
  <1>1. f \in Seq(S)
    BY SeqDef
  <1>2. DOMAIN f = 1..n /\ DOMAIN f = 1..Len(f) /\ Len(f) \in Nat
    BY <1>1, LenProperties
  <1> QED
    BY <1>1, <1>2

\* Granting a lease yields a registry, one lease longer and otherwise the same.
LEMMA AcquiredShape ==
  ASSUME NEW reg \in Registries, NEW w \in Issues, NEW base \in Nat,
         NEW id \in LeaseIds, NEW now \in Nat,
         NEW new, new = Acquired(reg, w, base, id, now)
  PROVE  /\ new \in Registries
         /\ Len(new.entries) = Len(reg.entries) + 1
         /\ new.generation = reg.generation + 1
         /\ \A j \in Slots(reg) : Entry(new, j) = Entry(reg, j)
         /\ Entry(new, Len(reg.entries) + 1).id = id
         /\ Entry(new, Len(reg.entries) + 1).wu = w
         /\ Entry(new, Len(reg.entries) + 1).domain = DomainOf[w]
         /\ Entry(new, Len(reg.entries) + 1).acquired = now
         /\ Entry(new, Len(reg.entries) + 1).generation = reg.generation + 1
  <1> DEFINE e == [id |-> id, wu |-> w, domain |-> DomainOf[w], base |-> base,
                   state |-> "ACTIVE", generation |-> reg.generation + 1,
                   acquired |-> now, expires |-> now + LeaseSeconds]
  <1>1. reg.entries \in Seq(Leases) /\ reg.generation \in Nat
    BY DEF Registries
  <1>2. e \in Leases
    BY <1>1, ConstantsAssumption DEF Leases
  <1>3. /\ Append(reg.entries, e) \in Seq(Leases)
        /\ Len(Append(reg.entries, e)) = Len(reg.entries) + 1
        /\ \A j \in 1..Len(reg.entries) : Append(reg.entries, e)[j] = reg.entries[j]
        /\ Append(reg.entries, e)[Len(reg.entries) + 1] = e
    BY <1>1, <1>2, AppendProperties
  <1> QED
    BY <1>1, <1>3, LenProperties DEF Acquired, Registries, Slots, Entry

\* Releasing leases yields a registry that differs in their states only.
LEMMA ReleasedShape ==
  ASSUME NEW reg \in Registries, NEW S, NEW new, new = Released(reg, S)
  PROVE  /\ new \in Registries
         /\ Len(new.entries) = Len(reg.entries)
         /\ new.generation = reg.generation
         /\ \A j \in Slots(reg) : Entry(new, j) =
              IF j \in S THEN [Entry(reg, j) EXCEPT !.state = "RELEASED"] ELSE Entry(reg, j)
  <1> DEFINE n == Len(reg.entries)
             f == [j \in Slots(reg) |->
                     IF j \in S THEN [Entry(reg, j) EXCEPT !.state = "RELEASED"] ELSE Entry(reg, j)]
  <1>1. reg.entries \in Seq(Leases) /\ reg.generation \in Nat
    BY DEF Registries
  <1>2. n \in Nat /\ Slots(reg) = 1..n /\ \A j \in 1..n : reg.entries[j] \in Leases
    BY <1>1, LenProperties DEF Slots
  <1>3. f \in [1..n -> Leases]
    BY <1>2 DEF Entry, Leases
  <1>4. f \in Seq(Leases) /\ Len(f) = n
    BY <1>2, <1>3, FunctionIsSeq
  <1> QED
    BY <1>1, <1>2, <1>4 DEF Released, Registries, Slots, Entry

\* A registry's slots are numbered from one, each holding a lease.
LEMMA SlotsOf ==
  ASSUME NEW reg \in Registries
  PROVE  /\ Len(reg.entries) \in Nat
         /\ Slots(reg) = 1..Len(reg.entries)
         /\ \A j \in Slots(reg) : Entry(reg, j) \in Leases
  BY LenProperties DEF Registries, Slots, Entry

\* Granting a lease that CanAcquire allows is lawful and keeps the registry
\* well formed: the conflict test leaves only leases that ended before now.
LEMMA AcquireSound ==
  ASSUME NEW reg \in Registries, NEW w \in Issues, NEW base \in Nat,
         NEW id \in LeaseIds, NEW now \in Nat, CanAcquire(reg, w, id, now),
         NEW new, new = Acquired(reg, w, base, id, now)
  PROVE  /\ Lawful(reg, new)
         /\ WellFormed(reg) => WellFormed(new)
  <1> DEFINE n == Len(reg.entries)
  <1>1. /\ new \in Registries /\ Len(new.entries) = n + 1
        /\ new.generation = reg.generation + 1
        /\ \A j \in Slots(reg) : Entry(new, j) = Entry(reg, j)
        /\ Entry(new, n + 1).id = id /\ Entry(new, n + 1).wu = w
        /\ Entry(new, n + 1).domain = DomainOf[w] /\ Entry(new, n + 1).acquired = now
        /\ Entry(new, n + 1).generation = reg.generation + 1
    BY AcquiredShape
  <1>2. n \in Nat /\ Slots(reg) = 1..n /\ Slots(new) = 1..(n + 1) /\ reg.generation \in Nat
    BY <1>1, SlotsOf DEF Registries
  <1>3. \A j \in Slots(reg) : Entry(reg, j) \in Leases
    BY SlotsOf
  <1>4. Lawful(reg, new)
    BY <1>1, <1>2 DEF Lawful
  <1>5. ASSUME WellFormed(reg) PROVE NoOverlap(new)
    <2>1. \A j \in Slots(reg) : Entry(reg, j).domain = DomainOf[w]
             => Entry(reg, j).state = "RELEASED" \/ Entry(reg, j).expires <= now
      BY <1>3 DEF CanAcquire, NoConflict, Holds, Unexpired, Conflicting, Leases
    <2> QED
      BY <1>1, <1>2, <1>5, <2>1 DEF NoOverlap, WellFormed
  <1>6. ASSUME WellFormed(reg) PROVE GenerationsIncrease(new)
    <2>1. \A j \in Slots(reg) : Entry(reg, j).generation \in Nat
      BY <1>3 DEF Leases
    <2>2. \A j \in Slots(reg) : Entry(reg, j).generation <= reg.generation
      BY <1>6 DEF GenerationsIncrease, WellFormed
    <2>3. \A j, k \in Slots(reg) : j < k => Entry(reg, j).generation < Entry(reg, k).generation
      BY <1>6 DEF GenerationsIncrease, WellFormed
    <2>4. \A j \in Slots(new) : Entry(new, j).generation <= new.generation
      BY <1>1, <1>2, <2>1, <2>2
    <2>5. ASSUME NEW j \in Slots(new), NEW k \in Slots(new), j < k
          PROVE  Entry(new, j).generation < Entry(new, k).generation
      <3>1. j \in Slots(reg) /\ (k \in Slots(reg) \/ k = n + 1)
        BY <1>2, <2>5
      <3> QED
        BY <1>1, <1>2, <2>1, <2>2, <2>3, <2>5, <3>1
    <2> QED
      BY <2>4, <2>5 DEF GenerationsIncrease
  <1>7. ASSUME WellFormed(reg) PROVE UniqueIds(new)
    BY <1>1, <1>2, <1>7 DEF UniqueIds, WellFormed, CanAcquire, NewLeaseId
  <1>8. ASSUME WellFormed(reg)
        PROVE  \A j \in Slots(new) : Entry(new, j).domain = DomainOf[Entry(new, j).wu]
    BY <1>1, <1>2, <1>8 DEF WellFormed
  <1> QED
    BY <1>4, <1>5, <1>6, <1>7, <1>8 DEF WellFormed

\* Releasing ACTIVE leases is lawful and keeps the registry well formed.
LEMMA ReleaseSound ==
  ASSUME NEW reg \in Registries, NEW S, \A j \in S : Entry(reg, j).state = "ACTIVE",
         NEW new, new = Released(reg, S)
  PROVE  /\ Lawful(reg, new)
         /\ WellFormed(reg) => WellFormed(new)
  <1> DEFINE n == Len(reg.entries)
  <1>1. /\ new \in Registries /\ Len(new.entries) = n /\ new.generation = reg.generation
        /\ \A j \in Slots(reg) : Entry(new, j) =
              IF j \in S THEN [Entry(reg, j) EXCEPT !.state = "RELEASED"] ELSE Entry(reg, j)
    BY ReleasedShape
  <1>2. n \in Nat /\ Slots(reg) = 1..n /\ Slots(new) = 1..n /\ reg.generation \in Nat
    BY <1>1, SlotsOf DEF Registries
  <1>3. \A j \in Slots(reg) : Entry(reg, j) \in Leases
    BY SlotsOf
  <1>4. Lawful(reg, new)
    BY <1>1, <1>2, <1>3 DEF Lawful
  <1>5. \A j \in Slots(reg) :
          /\ Entry(new, j).id = Entry(reg, j).id /\ Entry(new, j).wu = Entry(reg, j).wu
          /\ Entry(new, j).domain = Entry(reg, j).domain
          /\ Entry(new, j).acquired = Entry(reg, j).acquired
          /\ Entry(new, j).expires = Entry(reg, j).expires
          /\ Entry(new, j).generation = Entry(reg, j).generation
          /\ Entry(reg, j).state = "RELEASED" => Entry(new, j).state = "RELEASED"
    BY <1>1, <1>3 DEF Leases
  <1>6. ASSUME WellFormed(reg) PROVE NoOverlap(new)
    BY <1>2, <1>5, <1>6 DEF NoOverlap, WellFormed
  <1>7. ASSUME WellFormed(reg) PROVE GenerationsIncrease(new)
    BY <1>1, <1>2, <1>5, <1>7 DEF GenerationsIncrease, WellFormed
  <1>8. ASSUME WellFormed(reg) PROVE UniqueIds(new)
    BY <1>2, <1>5, <1>8 DEF UniqueIds, WellFormed
  <1>9. ASSUME WellFormed(reg)
        PROVE  \A j \in Slots(new) : Entry(new, j).domain = DomainOf[Entry(new, j).wu]
    BY <1>2, <1>5, <1>9 DEF WellFormed
  <1> QED
    BY <1>4, <1>6, <1>7, <1>8, <1>9 DEF WellFormed

-----------------------------------------------------------------------------
(* The inductive invariant.                                                *)

Coherent(req) == req # NoRequest => req.head \in 1..Tip /\ req.blob = lineage[req.head]

Built == {"prewrite_ref", "prewrite_contents", "patch", "ack", "readback", "pass"}
HasRegistry == {"select", "build"} \cup Built
HasHead == {"contents"} \cup HasRegistry

\* What a run knows at each of its steps.
JobSound(j) ==
  /\ j \in JobType
  /\ j.pc \notin {"idle", "blocked"} => j.issue \in Issues
  /\ j.pc \notin {"idle", "blocked", "queued"} => j.req # NoRequest
  /\ Coherent(j.req)
  /\ j.pc \in HasHead => j.head = j.req.head
  /\ j.pc \in HasRegistry => j.registry = j.req.blob
  /\ j.pc \in Built => Lawful(j.registry, j.next)
                       /\ (WellFormed(j.registry) => WellFormed(j.next))

TokensCoherent == \A i \in Issues : Coherent(issue[i].req)
JobsSound == \A r \in Runs : JobSound(job[r])
CommitsWellFormed == \A k \in 1..Tip : WellFormed(lineage[k])
PatchesSound ==
  \A p \in inflight : /\ p.parent \in 1..Tip
                      /\ WellFormed(p.registry)
                      /\ Lawful(lineage[p.parent], p.registry)

IInv ==
  /\ TypeOK
  /\ TokensCoherent
  /\ JobsSound
  /\ CommitsWellFormed
  /\ PatchesSound
  /\ NoLostUpdate

\* A job that ended with an error, or has not begun, is sound.
LEMMA EndedJobs ==
  /\ JobSound(IdleJob)
  /\ JobSound([IdleJob EXCEPT !.pc = "blocked"])
  /\ NoLeases \in Registries
  <1>1. NoLeases \in Registries
    BY EmptySeq DEF NoLeases, Registries
  <1> QED
    BY <1>1 DEF JobSound, IdleJob, JobType, PCs, Finished, RequestType, Coherent,
                NoRequest, HasHead, HasRegistry, Built

\* The tip is a commit of the branch, and every commit holds a registry.
LEMMA TipFacts ==
  ASSUME TypeOK
  PROVE  /\ Tip \in Nat \ {0}
         /\ \A k \in 1..Tip : lineage[k] \in Registries
         /\ VisibleHeads \subseteq 1..Tip
  BY LenProperties, EmptySeq DEF TypeOK, Tip, VisibleHeads

\* A step of one run that leaves the rest alone keeps the invariant when the
\* run's new state is sound.
LEMMA RunStep ==
  ASSUME IInv, NEW r \in Runs, JobSound(job[r])',
         job' = [job EXCEPT ![r] = job'[r]],
         UNCHANGED <<clock, main, issue, lineage, foreign, inflight, ack>>
  PROVE  IInv'
  <1>1. \A q \in Runs : q # r => job'[q] = job[q]
    BY DEF IInv, TypeOK
  <1>2. Tip' = Tip
    BY DEF Tip
  <1>3. JobsSound'
    BY <1>1, <1>2 DEF IInv, JobsSound, JobSound, Coherent
  <1>4. TypeOK'
    BY <1>3 DEF IInv, TypeOK, JobsSound, JobSound
  <1>5. TokensCoherent' /\ CommitsWellFormed' /\ PatchesSound' /\ NoLostUpdate'
    BY <1>2 DEF IInv, TokensCoherent, CommitsWellFormed, PatchesSound, NoLostUpdate, Coherent
  <1> QED
    BY <1>3, <1>4, <1>5 DEF IInv

\* One executor step of a run keeps the invariant: the run's reads are checked
\* against the owner's tokens, and what it builds is lawful.
LEMMA ExecuteKeeps ==
  ASSUME IInv, NEW r \in Runs, Execute(r)
  PROVE  IInv'
  <1> DEFINE j == job[r]
  <1>1. j \in JobType /\ JobSound(j)
    BY DEF IInv, JobsSound, JobSound
  <1>2. TypeOK /\ VisibleHeads \subseteq 1..Tip /\ Tip \in Nat
        /\ \A k \in 1..Tip : lineage[k] \in Registries
    BY TipFacts DEF IInv
  <1>3. ASSUME NEW ok, NEW next, Step(r, ok, next), ok => JobSound(next),
               UNCHANGED <<inflight, ack>>
        PROVE  IInv'
    <2>1. job'[r] = IF ok THEN next ELSE [IdleJob EXCEPT !.pc = "blocked"]
      BY <1>2, <1>3 DEF Step, TypeOK
    <2>2. JobSound(job'[r])
      BY <1>3, <2>1, EndedJobs
    <2>3. JobSound(job[r])'
      BY <1>3, <2>2 DEF JobSound, Coherent, Tip, Step
    <2> QED
      BY <1>2, <1>3, <2>1, <2>3, RunStep DEF Step, TypeOK
  <1>4. CASE ReadIssue(r)
    <2> DEFINE body == issue[j.issue]
               ok == body.state = "READY" /\ body.req # NoRequest
               next == [j EXCEPT !.pc = "main", !.base = body.base, !.req = body.req]
    <2>1. Step(r, ok, next) /\ UNCHANGED <<inflight, ack>> /\ j.pc = "queued"
      BY <1>4 DEF ReadIssue, At
    <2>2. j.issue \in Issues
      BY <1>1, <2>1 DEF JobSound
    <2>3. body.base \in Nat /\ body.req \in RequestType /\ Coherent(body.req)
      BY <1>2, <2>2 DEF TypeOK, IInv, TokensCoherent
    <2>4. ok => JobSound(next)
      BY <1>1, <2>2, <2>3
      DEF JobSound, JobType, PCs, HasHead, HasRegistry, Built, Finished
    <2> QED
      BY <1>3, <2>1, <2>4
  <1>5. CASE ReadMain(r)
    <2> DEFINE ok == j.base = main
               next == [j EXCEPT !.pc = "ref"]
    <2>1. Step(r, ok, next) /\ UNCHANGED <<inflight, ack>> /\ j.pc = "main"
      BY <1>5 DEF ReadMain, At
    <2>2. JobSound(next)
      BY <1>1, <2>1 DEF JobSound, JobType, PCs, HasHead, HasRegistry, Built, Finished
    <2> QED
      BY <1>3, <2>1, <2>2
  <1>6. CASE ReadStateRef(r)
    <2>1. PICK k \in VisibleHeads :
            Step(r, k = j.req.head, [j EXCEPT !.pc = "contents", !.head = k])
      BY <1>6 DEF ReadStateRef
    <2>2. j.pc = "ref" /\ UNCHANGED <<inflight, ack>> /\ k \in Nat
      BY <1>2, <1>6 DEF ReadStateRef, At
    <2>3. k = j.req.head => JobSound([j EXCEPT !.pc = "contents", !.head = k])
      BY <1>1, <2>2 DEF JobSound, JobType, PCs, HasHead, HasRegistry, Built, Finished
    <2> QED
      BY <1>3, <2>1, <2>2, <2>3
  <1>7. CASE ReadRegistry(r)
    <2>1. PICK k \in VisibleHeads :
            Step(r, lineage[k] = j.req.blob,
                 [j EXCEPT !.pc = "select", !.registry = lineage[k], !.pinned = k])
      BY <1>7 DEF ReadRegistry
    <2>2. j.pc = "contents" /\ UNCHANGED <<inflight, ack>>
          /\ k \in Nat /\ lineage[k] \in Registries
      BY <1>2, <1>7 DEF ReadRegistry, At
    <2>3. lineage[k] = j.req.blob =>
            JobSound([j EXCEPT !.pc = "select", !.registry = lineage[k], !.pinned = k])
      BY <1>1, <2>2 DEF JobSound, JobType, PCs, HasHead, HasRegistry, Built, Finished
    <2> QED
      BY <1>3, <2>1, <2>2, <2>3
  <1>8. CASE SelectWorkUnit(r)
    <2> DEFINE ok == Selected(j.issue) /\ issue[j.issue].base = j.base
               next == [j EXCEPT !.pc = "build"]
    <2>1. Step(r, ok, next) /\ UNCHANGED <<inflight, ack>> /\ j.pc = "select"
      BY <1>8 DEF SelectWorkUnit, At
    <2>2. JobSound(next)
      BY <1>1, <2>1 DEF JobSound, JobType, PCs, HasHead, HasRegistry, Built, Finished
    <2> QED
      BY <1>3, <2>1, <2>2
  <1>9. CASE BuildAcquire(r)
    <2>1. PICK now \in RunnerClock :
            Step(r, CanAcquire(j.registry, j.issue, j.req.id, now),
                 [j EXCEPT !.pc = "prewrite_ref",
                           !.next = Acquired(j.registry, j.issue, j.base, j.req.id, now)])
      BY <1>9 DEF BuildAcquire
    <2> DEFINE ok == CanAcquire(j.registry, j.issue, j.req.id, now)
               new == Acquired(j.registry, j.issue, j.base, j.req.id, now)
    <2>2. /\ j.pc = "build" /\ UNCHANGED <<inflight, ack>>
          /\ j.req.action = "ACQUIRE" /\ now \in Nat
      BY <1>2, <1>9, ConstantsAssumption DEF BuildAcquire, At, RunnerClock, TypeOK
    <2>3. j.issue \in Issues /\ j.base \in Nat /\ j.registry \in Registries
          /\ j.req.id \in LeaseIds
      BY <1>1, <2>2 DEF JobSound, JobType, RequestType
    <2>4. ok => /\ Lawful(j.registry, new)
                /\ WellFormed(j.registry) => WellFormed(new)
      BY <2>2, <2>3, AcquireSound
    <2>5. new \in Registries
      BY <2>2, <2>3, AcquiredShape
    <2>6. ok => JobSound([j EXCEPT !.pc = "prewrite_ref", !.next = new])
      <3> HIDE DEF new, ok
      <3> QED
        BY <1>1, <2>2, <2>4, <2>5
        DEF JobSound, JobType, PCs, HasHead, HasRegistry, Built, Finished
    <2> QED
      BY <1>3, <2>1, <2>2, <2>6
  <1>10. CASE BuildRelease(r)
    <2>1. PICK now \in RunnerClock :
            Step(r, Releasable(j.registry, j.issue, j.base, j.req.id, now) # {},
                 [j EXCEPT !.pc = "prewrite_ref",
                           !.next = Released(j.registry,
                              Releasable(j.registry, j.issue, j.base, j.req.id, now))])
      BY <1>10 DEF BuildRelease
    <2> DEFINE mine == Releasable(j.registry, j.issue, j.base, j.req.id, now)
               new == Released(j.registry, mine)
    <2>2. j.pc = "build" /\ UNCHANGED <<inflight, ack>>
      BY <1>10 DEF BuildRelease, At
    <2>3. j.registry \in Registries /\ \A i \in mine : Entry(j.registry, i).state = "ACTIVE"
      BY <1>1 DEF JobSound, JobType, Releasable, Holds
    <2>4. /\ Lawful(j.registry, new)
          /\ WellFormed(j.registry) => WellFormed(new)
      BY <2>3, ReleaseSound
    <2>5. new \in Registries
      BY <2>3, ReleasedShape
    <2>6. JobSound([j EXCEPT !.pc = "prewrite_ref", !.next = new])
      <3> HIDE DEF new
      <3> QED
        BY <1>1, <2>2, <2>4, <2>5
        DEF JobSound, JobType, PCs, HasHead, HasRegistry, Built, Finished
    <2> QED
      BY <1>3, <2>1, <2>2, <2>6
  <1>11. CASE PrewriteRef(r)
    <2>1. PICK k \in VisibleHeads :
            Step(r, k = j.head, [j EXCEPT !.pc = "prewrite_contents"])
      BY <1>11 DEF PrewriteRef
    <2>2. j.pc = "prewrite_ref" /\ UNCHANGED <<inflight, ack>>
      BY <1>11 DEF PrewriteRef, At
    <2>3. JobSound([j EXCEPT !.pc = "prewrite_contents"])
      BY <1>1, <2>2 DEF JobSound, JobType, PCs, HasHead, HasRegistry, Built, Finished
    <2> QED
      BY <1>3, <2>1, <2>2, <2>3
  <1>12. CASE PrewriteRegistry(r)
    <2>1. PICK k \in VisibleHeads :
            Step(r, lineage[k] = j.registry, [j EXCEPT !.pc = "patch", !.pinned = k])
      BY <1>12 DEF PrewriteRegistry
    <2>2. j.pc = "prewrite_contents" /\ UNCHANGED <<inflight, ack>> /\ k \in Nat
      BY <1>2, <1>12 DEF PrewriteRegistry, At
    <2>3. JobSound([j EXCEPT !.pc = "patch", !.pinned = k])
      BY <1>1, <2>2 DEF JobSound, JobType, PCs, HasHead, HasRegistry, Built, Finished
    <2> QED
      BY <1>3, <2>1, <2>2, <2>3
  <1>13. CASE SendPatch(r)
    <2> DEFINE p == [run |-> r, parent |-> j.head, registry |-> j.next]
    <2>1. /\ j.pc = "patch" /\ inflight' = inflight \cup {p} /\ ack' = ack
          /\ job' = [job EXCEPT ![r] = [j EXCEPT !.pc = "ack"]]
          /\ UNCHANGED <<clock, main, issue, lineage, foreign>>
      BY <1>13 DEF SendPatch, Step, At
    <2>2. JobSound([j EXCEPT !.pc = "ack"])
      BY <1>1, <2>1 DEF JobSound, JobType, PCs, HasHead, HasRegistry, Built, Finished
    <2>3. j.head \in 1..Tip /\ j.registry = lineage[j.head] /\ j.next \in Registries
          /\ Lawful(j.registry, j.next) /\ (WellFormed(j.registry) => WellFormed(j.next))
      BY <1>1, <2>1 DEF JobSound, JobType, HasHead, HasRegistry, Built, Coherent
    <2>4. WellFormed(j.next)
      BY <2>3 DEF IInv, CommitsWellFormed
    <2>5. PatchesSound'
      <3>1. p.parent = j.head /\ p.registry = j.next
        OBVIOUS
      <3> HIDE DEF p
      <3> QED
        BY <2>1, <2>3, <2>4, <3>1 DEF PatchesSound, IInv, Tip
    <2>6. TypeOK'
      BY <1>1, <1>2, <2>1, <2>2, <2>3 DEF TypeOK, JobSound
    <2>7. JobsSound'
      <3>1. \A q \in Runs : job'[q] = IF q = r THEN [j EXCEPT !.pc = "ack"] ELSE job[q]
        BY <1>2, <2>1 DEF TypeOK
      <3>2. \A q \in Runs : JobSound(job'[q])
        BY <2>2, <3>1 DEF IInv, JobsSound
      <3> QED
        BY <2>1, <3>2 DEF JobsSound, JobSound, Coherent, Tip
    <2>8. TokensCoherent' /\ CommitsWellFormed' /\ NoLostUpdate'
      BY <2>1 DEF IInv, TokensCoherent, Coherent, CommitsWellFormed, NoLostUpdate, Tip
    <2> QED
      BY <2>5, <2>6, <2>7, <2>8 DEF IInv
  <1>14. CASE ReceiveAck(r)
    <2>1. Step(r, ack[r] = "ok", [j EXCEPT !.pc = "readback"])
          /\ j.pc = "ack" /\ UNCHANGED <<inflight, ack>>
      BY <1>14 DEF ReceiveAck, At
    <2>2. JobSound([j EXCEPT !.pc = "readback"])
      BY <1>1, <2>1 DEF JobSound, JobType, PCs, HasHead, HasRegistry, Built, Finished
    <2> QED
      BY <1>3, <2>1, <2>2
  <1>15. CASE ReadBack(r)
    <2>1. j.pc = "readback" /\ UNCHANGED <<inflight, ack>>
      BY <1>15 DEF ReadBack, At
    <2>2. PICK k \in VisibleHeads :
            \/ Step(r, j.pinned = j.head, [j EXCEPT !.pc = "pass"])
            \/ Step(r, k = j.pinned /\ j.polls + 1 < RefPolls, [j EXCEPT !.polls = @ + 1])
      BY <1>15 DEF ReadBack
    <2>3. JobSound([j EXCEPT !.pc = "pass"])
      BY <1>1, <2>1 DEF JobSound, JobType, PCs, HasHead, HasRegistry, Built, Finished
    <2>4. JobSound([j EXCEPT !.polls = @ + 1])
      BY <1>1, <2>1 DEF JobSound, JobType, PCs, HasHead, HasRegistry, Built, Finished
    <2> QED
      BY <1>3, <2>1, <2>2, <2>3, <2>4
  <1>16. CASE AckTimeout(r)
    BY <1>3, <1>16 DEF AckTimeout
  <1> QED
    BY <1>4, <1>5, <1>6, <1>7, <1>8, <1>9, <1>10, <1>11, <1>12, <1>13, <1>14, <1>15, <1>16
    DEF Execute

\* Appending a commit leaves the earlier ones where they are.
LEMMA AppendCommit ==
  ASSUME TypeOK, NEW reg \in Registries, lineage' = Append(lineage, reg)
  PROVE  /\ lineage' \in Seq(Registries) /\ lineage' # << >>
         /\ Tip \in Nat \ {0} /\ Tip' = Tip + 1
         /\ \A k \in 1..Tip : lineage'[k] = lineage[k]
         /\ lineage'[Tip + 1] = reg
  <1>1. Tip \in Nat \ {0}
    BY TipFacts
  <1>2. /\ lineage' \in Seq(Registries) /\ Tip' = Tip + 1
        /\ \A k \in 1..Tip : lineage'[k] = lineage[k]
        /\ lineage'[Tip + 1] = reg
    BY AppendProperties DEF TypeOK, Tip
  <1>3. lineage' # << >>
    <2>1. Len(lineage') = Tip + 1
      BY <1>2 DEF Tip
    <2>2. Len(<< >>) = 0
      BY EmptySeq
    <2>3. Tip + 1 # 0
      BY <1>1
    <2> QED
      BY <2>1, <2>2, <2>3
  <1> QED
    BY <1>1, <1>2, <1>3

\* A lawful commit on top of the branch keeps the invariant: what was recorded
\* stays where it was.
LEMMA CommitKeeps ==
  ASSUME IInv, NEW reg, TypeOK', WellFormed(reg), Lawful(Registry, reg),
         Tip \in Nat \ {0}, Tip' = Tip + 1,
         \A k \in 1..Tip : lineage'[k] = lineage[k], lineage'[Tip + 1] = reg,
         UNCHANGED <<issue, job>>, inflight' \subseteq inflight
  PROVE  IInv'
  <1>1. ASSUME NEW req, Coherent(req)
        PROVE  req # NoRequest => req.head \in 1..Tip' /\ req.blob = lineage'[req.head]
    <2>1. SUFFICES ASSUME req # NoRequest
                   PROVE  req.head \in 1..Tip' /\ req.blob = lineage'[req.head]
      OBVIOUS
    <2>2. req.head \in 1..Tip /\ req.blob = lineage[req.head]
      BY <1>1, <2>1 DEF Coherent
    <2>3. req.head \in 1..(Tip + 1)
      BY <2>2
    <2> QED
      BY <2>2, <2>3
  <1>2. TokensCoherent'
    BY <1>1 DEF IInv, TokensCoherent, Coherent
  <1>3. JobsSound'
    BY <1>1 DEF IInv, JobsSound, JobSound, Coherent
  <1>4. CommitsWellFormed'
    <2>1. \A k \in 1..Tip : WellFormed(lineage'[k])
      BY DEF IInv, CommitsWellFormed
    <2>2. WellFormed(lineage'[Tip + 1])
      OBVIOUS
    <2> QED
      BY <2>1, <2>2 DEF CommitsWellFormed
  <1>5. PatchesSound'
    <2>1. \A p \in inflight' : /\ p.parent \in 1..Tip
                               /\ WellFormed(p.registry)
                               /\ Lawful(lineage[p.parent], p.registry)
      BY DEF IInv, PatchesSound
    <2> QED
      BY <2>1 DEF PatchesSound
  <1>6. NoLostUpdate'
    <2>1. ASSUME NEW k \in 1..Tip, k # Tip PROVE Lawful(lineage'[k], lineage'[k + 1])
      <3>1. Lawful(lineage[k], lineage[k + 1])
        BY <2>1 DEF IInv, NoLostUpdate
      <3>2. k + 1 \in 1..Tip
        BY <2>1
      <3> QED
        BY <3>1, <3>2
    <2>2. Lawful(lineage'[Tip], lineage'[Tip + 1])
      <3>1. lineage'[Tip] = Registry
        BY DEF Registry
      <3> QED
        BY <3>1
    <2> QED
      BY <2>1, <2>2 DEF NoLostUpdate
  <1> QED
    BY <1>2, <1>3, <1>4, <1>5, <1>6 DEF IInv

\* Every step keeps the invariant, provided the owner's tokens name one commit.
LEMMA NextKeeps ==
  ASSUME ~TokenSplit, IInv, [Next]_vars
  PROVE  IInv'
  <1>1. TypeOK /\ Tip \in Nat \ {0} /\ \A k \in 1..Tip : lineage[k] \in Registries
        /\ Registry \in Registries
    BY TipFacts DEF IInv, Registry
  <1>2. CASE Tick
    BY <1>2 DEF Tick, IInv, TypeOK, TokensCoherent, Coherent, JobsSound, JobSound,
                CommitsWellFormed, PatchesSound, NoLostUpdate, Tip
  <1>3. CASE AdvanceMain
    BY <1>3 DEF AdvanceMain, IInv, TypeOK, TokensCoherent, Coherent, JobsSound, JobSound,
                CommitsWellFormed, PatchesSound, NoLostUpdate, Tip
  <1>4. CASE ForeignCommit
    <2>1. PICK S \in SUBSET {j \in Slots(Registry) : /\ Entry(Registry, j).state = "ACTIVE"
                                                   /\ ~Unexpired(Entry(Registry, j), clock)} :
            lineage' = Append(lineage, Released(Registry, S))
      BY <1>4 DEF ForeignCommit
    <2>2. Released(Registry, S) \in Registries
      BY <1>1, ReleasedShape
    <2>3. Lawful(Registry, Released(Registry, S)) /\ WellFormed(Released(Registry, S))
      BY <1>1, ReleaseSound DEF IInv, CommitsWellFormed, Registry
    <2>4. TypeOK'
      BY <1>1, <1>4, <2>1, <2>2, AppendCommit DEF ForeignCommit, TypeOK
    <2> QED
      BY <1>1, <1>4, <2>1, <2>2, <2>3, <2>4, AppendCommit, CommitKeeps DEF ForeignCommit
  <1>5. ASSUME NEW i \in Issues, CloseIssue(i) PROVE IInv'
    <2>1. issue' = [issue EXCEPT ![i].state = "DONE"]
          /\ UNCHANGED <<clock, main, lineage, foreign, job, inflight, ack>>
      BY <1>5 DEF CloseIssue
    <2>2. TypeOK'
      BY <1>1, <2>1 DEF TypeOK
    <2>3. \A k \in Issues : issue'[k].req = issue[k].req
      BY <1>1, <2>1 DEF TypeOK
    <2>4. TokensCoherent'
      BY <2>1, <2>3 DEF IInv, TokensCoherent, Coherent, Tip
    <2> QED
      BY <2>1, <2>2, <2>4 DEF IInv, JobsSound, JobSound, Coherent, CommitsWellFormed,
                              PatchesSound, NoLostUpdate, Tip
  <1>6. ASSUME NEW i \in Issues, NEW r \in Runs, FileRequest(r, i) PROVE IInv'
    <2>1. PICK req \in Requests, base \in {main, issue[i].base} :
            /\ Observable(req)
            /\ issue' = [issue EXCEPT ![i] = [state |-> "READY", base |-> base, req |-> req]]
      BY <1>6 DEF FileRequest
    <2>2. /\ job' = [job EXCEPT ![r] = [IdleJob EXCEPT !.pc = "queued", !.issue = i]]
          /\ UNCHANGED <<clock, main, lineage, foreign, inflight, ack>>
      BY <1>6 DEF FileRequest
    <2>3. req \in RequestType /\ Coherent(req)
      <3>1. PICK a \in Actions, id \in LeaseIds, k \in 1..Tip, b \in 1..Tip :
              req = [action |-> a, id |-> id, head |-> k, blob |-> lineage[b]]
        BY <2>1 DEF Requests
      <3> QED
        BY <1>1, <2>1, <3>1 DEF RequestType, Coherent, Observable
    <2>4. JobSound([IdleJob EXCEPT !.pc = "queued", !.issue = i])
      BY EndedJobs DEF JobSound, IdleJob, JobType, PCs, Finished, RequestType, Coherent,
                       NoRequest, HasHead, HasRegistry, Built
    <2>5. TypeOK'
      BY <1>1, <2>1, <2>2, <2>3, <2>4 DEF TypeOK, JobSound
    <2>6. TokensCoherent'
      <3>1. \A m \in Issues : issue'[m].req = IF m = i THEN req ELSE issue[m].req
        BY <1>1, <2>1 DEF TypeOK
      <3> QED
        BY <2>2, <2>3, <3>1 DEF IInv, TokensCoherent, Coherent, Tip
    <2>7. JobsSound'
      <3>1. \A q \in Runs : job'[q] = IF q = r THEN [IdleJob EXCEPT !.pc = "queued", !.issue = i]
                                              ELSE job[q]
        BY <1>1, <2>2 DEF TypeOK
      <3>2. \A q \in Runs : JobSound(job'[q])
        BY <2>4, <3>1 DEF IInv, JobsSound
      <3> QED
        BY <2>2, <3>2 DEF JobsSound, JobSound, Coherent, Tip
    <2> QED
      BY <2>2, <2>5, <2>6, <2>7 DEF IInv, CommitsWellFormed, PatchesSound, NoLostUpdate, Tip
  <1>7. ASSUME NEW r \in Runs, Abort(r) PROVE IInv'
    <2>1. job' = [job EXCEPT ![r] = [IdleJob EXCEPT !.pc = "blocked"]]
          /\ UNCHANGED <<clock, main, issue, lineage, foreign, inflight, ack>>
      BY <1>7 DEF Abort, Step
    <2>2. job'[r] = [IdleJob EXCEPT !.pc = "blocked"]
      BY <1>1, <2>1 DEF TypeOK
    <2>3. JobSound(job[r])'
      BY <2>1, <2>2, EndedJobs DEF JobSound, Coherent, Tip
    <2> QED
      BY <2>1, <2>2, <2>3, RunStep
  <1>8. ASSUME NEW p \in inflight, ProcessPatch(p) PROVE IInv'
    <2>1. /\ inflight' \subseteq inflight
          /\ ack' \in [Runs -> {"none", "ok", "rejected"}]
          /\ UNCHANGED <<clock, main, issue, foreign, job>>
      BY <1>1, <1>8 DEF ProcessPatch, TypeOK
    <2>2. CASE FastForward(p)
      <3>1. p.parent = Tip /\ p.registry \in Registries
        BY <1>1, <2>2 DEF FastForward, TypeOK
      <3>2. SubSeq(lineage, 1, Tip) = lineage
        <4>1. lineage \in Seq(Registries) /\ \A k \in 1..Tip : lineage[k] \in Registries
          BY <1>1 DEF TypeOK
        <4>2. /\ SubSeq(lineage, 1, Tip) \in Seq(Registries)
              /\ Len(SubSeq(lineage, 1, Tip)) = Tip
              /\ \A k \in 1..Tip : SubSeq(lineage, 1, Tip)[k] = lineage[k]
          BY <1>1, <4>1, SubSeqProperties
        <4> QED
          BY <1>1, <4>1, <4>2, SeqEqual DEF Tip
      <3>3. lineage' = Append(lineage, p.registry)
        BY <1>8, <2>2, <3>1, <3>2 DEF ProcessPatch
      <3>4. WellFormed(p.registry) /\ Lawful(Registry, p.registry)
        BY <3>1 DEF IInv, PatchesSound, Registry
      <3>5. TypeOK'
        BY <1>1, <2>1, <3>1, <3>3, AppendCommit DEF TypeOK
      <3> QED
        BY <1>1, <2>1, <3>1, <3>3, <3>4, <3>5, AppendCommit, CommitKeeps
    <2>3. CASE ~FastForward(p)
      <3>1. lineage' = lineage
        BY <1>8, <2>3 DEF ProcessPatch
      <3>2. TypeOK'
        BY <1>1, <2>1, <3>1 DEF TypeOK
      <3> QED
        BY <2>1, <3>1, <3>2 DEF IInv, TokensCoherent, Coherent, JobsSound, JobSound,
                                CommitsWellFormed, PatchesSound, NoLostUpdate, Tip
    <2> QED
      BY <2>2, <2>3
  <1>9. CASE UNCHANGED vars
    BY <1>9 DEF vars, IInv, TypeOK, TokensCoherent, Coherent, JobsSound, JobSound,
                CommitsWellFormed, PatchesSound, NoLostUpdate, Tip
  <1> QED
    BY <1>2, <1>3, <1>4, <1>5, <1>6, <1>7, <1>8, <1>9, ExecuteKeeps DEF Next

\* The empty branch satisfies the invariant.
LEMMA InitKeeps ==
  ASSUME Init
  PROVE  IInv
  <1>1. lineage = <<NoLeases>> /\ NoLeases \in Registries
    BY EndedJobs DEF Init
  <1>2. lineage \in Seq(Registries) /\ lineage # << >> /\ Tip = 1 /\ lineage[1] = NoLeases
    BY <1>1 DEF Tip
  <1>3. Slots(NoLeases) = {}
    BY DEF Slots, NoLeases
  <1>4. WellFormed(NoLeases)
    BY <1>3 DEF WellFormed, NoOverlap, GenerationsIncrease, UniqueIds
  <1>5. CommitsWellFormed /\ NoLostUpdate
    BY <1>2, <1>4 DEF CommitsWellFormed, NoLostUpdate
  <1>6. JobsSound
    BY EndedJobs DEF Init, JobsSound
  <1>7. TypeOK
    BY <1>2, EndedJobs DEF Init, TypeOK, JobSound, RequestType
  <1>8. TokensCoherent /\ PatchesSound
    BY DEF Init, TokensCoherent, PatchesSound, Coherent
  <1> QED
    BY <1>5, <1>6, <1>7, <1>8 DEF IInv

\* The invariant holds in every state the executor can reach, for every number
\* of runs, leases and issues, when the owner's tokens name one commit.
THEOREM Inductive ==
  ASSUME ~TokenSplit
  PROVE  Spec => []IInv
  <1>1. Init => IInv
    BY InitKeeps
  <1>2. IInv /\ [Next]_vars => IInv'
    BY NextKeeps
  <1> QED
    BY <1>1, <1>2, PTL DEF Spec

\* Every variable of the executor model keeps its type.
THEOREM TypeCorrect ==
  ASSUME ~TokenSplit
  PROVE  Spec => []TypeOK
  <1>1. IInv => TypeOK
    BY DEF IInv
  <1> QED
    BY <1>1, Inductive, PTL

\* No commit of the state branch overwrites what its parent recorded.
THEOREM UpdatesAreNotLost ==
  ASSUME ~TokenSplit
  PROVE  Spec => []NoLostUpdate
  <1>1. IInv => NoLostUpdate
    BY DEF IInv
  <1> QED
    BY <1>1, Inductive, PTL

\* Leases of one domain that were not released follow each other, whatever the
\* runners' clocks say: the theorem has no assumption on MaxSkew or MaxLag.
THEOREM LeasesStayApart ==
  ASSUME ~TokenSplit
  PROVE  Spec => []LeasesDoNotOverlap
  <1>1. IInv => LeasesDoNotOverlap
    BY TipFacts DEF IInv, CommitsWellFormed, WellFormed, LeasesDoNotOverlap, Registry
  <1> QED
    BY <1>1, Inductive, PTL

\* Generations grow along the registry and never pass the registry's own.
THEOREM GenerationsAreMonotonic ==
  ASSUME ~TokenSplit
  PROVE  Spec => []GenerationsGrow
  <1>1. IInv => GenerationsGrow
    BY TipFacts DEF IInv, CommitsWellFormed, WellFormed, GenerationsGrow, Registry
  <1> QED
    BY <1>1, Inductive, PTL

\* However many runs read a request, one lease is granted for it.
THEOREM GrantedOnce ==
  ASSUME ~TokenSplit
  PROVE  Spec => []LeaseGrantedOnce
  <1>1. IInv => LeaseGrantedOnce
    BY TipFacts DEF IInv, CommitsWellFormed, WellFormed, LeaseGrantedOnce, Registry
  <1> QED
    BY <1>1, Inductive, PTL

\* A step of the specification keeps the whole history of the state branch.
LEMMA StepKeepsHistory ==
  ASSUME TypeOK, [Next]_vars
  PROVE  Len(lineage') >= Tip /\ SubSeq(lineage', 1, Tip) = lineage
  <1>1. Tip \in Nat \ {0} /\ \A k \in 1..Tip : lineage[k] \in Registries
        /\ lineage \in Seq(Registries) /\ Registry \in Registries
    BY TipFacts DEF TypeOK, Registry
  <1>2. SubSeq(lineage, 1, Tip) = lineage
    <2>1. /\ SubSeq(lineage, 1, Tip) \in Seq(Registries)
          /\ Len(SubSeq(lineage, 1, Tip)) = Tip
          /\ \A k \in 1..Tip : SubSeq(lineage, 1, Tip)[k] = lineage[k]
      BY <1>1, SubSeqProperties
    <2> QED
      BY <1>1, <2>1, SeqEqual DEF Tip
  <1>3. CASE lineage' = lineage
    <2>1. Len(lineage') = Tip
      BY <1>3 DEF Tip
    <2> QED
      BY <1>1, <1>2, <1>3, <2>1
  <1>4. ASSUME NEW reg \in Registries, lineage' = Append(lineage, reg)
        PROVE  Len(lineage') >= Tip /\ SubSeq(lineage', 1, Tip) = lineage
    <2>1. /\ lineage' \in Seq(Registries) /\ Len(lineage') = Tip + 1
          /\ \A k \in 1..Tip : lineage'[k] = lineage[k]
      BY <1>4, AppendCommit DEF Tip
    <2>2. \A k \in 1..Tip : lineage'[k] \in Registries
      BY <1>1, <2>1
    <2>3. /\ SubSeq(lineage', 1, Tip) \in Seq(Registries)
          /\ Len(SubSeq(lineage', 1, Tip)) = Tip
          /\ \A k \in 1..Tip : SubSeq(lineage', 1, Tip)[k] = lineage'[k]
      BY <1>1, <2>1, <2>2, SubSeqProperties
    <2>4. SubSeq(lineage', 1, Tip) = lineage
      BY <1>1, <2>1, <2>3, SeqEqual DEF Tip
    <2>5. Len(lineage') >= Tip
      BY <1>1, <2>1
    <2> QED
      BY <2>4, <2>5
  <1>5. CASE ForeignCommit
    <2>1. PICK S : lineage' = Append(lineage, Released(Registry, S))
      BY <1>5 DEF ForeignCommit
    <2>2. Released(Registry, S) \in Registries
      BY <1>1, ReleasedShape
    <2> QED
      BY <1>4, <2>1, <2>2
  <1>6. ASSUME NEW p \in inflight, ProcessPatch(p)
        PROVE  Len(lineage') >= Tip /\ SubSeq(lineage', 1, Tip) = lineage
    <2>1. p.registry \in Registries
      BY DEF TypeOK
    <2>2. lineage' = lineage \/ lineage' = Append(lineage, p.registry)
      BY <1>2, <1>6 DEF ProcessPatch, FastForward
    <2> QED
      BY <1>3, <1>4, <2>1, <2>2
  <1>7. ASSUME NEW r \in Runs, Execute(r) PROVE lineage' = lineage
    BY <1>7 DEF Execute, ReadIssue, ReadMain, ReadStateRef, ReadRegistry, SelectWorkUnit,
                BuildAcquire, BuildRelease, PrewriteRef, PrewriteRegistry, SendPatch,
                ReceiveAck, ReadBack, AckTimeout, Step
  <1>8. CASE Tick \/ AdvanceMain \/ (\E i \in Issues : CloseIssue(i))
             \/ (\E i \in Issues, r \in Runs : FileRequest(r, i))
             \/ (\E r \in Runs : Abort(r)) \/ UNCHANGED vars
    BY <1>3, <1>8 DEF Tick, AdvanceMain, CloseIssue, FileRequest, Abort, Step, vars
  <1> QED
    BY <1>3, <1>5, <1>6, <1>7, <1>8 DEF Next

\* The state branch is never rewritten: no run and no late PATCH removes a commit.
THEOREM HistoryIsKept ==
  ASSUME ~TokenSplit
  PROVE  Spec => HistoryStays
  <1>1. TypeOK /\ [Next]_vars
          => [Len(lineage') >= Tip /\ SubSeq(lineage', 1, Tip) = lineage]_vars
    BY StepKeepsHistory
  <1> QED
    BY <1>1, TypeCorrect, PTL DEF Spec, HistoryStays

-----------------------------------------------------------------------------
(* A run that reports PASS.                                                *)

\* A step after which run q has not just passed.
LEMMA StepWithoutPass ==
  ASSUME TypeOK, NEW q \in Runs, NEW ok, NEW next, Step(q, ok, next), next.pc # "pass"
  PROVE  /\ job'[q].pc # "pass" /\ lineage' = lineage
         /\ \A r \in Runs \ {q} : job'[r] = job[r]
  <1>1. [IdleJob EXCEPT !.pc = "blocked"].pc # "pass"
    BY DEF IdleJob
  <1>2. job'[q] = IF ok THEN next ELSE [IdleJob EXCEPT !.pc = "blocked"]
    BY DEF Step, TypeOK
  <1>3. \A r \in Runs \ {q} : job'[r] = job[r]
    BY DEF Step, TypeOK
  <1> QED
    BY <1>1, <1>2, <1>3 DEF Step

\* A run passes only in ReadBack, when it sees its own commit.
LEMMA HowRunsPass ==
  ASSUME IInv, NEW q \in Runs, Execute(q) \/ Abort(q)
  PROVE  /\ lineage' = lineage
         /\ \A r \in Runs \ {q} : job'[r] = job[r]
         /\ job'[q].pc = "pass" =>
              /\ job'[q].head = job[q].head /\ job'[q].next = job[q].next
              /\ job[q].head + 1 \in 1..Tip /\ lineage[job[q].head + 1] = job[q].next
  <1> DEFINE j == job[q]
  <1>1. TypeOK /\ j \in JobType /\ VisibleHeads \subseteq 1..Tip
    BY TipFacts DEF IInv, TypeOK
  <1>2. CASE ReadBack(q)
    <2>1. PICK k \in VisibleHeads :
            \/ /\ k = j.head + 1 /\ lineage[k] = j.next
               /\ Step(q, j.pinned = j.head, [j EXCEPT !.pc = "pass"])
            \/ Step(q, k = j.pinned /\ j.polls + 1 < RefPolls, [j EXCEPT !.polls = @ + 1])
      BY <1>2 DEF ReadBack
    <2>2. j.pc = "readback"
      BY <1>2 DEF ReadBack, At
    <2>3. [j EXCEPT !.polls = @ + 1].pc # "pass"
      BY <1>1, <2>2 DEF JobType
    <2>4. CASE Step(q, k = j.pinned /\ j.polls + 1 < RefPolls, [j EXCEPT !.polls = @ + 1])
      BY <1>1, <2>3, <2>4, StepWithoutPass
    <2>5. CASE /\ k = j.head + 1 /\ lineage[k] = j.next
               /\ Step(q, j.pinned = j.head, [j EXCEPT !.pc = "pass"])
      <3>1. job'[q] = [j EXCEPT !.pc = "pass"] \/ job'[q] = [IdleJob EXCEPT !.pc = "blocked"]
        BY <1>1, <2>5 DEF Step, TypeOK
      <3>2. [IdleJob EXCEPT !.pc = "blocked"].pc # "pass"
        BY DEF IdleJob
      <3>3. [j EXCEPT !.pc = "pass"].head = j.head /\ [j EXCEPT !.pc = "pass"].next = j.next
        BY <1>1 DEF JobType
      <3>4. lineage' = lineage /\ \A r \in Runs \ {q} : job'[r] = job[r]
        BY <1>1, <2>5 DEF Step, TypeOK
      <3> QED
        BY <1>1, <2>5, <3>1, <3>2, <3>3, <3>4
    <2> QED
      BY <2>1, <2>4, <2>5
  <1>3. ASSUME ~ReadBack(q)
        PROVE  \E ok, next : Step(q, ok, next) /\ (next.pc # "pass" \/ ok = FALSE)
    <2>1. \A s \in PCs : [j EXCEPT !.pc = s].pc = s
      BY <1>1 DEF JobType
    <2>2. CASE ReadIssue(q)
      <3> DEFINE body == issue[j.issue]
                 next == [j EXCEPT !.pc = "main", !.base = body.base, !.req = body.req]
      <3>1. next.pc = "main"
        BY <1>1 DEF JobType
      <3> QED
        BY <2>2, <3>1 DEF ReadIssue
    <2>3. CASE ReadMain(q)
      BY <2>1, <2>3 DEF ReadMain, PCs
    <2>4. CASE ReadStateRef(q)
      <3>1. PICK k \in VisibleHeads :
              Step(q, k = j.req.head, [j EXCEPT !.pc = "contents", !.head = k])
        BY <2>4 DEF ReadStateRef
      <3>2. [j EXCEPT !.pc = "contents", !.head = k].pc = "contents"
        BY <1>1 DEF JobType
      <3> QED
        BY <3>1, <3>2
    <2>5. CASE ReadRegistry(q)
      <3>1. PICK k \in VisibleHeads :
              Step(q, lineage[k] = j.req.blob,
                   [j EXCEPT !.pc = "select", !.registry = lineage[k], !.pinned = k])
        BY <2>5 DEF ReadRegistry
      <3>2. [j EXCEPT !.pc = "select", !.registry = lineage[k], !.pinned = k].pc = "select"
        BY <1>1 DEF JobType
      <3> QED
        BY <3>1, <3>2
    <2>6. CASE SelectWorkUnit(q)
      BY <2>1, <2>6 DEF SelectWorkUnit, PCs
    <2>7. CASE BuildAcquire(q)
      <3>1. PICK now \in RunnerClock :
              Step(q, CanAcquire(j.registry, j.issue, j.req.id, now),
                   [j EXCEPT !.pc = "prewrite_ref",
                             !.next = Acquired(j.registry, j.issue, j.base, j.req.id, now)])
        BY <2>7 DEF BuildAcquire
      <3> DEFINE new == Acquired(j.registry, j.issue, j.base, j.req.id, now)
      <3>2. [j EXCEPT !.pc = "prewrite_ref", !.next = new].pc = "prewrite_ref"
        <4> HIDE DEF new
        <4> QED BY <1>1 DEF JobType
      <3> QED
        BY <3>1, <3>2
    <2>8. CASE BuildRelease(q)
      <3>1. PICK now \in RunnerClock :
              Step(q, Releasable(j.registry, j.issue, j.base, j.req.id, now) # {},
                   [j EXCEPT !.pc = "prewrite_ref",
                             !.next = Released(j.registry,
                                Releasable(j.registry, j.issue, j.base, j.req.id, now))])
        BY <2>8 DEF BuildRelease
      <3> DEFINE new == Released(j.registry, Releasable(j.registry, j.issue, j.base, j.req.id, now))
      <3>2. [j EXCEPT !.pc = "prewrite_ref", !.next = new].pc = "prewrite_ref"
        <4> HIDE DEF new
        <4> QED BY <1>1 DEF JobType
      <3> QED
        BY <3>1, <3>2
    <2>9. CASE PrewriteRef(q)
      BY <2>1, <2>9 DEF PrewriteRef, PCs
    <2>10. CASE PrewriteRegistry(q)
      <3>1. PICK k \in VisibleHeads :
              Step(q, lineage[k] = j.registry, [j EXCEPT !.pc = "patch", !.pinned = k])
        BY <2>10 DEF PrewriteRegistry
      <3>2. [j EXCEPT !.pc = "patch", !.pinned = k].pc = "patch"
        BY <1>1 DEF JobType
      <3> QED
        BY <3>1, <3>2
    <2>11. CASE SendPatch(q)
      BY <2>1, <2>11 DEF SendPatch, PCs
    <2>12. CASE ReceiveAck(q)
      BY <2>1, <2>12 DEF ReceiveAck, PCs
    <2>13. CASE AckTimeout(q) \/ Abort(q)
      BY <2>13 DEF AckTimeout, Abort
    <2> QED
      BY <1>3, <2>2, <2>3, <2>4, <2>5, <2>6, <2>7, <2>8, <2>9, <2>10, <2>11, <2>12, <2>13
      DEF Execute
  <1>4. CASE ~ReadBack(q)
    <2>1. PICK ok, next : Step(q, ok, next) /\ (next.pc # "pass" \/ ok = FALSE)
      BY <1>3, <1>4
    <2>2. CASE next.pc # "pass"
      BY <1>1, <2>1, <2>2, StepWithoutPass
    <2>3. CASE ok = FALSE
      <3>1. Step(q, FALSE, IdleJob) /\ IdleJob.pc # "pass"
        BY <2>1, <2>3 DEF Step, IdleJob
      <3> QED
        BY <1>1, <3>1, StepWithoutPass
    <2> QED
      BY <2>1, <2>2, <2>3
  <1> QED
    BY <1>2, <1>4

\* Every step leaves a sequence of registries on the branch.
LEMMA TypeKept ==
  ASSUME TypeOK, [Next]_vars
  PROVE  lineage' \in Seq(Registries)
  <1>1. lineage \in Seq(Registries) /\ Registry \in Registries
    BY TipFacts DEF TypeOK, Registry
  <1>2. \A reg \in Registries : Append(lineage, reg) \in Seq(Registries)
    BY <1>1, AppendProperties
  <1>3. CASE ForeignCommit
    <2>1. PICK S : lineage' = Append(lineage, Released(Registry, S))
      BY <1>3 DEF ForeignCommit
    <2> QED
      BY <1>1, <1>2, <2>1, ReleasedShape
  <1>4. ASSUME NEW p \in inflight, ProcessPatch(p)
        PROVE  lineage' \in Seq(Registries)
    <2>1. p.registry \in Registries /\ Tip \in Nat
      BY TipFacts DEF TypeOK
    <2>2. SubSeq(lineage, 1, Tip) \in Seq(Registries)
      BY <1>1, <2>1, TipFacts, SubSeqProperties
    <2>3. CASE FastForward(p)
      <3>1. lineage' = Append(SubSeq(lineage, 1, Tip), p.registry)
        BY <1>4, <2>3 DEF ProcessPatch, FastForward
      <3> QED
        BY <2>1, <2>2, <3>1, AppendProperties
    <2>4. CASE ~FastForward(p)
      BY <1>1, <1>4, <2>4 DEF ProcessPatch
    <2> QED
      BY <2>3, <2>4
  <1>5. ASSUME NEW r \in Runs, Execute(r) PROVE lineage' = lineage
    BY <1>5 DEF Execute, ReadIssue, ReadMain, ReadStateRef, ReadRegistry, SelectWorkUnit,
                BuildAcquire, BuildRelease, PrewriteRef, PrewriteRegistry, SendPatch,
                ReceiveAck, ReadBack, AckTimeout, Step
  <1>6. CASE Tick \/ AdvanceMain \/ (\E i \in Issues : CloseIssue(i))
             \/ (\E i \in Issues, r \in Runs : FileRequest(r, i))
             \/ (\E r \in Runs : Abort(r)) \/ UNCHANGED vars
    BY <1>1, <1>6 DEF Tick, AdvanceMain, CloseIssue, FileRequest, Abort, Step, vars
  <1> QED
    BY <1>1, <1>3, <1>4, <1>5, <1>6 DEF Next

\* What a run reported once stays true: history only grows.
LEMMA PassKeeps ==
  ASSUME IInv, PassIsDurable, [Next]_vars
  PROVE  PassIsDurable'
  <1>1. TypeOK /\ Tip \in Nat \ {0}
    BY TipFacts DEF IInv
  <1>2. \A k \in 1..Tip : lineage'[k] = lineage[k] /\ k \in 1..Tip'
    <2>1. Tip' \in Nat /\ Tip' >= Tip /\ SubSeq(lineage', 1, Tip) = lineage
          /\ lineage' \in Seq(Registries)
      <3>1. lineage' \in Seq(Registries)
        BY <1>1, TypeKept
      <3>2. Tip' \in Nat
        BY <3>1, LenProperties DEF Tip
      <3> QED
        BY <1>1, <3>1, <3>2, StepKeepsHistory DEF Tip
    <2>2. \A k \in 1..Tip : SubSeq(lineage', 1, Tip)[k] = lineage'[k]
      BY <1>1, <2>1, SubSeqProperties DEF Tip
    <2> QED
      BY <1>1, <2>1, <2>2
  <1>3. ASSUME NEW r \in Runs, job[r].pc = "pass"
        PROVE  job[r].head + 1 \in 1..Tip /\ lineage[job[r].head + 1] = job[r].next
    <2>1. job[r].head \in Nat
      BY <1>1 DEF TypeOK, JobType
    <2> QED
      BY <1>1, <1>3, <2>1 DEF PassIsDurable, At
  <1>4. ASSUME NEW r \in Runs, job'[r].pc = "pass"
        PROVE  /\ job'[r].head \in Nat /\ job'[r].head + 1 \in 1..Tip
               /\ lineage[job'[r].head + 1] = job'[r].next
    <2>1. CASE job'[r] = job[r]
      BY <1>1, <1>3, <1>4, <2>1 DEF TypeOK, JobType
    <2>2. ASSUME NEW q \in Runs, Execute(q) \/ Abort(q), job'[r] # job[r]
          PROVE  /\ job'[r].head \in Nat /\ job'[r].head + 1 \in 1..Tip
                 /\ lineage[job'[r].head + 1] = job'[r].next
      <3>1. r = q
        BY <2>2, HowRunsPass
      <3> QED
        BY <1>1, <1>4, <2>2, <3>1, HowRunsPass DEF TypeOK, JobType
    <2>3. ASSUME NEW i \in Issues, NEW q \in Runs, FileRequest(q, i), job'[r] # job[r]
          PROVE  FALSE
      <3>1. job' = [job EXCEPT ![q] = [IdleJob EXCEPT !.pc = "queued", !.issue = i]]
        BY <2>3 DEF FileRequest
      <3>2. job'[r] = [IdleJob EXCEPT !.pc = "queued", !.issue = i]
        BY <1>1, <2>3, <3>1 DEF TypeOK
      <3>3. [IdleJob EXCEPT !.pc = "queued", !.issue = i].pc = "queued"
        BY DEF IdleJob
      <3> QED
        BY <1>4, <3>2, <3>3
    <2>4. CASE \/ Tick \/ AdvanceMain \/ ForeignCommit \/ (\E i \in Issues : CloseIssue(i))
               \/ (\E p \in inflight : ProcessPatch(p)) \/ UNCHANGED vars
      BY <2>1, <2>4 DEF Tick, AdvanceMain, ForeignCommit, CloseIssue, ProcessPatch, vars
    <2> QED
      BY <2>1, <2>2, <2>3, <2>4 DEF Next
  <1>5. ASSUME NEW r \in Runs, job'[r].pc = "pass"
        PROVE  job'[r].head < Tip' /\ lineage'[job'[r].head + 1] = job'[r].next
    <2>1. job'[r].head \in Nat /\ job'[r].head + 1 \in 1..Tip
          /\ lineage[job'[r].head + 1] = job'[r].next
      BY <1>4, <1>5
    <2>2. job'[r].head + 1 \in 1..Tip' /\ lineage'[job'[r].head + 1] = job'[r].next
      BY <1>2, <2>1
    <2>3. Tip' \in Nat
      BY <1>1, TypeKept, LenProperties DEF Tip
    <2>4. \A h, t \in Nat : h + 1 \in 1..t => h < t
      OBVIOUS
    <2> QED
      BY <2>1, <2>2, <2>3, <2>4, Zenon
  <1> QED
    BY <1>5 DEF PassIsDurable, At

\* A run that reports PASS has its commit on the branch, for ever, however much
\* reads of the ref lag and clocks are wrong.
THEOREM ReportedPassesStay ==
  ASSUME ~TokenSplit
  PROVE  Spec => []PassIsDurable
  <1>1. Init => PassIsDurable
    BY DEF Init, PassIsDurable, At, IdleJob
  <1>2. IInv /\ PassIsDurable /\ [Next]_vars => PassIsDurable'
    BY PassKeeps
  <1> QED
    BY <1>1, <1>2, Inductive, PTL DEF Spec
=============================================================================
