----------------------- MODULE WriterLeaseRefinement -----------------------
(***************************************************************************)
(* The executor implements LeaseRegistry when the runners' clocks are      *)
(* right: a PATCH that lands is one atomic grant or release, judged        *)
(* against the leases that stand when it lands.  The grant was decided     *)
(* earlier, on the registry of the commit's parent; the provider lets the  *)
(* ref advance from that parent only, so it is still the registry when the *)
(* PATCH lands, and what time has passed can only have ended leases.       *)
(***************************************************************************)
EXTENDS WriterLeaseProofs

\* The change an executor makes: a lease granted at an instant not after t, or
\* ACTIVE leases released.
Grants(t, reg, new) ==
  \E w \in Issues, id \in LeaseIds, base \in 0..MaxMain, now \in 0..t :
    CanAcquire(reg, w, id, now) /\ new = Acquired(reg, w, base, id, now)

Ends(reg, new) ==
  \E S \in SUBSET Slots(reg) :
    (\A j \in S : Entry(reg, j).state = "ACTIVE") /\ new = Released(reg, S)

Changes(t, reg, new) == Grants(t, reg, new) \/ Ends(reg, new)

\* Every base a work unit is bound to was the head of main once.
BasesKnown ==
  /\ main \in 0..MaxMain
  /\ \A i \in Issues : issue[i].base \in 0..MaxMain
  /\ \A r \in Runs : job[r].base \in 0..MaxMain

\* What a run has built, and what it has sent, is such a change of the registry
\* it read, that of its commit's parent.
BuiltIsChange ==
  \A r \in Runs : job[r].pc \in Built => Changes(clock, job[r].registry, job[r].next)
SentIsChange ==
  \A p \in inflight : Changes(clock, lineage[p.parent], p.registry)

RInv == IInv /\ BasesKnown /\ BuiltIsChange /\ SentIsChange

\* What a change was stays one as time passes.
LEMMA ChangesLater ==
  ASSUME NEW t \in Nat, NEW u \in Nat, t <= u, NEW reg, NEW new, Changes(t, reg, new)
  PROVE  Changes(u, reg, new)
  <1>1. 0..t \subseteq 0..u
    OBVIOUS
  <1> QED
    BY <1>1 DEF Changes, Grants

-----------------------------------------------------------------------------
(* The executor only makes such changes.                                   *)

\* What the invariant asks of a run's state.
Good(j) == j.base \in 0..MaxMain /\ (j.pc \in Built => Changes(clock, j.registry, j.next))

LEMMA GoodBlocked == Good([IdleJob EXCEPT !.pc = "blocked"])
  <1>1. MaxMain \in Nat
    BY ConstantsAssumption, Zenon
  <1> QED
    BY <1>1 DEF Good, IdleJob, Built

\* A step of a run leads to a good state, or to none but the blocked one.
LEMMA ExecuteIsGood ==
  ASSUME RInv, MaxSkew = 0, NEW q \in Runs, Execute(q) \/ Abort(q)
  PROVE  \E ok, next : Step(q, ok, next) /\ (ok => Good(next))
  <1> DEFINE j == job[q]
  <1>1. TypeOK /\ j \in JobType /\ JobSound(j) /\ Good(j)
    BY DEF RInv, IInv, TypeOK, JobsSound, BasesKnown, BuiltIsChange, Good
  <1>2. ASSUME NEW s \in PCs, s \in Built => j.pc \in Built
        PROVE  Good([j EXCEPT !.pc = s])
    BY <1>1, <1>2 DEF JobType, Good
  <1>3. ASSUME NEW s \in PCs \ Built, NEW a, NEW b
        PROVE  /\ Good([j EXCEPT !.pc = s, !.head = a])
               /\ Good([j EXCEPT !.pc = s, !.registry = b, !.pinned = a])
    BY <1>1 DEF JobType, Good
  <1>4. CASE ReadIssue(q)
    <2>1. At(q, "queued") /\ j.issue \in Issues
      BY <1>1, <1>4 DEF ReadIssue, At, JobSound
    <2>2. issue[j.issue].base \in 0..MaxMain
      BY <2>1 DEF RInv, BasesKnown
    <2> DEFINE body == issue[j.issue]
               next == [j EXCEPT !.pc = "main", !.base = body.base, !.req = body.req]
    <2>3. Good(next)
      BY <1>1, <2>2 DEF JobType, Good, Built
    <2> QED
      BY <1>4, <2>3 DEF ReadIssue
  <1>5. CASE ReadMain(q)
    BY <1>2, <1>5 DEF ReadMain, PCs, Built
  <1>6. CASE ReadStateRef(q)
    BY <1>3, <1>6 DEF ReadStateRef, PCs, Built
  <1>7. CASE ReadRegistry(q)
    BY <1>3, <1>7 DEF ReadRegistry, PCs, Built
  <1>8. CASE SelectWorkUnit(q)
    BY <1>2, <1>8 DEF SelectWorkUnit, PCs, Built
  <1>9. CASE BuildAcquire(q)
    <2>1. PICK now \in RunnerClock :
            Step(q, CanAcquire(j.registry, j.issue, j.req.id, now),
                 [j EXCEPT !.pc = "prewrite_ref",
                           !.next = Acquired(j.registry, j.issue, j.base, j.req.id, now)])
      BY <1>9 DEF BuildAcquire
    <2> DEFINE new == Acquired(j.registry, j.issue, j.base, j.req.id, now)
    <2>2. j.pc = "build" /\ j.req.action = "ACQUIRE"
      BY <1>9 DEF BuildAcquire, At
    <2>3. j.issue \in Issues /\ j.base \in 0..MaxMain /\ j.req.id \in LeaseIds
      BY <1>1, <2>2 DEF JobSound, JobType, RequestType, Good
    <2>4. now \in 0..clock
      BY <1>1 DEF RunnerClock, TypeOK
    <2>5. CanAcquire(j.registry, j.issue, j.req.id, now) => Changes(clock, j.registry, new)
      BY <2>3, <2>4 DEF Changes, Grants
    <2>6. Changes(clock, j.registry, new) => Good([j EXCEPT !.pc = "prewrite_ref", !.next = new])
      <3> HIDE DEF new
      <3> QED
        BY <1>1 DEF JobType, Good
    <2> QED
      BY <2>1, <2>5, <2>6
  <1>10. CASE BuildRelease(q)
    <2>1. PICK now \in RunnerClock :
            Step(q, Releasable(j.registry, j.issue, j.base, j.req.id, now) # {},
                 [j EXCEPT !.pc = "prewrite_ref",
                           !.next = Released(j.registry,
                              Releasable(j.registry, j.issue, j.base, j.req.id, now))])
      BY <1>10 DEF BuildRelease
    <2> DEFINE mine == Releasable(j.registry, j.issue, j.base, j.req.id, now)
               new == Released(j.registry, mine)
    <2>2. mine \in SUBSET Slots(j.registry) /\ \A i \in mine : Entry(j.registry, i).state = "ACTIVE"
      BY DEF Releasable, Holds
    <2>3. Changes(clock, j.registry, new)
      <3> HIDE DEF mine
      <3> QED
        BY <2>2 DEF Changes, Ends
    <2>4. Good([j EXCEPT !.pc = "prewrite_ref", !.next = new])
      <3> HIDE DEF new
      <3> QED
        BY <1>1, <2>3 DEF JobType, Good
    <2> QED
      BY <2>1, <2>4
  <1>11. CASE PrewriteRef(q)
    BY <1>2, <1>11 DEF PrewriteRef, At, PCs, Built
  <1>12. CASE PrewriteRegistry(q)
    <2>1. PICK k \in VisibleHeads :
            Step(q, lineage[k] = j.registry, [j EXCEPT !.pc = "patch", !.pinned = k])
      BY <1>12 DEF PrewriteRegistry
    <2>2. j.pc = "prewrite_contents"
      BY <1>12 DEF PrewriteRegistry, At
    <2>3. Good([j EXCEPT !.pc = "patch", !.pinned = k])
      BY <1>1, <2>2 DEF JobType, Good, Built
    <2> QED
      BY <2>1, <2>3
  <1>13. CASE SendPatch(q)
    BY <1>2, <1>13 DEF SendPatch, At, PCs, Built
  <1>14. CASE ReceiveAck(q)
    BY <1>2, <1>14 DEF ReceiveAck, At, PCs, Built
  <1>15. CASE ReadBack(q)
    <2>1. j.pc = "readback"
      BY <1>15 DEF ReadBack, At
    <2>2. PICK k \in VisibleHeads :
            \/ Step(q, j.pinned = j.head, [j EXCEPT !.pc = "pass"])
            \/ Step(q, k = j.pinned /\ j.polls + 1 < RefPolls, [j EXCEPT !.polls = @ + 1])
      BY <1>15 DEF ReadBack
    <2>3. Good([j EXCEPT !.pc = "pass"]) /\ Good([j EXCEPT !.polls = @ + 1])
      BY <1>1, <2>1 DEF JobType, Good, Built
    <2> QED
      BY <2>2, <2>3
  <1>16. CASE AckTimeout(q) \/ Abort(q)
    BY <1>16 DEF AckTimeout, Abort
  <1> QED
    BY <1>4, <1>5, <1>6, <1>7, <1>8, <1>9, <1>10, <1>11, <1>12, <1>13, <1>14, <1>15, <1>16
    DEF Execute

-----------------------------------------------------------------------------
(* Every step keeps the invariant.                                         *)

\* Steps that change no commit, and build and send nothing but such changes.
LEMMA ChangesKept ==
  ASSUME RInv, IInv', clock' \in Nat, clock <= clock',
         \A k \in 1..Tip : lineage'[k] = lineage[k], inflight' \subseteq inflight,
         \A r \in Runs : job'[r] = job[r]
  PROVE  BuiltIsChange' /\ SentIsChange'
  <1>1. clock \in Nat
    BY DEF RInv, IInv, TypeOK
  <1>2. BuiltIsChange'
    BY <1>1, ChangesLater DEF RInv, BuiltIsChange
  <1>3. \A p \in inflight' : p.parent \in 1..Tip /\ Changes(clock, lineage[p.parent], p.registry)
    BY DEF RInv, IInv, PatchesSound, SentIsChange
  <1>4. SentIsChange'
    BY <1>1, <1>3, ChangesLater DEF SentIsChange
  <1> QED
    BY <1>2, <1>4

\* A PATCH that is a fast-forward appends its registry.
LEMMA PatchAppends ==
  ASSUME TypeOK, NEW p \in inflight, ProcessPatch(p)
  PROVE  IF p.parent = Tip THEN lineage' = Append(lineage, p.registry) ELSE lineage' = lineage
  <1>1. /\ lineage \in Seq(Registries) /\ Tip \in Nat \ {0}
        /\ \A k \in 1..Tip : lineage[k] \in Registries
    BY TipFacts DEF TypeOK
  <1>2. /\ SubSeq(lineage, 1, Tip) \in Seq(Registries)
        /\ Len(SubSeq(lineage, 1, Tip)) = Tip
        /\ \A k \in 1..Tip : SubSeq(lineage, 1, Tip)[k] = lineage[k]
    BY <1>1, SubSeqProperties
  <1>3. SubSeq(lineage, 1, Tip) = lineage
    BY <1>1, <1>2, SeqEqual DEF Tip
  <1> QED
    BY <1>3 DEF ProcessPatch, FastForward

LEMMA ExecuteKeepsR ==
  ASSUME RInv, IInv', MaxSkew = 0, NEW q \in Runs, Execute(q) \/ Abort(q)
  PROVE  RInv'
  <1>1. PICK ok, next : Step(q, ok, next) /\ (ok => Good(next))
    BY ExecuteIsGood
  <1>2. TypeOK /\ UNCHANGED <<clock, main, issue, lineage>>
    BY <1>1 DEF Step, RInv, IInv
  <1>3. Good(job'[q]) /\ \A r \in Runs \ {q} : job'[r] = job[r]
    BY <1>1, <1>2, GoodBlocked DEF Step, TypeOK
  <1>4. BasesKnown' /\ BuiltIsChange'
    BY <1>2, <1>3 DEF RInv, BasesKnown, BuiltIsChange, Good
  <1>5. SentIsChange'
    <2>1. CASE SendPatch(q)
      <3> DEFINE p == [run |-> q, parent |-> job[q].head, registry |-> job[q].next]
      <3>1. inflight' = inflight \cup {p} /\ job[q].pc = "patch"
        BY <2>1 DEF SendPatch, At
      <3>2. job[q].registry = lineage[job[q].head] /\ Changes(clock, job[q].registry, job[q].next)
        BY <3>1 DEF RInv, IInv, JobsSound, JobSound, BuiltIsChange, HasHead, HasRegistry, Built,
                    Coherent
      <3>3. Changes(clock, lineage[p.parent], p.registry)
        BY <3>2
      <3> HIDE DEF p
      <3> QED
        BY <1>2, <3>1, <3>3 DEF RInv, SentIsChange
    <2>2. CASE ~SendPatch(q)
      <3>1. inflight' = inflight
        BY <2>2 DEF Execute, Abort, ReadIssue, ReadMain, ReadStateRef, ReadRegistry,
                    SelectWorkUnit, BuildAcquire, BuildRelease, PrewriteRef, PrewriteRegistry,
                    ReceiveAck, ReadBack, AckTimeout
      <3> QED
        BY <1>2, <3>1 DEF RInv, SentIsChange
    <2> QED
      BY <2>1, <2>2
  <1> QED
    BY <1>4, <1>5 DEF RInv

LEMMA NextKeepsR ==
  ASSUME RInv, IInv', MaxSkew = 0, [Next]_vars
  PROVE  RInv'
  <1>1. TypeOK /\ clock \in Nat /\ MaxMain \in Nat /\ Registry \in Registries
    <2>1. MaxMain \in Nat
      BY ConstantsAssumption, Zenon
    <2> QED
      BY <2>1, TipFacts DEF RInv, IInv, TypeOK, Registry
  <1>2. clock <= clock
    BY <1>1
  <1>3. ASSUME UNCHANGED <<main, issue, job>>, clock' = clock, inflight' \subseteq inflight,
               \A k \in 1..Tip : lineage'[k] = lineage[k]
        PROVE  RInv'
    <2>1. BasesKnown'
      BY <1>3 DEF RInv, BasesKnown
    <2> QED
      BY <1>1, <1>2, <1>3, <2>1, ChangesKept DEF RInv
  <1>4. CASE Tick
    <2>1. clock' = clock + 1 /\ UNCHANGED <<main, issue, lineage, job, inflight>>
      BY <1>4 DEF Tick
    <2>2. clock' \in Nat /\ clock <= clock'
      BY <1>1, <2>1
    <2>3. BuiltIsChange' /\ SentIsChange'
      BY <2>1, <2>2, ChangesKept
    <2>4. BasesKnown'
      BY <2>1 DEF RInv, BasesKnown
    <2> QED
      BY <2>3, <2>4 DEF RInv
  <1>5. CASE AdvanceMain
    <2>1. /\ main < MaxMain /\ main' = main + 1
          /\ UNCHANGED <<clock, issue, lineage, job, inflight>>
      BY <1>5 DEF AdvanceMain
    <2>2. main + 1 \in 0..MaxMain
      BY <1>1, <2>1 DEF TypeOK
    <2>3. BasesKnown'
      BY <2>1, <2>2 DEF RInv, BasesKnown
    <2>4. BuiltIsChange' /\ SentIsChange'
      BY <1>1, <1>2, <2>1, ChangesKept
    <2> QED
      BY <2>3, <2>4 DEF RInv
  <1>6. CASE ForeignCommit
    <2>1. PICK S : lineage' = Append(lineage, Released(Registry, S))
      BY <1>6 DEF ForeignCommit
    <2>2. \A k \in 1..Tip : lineage'[k] = lineage[k]
      BY <1>1, <2>1, ReleasedShape, AppendCommit
    <2> QED
      BY <1>3, <1>6, <2>2 DEF ForeignCommit
  <1>7. ASSUME NEW i \in Issues, CloseIssue(i) PROVE RInv'
    <2>1. issue' = [issue EXCEPT ![i].state = "DONE"]
          /\ UNCHANGED <<clock, main, lineage, job, inflight>>
      BY <1>7 DEF CloseIssue
    <2>2. \A m \in Issues : issue'[m].base = issue[m].base
      BY <1>1, <2>1 DEF TypeOK
    <2>3. BasesKnown'
      BY <2>1, <2>2 DEF RInv, BasesKnown
    <2>4. BuiltIsChange' /\ SentIsChange'
      BY <1>1, <1>2, <2>1, ChangesKept
    <2> QED
      BY <2>3, <2>4 DEF RInv
  <1>8. ASSUME NEW i \in Issues, NEW r \in Runs, FileRequest(r, i) PROVE RInv'
    <2>1. PICK req \in Requests, base \in {main, issue[i].base} :
            issue' = [issue EXCEPT ![i] = [state |-> "READY", base |-> base, req |-> req]]
      BY <1>8 DEF FileRequest
    <2>2. /\ job' = [job EXCEPT ![r] = [IdleJob EXCEPT !.pc = "queued", !.issue = i]]
          /\ UNCHANGED <<clock, main, lineage, inflight>>
      BY <1>8 DEF FileRequest
    <2>3. base \in 0..MaxMain
      BY <2>1 DEF RInv, BasesKnown
    <2>4. \A m \in Issues : issue'[m].base \in 0..MaxMain
      BY <1>1, <2>1, <2>3 DEF TypeOK, RInv, BasesKnown
    <2>5. Good([IdleJob EXCEPT !.pc = "queued", !.issue = i])
      BY <1>1 DEF Good, IdleJob, Built
    <2>6. \A q \in Runs : job'[q] = IF q = r THEN [IdleJob EXCEPT !.pc = "queued", !.issue = i]
                                            ELSE job[q]
      BY <1>1, <2>2 DEF TypeOK
    <2>7. \A q \in Runs : Good(job'[q])
      BY <2>5, <2>6 DEF RInv, BasesKnown, BuiltIsChange, Good
    <2>8. BasesKnown' /\ BuiltIsChange'
      BY <2>2, <2>4, <2>7 DEF RInv, BasesKnown, BuiltIsChange, Good
    <2>9. SentIsChange'
      BY <2>2 DEF RInv, SentIsChange
    <2> QED
      BY <2>8, <2>9 DEF RInv
  <1>9. ASSUME NEW p \in inflight, ProcessPatch(p) PROVE RInv'
    <2>1. inflight' \subseteq inflight /\ UNCHANGED <<clock, main, issue, job>>
      BY <1>9 DEF ProcessPatch
    <2>2. \A k \in 1..Tip : lineage'[k] = lineage[k]
      BY <1>1, <1>9, PatchAppends, AppendCommit DEF TypeOK
    <2> QED
      BY <1>3, <2>1, <2>2
  <1>10. ASSUME NEW q \in Runs, Execute(q) \/ Abort(q) PROVE RInv'
    BY <1>10, ExecuteKeepsR
  <1>11. CASE UNCHANGED vars
    BY <1>3, <1>11 DEF vars
  <1> QED
    BY <1>4, <1>5, <1>6, <1>7, <1>8, <1>9, <1>10, <1>11 DEF Next

LEMMA InitR ==
  ASSUME Init
  PROVE  RInv
  <1>1. MaxMain \in Nat
    BY ConstantsAssumption, Zenon
  <1>2. BasesKnown
    BY <1>1 DEF Init, BasesKnown, IdleJob
  <1>3. BuiltIsChange /\ SentIsChange
    BY DEF Init, BuiltIsChange, SentIsChange, IdleJob, Built
  <1> QED
    BY <1>2, <1>3, InitKeeps DEF RInv

-----------------------------------------------------------------------------
(* The simulation.                                                         *)

\* A change of the registry at the tip is a step of LeaseRegistry: a lease that
\* did not hold when it was judged does not hold now.
LEMMA ChangeIsAbstract ==
  ASSUME Registry \in Registries, clock \in Nat, NEW new, Changes(clock, Registry, new),
         Registry' = new, clock' = clock
  PROVE  Abstract!Next
  <1>1. CASE Grants(clock, Registry, new)
    <2>1. PICK w \in Issues, id \in LeaseIds, base \in 0..MaxMain, now \in 0..clock :
            CanAcquire(Registry, w, id, now) /\ new = Acquired(Registry, w, base, id, now)
      BY <1>1 DEF Grants
    <2>2. \A j \in DOMAIN Registry.entries :
            ~ (Abstract!Conflicting(Registry.entries[j], w) /\ Abstract!Holds(Registry.entries[j], clock))
      <3> SUFFICES ASSUME NEW j \in DOMAIN Registry.entries,
                          Abstract!Conflicting(Registry.entries[j], w),
                          Abstract!Holds(Registry.entries[j], clock)
                   PROVE  FALSE
        OBVIOUS
      <3>1. j \in Slots(Registry) /\ Entry(Registry, j) = Registry.entries[j]
        BY DEF Slots, Entry
      <3>2. Registry.entries[j].expires \in Nat
        BY <3>1, SlotsOf DEF Leases
      <3>3. Holds(Entry(Registry, j), now) /\ Conflicting(Entry(Registry, j), w)
        BY <2>1, <3>1, <3>2
        DEF Abstract!Conflicting, Abstract!Holds, Holds, Unexpired, Conflicting
      <3> QED
        BY <2>1, <3>1, <3>3 DEF CanAcquire, NoConflict
    <2>3. \A j \in DOMAIN Registry.entries : Registry.entries[j].id # id
      BY <2>1 DEF CanAcquire, NewLeaseId, Slots, Entry
    <2>4. Abstract!Grant(w, id, base, now)
      BY <2>1, <2>2, <2>3 DEF Abstract!Grant, Acquired
    <2> QED
      BY <2>4 DEF Abstract!Next
  <1>2. CASE Ends(Registry, new)
    <2>1. PICK S \in SUBSET Slots(Registry) :
            (\A j \in S : Entry(Registry, j).state = "ACTIVE") /\ new = Released(Registry, S)
      BY <1>2 DEF Ends
    <2>2. Abstract!EndLeases(S)
      BY <2>1 DEF Abstract!EndLeases, Released, Slots, Entry
    <2> QED
      BY <2>1, <2>2 DEF Abstract!Next, Slots
  <1> QED
    BY <1>1, <1>2 DEF Changes

\* Every step of the executor is a step of LeaseRegistry or leaves it alone.
LEMMA Simulation ==
  ASSUME RInv, [Next]_vars
  PROVE  [Abstract!Next]_(Abstract!absVars)
  <1>1. TypeOK /\ Registry \in Registries /\ clock \in Nat /\ Tip \in Nat \ {0}
    BY TipFacts DEF RInv, IInv, TypeOK, Registry
  <1>2. ASSUME lineage' = lineage, clock' = clock
        PROVE  UNCHANGED Abstract!absVars
    BY <1>2 DEF Registry, Tip, Abstract!absVars
  <1>3. ASSUME NEW reg \in Registries, lineage' = Append(lineage, reg), clock' = clock,
               Changes(clock, Registry, reg)
        PROVE  Abstract!Next
    <2>1. Registry' = reg
      BY <1>1, <1>3, AppendCommit DEF Registry
    <2> QED
      BY <1>1, <1>3, <2>1, ChangeIsAbstract
  <1>4. CASE Tick
    <2>1. lineage' = lineage /\ clock' = clock + 1
      BY <1>4 DEF Tick
    <2>2. Registry' = Registry
      BY <2>1 DEF Registry, Tip
    <2> QED
      BY <2>1, <2>2 DEF Abstract!Next, Abstract!Pass
  <1>5. CASE ForeignCommit
    <2>1. PICK S \in SUBSET {j \in Slots(Registry) : /\ Entry(Registry, j).state = "ACTIVE"
                                                   /\ ~Unexpired(Entry(Registry, j), clock)} :
            lineage' = Append(lineage, Released(Registry, S))
      BY <1>5 DEF ForeignCommit
    <2>2. Changes(clock, Registry, Released(Registry, S)) /\ Released(Registry, S) \in Registries
      BY <1>1, ReleasedShape DEF Changes, Ends
    <2>3. clock' = clock
      BY <1>5 DEF ForeignCommit
    <2> QED
      BY <1>3, <2>1, <2>2, <2>3
  <1>6. ASSUME NEW p \in inflight, ProcessPatch(p)
        PROVE  [Abstract!Next]_(Abstract!absVars)
    <2>1. clock' = clock
      BY <1>6 DEF ProcessPatch
    <2>2. CASE p.parent = Tip
      <3>1. lineage' = Append(lineage, p.registry) /\ p.registry \in Registries
        BY <1>1, <1>6, <2>2, PatchAppends DEF TypeOK
      <3>2. Changes(clock, Registry, p.registry)
        BY <2>2 DEF RInv, SentIsChange, Registry
      <3> QED
        BY <1>3, <2>1, <3>1, <3>2
    <2>3. CASE p.parent # Tip
      BY <1>1, <1>2, <1>6, <2>1, <2>3, PatchAppends
    <2> QED
      BY <2>2, <2>3
  <1>7. ASSUME NEW q \in Runs, Execute(q) \/ Abort(q) PROVE lineage' = lineage /\ clock' = clock
    BY <1>7 DEF Execute, Abort, ReadIssue, ReadMain, ReadStateRef, ReadRegistry, SelectWorkUnit,
                BuildAcquire, BuildRelease, PrewriteRef, PrewriteRegistry, SendPatch,
                ReceiveAck, ReadBack, AckTimeout, Step
  <1>8. CASE \/ AdvanceMain \/ (\E i \in Issues : CloseIssue(i))
             \/ (\E i \in Issues, q \in Runs : FileRequest(q, i)) \/ UNCHANGED vars
    BY <1>2, <1>8 DEF AdvanceMain, CloseIssue, FileRequest, vars
  <1> QED
    BY <1>2, <1>4, <1>5, <1>6, <1>7, <1>8 DEF Next

LEMMA InitSimulates ==
  ASSUME Init
  PROVE  Abstract!Init
  <1>1. lineage = <<NoLeases>> /\ clock = 0
    BY DEF Init
  <1>2. Registry = NoLeases
    BY <1>1 DEF Registry, Tip
  <1> QED
    BY <1>1, <1>2 DEF Abstract!Init, Abstract!NoLeases, NoLeases

\* The executor implements LeaseRegistry for every number of runs, leases and
\* work units and however late a PATCH lands, while clocks are right and the
\* owner's tokens name one commit; reads of the ref may lag.
THEOREM ImplementsRegistry ==
  ASSUME ~TokenSplit, MaxSkew = 0
  PROVE  Spec => ImplementsLeaseRegistry
  <1>1. Init => RInv
    BY InitR
  <1>2. RInv /\ IInv' /\ [Next]_vars => RInv'
    BY NextKeepsR
  <1>3. Init => Abstract!Init
    BY InitSimulates
  <1>4. RInv /\ [Next]_vars => [Abstract!Next]_(Abstract!absVars)
    BY Simulation
  <1> QED
    BY <1>1, <1>2, <1>3, <1>4, Inductive, PTL
    DEF Spec, ImplementsLeaseRegistry, Abstract!Spec

=============================================================================
