------------------------ MODULE SessionHandoffProofs ------------------------
(***************************************************************************)
(* Proofs about SessionHandoff: one living lease, clean records that are   *)
(* fences, transactions that happen once, and evidence that tells the      *)
(* truth.                                                                  *)
(***************************************************************************)
EXTENDS SessionHandoff, FiniteSetTheorems, SequenceTheorems, TLAPS

Txns == Kinds \X (0..MaxMain) \X Int
Plans == {<<>>} \cup (Kinds \X Truths)
Iterations == [kind : Kinds, before : Truths, after : Truths]
Requests == [session : SessionIds, kind : Kinds, at : Truths, after : Nat]
Sessions == [id : {0} \cup SessionIds, mode : {"NONE"} \cup Modes,
             pc : {"none", "ready", "reconcile", "sent"}, previous : BOOLEAN,
             answer : {"NONE", "OK", "REFUSED"}, plan : Plans, start : Seq(Truths),
             log : Seq(Iterations)]
Performed == [txn : Txns, head : Nat]

UpstreamType ==
  /\ main \in 0..MaxMain /\ base \in 0..main /\ drift \subseteq Files /\ exception \in BOOLEAN
  /\ readiness \in [state : {"NONE", "ASSESSED", "DEFERRED", "APPROVED"}, stale : SUBSET Nat]
  /\ faults \in 0..MaxFaults
RegistryType ==
  /\ head \in Nat /\ generation \in 0..head /\ lease \subseteq Entries
  /\ \A e \in lease : e.gen <= generation /\ e.wu <= base
WorkType == branch \in -1..LastHead /\ checks \in {"PENDING", "SUCCESS", "FAILURE"}
SessionType ==
  /\ session \in Sessions
  /\ (session.pc = "sent") <=> (session.plan # <<>>)
  /\ session.pc # "none" => session.id \in SessionIds
RecordsType ==
  /\ prior = NoRecord \/ RecordValid(prior)
  /\ prior.seq \in Nat /\ prior.txns \in Seq(Txns) /\ completed \in Seq(Txns)

Types ==
  /\ UpstreamType /\ RegistryType /\ WorkType /\ SessionType /\ RecordsType
  /\ requests \subseteq Requests /\ applied \in Seq(Performed)

\* Requests: each session waits for one at most, each that nobody waits for
\* any more cost a fault, and there are always ids for the next session.
Pending == session.pc = "sent" /\ session.answer = "NONE"
Senders == {r.session : r \in requests}

Waiting ==
  /\ \A r \in requests : r.session = session.id => Pending /\ session.plan = <<r.kind, r.at>>
  /\ \A r, s \in requests : r.session = s.session => r = s

Room ==
  /\ IsFiniteSet(Senders)
  /\ Cardinality(Senders) <= IF Pending THEN faults + 1 ELSE faults

\* What a request was sent on is the provider's past or its present.
SentBefore(r) ==
  /\ r.at.head <= head /\ r.at.base <= base
  /\ r.at.base = base => r.at.branch <= branch
  /\ r.kind \in {"BRANCH", "PUSH"} => r.at.branch < LastHead
  /\ r.kind = "RELEASE" => r.at.branch = LastHead

Sent == \A r \in requests : SentBefore(r)

\* One living lease; a claim that can still be applied was sent when there was
\* none, and none has come since.
OneLiving == \A e, f \in Live : e = f
Claims == \A r \in requests : r.kind = "LEASE" /\ r.at.head = head => Live = {}

Registry(r) == r.kind \in {"LEASE", "RELEASE"}
Overtaken(r) == Registry(r) => r.at.head < head

\* A release sent for an earlier work unit than a lease was claimed for.
Superseded == \A r \in requests, e \in lease : r.at.base < e.wu => r.at.head < head

\* A session that writes a branch or has had an answer to a claim or release
\* knows that no registry request of an earlier session can be applied.
Knows ==
  \/ session.log # <<>>
  \/ session.plan # <<>> /\ (session.answer = "OK" \/ session.plan[1] \in {"BRANCH", "PUSH"})

Overtaking == Knows => \A r \in requests : r.session # session.id => Overtaken(r)
Fence == prior.class = "CLEAN" => \A r \in requests : r.after < prior.seq => Overtaken(r)

Fencing == Superseded /\ Overtaking /\ Fence

\* What was applied is the provider's past.
Over(x) ==
  IF x[1] \in {"LEASE", "RELEASE"} THEN x[3] < head
                                   ELSE x[2] < base \/ (x[2] = base /\ x[3] < branch)
Past ==
  \A k \in DOMAIN applied :
     /\ Over(applied[k].txn) /\ applied[k].head <= head
     /\ applied[k].txn[1] \in {"LEASE", "RELEASE"} => applied[k].head = applied[k].txn[3]
AppliedOnce == \A h, k \in DOMAIN applied : applied[h].txn = applied[k].txn => h = k

\* Where a transaction was applied: after all those that were done before it.
Done == completed \o Fingerprints(session.log)
AppliedAt(k, x) == k \in DOMAIN applied /\ applied[k].txn = x
WasApplied == \A i \in DOMAIN Done : \E k \in DOMAIN applied : applied[k].txn = Done[i]
InOrder ==
  \A i, j \in DOMAIN Done : \A h, k \in DOMAIN applied :
     i < j /\ applied[h].txn = Done[i] /\ applied[k].txn = Done[j] => h < k

Planned == Fingerprint(session.plan[1], session.plan[2])
Answered ==
  session.plan # <<>> =>
    /\ session.plan[2].head <= head
    /\ session.answer = "OK" =>
        \E k \in DOMAIN applied :
           /\ applied[k].txn = Planned /\ session.plan[2].head <= applied[k].head
           /\ \A i \in DOMAIN Done : \A h \in DOMAIN applied : applied[h].txn = Done[i] => h < k

\* The registry stood between the two reads when an iteration was performed.
Between ==
  \A i \in DOMAIN session.log : \A k \in DOMAIN applied :
     applied[k].txn = Fingerprint(session.log[i].kind, session.log[i].before) =>
        session.log[i].before.head <= applied[k].head /\ applied[k].head <= session.log[i].after.head

Recorded == \A i \in DOMAIN prior.txns : \E j \in DOMAIN completed : completed[j] = prior.txns[i]

Basics == Types /\ Waiting /\ Room /\ Sent
Leases == OneLiving /\ Claims
History == Past /\ AppliedOnce /\ WasApplied /\ InOrder /\ Answered /\ Between /\ Recorded

\* The inductive invariant.
Inductive == Basics /\ Leases /\ Fencing /\ History

---------------------------------------------------------------------------
\* The type of the state.

LEMMA TruthIsSnapshot ==
  ASSUME UpstreamType, RegistryType, WorkType
  PROVE  Truth \in Truths
<1>1. {e.wu : e \in Live} \subseteq {Rival} \cup 0..MaxMain
  BY DEF RegistryType, Live, Entries
<1>2. main \in 0..MaxMain /\ base \in 0..MaxMain /\ generation \in Nat
  BY ConstantsAssumption DEF UpstreamType, RegistryType
<1> QED  BY <1>1, <1>2 DEF Truth, Truths, RegistryType, WorkType

LEMMA UpstreamStep ==
  ASSUME UpstreamType, RegistryType, [Next]_vars
  PROVE  UpstreamType'
<1> USE ConstantsAssumption DEF UpstreamType, Fault
<1>1. CASE UNCHANGED <<upstream, faults>>
  BY <1>1 DEF upstream
<1>2. CASE Interrupt
  BY <1>2 DEF Interrupt, upstream
<1>3. ASSUME NEW e \in Live, ExpireLease(e) PROVE UpstreamType'
  BY <1>3 DEF ExpireLease, upstream
<1>4. CASE RivalClaim
  BY <1>4 DEF RivalClaim, upstream
<1>5. CASE AssessReadiness
  <2>1. Generations(Stale) \subseteq Nat
    BY DEF Generations, Stale, RegistryType, Entries
  <2> QED  BY <1>5, <2>1 DEF AssessReadiness
<1>6. CASE DeferReadiness
  BY <1>6 DEF DeferReadiness
<1>7. CASE ApproveReadiness
  BY <1>7 DEF ApproveReadiness
<1>8. CASE CompleteChecks
  BY <1>8 DEF CompleteChecks, upstream
<1>9. CASE ForeignCommit
  <2>1. drift' \subseteq Files
    BY <1>9 DEF ForeignCommit
  <2>2. main' \in 0..MaxMain /\ base' \in 0..main' /\ faults' \in 0..MaxFaults
    BY <1>9 DEF ForeignCommit
  <2> QED  BY <1>9, <2>1, <2>2 DEF ForeignCommit
<1>10. CASE RepairPolicies
  BY <1>10 DEF RepairPolicies
<1>11. CASE OwnerException
  BY <1>11 DEF OwnerException
<1>12. CASE Merge
  BY <1>12 DEF Merge
<1>13. CASE NewWork
  BY <1>13 DEF NewWork
<1> QED
  BY <1>1, <1>2, <1>3, <1>4, <1>5, <1>6, <1>7, <1>8, <1>9, <1>10, <1>11, <1>12, <1>13
  DEF Next, vars, upstream, Start, Reconcile, Delegate, Readback, Handoff, Leave, Apply, Hygiene,
      RepairChecks

\* The selected work unit only moves on, and its branch grows until it does.
LEMMA WorkGrows ==
  ASSUME Types, [Next]_vars
  PROVE  base <= base' /\ (base' = base => branch <= branch')
<1> USE DEF Types, UpstreamType, WorkType
<1>1. ASSUME NEW r \in requests, Apply(r) PROVE base <= base' /\ branch <= branch'
  BY <1>1 DEF Apply, Perform, upstream, work
<1>2. CASE NewWork
  BY <1>2 DEF NewWork
<1>3. CASE UNCHANGED <<base, branch>>
  BY <1>3
<1> QED
  BY <1>1, <1>2, <1>3
  DEF Next, vars, upstream, registry, work, Start, Reconcile, Delegate, Readback, Handoff, Leave, Hygiene, RepairChecks,
      Interrupt, ExpireLease, RivalClaim, AssessReadiness, DeferReadiness, ApproveReadiness,
      CompleteChecks, ForeignCommit, RepairPolicies, OwnerException, Merge

LEMMA EntryChanges ==
  ASSUME NEW e \in Entries
  PROVE  /\ [e EXCEPT !.expired = TRUE] \in Entries /\ [e EXCEPT !.state = "RELEASED"] \in Entries
         /\ [e EXCEPT !.expired = TRUE].gen = e.gen /\ [e EXCEPT !.expired = TRUE].wu = e.wu
         /\ [e EXCEPT !.state = "RELEASED"].gen = e.gen /\ [e EXCEPT !.state = "RELEASED"].wu = e.wu
         /\ [e EXCEPT !.expired = TRUE].expired = TRUE
         /\ [e EXCEPT !.state = "RELEASED"].state = "RELEASED"
BY DEF Entries

\* What happens to the registry, in every step.
Released(entries) == (lease \ entries) \cup {[e EXCEPT !.state = "RELEASED"] : e \in entries}
NewEntry(wu) == [gen |-> generation + 1, wu |-> wu, state |-> "ACTIVE", expired |-> FALSE]

Claimed(wu) ==
  head' = head + 1 /\ generation' = generation + 1 /\ lease' = lease \cup {NewEntry(wu)}

LEMMA RegistryChanges ==
  ASSUME [Next]_vars
  PROVE  \/ UNCHANGED registry
         \/ \E r \in requests : Apply(r) /\ Accepts(r) /\ r.kind = "LEASE" /\ Claimed(r.at.base)
         \/ \E r \in requests : Apply(r) /\ Accepts(r) /\ r.kind = "RELEASE"
               /\ head' = head + 1 /\ generation' = generation /\ lease' = Released(Owned)
         \/ \E e \in Live : lease' = (lease \ {e}) \cup {[e EXCEPT !.expired = TRUE]}
               /\ UNCHANGED <<head, generation>> /\ ExpireLease(e)
         \/ Live = {} /\ Claimed(Rival) /\ RivalClaim
         \/ head' = head + 1 /\ generation' = generation /\ lease' = Released(Stale) /\ Hygiene
<1>1. ASSUME NEW r \in requests, Apply(r)
      PROVE  \/ UNCHANGED registry
             \/ Accepts(r) /\ r.kind = "LEASE" /\ Claimed(r.at.base)
             \/ Accepts(r) /\ r.kind = "RELEASE"
                /\ head' = head + 1 /\ generation' = generation /\ lease' = Released(Owned)
  BY <1>1 DEF Apply, Perform, Claimed, NewEntry, Released
<1>2. ASSUME NEW e \in Live, ExpireLease(e)
      PROVE  lease' = (lease \ {e}) \cup {[e EXCEPT !.expired = TRUE]} /\ UNCHANGED <<head, generation>>
  BY <1>2 DEF ExpireLease
<1>3. ASSUME RivalClaim PROVE Live = {} /\ Claimed(Rival)
  BY <1>3 DEF RivalClaim, Claimed, NewEntry
<1>4. ASSUME Hygiene PROVE head' = head + 1 /\ generation' = generation /\ lease' = Released(Stale)
  BY <1>4 DEF Hygiene, Reconciled, Released
<1>5. ASSUME \/ \E mode \in Modes : Start(mode)
             \/ Reconcile \/ Delegate \/ Readback \/ Handoff \/ Interrupt \/ Leave
             \/ AssessReadiness \/ DeferReadiness \/ ApproveReadiness
             \/ CompleteChecks \/ RepairChecks \/ ForeignCommit \/ RepairPolicies \/ OwnerException
             \/ Merge \/ NewWork \/ UNCHANGED vars
      PROVE  UNCHANGED registry
  BY <1>5
  DEF vars, registry, Start, Reconcile, Delegate, Readback, Handoff, Leave, RepairChecks,
      Interrupt, AssessReadiness, DeferReadiness, ApproveReadiness,
      CompleteChecks, ForeignCommit, RepairPolicies, OwnerException, Merge, NewWork
<1> QED
  BY <1>1, <1>2, <1>3, <1>4, <1>5 DEF Next

LEMMA RegistryStep ==
  ASSUME Types, Sent, [Next]_vars
  PROVE  RegistryType' /\ head <= head'
<1> USE DEF RegistryType
<1>1. base <= base' /\ base \in Int /\ base' \in Int
  <2>1. UpstreamType'
    BY UpstreamStep DEF Types
  <2> QED  BY <2>1, WorkGrows DEF Types, UpstreamType
<1>2. RegistryType /\ head \in Nat /\ generation \in 0..head /\ base \in 0..MaxMain
  BY ConstantsAssumption DEF Types, UpstreamType
<1>3. ASSUME NEW wu \in {Rival} \cup 0..MaxMain, wu <= base, Claimed(wu)
      PROVE  RegistryType' /\ head <= head'
  <2>1. NewEntry(wu) \in Entries
    BY <1>2 DEF NewEntry, Entries
  <2>2. NewEntry(wu).gen = generation + 1 /\ NewEntry(wu).wu = wu
    BY DEF NewEntry
  <2>3. \A e \in lease' : e \in Entries /\ e.gen <= generation' /\ e.wu <= base'
    <3> SUFFICES ASSUME NEW e \in lease' PROVE e \in Entries /\ e.gen <= generation' /\ e.wu <= base'
      OBVIOUS
    <3>1. CASE e \in lease
      BY <1>1, <1>2, <1>3, <3>1 DEF Claimed, Entries, Rival
    <3>2. CASE e = NewEntry(wu)
      BY <1>1, <1>2, <1>3, <2>1, <2>2, <3>2 DEF Claimed, Rival
    <3> QED  BY <1>3, <3>1, <3>2 DEF Claimed
  <2> QED  BY <1>2, <1>3, <2>3 DEF Claimed
<1>4. ASSUME NEW S \in SUBSET lease, lease' = Released(S),
             head' = head + 1, generation' \in {generation, generation + 1}
      PROVE  RegistryType' /\ head <= head'
  <2>1. \A e \in lease' : e \in Entries /\ e.gen <= generation' /\ e.wu <= base'
    <3> SUFFICES ASSUME NEW e \in lease' PROVE e \in Entries /\ e.gen <= generation' /\ e.wu <= base'
      OBVIOUS
    <3>1. PICK f \in lease : e = f \/ e = [f EXCEPT !.state = "RELEASED"]
      BY <1>4 DEF Released
    <3>4. f \in Entries
      BY <1>2
    <3>5. e \in Entries /\ e.gen = f.gen /\ e.wu = f.wu
      BY <3>1, <3>4, EntryChanges
    <3>2. f \in Entries /\ f.gen <= generation /\ f.wu <= base
      BY <1>2
    <3> QED  BY <1>1, <1>2, <1>4, <3>5, <3>2 DEF Entries, Rival
  <2> QED  BY <1>2, <1>4, <2>1
<1>5. ASSUME NEW e \in Live, lease' = (lease \ {e}) \cup {[e EXCEPT !.expired = TRUE]}, UNCHANGED <<head, generation>>
      PROVE  RegistryType' /\ head <= head'
  <2>1. \A f \in lease' : f \in Entries /\ f.gen <= generation' /\ f.wu <= base'
    <3> SUFFICES ASSUME NEW f \in lease' PROVE f \in Entries /\ f.gen <= generation' /\ f.wu <= base'
      OBVIOUS
    <3>1. PICK g \in lease : f \in Entries /\ f.gen = g.gen /\ f.wu = g.wu
      BY <1>2, <1>5, EntryChanges DEF Live
    <3>2. g \in Entries /\ g.gen <= generation /\ g.wu <= base
      BY <1>2
    <3> QED  BY <1>1, <1>2, <1>5, <3>1, <3>2 DEF Entries, Rival
  <2> QED  BY <1>2, <1>5, <2>1
<1>6. CASE UNCHANGED registry
  <2>1. \A e \in lease' : e \in Entries /\ e.gen <= generation' /\ e.wu <= base'
    BY <1>1, <1>2, <1>6 DEF registry, Entries, Rival
  <2> QED  BY <1>2, <1>6, <2>1 DEF registry
<1>7. \A r \in requests : r.at.base \in 0..MaxMain /\ r.at.base <= base
  BY DEF Types, Requests, Truths, Sent, SentBefore
<1>8. Owned \subseteq lease /\ Stale \subseteq lease
  BY DEF Owned, Live, Stale
<1>9. Rival \in {Rival} \cup 0..MaxMain /\ Rival <= base
  BY <1>2 DEF Rival
<1> QED
  <2>1. CASE \E r \in requests : Apply(r) /\ Accepts(r) /\ r.kind = "LEASE" /\ Claimed(r.at.base)
    BY <1>3, <1>7, <2>1
  <2>2. CASE \E r \in requests : Apply(r) /\ Accepts(r) /\ r.kind = "RELEASE"
               /\ head' = head + 1 /\ generation' = generation /\ lease' = Released(Owned)
    BY <1>4, <1>8, <2>2
  <2>3. CASE \E e \in Live : lease' = (lease \ {e}) \cup {[e EXCEPT !.expired = TRUE]}
               /\ UNCHANGED <<head, generation>> /\ ExpireLease(e)
    BY <1>5, <2>3
  <2>4. CASE Live = {} /\ Claimed(Rival) /\ RivalClaim
    BY <1>3, <1>9, <2>4
  <2>5. CASE head' = head + 1 /\ generation' = generation /\ lease' = Released(Stale) /\ Hygiene
    BY <1>4, <1>8, <2>5
  <2> QED  BY <1>6, <2>1, <2>2, <2>3, <2>4, <2>5, RegistryChanges

LEMMA WorkStep ==
  ASSUME WorkType, Sent, requests \subseteq Requests, [Next]_vars
  PROVE  WorkType'
<1> USE ConstantsAssumption DEF WorkType
<1>1. ASSUME NEW r \in requests, Apply(r) PROVE WorkType'
  <2>1. CASE UNCHANGED work
    BY <2>1 DEF work
  <2>2. CASE r.kind \notin {"LEASE", "RELEASE"} /\ Accepts(r) /\ branch' = branch + 1 /\ checks' = "PENDING"
    <3>1. ASSUME r.kind \in {"BRANCH", "PUSH"} PROVE branch < LastHead
      BY <2>2, <3>1 DEF Accepts, Sent, SentBefore
    <3>2. CASE r.kind \in {"BRANCH", "PUSH"}
      BY <2>2, <3>1, <3>2
    <3> QED  BY <2>2, <3>2 DEF Requests, Kinds
  <2> QED  BY <1>1, <2>1, <2>2 DEF Apply, Perform, Accepts, work
<1>2. CASE CompleteChecks
  BY <1>2 DEF CompleteChecks
<1>3. CASE RepairChecks
  BY <1>3 DEF RepairChecks
<1>4. CASE NewWork
  BY <1>4 DEF NewWork
<1>5. CASE UNCHANGED work
  BY <1>5 DEF work
<1> QED
  BY <1>1, <1>2, <1>3, <1>4, <1>5
  DEF Next, vars, upstream, registry, work, Start, Reconcile, Delegate, Readback, Handoff, Leave, Hygiene,
      Interrupt, ExpireLease, RivalClaim, AssessReadiness, DeferReadiness, ApproveReadiness,
      ForeignCommit, RepairPolicies, OwnerException, Merge

\* What happens to the session and to its request.

SessionSteps ==
  \/ \E mode \in Modes : Start(mode)
  \/ Reconcile \/ Delegate \/ Readback \/ Handoff \/ Interrupt \/ Leave
  \/ \E r \in requests : Apply(r)

LEMMA OnlySessionSteps ==
  ASSUME [Next]_vars
  PROVE  SessionSteps \/ UNCHANGED <<records, session, requests, applied>>
BY DEF Next, vars, SessionSteps, ExpireLease, RivalClaim, AssessReadiness, DeferReadiness, Hygiene,
       ApproveReadiness, CompleteChecks, RepairChecks, ForeignCommit, RepairPolicies, OwnerException,
       Merge, NewWork, records

LEMMA NoSessionType ==
  NoSession \in Sessions /\ NoSession.id = 0 /\ NoSession.pc = "none" /\ NoSession.answer = "NONE"
  /\ NoSession.plan = <<>> /\ NoSession.log = <<>>
BY EmptySeq DEF NoSession, Sessions, Plans

LEMMA FingerprintType ==
  ASSUME NEW kind \in Kinds, NEW t \in Truths
  PROVE  Fingerprint(kind, t) \in Txns
BY ConstantsAssumption DEF Fingerprint, Txns, Truths

LEMMA FingerprintsType ==
  ASSUME NEW log \in Seq(Iterations)
  PROVE  /\ Fingerprints(log) \in Seq(Txns) /\ Len(Fingerprints(log)) = Len(log)
         /\ DOMAIN Fingerprints(log) = DOMAIN log
         /\ \A i \in DOMAIN log : Fingerprints(log)[i] = Fingerprint(log[i].kind, log[i].before)
<1>1. DOMAIN log = 1..Len(log) /\ Len(log) \in Nat
  OBVIOUS
<1>2. \A i \in DOMAIN log : Fingerprint(log[i].kind, log[i].before) \in Txns
  <2> SUFFICES ASSUME NEW i \in DOMAIN log PROVE Fingerprint(log[i].kind, log[i].before) \in Txns
    OBVIOUS
  <2>1. log[i] \in Iterations
    BY <1>1
  <2> QED  BY <2>1, FingerprintType DEF Iterations
<1>3. Fingerprints(log) \in [1..Len(log) -> Txns]
  BY <1>1, <1>2 DEF Fingerprints
<1>4. Fingerprints(log) \in Seq(Txns) /\ Len(Fingerprints(log)) = Len(log)
  BY <1>1, <1>3
<1> QED  BY <1>1, <1>4 DEF Fingerprints

LEMMA FreeId ==
  ASSUME Types, Room, session.pc = "none"
  PROVE  \E n \in SessionIds : \A r \in requests : r.session # n
<1>1. Cardinality(Senders) <= faults /\ faults <= MaxFaults /\ MaxFaults \in Nat /\ faults \in Nat
  BY ConstantsAssumption DEF Room, Pending, Types, UpstreamType
<1>2. IsFiniteSet(SessionIds) /\ Cardinality(SessionIds) = MaxFaults + 1
  BY <1>1, FS_Interval DEF SessionIds
<1>3. IsFiniteSet(Senders) /\ Cardinality(Senders) \in Nat
  BY FS_CardinalityType DEF Room
<1>4. Senders \subseteq SessionIds
  BY DEF Senders, Types, Requests
<1>5. Senders # SessionIds
  BY <1>1, <1>2, <1>3
<1>6. PICK n \in SessionIds : n \notin Senders
  BY <1>4, <1>5
<1> QED  BY <1>6 DEF Senders

\* The id of the next session is nobody's.
LEMMA ChosenId ==
  ASSUME Types, Room, session.pc = "none"
  PROVE  LET n == CHOOSE n \in SessionIds : \A r \in requests : r.session # n
         IN  n \in SessionIds /\ \A r \in requests : r.session # n
BY FreeId

LEMMA RecordType ==
  ASSUME Types, NEW class \in {"CLEAN", "UNKNOWN", "PENDING"}
  PROVE  /\ Record(class).seq = prior.seq + 1 /\ Record(class).class = class
         /\ Record(class).txns = Fingerprints(session.log) /\ Record(class).txns \in Seq(Txns)
         /\ Record(class).seq \in Nat
<1>1. session.log \in Seq(Iterations)
  BY DEF Types, SessionType, Sessions
<1> QED  BY <1>1, FingerprintsType DEF Record, Types, RecordsType

LEMMA RecordsStep ==
  ASSUME Types, [Next]_vars
  PROVE  RecordsType'
<1>1. ASSUME NEW class \in {"CLEAN", "UNKNOWN", "PENDING"}, Persist(Record(class))
      PROVE  RecordsType'
  <2>1. prior' = Record(class) /\ completed' = completed \o Record(class).txns /\ RecordValid(Record(class))
    BY <1>1 DEF Persist
  <2>2. completed' \in Seq(Txns)
    BY <2>1, RecordType DEF Types, RecordsType
  <2>3. RecordValid(prior')
    BY <2>1 DEF RecordValid, Truths, Rival
  <2>4. prior'.seq \in Nat /\ prior'.txns \in Seq(Txns)
    BY <2>1, RecordType
  <2> QED  BY <2>2, <2>3, <2>4 DEF RecordsType, RecordValid
<1>2. Boundary \in {"CLEAN", "UNKNOWN", "PENDING"}
  BY DEF Boundary
<1>3. CASE UNCHANGED records
  BY <1>3 DEF records, RecordsType, RecordValid, Types
<1>4. CASE Handoff
  BY <1>1, <1>4 DEF Handoff
<1>5. CASE Interrupt
  BY <1>1, <1>2, <1>3, <1>5 DEF Interrupt
<1> QED
  BY <1>3, <1>4, <1>5, OnlySessionSteps
  DEF SessionSteps, Start, Reconcile, Delegate, Readback, Leave, Apply

\* The effect of the steps on the session, its request and the records.

LEMMA StartEffect ==
  ASSUME Types, Room, NEW mode \in Modes, Start(mode)
  PROVE  /\ session.pc = "none" /\ session' \in Sessions /\ session'.pc \in {"ready", "reconcile"}
         /\ session'.plan = <<>> /\ session'.log = <<>> /\ session'.answer = "NONE"
         /\ session'.id \in SessionIds /\ \A r \in requests : r.session # session'.id
         /\ UNCHANGED <<upstream, registry, work, records, requests, applied, faults>>
<1>1. Truth \in Truths
  BY TruthIsSnapshot DEF Types
<1> DEFINE n == CHOOSE n \in SessionIds : \A r \in requests : r.session # n
<1>2. PICK pc \in {"ready", "reconcile"} :
         session' = [NoSession EXCEPT !.mode = mode, !.start = <<Truth>>, !.id = n, !.pc = pc]
  BY DEF Start
<1>3. session.pc = "none"
  BY DEF Start
<1>4. n \in SessionIds /\ \A r \in requests : r.session # n
  BY <1>3, ChosenId
<1> HIDE DEF n
<1>5. /\ session' \in Sessions /\ session'.pc = pc /\ session'.id = n /\ session'.plan = <<>>
      /\ session'.log = <<>> /\ session'.answer = "NONE"
  <2>1. <<Truth>> \in Seq(Truths) /\ <<>> \in Seq(Iterations)
    BY <1>1, EmptySeq
  <2> QED  BY <1>2, <1>4, <2>1 DEF NoSession, Sessions, Plans
<1> QED  BY <1>3, <1>4, <1>5 DEF Start

LEMMA ReconcileEffect ==
  ASSUME Types, Reconcile
  PROVE  /\ session.pc = "reconcile" /\ session' \in Sessions /\ session'.pc = "ready"
         /\ session'.id = session.id /\ session'.plan = session.plan /\ session'.log = session.log
         /\ session'.answer = session.answer
         /\ UNCHANGED <<upstream, registry, work, records, requests, applied, faults>>
<1>1. Truth \in Truths
  BY TruthIsSnapshot DEF Types
<1>2. <<Truth>> \in Seq(Truths)
  BY <1>1
<1>3. session \in Sessions
  BY DEF Types, SessionType
<1>4. /\ session' \in Sessions /\ session'.pc = "ready" /\ session'.id = session.id
      /\ session'.plan = session.plan /\ session'.log = session.log /\ session'.answer = session.answer
  BY <1>2, <1>3 DEF Reconcile, Sessions
<1> QED  BY <1>4 DEF Reconcile

LEMMA DelegateEffect ==
  ASSUME Types, Delegate
  PROVE  \E kind \in Kinds :
           /\ session.pc = "ready" /\ kind = NextKind(session.mode, Truth)
           /\ requests' = requests \cup
                {[session |-> session.id, kind |-> kind, at |-> Truth, after |-> prior.seq]}
           /\ session' \in Sessions /\ session'.pc = "sent" /\ session'.id = session.id
           /\ session'.plan = <<kind, Truth>> /\ session'.log = session.log /\ session'.answer = "NONE"
           /\ UNCHANGED <<upstream, registry, work, records, applied, faults>>
<1>1. Truth \in Truths
  BY TruthIsSnapshot DEF Types
<1>2. PICK kind \in Kinds :
         /\ kind = NextKind(session.mode, Truth)
         /\ requests' = requests \cup
              {[session |-> session.id, kind |-> kind, at |-> Truth, after |-> prior.seq]}
         /\ session' = [session EXCEPT !.pc = "sent", !.plan = <<kind, Truth>>, !.answer = "NONE"]
  BY DEF Delegate
<1>3. session \in Sessions
  BY DEF Types, SessionType
<1>4. /\ session' \in Sessions /\ session'.pc = "sent" /\ session'.id = session.id
      /\ session'.plan = <<kind, Truth>> /\ session'.log = session.log /\ session'.answer = "NONE"
  <2>1. <<kind, Truth>> \in Plans
    BY <1>1 DEF Plans
  <2> QED  BY <1>2, <1>3, <2>1 DEF Sessions
<1> QED  BY <1>2, <1>4 DEF Delegate

Iterated == [kind |-> session.plan[1], before |-> session.plan[2], after |-> Truth]

LEMMA PlanType ==
  ASSUME SessionType, session.pc = "sent"
  PROVE  session.plan \in Kinds \X Truths /\ session.plan[1] \in Kinds /\ session.plan[2] \in Truths
<1>1. session.plan \in Kinds \X Truths
  BY DEF SessionType, Sessions, Plans
<1> QED  BY <1>1

LEMMA ReadbackEffect ==
  ASSUME Types, Readback
  PROVE  /\ session.pc = "sent" /\ session.answer = "OK" /\ Iterated \in Iterations
         /\ session' \in Sessions /\ session'.pc = "ready" /\ session'.id = session.id
         /\ session'.plan = <<>> /\ session'.log = Append(session.log, Iterated) /\ session'.answer = "NONE"
         /\ UNCHANGED <<upstream, registry, work, records, requests, applied, faults>>
<1>1. Truth \in Truths
  BY TruthIsSnapshot DEF Types
<1>2. session.plan[1] \in Kinds /\ session.plan[2] \in Truths
  BY PlanType DEF Types, Readback
<1>3. Iterated \in Iterations
  BY <1>1, <1>2 DEF Iterated, Iterations
<1>4. session' = [session EXCEPT !.pc = "ready", !.previous = TRUE, !.answer = "NONE", !.plan = <<>>,
                     !.log = Append(@, Iterated)]
  BY DEF Readback, ReadBack, Iterated
<1>5. session \in Sessions
  BY DEF Types, SessionType
<1>6. Append(session.log, Iterated) \in Seq(Iterations)
  <2>1. session.log \in Seq(Iterations)
    BY <1>5 DEF Sessions
  <2> QED  BY <1>3, <2>1
<1>7. /\ session' \in Sessions /\ session'.pc = "ready" /\ session'.id = session.id
      /\ session'.plan = <<>> /\ session'.log = Append(session.log, Iterated) /\ session'.answer = "NONE"
  BY <1>4, <1>5, <1>6 DEF Sessions, Plans
<1> QED  BY <1>3, <1>7 DEF Readback

\* The three ways a session ends.
LEMMA EndEffect ==
  ASSUME Types, Handoff \/ Interrupt \/ Leave
  PROVE  /\ session' = NoSession /\ UNCHANGED <<upstream, registry, work, requests, applied>>
         /\ \/ Handoff /\ UNCHANGED faults /\ Persist(Record("CLEAN"))
               /\ session.pc = "ready" /\ session.log # <<>>
            \/ Interrupt /\ session.pc = "sent" /\ faults' = faults + 1 /\ Persist(Record(Boundary))
            \/ Interrupt /\ faults' = faults + 1 /\ UNCHANGED records
            \/ Leave /\ UNCHANGED <<records, faults>> /\ ~Pending
<1>1. CASE Handoff
  BY <1>1 DEF Handoff
<1>2. CASE Interrupt
  BY <1>2 DEF Interrupt, Fault
<1>3. CASE Leave
  BY <1>3 DEF Leave, Pending
<1> QED  BY <1>1, <1>2, <1>3

LEMMA ApplyEffect ==
  ASSUME Types, NEW r \in requests, Apply(r)
  PROVE  /\ requests' = requests \ {r} /\ UNCHANGED <<upstream, records, faults>>
         /\ session' \in Sessions /\ session'.pc = session.pc /\ session'.id = session.id
         /\ session'.plan = session.plan /\ session'.log = session.log
         /\ IF r.session = session.id /\ session.pc = "sent"
            THEN session'.answer = IF Accepts(r) THEN "OK" ELSE "REFUSED"
            ELSE session' = session
<1>1. session \in Sessions
  BY DEF Types, SessionType
<1>2. CASE r.session = session.id /\ session.pc = "sent"
  <2> DEFINE a == IF Accepts(r) THEN "OK" ELSE "REFUSED"
  <2>1. session' = [session EXCEPT !.answer = a]
    BY <1>2 DEF Apply
  <2>2. a \in {"OK", "REFUSED"}
    OBVIOUS
  <2> HIDE DEF a
  <2>3. /\ session' \in Sessions /\ session'.pc = session.pc /\ session'.id = session.id
        /\ session'.plan = session.plan /\ session'.log = session.log /\ session'.answer = a
    BY <1>1, <2>1, <2>2 DEF Sessions
  <2> QED  BY <1>2, <2>3 DEF Apply, a
<1>3. CASE ~(r.session = session.id /\ session.pc = "sent")
  <2>1. session' = session
    BY <1>3 DEF Apply
  <2> QED  BY <1>1, <1>3, <2>1 DEF Apply
<1> QED  BY <1>2, <1>3

LEMMA SessionStep ==
  ASSUME Types, Room, [Next]_vars
  PROVE  SessionType'
<1>1. /\ session \in Sessions /\ ((session.pc = "sent") <=> (session.plan # <<>>))
      /\ session.pc # "none" => session.id \in SessionIds
  BY DEF Types, SessionType
<1>2. ASSUME NEW mode \in Modes, Start(mode) PROVE SessionType'
  BY <1>2, StartEffect DEF SessionType
<1>3. CASE Reconcile
  BY <1>1, <1>3, ReconcileEffect DEF SessionType
<1>4. CASE Delegate
  <2>1. PICK kind \in Kinds :
           /\ session.pc = "ready" /\ session' \in Sessions /\ session'.pc = "sent"
           /\ session'.id = session.id /\ session'.plan = <<kind, Truth>>
    BY <1>4, DelegateEffect
  <2>2. <<kind, Truth>> # <<>>
    OBVIOUS
  <2> QED  BY <1>1, <2>1, <2>2 DEF SessionType
<1>5. CASE Readback
  BY <1>1, <1>5, ReadbackEffect DEF SessionType
<1>6. CASE Handoff \/ Interrupt \/ Leave
  BY <1>6, EndEffect, NoSessionType DEF SessionType
<1>7. ASSUME NEW r \in requests, Apply(r) PROVE SessionType'
  BY <1>1, <1>7, ApplyEffect DEF SessionType
<1>8. CASE UNCHANGED session
  BY <1>1, <1>8 DEF SessionType
<1> QED
  BY <1>2, <1>3, <1>4, <1>5, <1>6, <1>7, <1>8, OnlySessionSteps DEF SessionSteps

\* Requests.

LEMMA PlannedKind ==
  ASSUME WorkType, NEW mode, NEW kind \in Kinds, kind = NextKind(mode, Truth)
  PROVE  /\ kind \in {"BRANCH", "PUSH"} => branch < LastHead /\ base \in {e.wu : e \in Live}
         /\ kind = "RELEASE" => branch = LastHead
         /\ kind = "LEASE" => Live = {}
<1> USE ConstantsAssumption DEF WorkType, Kinds, Truth
<1>1. ASSUME kind \in {"BRANCH", "PUSH"} PROVE branch < LastHead /\ base \in {e.wu : e \in Live}
  BY <1>1 DEF NextKind, Owns
<1>2. ASSUME kind = "RELEASE" PROVE branch = LastHead
  BY <1>2 DEF NextKind, Owns
<1>3. ASSUME kind = "LEASE" PROVE Live = {}
  <2>1. {e.wu : e \in Live} = {}
    BY <1>3 DEF NextKind, Owns
  <2> QED  BY <2>1
<1> QED  BY <1>1, <1>2, <1>3

LEMMA NewRequest ==
  ASSUME Types, NEW kind \in Kinds, session.pc = "ready",
         NEW r, r = [session |-> session.id, kind |-> kind, at |-> Truth, after |-> prior.seq]
  PROVE  r \in Requests /\ r.session = session.id /\ r.kind = kind /\ r.at = Truth /\ r.after = prior.seq
<1>1. Truth \in Truths
  BY TruthIsSnapshot DEF Types
<1>2. session.id \in SessionIds /\ prior.seq \in Nat
  BY DEF Types, SessionType, RecordsType
<1> QED  BY <1>1, <1>2 DEF Requests

LEMMA RequestsType ==
  ASSUME Types, [Next]_vars
  PROVE  requests' \subseteq Requests
<1>1. requests \subseteq Requests
  BY DEF Types
<1>2. CASE Delegate
  BY <1>1, <1>2, DelegateEffect, NewRequest
<1>3. ASSUME NEW r \in requests, Apply(r) PROVE requests' \subseteq Requests
  BY <1>1, <1>3, ApplyEffect
<1>4. CASE UNCHANGED requests
  BY <1>1, <1>4
<1> QED
  BY <1>2, <1>3, <1>4, OnlySessionSteps
  DEF SessionSteps, Start, Reconcile, Readback, Handoff, Interrupt, Leave

LEMMA AppliedEffect ==
  ASSUME Types, [Next]_vars
  PROVE  \/ UNCHANGED applied
         \/ \E r \in requests :
              /\ Apply(r) /\ Accepts(r)
              /\ applied' = Append(applied, [txn |-> Fingerprint(r.kind, r.at), head |-> head])
              /\ [txn |-> Fingerprint(r.kind, r.at), head |-> head] \in Performed
<1>1. ASSUME NEW r \in requests, Apply(r), Accepts(r)
      PROVE  /\ applied' = Append(applied, [txn |-> Fingerprint(r.kind, r.at), head |-> head])
             /\ [txn |-> Fingerprint(r.kind, r.at), head |-> head] \in Performed
  <2>1. r.kind \in Kinds /\ r.at \in Truths /\ head \in Nat
    BY DEF Types, Requests, RegistryType
  <2>2. Fingerprint(r.kind, r.at) \in Txns
    BY <2>1, FingerprintType
  <2> QED  BY <1>1, <2>1, <2>2 DEF Apply, Performed
<1>2. ASSUME NEW r \in requests, Apply(r), ~Accepts(r) PROVE UNCHANGED applied
  BY <1>2 DEF Apply
<1> QED
  BY <1>1, <1>2, OnlySessionSteps
  DEF SessionSteps, Start, Reconcile, Delegate, Readback, Handoff, Interrupt, Leave

LEMMA TypesStep ==
  ASSUME Types, Room, Sent, [Next]_vars
  PROVE  Types'
<1>1. applied' \in Seq(Performed)
  <2>1. applied \in Seq(Performed)
    BY DEF Types
  <2>2. ASSUME NEW p \in Performed PROVE Append(applied, p) \in Seq(Performed)
    BY <2>1
  <2>3. CASE UNCHANGED applied
    BY <2>1, <2>3
  <2>4. CASE \E p \in Performed : applied' = Append(applied, p)
    BY <2>2, <2>4
  <2> QED  BY <2>3, <2>4, AppliedEffect
<1>2. UpstreamType' /\ RegistryType' /\ WorkType' /\ SessionType' /\ RecordsType' /\ requests' \subseteq Requests
  BY UpstreamStep, RegistryStep, WorkStep, SessionStep, RecordsStep, RequestsType DEF Types
<1> QED  BY <1>1, <1>2 DEF Types

LEMMA RequestIds ==
  ASSUME Types
  PROVE  \A r \in requests : r \in Requests /\ r.session \in SessionIds /\ r.session # 0
BY ConstantsAssumption DEF Types, Requests, SessionIds

\* A request that is answered is the session's, or nobody's.
LEMMA WaitingStep ==
  ASSUME Types, Room, Waiting, [Next]_vars
  PROVE  Waiting'
<1> USE DEF Waiting
<1>1. ASSUME NEW mode \in Modes, Start(mode) PROVE Waiting'
  BY <1>1, StartEffect
<1>2. CASE Reconcile
  BY <1>2, ReconcileEffect DEF Pending
<1>3. CASE Delegate
  <2>1. PICK kind \in Kinds :
           /\ session.pc = "ready"
           /\ requests' = requests \cup
                {[session |-> session.id, kind |-> kind, at |-> Truth, after |-> prior.seq]}
           /\ session'.pc = "sent" /\ session'.id = session.id
           /\ session'.plan = <<kind, Truth>> /\ session'.answer = "NONE"
    BY <1>3, DelegateEffect
  <2> DEFINE q == [session |-> session.id, kind |-> kind, at |-> Truth, after |-> prior.seq]
  <2>2. q.session = session.id /\ q.kind = kind /\ q.at = Truth
    OBVIOUS
  <2>3. requests' = requests \cup {q}
    BY <2>1
  <2> HIDE DEF q
  <2>4. \A r \in requests : r.session # session.id
    BY <2>1 DEF Pending
  <2>5. \A r \in requests' : r.session = session'.id => r = q
    BY <2>1, <2>3, <2>4
  <2>6. \A r, s \in requests' : r.session = s.session => r = s
    BY <2>2, <2>3, <2>4
  <2>7. Pending' /\ session'.plan = <<q.kind, q.at>>
    BY <2>1, <2>2 DEF Pending
  <2> QED  BY <2>5, <2>6, <2>7
<1>4. CASE Readback
  <2>1. \A r \in requests : r.session # session.id
    BY <1>4, ReadbackEffect DEF Pending
  <2> QED  BY <1>4, <2>1, ReadbackEffect
<1>5. CASE Handoff \/ Interrupt \/ Leave
  <2>1. session'.id = 0 /\ requests' = requests
    BY <1>5, EndEffect, NoSessionType
  <2> QED  BY <2>1, RequestIds
<1>6. ASSUME NEW r \in requests, Apply(r) PROVE Waiting'
  <2>1. CASE r.session = session.id
    <3>1. \A q \in requests' : q \in requests /\ q.session # session.id
      BY <1>6, <2>1, ApplyEffect
    <3> QED  BY <1>6, <3>1, ApplyEffect
  <2>2. CASE r.session # session.id
    <3>1. session' = session /\ requests' = requests \ {r}
      BY <1>6, <2>2, ApplyEffect
    <3> QED  BY <3>1 DEF Pending
  <2> QED  BY <2>1, <2>2
<1>7. CASE UNCHANGED <<records, session, requests, applied>>
  BY <1>7 DEF Pending
<1> QED
  BY <1>1, <1>2, <1>3, <1>4, <1>5, <1>6, <1>7, OnlySessionSteps DEF SessionSteps

\* The senders of requests, when one is sent or answered.
LEMMA SendersChange ==
  ASSUME Types, Waiting, IsFiniteSet(Senders)
  PROVE  /\ Cardinality(Senders) \in Nat
         /\ \A q : requests' = requests \cup {q} =>
              IsFiniteSet(Senders') /\ Cardinality(Senders') <= Cardinality(Senders) + 1
         /\ \A r \in requests : requests' = requests \ {r} =>
              IsFiniteSet(Senders') /\ Cardinality(Senders') = Cardinality(Senders) - 1
<1>1. Cardinality(Senders) \in Nat
  BY FS_CardinalityType
<1>2. ASSUME NEW q, requests' = requests \cup {q}
      PROVE  IsFiniteSet(Senders') /\ Cardinality(Senders') <= Cardinality(Senders) + 1
  <2>1. Senders' = Senders \cup {q.session}
    BY <1>2 DEF Senders
  <2>2. /\ IsFiniteSet(Senders \cup {q.session})
        /\ Cardinality(Senders \cup {q.session}) =
             IF q.session \in Senders THEN Cardinality(Senders) ELSE Cardinality(Senders) + 1
    BY FS_AddElement
  <2> QED  BY <1>1, <2>1, <2>2
<1>3. ASSUME NEW r \in requests, requests' = requests \ {r}
      PROVE  IsFiniteSet(Senders') /\ Cardinality(Senders') = Cardinality(Senders) - 1
  <2>1. Senders' = Senders \ {r.session}
    BY <1>3 DEF Senders, Waiting
  <2>2. r.session \in Senders
    BY DEF Senders
  <2> QED  BY <1>1, <2>1, <2>2, FS_RemoveElement
<1> QED  BY <1>1, <1>2, <1>3

LEMMA FaultsGrow ==
  ASSUME UpstreamType, [Next]_vars
  PROVE  faults \in Nat /\ faults' \in Nat /\ faults <= faults'
<1>1. faults \in Nat
  BY ConstantsAssumption DEF UpstreamType
<1>2. faults' = faults \/ faults' = faults + 1
  BY DEF Next, vars, Start, Reconcile, Delegate, Readback, Handoff, Leave, Interrupt, Apply, ExpireLease,
         RivalClaim, AssessReadiness, DeferReadiness, Hygiene, ApproveReadiness, CompleteChecks,
         RepairChecks, ForeignCommit, RepairPolicies, OwnerException, Merge, NewWork, Fault
<1> QED  BY <1>1, <1>2

LEMMA RoomStep ==
  ASSUME Types, Room, Waiting, [Next]_vars
  PROVE  Room'
<1>1. faults \in Nat /\ faults' \in Nat /\ faults <= faults'
  BY FaultsGrow DEF Types
<1>2. IsFiniteSet(Senders) /\ Cardinality(Senders) \in Nat
  BY SendersChange DEF Room
<1>3. ASSUME UNCHANGED requests, Pending => Pending' \/ faults' = faults + 1 PROVE Room'
  <2>1. Senders' = Senders
    BY <1>3 DEF Senders
  <2>2. Cardinality(Senders) <= IF Pending THEN faults + 1 ELSE faults
    BY DEF Room
  <2>3. Cardinality(Senders) <= IF Pending' THEN faults' + 1 ELSE faults'
    BY <1>1, <1>2, <1>3, <2>2
  <2> QED  BY <1>2, <2>1, <2>3 DEF Room
<1>4. ASSUME NEW mode \in Modes, Start(mode) PROVE Room'
  BY <1>3, <1>4, StartEffect DEF Pending
<1>5. CASE Reconcile
  BY <1>3, <1>5, ReconcileEffect DEF Pending
<1>6. CASE Delegate
  <2>1. PICK q : session.pc = "ready" /\ requests' = requests \cup {q} /\ Pending' /\ faults' = faults
    BY <1>6, DelegateEffect DEF Pending
  <2>2. IsFiniteSet(Senders') /\ Cardinality(Senders') <= Cardinality(Senders) + 1
    BY <1>2, <2>1, SendersChange
  <2>3. Cardinality(Senders') \in Nat
    BY <2>2, FS_CardinalityType
  <2>4. Cardinality(Senders) <= faults
    BY <2>1 DEF Room, Pending
  <2>5. Cardinality(Senders') <= faults' + 1
    BY <1>1, <1>2, <2>1, <2>2, <2>3, <2>4
  <2> QED  BY <2>1, <2>2, <2>5 DEF Room
<1>7. CASE Readback
  BY <1>3, <1>7, ReadbackEffect DEF Pending
<1>8. CASE Handoff \/ Interrupt \/ Leave
  <2>1. UNCHANGED requests /\ (Pending => faults' = faults + 1)
    BY <1>8, EndEffect DEF Pending
  <2> QED  BY <1>3, <2>1
<1>9. ASSUME NEW r \in requests, Apply(r) PROVE Room'
  <2>1. requests' = requests \ {r} /\ faults' = faults
    BY <1>9, ApplyEffect
  <2>2. IsFiniteSet(Senders') /\ Cardinality(Senders') = Cardinality(Senders) - 1
    BY <1>2, <2>1, SendersChange
  <2>3. Pending' \/ Cardinality(Senders) <= faults + 1
    BY <1>1, <1>2 DEF Room
  <2>4. Cardinality(Senders) <= faults + 1
    BY <1>1, <1>2 DEF Room
  <2>5. Cardinality(Senders') <= faults'
    BY <1>1, <1>2, <2>1, <2>2, <2>4
  <2> QED  BY <1>1, <1>2, <2>1, <2>2, <2>5 DEF Room
<1>10. CASE UNCHANGED <<records, session, requests, applied>>
  BY <1>3, <1>10 DEF Pending
<1> QED
  BY <1>4, <1>5, <1>6, <1>7, <1>8, <1>9, <1>10, OnlySessionSteps DEF SessionSteps

LEMMA SentStep ==
  ASSUME Types, Room, Sent, [Next]_vars
  PROVE  Sent'
<1>1. head <= head' /\ base <= base' /\ (base' = base => branch <= branch')
  BY RegistryStep, WorkGrows
<1>2. head \in Int /\ head' \in Int /\ base \in Int /\ base' \in Int /\ branch \in Int /\ branch' \in Int /\ LastHead \in Nat
  <2>1. Types'
    BY TypesStep
  <2> QED  BY <2>1, ConstantsAssumption DEF Types, UpstreamType, RegistryType, WorkType
<1>3. ASSUME NEW r \in requests PROVE SentBefore(r)'
  <2>1. SentBefore(r) /\ r.at.head \in Int /\ r.at.base \in Int /\ r.at.branch \in Int
    BY DEF Sent, Types, Requests, Truths
  <2>2. r.at.head <= head' /\ r.at.base <= base'
    BY <1>1, <1>2, <2>1 DEF SentBefore
  <2>3. ASSUME r.at.base = base' PROVE r.at.branch <= branch'
    BY <1>1, <1>2, <2>1, <2>3 DEF SentBefore
  <2> QED  BY <2>1, <2>2, <2>3 DEF SentBefore
<1>4. CASE requests' \subseteq requests
  BY <1>3, <1>4 DEF Sent
<1>5. CASE Delegate
  <2>1. PICK kind \in Kinds :
           /\ session.pc = "ready" /\ kind = NextKind(session.mode, Truth)
           /\ requests' = requests \cup
                {[session |-> session.id, kind |-> kind, at |-> Truth, after |-> prior.seq]}
           /\ UNCHANGED <<upstream, registry, work>>
    BY <1>5, DelegateEffect
  <2>0. PICK q : q = [session |-> session.id, kind |-> kind, at |-> Truth, after |-> prior.seq]
    OBVIOUS
  <2>2. q.kind = kind /\ q.at.head = head /\ q.at.base = base /\ q.at.branch = branch
    BY <2>0 DEF Truth
  <2>3. requests' = requests \cup {q}
    BY <2>0, <2>1
  <2>4. /\ kind \in {"BRANCH", "PUSH"} => branch < LastHead
        /\ kind = "RELEASE" => branch = LastHead
    BY <2>1, PlannedKind DEF Types
  <2>5. SentBefore(q)'
    BY <1>2, <2>1, <2>2, <2>4 DEF SentBefore, upstream, registry, work
  <2> QED  BY <1>3, <2>3, <2>5 DEF Sent
<1> QED
  <2>1. ASSUME NEW r \in requests, Apply(r) PROVE requests' \subseteq requests
    BY <2>1, ApplyEffect
  <2> QED
    BY <1>4, <1>5, <2>1, OnlySessionSteps DEF SessionSteps, Start, Reconcile, Readback, Handoff, Interrupt, Leave

---------------------------------------------------------------------------
\* One living lease.

LEMMA LiveChanges ==
  ASSUME RegistryType, [Next]_vars
  PROVE  \/ Live' \subseteq Live /\ head' \in {head, head + 1} /\ \A e \in lease' : \E f \in lease : e.wu = f.wu
         \/ \E r \in requests : Accepts(r) /\ r.kind = "LEASE" /\ Claimed(r.at.base)
         \/ Live = {} /\ Claimed(Rival)
<1>1. lease \subseteq Entries
  BY DEF RegistryType
<1>2. ASSUME NEW S \in SUBSET lease, lease' = Released(S)
      PROVE  Live' \subseteq Live /\ \A e \in lease' : \E f \in lease : e.wu = f.wu
  <2>1. ASSUME NEW e \in lease'
        PROVE  (e \in Live' => e \in Live) /\ \E f \in lease : e.wu = f.wu
    <3>1. PICK f \in lease : e = f \/ e = [f EXCEPT !.state = "RELEASED"]
      BY <1>2, <2>1 DEF Released
    <3>2. f \in Entries
      BY <1>1
    <3>3. CASE e = f
      BY <2>1, <3>3 DEF Live
    <3>4. CASE e = [f EXCEPT !.state = "RELEASED"]
      <4>1. e.state = "RELEASED" /\ e.wu = f.wu
        BY <3>2, <3>4, EntryChanges
      <4> QED  BY <4>1 DEF Live
    <3> QED  BY <3>1, <3>3, <3>4
  <2> QED  BY <2>1 DEF Live
<1>3. ASSUME NEW x \in Live, lease' = (lease \ {x}) \cup {[x EXCEPT !.expired = TRUE]}
      PROVE  Live' \subseteq Live /\ \A e \in lease' : \E f \in lease : e.wu = f.wu
  <2>1. x \in lease /\ x \in Entries
    BY <1>1 DEF Live
  <2>2. [x EXCEPT !.expired = TRUE].expired /\ [x EXCEPT !.expired = TRUE].wu = x.wu
    BY <2>1, EntryChanges
  <2> QED  BY <1>3, <2>1, <2>2 DEF Live
<1>4. CASE UNCHANGED registry
  BY <1>4 DEF registry, Live
<1>5. Owned \subseteq lease /\ Stale \subseteq lease
  BY DEF Owned, Live, Stale
<1>6. CASE \E r \in requests : Apply(r) /\ Accepts(r) /\ r.kind = "LEASE" /\ Claimed(r.at.base)
  BY <1>6
<1>7. CASE \E r \in requests : Apply(r) /\ Accepts(r) /\ r.kind = "RELEASE"
             /\ head' = head + 1 /\ generation' = generation /\ lease' = Released(Owned)
  BY <1>2, <1>5, <1>7
<1>8. CASE \E e \in Live : lease' = (lease \ {e}) \cup {[e EXCEPT !.expired = TRUE]}
             /\ UNCHANGED <<head, generation>> /\ ExpireLease(e)
  BY <1>3, <1>8
<1>9. CASE head' = head + 1 /\ generation' = generation /\ lease' = Released(Stale) /\ Hygiene
  BY <1>2, <1>5, <1>9
<1> QED  BY <1>4, <1>6, <1>7, <1>8, <1>9, RegistryChanges

LEMMA LiveClaimed ==
  ASSUME NEW wu, Claimed(wu)
  PROVE  Live' = Live \cup {NewEntry(wu)}
<1>1. NewEntry(wu).state = "ACTIVE" /\ ~NewEntry(wu).expired
  BY DEF NewEntry
<1> QED  BY <1>1 DEF Claimed, Live

\* Requests in a step: no other than the one the session sends is new.
LEMMA NewRequests ==
  ASSUME Types, [Next]_vars
  PROVE  \/ requests' \subseteq requests
         \/ \E q : /\ requests' = requests \cup {q} /\ q \in Requests /\ q.session = session.id /\ q.at = Truth
                   /\ q.after = prior.seq /\ q.kind = NextKind(session.mode, Truth)
                   /\ UNCHANGED <<upstream, registry, work, records>> /\ session' \in Sessions
                   /\ session'.id = session.id /\ session'.log = session.log /\ session.plan = <<>>
                   /\ session'.plan = <<q.kind, q.at>> /\ session'.answer = "NONE"
<1>1. CASE Delegate
  <2>1. PICK kind \in Kinds :
           /\ session.pc = "ready" /\ kind = NextKind(session.mode, Truth)
           /\ requests' = requests \cup
                {[session |-> session.id, kind |-> kind, at |-> Truth, after |-> prior.seq]}
           /\ session' \in Sessions /\ session'.id = session.id
           /\ session'.plan = <<kind, Truth>> /\ session'.log = session.log /\ session'.answer = "NONE"
           /\ UNCHANGED <<upstream, registry, work, records>>
    BY <1>1, DelegateEffect
  <2>2. PICK q : q = [session |-> session.id, kind |-> kind, at |-> Truth, after |-> prior.seq]
    OBVIOUS
  <2>3. q \in Requests /\ q.session = session.id /\ q.kind = kind /\ q.at = Truth /\ q.after = prior.seq
    BY <2>1, <2>2, NewRequest
  <2>4. session.plan = <<>>
    BY <2>1 DEF Types, SessionType
  <2> QED  BY <2>1, <2>2, <2>3, <2>4
<1>2. ASSUME NEW r \in requests, Apply(r) PROVE requests' \subseteq requests
  BY <1>2, ApplyEffect
<1> QED
  BY <1>1, <1>2, OnlySessionSteps
  DEF SessionSteps, Start, Reconcile, Readback, Handoff, Interrupt, Leave

LEMMA LeasesStep ==
  ASSUME Types, Sent, Leases, [Next]_vars
  PROVE  Leases'
<1>1. head \in Nat
  BY DEF Types, RegistryType
<1>2. \A r \in requests : r.at.head \in Nat /\ r.at.head <= head
  BY DEF Types, Requests, Truths, Sent, SentBefore
<1>3. OneLiving'
  <2>1. CASE Live' \subseteq Live
    BY <2>1 DEF Leases, OneLiving
  <2>2. ASSUME NEW wu, Live = {}, Claimed(wu) PROVE OneLiving'
    BY <2>2, LiveClaimed DEF OneLiving
  <2>3. ASSUME NEW r \in requests, Accepts(r), r.kind = "LEASE" PROVE Live = {}
    BY <2>3 DEF Accepts, Leases, Claims
  <2> QED  BY <2>1, <2>2, <2>3, LiveChanges DEF Types
<1>4. ASSUME NEW r \in requests, r.kind = "LEASE", r.at.head = head' PROVE Live' = {}
  <2>1. r.at.head <= head
    BY <1>2
  <2>2. head' # head + 1
    BY <1>1, <1>2, <1>4, <2>1
  <2>3. ~Claimed(r.at.base) /\ \A wu : ~Claimed(wu)
    BY <2>2 DEF Claimed
  <2>4. Live' \subseteq Live /\ head' = head
    BY <2>2, <2>3, LiveChanges DEF Types
  <2>5. Live = {}
    BY <1>4, <2>4 DEF Leases, Claims
  <2> QED  BY <2>4, <2>5
<1>5. Claims'
  <2>1. CASE requests' \subseteq requests
    BY <1>4, <2>1 DEF Claims
  <2>2. ASSUME NEW q, requests' = requests \cup {q}, q \in Requests,
               q.kind = NextKind(session.mode, Truth), UNCHANGED registry
        PROVE  Claims'
    <3>1. q.kind = "LEASE" => Live = {}
      BY <2>2, PlannedKind DEF Types, Requests
    <3>2. Live' = Live
      BY <2>2 DEF registry, Live
    <3> QED  BY <1>4, <2>2, <3>1, <3>2 DEF Claims
  <2> QED  BY <2>1, <2>2, NewRequests
<1> QED  BY <1>3, <1>5 DEF Leases

---------------------------------------------------------------------------
\* Clean records are fences.

LEMMA HeadsAreNumbers ==
  ASSUME Types, Room, Sent, [Next]_vars
  PROVE  /\ head \in Nat /\ head' \in Nat /\ head <= head' /\ base \in Int
         /\ \A r \in requests : r.at.head \in Nat /\ r.at.head <= head /\ r.at.base \in Int /\ r.at.base <= base
<1>1. head \in Nat /\ base \in Int
  BY ConstantsAssumption DEF Types, UpstreamType, RegistryType
<1>2. head' \in Nat /\ head <= head'
  BY RegistryStep DEF RegistryType
<1>3. \A r \in requests : r.at.head \in Nat /\ r.at.head <= head /\ r.at.base \in Int /\ r.at.base <= base
  BY DEF Types, Requests, Truths, Sent, SentBefore
<1> QED  BY <1>1, <1>2, <1>3

LEMMA OvertakenStays ==
  ASSUME Types, Room, Sent, [Next]_vars, NEW r \in requests, Overtaken(r)
  PROVE  Overtaken(r)'
BY HeadsAreNumbers DEF Overtaken, Registry

LEMMA SupersededStep ==
  ASSUME Types, Room, Sent, Superseded, [Next]_vars
  PROVE  Superseded'
<1>1. /\ head \in Nat /\ head' \in Nat /\ head <= head' /\ base \in Int
      /\ \A r \in requests : r.at.head \in Nat /\ r.at.head <= head /\ r.at.base \in Int /\ r.at.base <= base
  BY HeadsAreNumbers
<1>2. ASSUME NEW r \in requests, NEW e \in lease', r.at.base < e.wu PROVE r.at.head < head'
  <2>1. CASE head' = head + 1
    BY <1>1, <2>1
  <2>2. CASE \E f \in lease : e.wu = f.wu
    <3>1. r.at.head < head
      BY <1>2, <2>2 DEF Superseded
    <3> QED  BY <1>1, <3>1
  <2> QED  BY <2>1, <2>2, LiveChanges DEF Claimed, Types
<1>3. CASE requests' \subseteq requests
  BY <1>2, <1>3 DEF Superseded
<1>4. ASSUME NEW q, requests' = requests \cup {q}, q.at = Truth, UNCHANGED registry
      PROVE  Superseded'
  <2>1. \A e \in lease' : ~(q.at.base < e.wu)
    <3>1. q.at.base = base
      BY <1>4 DEF Truth
    <3>2. \A e \in lease : e.wu \in Int /\ e.wu <= base
      BY DEF Types, RegistryType, Entries, Rival
    <3> QED  BY <1>1, <1>4, <3>1, <3>2 DEF registry
  <2> QED  BY <1>2, <1>4, <2>1 DEF Superseded
<1> QED  BY <1>3, <1>4, NewRequests

\* A session that owns a lease and has pushes to do: no claim was sent on this
\* registry, and no release of its own work unit at all.
LEMMA WorkOvertakes ==
  ASSUME Types, Room, Sent, Claims, Superseded, [Next]_vars,
         branch < LastHead, base \in {e.wu : e \in Live}, NEW r \in requests
  PROVE  Overtaken(r)
<1>1. /\ head \in Nat /\ base \in Int /\ r.at.head \in Nat /\ r.at.head <= head
      /\ r.at.base \in Int /\ r.at.base <= base
  BY HeadsAreNumbers
<1>2. CASE r.kind = "LEASE"
  <2>1. Live # {}
    OBVIOUS
  <2>2. r.at.head # head
    BY <1>2, <2>1 DEF Claims
  <2> QED  BY <1>1, <2>2 DEF Overtaken
<1>3. CASE r.kind = "RELEASE"
  <2>1. r.at.base # base
    <3>1. r.at.branch = LastHead /\ (r.at.base = base => r.at.branch <= branch)
      BY <1>3 DEF Sent, SentBefore
    <3>2. branch \in Int /\ LastHead \in Int
      BY ConstantsAssumption DEF Types, WorkType
    <3> QED  BY <3>1, <3>2
  <2>2. PICK e \in lease : e.wu = base
    BY DEF Live
  <2>3. r.at.base < e.wu
    BY <1>1, <2>1, <2>2
  <2> QED  BY <2>3 DEF Superseded, Overtaken
<1> QED  BY <1>2, <1>3 DEF Overtaken, Registry

LEMMA OvertakingStep ==
  ASSUME Types, Room, Waiting, Sent, Claims, Superseded, Overtaking, [Next]_vars
  PROVE  Overtaking'
<1> USE DEF Overtaking
<1>1. \A r \in requests : Overtaken(r) => Overtaken(r)'
  BY OvertakenStays
<1>2. ASSUME Knows' => Knows, session'.id = session.id, requests' \subseteq requests
      PROVE  Overtaking'
  BY <1>1, <1>2
<1>3. ASSUME NEW mode \in Modes, Start(mode) PROVE Overtaking'
  BY <1>3, StartEffect DEF Knows
<1>4. CASE Reconcile
  BY <1>2, <1>4, ReconcileEffect DEF Knows
<1>5. CASE Readback
  <2>1. session.plan # <<>> /\ session.answer = "OK" /\ session'.id = session.id /\ requests' = requests
    BY <1>5, ReadbackEffect DEF Types, SessionType
  <2> QED  BY <1>2, <2>1 DEF Knows
<1>6. CASE Handoff \/ Interrupt \/ Leave
  BY <1>6, EndEffect, NoSessionType DEF Knows
<1>7. ASSUME NEW q, requests' = requests \cup {q}, q \in Requests, q.session = session.id,
             q.kind = NextKind(session.mode, Truth), session'.id = session.id,
             session'.log = session.log, session'.plan = <<q.kind, q.at>>, session'.answer = "NONE"
      PROVE  Overtaking'
  <2> SUFFICES ASSUME Knows', NEW r \in requests', r.session # session'.id PROVE Overtaken(r)'
    OBVIOUS
  <2>1. r \in requests /\ r.session # session.id
    BY <1>7
  <2>2. CASE session.log # <<>>
    BY <1>1, <2>1, <2>2 DEF Knows
  <2>3. CASE session.log = <<>>
    <3>1. q.kind \in {"BRANCH", "PUSH"}
      BY <1>7, <2>3 DEF Knows
    <3>2. branch < LastHead /\ base \in {e.wu : e \in Live}
      BY <1>7, <3>1, PlannedKind DEF Types, Requests
    <3> QED  BY <1>1, <2>1, <3>2, WorkOvertakes
  <2> QED  BY <2>2, <2>3
<1>8. ASSUME NEW r \in requests, Apply(r) PROVE Overtaking'
  <2>1. /\ requests' = requests \ {r} /\ session'.id = session.id /\ session'.plan = session.plan
        /\ session'.log = session.log
        /\ IF r.session = session.id /\ session.pc = "sent"
           THEN session'.answer = IF Accepts(r) THEN "OK" ELSE "REFUSED"
           ELSE session' = session
    BY <1>8, ApplyEffect
  <2>2. CASE r.session = session.id /\ Accepts(r) /\ Registry(r)
    <3>1. head' = head + 1
      BY <1>8, <2>2 DEF Apply, Perform, Registry
    <3>2. \A q \in requests : Overtaken(q)'
      <4> SUFFICES ASSUME NEW q \in requests PROVE q.at.head < head'
        BY DEF Overtaken
      <4> QED  BY <3>1, HeadsAreNumbers
    <3> QED  BY <2>1, <3>2
  <2>3. CASE r.session = session.id /\ Accepts(r) /\ ~Registry(r)
    <3>1. session.plan = <<r.kind, r.at>> /\ r.kind \in {"BRANCH", "PUSH"}
      BY <2>3 DEF Waiting, Registry, Types, Requests, Kinds
    <3> QED  BY <1>2, <2>1, <3>1 DEF Knows
  <2>4. CASE ~(r.session = session.id /\ Accepts(r))
    <3>1. Knows' => Knows
      BY <2>1, <2>4 DEF Knows
    <3> QED  BY <1>2, <2>1, <3>1
  <2> QED  BY <2>2, <2>3, <2>4
<1>9. CASE UNCHANGED <<records, session, requests, applied>>
  BY <1>2, <1>9 DEF Knows
<1>10. CASE Delegate
  <2>1. ~(requests' \subseteq requests)
    <3>1. PICK kind \in Kinds :
             /\ session.pc = "ready"
             /\ requests' = requests \cup
                  {[session |-> session.id, kind |-> kind, at |-> Truth, after |-> prior.seq]}
      BY <1>10, DelegateEffect
    <3>2. PICK q : q = [session |-> session.id, kind |-> kind, at |-> Truth, after |-> prior.seq]
      OBVIOUS
    <3>3. q.session = session.id /\ q \in requests'
      BY <3>1, <3>2
    <3> QED  BY <3>1, <3>3 DEF Waiting, Pending
  <2> QED  BY <1>7, <2>1, NewRequests
<1> QED
  BY <1>3, <1>4, <1>5, <1>6, <1>8, <1>9, <1>10, OnlySessionSteps DEF SessionSteps

LEMMA FenceStep ==
  ASSUME Types, Room, Waiting, Sent, Overtaking, Fence, [Next]_vars
  PROVE  Fence'
<1> USE DEF Fence
<1>1. \A r \in requests : Overtaken(r) => Overtaken(r)'
  BY OvertakenStays
<1>2. ASSUME UNCHANGED prior, requests' \subseteq requests PROVE Fence'
  BY <1>1, <1>2
<1>3. ASSUME NEW q, requests' = requests \cup {q}, q.after = prior.seq, UNCHANGED prior PROVE Fence'
  <2>1. ~(q.after < prior.seq)
    BY <1>3 DEF Types, RecordsType
  <2> QED  BY <1>1, <1>3, <2>1
<1>4. CASE Handoff
  <2>1. session.pc = "ready" /\ session.log # <<>> /\ requests' = requests
    BY <1>4 DEF Handoff
  <2>2. \A r \in requests : Overtaken(r)
    BY <2>1 DEF Overtaking, Knows, Waiting, Pending
  <2> QED  BY <1>1, <2>1, <2>2
<1>5. CASE Interrupt /\ prior' # prior
  <2>1. prior' = Record(Boundary)
    BY <1>5 DEF Interrupt, Persist, records
  <2>2. prior'.class # "CLEAN"
    BY <2>1, RecordType DEF Boundary
  <2> QED  BY <2>2
<1>6. ASSUME NEW r \in requests, Apply(r) PROVE UNCHANGED prior /\ requests' \subseteq requests
  BY <1>6, ApplyEffect DEF records
<1>7. prior' = prior \/ Handoff \/ Interrupt
  BY <1>6, OnlySessionSteps DEF SessionSteps, Start, Reconcile, Delegate, Readback, Leave, records
<1>8. CASE prior' = prior
  BY <1>2, <1>3, <1>8, NewRequests
<1> QED  BY <1>4, <1>5, <1>7, <1>8

---------------------------------------------------------------------------
\* The transactions the provider applied.

LEMMA FingerprintParts ==
  ASSUME NEW kind, NEW t
  PROVE  /\ Fingerprint(kind, t)[1] = kind /\ Fingerprint(kind, t)[2] = t.base
         /\ kind \in {"LEASE", "RELEASE"} => Fingerprint(kind, t)[3] = t.head
         /\ kind \notin {"LEASE", "RELEASE"} => Fingerprint(kind, t)[3] = t.branch
BY DEF Fingerprint

\* What can still be applied is not over yet; what is over stays so.
LEMMA FreshTransaction ==
  ASSUME Types, NEW r \in requests, Accepts(r)
  PROVE  ~Over(Fingerprint(r.kind, r.at))
<1>1. head \in Int /\ base \in Int /\ branch \in Int
  BY ConstantsAssumption DEF Types, UpstreamType, RegistryType, WorkType
<1>2. CASE r.kind \in {"LEASE", "RELEASE"}
  <2>1. r.at.head = head
    BY <1>2 DEF Accepts
  <2> QED  BY <1>1, <1>2, <2>1, FingerprintParts DEF Over
<1>3. CASE r.kind \notin {"LEASE", "RELEASE"}
  <2>1. r.at.base = base /\ r.at.branch = branch
    BY <1>3 DEF Accepts
  <2> QED  BY <1>1, <1>3, <2>1, FingerprintParts DEF Over
<1> QED  BY <1>2, <1>3

LEMMA Numbers ==
  ASSUME Types, Room, Sent, [Next]_vars
  PROVE  /\ head \in Int /\ head' \in Int /\ head <= head' /\ base \in Int /\ base' \in Int /\ base <= base'
         /\ branch \in Int /\ branch' \in Int /\ (base' = base => branch <= branch')
<1>1. Types'
  BY TypesStep
<1>2. head \in Int /\ head' \in Int /\ base \in Int /\ base' \in Int /\ branch \in Int /\ branch' \in Int
  BY <1>1, ConstantsAssumption DEF Types, UpstreamType, RegistryType, WorkType
<1> QED  BY <1>2, RegistryStep, WorkGrows

LEMMA OverStays ==
  ASSUME Types, Room, Sent, [Next]_vars, NEW x \in Txns, Over(x)
  PROVE  Over(x)'
<1>1. x[3] \in Int /\ x[2] \in Int
  BY ConstantsAssumption DEF Txns
<1> QED  BY <1>1, Numbers DEF Over

LEMMA AppliedIsOver ==
  ASSUME Types, NEW r \in requests, Apply(r), Accepts(r)
  PROVE  Over(Fingerprint(r.kind, r.at))'
<1>1. head \in Int /\ base \in Int /\ branch \in Int
  BY ConstantsAssumption DEF Types, UpstreamType, RegistryType, WorkType
<1>2. CASE r.kind \in {"LEASE", "RELEASE"}
  <2>1. r.at.head = head /\ head' = head + 1
    BY <1>2 DEF Accepts, Apply, Perform
  <2>2. Fingerprint(r.kind, r.at)[1] \in {"LEASE", "RELEASE"} /\ Fingerprint(r.kind, r.at)[3] = r.at.head
    BY <1>2, FingerprintParts
  <2> QED  BY <1>1, <2>1, <2>2 DEF Over
<1>3. CASE r.kind \notin {"LEASE", "RELEASE"}
  <2>1. r.at.base = base /\ r.at.branch = branch /\ branch' = branch + 1 /\ base' = base
    BY <1>3 DEF Accepts, Apply, Perform, upstream
  <2>2. /\ Fingerprint(r.kind, r.at)[1] \notin {"LEASE", "RELEASE"}
        /\ Fingerprint(r.kind, r.at)[2] = r.at.base /\ Fingerprint(r.kind, r.at)[3] = r.at.branch
    BY <1>3, FingerprintParts
  <2> QED  BY <1>1, <2>1, <2>2 DEF Over
<1> QED  BY <1>2, <1>3

\* The applied transactions, when one is added.
LEMMA AppliedGrows ==
  ASSUME Types, [Next]_vars
  PROVE  \/ UNCHANGED applied
         \/ \E r \in requests :
              /\ Apply(r) /\ Accepts(r)
              /\ DOMAIN applied' = DOMAIN applied \cup {Len(applied) + 1}
              /\ Len(applied) + 1 \notin DOMAIN applied
              /\ \A k \in DOMAIN applied : k < Len(applied) + 1 /\ applied'[k] = applied[k]
              /\ applied'[Len(applied) + 1].txn = Fingerprint(r.kind, r.at)
              /\ applied'[Len(applied) + 1].head = head
<1>1. CASE UNCHANGED applied
  BY <1>1
<1>2. CASE \E r \in requests :
              /\ Apply(r) /\ Accepts(r)
              /\ applied' = Append(applied, [txn |-> Fingerprint(r.kind, r.at), head |-> head])
              /\ [txn |-> Fingerprint(r.kind, r.at), head |-> head] \in Performed
  <2>1. PICK r \in requests :
              /\ Apply(r) /\ Accepts(r)
              /\ applied' = Append(applied, [txn |-> Fingerprint(r.kind, r.at), head |-> head])
              /\ [txn |-> Fingerprint(r.kind, r.at), head |-> head] \in Performed
    BY <1>2
  <2>2. PICK p \in Performed :
           applied' = Append(applied, p) /\ p.txn = Fingerprint(r.kind, r.at) /\ p.head = head
    BY <2>1
  <2>3. applied \in Seq(Performed) /\ DOMAIN applied = 1..Len(applied) /\ Len(applied) \in Nat
    BY DEF Types
  <2>4. /\ DOMAIN applied' = DOMAIN applied \cup {Len(applied) + 1}
        /\ Len(applied) + 1 \notin DOMAIN applied
        /\ \A k \in DOMAIN applied : k < Len(applied) + 1 /\ applied'[k] = applied[k]
        /\ applied'[Len(applied) + 1] = p
    <3>1. Len(applied') = Len(applied) + 1 /\ DOMAIN applied' = 1..Len(applied) + 1
      BY <2>2, <2>3
    <3>2. (\A k \in 1..Len(applied) : applied'[k] = applied[k]) /\ applied'[Len(applied) + 1] = p
      BY <2>2, <2>3
    <3> QED  BY <2>3, <3>1, <3>2
  <2> QED  BY <2>1, <2>2, <2>4
<1> QED  BY <1>1, <1>2, AppliedEffect

LEMMA AppliedElements ==
  ASSUME Types
  PROVE  \A k \in DOMAIN applied : applied[k].txn \in Txns /\ applied[k].head \in Nat
<1>1. applied \in Seq(Performed)
  BY DEF Types
<1>2. \A k \in DOMAIN applied : applied[k] \in Performed
  BY <1>1
<1> QED  BY <1>2 DEF Performed

LEMMA PastStep ==
  ASSUME Types, Room, Sent, Past, [Next]_vars
  PROVE  Past'
<1> DEFINE Good(p) == /\ Over(p.txn) /\ p.head <= head
                      /\ p.txn[1] \in {"LEASE", "RELEASE"} => p.head = p.txn[3]
<1>1. ASSUME NEW k \in DOMAIN applied, applied'[k] = applied[k] PROVE Good(applied[k])'
  <2>1. applied[k].txn \in Txns /\ applied[k].head \in Int
    BY AppliedElements
  <2>2. /\ Over(applied[k].txn) /\ applied[k].head <= head
        /\ applied[k].txn[1] \in {"LEASE", "RELEASE"} => applied[k].head = applied[k].txn[3]
    BY DEF Past
  <2>3. PICK p : p = applied[k]
    OBVIOUS
  <2>4. Over(p.txn)'
    BY <2>1, <2>2, <2>3, OverStays
  <2> QED  BY <1>1, <2>1, <2>2, <2>3, <2>4, Numbers
<1>2. CASE UNCHANGED applied
  BY <1>1, <1>2 DEF Past
<1>3. ASSUME NEW r \in requests, Apply(r), Accepts(r),
             DOMAIN applied' = DOMAIN applied \cup {Len(applied) + 1},
             \A k \in DOMAIN applied : applied'[k] = applied[k],
             applied'[Len(applied) + 1].txn = Fingerprint(r.kind, r.at),
             applied'[Len(applied) + 1].head = head
      PROVE  Past'
  <2>1. PICK x : x = Fingerprint(r.kind, r.at)
    OBVIOUS
  <2>2. Over(x)'
    BY <1>3, <2>1, AppliedIsOver
  <2>3. x[1] \in {"LEASE", "RELEASE"} => head = x[3]
    <3>1. ASSUME r.kind \in {"LEASE", "RELEASE"} PROVE r.at.head = head
      BY <1>3, <3>1 DEF Accepts
    <3> QED  BY <2>1, <3>1, FingerprintParts
  <2>4. ASSUME NEW k \in DOMAIN applied' PROVE Good(applied[k])'
    <3>1. CASE k \in DOMAIN applied
      BY <1>1, <1>3, <3>1
    <3>2. CASE k = Len(applied) + 1
      BY <1>3, <2>1, <2>2, <2>3, <3>2, Numbers
    <3> QED  BY <1>3, <2>4, <3>1, <3>2
  <2> QED  BY <2>4 DEF Past
<1> QED  BY <1>2, <1>3, AppliedGrows

LEMMA AppliedOnceStep ==
  ASSUME Types, Past, AppliedOnce, [Next]_vars
  PROVE  AppliedOnce'
<1>1. CASE UNCHANGED applied
  BY <1>1 DEF AppliedOnce
<1>2. ASSUME NEW r \in requests, Accepts(r),
             DOMAIN applied' = DOMAIN applied \cup {Len(applied) + 1},
             \A k \in DOMAIN applied : applied'[k] = applied[k],
             applied'[Len(applied) + 1].txn = Fingerprint(r.kind, r.at)
      PROVE  AppliedOnce'
  <2>1. \A k \in DOMAIN applied : applied[k].txn # Fingerprint(r.kind, r.at)
    BY <1>2, FreshTransaction DEF Past
  <2> QED  BY <1>2, <2>1 DEF AppliedOnce
<1> QED  BY <1>1, <1>2, AppliedGrows

---------------------------------------------------------------------------
\* The transactions the sessions have done.

LEMMA Joined ==
  ASSUME NEW c \in Seq(Txns), NEW log \in Seq(Iterations)
  PROVE  LET d == c \o Fingerprints(log)
         IN  /\ d \in Seq(Txns) /\ Len(c) \in Nat /\ Len(log) \in Nat
             /\ Len(d) = Len(c) + Len(log) /\ Len(d) \in Nat /\ DOMAIN d = 1..Len(d)
             /\ DOMAIN c = 1..Len(c) /\ DOMAIN log = 1..Len(log)
             /\ \A i \in 1..Len(c) : d[i] = c[i]
             /\ \A i \in 1..Len(log) : d[Len(c) + i] = Fingerprint(log[i].kind, log[i].before)
<1>1. PICK s : s = Fingerprints(log)
  OBVIOUS
<1>2. /\ s \in Seq(Txns) /\ Len(s) = Len(log)
      /\ \A i \in DOMAIN log : s[i] = Fingerprint(log[i].kind, log[i].before)
  BY <1>1, FingerprintsType
<1>3. PICK d : d = c \o s
  OBVIOUS
<1>4. Len(c) \in Nat /\ Len(log) \in Nat /\ DOMAIN c = 1..Len(c) /\ DOMAIN log = 1..Len(log)
  OBVIOUS
<1>5. /\ d \in Seq(Txns) /\ Len(d) = Len(c) + Len(s)
      /\ \A i \in 1..Len(c) + Len(s) : d[i] = IF i <= Len(c) THEN c[i] ELSE s[i - Len(c)]
  <2>0. c \in Seq(Txns) /\ s \in Seq(Txns)
    BY <1>2
  <2>1. d \in Seq(Txns) /\ Len(d) = Len(c) + Len(s)
    <3> HIDE DEF Txns
    <3>1. c \o s \in Seq(Txns)
      BY <2>0
    <3>2. Len(c \o s) = Len(c) + Len(s)
      BY <2>0
    <3> QED  BY <1>3, <3>1, <3>2
  <2>2. \A i \in 1..Len(c) + Len(s) : d[i] = IF i <= Len(c) THEN c[i] ELSE s[i - Len(c)]
    BY <1>2, <1>3
  <2> QED  BY <2>1, <2>2
<1>6. DOMAIN d = 1..Len(d)
  BY <1>5
<1>7. \A i \in 1..Len(c) : d[i] = c[i]
  BY <1>2, <1>4, <1>5
<1>8. ASSUME NEW i \in 1..Len(log) PROVE d[Len(c) + i] = Fingerprint(log[i].kind, log[i].before)
  <2>1. Len(c) + i \in 1..Len(c) + Len(s) /\ ~(Len(c) + i <= Len(c)) /\ (Len(c) + i) - Len(c) = i
    BY <1>2, <1>4
  <2> QED  BY <1>2, <1>4, <1>5, <2>1
<1> QED  BY <1>1, <1>2, <1>3, <1>4, <1>5, <1>6, <1>7, <1>8

LEMMA DoneElements ==
  ASSUME Types
  PROVE  /\ Done \in Seq(Txns) /\ Len(completed) \in Nat /\ Len(session.log) \in Nat
         /\ Len(Done) = Len(completed) + Len(session.log) /\ Len(Done) \in Nat
         /\ DOMAIN Done = 1..Len(Done)
         /\ DOMAIN completed = 1..Len(completed) /\ DOMAIN session.log = 1..Len(session.log)
         /\ \A i \in 1..Len(completed) : Done[i] = completed[i]
         /\ \A i \in 1..Len(session.log) :
              Done[Len(completed) + i] = Fingerprint(session.log[i].kind, session.log[i].before)
<1>1. session.log \in Seq(Iterations) /\ completed \in Seq(Txns)
  BY DEF Types, SessionType, Sessions, RecordsType
<1>2. PICK c, log : c = completed /\ log = session.log /\ c \in Seq(Txns) /\ log \in Seq(Iterations)
  BY <1>1
<1>3. Done = c \o Fingerprints(log)
  BY <1>2 DEF Done
<1> QED  BY <1>2, <1>3, Joined

LEMMA DoneDomain ==
  ASSUME Types'
  PROVE  DOMAIN Done' = 1..Len(Done') /\ Len(Done') \in Nat
<1>1. session'.log \in Seq(Iterations) /\ completed' \in Seq(Txns)
  BY DEF Types, SessionType, Sessions, RecordsType
<1>2. PICK c, log : c = completed' /\ log = session'.log /\ c \in Seq(Txns) /\ log \in Seq(Iterations)
  BY <1>1
<1>3. Done' = c \o Fingerprints(log)
  BY <1>2 DEF Done, Fingerprints
<1> QED  BY <1>2, <1>3, Joined

\* Nothing is added to them but the transaction that was read back; a session
\* that leaves no record takes its own with it.
Shorter == Len(Done') <= Len(Done) /\ \A i \in 1..Len(Done') : Done'[i] = Done[i]
Longer ==
  /\ Len(Done') = Len(Done) + 1 /\ \A i \in 1..Len(Done) : Done'[i] = Done[i]
  /\ Done'[Len(Done) + 1] = Planned

LEMMA DoneChanges ==
  ASSUME Types, Types', Room, [Next]_vars
  PROVE  Shorter \/ (Readback /\ Longer)
<1>1. /\ Done \in Seq(Txns) /\ Len(completed) \in Nat /\ Len(session.log) \in Nat
      /\ Len(Done) = Len(completed) + Len(session.log)
      /\ \A i \in 1..Len(completed) : Done[i] = completed[i]
      /\ \A i \in 1..Len(session.log) :
           Done[Len(completed) + i] = Fingerprint(session.log[i].kind, session.log[i].before)
  BY DoneElements
<1>2. /\ Done' \in Seq(Txns) /\ Len(completed') \in Nat /\ Len(session'.log) \in Nat
      /\ Len(Done') = Len(completed') + Len(session'.log)
      /\ \A i \in 1..Len(completed') : Done'[i] = completed'[i]
      /\ \A i \in 1..Len(session'.log) :
           Done'[Len(completed') + i] = Fingerprint(session'.log[i].kind, session'.log[i].before)
  <2>1. session'.log \in Seq(Iterations) /\ completed' \in Seq(Txns)
    BY DEF Types, SessionType, Sessions, RecordsType
  <2>2. PICK c, log : c = completed' /\ log = session'.log /\ c \in Seq(Txns) /\ log \in Seq(Iterations)
    BY <2>1
  <2>3. Done' = c \o Fingerprints(log)
    BY <2>2 DEF Done, Fingerprints
  <2> QED  BY <2>2, <2>3, Joined
<1>3. ASSUME UNCHANGED completed /\ session'.log = session.log PROVE Shorter
  <2>1. Done' = Done
    BY <1>3 DEF Done, Fingerprints
  <2> QED  BY <1>1, <2>1 DEF Shorter
<1>4. ASSUME UNCHANGED completed /\ session'.log = <<>> PROVE Shorter
  <2>1. Len(session'.log) = 0
    BY <1>4
  <2>2. Len(Done') = Len(completed) /\ Len(completed) <= Len(Done)
    BY <1>1, <1>2, <1>4, <2>1
  <2> QED  BY <1>1, <1>2, <1>4, <2>2 DEF Shorter
<1>5. ASSUME NEW class \in {"CLEAN", "UNKNOWN", "PENDING"}, Persist(Record(class)), session'.log = <<>>
      PROVE  Shorter
  <2>1. completed' = completed \o Fingerprints(session.log)
    BY <1>5, RecordType DEF Persist
  <2>2. completed' = Done
    BY <2>1 DEF Done
  <2>3. Len(session'.log) = 0
    BY <1>5
  <2> QED  BY <1>1, <1>2, <2>2, <2>3 DEF Shorter
<1>6. ASSUME Readback PROVE Longer
  <2>1. /\ completed' = completed /\ session'.log = Append(session.log, Iterated) /\ Iterated \in Iterations
    BY <1>6, ReadbackEffect DEF records
  <2>2. session.log \in Seq(Iterations)
    BY DEF Types, SessionType, Sessions
  <2>3. /\ Len(session'.log) = Len(session.log) + 1 /\ session'.log[Len(session.log) + 1] = Iterated
        /\ \A i \in 1..Len(session.log) : session'.log[i] = session.log[i]
    BY <2>1, <2>2
  <2>4. Len(Done') = Len(Done) + 1
    BY <1>1, <1>2, <2>1, <2>3
  <2>5. Done'[Len(Done) + 1] = Fingerprint(Iterated.kind, Iterated.before)
    <3>1. Len(Done) + 1 = Len(completed) + (Len(session.log) + 1)
      BY <1>1
    <3>2. Len(session.log) + 1 \in 1..Len(session'.log)
      BY <1>1, <2>3
    <3> QED  BY <1>2, <2>1, <2>3, <3>1, <3>2
  <2>6. Iterated.kind = session.plan[1] /\ Iterated.before = session.plan[2]
    BY DEF Iterated
  <2>7. ASSUME NEW i \in 1..Len(Done) PROVE Done'[i] = Done[i]
    <3>1. CASE i \in 1..Len(completed)
      BY <1>1, <1>2, <2>1, <3>1
    <3>2. CASE i \notin 1..Len(completed)
      <4>1. PICK m \in 1..Len(session.log) : i = Len(completed) + m
        <5>1. i - Len(completed) \in 1..Len(session.log) /\ i = Len(completed) + (i - Len(completed))
          BY <1>1, <3>2
        <5> QED  BY <5>1
      <4>2. m \in 1..Len(session'.log)
        BY <1>1, <2>3
      <4> QED  BY <1>1, <1>2, <2>1, <2>3, <4>1, <4>2
    <3> QED  BY <3>1, <3>2
  <2> QED  BY <2>4, <2>5, <2>6, <2>7 DEF Longer, Planned
<1>7. ASSUME NEW mode \in Modes, Start(mode) PROVE Shorter
  BY <1>4, <1>7, StartEffect DEF records
<1>8. CASE Reconcile
  BY <1>3, <1>8, ReconcileEffect DEF records
<1>9. CASE Delegate
  BY <1>3, <1>9, DelegateEffect DEF records
<1>10. CASE Handoff \/ Interrupt \/ Leave
  <2>1. session'.log = <<>>
    BY <1>10, EndEffect, NoSessionType
  <2>2. Boundary \in {"CLEAN", "UNKNOWN", "PENDING"}
    BY DEF Boundary
  <2> QED  BY <1>4, <1>5, <1>10, <2>1, <2>2, EndEffect DEF records
<1>11. ASSUME NEW r \in requests, Apply(r) PROVE Shorter
  BY <1>3, <1>11, ApplyEffect DEF records
<1>12. CASE UNCHANGED <<records, session, requests, applied>>
  BY <1>3, <1>12 DEF records
<1> QED
  BY <1>6, <1>7, <1>8, <1>9, <1>10, <1>11, <1>12, OnlySessionSteps DEF SessionSteps

LEMMA DoneLength ==
  ASSUME Types
  PROVE  DOMAIN Done = 1..Len(Done) /\ Len(Done) \in Nat
<1>1. DOMAIN Done = 1..Len(Done)
  BY DoneElements
<1>2. Len(Done) \in Nat
  BY DoneElements
<1> QED  BY <1>1, <1>2

LEMMA LoggedIsDone ==
  ASSUME Types, NEW i \in DOMAIN session.log
  PROVE  /\ Len(completed) + i \in DOMAIN Done
         /\ Done[Len(completed) + i] = Fingerprint(session.log[i].kind, session.log[i].before)
<1>1. Len(completed) \in Nat /\ Len(session.log) \in Nat /\ DOMAIN session.log = 1..Len(session.log)
  BY DoneElements
<1>2. DOMAIN Done = 1..Len(completed) + Len(session.log)
  BY DoneElements
<1>3. Done[Len(completed) + i] = Fingerprint(session.log[i].kind, session.log[i].before)
  BY <1>1, DoneElements
<1> QED  BY <1>1, <1>2, <1>3

LEMMA ShorterIsPart ==
  ASSUME Types, Types', Shorter, NEW i \in DOMAIN Done'
  PROVE  i \in DOMAIN Done /\ Done'[i] = Done[i]
BY DoneLength, DoneDomain DEF Shorter

\* What was applied before stays where it was, and nothing that is done is the
\* transaction that is applied now.
LEMMA AppliedKept ==
  ASSUME Types, [Next]_vars, NEW k \in DOMAIN applied
  PROVE  k \in DOMAIN applied' /\ applied'[k] = applied[k]
BY AppliedGrows

Added(k) == k \in DOMAIN applied' /\ k \notin DOMAIN applied

LEMMA AddedIsNew ==
  ASSUME Types, Past, WasApplied, [Next]_vars, NEW k, Added(k)
  PROVE  /\ \A h \in DOMAIN applied : h < k /\ applied[h].txn # applied'[k].txn
         /\ \A i \in DOMAIN Done : Done[i] # applied'[k].txn
         /\ applied'[k].head = head
         /\ \E r \in requests : Apply(r) /\ Accepts(r) /\ applied'[k].txn = Fingerprint(r.kind, r.at)
<1>1. PICK r \in requests :
              /\ Apply(r) /\ Accepts(r)
              /\ DOMAIN applied' = DOMAIN applied \cup {Len(applied) + 1}
              /\ Len(applied) + 1 \notin DOMAIN applied
              /\ \A h \in DOMAIN applied : h < Len(applied) + 1 /\ applied'[h] = applied[h]
              /\ applied'[Len(applied) + 1].txn = Fingerprint(r.kind, r.at)
              /\ applied'[Len(applied) + 1].head = head
  BY AppliedGrows DEF Added
<1>2. k = Len(applied) + 1
  BY <1>1 DEF Added
<1>3. ~Over(applied'[k].txn)
  BY <1>1, <1>2, FreshTransaction
<1>4. \A h \in DOMAIN applied : Over(applied[h].txn)
  BY DEF Past
<1>5. \A h \in DOMAIN applied : applied[h].txn # applied'[k].txn
  BY <1>3, <1>4
<1>6. \A i \in DOMAIN Done : Done[i] # applied'[k].txn
  BY <1>5 DEF WasApplied
<1> QED  BY <1>1, <1>2, <1>5, <1>6

LEMMA WasAppliedStep ==
  ASSUME Types, Types', Room, WasApplied, Answered, [Next]_vars
  PROVE  WasApplied'
<1>1. DOMAIN Done = 1..Len(Done) /\ Len(Done) \in Nat
  BY DoneLength
<1>2. DOMAIN Done' = 1..Len(Done') /\ Len(Done') \in Nat
  BY DoneDomain
<1>3. ASSUME NEW i \in DOMAIN Done, Done'[i] = Done[i]
      PROVE  \E k \in DOMAIN applied' : applied'[k].txn = Done'[i]
  BY <1>3, AppliedKept DEF WasApplied
<1>4. CASE Shorter
  <2>1. \A i \in DOMAIN Done' : i \in DOMAIN Done /\ Done'[i] = Done[i]
    BY <1>4, ShorterIsPart
  <2> QED  BY <1>3, <2>1 DEF WasApplied
<1>5. CASE Readback /\ Longer
  <2>1. PICK k \in DOMAIN applied : applied[k].txn = Planned
    BY <1>5, ReadbackEffect DEF Answered, Types, SessionType
  <2>2. \A i \in DOMAIN Done' : (i \in DOMAIN Done /\ Done'[i] = Done[i]) \/ Done'[i] = Planned
    BY <1>1, <1>2, <1>5 DEF Longer
  <2> QED  BY <1>3, <2>1, <2>2, AppliedKept DEF WasApplied
<1> QED  BY <1>4, <1>5, DoneChanges

LEMMA InOrderStep ==
  ASSUME Types, Types', Room, Past, AppliedOnce, WasApplied, InOrder, Answered, [Next]_vars
  PROVE  InOrder'
<1>1. DOMAIN Done = 1..Len(Done) /\ Len(Done) \in Nat
  BY DoneLength
<1>2. DOMAIN Done' = 1..Len(Done') /\ Len(Done') \in Nat
  BY DoneDomain
<1>3. CASE Shorter
  <2>1. \A i \in DOMAIN Done' : i \in DOMAIN Done /\ Done'[i] = Done[i]
    BY <1>3, ShorterIsPart
  <2>2. ASSUME NEW i \in DOMAIN Done, NEW k \in DOMAIN applied', applied'[k].txn = Done[i]
        PROVE  k \in DOMAIN applied /\ applied[k].txn = Done[i]
    BY <2>2, AddedIsNew, AppliedKept DEF Added
  <2> QED  BY <2>1, <2>2 DEF InOrder
<1>4. CASE Readback /\ Longer
  <2>1. PICK p \in DOMAIN applied :
          /\ applied[p].txn = Planned
          /\ \A i \in DOMAIN Done : \A h \in DOMAIN applied : applied[h].txn = Done[i] => h < p
    BY <1>4, ReadbackEffect DEF Answered, Types, SessionType
  <2>2. applied' = applied
    BY <1>4 DEF Readback
  <2>3. \A i \in DOMAIN Done' : \/ i \in DOMAIN Done /\ Done'[i] = Done[i]
                                \/ i = Len(Done) + 1 /\ Done'[i] = Planned
    BY <1>1, <1>2, <1>4 DEF Longer
  <2> SUFFICES ASSUME NEW i \in DOMAIN Done', NEW j \in DOMAIN Done', NEW h \in DOMAIN applied, NEW k \in DOMAIN applied,
                      i < j, applied[h].txn = Done'[i], applied[k].txn = Done'[j]
               PROVE  h < k
    BY <2>2 DEF InOrder
  <2>4. i \in DOMAIN Done /\ Done'[i] = Done[i]
    BY <1>1, <1>2, <1>4, <2>3 DEF Longer
  <2>5. CASE j \in DOMAIN Done /\ Done'[j] = Done[j]
    BY <2>4, <2>5 DEF InOrder
  <2>6. CASE Done'[j] = Planned
    <3>1. k = p
      BY <2>1, <2>6 DEF AppliedOnce
    <3> QED  BY <2>1, <2>4, <3>1
  <2> QED  BY <2>3, <2>5, <2>6
<1> QED  BY <1>3, <1>4, DoneChanges

LEMMA AnsweredStep ==
  ASSUME Types, Types', Room, Waiting, Sent, Past, WasApplied, Answered, [Next]_vars
  PROVE  Answered'
<1> DEFINE Latest(k, log, done) ==
      \A i \in DOMAIN done : \A h \in DOMAIN log : log[h].txn = done[i] => h < k
<1>1. head \in Int /\ head' \in Int /\ head <= head'
  BY Numbers
<1>2. CASE session'.plan = <<>>
  BY <1>2 DEF Answered
<1>3. CASE Delegate
  <2>1. PICK kind \in Kinds :
          session'.plan = <<kind, Truth>> /\ session'.answer = "NONE" /\ UNCHANGED registry
    BY <1>3, DelegateEffect
  <2>2. session'.plan[2].head = head
    BY <2>1 DEF Truth
  <2> QED  BY <1>1, <2>1, <2>2 DEF Answered, registry
<1>4. ASSUME UNCHANGED session, Shorter PROVE Answered'
  <2> SUFFICES ASSUME session.plan # <<>> PROVE Answered'
    BY <1>2, <1>4
  <2>1. session.plan[2].head <= head
    BY DEF Answered
  <2>2. session.plan[2].head \in Int
    <3>1. session.plan[2] \in Truths
      BY PlanType DEF Types, SessionType
    <3> QED  BY <3>1 DEF Truths
  <2>3. session.plan[2].head <= head'
    BY <1>1, <2>1, <2>2
  <2>4. ASSUME session.answer = "OK"
        PROVE  \E k \in DOMAIN applied' :
                 /\ applied'[k].txn = Planned' /\ session'.plan[2].head <= applied'[k].head
                 /\ Latest(k, applied', Done')
    <3>1. PICK k \in DOMAIN applied :
             /\ applied[k].txn = Planned /\ session.plan[2].head <= applied[k].head
             /\ Latest(k, applied, Done)
      BY <2>4 DEF Answered
    <3>2. k \in DOMAIN applied' /\ applied'[k] = applied[k]
      BY AppliedKept
    <3>3. Planned' = Planned
      BY <1>4 DEF Planned, Fingerprint
    <3>4. \A i \in DOMAIN Done' : i \in DOMAIN Done /\ Done'[i] = Done[i]
      BY <1>4, ShorterIsPart
    <3>5. ASSUME NEW i \in DOMAIN Done', NEW h \in DOMAIN applied', applied'[h].txn = Done'[i]
          PROVE  h < k
      <4>1. applied'[h].txn = Done[i] /\ i \in DOMAIN Done
        BY <3>4, <3>5
      <4>2. h \in DOMAIN applied /\ applied'[h] = applied[h]
        BY <4>1, AddedIsNew, AppliedKept DEF Added
      <4> QED  BY <3>1, <4>1, <4>2
    <3> QED  BY <1>4, <3>1, <3>2, <3>3, <3>5
  <2> QED  BY <1>4, <2>3, <2>4 DEF Answered
<1>5. ASSUME NEW r \in requests, Apply(r), r.session = session.id PROVE Answered'
  <2>1. Pending /\ session.plan = <<r.kind, r.at>>
    BY <1>5 DEF Waiting
  <2>2. /\ session'.plan = session.plan /\ session'.log = session.log /\ UNCHANGED records
        /\ session'.answer = IF Accepts(r) THEN "OK" ELSE "REFUSED"
    BY <1>5, <2>1, ApplyEffect DEF Pending
  <2>3. session'.plan[2] = r.at
    BY <2>1, <2>2
  <2>4. r.at.head <= head /\ r.at.head \in Int
    BY DEF Sent, SentBefore, Types, Requests, Truths
  <2>5. session'.plan[2].head <= head'
    BY <1>1, <2>3, <2>4
  <2>6. ASSUME Accepts(r)
        PROVE  \E k \in DOMAIN applied' :
                 /\ applied'[k].txn = Planned' /\ session'.plan[2].head <= applied'[k].head
                 /\ Latest(k, applied', Done')
    <3>1. PICK p : p = [txn |-> Fingerprint(r.kind, r.at), head |-> head]
      OBVIOUS
    <3>2. applied' = Append(applied, p) /\ p.txn = Fingerprint(r.kind, r.at) /\ p.head = head
      BY <1>5, <2>6, <3>1 DEF Apply
    <3>3. \E k : Added(k)
      BY <1>5, <2>6, <3>2 DEF Added, Types
    <3>4. PICK k : Added(k)
      BY <3>3
    <3>5. /\ \A h \in DOMAIN applied : h < k /\ applied[h].txn # applied'[k].txn
          /\ \A i \in DOMAIN Done : Done[i] # applied'[k].txn
          /\ applied'[k].head = head
      BY <3>4, AddedIsNew
    <3>6. applied'[k].txn = Fingerprint(r.kind, r.at)
      BY <3>2, <3>4 DEF Added, Types
    <3>7. Planned' = Fingerprint(r.kind, r.at)
      BY <2>1, <2>2 DEF Planned, Fingerprint
    <3>8. Done' = Done
      BY <2>2 DEF Done, Fingerprints, records
    <3>9. ASSUME NEW i \in DOMAIN Done, NEW h \in DOMAIN applied', applied'[h].txn = Done[i] PROVE h < k
      <4>1. h \in DOMAIN applied
        BY <3>9, AddedIsNew DEF Added
      <4> QED  BY <3>5, <4>1
    <3> QED  BY <2>3, <2>4, <3>4, <3>5, <3>6, <3>7, <3>8, <3>9 DEF Added
  <2> QED  BY <2>2, <2>5, <2>6 DEF Answered
<1>6. ASSUME NEW r \in requests, Apply(r) PROVE Answered'
  <2>1. CASE session' = session
    <3>1. Shorter
      BY <1>6, DoneChanges, ApplyEffect DEF Readback, ReadBack, Types, SessionType
    <3> QED  BY <1>4, <2>1, <3>1
  <2> QED  BY <1>5, <1>6, <2>1, ApplyEffect
<1>7. CASE Reconcile
  <2>1. session'.plan = <<>>
    BY <1>7, ReconcileEffect DEF Types, SessionType
  <2> QED  BY <1>2, <2>1
<1>8. CASE UNCHANGED <<records, session, requests, applied>>
  <2>1. Done' = Done
    BY <1>8 DEF Done, Fingerprints, records
  <2>2. Shorter
    BY <2>1, DoneLength DEF Shorter
  <2> QED  BY <1>4, <1>8, <2>2
<1>9. CASE (\E mode \in Modes : Start(mode)) \/ Readback \/ Handoff \/ Interrupt \/ Leave
  BY <1>2, <1>9, StartEffect, ReadbackEffect, EndEffect, NoSessionType
<1> QED  BY <1>3, <1>6, <1>7, <1>8, <1>9, OnlySessionSteps DEF SessionSteps

LEMMA BetweenStep ==
  ASSUME Types, Types', Room, Past, AppliedOnce, WasApplied, Answered, Between, [Next]_vars
  PROVE  Between'
<1>1. ASSUME NEW i \in DOMAIN session.log, NEW k \in DOMAIN applied',
             applied'[k].txn = Fingerprint(session.log[i].kind, session.log[i].before)
      PROVE  session.log[i].before.head <= applied'[k].head /\ applied'[k].head <= session.log[i].after.head
  <2>1. Len(completed) + i \in DOMAIN Done /\ Done[Len(completed) + i] = applied'[k].txn
    BY <1>1, LoggedIsDone
  <2>2. k \in DOMAIN applied /\ applied'[k] = applied[k]
    BY <2>1, AddedIsNew, AppliedKept DEF Added
  <2> QED  BY <1>1, <2>2 DEF Between
<1>2. CASE session'.log = session.log
  BY <1>1, <1>2 DEF Between
<1>3. CASE session'.log = <<>>
  BY <1>3 DEF Between
<1>4. CASE Readback
  <2>1. /\ session.pc = "sent" /\ session.answer = "OK" /\ Iterated \in Iterations
        /\ session'.log = Append(session.log, Iterated) /\ UNCHANGED applied
    BY <1>4, ReadbackEffect
  <2>2. session.log \in Seq(Iterations)
    BY DEF Types, SessionType, Sessions
  <2>3. PICK p \in DOMAIN applied : applied[p].txn = Planned /\ session.plan[2].head <= applied[p].head
    BY <2>1 DEF Answered, Types, SessionType
  <2>4. applied[p].head <= head
    BY DEF Past
  <2>5. Iterated.kind = session.plan[1] /\ Iterated.before = session.plan[2] /\ Iterated.after.head = head
    BY DEF Iterated, Truth
  <2>6. ASSUME NEW k \in DOMAIN applied, applied[k].txn = Fingerprint(Iterated.kind, Iterated.before)
        PROVE  Iterated.before.head <= applied[k].head /\ applied[k].head <= Iterated.after.head
    <3>1. k = p
      BY <2>3, <2>5, <2>6 DEF AppliedOnce, Planned
    <3> QED  BY <2>3, <2>4, <2>5, <3>1
  <2>7. \A i \in DOMAIN session'.log :
           (i \in DOMAIN session.log /\ session'.log[i] = session.log[i]) \/ session'.log[i] = Iterated
    BY <2>1, <2>2
  <2> SUFFICES ASSUME NEW i \in DOMAIN session'.log, NEW k \in DOMAIN applied,
                      applied[k].txn = Fingerprint(session'.log[i].kind, session'.log[i].before)
               PROVE  /\ session'.log[i].before.head <= applied[k].head
                      /\ applied[k].head <= session'.log[i].after.head
    BY <2>1 DEF Between, Fingerprint
  <2>8. CASE i \in DOMAIN session.log /\ session'.log[i] = session.log[i]
    BY <1>1, <2>1, <2>8
  <2>9. CASE session'.log[i] = Iterated
    BY <2>6, <2>9
  <2> QED  BY <2>7, <2>8, <2>9
<1> QED
  <2>1. session'.log \in {session.log, <<>>} \/ Readback
    <3>1. ASSUME NEW mode \in Modes, Start(mode) PROVE session'.log = <<>>
      BY <3>1, StartEffect
    <3>2. ASSUME NEW r \in requests, Apply(r) PROVE session'.log = session.log
      BY <3>2, ApplyEffect
    <3> QED
      BY <3>1, <3>2, OnlySessionSteps, ReconcileEffect, DelegateEffect, EndEffect, NoSessionType DEF SessionSteps
  <2> QED  BY <1>2, <1>3, <1>4, <2>1

LEMMA RecordedStep ==
  ASSUME Types, Recorded, [Next]_vars
  PROVE  Recorded'
<1>1. CASE UNCHANGED records
  BY <1>1 DEF Recorded, records
<1>2. ASSUME NEW class \in {"CLEAN", "UNKNOWN", "PENDING"}, Persist(Record(class)) PROVE Recorded'
  <2>1. prior'.txns = Fingerprints(session.log) /\ completed' = Done
    BY <1>2, RecordType DEF Persist, Done
  <2>2. session.log \in Seq(Iterations)
    BY DEF Types, SessionType, Sessions
  <2>3. DOMAIN prior'.txns = DOMAIN session.log
        /\ \A i \in DOMAIN session.log : prior'.txns[i] = Fingerprint(session.log[i].kind, session.log[i].before)
    BY <2>1, <2>2, FingerprintsType
  <2>4. \A i \in DOMAIN session.log : Len(completed) + i \in DOMAIN Done
          /\ Done[Len(completed) + i] = Fingerprint(session.log[i].kind, session.log[i].before)
    BY LoggedIsDone
  <2> QED  BY <2>1, <2>3, <2>4 DEF Recorded
<1>3. CASE Handoff \/ Interrupt \/ Leave
  <2>1. Boundary \in {"CLEAN", "UNKNOWN", "PENDING"}
    BY DEF Boundary
  <2> QED  BY <1>1, <1>2, <1>3, <2>1, EndEffect
<1> QED
  BY <1>1, <1>3, OnlySessionSteps DEF SessionSteps, Start, Reconcile, Delegate, Readback, Apply

---------------------------------------------------------------------------
\* The invariant holds.

LEMMA InitInductive ==
  ASSUME Init
  PROVE  Inductive
<1> USE ConstantsAssumption DEF Init
<1>1. NoRecord.seq = 0 /\ NoRecord.class = "NONE" /\ NoRecord.txns = <<>>
  BY DEF NoRecord
<1>2. UpstreamType /\ RegistryType /\ WorkType
  <2>1. UpstreamType
    <3>1. main \in 0..MaxMain /\ faults \in 0..MaxFaults /\ base \in 0..main
      OBVIOUS
    <3>2. drift \subseteq Files /\ exception \in BOOLEAN
      OBVIOUS
    <3>3. readiness \in [state : {"NONE", "ASSESSED", "DEFERRED", "APPROVED"}, stale : SUBSET Nat]
      OBVIOUS
    <3> QED  BY <3>1, <3>2, <3>3 DEF UpstreamType
  <2>2. RegistryType
    BY DEF RegistryType
  <2>3. WorkType
    BY DEF WorkType
  <2> QED  BY <2>1, <2>2, <2>3
<1>3. SessionType
  BY NoSessionType DEF SessionType
<1>4. RecordsType
  BY <1>1, EmptySeq DEF RecordsType
<1>5. Types
  BY <1>2, <1>3, <1>4, EmptySeq DEF Types
<1>6. Waiting /\ Sent /\ Claims /\ Superseded /\ Overtaking /\ Fence
  BY DEF Waiting, Sent, Claims, Superseded, Overtaking, Fence
<1>7. Room
  <2>1. Senders = {}
    BY DEF Senders
  <2>2. ~Pending /\ faults = 0
    BY NoSessionType DEF Pending
  <2> QED  BY <2>1, <2>2, FS_EmptySet DEF Room
<1>8. OneLiving
  BY DEF OneLiving, Live
<1>9. DOMAIN applied = {} /\ DOMAIN session.log = {} /\ DOMAIN prior.txns = {}
  BY <1>1, NoSessionType
<1>10. DOMAIN Done = {}
  BY <1>5, <1>9, DoneElements
<1>11. Past /\ AppliedOnce /\ WasApplied /\ InOrder /\ Between /\ Recorded
  BY <1>9, <1>10 DEF Past, AppliedOnce, WasApplied, InOrder, Between, Recorded
<1>12. Answered
  BY NoSessionType DEF Answered
<1> QED
  BY <1>5, <1>6, <1>7, <1>8, <1>11, <1>12 DEF Inductive, Basics, Leases, Fencing, History

LEMMA InductiveStep ==
  ASSUME Inductive, [Next]_vars
  PROVE  Inductive'
<1> USE DEF Inductive
<1>1. Basics'
  BY TypesStep, WaitingStep, RoomStep, SentStep DEF Basics
<1>2. Leases'
  BY LeasesStep DEF Basics
<1>3. Fencing'
  BY SupersededStep, OvertakingStep, FenceStep DEF Basics, Leases, Fencing
<1>4. History'
  BY <1>1, PastStep, AppliedOnceStep, WasAppliedStep, InOrderStep, AnsweredStep, BetweenStep, RecordedStep
  DEF Basics, History
<1> QED  BY <1>1, <1>2, <1>3, <1>4

LEMMA InductiveHolds == Spec => []Inductive
BY InitInductive, InductiveStep, PTL DEF Spec

\* The provider, the requests and the sessions have their types: a work unit
\* has a base that exists, there is always an id for the next session, and a
\* session waits exactly when it planned (Start, Delegate, Apply, Readback).
THEOREM TypeCorrect == Spec => []TypeOK
<1>1. ASSUME Inductive PROVE TypeOK
  <2>1. Types
    BY <1>1 DEF Inductive, Basics
  <2>2. /\ session.pc \in {"none", "ready", "reconcile", "sent"}
        /\ session.id \in {0} \cup SessionIds /\ session.mode \in {"NONE"} \cup Modes
        /\ session.answer \in {"NONE", "OK", "REFUSED"}
        /\ session.start \in Seq(Truths) /\ session.log \in Seq(Iterations)
    BY <2>1 DEF Types, SessionType, Sessions
  <2>3. (session.pc = "sent") = (session.plan # <<>>)
    BY <2>1 DEF Types, SessionType
  <2>4. \A t \in {session.start[i] : i \in DOMAIN session.start} : t \in Truths
    BY <2>2
  <2>5. \A i \in DOMAIN session.log : session.log[i] \in [kind : Kinds, before : Truths, after : Truths]
    <3>1. \A i \in DOMAIN session.log : session.log[i] \in Iterations
      BY <2>2
    <3> QED  BY <3>1 DEF Iterations
  <2>6. \A r \in requests : r \in [session : SessionIds, kind : Kinds, at : Truths, after : Nat]
    BY <2>1 DEF Types, Requests
  <2> QED
    BY <2>1, <2>2, <2>3, <2>4, <2>5, <2>6
    DEF TypeOK, Types, UpstreamType, RegistryType, WorkType, RecordsType
<1> QED  BY <1>1, InductiveHolds, PTL

\* Of the entries of the registry at most one is living: a claim that was sent
\* when there was no living lease is refused once there is one, and so is a
\* rival's (Accepts, RivalClaim).
THEOREM OneLeaseLives == Spec => []OneLivingLease
<1>1. ASSUME Inductive PROVE OneLivingLease
  <2>1. OneLiving
    BY <1>1 DEF Inductive, Leases
  <2>2. Live = {} \/ \E e : Live = {e}
    BY <2>1 DEF OneLiving
  <2> QED  BY <2>2, FS_EmptySet, FS_Singleton DEF OneLivingLease
<1> QED  BY <1>1, InductiveHolds, PTL

\* Once a clean record is there, the provider refuses every claim and release
\* an earlier session sent and never heard of (Handoff, Accepts).
THEOREM CleanRecordsFence == Spec => []CleanIsFenced
<1>1. ASSUME Inductive PROVE CleanIsFenced
  <2> SUFFICES ASSUME NEW r \in requests, prior.class = "CLEAN", r.after < prior.seq, r.kind \in {"LEASE", "RELEASE"}
               PROVE  ~Accepts(r)
    BY DEF CleanIsFenced
  <2>1. r.at.head < head
    BY <1>1 DEF Inductive, Fencing, Fence, Overtaken, Registry
  <2>2. r.at.head \in Int /\ head \in Int
    BY <1>1 DEF Inductive, Basics, Types, Requests, Truths, RegistryType
  <2>3. head # r.at.head
    BY <2>1, <2>2
  <2> QED  BY <2>3 DEF Accepts
<1> QED  BY <1>1, InductiveHolds, PTL

\* A transaction that was read back or that a record names as completed was
\* applied by the provider once and is named once, whoever sent or sends it
\* again (Apply, Readback, Persist).
THEOREM DoneIsAppliedOnce == Spec => []TransactionsHappenOnce
<1>1. ASSUME Inductive, NEW i \in DOMAIN Done
      PROVE  /\ Cardinality({k \in DOMAIN applied : applied[k].txn = Done[i]}) = 1
             /\ Cardinality({k \in DOMAIN Done : Done[k] = Done[i]}) = 1
  <2>1. PICK p \in DOMAIN applied : applied[p].txn = Done[i]
    BY <1>1 DEF Inductive, History, WasApplied
  <2>2. {k \in DOMAIN applied : applied[k].txn = Done[i]} = {p}
    BY <1>1, <2>1 DEF Inductive, History, AppliedOnce
  <2>3. p \in Int
    BY <1>1 DEF Inductive, Basics, Types
  <2>4. ASSUME NEW k \in DOMAIN Done, Done[k] = Done[i] PROVE k = i
    <3>1. ~(k < i) /\ ~(i < k)
      BY <1>1, <2>1, <2>3, <2>4 DEF Inductive, History, InOrder
    <3>2. k \in Int /\ i \in Int
      BY <1>1, DoneLength DEF Inductive, Basics
    <3> QED  BY <3>1, <3>2
  <2>5. {k \in DOMAIN Done : Done[k] = Done[i]} = {i}
    BY <2>4
  <2> QED  BY <2>2, <2>5, FS_Singleton
<1>2. ASSUME Inductive PROVE TransactionsHappenOnce
  <2> SUFFICES ASSUME NEW txn \in Completed
               PROVE  /\ Cardinality({k \in DOMAIN [j \in DOMAIN applied |-> applied[j].txn] :
                                          [j \in DOMAIN applied |-> applied[j].txn][k] = txn}) = 1
                      /\ Cardinality({k \in DOMAIN Done : Done[k] = txn}) = 1
    BY DEF TransactionsHappenOnce, Done
  <2>1. PICK i \in DOMAIN Done : txn = Done[i]
    BY DEF Completed, Range, Done
  <2>2. {k \in DOMAIN [j \in DOMAIN applied |-> applied[j].txn] : [j \in DOMAIN applied |-> applied[j].txn][k] = txn}
          = {k \in DOMAIN applied : applied[k].txn = txn}
    OBVIOUS
  <2> QED  BY <1>1, <1>2, <2>1, <2>2
<1> QED  BY <1>2, InductiveHolds, PTL

---------------------------------------------------------------------------
\* Evidence.

\* Each transaction that is done was applied, after all that were done before.
LEMMA DoneInOrder ==
  ASSUME Inductive, NEW i \in DOMAIN Done
  PROVE  \E k \in DOMAIN applied :
           /\ applied[k].txn = Done[i]
           /\ \A j \in DOMAIN Done : j < i => \E h \in 1..k - 1 : applied[h].txn = Done[j]
<1>1. PICK k \in DOMAIN applied : applied[k].txn = Done[i]
  BY DEF Inductive, History, WasApplied
<1>2. DOMAIN applied = 1..Len(applied) /\ Len(applied) \in Nat
  BY DEF Inductive, Basics, Types
<1>3. ASSUME NEW j \in DOMAIN Done, j < i PROVE \E h \in 1..k - 1 : applied[h].txn = Done[j]
  <2>1. PICK h \in DOMAIN applied : applied[h].txn = Done[j]
    BY DEF Inductive, History, WasApplied
  <2>2. h < k
    BY <1>1, <1>3, <2>1 DEF Inductive, History, InOrder
  <2>3. h \in 1..k - 1
    BY <1>2, <2>2
  <2> QED  BY <2>1, <2>3
<1> QED  BY <1>1, <1>3

\* The iterations after the first began on the registry the first one left,
\* and left it alone, or moved it themselves.
Chained(log) ==
  \A i \in DOMAIN log :
     i > 1 => /\ log[1].kind = "LEASE" /\ log[i].before.head = log[1].before.head + 1
              /\ log[i].kind = "LEASE" \/ log[i].after.head = log[1].before.head + 1

LEMMA ComparedIsChained ==
  ASSUME NEW log \in Seq(Iterations), RegistryCompared(log)
  PROVE  Chained(log)
<1>1. DOMAIN log = 1..Len(log) /\ Len(log) \in Nat
  OBVIOUS
<1>2. CASE Wu114(log)
  BY <1>1, <1>2 DEF Wu114, ChainedIterations, LeaseThenBranch, SameRegistry, Chained
<1>3. CASE Wu129(log)
  <2>1. Len(log) = 3 /\ ChainedIterations(SubSeq(log, 1, 2)) /\ log[3].kind = "LEASE"
        /\ log[3].before.head = log[1].after.head
    BY <1>3 DEF Wu129
  <2>2. SubSeq(log, 1, 2)[1] = log[1] /\ SubSeq(log, 1, 2)[2] = log[2]
    BY <2>1
  <2>3. /\ log[1].kind = "LEASE" /\ log[1].after.head = log[1].before.head + 1
        /\ log[2].before.head = log[1].after.head /\ log[2].after.head = log[1].after.head
    BY <2>1, <2>2 DEF ChainedIterations, LeaseThenBranch, SameRegistry
  <2> QED  BY <1>1, <2>1, <2>3 DEF Chained
<1> QED  BY <1>2, <1>3 DEF RegistryCompared

\* Evidence the validators of WU114 to WU132 accept names transactions the
\* provider applied in that order; where they compare the registry around
\* every iteration (WU114, WU129), nobody wrote it between the lease and what
\* came after.
THEOREM AcceptedEvidenceIsTrue == Spec => []EvidenceIsTrue
<1>1. ASSUME Inductive, NEW evidence \in Accepted, NEW i \in DOMAIN evidence
      PROVE  \E k \in DOMAIN applied :
               /\ applied[k].txn = evidence[i]
               /\ i > 1 => \E h \in 1..k - 1 : applied[h].txn = evidence[i - 1]
               /\ i > 1 /\ evidence = Fingerprints(session.log) /\ RegistryCompared(session.log)
                    => applied[k].head = evidence[1][3] + 1
  <2> DEFINE log == session.log
  <2>1. Types /\ log \in Seq(Iterations) /\ DOMAIN log = 1..Len(log) /\ Len(log) \in Nat
    BY <1>1 DEF Inductive, Basics, Types, SessionType, Sessions
  <2>2. /\ Len(Fingerprints(log)) = Len(log) /\ DOMAIN Fingerprints(log) = DOMAIN log
        /\ \A m \in DOMAIN log : Fingerprints(log)[m] = Fingerprint(log[m].kind, log[m].before)
    BY <2>1, FingerprintsType
  <2>3. CASE evidence = Fingerprints(log)
    <3>2. i \in DOMAIN log /\ \A m \in DOMAIN log : evidence[m] = Fingerprint(log[m].kind, log[m].before)
      BY <1>1, <2>2, <2>3
    <3>3. \A m \in DOMAIN log : Len(completed) + m \in DOMAIN Done /\ Done[Len(completed) + m] = evidence[m]
      BY <2>1, <3>2, LoggedIsDone
    <3>4. PICK k \in DOMAIN applied :
             /\ applied[k].txn = evidence[i]
             /\ \A j \in DOMAIN Done : j < Len(completed) + i => \E h \in 1..k - 1 : applied[h].txn = Done[j]
      BY <1>1, <3>2, <3>3, DoneInOrder
    <3>5. Len(completed) \in Nat
      BY <2>1, DoneElements
    <3>6. ASSUME i > 1 PROVE \E h \in 1..k - 1 : applied[h].txn = evidence[i - 1]
      <4>1. i - 1 \in DOMAIN log
        BY <2>1, <3>2, <3>6
      <4>2. Len(completed) + (i - 1) \in DOMAIN Done /\ Done[Len(completed) + (i - 1)] = evidence[i - 1]
        BY <3>3, <4>1
      <4>3. Len(completed) + (i - 1) < Len(completed) + i
        BY <2>1, <3>2, <3>5
      <4> QED  BY <3>4, <4>2, <4>3
    <3>7. ASSUME i > 1, RegistryCompared(log) PROVE applied[k].head = evidence[1][3] + 1
      <4>6. Chained(log)
        BY <2>1, <3>7, ComparedIsChained
      <4>1. /\ log[1].kind = "LEASE" /\ log[i].before.head = log[1].before.head + 1
            /\ log[i].kind = "LEASE" \/ log[i].after.head = log[1].before.head + 1
        BY <3>2, <3>7, <4>6 DEF Chained
      <4>2. 1 \in DOMAIN log
        BY <2>1, <3>2, <3>7
      <4>3. evidence[1][3] = log[1].before.head
        BY <3>2, <4>1, <4>2, FingerprintParts
      <4>4. CASE log[i].kind = "LEASE"
        <5>1. evidence[i][1] = "LEASE" /\ evidence[i][3] = log[i].before.head
          BY <3>2, <4>4, FingerprintParts
        <5>2. applied[k].head = log[i].before.head
          BY <1>1, <3>4, <5>1 DEF Inductive, History, Past
        <5> QED  BY <4>1, <4>3, <5>2
      <4>5. CASE log[i].after.head = log[1].before.head + 1
        <5>1. log[i].before.head <= applied[k].head /\ applied[k].head <= log[i].after.head
          BY <1>1, <3>2, <3>4 DEF Inductive, History, Between
        <5>2. applied[k].head \in Int
          BY <2>1, AppliedElements
        <5>3. log[1].before.head \in Int
          <6>1. log[1] \in Iterations
            BY <2>1, <4>2
          <6> QED  BY <6>1 DEF Iterations, Truths
        <5> QED  BY <4>1, <4>3, <4>5, <5>1, <5>2, <5>3
      <4> QED  BY <4>1, <4>4, <4>5
    <3> QED  BY <3>4, <3>6, <3>7
  <2>4. CASE evidence = prior.txns \o Fingerprints(log) /\ Len(prior.txns) = 1 /\ Len(log) = 1
    <3>1. prior.txns \in Seq(Txns) /\ Fingerprints(log) \in Seq(Txns)
      BY <2>1, FingerprintsType DEF Types, RecordsType
    <3>2. /\ Len(evidence) = 2 /\ DOMAIN evidence = 1..2
          /\ evidence[1] = prior.txns[1] /\ evidence[2] = Fingerprints(log)[1]
      <4>1. PICK d : d = prior.txns \o Fingerprints(log)
        OBVIOUS
      <4>2. /\ Len(d) = Len(prior.txns) + Len(log) /\ DOMAIN d = 1..Len(d)
            /\ \A m \in 1..Len(prior.txns) : d[m] = prior.txns[m]
            /\ \A m \in 1..Len(log) : d[Len(prior.txns) + m] = Fingerprint(log[m].kind, log[m].before)
        BY <2>1, <3>1, <4>1, Joined
      <4>3. Len(d) = 2 /\ DOMAIN d = 1..2 /\ d[1] = prior.txns[1]
        BY <2>4, <4>2
      <4>4. d[2] = Fingerprint(log[1].kind, log[1].before)
        BY <2>4, <4>2
      <4>5. Fingerprints(log)[1] = Fingerprint(log[1].kind, log[1].before)
        BY <2>1, <2>2, <2>4
      <4> QED  BY <2>4, <4>1, <4>3, <4>4, <4>5
    <3>3. PICK j \in DOMAIN completed : completed[j] = evidence[1]
      <4>1. 1 \in DOMAIN prior.txns
        BY <2>4, <3>1
      <4> QED  BY <1>1, <3>2, <4>1 DEF Inductive, History, Recorded
    <3>4. 1 \in DOMAIN log
      BY <2>1, <2>4
    <3>5. Len(completed) + 1 \in DOMAIN Done /\ Done[Len(completed) + 1] = evidence[2]
      BY <2>1, <2>2, <3>2, <3>4, LoggedIsDone
    <3>6. j \in DOMAIN Done /\ Done[j] = evidence[1] /\ j < Len(completed) + 1
      <4>1. /\ Len(completed) \in Nat /\ DOMAIN completed = 1..Len(completed)
            /\ \A m \in 1..Len(completed) : Done[m] = completed[m]
        BY <2>1, DoneElements
      <4>2. DOMAIN Done = 1..Len(completed) + Len(log)
        BY <2>1, DoneElements
      <4> QED  BY <2>1, <3>3, <4>1, <4>2
    <3>7. evidence # Fingerprints(log)
      <4>1. Len(Fingerprints(log)) = 1
        BY <2>2, <2>4
      <4>2. Len(evidence) = 2
        BY <3>2
      <4> HIDE DEF log
      <4> QED  BY <4>1, <4>2
    <3>8. CASE i = 1
      <4>1. \E k \in DOMAIN applied : applied[k].txn = evidence[1]
        BY <1>1, <3>6, DoneInOrder
      <4> QED  BY <3>8, <4>1
    <3>9. CASE i = 2
      <4>1. PICK k \in DOMAIN applied :
              applied[k].txn = evidence[2] /\ \E h \in 1..k - 1 : applied[h].txn = evidence[1]
        BY <1>1, <3>5, <3>6, DoneInOrder
      <4> QED  BY <3>7, <3>9, <4>1
    <3> QED  BY <1>1, <3>2, <3>8, <3>9
  <2> QED
    <3>1. \/ evidence = Fingerprints(log)
          \/ evidence = prior.txns \o Fingerprints(log) /\ Wu132(prior.txns, log)
      BY <1>1 DEF Accepted
    <3> QED  BY <2>3, <2>4, <3>1 DEF Wu132
<1>2. ASSUME Inductive PROVE EvidenceIsTrue
  BY <1>1, <1>2 DEF EvidenceIsTrue
<1> QED  BY <1>2, InductiveHolds, PTL

=============================================================================
