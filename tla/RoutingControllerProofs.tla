---------------------- MODULE RoutingControllerProofs ----------------------
(***************************************************************************)
(* Proofs about RoutingController: mutual exclusion of mutations, at most  *)
(* one watchdog, what an Apply that passes has brought about, that the     *)
(* DIRECT override stands, and that what one failure leaves in Proxifier   *)
(* is something a watchdog can see.                                        *)
(***************************************************************************)
EXTENDS RoutingController, FiniteSetTheorems, TLAPS

Jobs == [pc : Pcs \cup DogPcs, op : EngineActions \cup {"none", "Watchdog"},
         by : {"none", "user", "logon", "recovery"}, cfg : [Modules -> Modes],
         seen : Routes, hash : Routes \cup {None}, routes : Routes, final : BOOLEAN,
         started : Dogs \cup {None}, result : {"none", "pass", "fail"}]

\* Where an operation can be: a job of the engine, or of a watchdog.
Place(pc, op) ==
  /\ op = "none" => pc = "idle"
  /\ pc \in {"resolve", "startdog", "pid", "verify"} => op = "Apply"
  /\ pc = "stoptunnel" => op = "StopTunnel"
  /\ pc \in {"read", "provide", "write"} => op \in {"Apply", "RestartTunnel"}
  /\ pc = "stopdog" => op # "RestartTunnel"

EngineSound(j) ==
  /\ j.pc \in Pcs /\ j.op \in EngineActions \cup {"none"} /\ Place(j.pc, j.op)
  /\ j.op \in {"Direct", "StopTunnel"} => j.routes = AllDirect

DogSound(j) == j.pc \in DogPcs /\ j.op = "Watchdog"

Sound(p, j) ==
  /\ j \in Jobs
  /\ p \in Engines => EngineSound(j)
  /\ p \in Dogs => DogSound(j)

JobsSound == job \in [Procs -> Jobs] /\ \A p \in Procs : Sound(p, job[p])

Runtimes == [override : {"NONE", "DIRECT"}, effective : Routes, hash : Routes \cup {None},
             reason : {"INITIAL", "MANUAL_APPLY", "DIRECT_OVERRIDE", "STOP_TUNNEL",
                       "MANUAL_TUNNEL_RESTART", "WATCHDOG"}]

Types ==
  /\ config \in [Modules -> Modes] /\ runtime \in Runtimes
  /\ {disk, loaded, lkg} \subseteq Routes \cup {None}
  /\ {tunnel, vps} \subseteq BOOLEAN /\ (tunnel => vps)
  /\ mutex \in Procs \cup {None}
  /\ {pidfile, reader} \subseteq Dogs \cup {None}
  /\ ops \in 0..MaxOps /\ faults \in 0..MaxFaults

Exclusion == \A p \in Procs : job[p].pc \notin Unlocked <=> mutex = p

\* The part of the inductive invariant that needs no other.
Base == JobsSound /\ Types /\ Exclusion

---------------------------------------------------------------------------
\* Jobs.

LEMMA Distinct ==
  /\ None \notin Procs /\ None \notin Routes /\ None # AllDirect
  /\ Dogs \cap Engines = {} /\ MaxOps \in Nat /\ MaxFaults \in Nat
  /\ Operations \subseteq EngineActions
<1>1. MaxOps \in Nat /\ MaxFaults \in Nat
  BY ConstantsAssumption, Zenon
<1>2. \A r \in SUBSET Modules : None # r
  BY ConstantsAssumption
<1>3. None \notin Routes /\ None # AllDirect
  BY <1>2 DEF Routes, AllDirect
<1>4. QED
  BY <1>1, <1>3, ConstantsAssumption

\* Jobs that begin, end and wait.
LEMMA IdleSound ==
  ASSUME NEW op \in EngineActions \cup {"none"}, NEW res \in {"none", "pass", "fail"}
  PROVE  IdleJob(op, res) \in Jobs /\ EngineSound(IdleJob(op, res))
         /\ IdleJob(op, res).pc = "idle"
  BY DEF IdleJob, Jobs, EngineSound, Place, EngineActions, Pcs, Modes, Routes, AllDirect

LEMMA DogJobSound ==
  ASSUME NEW pc \in DogPcs
  PROVE  DogJob(pc) \in Jobs /\ DogSound(DogJob(pc)) /\ DogJob(pc).pc = pc
<1>1. IdleJob("Watchdog", "none") \in Jobs /\ IdleJob("Watchdog", "none").op = "Watchdog"
  BY DEF IdleJob, Jobs, Pcs, Modes, Routes, AllDirect
<1>2. QED
  BY <1>1 DEF DogJob, Jobs, DogSound

LEMMA RestSound ==
  ASSUME JobsSound, NEW p \in Procs, NEW res \in {"none", "pass", "fail"}
  PROVE  Sound(p, Rest(p, res)) /\ Rest(p, res).pc \in {"idle", "config"}
         /\ (p \in Engines => Rest(p, res).pc = "idle")
<1>1. CASE p \in Engines
  <2>1. job[p].op \in EngineActions \cup {"none"} /\ p \notin Dogs
    BY <1>1, Distinct DEF JobsSound, Sound, EngineSound
  <2>2. Rest(p, res) = IdleJob(job[p].op, res)
    BY <1>1 DEF Rest
  <2>3. QED
    BY <1>1, <2>1, <2>2, IdleSound DEF Sound
<1>2. CASE p \notin Engines
  <2>1. Rest(p, res) = DogJob("config") /\ "config" \in DogPcs
    BY <1>2 DEF Rest, DogPcs
  <2>2. QED
    BY <1>2, <2>1, DogJobSound DEF Sound
<1>3. QED
  BY <1>1, <1>2

LEMMA GotoSound ==
  ASSUME JobsSound, NEW p \in Procs, NEW pc, Goto(p, pc),
         p \in Engines => pc \in Pcs /\ Place(pc, job[p].op),
         p \in Dogs => pc \in DogPcs
  PROVE  /\ job' = [job EXCEPT ![p] = [job[p] EXCEPT !.pc = pc]]
         /\ Sound(p, [job[p] EXCEPT !.pc = pc])
         /\ [job[p] EXCEPT !.pc = pc].pc = pc
<1>1. job[p] \in Jobs /\ Sound(p, job[p])
  BY DEF JobsSound
<1>2. pc \in Pcs \cup DogPcs
  BY DEF Procs
<1>3. QED
  BY <1>1, <1>2 DEF Goto, Sound, EngineSound, DogSound, Jobs

\* How the mutex goes with the job of the process that moves.
Takes(p, j) ==
  \/ (job[p].pc \in Unlocked <=> j.pc \in Unlocked) /\ mutex' = mutex
  \/ job[p].pc \in Unlocked /\ j.pc \notin Unlocked /\ mutex = None /\ mutex' = p
  \/ job[p].pc \notin Unlocked /\ j.pc \in Unlocked /\ mutex' = None
  \/ j.pc \in Unlocked /\ mutex' = IF mutex = p THEN None ELSE mutex

\* One process moves.
LEMMA OneMoves ==
  ASSUME Base, NEW p \in Procs, NEW j, Sound(p, j), job' = [job EXCEPT ![p] = j],
         Takes(p, j), Types'
  PROVE  Base' /\ job'[p] = j /\ \A q \in Procs \ {p} : job'[q] = job[q]
<1>1. job'[p] = j /\ \A q \in Procs \ {p} : job'[q] = job[q]
  BY DEF Base, JobsSound
<1>2. JobsSound'
  <2>1. job' \in [Procs -> Jobs]
    BY DEF Base, JobsSound, Sound
  <2>2. \A q \in Procs : Sound(q, job'[q])
    BY <1>1 DEF Base, JobsSound
  <2>3. QED
    BY <2>1, <2>2 DEF JobsSound
<1>3. Exclusion'
  <2>1. None \notin Procs
    BY Distinct
  <2>2. QED
    BY <1>1, <2>1 DEF Base, Exclusion, Takes, Types
<1>4. QED
  BY <1>1, <1>2, <1>3 DEF Base

\* Nobody moves.
LEMMA NobodyMoves ==
  ASSUME Base, UNCHANGED <<job, mutex>>, Types'
  PROVE  Base'
  BY DEF Base, JobsSound, Exclusion

---------------------------------------------------------------------------
\* Base is kept: operations start and take the mutex.

LEMMA AtLock ==
  ASSUME NEW k \in Jobs, EngineSound(k), k.op \in EngineActions,
         NEW b \in {"user", "logon", "recovery"}
  PROVE  /\ [k EXCEPT !.pc = "lock", !.by = b] \in Jobs
         /\ EngineSound([k EXCEPT !.pc = "lock", !.by = b])
         /\ [k EXCEPT !.pc = "lock", !.by = b].pc = "lock"
  BY DEF Jobs, EngineSound, Place, Pcs, EngineActions

LEMMA StartBase ==
  ASSUME Base, NEW p \in Engines, NEW op \in EngineActions, NEW by \in {"user", "logon", "recovery"},
         Start(p, op, by)
  PROVE  Base'
<1> DEFINE j == [IdleJob(op, "none") EXCEPT !.pc = "lock", !.by = by]
<1>1. p \in Procs /\ p \notin Dogs /\ job[p].pc = "idle" /\ ops < MaxOps /\ ops' = ops + 1
      /\ job' = [job EXCEPT ![p] = j]
      /\ UNCHANGED <<files, loaded, tunnel, vps, mutex, pidfile, reader, faults>>
  BY Distinct DEF Start, Procs
<1>2. IdleJob(op, "none") \in Jobs /\ EngineSound(IdleJob(op, "none")) /\ IdleJob(op, "none").op = op
  BY IdleSound DEF IdleJob
<1>3. Sound(p, j) /\ j.pc = "lock"
  BY <1>1, <1>2, AtLock DEF Sound
<1>4. Types'
  <2>1. ops' \in 0..MaxOps
    BY <1>1, Distinct DEF Base, Types
  <2>2. QED
    BY <1>1, <2>1 DEF Base, Types, files
<1>5. Takes(p, j)
  BY <1>1, <1>3 DEF Takes, Unlocked
<1> HIDE DEF j
<1>6. QED
  BY <1>1, <1>3, <1>4, <1>5, OneMoves

LEMMA SaveConfigBase ==
  ASSUME Base, SaveConfig
  PROVE  Base'
<1>1. config' \in [Modules -> Modes] /\ ops' \in 0..MaxOps
  BY Distinct DEF SaveConfig, Base, Types
<1>2. UNCHANGED <<runtime, disk, loaded, lkg, tunnel, vps, mutex, pidfile, reader, job, faults>>
  BY DEF SaveConfig
<1>3. Types'
  BY <1>1, <1>2 DEF Base, Types
<1>4. QED
  BY <1>2, <1>3, NobodyMoves

LEMMA AcquireBase ==
  ASSUME Base, NEW p \in Procs, Acquire(p)
  PROVE  Base'
<1> DEFINE pc == CASE job[p].op \in {"Direct", "StopTunnel"} -> "stopdog"
                   [] job[p].op = "Watchdog" -> "provide"
                   [] OTHER -> "read"
           j == [job[p] EXCEPT !.pc = pc]
<1>1. /\ job[p].pc = "lock" /\ mutex = None /\ mutex' = p /\ Goto(p, pc)
      /\ UNCHANGED <<files, loaded, tunnel, vps, pidfile, reader, ops, faults>>
  BY DEF Acquire
<1>2. Sound(p, job[p])
  BY DEF Base, JobsSound
<1>3. p \in Dogs => pc = "provide" /\ pc \in DogPcs
  BY <1>2 DEF Sound, DogSound, DogPcs
<1>4. p \in Engines => pc \in Pcs \ Unlocked /\ Place(pc, job[p].op)
  BY <1>1, <1>2 DEF Sound, EngineSound, EngineActions, Place, Pcs, Unlocked
<1>5. pc \notin Unlocked
  BY <1>3, <1>4 DEF Unlocked, Procs
<1> HIDE DEF pc
<1>6. job' = [job EXCEPT ![p] = j] /\ Sound(p, j) /\ j.pc = pc
  BY <1>1, <1>3, <1>4, GotoSound DEF Base
<1>7. Types'
  BY <1>1 DEF Base, Types, files
<1>8. Takes(p, j)
  BY <1>1, <1>5, <1>6 DEF Takes, Unlocked
<1> HIDE DEF j
<1>9. QED
  BY <1>6, <1>7, <1>8, OneMoves

\* A process that goes on under the mutex.
LEMMA GoesOn ==
  ASSUME Base, NEW p \in Procs, NEW pc, Goto(p, pc), mutex' = mutex, Types',
         job[p].pc \notin Unlocked, pc \notin Unlocked,
         p \in Engines => pc \in Pcs /\ Place(pc, job[p].op),
         p \in Dogs => pc \in DogPcs
  PROVE  Base' /\ job'[p] = [job[p] EXCEPT !.pc = pc] /\ \A q \in Procs \ {p} : job'[q] = job[q]
<1> DEFINE j == [job[p] EXCEPT !.pc = pc]
<1>1. job' = [job EXCEPT ![p] = j] /\ Sound(p, j) /\ j.pc = pc
  BY GotoSound DEF Base
<1>2. Takes(p, j)
  BY <1>1 DEF Takes
<1> HIDE DEF j
<1>3. Base' /\ job'[p] = j /\ \A q \in Procs \ {p} : job'[q] = job[q]
  BY <1>1, <1>2, OneMoves
<1>4. QED
  BY <1>3 DEF j

\* A process that gives the mutex back.
LEMMA Finishes ==
  ASSUME Base, NEW p \in Procs, NEW res \in {"pass", "fail"}, Finish(p, res), Types',
         job[p].pc \notin Unlocked
  PROVE  Base' /\ job'[p] = Rest(p, res) /\ \A q \in Procs \ {p} : job'[q] = job[q]
<1> DEFINE j == Rest(p, res)
<1>1. job' = [job EXCEPT ![p] = j] /\ mutex' = None
  BY DEF Finish
<1>2. Sound(p, j) /\ j.pc \in {"idle", "config"}
  BY RestSound DEF Base
<1>3. Takes(p, j)
  BY <1>1, <1>2 DEF Takes, Unlocked
<1> HIDE DEF j
<1>4. Base' /\ job'[p] = j /\ \A q \in Procs \ {p} : job'[q] = job[q]
  BY <1>1, <1>2, <1>3, OneMoves
<1>5. QED
  BY <1>4 DEF j

\* A process that takes the mutex no more, or leaves it by force.
LEMMA LockTimeoutBase ==
  ASSUME Base, NEW p \in Procs, LockTimeout(p)
  PROVE  Base'
<1> DEFINE j == Rest(p, "fail")
<1>1. /\ job[p].pc = "lock" /\ job' = [job EXCEPT ![p] = j]
      /\ UNCHANGED <<files, loaded, tunnel, vps, mutex, pidfile, reader, ops, faults>>
  BY DEF LockTimeout
<1>2. Sound(p, j) /\ j.pc \in {"idle", "config"}
  BY RestSound DEF Base
<1>3. Types'
  BY <1>1 DEF Base, Types, files
<1>4. Takes(p, j)
  BY <1>1, <1>2 DEF Takes, Unlocked
<1> HIDE DEF j
<1>5. QED
  BY <1>1, <1>2, <1>3, <1>4, OneMoves

LEMMA FaultCounts ==
  ASSUME Types, NEW kind, Fault(kind)
  PROVE  faults' \in 0..MaxFaults
  BY Distinct DEF Types, Fault

LEMMA CrashBase ==
  ASSUME Base, NEW p \in Procs, Crash(p)
  PROVE  Base'
<1> DEFINE j == IF p \in Engines THEN IdleJob(job[p].op, "fail") ELSE DogJob("dead")
<1>1. /\ Fault("crash") /\ job' = [job EXCEPT ![p] = j]
      /\ mutex' = IF mutex = p THEN None ELSE mutex
      /\ UNCHANGED <<files, loaded, tunnel, vps, pidfile, reader, ops>>
  BY DEF Crash
<1>2. Sound(p, job[p])
  BY DEF Base, JobsSound
<1>3. Sound(p, j) /\ j.pc \in {"idle", "dead"}
  <2>1. CASE p \in Engines
    BY <1>2, <2>1, IdleSound, Distinct DEF Sound, EngineSound
  <2>2. CASE p \notin Engines
    BY <2>2, DogJobSound DEF Sound, DogPcs
  <2>3. QED
    BY <2>1, <2>2
<1>4. Types'
  BY <1>1, FaultCounts DEF Base, Types, files
<1>5. Takes(p, j)
  BY <1>1, <1>3 DEF Takes, Unlocked
<1> HIDE DEF j
<1>6. QED
  BY <1>1, <1>3, <1>4, <1>5, OneMoves

---------------------------------------------------------------------------
\* Base is kept: the steps under the mutex.

\* What Base says of a process at a place.
LEMMA AtPlace ==
  ASSUME Base, NEW p \in Procs
  PROVE  /\ job[p] \in Jobs
         /\ p \in Engines => EngineSound(job[p]) /\ p \notin Dogs
         /\ p \in Dogs => DogSound(job[p]) /\ p \notin Engines
  BY Distinct DEF Base, JobsSound, Sound

\* A job that has read or resolved new routes.
LEMMA WithRoutes ==
  ASSUME NEW op \in {"Apply", "RestartTunnel"}, NEW j \in Jobs, j.op = op, j.pc = "provide"
  PROVE  EngineSound(j)
  BY DEF Jobs, EngineSound, Place, Pcs, EngineActions

LEMMA ReadForApplyBase ==
  ASSUME Base, NEW p \in Engines, ReadForApply(p)
  PROVE  Base'
<1> DEFINE r == Provisional(config, runtime.effective)
           j == [job[p] EXCEPT !.cfg = config, !.pc = "provide", !.routes = r]
<1>1. p \in Procs /\ p \notin Dogs /\ job[p] \in Jobs /\ EngineSound(job[p])
  BY AtPlace DEF Procs
<1>2. /\ job[p].pc = "read" /\ job[p].op = "Apply" /\ job' = [job EXCEPT ![p] = j]
      /\ runtime' = [runtime EXCEPT !.override = "NONE"]
      /\ UNCHANGED <<config, disk, loaded, lkg, tunnel, vps, mutex, pidfile, reader, ops, faults>>
  BY DEF ReadForApply, Base, JobsSound
<1>3. r \in Routes /\ config \in [Modules -> Modes]
  BY DEF Provisional, Routes, Base, Types
<1> HIDE DEF r
<1>4. j \in Jobs /\ j.op = "Apply" /\ j.pc = "provide"
  BY <1>1, <1>2, <1>3 DEF Jobs, Pcs
<1>5. Sound(p, j) /\ j.pc = "provide"
  BY <1>1, <1>4, WithRoutes, Zenon DEF Sound
<1>6. Types'
  BY <1>2 DEF Base, Types, Runtimes
<1>7. Takes(p, j)
  BY <1>2, <1>5 DEF Takes, Unlocked
<1> HIDE DEF j
<1>8. QED
  BY <1>1, <1>2, <1>5, <1>6, <1>7, OneMoves

LEMMA ReadForRestartBase ==
  ASSUME Base, NEW p \in Engines, ReadForRestart(p)
  PROVE  Base'
<1> DEFINE j == [job[p] EXCEPT !.routes = runtime.effective, !.pc = "provide", !.final = TRUE]
<1>1. p \in Procs /\ p \notin Dogs /\ job[p] \in Jobs /\ EngineSound(job[p])
  BY AtPlace DEF Procs
<1>2. /\ job[p].pc = "read" /\ job[p].op = "RestartTunnel" /\ job' = [job EXCEPT ![p] = j]
      /\ tunnel' = FALSE
      /\ UNCHANGED <<files, loaded, vps, mutex, pidfile, reader, ops, faults>>
  BY DEF ReadForRestart, Base, JobsSound
<1>3. runtime.effective \in Routes
  BY DEF Runtimes, Base, Types
<1>4. j \in Jobs /\ j.op = "RestartTunnel" /\ j.pc = "provide"
  BY <1>1, <1>2, <1>3 DEF Jobs, Pcs
<1>5. Sound(p, j) /\ j.pc = "provide"
  BY <1>1, <1>4, WithRoutes, Zenon DEF Sound
<1>6. Types'
  BY <1>2 DEF Base, Types, files
<1>7. Takes(p, j)
  BY <1>2, <1>5 DEF Takes, Unlocked
<1> HIDE DEF j
<1>8. QED
  BY <1>1, <1>2, <1>5, <1>6, <1>7, OneMoves

LEMMA ProvideBase ==
  ASSUME Base, NEW p \in Procs, Provide(p)
  PROVE  Base'
<1>1. /\ job[p].pc = "provide" /\ job[p].pc \notin Unlocked /\ tunnel' \in {vps, tunnel}
      /\ UNCHANGED <<files, loaded, vps, pidfile, reader, ops, faults>>
      /\ (Goto(p, "write") /\ mutex' = mutex) \/ Finish(p, "fail") \/ Finish(p, "pass")
  BY DEF Provide, Unlocked
<1>2. CASE Goto(p, "write") /\ mutex' = mutex
  <2>1. Types'
    BY <1>1, <1>2 DEF Base, Types, files
  <2>2. (p \in Engines => "write" \in Pcs /\ Place("write", job[p].op))
        /\ (p \in Dogs => "write" \in DogPcs)
    BY <1>1, AtPlace DEF EngineSound, Place, Pcs, DogPcs
  <2>3. QED
    BY <1>1, <1>2, <2>1, <2>2, GoesOn DEF Unlocked
<1>3. CASE Finish(p, "fail") \/ Finish(p, "pass")
  <2>1. Types'
    BY <1>1, <1>3 DEF Base, Types, files, Finish
  <2>2. QED
    BY <1>1, <1>3, <2>1, Finishes
<1>4. QED
  BY <1>1, <1>2, <1>3

LEMMA WriteProfileBase ==
  ASSUME Base, NEW p \in Procs, WriteProfile(p)
  PROVE  Base'
<1>1. /\ job[p].pc = "write" /\ disk' = job[p].routes /\ Goto(p, "load")
      /\ UNCHANGED <<config, runtime, loaded, lkg, tunnel, vps, mutex, pidfile, reader, ops, faults>>
  BY DEF WriteProfile
<1>2. job[p].routes \in Routes
  BY AtPlace DEF Jobs
<1>3. Types'
  BY <1>1, <1>2 DEF Base, Types
<1>4. (p \in Engines => "load" \in Pcs /\ Place("load", job[p].op))
      /\ (p \in Dogs => "load" \in DogPcs)
  BY <1>1, AtPlace DEF EngineSound, Place, Pcs, DogPcs
<1>5. QED
  BY <1>1, <1>3, <1>4, GoesOn DEF Unlocked

\* After a load comes the resolution of Apply, or the record.
LEMMA AfterLoadBase ==
  ASSUME Base, NEW p \in Procs, job[p].pc = "load", NEW pc \in {AfterLoad(p), "commit"},
         Goto(p, pc), mutex' = mutex, Types'
  PROVE  Base' /\ job'[p] = [job[p] EXCEPT !.pc = pc] /\ \A q \in Procs \ {p} : job'[q] = job[q]
<1>1. p \in Engines => pc \in Pcs /\ Place(pc, job[p].op)
  BY AtPlace DEF EngineSound, Place, Pcs, AfterLoad
<1>2. p \in Dogs => pc \in DogPcs
  BY AtPlace DEF DogSound, DogPcs, AfterLoad
<1>3. job[p].pc \notin Unlocked /\ pc \notin Unlocked
  BY DEF AfterLoad, Unlocked
<1>4. QED
  BY <1>1, <1>2, <1>3, GoesOn

LEMMA LoadBase ==
  ASSUME Base, NEW p \in Procs, Load(p)
  PROVE  Base'
<1>1. /\ job[p].pc = "load" /\ Goto(p, AfterLoad(p))
      /\ loaded' = job[p].routes /\ lkg' = job[p].routes
      /\ UNCHANGED <<config, runtime, disk, tunnel, vps, mutex, pidfile, reader, ops, faults>>
  BY DEF Load
<1>2. job[p].routes \in Routes
  BY AtPlace DEF Jobs
<1>3. Types'
  BY <1>1, <1>2 DEF Base, Types
<1>4. QED
  BY <1>1, <1>3, AfterLoadBase

LEMMA FailedLoadBase ==
  ASSUME Base, NEW p \in Procs, job[p].pc = "load", FailedLoad(p),
         loaded' \in {loaded, job[p].routes, lkg, None}, faults' \in 0..MaxFaults,
         UNCHANGED <<files, tunnel, vps, pidfile, reader, ops>>
  PROVE  Base'
<1>1. job[p].routes \in Routes
  BY AtPlace DEF Jobs
<1>2. CASE Goto(p, "commit") /\ mutex' = mutex
  <2>1. Types'
    BY <1>1, <1>2 DEF Base, Types, files
  <2>2. QED
    BY <1>2, <2>1, AfterLoadBase
<1>3. CASE Finish(p, "fail")
  <2>1. Types'
    BY <1>1, <1>3 DEF Base, Types, files, Finish
  <2>2. QED
    BY <1>3, <2>1, Finishes DEF Unlocked
<1>4. QED
  BY <1>2, <1>3 DEF FailedLoad

LEMMA LoadUnverifiedBase ==
  ASSUME Base, NEW p \in Procs, LoadUnverified(p)
  PROVE  Base'
<1>1. /\ job[p].pc = "load" /\ FailedLoad(p)
      /\ loaded' \in {loaded, job[p].routes, lkg, None}
      /\ UNCHANGED <<files, tunnel, vps, pidfile, reader, ops, faults>>
  BY DEF LoadUnverified
<1>2. faults' \in 0..MaxFaults
  BY <1>1 DEF Base, Types
<1>3. QED
  BY <1>1, <1>2, FailedLoadBase

LEMMA LoadFailsBase ==
  ASSUME Base, NEW p \in Procs, LoadFails(p)
  PROVE  Base'
<1>1. /\ job[p].pc = "load" /\ FailedLoad(p) /\ Fault("load")
      /\ loaded' \in {loaded, job[p].routes, lkg, None}
      /\ UNCHANGED <<files, tunnel, vps, pidfile, reader, ops>>
  BY DEF LoadFails
<1>2. faults' \in 0..MaxFaults
  BY <1>1, FaultCounts DEF Base
<1>3. QED
  BY <1>1, <1>2, FailedLoadBase

LEMMA ResolveBase ==
  ASSUME Base, NEW p \in Engines, Resolve(p)
  PROVE  Base'
<1>1. /\ p \in Procs /\ p \notin Dogs /\ job[p] \in Jobs /\ EngineSound(job[p])
      /\ job[p].pc = "resolve" /\ job[p].op = "Apply" /\ job[p].cfg \in [Modules -> Modes]
      /\ UNCHANGED <<files, loaded, vps, pidfile, reader, ops, faults>>
  BY AtPlace DEF Procs, Resolve, EngineSound, Place, Jobs
<1>2. CASE UNCHANGED tunnel /\ Finish(p, "fail")
  <2>1. Types'
    BY <1>1, <1>2 DEF Base, Types, files, Finish
  <2>2. QED
    BY <1>1, <1>2, <2>1, Finishes DEF Unlocked
<1>3. ASSUME NEW r \in Resolutions(job[p].cfg), tunnel' \in Probed(job[p].cfg, r),
             job' = [job EXCEPT ![p].routes = r, ![p].final = TRUE, ![p].pc = "provide"],
             UNCHANGED mutex
      PROVE  Base'
  <2> DEFINE j == [job[p] EXCEPT !.routes = r, !.final = TRUE, !.pc = "provide"]
  <2>1. job' = [job EXCEPT ![p] = j]
    BY <1>1, <1>3 DEF Base, JobsSound
  <2>2. r \in Routes
    BY DEF Resolutions, Routes
  <2>3. j \in Jobs /\ j.op = "Apply" /\ j.pc = "provide"
    BY <1>1, <2>2 DEF Jobs, Pcs
  <2>4. Sound(p, j) /\ j.pc = "provide"
    BY <1>1, <2>3, WithRoutes, Zenon DEF Sound
  <2>5. tunnel' \in BOOLEAN /\ (tunnel' => vps)
    BY <1>3 DEF Probed, Base, Types
  <2>6. Types'
    BY <1>1, <1>3, <2>5 DEF Base, Types, files
  <2>7. Takes(p, j)
    BY <1>1, <1>3, <2>4 DEF Takes, Unlocked
  <2> HIDE DEF j
  <2>8. QED
    BY <1>1, <2>1, <2>4, <2>6, <2>7, OneMoves
<1>4. QED
  BY <1>2, <1>3 DEF Resolve

LEMMA CommitBase ==
  ASSUME Base, NEW p \in Procs, Commit(p)
  PROVE  Base'
<1>1. /\ job[p].pc = "commit" /\ job[p] \in Jobs /\ job[p].pc \notin Unlocked
      /\ UNCHANGED <<config, disk, loaded, lkg, tunnel, vps, pidfile, reader, ops, faults>>
  BY AtPlace DEF Commit, Unlocked
<1>2. runtime' \in Runtimes
  BY <1>1 DEF Commit, Base, Types, Runtimes, Jobs, Reason
<1>3. CASE Finish(p, "pass")
  <2>1. Types'
    BY <1>1, <1>2, <1>3 DEF Base, Types, Finish
  <2>2. QED
    BY <1>1, <1>3, <2>1, Finishes
<1>4. CASE job[p].op = "Apply"
  <2>1. Goto(p, "stopdog") /\ mutex' = mutex
    BY <1>4 DEF Commit
  <2>2. Types'
    BY <1>1, <1>2, <2>1 DEF Base, Types
  <2>3. p \in Engines => "stopdog" \in Pcs /\ Place("stopdog", job[p].op)
    BY <1>4 DEF Place, Pcs
  <2>4. p \notin Dogs /\ "stopdog" \notin Unlocked
    BY <1>4, AtPlace DEF DogSound, Unlocked
  <2>5. QED
    BY <1>1, <2>1, <2>2, <2>3, <2>4, GoesOn
<1>5. CASE job[p].op = "StopTunnel"
  <2>1. Goto(p, "stoptunnel") /\ mutex' = mutex
    BY <1>5 DEF Commit
  <2>2. Types'
    BY <1>1, <1>2, <2>1 DEF Base, Types
  <2>3. p \in Engines => "stoptunnel" \in Pcs /\ Place("stoptunnel", job[p].op)
    BY <1>5 DEF Place, Pcs
  <2>4. p \notin Dogs /\ "stoptunnel" \notin Unlocked
    BY <1>5, AtPlace DEF DogSound, Unlocked
  <2>5. QED
    BY <1>1, <2>1, <2>2, <2>3, <2>4, GoesOn
<1>6. CASE job[p].op \notin {"Apply", "StopTunnel"}
  BY <1>3, <1>6 DEF Commit
<1>7. QED
  BY <1>4, <1>5, <1>6

LEMMA StopPuttyBase ==
  ASSUME Base, NEW p \in Engines, StopPutty(p)
  PROVE  Base'
<1>1. /\ job[p].pc = "stoptunnel" /\ tunnel' = FALSE /\ Finish(p, "pass") /\ p \in Procs
      /\ UNCHANGED <<files, loaded, vps, pidfile, reader, ops, faults>>
  BY DEF StopPutty, Procs
<1>2. Types'
  BY <1>1 DEF Base, Types, files, Finish
<1>3. QED
  BY <1>1, <1>2, Finishes DEF Unlocked

---------------------------------------------------------------------------
\* Base is kept: the engine's steps on the watchdog.

\* An engine under the mutex moves, and watchdogs are killed or started.
LEMMA Herds ==
  ASSUME Base, NEW p \in Engines, job[p].pc \notin Unlocked, mutex' = mutex, Types',
         NEW j, Sound(p, j), j.pc \notin Unlocked,
         job' = [q \in Procs |-> job'[q]], job'[p] = j,
         \A q \in Procs \ {p} : \/ job'[q] = job[q]
                                \/ q \in Dogs /\ job'[q] = DogJob("dead")
                                \/ q \in Dogs /\ job'[q] = DogJob("config")
  PROVE  Base'
<1>1. p \in Procs /\ mutex = p /\ p \notin Dogs
  BY Distinct DEF Base, Exclusion, Procs
<1>2. \A pc \in {"dead", "config"} : pc \in DogPcs /\ pc \in Unlocked
  BY DEF DogPcs, Unlocked
<1>3. \A q \in Procs \ {p} : Sound(q, job'[q]) /\ job'[q].pc \in Unlocked
  <2>1. TAKE q \in Procs \ {p}
  <2>2. CASE job'[q] = job[q]
    BY <1>1, <2>2 DEF Base, Exclusion, JobsSound
  <2>3. CASE q \in Dogs /\ job'[q] = DogJob("dead")
    BY <1>2, <2>3, DogJobSound, Distinct DEF Sound
  <2>4. CASE q \in Dogs /\ job'[q] = DogJob("config")
    BY <1>2, <2>4, DogJobSound, Distinct DEF Sound
  <2>5. QED
    BY <2>2, <2>3, <2>4
<1>4. \A q \in Procs : Sound(q, job'[q])
  BY <1>3
<1>5. JobsSound'
  <2>1. \A q \in Procs : job'[q] \in Jobs
    BY <1>4 DEF Sound
  <2>2. job' \in [Procs -> Jobs]
    BY <2>1
  <2>3. QED
    BY <1>4, <2>2 DEF JobsSound
<1>6. Exclusion'
  BY <1>1, <1>3 DEF Exclusion
<1>7. QED
  BY <1>5, <1>6 DEF Base

LEMMA StopWatchdogJobs ==
  ASSUME Base, NEW p \in Engines, StopWatchdog(p)
  PROVE  /\ p \in Procs /\ p \notin Dogs
         /\ job' = [q \in Procs |-> job'[q]]
         /\ job'[p] \in {[job[p] EXCEPT !.pc = "load"], [job[p] EXCEPT !.pc = "startdog"],
                         [job[p] EXCEPT !.pc = "verify"]}
         /\ job[p].op # "Apply" => job'[p] = [job[p] EXCEPT !.pc = "load"]
         /\ job[p].op = "Apply" => job'[p] # [job[p] EXCEPT !.pc = "load"]
         /\ job'[p].pc = "verify" => ~NeedsWatchdog(job[p].cfg, job[p].routes)
         /\ \A q \in Procs \ {p} :
              job'[q] = IF q \in Recorded THEN DogJob("dead") ELSE job[q]
         /\ Recorded \subseteq Dogs
<1> DEFINE next == IF job[p].op # "Apply" THEN "load"
                   ELSE IF NeedsWatchdog(job[p].cfg, job[p].routes) THEN "startdog" ELSE "verify"
<1>1. p \in Procs /\ p \notin Dogs /\ Recorded \subseteq Dogs /\ job[p] \in Jobs
  BY AtPlace DEF Procs, Recorded, Base, Types
<1>2. job' = [Killed(Recorded) EXCEPT ![p].pc = next]
  BY DEF StopWatchdog
<1>3. Killed(Recorded) = [q \in Procs |-> IF q \in Recorded THEN DogJob("dead") ELSE job[q]]
  BY DEF Killed
<1>4. Killed(Recorded)[p] = job[p]
  BY <1>1, <1>3
<1>5. job' = [q \in Procs |-> IF q = p THEN [job[p] EXCEPT !.pc = next] ELSE Killed(Recorded)[q]]
  BY <1>1, <1>2, <1>3, <1>4
<1>6. job'[p] = [job[p] EXCEPT !.pc = next]
      /\ (\A q \in Procs \ {p} : job'[q] = IF q \in Recorded THEN DogJob("dead") ELSE job[q])
      /\ job' = [q \in Procs |-> job'[q]]
  BY <1>1, <1>3, <1>5
<1>7. next \in {"load", "startdog", "verify"} /\ (job[p].op # "Apply" <=> next = "load")
  OBVIOUS
<1>8. [job[p] EXCEPT !.pc = next].pc = next /\ [job[p] EXCEPT !.pc = "load"].pc = "load"
  BY <1>1 DEF Jobs
<1>9. next = "verify" => ~NeedsWatchdog(job[p].cfg, job[p].routes)
  OBVIOUS
<1> HIDE DEF next
<1>10. QED
  BY <1>1, <1>6, <1>7, <1>8, <1>9

LEMMA StopWatchdogBase ==
  ASSUME Base, NEW p \in Engines, StopWatchdog(p)
  PROVE  Base'
<1>1. /\ job[p].pc = "stopdog" /\ pidfile' = None
      /\ UNCHANGED <<files, loaded, tunnel, vps, mutex, reader, ops, faults>>
  BY DEF StopWatchdog
<1>2. Types'
  BY <1>1 DEF Base, Types, files
<1>3. PICK pc \in {"load", "startdog", "verify"} :
        job'[p] = [job[p] EXCEPT !.pc = pc] /\ (pc # "load" => job[p].op = "Apply")
  BY StopWatchdogJobs
<1>4. job[p] \in Jobs /\ EngineSound(job[p]) /\ p \notin Dogs
  BY AtPlace DEF Procs
<1>5. Place(pc, job[p].op)
  BY <1>1, <1>3, <1>4 DEF EngineSound, Place
<1>6. Sound(p, job'[p]) /\ job'[p].pc \notin Unlocked
  BY <1>3, <1>4, <1>5 DEF Sound, EngineSound, Jobs, Pcs, Unlocked
<1>7. job[p].pc \notin Unlocked /\ mutex' = mutex
  BY <1>1 DEF Unlocked
<1>8. QED
  BY <1>2, <1>6, <1>7, StopWatchdogJobs, Herds

LEMMA StartWatchdogJobs ==
  ASSUME Base, NEW p \in Engines, StartWatchdog(p)
  PROVE  /\ p \in Procs /\ p \notin Dogs
         /\ job' = [q \in Procs |-> job'[q]]
         /\ \E d \in Dogs :
              /\ job'[p] = [job[p] EXCEPT !.pc = "pid", !.started = d]
              /\ \A q \in Procs \ {p} :
                   job'[q] = IF q = d THEN DogJob("config")
                             ELSE IF q \in LiveDogs THEN DogJob("dead") ELSE job[q]
<1>1. p \in Procs /\ p \notin Dogs /\ job[p] \in Jobs /\ Dogs \subseteq Procs
  BY AtPlace DEF Procs
<1>2. PICK d \in Dogs :
        job' = [Killed(LiveDogs) EXCEPT ![d] = DogJob("config"), ![p].pc = "pid", ![p].started = d]
  BY DEF StartWatchdog, Orphans
<1>3. Killed(LiveDogs) = [q \in Procs |-> IF q \in LiveDogs THEN DogJob("dead") ELSE job[q]]
  BY DEF Killed
<1>4. Killed(LiveDogs)[p] = job[p] /\ d # p /\ d \in Procs
  BY <1>1, <1>3 DEF LiveDogs
<1>5. job' = [q \in Procs |-> IF q = p THEN [job[p] EXCEPT !.pc = "pid", !.started = d]
                              ELSE IF q = d THEN DogJob("config") ELSE Killed(LiveDogs)[q]]
  BY <1>1, <1>2, <1>3, <1>4
<1>6. job'[p] = [job[p] EXCEPT !.pc = "pid", !.started = d]
      /\ (\A q \in Procs \ {p} :
             job'[q] = IF q = d THEN DogJob("config")
                       ELSE IF q \in LiveDogs THEN DogJob("dead") ELSE job[q])
      /\ job' = [q \in Procs |-> job'[q]]
  BY <1>1, <1>3, <1>4, <1>5
<1>7. QED
  BY <1>1, <1>6

LEMMA StartWatchdogBase ==
  ASSUME Base, NEW p \in Engines, StartWatchdog(p)
  PROVE  Base'
<1>1. /\ job[p].pc = "startdog" /\ pidfile' = None /\ job[p].op = "Apply"
      /\ UNCHANGED <<files, loaded, tunnel, vps, mutex, reader, ops, faults>>
  BY AtPlace DEF StartWatchdog, EngineSound, Place, Procs
<1>2. Types'
  BY <1>1 DEF Base, Types, files
<1>3. PICK d \in Dogs :
        /\ job'[p] = [job[p] EXCEPT !.pc = "pid", !.started = d]
        /\ \A q \in Procs \ {p} :
             job'[q] = IF q = d THEN DogJob("config")
                       ELSE IF q \in LiveDogs THEN DogJob("dead") ELSE job[q]
  BY StartWatchdogJobs
<1>4. job[p] \in Jobs /\ EngineSound(job[p]) /\ p \notin Dogs
  BY AtPlace DEF Procs
<1>5. Sound(p, job'[p]) /\ job'[p].pc \notin Unlocked
  BY <1>1, <1>3, <1>4 DEF Sound, EngineSound, Jobs, Pcs, Unlocked, Place
<1>6. job[p].pc \notin Unlocked /\ mutex' = mutex
  BY <1>1 DEF Unlocked
<1>7. \A q \in Procs \ {p} : \/ job'[q] = job[q]
                             \/ q \in Dogs /\ job'[q] = DogJob("dead")
                             \/ q \in Dogs /\ job'[q] = DogJob("config")
  BY <1>3 DEF LiveDogs
<1>8. QED
  BY <1>2, <1>5, <1>6, <1>7, StartWatchdogJobs, Herds

LEMMA WritePidBase ==
  ASSUME Base, NEW p \in Engines, WritePid(p)
  PROVE  Base'
<1>1. /\ job[p].pc = "pid" /\ pidfile' = job[p].started /\ Goto(p, "verify") /\ p \in Procs
      /\ UNCHANGED <<files, loaded, tunnel, vps, mutex, reader, ops, faults>>
  BY DEF WritePid, Procs
<1>2. job[p].started \in Dogs \cup {None} /\ EngineSound(job[p]) /\ p \notin Dogs
  BY <1>1, AtPlace DEF Jobs
<1>3. Types'
  BY <1>1, <1>2 DEF Base, Types, files
<1>4. "verify" \in Pcs /\ Place("verify", job[p].op)
  BY <1>1, <1>2 DEF EngineSound, Place, Pcs
<1>5. QED
  BY <1>1, <1>2, <1>3, <1>4, GoesOn DEF Unlocked

LEMMA WritePidFailsBase ==
  ASSUME Base, NEW p \in Engines, WritePidFails(p)
  PROVE  Base'
<1>1. /\ job[p].pc = "pid" /\ Fault("pidfile") /\ Finish(p, "pass") /\ p \in Procs
      /\ UNCHANGED <<files, loaded, tunnel, vps, pidfile, reader, ops>>
  BY DEF WritePidFails, Procs
<1>2. Types'
  BY <1>1, FaultCounts DEF Base, Types, files, Finish
<1>3. QED
  BY <1>1, <1>2, Finishes DEF Unlocked

LEMMA VerifyWatchdogBase ==
  ASSUME Base, NEW p \in Engines, VerifyWatchdog(p)
  PROVE  Base'
<1>1. /\ job[p].pc = "verify" /\ pidfile' \in {pidfile, None} /\ Finish(p, "pass") /\ p \in Procs
      /\ UNCHANGED <<files, loaded, tunnel, vps, reader, ops, faults>>
  BY DEF VerifyWatchdog, Procs
<1>2. Types'
  BY <1>1 DEF Base, Types, files, Finish
<1>3. QED
  BY <1>1, <1>2, Finishes DEF Unlocked

---------------------------------------------------------------------------
\* Base is kept: the watchdog outside the mutex, the readers, the environment.

LEMMA DogMoves ==
  ASSUME Base, NEW d \in Dogs, job[d].pc \in Unlocked, NEW j \in Jobs, DogSound(j),
         j.pc \in Unlocked, job' = [job EXCEPT ![d] = j], mutex' = mutex, Types'
  PROVE  Base'
<1>1. d \in Procs /\ Sound(d, j)
  BY AtPlace DEF Procs, Sound
<1>2. Takes(d, j)
  BY DEF Takes
<1>3. QED
  BY <1>1, <1>2, OneMoves

LEMMA DogReadsConfigBase ==
  ASSUME Base, NEW d \in Dogs, DogReadsConfig(d)
  PROVE  Base'
<1> DEFINE j == [job[d] EXCEPT !.cfg = config, !.pc = "runtime"]
<1>1. d \in Procs /\ job[d] \in Jobs /\ DogSound(job[d]) /\ config \in [Modules -> Modes]
  BY AtPlace DEF Procs, Base, Types
<1>2. /\ job[d].pc = "config" /\ job' = [job EXCEPT ![d] = j]
      /\ UNCHANGED <<files, loaded, tunnel, vps, mutex, pidfile, reader, ops, faults>>
  BY <1>1 DEF DogReadsConfig, Base, JobsSound
<1>3. j \in Jobs /\ DogSound(j) /\ j.pc \in Unlocked
  BY <1>1 DEF Jobs, DogSound, DogPcs, Unlocked
<1>4. Types'
  BY <1>2 DEF Base, Types, files
<1> HIDE DEF j
<1>5. QED
  BY <1>2, <1>3, <1>4, DogMoves DEF Unlocked

LEMMA DogReadsRuntimeBase ==
  ASSUME Base, NEW d \in Dogs, DogReadsRuntime(d)
  PROVE  Base'
<1>1. d \in Procs /\ job[d] \in Jobs /\ DogSound(job[d])
      /\ runtime.effective \in Routes /\ runtime.hash \in Routes \cup {None}
  BY AtPlace DEF Procs, Base, Types, Runtimes
<1>2. /\ job[d].pc = "runtime" /\ mutex' = mutex
      /\ UNCHANGED <<files, loaded, tunnel, vps, mutex, pidfile, reader, ops, faults>>
  BY DEF DogReadsRuntime
<1>3. Types'
  BY <1>2 DEF Base, Types, files
<1>4. CASE job' = [job EXCEPT ![d] = DogJob("exit")]
  <2>1. "exit" \in DogPcs /\ "exit" \in Unlocked
    BY DEF DogPcs, Unlocked
  <2>2. QED
    BY <1>2, <1>3, <1>4, <2>1, DogJobSound, DogMoves DEF Unlocked
<1>5. CASE job' = [job EXCEPT ![d].seen = runtime.effective, ![d].hash = runtime.hash,
                              ![d].pc = "repair"]
  <2> DEFINE j == [job[d] EXCEPT !.seen = runtime.effective, !.hash = runtime.hash, !.pc = "repair"]
  <2>1. job' = [job EXCEPT ![d] = j]
    BY <1>1, <1>5 DEF Base, JobsSound
  <2>2. j \in Jobs /\ DogSound(j) /\ j.pc \in Unlocked
    BY <1>1 DEF Jobs, DogSound, DogPcs, Unlocked
  <2> HIDE DEF j
  <2>3. QED
    BY <1>2, <1>3, <2>1, <2>2, DogMoves DEF Unlocked
<1>6. QED
  BY <1>4, <1>5 DEF DogReadsRuntime

LEMMA DogRepairsBase ==
  ASSUME Base, NEW d \in Dogs, DogRepairs(d)
  PROVE  Base'
<1> DEFINE j == [job[d] EXCEPT !.pc = "evaluate"]
<1>1. d \in Procs /\ job[d] \in Jobs /\ DogSound(job[d])
  BY AtPlace DEF Procs
<1>2. /\ job[d].pc = "repair" /\ job' = [job EXCEPT ![d] = j] /\ tunnel' \in {vps, tunnel}
      /\ UNCHANGED <<files, loaded, vps, mutex, pidfile, reader, ops, faults>>
  BY <1>1 DEF DogRepairs, Goto, Base, JobsSound
<1>3. j \in Jobs /\ DogSound(j) /\ j.pc \in Unlocked
  BY <1>1 DEF Jobs, DogSound, DogPcs, Unlocked
<1>4. Types'
  BY <1>2 DEF Base, Types, files
<1> HIDE DEF j
<1>5. QED
  BY <1>2, <1>3, <1>4, DogMoves DEF Unlocked

LEMMA DogEvaluatesBase ==
  ASSUME Base, NEW d \in Dogs, DogEvaluates(d)
  PROVE  Base'
<1>1. d \in Procs /\ job[d] \in Jobs /\ DogSound(job[d])
  BY AtPlace DEF Procs
<1>2. PICK r \in Evaluations(job[d].cfg, job[d].seen) :
        /\ tunnel' \in IF \E m \in r \ job[d].seen : job[d].cfg[m] = "AUTO" THEN {TRUE}
                       ELSE IF \E m \in Modules : job[d].cfg[m] = "AUTO" THEN {tunnel, vps}
                       ELSE {tunnel}
        /\ \/ job' = [job EXCEPT ![d].routes = r, ![d].pc = "lock"]
           \/ job' = [job EXCEPT ![d] = DogJob("config")]
  BY DEF DogEvaluates
<1>3. /\ job[d].pc = "evaluate"
      /\ UNCHANGED <<files, loaded, vps, mutex, pidfile, reader, ops, faults>>
  BY DEF DogEvaluates
<1>4. r \in Routes
  BY DEF Evaluations, Routes
<1>5. (\E m \in r \ job[d].seen : job[d].cfg[m] = "AUTO") => vps
  BY DEF Evaluations
<1>6. tunnel' \in BOOLEAN /\ (tunnel' => vps)
  BY <1>2, <1>5 DEF Base, Types
<1>7. Types'
  BY <1>3, <1>6 DEF Base, Types, files
<1>8. CASE job' = [job EXCEPT ![d].routes = r, ![d].pc = "lock"]
  <2> DEFINE j == [job[d] EXCEPT !.routes = r, !.pc = "lock"]
  <2>1. job' = [job EXCEPT ![d] = j]
    BY <1>1, <1>8 DEF Base, JobsSound
  <2>2. j \in Jobs /\ DogSound(j) /\ j.pc \in Unlocked
    BY <1>1, <1>4 DEF Jobs, DogSound, DogPcs, Unlocked
  <2> HIDE DEF j
  <2>3. QED
    BY <1>3, <1>7, <2>1, <2>2, DogMoves DEF Unlocked
<1>9. CASE job' = [job EXCEPT ![d] = DogJob("config")]
  <2>1. "config" \in DogPcs /\ "config" \in Unlocked
    BY DEF DogPcs, Unlocked
  <2>2. QED
    BY <1>3, <1>7, <1>9, <2>1, DogJobSound, DogMoves DEF Unlocked
<1>10. QED
  BY <1>2, <1>8, <1>9

LEMMA DogExitsBase ==
  ASSUME Base, NEW d \in Dogs, DogExits(d)
  PROVE  Base'
<1>1. /\ job[d].pc = "exit" /\ pidfile' = None /\ job' = [job EXCEPT ![d] = DogJob("dead")]
      /\ UNCHANGED <<files, loaded, tunnel, vps, mutex, reader, ops, faults>>
  BY DEF DogExits
<1>2. Types'
  BY <1>1 DEF Base, Types, files
<1>3. "dead" \in DogPcs /\ "dead" \in Unlocked
  BY DEF DogPcs, Unlocked
<1>4. QED
  BY <1>1, <1>2, <1>3, DogJobSound, DogMoves DEF Unlocked

LEMMA ReaderTakesPidBase ==
  ASSUME Base, ReaderTakesPid
  PROVE  Base'
<1>1. reader' = pidfile
      /\ UNCHANGED <<files, loaded, tunnel, vps, mutex, pidfile, job, ops, faults>>
  BY DEF ReaderTakesPid
<1>2. Types'
  BY <1>1 DEF Base, Types, files
<1>3. QED
  BY <1>1, <1>2, NobodyMoves

LEMMA ReaderLooksUpProcessBase ==
  ASSUME Base, ReaderLooksUpProcess
  PROVE  Base'
<1>1. reader' = None /\ pidfile' \in {pidfile, None}
      /\ UNCHANGED <<files, loaded, tunnel, vps, mutex, job, ops, faults>>
  BY DEF ReaderLooksUpProcess
<1>2. Types'
  BY <1>1 DEF Base, Types, files
<1>3. QED
  BY <1>1, <1>2, NobodyMoves

LEMMA EnvironmentBase ==
  ASSUME Base, TunnelDrops \/ VpsGoesDown \/ VpsComesBack \/ ProxifierStops
  PROVE  Base'
<1>0. {tunnel', vps'} \subseteq BOOLEAN /\ (tunnel' => vps')
  <2>1. tunnel \in BOOLEAN /\ vps \in BOOLEAN /\ (tunnel => vps)
    BY DEF Base, Types
  <2>2. CASE tunnel' = FALSE /\ (vps' = vps \/ vps' = FALSE)
    BY <2>1, <2>2
  <2>3. CASE tunnel' = tunnel /\ (vps' = vps \/ vps' = TRUE)
    BY <2>1, <2>3
  <2>4. QED
    BY <2>2, <2>3 DEF TunnelDrops, VpsGoesDown, VpsComesBack, ProxifierStops
<1>1. /\ loaded' \in {loaded, None}
      /\ UNCHANGED <<files, mutex, pidfile, reader, job, ops>>
  BY DEF TunnelDrops, VpsGoesDown, VpsComesBack, ProxifierStops
<1>2. faults' \in 0..MaxFaults
  <2>1. TunnelDrops \/ VpsGoesDown \/ ProxifierStops => \E kind : Fault(kind)
    BY DEF TunnelDrops, VpsGoesDown, ProxifierStops
  <2>2. VpsComesBack => faults' = faults
    BY DEF VpsComesBack
  <2>3. QED
    BY <2>1, <2>2, FaultCounts DEF Base, Types
<1>3. Types'
  BY <1>0, <1>1, <1>2 DEF Base, Types, files
<1>4. QED
  BY <1>1, <1>3, NobodyMoves

---------------------------------------------------------------------------
\* Mutual exclusion and types, for every value of the constants.

LEMMA InitBase == Init => Base
<1> SUFFICES ASSUME Init PROVE Base
  OBVIOUS
<1>1. Types
  <2>1. 0 \in 0..MaxOps /\ 0 \in 0..MaxFaults
    BY Distinct
  <2>2. runtime \in Runtimes
    BY DEF Init, Runtimes, Routes, AllDirect
  <2>3. {tunnel, vps} \subseteq BOOLEAN /\ (tunnel => vps)
    BY DEF Init
  <2>4. QED
    BY <2>1, <2>2, <2>3 DEF Init, Types
<1>2. \A p \in Procs : Sound(p, job[p]) /\ job[p].pc \in {"idle", "dead"}
  <2>1. TAKE p \in Procs
  <2>2. CASE p \in Engines
    <3>1. job[p] = IdleJob("none", "none") /\ p \notin Dogs
      BY <2>2, Distinct DEF Init
    <3>2. QED
      BY <2>2, <3>1, IdleSound DEF Sound
  <2>3. CASE p \notin Engines
    <3>1. job[p] = DogJob("dead") /\ "dead" \in DogPcs
      BY <2>3 DEF Init, DogPcs
    <3>2. QED
      BY <2>3, <3>1, DogJobSound DEF Sound
  <2>4. QED
    BY <2>2, <2>3
<1>3. JobsSound
  <2>1. job = [p \in Procs |-> job[p]]
    BY DEF Init
  <2>2. \A p \in Procs : job[p] \in Jobs
    BY <1>2 DEF Sound
  <2>3. job \in [Procs -> Jobs]
    BY <2>1, <2>2
  <2>4. QED
    BY <1>2, <2>3 DEF JobsSound
<1>4. Exclusion
  BY <1>2, Distinct DEF Init, Exclusion, Unlocked
<1>5. QED
  BY <1>1, <1>3, <1>4 DEF Base

LEMMA StepBase ==
  ASSUME Base, NEW p \in Procs, Step(p)
  PROVE  Base'
  BY AcquireBase, LockTimeoutBase, ProvideBase, WriteProfileBase, LoadBase,
     LoadUnverifiedBase, CommitBase DEF Step

LEMMA EngineStepBase ==
  ASSUME Base, NEW p \in Engines, EngineStep(p)
  PROVE  Base'
<1>1. p \in Procs
  BY DEF Procs
<1>2. QED
  BY <1>1, StepBase, ReadForApplyBase, ReadForRestartBase, ResolveBase, StopPuttyBase,
     StopWatchdogBase, StartWatchdogBase, WritePidBase, VerifyWatchdogBase DEF EngineStep

LEMMA DogStepBase ==
  ASSUME Base, NEW d \in Dogs, DogStep(d)
  PROVE  Base'
<1>1. d \in Procs
  BY DEF Procs
<1>2. QED
  BY <1>1, StepBase, DogReadsConfigBase, DogReadsRuntimeBase, DogRepairsBase,
     DogEvaluatesBase, DogExitsBase DEF DogStep

\* An engine action starts for the user, at the logon, or for the recovery.
LEMMA HowActionsStart ==
  ASSUME (\E op \in EngineActions : UserStarts(op)) \/ AutoStart \/ RuntimeRecovery
  PROVE  \E p \in Engines, op \in EngineActions, by \in {"user", "logon", "recovery"} :
           /\ Start(p, op, by) /\ (by = "recovery" => Recovery)
           /\ by # "recovery" => op \in Operations
<1>1. /\ "foreground" \in Engines /\ "autostart" \in Engines /\ "Apply" \in EngineActions
  BY DEF Engines, EngineActions
<1>2. QED
  BY <1>1 DEF UserStarts, AutoStart, RuntimeRecovery

LEMMA NextBase == Base /\ [Next]_vars => Base'
<1> SUFFICES ASSUME Base, [Next]_vars PROVE Base'
  OBVIOUS
<1>1. CASE (\E op \in EngineActions : UserStarts(op)) \/ AutoStart \/ RuntimeRecovery
  BY <1>1, HowActionsStart, StartBase
<1>2. CASE \E p \in Engines : EngineStep(p) \/ WritePidFails(p)
  BY <1>2, EngineStepBase, WritePidFailsBase
<1>3. CASE \E d \in Dogs : DogStep(d)
  BY <1>3, DogStepBase
<1>4. CASE \E p \in Procs : LoadFails(p) \/ Crash(p)
  BY <1>4, LoadFailsBase, CrashBase
<1>5. CASE SaveConfig \/ ReaderTakesPid \/ ReaderLooksUpProcess
  BY <1>5, SaveConfigBase, ReaderTakesPidBase, ReaderLooksUpProcessBase
<1>6. CASE TunnelDrops \/ VpsGoesDown \/ VpsComesBack \/ ProxifierStops
  BY <1>6, EnvironmentBase
<1>7. CASE UNCHANGED vars
  <2>1. Types' /\ UNCHANGED <<job, mutex>>
    BY <1>7 DEF vars, files, Base, Types
  <2>2. QED
    BY <2>1, NobodyMoves
<1>8. QED
  BY <1>1, <1>2, <1>3, <1>4, <1>5, <1>6, <1>7 DEF Next, Environment

LEMMA AlwaysBase == Spec => []Base
  BY InitBase, NextBase, PTL DEF Spec

LEMMA BaseIsTyped == Base => TypeOK
<1> SUFFICES ASSUME Base PROVE TypeOK
  OBVIOUS
<1>1. \A p \in Procs : job[p].pc \in IF p \in Engines THEN Pcs ELSE DogPcs
  BY AtPlace DEF EngineSound, DogSound, Procs
<1>2. QED
  BY <1>1 DEF Base, Types, Runtimes, Exclusion, TypeOK

\* Types, and mutual exclusion: a process is inside Invoke-WithMutationLock
\* exactly while it owns the mutex, whatever crashes, times out or is killed.
THEOREM TypeCorrect == Spec => []TypeOK
  BY AlwaysBase, BaseIsTyped, PTL

---------------------------------------------------------------------------
\* At most one watchdog.

\* What a step changes in the jobs of the processes that do not take it.
LEMMA Others ==
  ASSUME Base, [Next]_vars
  PROVE  \/ job' = job
         \/ \E p \in Procs : job[p].pc # "dead" /\ \A q \in Procs \ {p} : job'[q] = job[q]
         \/ \E p \in Engines : StopWatchdog(p) \/ StartWatchdog(p)
<1>1. job \in [Procs -> Jobs] /\ Engines \subseteq Procs /\ Dogs \subseteq Procs
  BY DEF Base, JobsSound, Procs
<1>2. CASE (\E op \in EngineActions : UserStarts(op)) \/ AutoStart \/ RuntimeRecovery
  BY <1>1, <1>2, HowActionsStart DEF Start
<1>3. ASSUME NEW p \in Procs, Step(p) \/ LoadFails(p) \/ Crash(p)
      PROVE  job[p].pc # "dead" /\ \A q \in Procs \ {p} : job'[q] = job[q]
  <2>1. CASE Acquire(p) \/ LockTimeout(p)
    BY <1>1, <2>1 DEF Acquire, LockTimeout, Goto
  <2>2. CASE Provide(p) \/ WriteProfile(p) \/ Commit(p)
    BY <1>1, <2>2 DEF Provide, WriteProfile, Commit, Goto, Finish
  <2>3. CASE Load(p) \/ LoadUnverified(p) \/ LoadFails(p)
    BY <1>1, <2>3 DEF Load, LoadUnverified, LoadFails, FailedLoad, Goto, Finish
  <2>4. CASE Crash(p)
    BY <1>1, <2>4 DEF Crash
  <2>5. QED
    BY <1>3, <2>1, <2>2, <2>3, <2>4 DEF Step
<1>4. ASSUME NEW p \in Engines,
             ReadForApply(p) \/ ReadForRestart(p) \/ Resolve(p) \/ StopPutty(p) \/ WritePid(p)
               \/ VerifyWatchdog(p) \/ WritePidFails(p)
      PROVE  job[p].pc # "dead" /\ \A q \in Procs \ {p} : job'[q] = job[q]
  BY <1>1, <1>4 DEF ReadForApply, ReadForRestart, Resolve, StopPutty, WritePid,
                    VerifyWatchdog, WritePidFails, Goto, Finish
<1>5. ASSUME NEW d \in Dogs,
             DogReadsConfig(d) \/ DogReadsRuntime(d) \/ DogRepairs(d) \/ DogEvaluates(d)
               \/ DogExits(d)
      PROVE  job[d].pc # "dead" /\ \A q \in Procs \ {d} : job'[q] = job[q]
  BY <1>1, <1>5 DEF DogReadsConfig, DogReadsRuntime, DogRepairs, DogEvaluates, DogExits, Goto
<1>6. CASE SaveConfig \/ ReaderTakesPid \/ ReaderLooksUpProcess \/ TunnelDrops \/ VpsGoesDown
             \/ VpsComesBack \/ ProxifierStops \/ UNCHANGED vars
  BY <1>6 DEF SaveConfig, ReaderTakesPid, ReaderLooksUpProcess, TunnelDrops, VpsGoesDown,
              VpsComesBack, ProxifierStops, vars
<1>7. QED
  BY <1>1, <1>2, <1>3, <1>4, <1>5, <1>6 DEF Next, Environment, EngineStep, DogStep

OneDog == \A c, d \in LiveDogs : c = d

LEMMA KeepsOneDog == Base /\ OneDog /\ [Next]_vars => OneDog'
<1> SUFFICES ASSUME Base, OneDog, [Next]_vars PROVE OneDog'
  OBVIOUS
<1>1. Dogs \subseteq Procs /\ DogJob("dead").pc = "dead"
  <2>1. "dead" \in DogPcs
    BY DEF DogPcs
  <2>2. QED
    BY <2>1, DogJobSound DEF Procs
<1>2. CASE LiveDogs' \subseteq LiveDogs
  BY <1>2 DEF OneDog
<1>3. CASE job' = job
  BY <1>2, <1>3 DEF LiveDogs, Alive
<1>4. ASSUME NEW p \in Procs, job[p].pc # "dead", \A q \in Procs \ {p} : job'[q] = job[q]
      PROVE  OneDog'
  BY <1>1, <1>2, <1>4 DEF LiveDogs, Alive
<1>5. ASSUME NEW p \in Engines, StopWatchdog(p)
      PROVE  OneDog'
  BY <1>1, <1>2, <1>5, StopWatchdogJobs DEF LiveDogs, Alive
<1>6. ASSUME NEW p \in Engines, StartWatchdog(p)
      PROVE  OneDog'
  <2>1. PICK d \in Dogs : \A q \in Dogs \ {d} :
          job'[q] = IF q \in LiveDogs THEN DogJob("dead") ELSE job[q]
    BY <1>1, <1>6, StartWatchdogJobs
  <2>2. LiveDogs' \subseteq {d}
    BY <1>1, <2>1 DEF LiveDogs, Alive
  <2>3. QED
    BY <2>2 DEF OneDog
<1>7. QED
  BY <1>3, <1>4, <1>5, <1>6, Others

LEMMA OneDogIsOne == OneDog => AtMostOneWatchdog
<1> SUFFICES ASSUME OneDog PROVE Cardinality(LiveDogs) <= 1
  BY DEF AtMostOneWatchdog
<1>1. CASE LiveDogs = {}
  BY <1>1, FS_EmptySet
<1>2. CASE LiveDogs # {}
  <2>1. PICK d \in LiveDogs : TRUE
    BY <1>2
  <2>2. LiveDogs = {d}
    BY <2>1 DEF OneDog
  <2>3. QED
    BY <2>2, FS_Singleton
<1>3. QED
  BY <1>1, <1>2

\* However Apply, Direct, recovery, crashes, failed pid files and status
\* readers interleave, at most one watchdog runs.
THEOREM OneWatchdog == Spec => []AtMostOneWatchdog
<1>1. Init => OneDog
  <2> SUFFICES ASSUME Init PROVE OneDog
    OBVIOUS
  <2>1. \A d \in Dogs : d \in Procs /\ d \notin Engines
    BY Distinct DEF Procs
  <2>2. \A d \in Dogs : job[d].pc = "dead"
    BY <2>1, DogJobSound DEF Init, DogPcs
  <2>3. QED
    BY <2>2 DEF OneDog, LiveDogs, Alive
<1>2. QED
  BY <1>1, AlwaysBase, KeepsOneDog, OneDogIsOne, PTL DEF Spec

---------------------------------------------------------------------------
\* What an operation under the mutex has brought about.

Applying == {"provide", "write", "load", "resolve", "commit", "stopdog", "startdog", "pid", "verify"}
Recording == {"stopdog", "startdog", "pid", "verify"}

\* An Apply has lifted the override and works for the saved configuration,
\* and what it has committed is enforced.
ApplyFacts(j) ==
  j.op = "Apply" =>
    /\ j.pc \in Applying => runtime.override = "NONE" /\ j.cfg = config
    /\ j.pc = "commit" => loaded \in {j.routes, None}
    /\ j.pc \in Recording => runtime.effective = j.routes /\ loaded \in {j.routes, None}

\* A RestartTunnel reloads the routes in effect, and only when some use the VPS.
RestartFacts(j) ==
  j.op = "RestartTunnel" =>
    /\ j.pc \in {"provide", "write", "load", "commit"} => j.routes = runtime.effective
    /\ j.pc \in {"write", "load", "commit"} => AnyVps(j.routes)

\* Stop-Tunnel, which discards the result of its load, is not used or no load fails.
NoBlindStop == "load" \notin FaultKinds \/ "StopTunnel" \notin Operations

\* Direct and StopTunnel commit what was loaded.
DirectFacts(j) ==
  (NoBlindStop /\ j.op \in {"Direct", "StopTunnel"} /\ j.pc = "commit") =>
    loaded \in {AllDirect, None} /\ lkg = AllDirect

\* Only the operations in use are run, and the recovery only when it is on.
Started(j) ==
  /\ j.op \in Operations \cup {"none", "Apply"}
  /\ j.by = "recovery" => Recovery

Facts(j) == ApplyFacts(j) /\ RestartFacts(j) /\ DirectFacts(j) /\ Started(j)

EngineFacts == \A p \in Engines : Facts(job[p])

\* What a process carries along.
Same(p) == /\ job'[p].op = job[p].op /\ job'[p].by = job[p].by /\ job'[p].cfg = job[p].cfg
           /\ job'[p].routes = job[p].routes /\ job'[p].started = job[p].started
           /\ job'[p].final = job[p].final

LEMMA GotoKeeps ==
  ASSUME Base, NEW p \in Procs, NEW pc, Goto(p, pc)
  PROVE  job'[p].pc = pc /\ Same(p)
<1>1. job \in [Procs -> Jobs] /\ job[p] \in Jobs
  BY DEF Base, JobsSound
<1>2. job'[p] = [job[p] EXCEPT !.pc = pc]
  BY <1>1 DEF Goto
<1>3. QED
  BY <1>1, <1>2 DEF Same, Jobs

\* What a step may write.
LEMMA Writes ==
  ASSUME [Next]_vars
  PROVE  \/ UNCHANGED <<config, runtime, lkg>> /\ loaded' \in {loaded, None}
         \/ SaveConfig
         \/ \E p \in Engines : ReadForApply(p)
         \/ \E p \in Procs : Load(p) \/ LoadUnverified(p) \/ LoadFails(p) \/ Commit(p)
<1>1. Engines \subseteq Procs /\ Dogs \subseteq Procs
  BY DEF Procs
<1>2. CASE (\E op \in EngineActions : UserStarts(op)) \/ AutoStart \/ RuntimeRecovery
  BY <1>2, HowActionsStart DEF Start, files
<1>3. ASSUME NEW p \in Procs, Acquire(p) \/ LockTimeout(p) \/ Provide(p) \/ WriteProfile(p) \/ Crash(p)
      PROVE  UNCHANGED <<config, runtime, lkg>> /\ loaded' \in {loaded, None}
  BY <1>3 DEF Acquire, LockTimeout, Provide, WriteProfile, Crash, files
<1>4. ASSUME NEW p \in Engines,
             ReadForRestart(p) \/ Resolve(p) \/ StopPutty(p) \/ StopWatchdog(p)
               \/ StartWatchdog(p) \/ WritePid(p) \/ VerifyWatchdog(p) \/ WritePidFails(p)
      PROVE  UNCHANGED <<config, runtime, lkg>> /\ loaded' \in {loaded, None}
  BY <1>4 DEF ReadForRestart, Resolve, StopPutty, StopWatchdog, StartWatchdog, WritePid,
              VerifyWatchdog, WritePidFails, files
<1>5. ASSUME NEW d \in Dogs,
             DogReadsConfig(d) \/ DogReadsRuntime(d) \/ DogRepairs(d) \/ DogEvaluates(d) \/ DogExits(d)
      PROVE  UNCHANGED <<config, runtime, lkg>> /\ loaded' \in {loaded, None}
  BY <1>5 DEF DogReadsConfig, DogReadsRuntime, DogRepairs, DogEvaluates, DogExits, files
<1>6. CASE ReaderTakesPid \/ ReaderLooksUpProcess \/ TunnelDrops \/ VpsGoesDown
             \/ VpsComesBack \/ ProxifierStops \/ UNCHANGED vars
  BY <1>6 DEF ReaderTakesPid, ReaderLooksUpProcess, TunnelDrops, VpsGoesDown,
              VpsComesBack, ProxifierStops, vars, files
<1>7. QED
  BY <1>1, <1>2, <1>3, <1>4, <1>5, <1>6 DEF Next, Environment, EngineStep, DogStep, Step

\* Nobody writes while another process owns the mutex.
LEMMA NobodyElseWrites ==
  ASSUME Base, [Next]_vars, NEW p \in Procs, job[p].pc \notin Unlocked, job'[p] = job[p]
  PROVE  UNCHANGED <<config, runtime, lkg>> /\ loaded' \in {loaded, None}
<1>1. mutex = p /\ p # None
  BY Distinct DEF Base, Exclusion
<1>2. \A q \in Procs : job[q].pc \notin Unlocked => q = p
  BY <1>1 DEF Base, Exclusion
<1>3. ~SaveConfig
  BY <1>1 DEF SaveConfig
<1>4. ASSUME NEW q \in Engines, ReadForApply(q)
      PROVE  FALSE
  <2>1. q \in Procs /\ job[q].pc = "read"
    BY <1>4 DEF ReadForApply, Procs
  <2>2. q = p
    BY <1>2, <2>1 DEF Unlocked
  <2>3. job'[q].pc = "provide"
    BY <1>4, <2>1 DEF ReadForApply, Base, JobsSound, Jobs
  <2>4. QED
    BY <2>1, <2>2, <2>3
<1>5. ASSUME NEW q \in Procs, Load(q) \/ LoadUnverified(q) \/ LoadFails(q) \/ Commit(q)
      PROVE  FALSE
  <2>1. job[q].pc \in {"load", "commit"}
    BY <1>5 DEF Load, LoadUnverified, LoadFails, Commit
  <2>2. q = p
    BY <1>2, <2>1 DEF Unlocked
  <2>3. job'[q].pc # job[q].pc
    <3>1. \A pc : Goto(q, pc) => job'[q].pc = pc
      BY GotoKeeps
    <3>2. \A res \in {"pass", "fail"} : Finish(q, res) => job'[q].pc \in {"idle", "config"}
      BY RestSound DEF Base, JobsSound, Finish
    <3>3. CASE Load(q)
      BY <3>1, <3>3 DEF Load, AfterLoad
    <3>4. CASE LoadUnverified(q) \/ LoadFails(q)
      BY <3>1, <3>2, <3>4 DEF LoadUnverified, LoadFails, FailedLoad
    <3>5. CASE Commit(q)
      BY <3>1, <3>2, <3>5 DEF Commit
    <3>6. QED
      BY <1>5, <3>3, <3>4, <3>5
  <2>4. QED
    BY <2>2, <2>3
<1>6. QED
  BY <1>3, <1>4, <1>5, Writes
---------------------------------------------------------------------------
\* The facts are kept.

\* Before an operation has read anything there is nothing to say about it.
LEMMA NothingYet ==
  ASSUME NEW p \in Engines, job'[p].pc \in {"idle", "lock", "read"}, Started(job[p])'
  PROVE  Facts(job[p])'
  BY DEF Facts, ApplyFacts, RestartFacts, DirectFacts, Applying, Recording

LEMMA StartedStays ==
  ASSUME NEW p \in Engines, Facts(job[p]), Same(p)
  PROVE  Started(job[p])'
  BY DEF Facts, Started, Same

\* An operation that is over.
LEMMA OverFacts ==
  ASSUME Base, NEW p \in Engines, Facts(job[p]), NEW res, job'[p] = IdleJob(job[p].op, res)
  PROVE  Facts(job[p])'
<1>1. job'[p].pc = "idle" /\ job'[p].op = job[p].op /\ job'[p].by = "none"
  BY DEF IdleJob
<1>2. Started(job[p])'
  BY <1>1 DEF Facts, Started
<1>3. QED
  BY <1>1, <1>2, NothingYet

LEMMA FinishFacts ==
  ASSUME Base, NEW p \in Engines, Facts(job[p]), NEW res, Finish(p, res)
  PROVE  Facts(job[p])'
<1>1. job'[p] = IdleJob(job[p].op, res)
  BY DEF Finish, Rest, Base, JobsSound, Procs
<1>2. QED
  BY <1>1, OverFacts

\* An operation that goes on to a place about which there is less to say.
LEMMA OnwardFacts ==
  ASSUME Base, NEW p \in Engines, Facts(job[p]), NEW pc, Goto(p, pc),
         UNCHANGED <<config, runtime, loaded, lkg>>,
         pc \in Applying => job[p].pc \in Applying \/ job[p].op # "Apply",
         pc \in Recording => job[p].pc \in Recording \/ job[p].op # "Apply",
         pc \in {"write", "load", "commit"} =>
           \/ job[p].pc \in {"write", "load", "commit"} \/ job[p].op # "RestartTunnel"
           \/ job[p].pc = "provide" /\ AnyVps(job[p].routes),
         pc # "provide", pc # "commit"
  PROVE  Facts(job[p])'
<1>1. job'[p].pc = pc /\ Same(p)
  BY GotoKeeps DEF Procs
<1>2. Started(job[p])'
  BY <1>1, StartedStays
<1>3. ApplyFacts(job[p])'
  BY <1>1 DEF Facts, ApplyFacts, Same
<1>4. RestartFacts(job[p])'
  BY <1>1 DEF Facts, RestartFacts, Same, AnyVps
<1>5. DirectFacts(job[p])'
  BY <1>1 DEF DirectFacts
<1>6. QED
  BY <1>2, <1>3, <1>4, <1>5 DEF Facts

LEMMA StepFacts ==
  ASSUME Base, NEW p \in Engines, Facts(job[p]), Step(p) \/ LoadFails(p) \/ Crash(p)
  PROVE  Facts(job[p])'
<1>1. p \in Procs /\ job[p] \in Jobs /\ EngineSound(job[p])
  BY AtPlace DEF Procs
<1>2. CASE Acquire(p)
  <2>1. PICK pc \in {"stopdog", "read", "provide"} :
          /\ Goto(p, pc) /\ UNCHANGED <<config, runtime, loaded, lkg>>
          /\ pc = "stopdog" => job[p].op \in {"Direct", "StopTunnel"}
          /\ pc = "provide" => job[p].op = "Watchdog"
    BY <1>2 DEF Acquire, files
  <2>2. pc # "provide"
    BY <1>1, <2>1 DEF EngineSound, EngineActions
  <2>3. pc \in Applying => job[p].op # "Apply"
    BY <2>1 DEF Applying
  <2>4. QED
    BY <2>1, <2>2, <2>3, OnwardFacts DEF Recording
<1>3. CASE LockTimeout(p)
  BY <1>1, <1>3, OverFacts DEF LockTimeout, Rest, Base, JobsSound
<1>4. CASE Crash(p)
  BY <1>1, <1>4, OverFacts DEF Crash, Base, JobsSound
<1>5. CASE Provide(p)
  <2>1. CASE Goto(p, "write")
    <3>1. /\ UNCHANGED <<config, runtime, loaded, lkg>> /\ job[p].pc = "provide"
      BY <1>5 DEF Provide, files
    <3>2. AnyVps(job[p].routes) \/ job[p].op # "RestartTunnel"
      <4>1. CASE Finish(p, "pass") \/ Finish(p, "fail")
        <5>1. job'[p].pc = "idle"
          BY <1>1, <4>1, RestSound DEF Finish, Base, JobsSound
        <5>2. job'[p].pc = "write"
          BY <1>1, <2>1, GotoKeeps
        <5>3. QED
          BY <5>1, <5>2
      <4>2. QED
        BY <1>5, <4>1 DEF Provide
    <3>3. QED
      BY <2>1, <3>1, <3>2, OnwardFacts DEF Applying, Recording
  <2>2. CASE Finish(p, "pass") \/ Finish(p, "fail")
    BY <2>2, FinishFacts
  <2>3. QED
    BY <1>5, <2>1, <2>2 DEF Provide
<1>6. CASE WriteProfile(p)
  BY <1>6, OnwardFacts DEF WriteProfile, Applying, Recording
<1>7. CASE Load(p)
  <2>1. /\ job[p].pc = "load" /\ Goto(p, AfterLoad(p)) /\ UNCHANGED <<config, runtime>>
        /\ loaded' = job[p].routes /\ lkg' = job[p].routes
    BY <1>7 DEF Load
  <2>2. job'[p].pc = AfterLoad(p) /\ Same(p)
    BY <1>1, <2>1, GotoKeeps
  <2>3. ApplyFacts(job[p])'
    BY <2>1, <2>2 DEF Facts, ApplyFacts, Same, AfterLoad, Applying, Recording
  <2>4. RestartFacts(job[p])'
    BY <2>1, <2>2 DEF Facts, RestartFacts, Same, AnyVps
  <2>5. DirectFacts(job[p])'
    BY <1>1, <2>1, <2>2 DEF DirectFacts, Same, EngineSound
  <2>6. QED
    BY <2>2, <2>3, <2>4, <2>5, StartedStays DEF Facts
<1>8. CASE LoadUnverified(p)
  <2>1. /\ job[p].pc = "load" /\ FailedLoad(p) /\ AnyVps(job[p].routes)
    BY <1>8 DEF LoadUnverified
  <2>2. job[p].op # "StopTunnel"
    BY <1>1, <2>1 DEF EngineSound, AnyVps
  <2>3. QED
    BY <2>1, <2>2, FinishFacts DEF FailedLoad
<1>9. CASE LoadFails(p)
  <2>1. /\ job[p].pc = "load" /\ FailedLoad(p) /\ "load" \in FaultKinds
    BY <1>9 DEF LoadFails, Fault
  <2>2. CASE job[p].op # "StopTunnel"
    BY <2>1, <2>2, FinishFacts DEF FailedLoad
  <2>3. CASE job[p].op = "StopTunnel"
    <3>1. job'[p].pc = "commit" /\ Same(p)
      BY <1>1, <2>1, <2>3, GotoKeeps DEF FailedLoad
    <3>2. ~NoBlindStop
      BY <2>1, <2>3 DEF Facts, Started, NoBlindStop
    <3>3. QED
      BY <2>3, <3>1, <3>2, StartedStays DEF Facts, ApplyFacts, RestartFacts, DirectFacts, Same
  <2>4. QED
    BY <2>2, <2>3
<1>10. CASE Commit(p)
  <2>1. CASE job[p].op = "Apply"
    <3>1. /\ job[p].pc = "commit" /\ Goto(p, "stopdog") /\ UNCHANGED <<config, loaded, lkg>>
          /\ runtime'.override = "NONE" /\ runtime'.effective = job[p].routes
      BY <1>10, <2>1 DEF Commit
    <3>2. job'[p].pc = "stopdog" /\ Same(p)
      BY <1>1, <3>1, GotoKeeps
    <3>3. ApplyFacts(job[p])'
      BY <2>1, <3>1, <3>2 DEF Facts, ApplyFacts, Same, Applying, Recording
    <3>4. QED
      BY <2>1, <3>2, <3>3, StartedStays DEF Facts, RestartFacts, DirectFacts, Same
  <2>2. CASE job[p].op = "StopTunnel"
    <3>1. Goto(p, "stoptunnel")
      BY <1>10, <2>2 DEF Commit
    <3>2. job'[p].pc = "stoptunnel" /\ Same(p)
      BY <1>1, <3>1, GotoKeeps
    <3>3. QED
      BY <2>2, <3>2, StartedStays DEF Facts, ApplyFacts, RestartFacts, DirectFacts, Same
  <2>3. CASE job[p].op \notin {"Apply", "StopTunnel"}
    BY <1>10, <2>3, FinishFacts DEF Commit
  <2>4. QED
    BY <2>1, <2>2, <2>3
<1>11. QED
  BY <1>2, <1>3, <1>4, <1>5, <1>6, <1>7, <1>8, <1>9, <1>10 DEF Step

LEMMA EngineStepFacts ==
  ASSUME Base, NEW p \in Engines, Facts(job[p]), EngineStep(p) \/ WritePidFails(p)
  PROVE  Facts(job[p])'
<1>1. p \in Procs /\ p \notin Dogs /\ job[p] \in Jobs /\ EngineSound(job[p]) /\ job \in [Procs -> Jobs]
  BY AtPlace DEF Procs, Base, JobsSound
<1>2. CASE Step(p)
  BY <1>2, StepFacts
<1>3. CASE ReadForApply(p)
  <2>1. job[p].op = "Apply" /\ runtime'.override = "NONE" /\ config' = config
    BY <1>3 DEF ReadForApply, Base, Types, Runtimes
  <2>2. job'[p].pc = "provide" /\ job'[p].op = "Apply" /\ job'[p].cfg = config /\ job'[p].by = job[p].by
    BY <1>1, <1>3, <2>1 DEF ReadForApply, Jobs
  <2>3. Started(job[p])'
    BY <2>1, <2>2 DEF Facts, Started
  <2>4. QED
    BY <2>1, <2>2, <2>3 DEF Facts, ApplyFacts, RestartFacts, DirectFacts, Recording
<1>4. CASE ReadForRestart(p)
  <2>1. job[p].op = "RestartTunnel" /\ runtime' = runtime
    BY <1>4 DEF ReadForRestart, files
  <2>2. job'[p].pc = "provide" /\ job'[p].op = "RestartTunnel" /\ job'[p].by = job[p].by
        /\ job'[p].routes = runtime.effective
    BY <1>1, <1>4, <2>1 DEF ReadForRestart, Jobs
  <2>3. Started(job[p])'
    BY <2>1, <2>2 DEF Facts, Started
  <2>4. QED
    BY <2>1, <2>2, <2>3 DEF Facts, ApplyFacts, RestartFacts, DirectFacts
<1>5. CASE Resolve(p)
  <2>1. CASE Finish(p, "fail")
    BY <2>1, FinishFacts
  <2>2. ASSUME NEW r,
               job' = [job EXCEPT ![p].routes = r, ![p].final = TRUE, ![p].pc = "provide"]
        PROVE  Facts(job[p])'
    <3>1. job[p].pc = "resolve" /\ job[p].op = "Apply" /\ UNCHANGED <<config, runtime, loaded, lkg>>
      BY <1>1, <1>5 DEF Resolve, files, EngineSound, Place
    <3>2. job'[p].pc = "provide" /\ job'[p].op = job[p].op /\ job'[p].by = job[p].by
          /\ job'[p].cfg = job[p].cfg
      BY <1>1, <2>2 DEF Jobs
    <3>3. Started(job[p])'
      BY <3>2 DEF Facts, Started
    <3>4. QED
      BY <3>1, <3>2, <3>3 DEF Facts, ApplyFacts, RestartFacts, DirectFacts, Applying, Recording
  <2>3. QED
    BY <1>5, <2>1, <2>2 DEF Resolve
<1>6. CASE StopPutty(p) \/ VerifyWatchdog(p) \/ WritePidFails(p)
  BY <1>6, FinishFacts DEF StopPutty, VerifyWatchdog, WritePidFails
<1>7. CASE WritePid(p)
  BY <1>7, OnwardFacts DEF WritePid, files, Applying, Recording
<1>8. CASE StopWatchdog(p)
  <2>1. PICK pc \in {"load", "startdog", "verify"} :
          /\ job'[p] = [job[p] EXCEPT !.pc = pc]
          /\ pc = "load" => job[p].op # "Apply"
          /\ pc # "load" => job[p].op = "Apply"
    BY StopWatchdogJobs, <1>8
  <2>2. /\ job[p].pc = "stopdog" /\ UNCHANGED <<config, runtime, loaded, lkg>>
        /\ job[p].op # "RestartTunnel"
    BY <1>1, <1>8 DEF StopWatchdog, files, EngineSound, Place
  <2>3. job'[p].pc = pc /\ Same(p)
    BY <1>1, <2>1 DEF Same, Jobs
  <2>4. QED
    BY <2>1, <2>2, <2>3, StartedStays
       DEF Facts, ApplyFacts, RestartFacts, DirectFacts, Same, Applying, Recording
<1>9. CASE StartWatchdog(p)
  <2>1. PICK d \in Dogs : job'[p] = [job[p] EXCEPT !.pc = "pid", !.started = d]
    BY StartWatchdogJobs, <1>9
  <2>2. job[p].pc = "startdog" /\ UNCHANGED <<config, runtime, loaded, lkg>>
    BY <1>9 DEF StartWatchdog, files
  <2>3. /\ job'[p].pc = "pid" /\ job'[p].op = job[p].op /\ job'[p].by = job[p].by
        /\ job'[p].cfg = job[p].cfg /\ job'[p].routes = job[p].routes
    BY <1>1, <2>1 DEF Jobs
  <2>4. Started(job[p])'
    BY <2>3 DEF Facts, Started
  <2>5. QED
    BY <2>2, <2>3, <2>4 DEF Facts, ApplyFacts, RestartFacts, DirectFacts, Applying, Recording
<1>10. QED
  BY <1>2, <1>3, <1>4, <1>5, <1>6, <1>7, <1>8, <1>9 DEF EngineStep

LEMMA StartFacts ==
  ASSUME Base, NEW p \in Engines, NEW op \in EngineActions, NEW by \in {"user", "logon", "recovery"},
         Start(p, op, by), by = "recovery" => Recovery, op \in Operations \cup {"Apply"}
  PROVE  Facts(job[p])'
<1>1. p \in Procs /\ job \in [Procs -> Jobs]
  BY DEF Procs, Base, JobsSound
<1>2. IdleJob(op, "none") \in Jobs /\ IdleJob(op, "none").op = op
  BY IdleSound DEF IdleJob
<1>3. job'[p] = [IdleJob(op, "none") EXCEPT !.pc = "lock", !.by = by]
  BY <1>1 DEF Start
<1>4. job'[p].pc = "lock" /\ job'[p].op = op /\ job'[p].by = by
  BY <1>2, <1>3 DEF Jobs
<1>5. Started(job[p])'
  BY <1>4 DEF Started
<1>6. QED
  BY <1>4, <1>5, NothingYet

\* Who moves an engine process.
LEMMA WhoMoves ==
  ASSUME Base, [Next]_vars, NEW p \in Engines
  PROVE  \/ job'[p] = job[p]
         \/ EngineStep(p) \/ WritePidFails(p) \/ LoadFails(p) \/ Crash(p)
         \/ \E op \in EngineActions, by \in {"user", "logon", "recovery"} :
              /\ Start(p, op, by) /\ (by = "recovery" => Recovery)
              /\ op \in Operations \cup {"Apply"}
<1>1. p \in Procs /\ p \notin Dogs /\ Engines \subseteq Procs /\ Dogs \subseteq Procs
      /\ job \in [Procs -> Jobs]
  BY AtPlace DEF Procs, Base, JobsSound
<1>2. CASE (\E op \in EngineActions : UserStarts(op)) \/ AutoStart \/ RuntimeRecovery
  <2>1. PICK q \in Engines, op \in EngineActions, by \in {"user", "logon", "recovery"} :
          /\ Start(q, op, by) /\ (by = "recovery" => Recovery)
          /\ op \in Operations \cup {"Apply"}
    <3>1. CASE (\E op \in EngineActions : UserStarts(op)) \/ AutoStart
      BY <3>1, HowActionsStart DEF UserStarts, AutoStart, Engines, EngineActions
    <3>2. CASE RuntimeRecovery
      BY <3>2 DEF RuntimeRecovery, Engines, EngineActions
    <3>3. QED
      BY <1>2, <3>1, <3>2
  <2>2. CASE q = p
    BY <2>1, <2>2
  <2>3. CASE q # p
    BY <1>1, <2>1, <2>3 DEF Start
  <2>4. QED
    BY <2>2, <2>3
<1>3. ASSUME NEW q \in Procs, q # p, Step(q) \/ LoadFails(q) \/ Crash(q)
      PROVE  job'[p] = job[p]
  <2>1. CASE Acquire(q) \/ LockTimeout(q)
    BY <1>1, <1>3, <2>1 DEF Acquire, LockTimeout, Goto
  <2>2. CASE Provide(q) \/ WriteProfile(q) \/ Commit(q)
    BY <1>1, <1>3, <2>2 DEF Provide, WriteProfile, Commit, Goto, Finish
  <2>3. CASE Load(q) \/ LoadUnverified(q) \/ LoadFails(q)
    BY <1>1, <1>3, <2>3 DEF Load, LoadUnverified, LoadFails, FailedLoad, Goto, Finish
  <2>4. CASE Crash(q)
    BY <1>1, <1>3, <2>4 DEF Crash
  <2>5. QED
    BY <1>3, <2>1, <2>2, <2>3, <2>4 DEF Step
<1>4. ASSUME NEW q \in Engines, q # p,
             ReadForApply(q) \/ ReadForRestart(q) \/ Resolve(q) \/ StopPutty(q) \/ WritePid(q)
               \/ VerifyWatchdog(q) \/ WritePidFails(q)
      PROVE  job'[p] = job[p]
  BY <1>1, <1>4 DEF ReadForApply, ReadForRestart, Resolve, StopPutty, WritePid,
                    VerifyWatchdog, WritePidFails, Goto, Finish
<1>5. ASSUME NEW q \in Engines, q # p, StopWatchdog(q) \/ StartWatchdog(q)
      PROVE  job'[p] = job[p]
  BY <1>1, <1>5, StopWatchdogJobs, StartWatchdogJobs DEF LiveDogs
<1>6. ASSUME NEW d \in Dogs,
             DogReadsConfig(d) \/ DogReadsRuntime(d) \/ DogRepairs(d) \/ DogEvaluates(d)
               \/ DogExits(d)
      PROVE  job'[p] = job[p]
  BY <1>1, <1>6 DEF DogReadsConfig, DogReadsRuntime, DogRepairs, DogEvaluates, DogExits, Goto
<1>7. CASE SaveConfig \/ ReaderTakesPid \/ ReaderLooksUpProcess \/ TunnelDrops \/ VpsGoesDown
             \/ VpsComesBack \/ ProxifierStops \/ UNCHANGED vars
  BY <1>7 DEF SaveConfig, ReaderTakesPid, ReaderLooksUpProcess, TunnelDrops, VpsGoesDown,
              VpsComesBack, ProxifierStops, vars
<1>8. CASE \E q \in Engines : EngineStep(q) \/ WritePidFails(q)
  BY <1>1, <1>3, <1>4, <1>5, <1>8 DEF EngineStep
<1>9. CASE \E d \in Dogs : DogStep(d)
  BY <1>1, <1>3, <1>6, <1>9 DEF DogStep
<1>10. CASE \E q \in Procs : LoadFails(q) \/ Crash(q)
  BY <1>3, <1>10
<1>11. QED
  BY <1>2, <1>7, <1>8, <1>9, <1>10 DEF Next, Environment

LEMMA KeepsFacts == Base /\ EngineFacts /\ [Next]_vars => EngineFacts'
<1> SUFFICES ASSUME Base, EngineFacts, [Next]_vars, NEW p \in Engines PROVE Facts(job[p])'
  BY DEF EngineFacts
<1>1. p \in Procs /\ Facts(job[p]) /\ EngineSound(job[p])
  BY AtPlace DEF EngineFacts, Procs
<1>2. CASE job'[p] = job[p] /\ job[p].pc \in Unlocked
  <2>1. job'[p].pc \in {"idle", "lock", "read"}
    BY <1>1, <1>2 DEF EngineSound, Pcs, Unlocked
  <2>2. Started(job[p])'
    BY <1>1, <1>2 DEF Facts, Started
  <2>3. QED
    BY <2>1, <2>2, NothingYet
<1>3. CASE job'[p] = job[p] /\ job[p].pc \notin Unlocked
  <2>1. UNCHANGED <<config, runtime, lkg>> /\ loaded' \in {loaded, None}
    BY <1>1, <1>3, NobodyElseWrites
  <2>2. QED
    BY <1>1, <1>3, <2>1 DEF Facts, Started, ApplyFacts, RestartFacts, DirectFacts
<1>4. CASE EngineStep(p) \/ WritePidFails(p) \/ LoadFails(p) \/ Crash(p)
  BY <1>1, <1>4, StepFacts, EngineStepFacts
<1>5. QED
  BY <1>2, <1>3, <1>4, WhoMoves, StartFacts

LEMMA InitFacts == Init => EngineFacts
<1> SUFFICES ASSUME Init, NEW p \in Engines PROVE Facts(job[p])
  BY DEF EngineFacts
<1>1. job[p] = IdleJob("none", "none")
  BY DEF Init, Procs
<1>2. job[p].pc = "idle" /\ job[p].op = "none" /\ job[p].by = "none"
  BY <1>1 DEF IdleJob
<1>3. QED
  BY <1>2 DEF Facts, Started, ApplyFacts, RestartFacts, DirectFacts, Applying, Recording

LEMMA AlwaysFacts == Spec => [](Base /\ EngineFacts)
  BY AlwaysBase, InitFacts, KeepsFacts, PTL DEF Spec

---------------------------------------------------------------------------
\* An Apply that passes is in force.

LEMMA FinishedWith ==
  ASSUME Base, NEW p \in Engines, NEW res, Finish(p, res)
  PROVE  job'[p].result = res
<1>1. job'[p] = IdleJob(job[p].op, res)
  BY DEF Finish, Rest, Base, JobsSound, Procs
<1>2. QED
  BY <1>1 DEF IdleJob

LEMMA ApplyPassesLast ==
  ASSUME Base, [Next]_vars, NEW p \in Engines, Passes(p, "Apply")
  PROVE  (VerifyWatchdog(p) \/ WritePidFails(p)) /\ job[p].pc \in Recording
<1>1. p \in Procs /\ p \notin Dogs /\ job[p] \in Jobs /\ EngineSound(job[p]) /\ job \in [Procs -> Jobs]
      /\ job[p].op = "Apply" /\ job[p].pc # "idle" /\ job'[p].pc = "idle" /\ job'[p].result = "pass"
  BY AtPlace DEF Procs, Base, JobsSound, Passes
<1>2. \A pc : Goto(p, pc) => pc = "idle"
  BY <1>1, GotoKeeps
<1>3. \A res : Finish(p, res) => res = "pass"
  BY <1>1, FinishedWith
<1>4. ~Acquire(p)
  BY <1>2 DEF Acquire
<1>5. ~LockTimeout(p) /\ ~Crash(p)
  <2>1. IdleJob(job[p].op, "fail").result = "fail"
    BY DEF IdleJob
  <2>2. QED
    BY <1>1, <2>1 DEF LockTimeout, Crash, Rest
<1>6. ~Provide(p) /\ ~WriteProfile(p)
  BY <1>1, <1>2, <1>3 DEF Provide, WriteProfile
<1>7. ~Load(p) /\ ~LoadUnverified(p) /\ ~LoadFails(p)
  BY <1>1, <1>2, <1>3 DEF Load, LoadUnverified, LoadFails, FailedLoad, AfterLoad
<1>8. ~Commit(p)
  BY <1>1, <1>2 DEF Commit
<1>9. ~ReadForApply(p) /\ ~ReadForRestart(p)
  BY <1>1 DEF ReadForApply, ReadForRestart, Jobs
<1>10. ~Resolve(p)
  <2>1. \A r : job' # [job EXCEPT ![p].routes = r, ![p].final = TRUE, ![p].pc = "provide"]
    BY <1>1 DEF Jobs
  <2>2. QED
    BY <1>3, <2>1 DEF Resolve
<1>11. ~StopPutty(p)
  BY <1>1 DEF StopPutty, EngineSound, Place
<1>12. ~WritePid(p)
  BY <1>2 DEF WritePid
<1>13. ~StopWatchdog(p)
  BY <1>1, StopWatchdogJobs DEF Jobs
<1>14. ~StartWatchdog(p)
  <2> SUFFICES ASSUME StartWatchdog(p) PROVE FALSE
    OBVIOUS
  <2>1. PICK d \in Dogs : job'[p] = [job[p] EXCEPT !.pc = "pid", !.started = d]
    BY StartWatchdogJobs
  <2>2. job'[p].pc = "pid"
    BY <1>1, <2>1 DEF Jobs
  <2>3. QED
    BY <1>1, <2>2
<1>15. \A op \in EngineActions, by \in {"user", "logon", "recovery"} : ~Start(p, op, by)
  BY <1>1 DEF Start
<1>16. VerifyWatchdog(p) \/ WritePidFails(p)
  BY <1>1, <1>4, <1>5, <1>6, <1>7, <1>8, <1>9, <1>10, <1>11, <1>12, <1>13, <1>14, <1>15, WhoMoves
     DEF EngineStep, Step
<1>17. QED
  BY <1>16 DEF VerifyWatchdog, WritePidFails, Recording

\* An Apply that reports success leaves its resolved routes recorded, and
\* enforced unless Proxifier has been closed since: no other process writes
\* the runtime state or loads a profile between its commit and its end.
THEOREM AppliedIsInForce == Spec => ApplyIsInForce
<1>1. Base /\ EngineFacts /\ [Next]_vars =>
        [\A p \in Engines : Passes(p, "Apply") =>
           /\ runtime.override = "NONE" /\ runtime.effective = job[p].routes
           /\ loaded \in {runtime.effective, None}]_vars
  <2> SUFFICES ASSUME Base, EngineFacts, [Next]_vars, NEW p \in Engines, Passes(p, "Apply")
               PROVE  /\ runtime.override = "NONE" /\ runtime.effective = job[p].routes
                      /\ loaded \in {runtime.effective, None}
    OBVIOUS
  <2>1. job[p].op = "Apply" /\ job[p].pc \in Recording
    BY ApplyPassesLast DEF Passes
  <2>2. QED
    BY <2>1 DEF EngineFacts, Facts, ApplyFacts, Recording, Applying
<1>2. QED
  BY <1>1, AlwaysFacts, PTL DEF Spec, ApplyIsInForce

---------------------------------------------------------------------------
\* The watchdog is known, and the override stands.

\* No process dies, the pid file is written and not removed by a reader.
Quiet == "crash" \notin FaultKinds /\ "pidfile" \notin FaultKinds /\ ~StatusReader

\* In this step no process dies, no pid file fails to be written, and there
\* is no reader that could remove one.
Calm == /\ \A p \in Procs : ~Crash(p)
        /\ \A p \in Engines : ~WritePidFails(p)
        /\ ~StatusReader

LEMMA QuietIsCalm ==
  ASSUME Quiet
  PROVE  Calm
  BY DEF Quiet, Calm, Crash, WritePidFails, Fault

\* A running watchdog is the recorded one, or its Apply is about to record it.
DogIsKnown ==
  \A d \in LiveDogs : \/ d = pidfile
                      \/ \E p \in Engines : job[p].pc = "pid" /\ job[p].started = d

NotYetRecorded == \A p \in Engines : job[p].pc = "pid" => pidfile = None

\* Direct and StopTunnel have stopped the watchdog.
DogIsStopped ==
  \A p \in Engines :
    (job[p].op \in {"Direct", "StopTunnel"} /\ job[p].pc \in {"load", "commit", "stoptunnel"})
      => LiveDogs = {}

\* The watchdog an Apply has started for its routes lives, and stays.
Guards(d, j) ==
  /\ d \in LiveDogs /\ job[d].pc # "exit"
  /\ job[d].pc = "runtime" => job[d].cfg = j.cfg
  /\ j.pc = "verify" => pidfile = d

DogIsStarted ==
  \A p \in Engines :
    (job[p].pc \in {"pid", "verify"} /\ NeedsWatchdog(job[p].cfg, job[p].routes))
      => Guards(job[p].started, job[p])

\* While the override is recorded nothing is left that could undo it.
OverrideIsSafe ==
  runtime.override = "DIRECT" =>
    /\ runtime.effective = AllDirect /\ LiveDogs = {}
    /\ NoBlindStop => loaded \in {AllDirect, None} /\ lkg \in {AllDirect, None}

NoReader == reader = None

Watch == NoReader /\ OneDog /\ DogIsKnown /\ NotYetRecorded /\ DogIsStopped /\ DogIsStarted

---------------------------------------------------------------------------
\* How watchdogs and engine actions come to their places.

\* Where a step may take a watchdog.
LEMMA DogGoes ==
  ASSUME Base, [Next]_vars, Calm, NEW d \in Dogs
  PROVE  \/ job'[d] = job[d]
         \/ DogExits(d) \/ DogReadsConfig(d) \/ DogReadsRuntime(d)
         \/ \E p \in Engines : StopWatchdog(p) \/ StartWatchdog(p)
         \/ job[d].pc # "dead" /\ job'[d].pc \notin {"dead", "exit", "runtime"}
<1>1. d \in Procs /\ d \notin Engines /\ Engines \subseteq Procs /\ Dogs \subseteq Procs
      /\ job \in [Procs -> Jobs]
  BY AtPlace DEF Procs, Base, JobsSound
<1>2. CASE (\E op \in EngineActions : UserStarts(op)) \/ AutoStart \/ RuntimeRecovery
  BY <1>1, <1>2, HowActionsStart DEF Start
<1>3. ASSUME NEW q \in Procs, q # d, Step(q) \/ LoadFails(q)
      PROVE  job'[d] = job[d]
  <2>1. CASE Acquire(q) \/ LockTimeout(q)
    BY <1>1, <1>3, <2>1 DEF Acquire, LockTimeout, Goto
  <2>2. CASE Provide(q) \/ WriteProfile(q) \/ Commit(q)
    BY <1>1, <1>3, <2>2 DEF Provide, WriteProfile, Commit, Goto, Finish
  <2>3. CASE Load(q) \/ LoadUnverified(q) \/ LoadFails(q)
    BY <1>1, <1>3, <2>3 DEF Load, LoadUnverified, LoadFails, FailedLoad, Goto, Finish
  <2>4. QED
    BY <1>3, <2>1, <2>2, <2>3 DEF Step
<1>4. ASSUME Step(d) \/ LoadFails(d)
      PROVE  job[d].pc # "dead" /\ job'[d].pc \notin {"dead", "exit", "runtime"}
  <2>1. \A pc : Goto(d, pc) => job'[d].pc = pc
    BY <1>1, GotoKeeps
  <2>2. DogJob("config").pc = "config"
    BY DogJobSound DEF DogPcs
  <2>3. \A res : Finish(d, res) => job'[d].pc = "config"
    BY <1>1, <2>2 DEF Finish, Rest
  <2>4. CASE Acquire(d)
    BY <2>1, <2>4 DEF Acquire
  <2>5. CASE LockTimeout(d)
    BY <1>1, <2>2, <2>5 DEF LockTimeout, Rest
  <2>6. CASE Provide(d) \/ WriteProfile(d) \/ Commit(d)
    BY <2>1, <2>3, <2>6 DEF Provide, WriteProfile, Commit
  <2>7. CASE Load(d) \/ LoadUnverified(d) \/ LoadFails(d)
    BY <2>1, <2>3, <2>7 DEF Load, LoadUnverified, LoadFails, FailedLoad, AfterLoad
  <2>8. QED
    BY <1>4, <2>4, <2>5, <2>6, <2>7 DEF Step
<1>5. ASSUME NEW q \in Engines,
             ReadForApply(q) \/ ReadForRestart(q) \/ Resolve(q) \/ StopPutty(q) \/ WritePid(q)
               \/ VerifyWatchdog(q) \/ WritePidFails(q)
      PROVE  job'[d] = job[d]
  BY <1>1, <1>5 DEF ReadForApply, ReadForRestart, Resolve, StopPutty, WritePid,
                    VerifyWatchdog, WritePidFails, Goto, Finish
<1>6. ASSUME NEW c \in Dogs, c # d,
             DogReadsConfig(c) \/ DogReadsRuntime(c) \/ DogRepairs(c) \/ DogEvaluates(c)
               \/ DogExits(c)
      PROVE  job'[d] = job[d]
  BY <1>1, <1>6 DEF DogReadsConfig, DogReadsRuntime, DogRepairs, DogEvaluates, DogExits, Goto
<1>7. ASSUME DogRepairs(d) \/ DogEvaluates(d)
      PROVE  job[d].pc # "dead" /\ job'[d].pc \notin {"dead", "exit", "runtime"}
  <2>1. CASE DogRepairs(d)
    BY <1>1, <2>1, GotoKeeps DEF DogRepairs
  <2>2. CASE DogEvaluates(d)
    <3>1. DogJob("config").pc = "config"
      BY DogJobSound DEF DogPcs
    <3>2. job[d].pc = "evaluate" /\ job'[d].pc \in {"lock", "config"}
      BY <1>1, <2>2, <3>1 DEF DogEvaluates, Jobs
    <3>3. QED
      BY <3>2
  <2>3. QED
    BY <1>7, <2>1, <2>2
<1>8. CASE SaveConfig \/ ReaderTakesPid \/ ReaderLooksUpProcess \/ TunnelDrops \/ VpsGoesDown
             \/ VpsComesBack \/ ProxifierStops \/ UNCHANGED vars
  BY <1>8 DEF SaveConfig, ReaderTakesPid, ReaderLooksUpProcess, TunnelDrops, VpsGoesDown,
              VpsComesBack, ProxifierStops, vars
<1>9. CASE \E q \in Engines : EngineStep(q) \/ WritePidFails(q)
  BY <1>1, <1>3, <1>5, <1>9 DEF EngineStep
<1>10. CASE \E c \in Dogs : DogStep(c)
  BY <1>1, <1>3, <1>4, <1>6, <1>7, <1>10 DEF DogStep
<1>11. CASE \E q \in Procs : LoadFails(q) \/ Crash(q)
  BY <1>3, <1>4, <1>11 DEF Calm
<1>12. QED
  BY <1>2, <1>8, <1>9, <1>10, <1>11 DEF Next, Environment

\* Who writes the pid file.
LEMMA PidfileWrites ==
  ASSUME [Next]_vars, Calm, NoReader
  PROVE  /\ reader' = None
         /\ \/ pidfile' = pidfile
            \/ \E p \in Engines : StopWatchdog(p) \/ StartWatchdog(p) \/ WritePid(p) \/ VerifyWatchdog(p)
            \/ \E d \in Dogs : DogExits(d)
<1>1. ~ReaderTakesPid /\ ~ReaderLooksUpProcess
  BY DEF ReaderTakesPid, ReaderLooksUpProcess, Calm, NoReader
<1>2. CASE (\E op \in EngineActions : UserStarts(op)) \/ AutoStart \/ RuntimeRecovery
  BY <1>2, HowActionsStart DEF Start, NoReader
<1>3. ASSUME NEW p \in Procs, Step(p) \/ LoadFails(p) \/ Crash(p)
      PROVE  UNCHANGED <<pidfile, reader>>
  BY <1>3 DEF Step, Acquire, LockTimeout, Provide, WriteProfile, Load, LoadUnverified, Commit,
              LoadFails, Crash
<1>4. ASSUME NEW p \in Engines,
             ReadForApply(p) \/ ReadForRestart(p) \/ Resolve(p) \/ StopPutty(p) \/ WritePidFails(p)
      PROVE  UNCHANGED <<pidfile, reader>>
  BY <1>4 DEF ReadForApply, ReadForRestart, Resolve, StopPutty, WritePidFails
<1>5. ASSUME NEW p \in Engines,
             StopWatchdog(p) \/ StartWatchdog(p) \/ WritePid(p) \/ VerifyWatchdog(p)
      PROVE  UNCHANGED reader
  BY <1>5 DEF StopWatchdog, StartWatchdog, WritePid, VerifyWatchdog
<1>6. ASSUME NEW d \in Dogs, DogReadsConfig(d) \/ DogReadsRuntime(d) \/ DogRepairs(d) \/ DogEvaluates(d)
      PROVE  UNCHANGED <<pidfile, reader>>
  BY <1>6 DEF DogReadsConfig, DogReadsRuntime, DogRepairs, DogEvaluates
<1>7. ASSUME NEW d \in Dogs, DogExits(d)
      PROVE  UNCHANGED reader
  BY <1>7 DEF DogExits
<1>8. CASE SaveConfig \/ TunnelDrops \/ VpsGoesDown \/ VpsComesBack \/ ProxifierStops \/ UNCHANGED vars
  BY <1>8 DEF SaveConfig, TunnelDrops, VpsGoesDown, VpsComesBack, ProxifierStops, vars, NoReader
<1>9. CASE \E p \in Engines : EngineStep(p) \/ WritePidFails(p)
  BY <1>3, <1>4, <1>5, <1>9 DEF EngineStep, NoReader, Procs
<1>10. CASE \E d \in Dogs : DogStep(d)
  BY <1>3, <1>6, <1>7, <1>10 DEF DogStep, NoReader, Procs
<1>11. CASE \E p \in Procs : LoadFails(p) \/ Crash(p)
  BY <1>3, <1>11 DEF NoReader
<1>12. QED
  BY <1>1, <1>2, <1>8, <1>9, <1>10, <1>11 DEF Next, Environment

\* Where an engine action comes from that works on the watchdog, or that
\* has stopped it.
LEMMA ComesFrom ==
  ASSUME Base, [Next]_vars, NEW p \in Engines
  PROVE  /\ job'[p].pc \in {"pid", "verify"} =>
              \/ job'[p] = job[p] \/ StartWatchdog(p) \/ WritePid(p) \/ StopWatchdog(p)
         /\ (job'[p].op \in {"Direct", "StopTunnel"} /\ job'[p].pc \in {"load", "commit", "stoptunnel"}) =>
              \/ StopWatchdog(p)
              \/ job[p].op = job'[p].op /\ job[p].pc \in {"load", "commit", "stoptunnel"}
<1>1. p \in Procs /\ p \notin Dogs /\ job[p] \in Jobs /\ EngineSound(job[p]) /\ job \in [Procs -> Jobs]
  BY AtPlace DEF Procs, Base, JobsSound
<1> DEFINE Safe == /\ job'[p].pc \notin {"pid", "verify"}
                   /\ (job'[p].op \in {"Direct", "StopTunnel"}
                        /\ job'[p].pc \in {"load", "commit", "stoptunnel"}) =>
                          job[p].op = job'[p].op /\ job[p].pc \in {"load", "commit", "stoptunnel"}
<1>2. \A op, res : job'[p] = IdleJob(op, res) => Safe
  <2>1. \A op, res : IdleJob(op, res).pc = "idle"
    BY DEF IdleJob
  <2>2. QED
    BY <2>1
<1>3. \A res : Finish(p, res) => Safe
  BY <1>1, <1>2 DEF Finish, Rest
<1>4. ASSUME NEW pc, Goto(p, pc), pc \notin {"pid", "verify"},
             pc \in {"load", "commit", "stoptunnel"} =>
               \/ job[p].op \notin {"Direct", "StopTunnel"}
               \/ job[p].pc \in {"load", "commit", "stoptunnel"}
      PROVE  Safe
  BY <1>1, <1>4, GotoKeeps DEF Same
<1>5. Acquire(p) => Safe
  <2>1. Acquire(p) => \E pc \in {"stopdog", "provide", "read"} : Goto(p, pc)
    BY DEF Acquire
  <2>2. QED
    BY <1>4, <2>1
<1>6. LockTimeout(p) \/ Crash(p) => Safe
  BY <1>1, <1>2 DEF LockTimeout, Crash, Rest
<1>7. Provide(p) => Safe
  BY <1>3, <1>4 DEF Provide
<1>8. WriteProfile(p) => Safe
  BY <1>1, <1>4 DEF WriteProfile, EngineSound, Place
<1>9. Load(p) \/ LoadUnverified(p) \/ LoadFails(p) => Safe
  BY <1>3, <1>4 DEF Load, LoadUnverified, LoadFails, FailedLoad, AfterLoad
<1>10. Commit(p) => Safe
  BY <1>3, <1>4 DEF Commit
<1>11. ReadForApply(p) \/ ReadForRestart(p) => Safe
  BY <1>1 DEF ReadForApply, ReadForRestart, Jobs
<1>12. Resolve(p) => Safe
  <2>1. \A r : job' = [job EXCEPT ![p].routes = r, ![p].final = TRUE, ![p].pc = "provide"] => Safe
    BY <1>1 DEF Jobs
  <2>2. QED
    BY <1>3, <2>1 DEF Resolve
<1>13. StopPutty(p) \/ VerifyWatchdog(p) \/ WritePidFails(p) => Safe
  BY <1>3 DEF StopPutty, VerifyWatchdog, WritePidFails
<1>14. ASSUME NEW op \in EngineActions, NEW by \in {"user", "logon", "recovery"}, Start(p, op, by)
       PROVE  Safe
  <2>1. IdleJob(op, "none") \in Jobs
    BY IdleSound
  <2>2. job'[p].pc = "lock"
    BY <1>1, <1>14, <2>1 DEF Start, Jobs
  <2>3. QED
    BY <2>2
<1>15. StartWatchdog(p) => job'[p].pc = "pid"
  <2> SUFFICES ASSUME StartWatchdog(p) PROVE job'[p].pc = "pid"
    OBVIOUS
  <2>1. PICK d \in Dogs : job'[p] = [job[p] EXCEPT !.pc = "pid", !.started = d]
    BY StartWatchdogJobs
  <2>2. QED
    BY <1>1, <2>1 DEF Jobs
<1>16. WritePid(p) => job'[p].pc = "verify"
  BY <1>1, GotoKeeps DEF WritePid
<1>17. \/ Safe \/ job'[p] = job[p] \/ StopWatchdog(p)
       \/ (StartWatchdog(p) /\ job'[p].pc = "pid")
       \/ (WritePid(p) /\ job'[p].pc = "verify")
  <2> HIDE DEF Safe
  <2>1. QED
    BY <1>5, <1>6, <1>7, <1>8, <1>9, <1>10, <1>11, <1>12, <1>13, <1>14, <1>15, <1>16, WhoMoves
       DEF EngineStep, Step
<1>18. QED
  BY <1>17

\* What the watchdog reads.
LEMMA DogReads ==
  ASSUME Base, NEW d \in Dogs
  PROVE  /\ DogReadsConfig(d) => job[d].pc = "config" /\ job'[d].pc = "runtime" /\ job'[d].cfg = config
         /\ DogReadsRuntime(d) =>
              /\ job[d].pc = "runtime" /\ job'[d].pc \in {"exit", "repair"}
              /\ job'[d].pc = "exit" => \/ runtime.override = "DIRECT"
                                        \/ ~NeedsWatchdog(job[d].cfg, runtime.effective)
<1>1. d \in Procs /\ job[d] \in Jobs /\ job \in [Procs -> Jobs]
  BY AtPlace DEF Procs, Base, JobsSound
<1>2. config \in [Modules -> Modes] /\ runtime \in Runtimes
  BY DEF Base, Types
<1>3. DogReadsConfig(d) => job[d].pc = "config" /\ job'[d].pc = "runtime" /\ job'[d].cfg = config
  BY <1>1, <1>2 DEF DogReadsConfig, Jobs
<1>4. ASSUME DogReadsRuntime(d)
      PROVE  /\ job[d].pc = "runtime" /\ job'[d].pc \in {"exit", "repair"}
             /\ job'[d].pc = "exit" => \/ runtime.override = "DIRECT"
                                       \/ ~NeedsWatchdog(job[d].cfg, runtime.effective)
  <2>1. DogJob("exit").pc = "exit"
    BY DogJobSound DEF DogPcs
  <2>2. CASE runtime.override = "DIRECT" \/ ~NeedsWatchdog(job[d].cfg, runtime.effective)
    BY <1>1, <1>4, <2>1, <2>2 DEF DogReadsRuntime
  <2>3. CASE ~(runtime.override = "DIRECT" \/ ~NeedsWatchdog(job[d].cfg, runtime.effective))
    <3>1. job' = [job EXCEPT ![d].seen = runtime.effective, ![d].hash = runtime.hash,
                             ![d].pc = "repair"]
      BY <1>4, <2>3 DEF DogReadsRuntime
    <3>2. job'[d].pc = "repair"
      BY <1>1, <3>1 DEF Jobs
    <3>3. QED
      BY <1>4, <3>2 DEF DogReadsRuntime
  <2>4. QED
    BY <2>2, <2>3
<1>5. QED
  BY <1>3, <1>4

LEMMA SameDogs ==
  ASSUME Base, [Next]_vars, Calm,
         \A p \in Engines : ~StopWatchdog(p) /\ ~StartWatchdog(p), \A d \in Dogs : ~DogExits(d)
  PROVE  LiveDogs' = LiveDogs
<1>1. \A d \in Dogs : job'[d].pc = "dead" <=> job[d].pc = "dead"
  <2>1. TAKE d \in Dogs
  <2>2. QED
    BY DogGoes, DogReads
<1>2. QED
  BY <1>1 DEF LiveDogs, Alive

\* Only one process is at a place under the mutex.
LEMMA OneInside ==
  ASSUME Base, NEW p \in Procs, NEW q \in Procs, job[p].pc \notin Unlocked, job[q].pc \notin Unlocked
  PROVE  p = q
  BY DEF Base, Exclusion

\* A step that neither starts or stops a watchdog nor writes its pid.
LEMMA CalmWatch ==
  ASSUME Base, EngineFacts, Watch, Calm, [Next]_vars,
         \A p \in Engines : ~StopWatchdog(p) /\ ~StartWatchdog(p) /\ ~WritePid(p) /\ ~VerifyWatchdog(p),
         \A d \in Dogs : ~DogExits(d)
  PROVE  Watch'
<1>1. pidfile' = pidfile /\ NoReader' /\ LiveDogs' = LiveDogs
  BY PidfileWrites, SameDogs DEF Watch, NoReader
<1>2. \A p \in Engines : job'[p].pc \in {"pid", "verify"} => job'[p] = job[p]
  BY ComesFrom
<1>3. \A p \in Engines : job[p].pc = "pid" => job'[p] = job[p]
  <2>1. TAKE p \in Engines
  <2>2. p \in Procs
    BY DEF Procs
  <2>3. SUFFICES ASSUME job[p].pc = "pid" PROVE job'[p] = job[p]
    OBVIOUS
  <2>4. ~WritePidFails(p) /\ ~Crash(p)
    BY <2>2 DEF Calm
  <2>5. ~EngineStep(p) /\ ~LoadFails(p)
    BY <2>3 DEF EngineStep, Step, Acquire, LockTimeout, Provide, WriteProfile, Load, LoadUnverified,
                Commit, ReadForApply, ReadForRestart, Resolve, StopPutty, VerifyWatchdog, LoadFails
  <2>6. \A op \in EngineActions, by \in {"user", "logon", "recovery"} : ~Start(p, op, by)
    BY <2>3 DEF Start
  <2>7. QED
    BY <2>4, <2>5, <2>6, WhoMoves
<1>4. OneDog'
  BY <1>1 DEF Watch, OneDog
<1>5. DogIsKnown'
  <2> SUFFICES ASSUME NEW d \in LiveDogs', d # pidfile'
               PROVE  \E p \in Engines : job'[p].pc = "pid" /\ job'[p].started = d
    BY DEF DogIsKnown
  <2>1. PICK p \in Engines : job[p].pc = "pid" /\ job[p].started = d
    BY <1>1 DEF Watch, DogIsKnown
  <2>2. QED
    BY <1>3, <2>1
<1>6. NotYetRecorded'
  BY <1>1, <1>2 DEF Watch, NotYetRecorded
<1>7. DogIsStopped'
  BY <1>1, ComesFrom DEF Watch, DogIsStopped
<1>8. DogIsStarted'
  <2> SUFFICES ASSUME NEW p \in Engines, job'[p].pc \in {"pid", "verify"},
                      NeedsWatchdog(job'[p].cfg, job'[p].routes)
               PROVE  Guards(job[p].started, job[p])'
    BY DEF DogIsStarted
  <2> DEFINE d == job[p].started
  <2>1. job'[p] = job[p] /\ p \in Procs /\ job[p].pc \notin Unlocked
    BY <1>2 DEF Procs, Unlocked
  <2>2. Guards(d, job[p])
    BY <2>1 DEF Watch, DogIsStarted
  <2>3. d \in LiveDogs /\ d \in Dogs /\ job[d].pc # "exit" /\ job[d].pc # "dead"
    BY <2>2 DEF Guards, LiveDogs, Alive
  <2>4. runtime.override = "NONE" /\ runtime.effective = job[p].routes /\ job[p].cfg = config
    <3>1. job[p].op = "Apply"
      BY <2>1, AtPlace DEF EngineSound, Place
    <3>2. QED
      BY <2>1, <3>1 DEF EngineFacts, Facts, ApplyFacts, Applying, Recording
  <2>5. job'[d].pc # "exit" /\ (job'[d].pc = "runtime" => job'[d].cfg = job[p].cfg)
    <3>1. CASE job'[d] = job[d]
      BY <2>2, <2>3, <3>1 DEF Guards
    <3>2. CASE DogReadsConfig(d)
      BY <2>3, <2>4, <3>2, DogReads
    <3>3. CASE DogReadsRuntime(d)
      <4>1. job[d].pc = "runtime" /\ job[d].cfg = job[p].cfg
        BY <2>2, <2>3, <3>3, DogReads DEF Guards
      <4>2. NeedsWatchdog(job[d].cfg, runtime.effective)
        BY <2>1, <2>4, <4>1
      <4>3. QED
        BY <2>3, <2>4, <3>3, <4>2, DogReads
    <3>4. QED
      BY <2>3, <3>1, <3>2, <3>3, DogGoes
  <2>6. QED
    BY <1>1, <2>1, <2>2, <2>3, <2>5 DEF Guards
<1>9. QED
  BY <1>1, <1>4, <1>5, <1>6, <1>7, <1>8 DEF Watch

\* An engine under the mutex leaves the other engine where it waits.
LEMMA OtherWaits ==
  ASSUME Base, Base', NEW p \in Engines, job[p].pc \notin Unlocked, mutex' = mutex,
         NEW q \in Engines, q # p
  PROVE  job'[q].pc \in Unlocked
<1>1. p \in Procs /\ q \in Procs /\ mutex = p
  BY DEF Procs, Base, Exclusion
<1>2. QED
  BY <1>1 DEF Base, Exclusion

LEMMA StopWatch ==
  ASSUME Base, Base', Watch, [Next]_vars, NEW p \in Engines, StopWatchdog(p), Calm
  PROVE  Watch' /\ LiveDogs' = {}
<1>1. /\ p \in Procs /\ job[p].pc = "stopdog" /\ pidfile' = None /\ mutex' = mutex
      /\ job[p].pc \notin Unlocked
  BY DEF StopWatchdog, Procs, Unlocked
<1>2. \A q \in Engines : job[q].pc # "pid"
  <2>1. TAKE q \in Engines
  <2>2. q \in Procs
    BY DEF Procs
  <2>3. QED
    BY <1>1, <2>2, OneInside DEF Unlocked
<1>3. LiveDogs' = {}
  <2>1. DogJob("dead").pc = "dead"
    BY DogJobSound DEF DogPcs
  <2>2. \A d \in Dogs : d \in Procs \ {p} /\ d # None
    BY Distinct, StopWatchdogJobs DEF Procs
  <2>3. \A d \in LiveDogs : d \in Recorded
    BY <1>2, <2>2 DEF Watch, DogIsKnown, Recorded, LiveDogs
  <2>4. \A d \in Dogs : job'[d].pc = "dead"
    BY <2>1, <2>2, <2>3, StopWatchdogJobs DEF LiveDogs, Alive
  <2>5. QED
    BY <2>4 DEF LiveDogs, Alive
<1>4. \A q \in Engines : q # p => job'[q].pc \in Unlocked
  BY <1>1, OtherWaits
<1>5. job'[p].pc \in {"load", "startdog", "verify"}
      /\ (job'[p].pc = "verify" => ~NeedsWatchdog(job'[p].cfg, job'[p].routes))
  <2>1. PICK pc \in {"load", "startdog", "verify"} : job'[p] = [job[p] EXCEPT !.pc = pc]
    BY StopWatchdogJobs
  <2>2. job[p] \in Jobs
    BY <1>1, AtPlace
  <2>3. job'[p].pc = pc /\ job'[p].cfg = job[p].cfg /\ job'[p].routes = job[p].routes
    BY <2>1, <2>2 DEF Jobs
  <2>4. job'[p].pc = "verify" => ~NeedsWatchdog(job[p].cfg, job[p].routes)
    BY StopWatchdogJobs
  <2>5. QED
    BY <2>3, <2>4
<1>6. OneDog' /\ DogIsKnown' /\ DogIsStopped'
  BY <1>3 DEF OneDog, DogIsKnown, DogIsStopped
<1>7. NotYetRecorded'
  BY <1>1 DEF NotYetRecorded
<1>8. DogIsStarted'
  BY <1>4, <1>5 DEF DogIsStarted, Unlocked
<1>9. NoReader'
  BY PidfileWrites DEF Watch, NoReader
<1>10. QED
  BY <1>3, <1>6, <1>7, <1>8, <1>9 DEF Watch

LEMMA StartWatch ==
  ASSUME Base, Base', Watch, [Next]_vars, NEW p \in Engines, StartWatchdog(p), Calm
  PROVE  Watch'
<1>1. /\ p \in Procs /\ p \notin Dogs /\ job[p].pc = "startdog" /\ pidfile' = None /\ mutex' = mutex
      /\ job[p].pc \notin Unlocked /\ Dogs \subseteq Procs /\ job[p] \in Jobs
  BY AtPlace DEF StartWatchdog, Procs, Unlocked
<1>2. DogJob("dead").pc = "dead" /\ DogJob("config").pc = "config"
  BY DogJobSound DEF DogPcs
<1>3. PICK d \in Dogs :
        /\ job'[p] = [job[p] EXCEPT !.pc = "pid", !.started = d]
        /\ \A q \in Procs \ {p} :
             job'[q] = IF q = d THEN DogJob("config")
                       ELSE IF q \in LiveDogs THEN DogJob("dead") ELSE job[q]
  BY StartWatchdogJobs
<1>4. job'[p].pc = "pid" /\ job'[p].started = d
  BY <1>1, <1>3 DEF Jobs
<1>5. job'[d].pc = "config" /\ LiveDogs' = {d}
  BY <1>1, <1>2, <1>3 DEF LiveDogs, Alive
<1>6. \A q \in Engines : q # p => job'[q].pc \in Unlocked
  BY <1>1, OtherWaits
<1>7. OneDog' /\ DogIsKnown'
  BY <1>4, <1>5 DEF OneDog, DogIsKnown
<1>8. NotYetRecorded'
  BY <1>1 DEF NotYetRecorded
<1>9. DogIsStopped'
  BY <1>4, <1>6 DEF DogIsStopped, Unlocked
<1>10. DogIsStarted'
  BY <1>4, <1>5, <1>6 DEF DogIsStarted, Guards, Unlocked
<1>11. NoReader'
  BY PidfileWrites DEF Watch, NoReader
<1>12. QED
  BY <1>7, <1>8, <1>9, <1>10, <1>11 DEF Watch

LEMMA WriteWatch ==
  ASSUME Base, Base', Watch, [Next]_vars, NEW p \in Engines, WritePid(p), Calm
  PROVE  Watch'
<1>1. /\ p \in Procs /\ job[p].pc = "pid" /\ pidfile' = job[p].started /\ mutex' = mutex
      /\ job[p].pc \notin Unlocked /\ p \notin Dogs /\ Dogs \subseteq Procs
  BY AtPlace DEF WritePid, Procs, Unlocked
<1>2. job'[p].pc = "verify" /\ Same(p)
  BY <1>1, GotoKeeps DEF WritePid
<1>3. \A d \in Dogs : job'[d] = job[d]
  BY <1>1 DEF WritePid, Goto, Base, JobsSound
<1>4. LiveDogs' = LiveDogs
  BY <1>3 DEF LiveDogs, Alive
<1>5. \A q \in Engines : q # p => job'[q].pc \in Unlocked
  BY <1>1, OtherWaits
<1>6. \A q \in Engines : job[q].pc = "pid" => q = p
  <2>1. TAKE q \in Engines
  <2>2. q \in Procs
    BY DEF Procs
  <2>3. QED
    BY <1>1, <2>2, OneInside DEF Unlocked
<1>7. OneDog' /\ NoReader'
  BY <1>4, PidfileWrites DEF Watch, OneDog, NoReader
<1>8. DogIsKnown'
  <2> SUFFICES ASSUME NEW d \in LiveDogs' PROVE d = pidfile'
    BY DEF DogIsKnown
  <2>1. pidfile = None /\ d # None
    BY <1>1, Distinct DEF Watch, NotYetRecorded, LiveDogs
  <2>2. QED
    BY <1>1, <1>4, <1>6, <2>1 DEF Watch, DogIsKnown
<1>9. NotYetRecorded' /\ DogIsStopped'
  BY <1>2, <1>5 DEF NotYetRecorded, DogIsStopped, Unlocked
<1>10. DogIsStarted'
  <2> SUFFICES ASSUME NEW q \in Engines, job'[q].pc \in {"pid", "verify"},
                      NeedsWatchdog(job'[q].cfg, job'[q].routes)
               PROVE  Guards(job[q].started, job[q])'
    BY DEF DogIsStarted
  <2>1. q = p
    BY <1>5 DEF Unlocked
  <2>2. Guards(job[p].started, job[p])
    BY <1>1, <1>2, <2>1 DEF Watch, DogIsStarted, Same
  <2>3. job[p].started \in Dogs
    BY <2>2 DEF Guards, LiveDogs
  <2>4. QED
    BY <1>1, <1>2, <1>3, <1>4, <2>1, <2>2, <2>3 DEF Guards, Same
<1>11. QED
  BY <1>7, <1>8, <1>9, <1>10 DEF Watch

LEMMA VerifyWatch ==
  ASSUME Base, Watch, [Next]_vars, NEW p \in Engines, VerifyWatchdog(p), Calm
  PROVE  Watch'
<1>1. /\ p \in Procs /\ job[p].pc = "verify" /\ pidfile' = (IF WatchdogRuns THEN pidfile ELSE None)
      /\ job[p].pc \notin Unlocked /\ p \notin Dogs /\ Dogs \subseteq Procs /\ Engines \subseteq Procs
  BY AtPlace DEF VerifyWatchdog, Procs, Unlocked
<1>2. job'[p].pc = "idle" /\ \A q \in Procs \ {p} : job'[q] = job[q]
  BY <1>1, RestSound DEF VerifyWatchdog, Finish, Base, JobsSound
<1>3. LiveDogs' = LiveDogs
  BY <1>1, <1>2 DEF LiveDogs, Alive
<1>4. \A q \in Engines : q # p => job'[q] = job[q] /\ job[q].pc \in Unlocked
  BY <1>1, <1>2, OneInside
<1>5. OneDog' /\ NoReader'
  BY <1>3, PidfileWrites DEF Watch, OneDog, NoReader
<1>6. DogIsKnown'
  <2> SUFFICES ASSUME NEW d \in LiveDogs' PROVE d = pidfile'
    BY DEF DogIsKnown
  <2>1. d = pidfile /\ Alive(d) /\ d # None
    BY <1>1, <1>3, <1>4, Distinct DEF Watch, DogIsKnown, LiveDogs, Unlocked
  <2>2. QED
    BY <1>1, <2>1 DEF WatchdogRuns
<1>7. NotYetRecorded' /\ DogIsStopped' /\ DogIsStarted'
  BY <1>2, <1>4 DEF NotYetRecorded, DogIsStopped, DogIsStarted, Unlocked
<1>8. QED
  BY <1>5, <1>6, <1>7 DEF Watch

LEMMA ExitWatch ==
  ASSUME Base, Watch, [Next]_vars, NEW d \in Dogs, DogExits(d), Calm
  PROVE  Watch' /\ LiveDogs' = {}
<1>1. /\ d \in Procs /\ job[d].pc = "exit" /\ pidfile' = None /\ d \notin Engines
      /\ job' = [job EXCEPT ![d] = DogJob("dead")] /\ Dogs \subseteq Procs /\ Engines \subseteq Procs
  BY AtPlace DEF DogExits, Procs
<1>2. DogJob("dead").pc = "dead"
  BY DogJobSound DEF DogPcs
<1>3. job'[d].pc = "dead" /\ \A q \in Procs \ {d} : job'[q] = job[q]
  BY <1>1, <1>2 DEF Base, JobsSound
<1>4. d \in LiveDogs
  BY <1>1 DEF LiveDogs, Alive
<1>5. LiveDogs' = {}
  <2>1. \A c \in Dogs : job'[c].pc = "dead"
    BY <1>1, <1>3, <1>4 DEF Watch, OneDog, LiveDogs, Alive
  <2>2. QED
    BY <2>1 DEF LiveDogs, Alive
<1>6. \A p \in Engines : job'[p] = job[p]
  BY <1>1, <1>3
<1>7. OneDog' /\ DogIsKnown' /\ DogIsStopped'
  BY <1>5 DEF OneDog, DogIsKnown, DogIsStopped
<1>8. NotYetRecorded'
  BY <1>1 DEF NotYetRecorded
<1>9. DogIsStarted'
  BY <1>1, <1>4, <1>6 DEF Watch, DogIsStarted, Guards, OneDog
<1>10. NoReader'
  BY PidfileWrites DEF Watch, NoReader
<1>11. QED
  BY <1>5, <1>7, <1>8, <1>9, <1>10 DEF Watch

LEMMA KeepsWatch ==
  ASSUME Base, EngineFacts, Watch, Calm, [Next]_vars
  PROVE  Watch'
<1>1. Base'
  BY NextBase
<1>2. CASE \E p \in Engines : StopWatchdog(p) \/ StartWatchdog(p) \/ WritePid(p) \/ VerifyWatchdog(p)
  BY <1>1, <1>2, StopWatch, StartWatch, WriteWatch, VerifyWatch
<1>3. CASE \E d \in Dogs : DogExits(d)
  BY <1>3, ExitWatch
<1>4. QED
  BY <1>2, <1>3, CalmWatch

LEMMA InitWatch == Init => Watch
<1> SUFFICES ASSUME Init PROVE Watch
  OBVIOUS
<1>1. \A d \in Dogs : d \in Procs /\ d \notin Engines
  BY Distinct DEF Procs
<1>2. \A d \in Dogs : job[d].pc = "dead"
  BY <1>1, DogJobSound DEF Init, DogPcs
<1>3. LiveDogs = {}
  BY <1>2 DEF LiveDogs, Alive
<1>4. \A p \in Engines : job[p].pc = "idle"
  BY IdleSound DEF Init, Procs
<1>5. QED
  BY <1>3, <1>4 DEF Init, Watch, NoReader, OneDog, DogIsKnown, NotYetRecorded, DogIsStopped, DogIsStarted

LEMMA AlwaysWatch ==
  ASSUME Quiet
  PROVE  Spec => [](Base /\ EngineFacts /\ Watch)
<1>1. Base /\ EngineFacts /\ Watch /\ [Next]_vars => Watch'
  BY QuietIsCalm, KeepsWatch
<1>2. QED
  BY <1>1, AlwaysFacts, InitWatch, PTL DEF Spec

\* When an Apply whose configuration or routes need a watchdog reports
\* success, the watchdog it started runs and is recorded: it cannot have
\* decided to exit, for it reads the configuration and the routes of that
\* Apply.  A killed process, a pid file that is not written or a status
\* reader that removes it would break this.
THEOREM AppliedIsWatched ==
  ASSUME Quiet
  PROVE  Spec => ApplyIsWatched
<1>1. Base /\ EngineFacts /\ Watch /\ [Next]_vars =>
        [\A p \in Engines :
           (Passes(p, "Apply") /\ NeedsWatchdog(job[p].cfg, runtime.effective)) =>
              job[p].started \in LiveDogs /\ pidfile' = job[p].started]_vars
  <2> SUFFICES ASSUME Base, EngineFacts, Watch, [Next]_vars, NEW p \in Engines, Passes(p, "Apply"),
                      NeedsWatchdog(job[p].cfg, runtime.effective)
               PROVE  job[p].started \in LiveDogs /\ pidfile' = job[p].started
    OBVIOUS
  <2>1. VerifyWatchdog(p) /\ job[p].op = "Apply" /\ job[p].pc = "verify"
    BY ApplyPassesLast DEF WritePidFails, Fault, Quiet, Passes, VerifyWatchdog
  <2>2. runtime.effective = job[p].routes
    BY <2>1 DEF EngineFacts, Facts, ApplyFacts, Recording
  <2>3. Guards(job[p].started, job[p])
    BY <2>1, <2>2 DEF Watch, DogIsStarted
  <2>4. pidfile = job[p].started /\ job[p].started \in LiveDogs
    BY <2>1, <2>3 DEF Guards
  <2>5. pidfile # None /\ Alive(pidfile)
    BY <2>4, Distinct DEF LiveDogs, Procs
  <2>6. QED
    BY <2>1, <2>4, <2>5 DEF VerifyWatchdog, WatchdogRuns
<1>2. QED
  BY <1>1, AlwaysWatch, PTL DEF Spec, ApplyIsWatched

---------------------------------------------------------------------------
\* The DIRECT override.

\* The watchdogs that live after a step lived before it, unless an Apply
\* starts one.
LEMMA NoNewDogs ==
  ASSUME Base, Watch, [Next]_vars, Calm, LiveDogs = {},
         \A p \in Engines : ~StartWatchdog(p)
  PROVE  LiveDogs' = {}
<1>1. \A d \in Dogs : ~DogExits(d)
  BY DEF DogExits, LiveDogs, Alive
<1>2. CASE \E p \in Engines : StopWatchdog(p)
  BY <1>2, NextBase, StopWatch
<1>3. CASE \A p \in Engines : ~StopWatchdog(p)
  BY <1>1, <1>3, SameDogs
<1>4. QED
  BY <1>2, <1>3

LEMMA KeepsOverrideSafe ==
  ASSUME Quiet
  PROVE  Base /\ EngineFacts /\ Watch /\ OverrideIsSafe /\ [Next]_vars => OverrideIsSafe'
<1> SUFFICES ASSUME Base, EngineFacts, Watch, OverrideIsSafe, [Next]_vars, Calm,
                    runtime'.override = "DIRECT"
             PROVE  /\ runtime'.effective = AllDirect /\ LiveDogs' = {}
                    /\ NoBlindStop => loaded' \in {AllDirect, None} /\ lkg' \in {AllDirect, None}
  BY QuietIsCalm DEF OverrideIsSafe
<1>1. ASSUME NEW p \in Engines, StartWatchdog(p)
      PROVE  FALSE
  <2>1. job[p].pc = "startdog" /\ runtime' = runtime /\ job[p].op = "Apply"
    BY <1>1, AtPlace DEF StartWatchdog, files, EngineSound, Place, Procs
  <2>2. runtime.override = "NONE"
    BY <2>1 DEF EngineFacts, Facts, ApplyFacts, Applying
  <2>3. QED
    BY <2>1, <2>2
<1>2. CASE UNCHANGED <<runtime, lkg>> /\ loaded' \in {loaded, None}
  BY <1>1, <1>2, NoNewDogs DEF OverrideIsSafe
<1>3. CASE SaveConfig
  BY <1>2, <1>3 DEF SaveConfig
<1>4. ASSUME NEW p \in Engines, ReadForApply(p)
      PROVE  FALSE
  BY <1>4 DEF ReadForApply, Base, Types, Runtimes
<1>5. ASSUME NEW p \in Procs, Load(p) \/ LoadUnverified(p) \/ LoadFails(p)
      PROVE  /\ runtime'.effective = AllDirect /\ LiveDogs' = {}
             /\ NoBlindStop => loaded' \in {AllDirect, None} /\ lkg' \in {AllDirect, None}
  <2>1. /\ job[p].pc = "load" /\ runtime' = runtime
        /\ loaded' \in {loaded, job[p].routes, lkg, None} /\ lkg' \in {lkg, job[p].routes}
    BY <1>5 DEF Load, LoadUnverified, LoadFails, files
  <2>2. /\ runtime.effective = AllDirect /\ LiveDogs = {}
        /\ NoBlindStop => loaded \in {AllDirect, None} /\ lkg \in {AllDirect, None}
    BY <2>1 DEF OverrideIsSafe
  <2>3. LiveDogs' = {}
    BY <1>1, <2>2, NoNewDogs
  <2>4. p \in Engines
    BY <2>1, <2>2 DEF LiveDogs, Alive, Procs
  <2>5. job[p].routes = AllDirect
    <3>1. EngineSound(job[p]) /\ Facts(job[p])
      BY <2>4, AtPlace DEF EngineFacts
    <3>2. job[p].op \notin {"none", "Apply"}
      BY <2>1, <3>1 DEF EngineSound, Place, Facts, ApplyFacts, Applying
    <3>3. job[p].op # "RestartTunnel"
      BY <2>1, <2>2, <3>1 DEF Facts, RestartFacts, AnyVps
    <3>4. QED
      BY <3>1, <3>2, <3>3 DEF EngineSound, EngineActions
  <2>6. QED
    BY <2>1, <2>2, <2>3, <2>5
<1>6. ASSUME NEW p \in Procs, Commit(p)
      PROVE  /\ runtime'.effective = AllDirect /\ LiveDogs' = {}
             /\ NoBlindStop => loaded' \in {AllDirect, None} /\ lkg' \in {AllDirect, None}
  <2>1. /\ job[p].pc = "commit" /\ job[p].op \in {"Direct", "StopTunnel"}
        /\ runtime'.effective = job[p].routes /\ UNCHANGED <<loaded, lkg>>
    BY <1>6 DEF Commit
  <2>2. p \in Engines
    BY <2>1, AtPlace DEF DogSound, Procs
  <2>3. job[p].routes = AllDirect
    BY <2>1, <2>2, AtPlace DEF EngineSound
  <2>4. NoBlindStop => loaded \in {AllDirect, None} /\ lkg = AllDirect
    BY <2>1, <2>2 DEF EngineFacts, Facts, DirectFacts
  <2>5. LiveDogs' = {}
    BY <1>1, <2>1, <2>2, NoNewDogs DEF Watch, DogIsStopped
  <2>6. QED
    BY <2>1, <2>3, <2>4, <2>5
<1>7. QED
  BY <1>2, <1>3, <1>4, <1>5, <1>6, Writes

LEMMA AlwaysOverrideSafe ==
  ASSUME Quiet
  PROVE  Spec => [](Base /\ EngineFacts /\ Watch /\ OverrideIsSafe)
<1>1. Init => OverrideIsSafe
  BY DEF Init, OverrideIsSafe
<1>2. QED
  BY <1>1, AlwaysWatch, KeepsOverrideSafe, PTL DEF Spec

\* While the override is recorded and nothing is in progress, Proxifier
\* enforces no VPS route: Direct and StopTunnel stop the watchdog before
\* they load, and commit what was loaded.
THEOREM OverrideIsEnforced ==
  ASSUME Quiet, NoBlindStop
  PROVE  Spec => []OverrideIsLoaded
<1>1. OverrideIsSafe => OverrideIsLoaded
  BY DEF OverrideIsSafe, OverrideIsLoaded
<1>2. QED
  BY <1>1, AlwaysOverrideSafe, PTL

\* The override is lifted only by an Apply that the user or the logon task
\* started: no watchdog and no RestartTunnel takes it back.
THEOREM OverrideIsFinal ==
  ASSUME Quiet, ~Recovery
  PROVE  Spec => OverrideStands
<1>1. Base /\ EngineFacts /\ Watch /\ OverrideIsSafe /\ [Next]_vars =>
        [(runtime.override = "DIRECT" /\ runtime'.override = "NONE") =>
           \E p \in Engines : /\ job[p].pc = "read" /\ job'[p].pc = "provide"
                              /\ job[p].by # "recovery"]_vars
  <2> SUFFICES ASSUME Base, EngineFacts, Watch, OverrideIsSafe, [Next]_vars,
                      runtime.override = "DIRECT", runtime'.override = "NONE"
               PROVE  \E p \in Engines : /\ job[p].pc = "read" /\ job'[p].pc = "provide"
                                         /\ job[p].by # "recovery"
    OBVIOUS
  <2>1. runtime' # runtime
    OBVIOUS
  <2>2. ASSUME NEW p \in Procs, Commit(p)
        PROVE  FALSE
    <3>1. job[p].pc = "commit" /\ job[p].op \notin {"Direct", "StopTunnel"}
      BY <2>2 DEF Commit
    <3>2. runtime.effective = AllDirect /\ LiveDogs = {}
      BY DEF OverrideIsSafe
    <3>3. p \in Engines
      BY <3>1, <3>2 DEF LiveDogs, Alive, Procs
    <3>4. EngineSound(job[p]) /\ Facts(job[p])
      BY <3>3, AtPlace DEF EngineFacts
    <3>5. job[p].op \notin {"none", "Apply"}
      BY <3>1, <3>4 DEF EngineSound, Place, Facts, ApplyFacts, Applying
    <3>6. job[p].op # "RestartTunnel"
      BY <3>1, <3>2, <3>4 DEF Facts, RestartFacts, AnyVps
    <3>7. QED
      BY <3>1, <3>4, <3>5, <3>6 DEF EngineSound, EngineActions
  <2>3. PICK p \in Engines : ReadForApply(p)
    BY <2>1, <2>2, Writes DEF SaveConfig, Load, LoadUnverified, LoadFails, files
  <2>4. job[p].pc = "read" /\ job'[p].pc = "provide"
    BY <2>3, AtPlace DEF ReadForApply, Base, JobsSound, Jobs, Procs
  <2>5. job[p].by # "recovery"
    BY DEF EngineFacts, Facts, Started
  <2>6. QED
    BY <2>4, <2>5
<1>2. QED
  BY <1>1, AlwaysOverrideSafe, PTL DEF Spec, OverrideStands

---------------------------------------------------------------------------
\* A divergence after one failure can be seen.

DirectOps == {"Direct", "StopTunnel"}
WriteOps == {"Apply", "RestartTunnel", "Watchdog"}

\* What Proxifier enforces, and would be given back, is what is recorded.
Clean == {loaded, lkg} \subseteq {runtime.effective, None}

\* Proxifier enforces what is recorded or nothing, or the file tells.
Visible == loaded \in {runtime.effective, None} \/ disk # runtime.effective

\* A watchdog compares the file with the recorded hash.
HashIsOfRoutes == LiveDogs # {} => runtime.hash = runtime.effective

Rested == /\ faults = 0 => Clean
          /\ LiveDogs # {} => Visible

Lit(j) == AnyVps(j.routes) => tunnel
Kept(j) == Provisional(j.cfg, runtime.effective)
VpsModules(c) == {m \in Modules : c[m] = "VPS"}
AutoModules(c) == {m \in Modules : c[m] = "AUTO"}

\* The operation has loaded nothing, or it is StopTunnel and has recorded it.
Untouched(j) ==
  \/ j.pc \in {"read", "stoptunnel"}
  \/ j.pc \in {"provide", "write"} /\ ~(j.op = "Apply" /\ j.final)
  \/ j.pc \in {"stopdog", "load"} /\ j.op \in DirectOps

UntouchedFacts(j) == Untouched(j) => Rested

\* The tunnel was provided for the routes to be written and loaded; only a
\* failure since then lets the load fail, and none was before it.
LoadFacts(j) ==
  (j.pc \in {"write", "load"} /\ j.op \in WriteOps) =>
    /\ faults = 0 => Lit(j)
    /\ j.pc = "load" => disk = j.routes
    /\ ~(j.op = "Apply" /\ j.final) => Clean \/ (faults # 0 /\ Lit(j))

\* Apply first loads the routes of the explicit modes and those in effect.
FirstFacts(j) ==
  (j.op = "Apply" /\ ~j.final /\ j.pc \in {"provide", "write", "load", "resolve"})
    => j.routes = Kept(j)

\* It falls back on them when the load of the resolved routes fails.
SecondFacts(j) ==
  (j.op = "Apply" /\ (j.pc = "resolve" \/ (j.final /\ j.pc \in {"provide", "write", "load"}))) =>
    /\ loaded \in {Kept(j), None} /\ lkg = Kept(j)
    /\ j.pc # "load" => disk = Kept(j)
    /\ j.pc # "resolve" => /\ VpsModules(j.cfg) \subseteq j.routes
                           /\ j.routes \subseteq VpsModules(j.cfg) \cup AutoModules(j.cfg)

\* What is going to be recorded is enforced and in the file.
CommitFacts(j) ==
  j.pc = "commit" =>
    /\ faults = 0 \/ j.op \in WriteOps => loaded \in {j.routes, None} /\ lkg = j.routes
    /\ j.op \in WriteOps => disk = j.routes

SettledFacts(j) ==
  (j.op = "Apply" /\ j.pc \in Recording) => Clean /\ runtime.hash = runtime.effective

Shows(j) == /\ UntouchedFacts(j) /\ LoadFacts(j) /\ FirstFacts(j)
            /\ SecondFacts(j) /\ CommitFacts(j) /\ SettledFacts(j)

\* As long as every process lives: at most one other failure has happened.
Traceable ==
  /\ faults = 0 => vps
  /\ faults <= 1 => /\ HashIsOfRoutes
                    /\ mutex = None => Rested
                    /\ \A p \in Procs : mutex = p => Shows(job[p])

\* A new operation of an engine has not resolved anything.
Fresh == \A p \in Engines : job[p].pc \in {"idle", "lock", "read"} => ~job[p].final

---------------------------------------------------------------------------
\* Steps.

LEMMA KeepsFresh == Base /\ Fresh /\ [Next]_vars => Fresh'
<1> SUFFICES ASSUME Base, Fresh, [Next]_vars, NEW p \in Engines, job'[p].pc \in {"idle", "lock", "read"}
             PROVE  ~job'[p].final
  BY DEF Fresh
<1>1. p \in Procs /\ p \notin Dogs /\ job[p] \in Jobs /\ EngineSound(job[p]) /\ job \in [Procs -> Jobs]
  BY AtPlace DEF Procs, Base, JobsSound
<1>2. \A op, res : job'[p] = IdleJob(op, res) => ~job'[p].final
  <2>1. \A op, res : IdleJob(op, res).final = FALSE
    BY DEF IdleJob
  <2>2. QED
    BY <2>1
<1>3. \A res : Finish(p, res) => ~job'[p].final
  BY <1>1, <1>2 DEF Finish, Rest
<1>4. CASE job'[p] = job[p]
  BY <1>4 DEF Fresh
<1>5. ASSUME NEW pc, Goto(p, pc), pc \notin {"idle", "lock", "read"}
      PROVE  FALSE
  BY <1>1, <1>5, GotoKeeps
<1>6. CASE Acquire(p)
  <2>1. PICK pc : Goto(p, pc)
    BY <1>6 DEF Acquire
  <2>2. job'[p].final = job[p].final /\ job[p].pc = "lock"
    BY <1>1, <1>6, <2>1, GotoKeeps DEF Same, Acquire
  <2>3. QED
    BY <2>2 DEF Fresh
<1>7. CASE LockTimeout(p) \/ Crash(p)
  BY <1>1, <1>2, <1>7 DEF LockTimeout, Crash, Rest
<1>8. CASE Provide(p) \/ WriteProfile(p) \/ Commit(p)
  BY <1>3, <1>5, <1>8 DEF Provide, WriteProfile, Commit
<1>9. CASE Load(p) \/ LoadUnverified(p) \/ LoadFails(p)
  BY <1>3, <1>5, <1>9 DEF Load, LoadUnverified, LoadFails, FailedLoad, AfterLoad
<1>10. CASE ReadForApply(p) \/ ReadForRestart(p)
  BY <1>1, <1>10 DEF ReadForApply, ReadForRestart, Jobs
<1>11. CASE Resolve(p)
  <2>1. \A r : job' = [job EXCEPT ![p].routes = r, ![p].final = TRUE, ![p].pc = "provide"]
                  => job'[p].pc = "provide"
    BY <1>1 DEF Jobs
  <2>2. QED
    BY <1>3, <1>11, <2>1 DEF Resolve
<1>12. CASE StopPutty(p) \/ VerifyWatchdog(p) \/ WritePidFails(p) \/ WritePid(p)
  BY <1>3, <1>5, <1>12 DEF StopPutty, VerifyWatchdog, WritePidFails, WritePid
<1>13. CASE StopWatchdog(p)
  <2>1. PICK pc \in {"load", "startdog", "verify"} : job'[p] = [job[p] EXCEPT !.pc = pc]
    BY StopWatchdogJobs, <1>13
  <2>2. QED
    BY <1>1, <2>1 DEF Jobs
<1>14. CASE StartWatchdog(p)
  <2>1. PICK d \in Dogs : job'[p] = [job[p] EXCEPT !.pc = "pid", !.started = d]
    BY StartWatchdogJobs, <1>14
  <2>2. QED
    BY <1>1, <2>1 DEF Jobs
<1>15. ASSUME NEW op \in EngineActions, NEW by \in {"user", "logon", "recovery"}, Start(p, op, by)
       PROVE  ~job'[p].final
  <2>1. IdleJob(op, "none") \in Jobs /\ IdleJob(op, "none").final = FALSE
    BY IdleSound DEF IdleJob
  <2>2. job'[p] = [IdleJob(op, "none") EXCEPT !.pc = "lock", !.by = by]
    BY <1>1, <1>15 DEF Start
  <2>3. QED
    BY <2>1, <2>2 DEF Jobs
<1>16. QED
  BY <1>4, <1>6, <1>7, <1>8, <1>9, <1>10, <1>11, <1>12, <1>13, <1>14, <1>15, WhoMoves
     DEF EngineStep, Step

\* No step but the start of one adds a watchdog.
LEMMA FewerDogs ==
  ASSUME Base, [Next]_vars, \A p \in Engines : ~StartWatchdog(p)
  PROVE  LiveDogs' \subseteq LiveDogs
<1>1. Dogs \subseteq Procs /\ DogJob("dead").pc = "dead"
  BY DogJobSound DEF Procs, DogPcs
<1>2. CASE job' = job
  BY <1>2 DEF LiveDogs, Alive
<1>3. ASSUME NEW p \in Procs, job[p].pc # "dead", \A q \in Procs \ {p} : job'[q] = job[q]
      PROVE  LiveDogs' \subseteq LiveDogs
  BY <1>1, <1>3 DEF LiveDogs, Alive
<1>4. ASSUME NEW p \in Engines, StopWatchdog(p)
      PROVE  LiveDogs' \subseteq LiveDogs
  BY <1>1, <1>4, StopWatchdogJobs DEF LiveDogs, Alive
<1>5. QED
  BY <1>2, <1>3, <1>4, Others

\* A step that leaves the operation in progress alone writes nothing and
\* takes the tunnel away only by a failure.
Bystands ==
  /\ UNCHANGED <<runtime, disk, lkg, mutex>> /\ loaded' \in {loaded, None}
  /\ \A p \in Procs : mutex = p => job'[p] = job[p]
  /\ \/ faults' = faults /\ (tunnel => tunnel') /\ (vps => vps')
     \/ faults' = faults + 1

\* The steps of the process that owns the mutex.
Moves(p) == \/ Provide(p) \/ WriteProfile(p) \/ Load(p) \/ LoadUnverified(p)
            \/ LoadFails(p) \/ Commit(p)
EngineMoves(p) ==
  \/ ReadForApply(p) \/ ReadForRestart(p) \/ Resolve(p) \/ StopPutty(p)
  \/ StopWatchdog(p) \/ StartWatchdog(p) \/ WritePid(p) \/ VerifyWatchdog(p)

LEMMA Owner ==
  ASSUME Base, NEW p \in Procs, job[p].pc \notin Unlocked
  PROVE  mutex = p /\ p # None
  BY Distinct DEF Base, Exclusion

LEMMA Unowned ==
  ASSUME Base, NEW p \in Procs, job[p].pc \in Unlocked, NEW j, job' = [job EXCEPT ![p] = j]
  PROVE  \A q \in Procs : mutex = q => job'[q] = job[q]
  BY DEF Base, Exclusion, JobsSound

\* The watchdog's repair and probes bring the tunnel up and leave it up.
LEMMA DogsBystand ==
  ASSUME Base, NEW d \in Dogs,
         DogReadsConfig(d) \/ DogReadsRuntime(d) \/ DogRepairs(d) \/ DogEvaluates(d) \/ DogExits(d)
  PROVE  Bystands
<1>1. d \in Procs
  BY DEF Procs
<1>2. /\ job[d].pc \in Unlocked /\ \E j : job' = [job EXCEPT ![d] = j]
      /\ UNCHANGED <<runtime, disk, lkg, mutex, loaded, faults, vps>>
  <2>1. CASE DogReadsConfig(d) \/ DogRepairs(d) \/ DogExits(d)
    BY <2>1 DEF DogReadsConfig, DogRepairs, DogExits, Goto, Unlocked, files
  <2>2. CASE DogReadsRuntime(d)
    BY <2>2 DEF DogReadsRuntime, Unlocked, files
  <2>3. CASE DogEvaluates(d)
    BY <2>3 DEF DogEvaluates, Unlocked, files
  <2>4. QED
    BY <2>1, <2>2, <2>3
<1>3. tunnel => tunnel'
  <2>1. tunnel => vps
    BY DEF Base, Types
  <2>2. CASE DogReadsConfig(d) \/ DogReadsRuntime(d) \/ DogExits(d)
    BY <2>2 DEF DogReadsConfig, DogReadsRuntime, DogExits
  <2>3. CASE DogRepairs(d)
    BY <2>1, <2>3 DEF DogRepairs
  <2>4. CASE DogEvaluates(d)
    <3>1. tunnel' \in {TRUE, tunnel, vps}
      BY <2>4 DEF DogEvaluates
    <3>2. QED
      BY <2>1, <3>1
  <2>5. QED
    BY <2>2, <2>3, <2>4
<1>4. QED
  BY <1>1, <1>2, <1>3, Unowned DEF Bystands

LEMMA StepKinds ==
  ASSUME Base, [Next]_vars
  PROVE  \/ Bystands
         \/ \E p \in Procs : Acquire(p) \/ Moves(p) \/ Crash(p)
         \/ \E p \in Engines : EngineMoves(p) \/ WritePidFails(p)
<1>1. Engines \subseteq Procs /\ Dogs \subseteq Procs
  BY DEF Procs
<1>2. CASE (\E op \in EngineActions : UserStarts(op)) \/ AutoStart \/ RuntimeRecovery
  <2>1. PICK q \in Engines, op \in EngineActions, by \in {"user", "logon", "recovery"} : Start(q, op, by)
    BY <1>2, HowActionsStart
  <2>2. /\ q \in Procs /\ job[q].pc \in Unlocked /\ \E j : job' = [job EXCEPT ![q] = j]
        /\ UNCHANGED <<runtime, disk, lkg, mutex, loaded, faults, vps, tunnel>>
    BY <1>1, <2>1 DEF Start, Unlocked, files
  <2>3. QED
    BY <2>2, Unowned DEF Bystands
<1>3. ASSUME NEW p \in Procs, LockTimeout(p)
      PROVE  Bystands
  <2>1. /\ job[p].pc \in Unlocked /\ \E j : job' = [job EXCEPT ![p] = j]
        /\ UNCHANGED <<runtime, disk, lkg, mutex, loaded, faults, vps, tunnel>>
    BY <1>3 DEF LockTimeout, Unlocked, files
  <2>2. QED
    BY <2>1, Unowned DEF Bystands
<1>4. CASE SaveConfig \/ ReaderTakesPid \/ ReaderLooksUpProcess \/ TunnelDrops \/ VpsGoesDown
             \/ VpsComesBack \/ ProxifierStops \/ UNCHANGED vars
  <2>1. CASE SaveConfig \/ ReaderTakesPid \/ ReaderLooksUpProcess \/ VpsComesBack \/ UNCHANGED vars
    BY <2>1 DEF SaveConfig, ReaderTakesPid, ReaderLooksUpProcess, VpsComesBack, vars, files, Bystands
  <2>2. CASE TunnelDrops \/ VpsGoesDown \/ ProxifierStops
    BY <2>2 DEF TunnelDrops, VpsGoesDown, ProxifierStops, Fault, files, Bystands
  <2>3. QED
    BY <1>4, <2>1, <2>2
<1>5. CASE \E p \in Engines : EngineStep(p) \/ WritePidFails(p)
  BY <1>1, <1>3, <1>5 DEF EngineStep, Step, Moves, EngineMoves
<1>6. CASE \E d \in Dogs : DogStep(d)
  BY <1>1, <1>3, <1>6, DogsBystand DEF DogStep, Step, Moves
<1>7. CASE \E p \in Procs : LoadFails(p) \/ Crash(p)
  BY <1>7 DEF Moves
<1>8. QED
  BY <1>2, <1>4, <1>5, <1>6, <1>7 DEF Next, Environment

---------------------------------------------------------------------------
\* Traceable is kept: what a step leaves alone.

LEMMA RestKept ==
  ASSUME Rested, runtime'.effective = runtime.effective, disk' = disk, lkg' = lkg,
         loaded' \in {loaded, None}, faults' = 0 => faults = 0, LiveDogs' \subseteq LiveDogs
  PROVE  Rested'
  BY DEF Rested, Clean, Visible

LEMMA HashKept ==
  ASSUME HashIsOfRoutes, runtime'.effective = runtime.effective, runtime'.hash = runtime.hash,
         LiveDogs' \subseteq LiveDogs
  PROVE  HashIsOfRoutes'
  BY DEF HashIsOfRoutes

LEMMA CountsUp ==
  ASSUME Base, faults' \in {faults, faults + 1}, faults' <= 1
  PROVE  faults \in Nat /\ faults <= 1 /\ (faults' = 0 => faults = 0)
         /\ (faults' = faults + 1 => faults = 0 /\ faults' # 0)
<1>1. faults \in Nat
  BY Distinct DEF Base, Types
<1>2. QED
  BY <1>1

\* What the owner of the mutex knows when it moves.
LEMMA OwnStep ==
  ASSUME Base, Traceable, [Next]_vars, NEW p \in Procs, job[p].pc \notin Unlocked,
         job[p].pc # "startdog", faults' \in {faults, faults + 1}, vps' = vps, faults' <= 1
  PROVE  /\ faults \in Nat /\ faults <= 1 /\ mutex = p /\ Shows(job[p]) /\ HashIsOfRoutes
         /\ (faults' = 0 => faults = 0 /\ vps') /\ (faults = 0 => vps)
         /\ LiveDogs' \subseteq LiveDogs
<1>1. faults \in Nat /\ faults <= 1 /\ (faults' = 0 => faults = 0)
  BY CountsUp
<1>2. mutex = p
  BY Owner
<1>3. Shows(job[p]) /\ HashIsOfRoutes /\ (faults = 0 => vps)
  BY <1>1, <1>2 DEF Traceable
<1>4. \A q \in Engines : ~StartWatchdog(q)
  <2> SUFFICES ASSUME NEW q \in Engines, StartWatchdog(q) PROVE FALSE
    OBVIOUS
  <2>1. q \in Procs /\ job[q].pc = "startdog"
    BY DEF Procs, StartWatchdog
  <2>2. p = q
    BY <2>1, OneInside DEF Unlocked
  <2>3. QED
    BY <2>1, <2>2
<1>5. QED
  BY <1>1, <1>2, <1>3, <1>4, FewerDogs

LEMMA GoesOnShowing ==
  ASSUME Base', NEW p \in Procs, mutex' = p,
         faults' <= 1 => (faults' = 0 => vps') /\ HashIsOfRoutes' /\ Shows(job[p])'
  PROVE  Traceable'
<1>1. faults' = 0 => faults' <= 1
  OBVIOUS
<1>2. p # None
  BY Distinct
<1>3. QED
  BY <1>1, <1>2 DEF Traceable

LEMMA EndsRested ==
  ASSUME mutex' = None,
         faults' <= 1 => (faults' = 0 => vps') /\ HashIsOfRoutes' /\ Rested'
  PROVE  Traceable'
<1>1. faults' = 0 => faults' <= 1
  OBVIOUS
<1>2. None \notin Procs
  BY Distinct
<1>3. QED
  BY <1>1, <1>2 DEF Traceable

LEMMA BystandsShowing ==
  ASSUME Base, Bystands, LiveDogs' \subseteq LiveDogs, faults' <= 1,
         NEW p \in Procs, job'[p] = job[p], Shows(job[p])
  PROVE  Shows(job[p])'
<1>1. /\ faults \in Nat /\ (faults' = 0 => faults = 0)
      /\ (faults' = faults + 1 => faults = 0 /\ faults' # 0)
  BY CountsUp DEF Bystands
<1>2. /\ UNCHANGED <<runtime, disk, lkg>> /\ loaded' \in {loaded, None}
      /\ (faults' = faults /\ (tunnel => tunnel')) \/ (faults = 0 /\ faults' # 0)
  BY <1>1 DEF Bystands
<1>3. Clean => Clean'
  BY <1>2 DEF Clean
<1>4. UntouchedFacts(job[p])'
  <2>1. Rested => Rested'
    BY <1>1, <1>2, RestKept
  <2>2. QED
    BY <2>1 DEF Shows, UntouchedFacts, Untouched
<1>5. LoadFacts(job[p])'
  BY <1>1, <1>2, <1>3 DEF Shows, LoadFacts, Lit
<1>6. FirstFacts(job[p])' /\ SecondFacts(job[p])'
  BY <1>2 DEF Shows, FirstFacts, SecondFacts, Kept
<1>7. CommitFacts(job[p])' /\ SettledFacts(job[p])'
  BY <1>1, <1>2, <1>3 DEF Shows, CommitFacts, SettledFacts
<1>8. QED
  BY <1>4, <1>5, <1>6, <1>7 DEF Shows

LEMMA BystandsTraces ==
  ASSUME Base, Base', Traceable, Bystands, LiveDogs' \subseteq LiveDogs
  PROVE  Traceable'
<1> SUFFICES ASSUME faults' <= 1
             PROVE  /\ faults' = 0 => vps'
                    /\ HashIsOfRoutes' /\ (mutex' = None => Rested')
                    /\ \A p \in Procs : mutex' = p => Shows(job[p])'
  <2>1. faults' = 0 => faults' <= 1
    OBVIOUS
  <2>2. QED
    BY <2>1 DEF Traceable
<1>1. /\ faults \in Nat /\ faults <= 1 /\ (faults' = 0 => faults = 0)
      /\ (faults' = faults + 1 => faults = 0 /\ faults' # 0)
  BY CountsUp DEF Bystands
<1>2. faults' = 0 => vps'
  BY <1>1 DEF Traceable, Bystands
<1>3. HashIsOfRoutes'
  BY <1>1, HashKept DEF Traceable, Bystands
<1>4. mutex' = None => Rested'
  BY <1>1, RestKept DEF Traceable, Bystands
<1>5. \A p \in Procs : mutex' = p => Shows(job[p])'
  BY <1>1, BystandsShowing DEF Traceable, Bystands
<1>6. QED
  BY <1>2, <1>3, <1>4, <1>5

---------------------------------------------------------------------------
\* Traceable is kept: the steps of a watchdog or an engine.

LEMMA AcquireTraces ==
  ASSUME Base, Base', Traceable, [Next]_vars, NEW p \in Procs, Acquire(p)
  PROVE  Traceable'
<1>1. PICK pc \in {"stopdog", "provide", "read"} :
        /\ Goto(p, pc) /\ mutex = None /\ mutex' = p
        /\ UNCHANGED <<runtime, disk, lkg, loaded, vps, faults>>
        /\ pc = "stopdog" => job[p].op \in DirectOps
        /\ pc = "provide" => job[p].op = "Watchdog"
  BY DEF Acquire, files, DirectOps
<1>2. job'[p].pc = pc /\ Same(p)
  BY <1>1, GotoKeeps
<1>3. LiveDogs' \subseteq LiveDogs
  <2>1. \A q \in Engines : ~StartWatchdog(q)
    BY <1>1, Distinct DEF StartWatchdog, Base, Exclusion, Unlocked, Procs
  <2>2. QED
    BY <2>1, FewerDogs
<1>4. ASSUME faults' <= 1
      PROVE  (faults' = 0 => vps') /\ HashIsOfRoutes' /\ Shows(job[p])'
  <2>1. HashIsOfRoutes /\ Rested /\ (faults = 0 => vps)
    BY <1>1, <1>4 DEF Traceable
  <2>2. Rested' /\ HashIsOfRoutes'
    BY <1>1, <1>3, <2>1, RestKept, HashKept
  <2>3. /\ UntouchedFacts(job[p])' /\ LoadFacts(job[p])' /\ FirstFacts(job[p])'
        /\ SecondFacts(job[p])' /\ CommitFacts(job[p])'
    BY <1>1, <1>2, <2>2 DEF UntouchedFacts, LoadFacts, FirstFacts, SecondFacts, CommitFacts, Same
  <2>4. SettledFacts(job[p])'
    BY <1>1, <1>2 DEF SettledFacts, Same, Recording, DirectOps
  <2>5. QED
    BY <1>1, <2>1, <2>2, <2>3, <2>4 DEF Shows
<1>5. QED
  BY <1>1, <1>4, GoesOnShowing

LEMMA ReadsTrace ==
  ASSUME Base, Base', Traceable, Fresh, [Next]_vars, NEW p \in Engines,
         ReadForApply(p) \/ ReadForRestart(p)
  PROVE  Traceable'
<1>1. /\ p \in Procs /\ job[p] \in Jobs /\ job \in [Procs -> Jobs] /\ job[p].pc = "read"
      /\ runtime'.effective = runtime.effective /\ runtime'.hash = runtime.hash
      /\ UNCHANGED <<disk, lkg, loaded, mutex, vps, faults>>
  BY AtPlace DEF Procs, Base, JobsSound, Types, Runtimes, ReadForApply, ReadForRestart, files
<1>2. job[p].pc \notin Unlocked
  BY <1>1 DEF Unlocked
<1>3. ~job[p].final
  BY <1>1 DEF Fresh
<1>4. /\ job'[p].pc = "provide" /\ job'[p].op \in {"Apply", "RestartTunnel"}
      /\ job'[p].op = "Apply" => ~job'[p].final /\ job'[p].routes = Kept(job[p])'
  <2>1. CASE ReadForApply(p)
    <3>1. job'[p] = [job[p] EXCEPT !.cfg = config, !.pc = "provide",
                                   !.routes = Provisional(config, runtime.effective)]
      BY <1>1, <2>1 DEF ReadForApply
    <3>2. /\ job'[p].pc = "provide" /\ job'[p].op = job[p].op /\ job'[p].final = job[p].final
          /\ job'[p].cfg = config /\ job'[p].routes = Provisional(config, runtime.effective)
      BY <1>1, <3>1 DEF Jobs
    <3>3. QED
      BY <1>1, <1>3, <2>1, <3>2 DEF Kept, ReadForApply, Provisional
  <2>2. CASE ReadForRestart(p)
    <3>1. job'[p].pc = "provide" /\ job'[p].op = "RestartTunnel"
      BY <1>1, <2>2 DEF ReadForRestart, Jobs
    <3>2. QED
      BY <3>1
  <2>3. QED
    BY <2>1, <2>2
<1>5. ASSUME faults' <= 1
      PROVE  (faults' = 0 => vps') /\ HashIsOfRoutes' /\ Shows(job[p])'
  <2>1. /\ Shows(job[p]) /\ HashIsOfRoutes /\ (faults' = 0 => vps') /\ LiveDogs' \subseteq LiveDogs
    BY <1>1, <1>2, <1>5, OwnStep
  <2>2. Rested
    BY <1>1, <2>1 DEF Shows, UntouchedFacts, Untouched
  <2>3. Rested' /\ HashIsOfRoutes'
    BY <1>1, <2>1, <2>2, RestKept, HashKept
  <2>4. UntouchedFacts(job[p])' /\ LoadFacts(job[p])' /\ CommitFacts(job[p])' /\ SettledFacts(job[p])'
    BY <1>4, <2>3 DEF UntouchedFacts, LoadFacts, CommitFacts, SettledFacts, Recording
  <2>5. FirstFacts(job[p])' /\ SecondFacts(job[p])'
    BY <1>4 DEF FirstFacts, SecondFacts
  <2>6. QED
    BY <2>1, <2>3, <2>4, <2>5 DEF Shows
<1>6. mutex' = p
  BY <1>1, <1>2, Owner
<1>7. QED
  BY <1>1, <1>5, <1>6, GoesOnShowing

\* A process that writes the profile.
LEMMA WritersAt ==
  ASSUME Base, NEW p \in Procs
  PROVE  /\ job[p].pc \in {"provide", "write"} => job[p].op \in WriteOps
         /\ job[p].pc = "load" => job[p].op \in WriteOps \cup DirectOps
         /\ job[p].pc = "commit" => job[p].op \in WriteOps \cup DirectOps
         /\ job[p].op \in DirectOps => p \in Engines /\ job[p].routes = AllDirect
         /\ job[p].routes \in Routes
<1>1. CASE p \in Engines
  BY <1>1, AtPlace DEF EngineSound, Place, WriteOps, DirectOps, EngineActions, Jobs
<1>2. CASE p \in Dogs
  BY <1>2, AtPlace DEF DogSound, WriteOps, DirectOps, Jobs
<1>3. QED
  BY <1>1, <1>2 DEF Procs

LEMMA ProvideTraces ==
  ASSUME Base, Base', Traceable, [Next]_vars, NEW p \in Procs, Provide(p)
  PROVE  Traceable'
<1>1. /\ job[p].pc = "provide" /\ job[p].pc \notin Unlocked
      /\ UNCHANGED <<runtime, disk, lkg, loaded, vps, faults>>
  BY DEF Provide, Unlocked, files
<1>2. mutex = p /\ job[p].op \in WriteOps
  BY <1>1, Owner, WritersAt
<1>3. ASSUME faults' <= 1
      PROVE  /\ faults \in Nat /\ Shows(job[p]) /\ HashIsOfRoutes' /\ (faults' = 0 => vps')
             /\ (faults = 0 => vps) /\ LiveDogs' \subseteq LiveDogs
             /\ Rested => Rested'
  <2>1. /\ faults \in Nat /\ Shows(job[p]) /\ HashIsOfRoutes /\ (faults' = 0 => vps')
        /\ (faults = 0 => vps) /\ LiveDogs' \subseteq LiveDogs
    BY <1>1, <1>3, OwnStep
  <2>2. QED
    BY <1>1, <2>1, HashKept, RestKept
<1>4. CASE Goto(p, "write") /\ mutex' = mutex
  <2>1. job'[p].pc = "write" /\ Same(p)
    BY <1>4, GotoKeeps
  <2>2. Lit(job[p])'
    <3>1. CASE ~AnyVps(job[p].routes)
      BY <2>1, <3>1 DEF Lit, Same, AnyVps
    <3>2. CASE AnyVps(job[p].routes)
      <4>1. tunnel' = vps
        BY <3>2 DEF Provide
      <4>2. CASE vps
        BY <4>1, <4>2 DEF Lit
      <4>3. CASE ~vps
        <5>1. Finish(p, "fail")
          BY <3>2, <4>3 DEF Provide
        <5>2. mutex' = None
          BY <5>1 DEF Finish
        <5>3. QED
          BY <1>2, <1>4, <5>2, Distinct
      <4>4. QED
        BY <4>2, <4>3
    <3>3. QED
      BY <3>1, <3>2
  <2>3. ASSUME faults' <= 1
        PROVE  Shows(job[p])'
    <3>1. /\ faults \in Nat /\ Shows(job[p]) /\ (Rested => Rested')
      BY <1>3, <2>3
    <3>2. UntouchedFacts(job[p])'
      BY <1>1, <1>2, <2>1, <3>1 DEF Shows, UntouchedFacts, Untouched, Same
    <3>3. ~(job[p].op = "Apply" /\ job[p].final) => Clean \/ faults # 0
      BY <1>1, <3>1 DEF Shows, UntouchedFacts, Untouched, Rested
    <3>4. LoadFacts(job[p])'
      BY <1>1, <2>1, <2>2, <3>3 DEF LoadFacts, Same, Clean
    <3>5. FirstFacts(job[p])' /\ SecondFacts(job[p])'
      BY <1>1, <2>1, <3>1 DEF Shows, FirstFacts, SecondFacts, Same, Kept
    <3>6. CommitFacts(job[p])' /\ SettledFacts(job[p])'
      BY <2>1 DEF CommitFacts, SettledFacts, Recording
    <3>7. QED
      BY <3>2, <3>4, <3>5, <3>6 DEF Shows
  <2>4. QED
    BY <1>2, <1>3, <1>4, <2>3, GoesOnShowing
<1>5. CASE Finish(p, "fail") \/ Finish(p, "pass")
  <2>1. mutex' = None
    BY <1>5 DEF Finish
  <2>2. vps => job[p].op = "RestartTunnel"
    <3>1. SUFFICES ASSUME vps, job[p].op # "RestartTunnel" PROVE FALSE
      OBVIOUS
    <3>2. mutex' = mutex
      BY <3>1 DEF Provide
    <3>3. QED
      BY <1>2, <2>1, <3>2, Distinct
  <2>3. ASSUME faults' <= 1
        PROVE  Rested'
    <3>1. /\ Shows(job[p]) /\ (Rested => Rested') /\ (faults = 0 => vps) /\ faults' = faults
      BY <1>1, <1>3, <2>3
    <3>2. CASE ~(job[p].op = "Apply" /\ job[p].final)
      BY <1>1, <3>1, <3>2 DEF Shows, UntouchedFacts, Untouched
    <3>3. CASE job[p].op = "Apply" /\ job[p].final
      <4>1. loaded \in {Kept(job[p]), None} /\ disk = Kept(job[p])
        BY <1>1, <3>1, <3>3 DEF Shows, SecondFacts
      <4>2. faults' # 0
        BY <2>2, <3>1, <3>3
      <4>3. QED
        BY <1>1, <4>1, <4>2 DEF Rested, Visible
    <3>4. QED
      BY <3>2, <3>3
  <2>4. QED
    BY <1>3, <2>1, <2>3, EndsRested
<1>6. QED
  BY <1>4, <1>5 DEF Provide

LEMMA WriteProfileTraces ==
  ASSUME Base, Base', Traceable, [Next]_vars, NEW p \in Procs, WriteProfile(p)
  PROVE  Traceable'
<1>1. /\ job[p].pc = "write" /\ job[p].pc \notin Unlocked /\ disk' = job[p].routes
      /\ Goto(p, "load") /\ UNCHANGED <<runtime, lkg, loaded, tunnel, vps, mutex, faults>>
  BY DEF WriteProfile, Unlocked
<1>2. mutex' = p /\ job[p].op \in WriteOps
  BY <1>1, Owner, WritersAt
<1>3. job'[p].pc = "load" /\ Same(p)
  BY <1>1, GotoKeeps
<1>4. ASSUME faults' <= 1
      PROVE  (faults' = 0 => vps') /\ HashIsOfRoutes' /\ Shows(job[p])'
  <2>1. /\ Shows(job[p]) /\ HashIsOfRoutes /\ (faults' = 0 => vps') /\ LiveDogs' \subseteq LiveDogs
    BY <1>1, <1>4, OwnStep
  <2>2. HashIsOfRoutes'
    BY <1>1, <2>1, HashKept
  <2>3. UntouchedFacts(job[p])'
    BY <1>2, <1>3 DEF UntouchedFacts, Untouched, Same, WriteOps, DirectOps
  <2>4. LoadFacts(job[p])'
    BY <1>1, <1>3, <2>1 DEF Shows, LoadFacts, Same, Clean, Lit
  <2>5. FirstFacts(job[p])' /\ SecondFacts(job[p])'
    BY <1>1, <1>3, <2>1 DEF Shows, FirstFacts, SecondFacts, Same, Kept
  <2>6. CommitFacts(job[p])' /\ SettledFacts(job[p])'
    BY <1>3 DEF CommitFacts, SettledFacts, Recording
  <2>7. QED
    BY <2>1, <2>2, <2>3, <2>4, <2>5, <2>6 DEF Shows
<1>5. QED
  BY <1>2, <1>4, GoesOnShowing

LEMMA LoadTraces ==
  ASSUME Base, Base', Traceable, [Next]_vars, NEW p \in Procs, Load(p)
  PROVE  Traceable'
<1>1. /\ job[p].pc = "load" /\ job[p].pc \notin Unlocked
      /\ loaded' = job[p].routes /\ lkg' = job[p].routes
      /\ Goto(p, AfterLoad(p)) /\ UNCHANGED <<runtime, disk, tunnel, vps, mutex, faults>>
  BY DEF Load, Unlocked
<1>2. mutex' = p
  BY <1>1, Owner
<1>3. job'[p].pc = AfterLoad(p) /\ Same(p)
  BY <1>1, GotoKeeps
<1>4. job'[p].pc = "commit" \/ (job'[p].pc = "resolve" /\ job[p].op = "Apply" /\ ~job[p].final)
  BY <1>3 DEF AfterLoad
<1>5. ASSUME faults' <= 1
      PROVE  (faults' = 0 => vps') /\ HashIsOfRoutes' /\ Shows(job[p])'
  <2>1. /\ Shows(job[p]) /\ HashIsOfRoutes /\ (faults' = 0 => vps') /\ LiveDogs' \subseteq LiveDogs
    BY <1>1, <1>5, OwnStep
  <2>2. HashIsOfRoutes'
    BY <1>1, <2>1, HashKept
  <2>3. UntouchedFacts(job[p])' /\ LoadFacts(job[p])' /\ SettledFacts(job[p])'
    BY <1>4 DEF UntouchedFacts, Untouched, LoadFacts, SettledFacts, Recording
  <2>4. job[p].op \in WriteOps => disk = job[p].routes
    BY <1>1, <2>1 DEF Shows, LoadFacts
  <2>5. CommitFacts(job[p])'
    BY <1>1, <1>3, <2>4 DEF CommitFacts, Same
  <2>6. FirstFacts(job[p])'
    BY <1>1, <1>3, <1>4, <2>1 DEF Shows, FirstFacts, Same, Kept
  <2>7. SecondFacts(job[p])'
    <3>1. CASE job'[p].pc = "commit"
      BY <3>1 DEF SecondFacts
    <3>2. CASE job'[p].pc = "resolve" /\ job[p].op = "Apply" /\ ~job[p].final
      <4>1. job[p].routes = Kept(job[p]) /\ disk = job[p].routes
        BY <1>1, <2>1, <2>4, <3>2 DEF Shows, FirstFacts, WriteOps
      <4>2. Kept(job[p])' = Kept(job[p])
        BY <1>1, <1>3 DEF Kept, Same
      <4>3. QED
        BY <1>1, <1>3, <3>2, <4>1, <4>2 DEF SecondFacts
    <3>3. QED
      BY <1>4, <3>1, <3>2
  <2>8. QED
    BY <2>1, <2>2, <2>3, <2>5, <2>6, <2>7 DEF Shows
<1>6. QED
  BY <1>2, <1>5, GoesOnShowing

\* When the resolved routes are those in effect, so are the first ones.
LEMMA KeptStays ==
  ASSUME NEW c, NEW e, VpsModules(c) \subseteq e, e \subseteq VpsModules(c) \cup AutoModules(c)
  PROVE  Provisional(c, e) = e
  BY DEF VpsModules, AutoModules, Provisional

\* A load that fails after at most one failure leaves what the file can tell.
LEMMA FailedLoadShows ==
  ASSUME Base, NEW p \in Procs, Shows(job[p]), job[p].pc = "load", job[p].op \in WriteOps,
         runtime' = runtime, disk' = disk,
         \/ faults = 0 /\ loaded' \in {loaded, job[p].routes, lkg, None}
         \/ ~Lit(job[p]) /\ loaded' = IF lkg = None THEN job[p].routes ELSE lkg
  PROVE  Visible'
<1>1. disk = job[p].routes
  BY DEF Shows, LoadFacts
<1>2. CASE ~(job[p].op = "Apply" /\ job[p].final)
  <2>1. Clean
    BY <1>2 DEF Shows, LoadFacts
  <2>2. QED
    BY <1>1, <2>1 DEF Clean, Visible
<1>3. CASE job[p].op = "Apply" /\ job[p].final
  <2>1. /\ loaded \in {Kept(job[p]), None} /\ lkg = Kept(job[p])
        /\ VpsModules(job[p].cfg) \subseteq job[p].routes
        /\ job[p].routes \subseteq VpsModules(job[p].cfg) \cup AutoModules(job[p].cfg)
    BY <1>3 DEF Shows, SecondFacts
  <2>2. lkg # None
    <3>1. Kept(job[p]) \in Routes
      BY DEF Kept, Provisional, Routes
    <3>2. QED
      BY <2>1, <3>1, Distinct
  <2>3. loaded' \in {Kept(job[p]), job[p].routes, None}
    BY <2>1, <2>2
  <2>4. job[p].routes = runtime.effective => Kept(job[p]) = runtime.effective
    BY <2>1, KeptStays DEF Kept
  <2>5. QED
    BY <1>1, <2>3, <2>4 DEF Visible
<1>4. QED
  BY <1>2, <1>3

LEMMA LoadUnverifiedTraces ==
  ASSUME Base, Base', Traceable, [Next]_vars, NEW p \in Procs, LoadUnverified(p)
  PROVE  Traceable'
<1>1. /\ job[p].pc = "load" /\ job[p].pc \notin Unlocked /\ ~Lit(job[p])
      /\ loaded' = (IF lkg = None THEN job[p].routes ELSE lkg) /\ FailedLoad(p)
      /\ UNCHANGED <<runtime, disk, lkg, vps, faults>>
  BY DEF LoadUnverified, Unlocked, Lit, files
<1>2. job[p].op \in WriteOps
  BY <1>1, WritersAt DEF Lit, AnyVps
<1>3. mutex' = None
  BY <1>1, <1>2 DEF FailedLoad, WriteOps, Finish
<1>4. ASSUME faults' <= 1
      PROVE  (faults' = 0 => vps') /\ HashIsOfRoutes' /\ Rested'
  <2>1. /\ Shows(job[p]) /\ HashIsOfRoutes /\ (faults' = 0 => vps') /\ LiveDogs' \subseteq LiveDogs
    BY <1>1, <1>4, OwnStep
  <2>2. HashIsOfRoutes'
    BY <1>1, <2>1, HashKept
  <2>3. faults # 0
    BY <1>1, <1>2, <2>1 DEF Shows, LoadFacts
  <2>4. Visible'
    BY <1>1, <1>2, <2>1, FailedLoadShows
  <2>5. QED
    BY <1>1, <2>1, <2>2, <2>3, <2>4 DEF Rested
<1>5. QED
  BY <1>3, <1>4, EndsRested

LEMMA LoadFailsTraces ==
  ASSUME Base, Base', Traceable, Watch, [Next]_vars, NEW p \in Procs, LoadFails(p)
  PROVE  Traceable'
<1>1. /\ job[p].pc = "load" /\ job[p].pc \notin Unlocked /\ faults' = faults + 1
      /\ loaded' \in {loaded, job[p].routes, lkg, None} /\ FailedLoad(p)
      /\ UNCHANGED <<runtime, disk, lkg, vps>>
  BY DEF LoadFails, Unlocked, Fault, files
<1>2. ASSUME faults' <= 1
      PROVE  /\ faults = 0 /\ faults' # 0 /\ Shows(job[p]) /\ HashIsOfRoutes'
             /\ LiveDogs' \subseteq LiveDogs
  <2>1. faults = 0 /\ faults' # 0
    BY <1>1, <1>2, CountsUp
  <2>2. /\ Shows(job[p]) /\ HashIsOfRoutes /\ LiveDogs' \subseteq LiveDogs
    BY <1>1, <1>2, OwnStep
  <2>3. QED
    BY <1>1, <2>1, <2>2, HashKept
<1>3. CASE job[p].op = "StopTunnel"
  <2>1. Goto(p, "commit") /\ mutex' = p
    BY <1>1, <1>3, Owner DEF FailedLoad
  <2>2. job'[p].pc = "commit" /\ job'[p].op = "StopTunnel"
    BY <1>3, <2>1, GotoKeeps DEF Same
  <2>3. faults' # 0 => Shows(job[p])'
    BY <2>2 DEF Shows, UntouchedFacts, Untouched, LoadFacts, FirstFacts, SecondFacts, CommitFacts,
                SettledFacts, WriteOps
  <2>4. QED
    BY <1>2, <2>1, <2>3, GoesOnShowing
<1>4. CASE job[p].op # "StopTunnel"
  <2>1. mutex' = None
    BY <1>1, <1>4 DEF FailedLoad, Finish
  <2>2. ASSUME faults' <= 1
        PROVE  Rested'
    <3>1. CASE job[p].op \in WriteOps
      BY <1>1, <1>2, <2>2, <3>1, FailedLoadShows DEF Rested
    <3>2. CASE job[p].op \notin WriteOps
      <4>1. job[p].op \in DirectOps /\ p \in Engines
        BY <1>1, <3>2, WritersAt
      <4>2. LiveDogs = {}
        BY <1>1, <4>1 DEF Watch, DogIsStopped, DirectOps
      <4>3. QED
        BY <1>2, <2>2, <4>2 DEF Rested
    <3>3. QED
      BY <3>1, <3>2
  <2>3. QED
    BY <1>2, <2>1, <2>2, EndsRested
<1>5. QED
  BY <1>3, <1>4

LEMMA ResolveTraces ==
  ASSUME Base, Base', Traceable, [Next]_vars, NEW p \in Engines, Resolve(p)
  PROVE  Traceable'
<1>1. /\ p \in Procs /\ job[p] \in Jobs /\ job \in [Procs -> Jobs]
      /\ job[p].pc = "resolve" /\ job[p].op = "Apply" /\ job[p].pc \notin Unlocked
      /\ UNCHANGED <<runtime, disk, lkg, loaded, vps, faults>>
  BY AtPlace DEF Resolve, Procs, Base, JobsSound, EngineSound, Place, Unlocked, files
<1>2. mutex = p
  BY <1>1, Owner
<1>3. ASSUME faults' <= 1
      PROVE  /\ Shows(job[p]) /\ HashIsOfRoutes' /\ (faults' = 0 => vps') /\ (faults = 0 => vps)
             /\ loaded \in {Kept(job[p]), None} /\ lkg = Kept(job[p]) /\ disk = Kept(job[p])
  <2>1. /\ Shows(job[p]) /\ HashIsOfRoutes /\ (faults' = 0 => vps') /\ (faults = 0 => vps)
        /\ LiveDogs' \subseteq LiveDogs
    BY <1>1, <1>3, OwnStep
  <2>2. loaded \in {Kept(job[p]), None} /\ lkg = Kept(job[p]) /\ disk = Kept(job[p])
    BY <1>1, <2>1 DEF Shows, SecondFacts
  <2>3. QED
    BY <1>1, <2>1, <2>2, HashKept
<1>4. ASSUME NEW r \in Resolutions(job[p].cfg), mutex' = mutex,
             job' = [job EXCEPT ![p].routes = r, ![p].final = TRUE, ![p].pc = "provide"]
      PROVE  Traceable'
  <2>1. /\ job'[p].pc = "provide" /\ job'[p].op = "Apply" /\ job'[p].final /\ job'[p].routes = r
        /\ job'[p].cfg = job[p].cfg
    BY <1>1, <1>4 DEF Jobs
  <2>2. VpsModules(job[p].cfg) \subseteq r /\ r \subseteq VpsModules(job[p].cfg) \cup AutoModules(job[p].cfg)
    BY DEF Resolutions, VpsModules, AutoModules
  <2>3. Kept(job[p])' = Kept(job[p])
    BY <1>1, <2>1 DEF Kept
  <2>4. ASSUME faults' <= 1
        PROVE  Shows(job[p])'
    <3>1. SecondFacts(job[p])'
      BY <1>1, <1>3, <2>1, <2>2, <2>3, <2>4 DEF SecondFacts
    <3>2. UntouchedFacts(job[p])' /\ LoadFacts(job[p])' /\ FirstFacts(job[p])' /\ CommitFacts(job[p])'
          /\ SettledFacts(job[p])'
      BY <2>1 DEF UntouchedFacts, Untouched, LoadFacts, FirstFacts, CommitFacts, SettledFacts,
                  Recording, DirectOps
    <3>3. QED
      BY <3>1, <3>2 DEF Shows
  <2>5. QED
    BY <1>1, <1>2, <1>3, <1>4, <2>4, GoesOnShowing
<1>5. ASSUME ~vps, Finish(p, "fail")
      PROVE  Traceable'
  <2>1. mutex' = None
    BY <1>5 DEF Finish
  <2>2. ASSUME faults' <= 1
        PROVE  Rested'
    BY <1>1, <1>3, <1>5, <2>2 DEF Rested, Visible
  <2>3. QED
    BY <1>3, <2>1, <2>2, EndsRested
<1>6. QED
  BY <1>4, <1>5 DEF Resolve

LEMMA CommitTraces ==
  ASSUME Base, Base', Traceable, Watch, [Next]_vars, NEW p \in Procs, Commit(p)
  PROVE  Traceable'
<1>1. /\ job[p].pc = "commit" /\ job[p].pc \notin Unlocked
      /\ runtime'.effective = job[p].routes
      /\ runtime'.hash = IF job[p].op = "StopTunnel" THEN runtime.hash ELSE job[p].routes
      /\ UNCHANGED <<disk, lkg, loaded, tunnel, vps, faults>>
  BY DEF Commit, Unlocked
<1>2. mutex = p /\ job[p].op \in WriteOps \cup DirectOps
  BY <1>1, Owner, WritersAt
<1>3. ASSUME job[p].op \in DirectOps, LiveDogs' \subseteq LiveDogs
      PROVE  LiveDogs' = {}
  <2>1. p \in Engines
    BY <1>3, WritersAt
  <2>2. LiveDogs = {}
    BY <1>1, <1>3, <2>1 DEF Watch, DogIsStopped, DirectOps
  <2>3. QED
    BY <1>3, <2>2
<1>4. ASSUME faults' <= 1
      PROVE  /\ faults' = 0 => vps'
             /\ HashIsOfRoutes' /\ Rested'
             /\ job[p].op \in WriteOps => Clean'
  <2>1. /\ Shows(job[p]) /\ (faults' = 0 => vps') /\ LiveDogs' \subseteq LiveDogs
    BY <1>1, <1>4, OwnStep
  <2>2. /\ faults = 0 \/ job[p].op \in WriteOps => loaded \in {job[p].routes, None} /\ lkg = job[p].routes
        /\ job[p].op \in DirectOps => LiveDogs' = {}
    BY <1>1, <1>3, <2>1 DEF Shows, CommitFacts
  <2>3. faults = 0 \/ job[p].op \in WriteOps => Clean'
    BY <1>1, <2>2 DEF Clean
  <2>4. HashIsOfRoutes'
    BY <1>1, <1>2, <2>2 DEF HashIsOfRoutes, DirectOps, WriteOps
  <2>5. Rested'
    BY <1>1, <1>2, <2>2, <2>3 DEF Rested, Clean, Visible
  <2>6. QED
    BY <2>1, <2>3, <2>4, <2>5
<1>5. CASE job[p].op = "Apply"
  <2>1. Goto(p, "stopdog") /\ mutex' = p
    BY <1>2, <1>5 DEF Commit
  <2>2. job'[p].pc = "stopdog" /\ Same(p)
    BY <2>1, GotoKeeps
  <2>3. ASSUME faults' <= 1
        PROVE  Shows(job[p])'
    <3>1. SettledFacts(job[p])'
      BY <1>1, <1>4, <1>5, <2>3 DEF SettledFacts, WriteOps
    <3>2. UntouchedFacts(job[p])' /\ LoadFacts(job[p])' /\ FirstFacts(job[p])' /\ SecondFacts(job[p])'
          /\ CommitFacts(job[p])'
      BY <1>5, <2>2 DEF UntouchedFacts, Untouched, LoadFacts, FirstFacts, SecondFacts, CommitFacts,
                        Same, DirectOps
    <3>3. QED
      BY <3>1, <3>2 DEF Shows
  <2>4. QED
    BY <1>4, <2>1, <2>3, GoesOnShowing
<1>6. CASE job[p].op = "StopTunnel"
  <2>1. Goto(p, "stoptunnel") /\ mutex' = p
    BY <1>2, <1>6 DEF Commit
  <2>2. job'[p].pc = "stoptunnel" /\ Same(p)
    BY <2>1, GotoKeeps
  <2>3. ASSUME faults' <= 1
        PROVE  Shows(job[p])'
    BY <1>4, <2>2, <2>3 DEF Shows, UntouchedFacts, LoadFacts, FirstFacts, SecondFacts, CommitFacts,
                            SettledFacts, Recording
  <2>4. QED
    BY <1>4, <2>1, <2>3, GoesOnShowing
<1>7. CASE job[p].op \notin {"Apply", "StopTunnel"}
  <2>1. mutex' = None
    BY <1>7 DEF Commit, Finish
  <2>2. QED
    BY <1>4, <2>1, EndsRested
<1>8. QED
  BY <1>5, <1>6, <1>7

LEMMA StopPuttyTraces ==
  ASSUME Base, Traceable, [Next]_vars, NEW p \in Engines, StopPutty(p)
  PROVE  Traceable'
<1>1. /\ p \in Procs /\ job[p].pc = "stoptunnel" /\ job[p].pc \notin Unlocked /\ mutex' = None
      /\ UNCHANGED <<runtime, disk, lkg, loaded, vps, faults>>
  BY DEF StopPutty, Finish, Procs, Unlocked, files
<1>2. ASSUME faults' <= 1
      PROVE  (faults' = 0 => vps') /\ HashIsOfRoutes' /\ Rested'
  <2>1. /\ Shows(job[p]) /\ HashIsOfRoutes /\ (faults' = 0 => vps') /\ LiveDogs' \subseteq LiveDogs
    BY <1>1, <1>2, OwnStep
  <2>2. Rested
    BY <1>1, <2>1 DEF Shows, UntouchedFacts, Untouched
  <2>3. QED
    BY <1>1, <2>1, <2>2, RestKept, HashKept
<1>3. QED
  BY <1>1, <1>2, EndsRested

LEMMA StopWatchdogTraces ==
  ASSUME Base, Base', Traceable, [Next]_vars, NEW p \in Engines, StopWatchdog(p)
  PROVE  Traceable'
<1>1. /\ p \in Procs /\ job[p] \in Jobs /\ job[p].pc = "stopdog" /\ job[p].pc \notin Unlocked
      /\ UNCHANGED <<runtime, disk, lkg, loaded, tunnel, vps, mutex, faults>>
  BY AtPlace DEF StopWatchdog, Procs, Unlocked, files
<1>2. PICK pc \in {"load", "startdog", "verify"} :
        /\ job'[p] = [job[p] EXCEPT !.pc = pc]
        /\ pc = "load" => job[p].op # "Apply"
        /\ pc # "load" => job[p].op = "Apply"
  BY StopWatchdogJobs
<1>3. job'[p].pc = pc /\ Same(p)
  BY <1>1, <1>2 DEF Same, Jobs
<1>4. job[p].op \in {"Apply"} \cup DirectOps
  BY <1>1, AtPlace DEF EngineSound, Place, EngineActions, DirectOps
<1>5. ASSUME faults' <= 1
      PROVE  (faults' = 0 => vps') /\ HashIsOfRoutes' /\ Shows(job[p])'
  <2>1. /\ Shows(job[p]) /\ HashIsOfRoutes /\ (faults' = 0 => vps') /\ LiveDogs' \subseteq LiveDogs
    BY <1>1, <1>5, OwnStep
  <2>2. HashIsOfRoutes' /\ (Rested => Rested')
    BY <1>1, <2>1, HashKept, RestKept
  <2>3. UntouchedFacts(job[p])'
    BY <1>1, <1>2, <1>3, <1>4, <2>1, <2>2 DEF Shows, UntouchedFacts, Untouched, Same, DirectOps
  <2>4. LoadFacts(job[p])' /\ FirstFacts(job[p])' /\ SecondFacts(job[p])' /\ CommitFacts(job[p])'
    BY <1>2, <1>3, <1>4 DEF LoadFacts, FirstFacts, SecondFacts, CommitFacts, Same, WriteOps, DirectOps
  <2>5. SettledFacts(job[p])'
    BY <1>1, <1>3, <2>1 DEF Shows, SettledFacts, Same, Recording, Clean
  <2>6. QED
    BY <2>1, <2>2, <2>3, <2>4, <2>5 DEF Shows
<1>6. QED
  BY <1>1, <1>5, Owner, GoesOnShowing

\* An Apply that has recorded its routes goes on.
LEMMA SettledGoesOn ==
  ASSUME NEW p \in Engines, job[p].op = "Apply", job[p].pc \in Recording, Shows(job[p]),
         UNCHANGED <<runtime, lkg, loaded>>, job'[p].op = "Apply", job'[p].pc \in {"pid", "verify"}
  PROVE  Shows(job[p])'
<1>1. SettledFacts(job[p])'
  BY DEF Shows, SettledFacts, Clean
<1>2. UntouchedFacts(job[p])' /\ LoadFacts(job[p])' /\ FirstFacts(job[p])' /\ SecondFacts(job[p])'
      /\ CommitFacts(job[p])'
  BY DEF UntouchedFacts, Untouched, LoadFacts, FirstFacts, SecondFacts, CommitFacts
<1>3. QED
  BY <1>1, <1>2 DEF Shows

LEMMA StartWatchdogTraces ==
  ASSUME Base, Base', Traceable, NEW p \in Engines, StartWatchdog(p)
  PROVE  Traceable'
<1>1. /\ p \in Procs /\ job[p] \in Jobs /\ job[p].pc = "startdog" /\ job[p].pc \notin Unlocked
      /\ UNCHANGED <<runtime, disk, lkg, loaded, tunnel, vps, mutex, faults>>
      /\ job[p].op = "Apply"
  BY AtPlace DEF StartWatchdog, Procs, Unlocked, files, EngineSound, Place
<1>2. mutex = p
  BY <1>1, Owner
<1>3. job'[p].pc = "pid" /\ job'[p].op = "Apply"
  <2>1. PICK d \in Dogs : job'[p] = [job[p] EXCEPT !.pc = "pid", !.started = d]
    BY StartWatchdogJobs
  <2>2. QED
    BY <1>1, <2>1 DEF Jobs
<1>4. ASSUME faults' <= 1
      PROVE  (faults' = 0 => vps') /\ HashIsOfRoutes' /\ Shows(job[p])'
  <2>1. Shows(job[p]) /\ (faults' = 0 => vps')
    BY <1>1, <1>2, <1>4 DEF Traceable
  <2>2. runtime.hash = runtime.effective
    BY <1>1, <2>1 DEF Shows, SettledFacts, Recording
  <2>3. HashIsOfRoutes'
    BY <1>1, <2>2 DEF HashIsOfRoutes
  <2>4. Shows(job[p])'
    BY <1>1, <1>3, <2>1, SettledGoesOn DEF Recording
  <2>5. QED
    BY <2>1, <2>3, <2>4
<1>5. QED
  BY <1>1, <1>2, <1>4, GoesOnShowing

LEMMA WritePidTraces ==
  ASSUME Base, Base', Traceable, [Next]_vars, NEW p \in Engines, WritePid(p)
  PROVE  Traceable'
<1>1. /\ p \in Procs /\ job[p].pc = "pid" /\ job[p].pc \notin Unlocked /\ Goto(p, "verify")
      /\ UNCHANGED <<runtime, disk, lkg, loaded, tunnel, vps, mutex, faults>>
      /\ job[p].op = "Apply"
  BY AtPlace DEF WritePid, Procs, Unlocked, files, EngineSound, Place
<1>2. job'[p].pc = "verify" /\ job'[p].op = "Apply"
  BY <1>1, GotoKeeps DEF Same
<1>3. ASSUME faults' <= 1
      PROVE  (faults' = 0 => vps') /\ HashIsOfRoutes' /\ Shows(job[p])'
  <2>1. /\ Shows(job[p]) /\ HashIsOfRoutes /\ (faults' = 0 => vps') /\ LiveDogs' \subseteq LiveDogs
    BY <1>1, <1>3, OwnStep
  <2>2. QED
    BY <1>1, <1>2, <2>1, HashKept, SettledGoesOn DEF Recording
<1>4. QED
  BY <1>1, <1>3, Owner, GoesOnShowing

LEMMA VerifyWatchdogTraces ==
  ASSUME Base, Traceable, [Next]_vars, NEW p \in Engines, VerifyWatchdog(p)
  PROVE  Traceable'
<1>1. /\ p \in Procs /\ job[p].pc = "verify" /\ job[p].pc \notin Unlocked /\ mutex' = None
      /\ UNCHANGED <<runtime, disk, lkg, loaded, tunnel, vps, faults>>
      /\ job[p].op = "Apply"
  BY AtPlace DEF VerifyWatchdog, Finish, Procs, Unlocked, files, EngineSound, Place
<1>2. ASSUME faults' <= 1
      PROVE  (faults' = 0 => vps') /\ HashIsOfRoutes' /\ Rested'
  <2>1. /\ Shows(job[p]) /\ HashIsOfRoutes /\ (faults' = 0 => vps') /\ LiveDogs' \subseteq LiveDogs
    BY <1>1, <1>2, OwnStep
  <2>2. Clean
    BY <1>1, <2>1 DEF Shows, SettledFacts, Recording
  <2>3. Rested'
    BY <1>1, <2>2 DEF Rested, Clean, Visible
  <2>4. QED
    BY <1>1, <2>1, <2>3, HashKept
<1>3. QED
  BY <1>1, <1>2, EndsRested

LEMMA KeepsTraceable ==
  ASSUME Base, Traceable, Fresh, Watch, [Next]_vars, Calm
  PROVE  Traceable'
<1>1. Base'
  BY NextBase
<1>2. ASSUME NEW p \in Procs, Acquire(p) \/ Moves(p)
      PROVE  Traceable'
  BY <1>1, <1>2, AcquireTraces, ProvideTraces, WriteProfileTraces, LoadTraces, LoadUnverifiedTraces,
     LoadFailsTraces, CommitTraces DEF Moves
<1>3. ASSUME NEW p \in Engines, EngineMoves(p)
      PROVE  Traceable'
  BY <1>1, <1>3, ReadsTrace, ResolveTraces, StopPuttyTraces, StopWatchdogTraces, StartWatchdogTraces,
     WritePidTraces, VerifyWatchdogTraces DEF EngineMoves
<1>4. CASE Bystands /\ \A p \in Engines : ~StartWatchdog(p)
  BY <1>1, <1>4, FewerDogs, BystandsTraces
<1>5. QED
  BY <1>2, <1>3, <1>4, StepKinds DEF Calm, EngineMoves

---------------------------------------------------------------------------
\* The one failure is the death of a process or a pid file not written: a
\* watchdog may be left that nobody knows, but whatever is begun now passes.

\* What DivergenceIsVisible says, and the hash is that of the routes.
Evident ==
  (runtime.override = "NONE" /\ LiveDogs # {}) => runtime.hash = runtime.effective /\ Visible

Succeeds(j) ==
  /\ j.pc \in {"read", "stoptunnel"} \/ (j.pc = "provide" /\ j.op = "RestartTunnel") => Evident
  /\ j.pc \in {"write", "load"} => Lit(j)
  /\ j.pc = "commit" => loaded \in {j.routes, None}
  /\ (j.op = "Apply" /\ j.pc \in Recording) =>
       runtime.hash = runtime.effective /\ loaded \in {runtime.effective, None}

Spent ==
  /\ faults # 0
  /\ faults = 1 => /\ vps
                   /\ mutex = None => Evident
                   /\ \A p \in Procs : mutex = p => Succeeds(job[p])

---------------------------------------------------------------------------
\* Spent is kept.

LEMMA EvidentKept ==
  ASSUME Evident, UNCHANGED <<runtime, disk>>, loaded' \in {loaded, None}, LiveDogs' \subseteq LiveDogs
  PROVE  Evident'
  BY DEF Evident, Visible

LEMMA GoesOnSucceeding ==
  ASSUME NEW p \in Procs, mutex' = p, faults' # 0, faults' = 1 => vps' /\ Succeeds(job[p])'
  PROVE  Spent'
<1>1. p # None
  BY Distinct
<1>2. QED
  BY <1>1 DEF Spent

LEMMA EndsEvident ==
  ASSUME mutex' = None, faults' # 0, faults' = 1 => vps' /\ Evident'
  PROVE  Spent'
<1>1. None \notin Procs
  BY Distinct
<1>2. QED
  BY <1>1 DEF Spent

LEMMA SecondFailure ==
  ASSUME Base, Spent, faults' = faults + 1
  PROVE  Spent'
<1>1. faults \in Nat
  BY Distinct DEF Base, Types
<1>2. faults' # 0 /\ faults' # 1
  BY <1>1 DEF Spent
<1>3. QED
  BY <1>2 DEF Spent

LEMMA BystandsSpent ==
  ASSUME Base, Spent, Bystands, LiveDogs' \subseteq LiveDogs
  PROVE  Spent'
<1>1. CASE faults' = faults + 1
  BY <1>1, SecondFailure
<1>2. CASE faults' = faults /\ (tunnel => tunnel') /\ (vps => vps')
  <2>1. UNCHANGED <<runtime, disk, lkg, mutex>> /\ loaded' \in {loaded, None}
    BY DEF Bystands
  <2>2. Evident => Evident'
    BY <2>1, EvidentKept
  <2>3. ASSUME faults = 1, NEW p \in Procs, mutex = p
        PROVE  Succeeds(job[p])'
    <3>1. Succeeds(job[p]) /\ job'[p] = job[p]
      BY <2>3 DEF Spent, Bystands
    <3>2. QED
      BY <1>2, <2>1, <2>2, <3>1 DEF Succeeds, Lit
  <2>4. QED
    BY <1>2, <2>1, <2>2, <2>3 DEF Spent
<1>3. QED
  BY <1>1, <1>2 DEF Bystands

LEMMA AcquireSpent ==
  ASSUME Base, Spent, [Next]_vars, NEW p \in Procs, Acquire(p)
  PROVE  Spent'
<1>1. PICK pc \in {"stopdog", "provide", "read"} :
        /\ Goto(p, pc) /\ mutex = None /\ mutex' = p
        /\ UNCHANGED <<runtime, disk, loaded, vps, faults>>
        /\ pc = "stopdog" => job[p].op # "Apply"
        /\ pc = "provide" => job[p].op = "Watchdog"
  BY DEF Acquire, files
<1>2. job'[p].pc = pc /\ Same(p)
  BY <1>1, GotoKeeps
<1>3. LiveDogs' \subseteq LiveDogs
  <2>1. \A q \in Engines : ~StartWatchdog(q)
    BY <1>1, Distinct DEF StartWatchdog, Base, Exclusion, Unlocked, Procs
  <2>2. QED
    BY <2>1, FewerDogs
<1>4. ASSUME faults' = 1
      PROVE  vps' /\ Succeeds(job[p])'
  <2>1. vps /\ Evident
    BY <1>1, <1>4 DEF Spent
  <2>2. Evident'
    BY <1>1, <1>3, <2>1, EvidentKept
  <2>3. QED
    BY <1>1, <1>2, <2>1, <2>2 DEF Succeeds, Same, Recording
<1>5. QED
  BY <1>1, <1>4, GoesOnSucceeding DEF Spent

\* What the owner knows.
LEMMA OwnSpent ==
  ASSUME Base, Spent, [Next]_vars, NEW p \in Procs, job[p].pc \notin Unlocked, faults' = faults
  PROVE  /\ mutex = p /\ faults' # 0
         /\ faults' = 1 => vps /\ Succeeds(job[p])
         /\ job[p].pc # "startdog" => LiveDogs' \subseteq LiveDogs
<1>1. mutex = p
  BY Owner
<1>2. ASSUME NEW q \in Engines, StartWatchdog(q)
      PROVE  job[p].pc = "startdog"
  <2>1. q \in Procs /\ job[q].pc = "startdog"
    BY <1>2 DEF Procs, StartWatchdog
  <2>2. QED
    BY <2>1, OneInside DEF Unlocked
<1>3. job[p].pc # "startdog" => LiveDogs' \subseteq LiveDogs
  BY <1>2, FewerDogs
<1>4. QED
  BY <1>1, <1>3 DEF Spent

LEMMA ReadsSpent ==
  ASSUME Base, Spent, [Next]_vars, NEW p \in Engines, ReadForApply(p) \/ ReadForRestart(p)
  PROVE  Spent'
<1>1. /\ p \in Procs /\ job[p] \in Jobs /\ job \in [Procs -> Jobs] /\ job[p].pc = "read"
      /\ job[p].pc \notin Unlocked /\ UNCHANGED <<disk, loaded, mutex, vps, faults>>
  BY AtPlace DEF Procs, Base, JobsSound, ReadForApply, ReadForRestart, files, Unlocked
<1>2. job'[p].pc = "provide" /\ (ReadForApply(p) => job'[p].op = "Apply")
  BY <1>1 DEF ReadForApply, ReadForRestart, Jobs
<1>3. mutex' = p /\ faults' # 0 /\ (faults' = 1 => vps /\ Evident) /\ LiveDogs' \subseteq LiveDogs
  BY <1>1, OwnSpent DEF Succeeds
<1>4. ReadForRestart(p) /\ Evident => Evident'
  BY <1>1, <1>3, EvidentKept DEF ReadForRestart, files
<1>5. faults' = 1 => Succeeds(job[p])'
  BY <1>2, <1>3, <1>4 DEF Succeeds, Recording
<1>6. QED
  BY <1>1, <1>3, <1>5, GoesOnSucceeding

LEMMA ProvideSpent ==
  ASSUME Base, Spent, [Next]_vars, NEW p \in Procs, Provide(p)
  PROVE  Spent'
<1>1. /\ job[p].pc = "provide" /\ job[p].pc \notin Unlocked
      /\ UNCHANGED <<runtime, disk, loaded, vps, faults>>
  BY DEF Provide, Unlocked, files
<1>2. mutex = p /\ faults' # 0 /\ (faults' = 1 => vps /\ Succeeds(job[p])) /\ LiveDogs' \subseteq LiveDogs
  BY <1>1, OwnSpent
<1>3. CASE AnyVps(job[p].routes) \/ job[p].op # "RestartTunnel"
  <2>1. vps => Goto(p, "write") /\ mutex' = mutex
    BY <1>3 DEF Provide
  <2>2. vps /\ AnyVps(job[p].routes) => tunnel'
    BY DEF Provide
  <2>3. ASSUME vps
        PROVE  Succeeds(job[p])'
    <3>1. job'[p].pc = "write" /\ Same(p)
      BY <2>1, <2>3, GotoKeeps
    <3>2. Lit(job[p])'
      BY <2>2, <2>3, <3>1 DEF Lit, Same, AnyVps
    <3>3. QED
      BY <3>1, <3>2 DEF Succeeds, Recording
  <2>4. CASE vps
    BY <1>1, <1>2, <2>1, <2>3, <2>4, GoesOnSucceeding
  <2>5. CASE ~vps
    <3>1. faults' # 1 /\ faults' # 0
      BY <1>2, <2>5
    <3>2. QED
      BY <3>1 DEF Spent
  <2>6. QED
    BY <2>4, <2>5
<1>4. CASE ~(AnyVps(job[p].routes) \/ job[p].op # "RestartTunnel")
  <2>1. mutex' = None
    BY <1>4 DEF Provide, Finish
  <2>2. faults' = 1 => vps' /\ Evident'
    BY <1>1, <1>2, <1>4, EvidentKept DEF Succeeds
  <2>3. QED
    BY <1>2, <2>1, <2>2, EndsEvident
<1>5. QED
  BY <1>3, <1>4

LEMMA LoadsSpent ==
  ASSUME Base, Spent, [Next]_vars, NEW p \in Procs,
         WriteProfile(p) \/ Load(p) \/ LoadUnverified(p) \/ LoadFails(p)
  PROVE  Spent'
<1>1. CASE WriteProfile(p)
  <2>1. /\ job[p].pc = "write" /\ job[p].pc \notin Unlocked /\ Goto(p, "load")
        /\ UNCHANGED <<tunnel, vps, mutex, faults>>
    BY <1>1 DEF WriteProfile, Unlocked
  <2>2. job'[p].pc = "load" /\ Same(p)
    BY <2>1, GotoKeeps
  <2>3. mutex = p /\ faults' # 0 /\ (faults' = 1 => vps /\ Lit(job[p]))
    BY <2>1, OwnSpent DEF Succeeds
  <2>4. faults' = 1 => Succeeds(job[p])'
    BY <2>1, <2>2, <2>3 DEF Succeeds, Lit, Same, Recording
  <2>5. QED
    BY <2>1, <2>3, <2>4, GoesOnSucceeding
<1>2. CASE Load(p)
  <2>1. /\ job[p].pc = "load" /\ job[p].pc \notin Unlocked /\ loaded' = job[p].routes
        /\ Goto(p, AfterLoad(p)) /\ UNCHANGED <<vps, mutex, faults>>
    BY <1>2 DEF Load, Unlocked
  <2>2. job'[p].pc \in {"resolve", "commit"} /\ Same(p)
    BY <2>1, GotoKeeps DEF AfterLoad
  <2>3. Succeeds(job[p])'
    BY <2>1, <2>2 DEF Succeeds, Same, Recording
  <2>4. QED
    BY <2>1, <2>3, OwnSpent, GoesOnSucceeding
<1>3. CASE LoadUnverified(p)
  <2>1. job[p].pc = "load" /\ job[p].pc \notin Unlocked /\ ~Lit(job[p]) /\ UNCHANGED <<vps, faults>>
    BY <1>3 DEF LoadUnverified, Unlocked, Lit
  <2>2. faults' # 0 /\ faults' # 1
    BY <2>1, OwnSpent DEF Succeeds
  <2>3. QED
    BY <2>2 DEF Spent
<1>4. CASE LoadFails(p)
  BY <1>4, SecondFailure DEF LoadFails, Fault
<1>5. QED
  BY <1>1, <1>2, <1>3, <1>4

LEMMA ResolveSpent ==
  ASSUME Base, Spent, [Next]_vars, NEW p \in Engines, Resolve(p)
  PROVE  Spent'
<1>1. /\ p \in Procs /\ job[p] \in Jobs /\ job \in [Procs -> Jobs]
      /\ job[p].pc = "resolve" /\ job[p].op = "Apply" /\ job[p].pc \notin Unlocked
      /\ UNCHANGED <<vps, faults>>
  BY AtPlace DEF Resolve, Procs, Base, JobsSound, EngineSound, Place, Unlocked
<1>2. mutex = p /\ faults' # 0 /\ (faults' = 1 => vps)
  BY <1>1, OwnSpent
<1>3. CASE ~vps
  <2>1. faults' # 1
    BY <1>2, <1>3
  <2>2. QED
    BY <1>2, <2>1 DEF Spent
<1>4. CASE vps
  <2>1. PICK r :
          job' = [job EXCEPT ![p].routes = r, ![p].final = TRUE, ![p].pc = "provide"] /\ mutex' = mutex
    BY <1>4 DEF Resolve
  <2>2. job'[p].pc = "provide" /\ job'[p].op = "Apply"
    BY <1>1, <2>1 DEF Jobs
  <2>3. Succeeds(job[p])'
    BY <2>2 DEF Succeeds, Recording
  <2>4. QED
    BY <1>1, <1>2, <2>1, <2>3, GoesOnSucceeding
<1>5. QED
  BY <1>3, <1>4

LEMMA CommitSpent ==
  ASSUME Base, Spent, [Next]_vars, NEW p \in Procs, Commit(p)
  PROVE  Spent'
<1>1. /\ job[p].pc = "commit" /\ job[p].pc \notin Unlocked
      /\ UNCHANGED <<disk, loaded, vps, faults>>
      /\ runtime'.effective = job[p].routes
      /\ job[p].op \in DirectOps => runtime'.override = "DIRECT"
      /\ job[p].op # "StopTunnel" => runtime'.hash = job[p].routes
  BY DEF Commit, Unlocked, DirectOps
<1>2. mutex = p /\ faults' # 0 /\ (faults' = 1 => vps /\ loaded \in {job[p].routes, None})
  BY <1>1, OwnSpent DEF Succeeds
<1>3. faults' = 1 => Evident'
  BY <1>1, <1>2 DEF Evident, Visible, DirectOps
<1>4. CASE job[p].op = "Apply"
  <2>1. Goto(p, "stopdog") /\ mutex' = p
    BY <1>2, <1>4 DEF Commit
  <2>2. job'[p].pc = "stopdog"
    BY <2>1, GotoKeeps
  <2>3. faults' = 1 => Succeeds(job[p])'
    BY <1>1, <1>2, <1>4, <2>2 DEF Succeeds
  <2>4. QED
    BY <1>1, <1>2, <2>1, <2>3, GoesOnSucceeding
<1>5. CASE job[p].op = "StopTunnel"
  <2>1. Goto(p, "stoptunnel") /\ mutex' = p
    BY <1>2, <1>5 DEF Commit
  <2>2. job'[p].pc = "stoptunnel"
    BY <2>1, GotoKeeps
  <2>3. faults' = 1 => Succeeds(job[p])'
    BY <1>3, <2>2 DEF Succeeds, Recording
  <2>4. QED
    BY <1>1, <1>2, <2>1, <2>3, GoesOnSucceeding
<1>6. CASE job[p].op \notin {"Apply", "StopTunnel"}
  <2>1. mutex' = None
    BY <1>6 DEF Commit, Finish
  <2>2. QED
    BY <1>1, <1>2, <1>3, <2>1, EndsEvident
<1>7. QED
  BY <1>4, <1>5, <1>6

LEMMA StopWatchdogSpent ==
  ASSUME Base, Spent, [Next]_vars, NEW p \in Engines, StopWatchdog(p)
  PROVE  Spent'
<1>1. /\ p \in Procs /\ job[p] \in Jobs /\ job[p].pc = "stopdog" /\ job[p].pc \notin Unlocked
      /\ UNCHANGED <<runtime, loaded, vps, mutex, faults>>
  BY AtPlace DEF StopWatchdog, Procs, Unlocked, files
<1>2. PICK pc \in {"load", "startdog", "verify"} :
        /\ job'[p] = [job[p] EXCEPT !.pc = pc]
        /\ pc = "load" => job[p].op # "Apply"
        /\ pc # "load" => job[p].op = "Apply"
  BY StopWatchdogJobs
<1>3. job'[p].pc = pc /\ Same(p)
  BY <1>1, <1>2 DEF Same, Jobs
<1>4. pc = "load" => Lit(job[p])'
  <2>1. pc = "load" => job[p].op \in DirectOps
    BY <1>1, <1>2, AtPlace DEF EngineSound, Place, EngineActions, DirectOps
  <2>2. pc = "load" => job'[p].routes = AllDirect
    BY <1>1, <1>3, <2>1, WritersAt DEF Same
  <2>3. QED
    BY <2>2 DEF Lit, AnyVps
<1>5. mutex = p /\ faults' # 0 /\ (faults' = 1 => vps /\ Succeeds(job[p]))
  BY <1>1, OwnSpent
<1>6. faults' = 1 => Succeeds(job[p])'
  BY <1>1, <1>3, <1>4, <1>5 DEF Succeeds, Same, Recording
<1>7. QED
  BY <1>1, <1>5, <1>6, GoesOnSucceeding

LEMMA EndgameSpent ==
  ASSUME Base, Spent, [Next]_vars, NEW p \in Engines,
         StopPutty(p) \/ StartWatchdog(p) \/ WritePid(p) \/ VerifyWatchdog(p)
  PROVE  Spent'
<1>1. /\ p \in Procs /\ job[p] \in Jobs
      /\ job[p].pc \in {"stoptunnel", "startdog", "pid", "verify"} /\ job[p].pc \notin Unlocked
      /\ UNCHANGED <<runtime, disk, loaded, vps, faults>>
      /\ job[p].pc # "stoptunnel" => job[p].op = "Apply"
  BY AtPlace DEF StopPutty, StartWatchdog, WritePid, VerifyWatchdog, Procs, Unlocked, files,
                 EngineSound, Place
<1>2. /\ mutex = p /\ faults' # 0
      /\ faults' = 1 => vps /\ Succeeds(job[p])
      /\ job[p].pc # "startdog" => LiveDogs' \subseteq LiveDogs
  BY <1>1, OwnSpent
<1>3. CASE StopPutty(p)
  <2>1. job[p].pc = "stoptunnel" /\ mutex' = None
    BY <1>3 DEF StopPutty, Finish
  <2>2. faults' = 1 => Evident'
    BY <1>1, <1>2, <2>1, EvidentKept DEF Succeeds
  <2>3. QED
    BY <1>1, <1>2, <2>1, <2>2, EndsEvident
<1>4. CASE VerifyWatchdog(p)
  <2>1. job[p].pc = "verify" /\ mutex' = None
    BY <1>4 DEF VerifyWatchdog, Finish
  <2>2. faults' = 1 => runtime.hash = runtime.effective /\ loaded \in {runtime.effective, None}
    BY <1>1, <1>2, <2>1 DEF Succeeds, Recording
  <2>3. faults' = 1 => Evident'
    BY <1>1, <2>2 DEF Evident, Visible
  <2>4. QED
    BY <1>1, <1>2, <2>1, <2>3, EndsEvident
<1>5. CASE StartWatchdog(p) \/ WritePid(p)
  <2>1. /\ mutex' = mutex /\ job[p].pc \in {"startdog", "pid"}
        /\ job'[p].pc \in {"pid", "verify"}
    <3>1. CASE StartWatchdog(p)
      <4>1. PICK d \in Dogs : job'[p] = [job[p] EXCEPT !.pc = "pid", !.started = d]
        BY <3>1, StartWatchdogJobs
      <4>2. job'[p].pc = "pid"
        BY <1>1, <4>1 DEF Jobs
      <4>3. QED
        BY <3>1, <4>2 DEF StartWatchdog
    <3>2. CASE WritePid(p)
      BY <1>1, <3>2, GotoKeeps DEF WritePid
    <3>3. QED
      BY <1>5, <3>1, <3>2
  <2>2. faults' = 1 => Succeeds(job[p])'
    BY <1>1, <1>2, <2>1 DEF Succeeds, Recording
  <2>3. QED
    BY <1>1, <1>2, <2>1, <2>2, GoesOnSucceeding
<1>6. QED
  BY <1>3, <1>4, <1>5

LEMMA KeepsSpent ==
  ASSUME Base, Spent, [Next]_vars
  PROVE  Spent'
<1>1. ASSUME NEW p \in Procs, Acquire(p) \/ Moves(p)
      PROVE  Spent'
  BY <1>1, AcquireSpent, ProvideSpent, LoadsSpent, CommitSpent DEF Moves
<1>2. ASSUME NEW p \in Engines, EngineMoves(p)
      PROVE  Spent'
  BY <1>2, ReadsSpent, ResolveSpent, StopWatchdogSpent, EndgameSpent DEF EngineMoves
<1>3. CASE (\E p \in Procs : Crash(p)) \/ (\E p \in Engines : WritePidFails(p))
  BY <1>3, SecondFailure DEF Crash, WritePidFails, Fault
<1>4. CASE Bystands /\ \A p \in Engines : ~StartWatchdog(p)
  BY <1>4, FewerDogs, BystandsSpent
<1>5. QED
  BY <1>1, <1>2, <1>3, <1>4, StepKinds DEF EngineMoves

---------------------------------------------------------------------------
\* From Traceable to Spent.

LEMMA EvidentWhen ==
  ASSUME HashIsOfRoutes, LiveDogs # {} => Visible, UNCHANGED <<runtime, disk, loaded>>,
         LiveDogs' \subseteq LiveDogs
  PROVE  Evident'
  BY DEF HashIsOfRoutes, Evident, Visible

\* Wherever the first failure finds the owner of the mutex, the file tells.
LEMMA AlwaysVisible ==
  ASSUME Base, Watch, faults = 0, NEW p \in Procs, mutex = p, Shows(job[p]), LiveDogs # {}
  PROVE  Visible
<1>1. /\ job[p].pc \notin Unlocked /\ job[p].pc \in Pcs \cup DogPcs
      /\ job[p].pc \in Recording \ {"stopdog"} => job[p].op = "Apply"
      /\ job[p].pc = "stopdog" => job[p].op \in DirectOps \cup {"Apply"}
      /\ job[p].pc = "resolve" => job[p].op = "Apply"
  <2>1. job[p].pc \notin Unlocked
    BY DEF Base, Exclusion
  <2>2. CASE p \in Engines
    BY <2>1, <2>2, AtPlace DEF EngineSound, Place, EngineActions, DirectOps, Recording
  <2>3. CASE p \in Dogs
    BY <2>1, <2>3, AtPlace DEF DogSound, DogPcs, Recording
  <2>4. QED
    BY <2>2, <2>3 DEF Procs
<1>2. CASE Untouched(job[p])
  BY <1>2 DEF Shows, UntouchedFacts, Rested
<1>3. CASE job[p].op = "Apply" /\ job[p].pc \in Recording
  BY <1>3 DEF Shows, SettledFacts, Clean, Visible
<1>4. CASE job[p].op = "Apply" /\ job[p].final /\ job[p].pc \in {"provide", "write", "load"}
  <2>1. /\ loaded \in {Kept(job[p]), None}
        /\ job[p].pc # "load" => disk = Kept(job[p])
        /\ job[p].pc = "load" => disk = job[p].routes
        /\ VpsModules(job[p].cfg) \subseteq job[p].routes
        /\ job[p].routes \subseteq VpsModules(job[p].cfg) \cup AutoModules(job[p].cfg)
    BY <1>4 DEF Shows, SecondFacts, LoadFacts, WriteOps
  <2>2. job[p].routes = runtime.effective => Kept(job[p]) = runtime.effective
    BY <2>1, KeptStays DEF Kept
  <2>3. QED
    BY <2>1, <2>2 DEF Visible
<1>5. CASE job[p].pc = "load" /\ job[p].op \in WriteOps /\ ~(job[p].op = "Apply" /\ job[p].final)
  BY <1>5 DEF Shows, LoadFacts, Clean, Visible
<1>6. CASE job[p].pc = "resolve"
  BY <1>1, <1>6 DEF Shows, SecondFacts, Visible
<1>7. CASE job[p].pc = "commit" /\ job[p].op \in WriteOps
  BY <1>7 DEF Shows, CommitFacts, Visible
<1>8. CASE job[p].pc = "commit" /\ job[p].op \in DirectOps
  BY <1>8, WritersAt DEF Watch, DogIsStopped, DirectOps
<1>9. QED
  BY <1>1, <1>2, <1>3, <1>4, <1>5, <1>6, <1>7, <1>8, WritersAt
     DEF Pcs, DogPcs, Unlocked, Untouched, Recording

\* Before a failure an operation is one that succeeds.
LEMMA ShowsSucceeds ==
  ASSUME Base, faults = 0, HashIsOfRoutes, NEW p \in Procs, Shows(job[p]), job'[p] = job[p],
         UNCHANGED <<runtime, disk, loaded, tunnel>>, LiveDogs' \subseteq LiveDogs
  PROVE  Succeeds(job[p])'
<1>1. job[p].pc \in {"read", "stoptunnel"} \/ (job[p].pc = "provide" /\ job[p].op = "RestartTunnel")
        => Evident'
  <2>1. job[p].pc \in {"read", "stoptunnel"} \/ (job[p].pc = "provide" /\ job[p].op = "RestartTunnel")
          => Rested
    BY DEF Shows, UntouchedFacts, Untouched
  <2>2. QED
    BY <2>1, EvidentWhen DEF Rested
<1>2. job[p].pc \in {"write", "load"} => Lit(job[p])
  <2>1. job[p].op \in DirectOps => Lit(job[p])
    BY WritersAt DEF Lit, AnyVps
  <2>2. job[p].pc \in {"write", "load"} /\ job[p].op \in WriteOps => Lit(job[p])
    BY DEF Shows, LoadFacts
  <2>3. QED
    BY <2>1, <2>2, WritersAt
<1>3. job[p].pc = "commit" => loaded \in {job[p].routes, None}
  BY DEF Shows, CommitFacts
<1>4. (job[p].op = "Apply" /\ job[p].pc \in Recording) =>
        runtime.hash = runtime.effective /\ loaded \in {runtime.effective, None}
  BY DEF Shows, SettledFacts, Clean
<1>5. QED
  BY <1>1, <1>2, <1>3, <1>4 DEF Succeeds, Lit

\* After a failure that was not the first nothing is claimed.
LEMMA Spends ==
  ASSUME Base, Traceable, faults' = faults + 1
  PROVE  /\ faults' # 0
         /\ faults' = 1 => /\ faults = 0
                           /\ vps
                           /\ HashIsOfRoutes
                           /\ mutex = None => Rested
                           /\ \A p \in Procs : mutex = p => Shows(job[p])
<1>1. faults \in Nat
  BY Distinct DEF Base, Types
<1>2. faults' # 0 /\ (faults' = 1 => faults = 0) /\ (faults = 0 => faults <= 1)
  BY <1>1
<1>3. QED
  BY <1>2 DEF Traceable

LEMMA CrashSpends ==
  ASSUME Base, Traceable, Watch, [Next]_vars, NEW p \in Procs, Crash(p)
  PROVE  Spent'
<1>1. /\ faults' = faults + 1 /\ mutex' = IF mutex = p THEN None ELSE mutex
      /\ UNCHANGED <<runtime, disk, loaded, tunnel, vps>>
      /\ \A q \in Procs \ {p} : job'[q] = job[q]
  BY DEF Crash, Fault, files, Base, JobsSound
<1>2. LiveDogs' \subseteq LiveDogs
  <2>1. faults \in Nat
    BY Distinct DEF Base, Types
  <2>2. \A q \in Engines : ~StartWatchdog(q)
    BY <1>1, <2>1 DEF StartWatchdog
  <2>3. QED
    BY <2>2, FewerDogs
<1>3. /\ faults' # 0
      /\ faults' = 1 => /\ faults = 0
                        /\ vps
                        /\ HashIsOfRoutes
                        /\ mutex = None => Rested
                        /\ \A q \in Procs : mutex = q => Shows(job[q])
  BY <1>1, Spends
<1>4. CASE mutex = p
  <2>1. faults' = 1 => (LiveDogs # {} => Visible)
    BY <1>3, <1>4, AlwaysVisible
  <2>2. faults' = 1 => vps' /\ Evident'
    BY <1>1, <1>2, <1>3, <2>1, EvidentWhen
  <2>3. QED
    BY <1>1, <1>3, <1>4, <2>2, EndsEvident
<1>5. CASE mutex = None
  <2>1. faults' = 1 => vps' /\ Evident'
    BY <1>1, <1>2, <1>3, <1>5, EvidentWhen DEF Rested
  <2>2. mutex' = None
    BY <1>1, <1>5
  <2>3. QED
    BY <1>3, <2>1, <2>2, EndsEvident
<1>6. ASSUME NEW q \in Procs \ {p}, mutex = q
      PROVE  Spent'
  <2>1. faults' = 1 => vps' /\ Succeeds(job[q])'
    BY <1>1, <1>2, <1>3, <1>6, ShowsSucceeds
  <2>2. mutex' = q
    BY <1>1, <1>6
  <2>3. QED
    BY <1>3, <2>1, <2>2, GoesOnSucceeding
<1>7. mutex \in Procs \cup {None}
  BY DEF Base, Types
<1>8. QED
  BY <1>4, <1>5, <1>6, <1>7

LEMMA WritePidFailsSpends ==
  ASSUME Base, Traceable, NEW p \in Engines, WritePidFails(p)
  PROVE  Spent'
<1>1. /\ p \in Procs /\ job[p].pc = "pid" /\ job[p].op = "Apply" /\ job[p].pc \notin Unlocked
      /\ faults' = faults + 1 /\ mutex' = None /\ UNCHANGED <<runtime, disk, loaded, vps>>
  BY AtPlace DEF WritePidFails, Fault, Finish, files, Procs, EngineSound, Place, Unlocked
<1>2. mutex = p
  BY <1>1, Owner
<1>3. faults' # 0 /\ (faults' = 1 => vps /\ Shows(job[p]))
  BY <1>1, <1>2, Spends
<1>4. faults' = 1 => Evident'
  <2>1. Shows(job[p]) => runtime.hash = runtime.effective /\ loaded \in {runtime.effective, None}
    BY <1>1 DEF Shows, SettledFacts, Recording, Clean
  <2>2. QED
    BY <1>1, <1>3, <2>1 DEF Evident, Visible
<1>5. QED
  BY <1>1, <1>3, <1>4, EndsEvident

\* The inductive invariant: until a process dies or a pid file is not
\* written the watchdog is known and every phase shows what it has done;
\* from then on no other failure is left.
Accounted == (Watch /\ Traceable) \/ Spent

LEMMA KeepsAccounted ==
  ASSUME ~StatusReader
  PROVE  Base /\ EngineFacts /\ Fresh /\ Accounted /\ [Next]_vars => Accounted'
<1> SUFFICES ASSUME Base, EngineFacts, Fresh, Accounted, [Next]_vars PROVE Accounted'
  OBVIOUS
<1>1. CASE Spent
  BY <1>1, KeepsSpent DEF Accounted
<1>2. CASE Watch /\ Traceable /\ Calm
  BY <1>2, KeepsWatch, KeepsTraceable DEF Accounted
<1>3. CASE Watch /\ Traceable /\ ~Calm
  <2>1. (\E p \in Procs : Crash(p)) \/ (\E p \in Engines : WritePidFails(p))
    BY <1>3 DEF Calm
  <2>2. QED
    BY <1>3, <2>1, CrashSpends, WritePidFailsSpends DEF Accounted
<1>4. QED
  BY <1>1, <1>2, <1>3 DEF Accounted

LEMMA InitAccounted == Init => Fresh /\ Accounted
<1> SUFFICES ASSUME Init PROVE Fresh /\ Accounted
  OBVIOUS
<1>1. Fresh
  BY DEF Init, Fresh, IdleJob, Procs
<1>2. LiveDogs = {}
  <2>1. \A d \in Dogs : d \in Procs /\ d \notin Engines
    BY Distinct DEF Procs
  <2>2. \A d \in Dogs : job[d].pc = "dead"
    BY <2>1, DogJobSound DEF Init, DogPcs
  <2>3. QED
    BY <2>2 DEF LiveDogs, Alive
<1>3. Traceable
  <2>1. vps /\ mutex = None /\ None \notin Procs /\ loaded = None /\ lkg = None
    BY Distinct DEF Init
  <2>2. QED
    BY <1>2, <2>1 DEF Traceable, HashIsOfRoutes, Rested, Clean
<1>4. QED
  BY <1>1, <1>3, InitWatch DEF Accounted

\* When one failure leaves Proxifier enforcing other routes than those
\* recorded while a watchdog runs, the watchdog can tell from the profile
\* file.  A load fails after one failure only, and then the owner of the
\* mutex has either found the recorded routes loaded and as the last known
\* good ones, or written other routes to the file; an Apply that fails at its
\* second load was left with those of its first.  The failure may be any, the
\* death of a process included; a status reader that removes the pid file of
\* a new watchdog is not counted as a failure and is excluded.
THEOREM DivergenceShows ==
  ASSUME ~StatusReader
  PROVE  Spec => []DivergenceIsVisible
<1>1. Base /\ Accounted => DivergenceIsVisible
  <2> SUFFICES ASSUME Base, Accounted, faults <= 1, mutex = None, runtime.override = "NONE",
                      LiveDogs # {}
               PROVE  loaded \in {runtime.effective, None} \/ disk # runtime.hash
    BY DEF DivergenceIsVisible
  <2>1. CASE Traceable
    BY <2>1 DEF Traceable, HashIsOfRoutes, Rested, Visible
  <2>2. CASE Spent
    <3>1. faults \in Nat
      BY Distinct DEF Base, Types
    <3>2. faults = 1
      BY <2>2, <3>1 DEF Spent
    <3>3. QED
      BY <2>2, <3>2 DEF Spent, Evident, Visible
  <2>3. QED
    BY <2>1, <2>2 DEF Accounted
<1>2. Base /\ EngineFacts /\ Fresh /\ Accounted /\ [Next]_vars => Fresh' /\ Accounted'
  BY KeepsFresh, KeepsAccounted
<1>3. QED
  BY <1>1, <1>2, InitAccounted, AlwaysFacts, PTL DEF Spec

=============================================================================
