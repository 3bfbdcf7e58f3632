--------------------------- MODULE RoutingController ---------------------------
(***************************************************************************)
(* The routing controller of the Windows product: an engine script that    *)
(* writes a Proxifier profile for the routes in effect, has Proxifier load *)
(* it, and records what it did in runtime-state.json; a watchdog process   *)
(* that the engine starts and that repairs the tunnel, follows the saved   *)
(* configuration and restores the profile; and the control center, which   *)
(* saves the configuration, starts engine actions for the user, and starts *)
(* an Apply of its own when SOCKS or the watchdog is missing.              *)
(*                                                                         *)
(* Engine processes and watchdogs serialise on the mutation mutex, but the *)
(* watchdog reads configuration and runtime state, repairs the tunnel and  *)
(* probes the services before it takes it.  A step is what a process does  *)
(* between two points where another one can see or change something.       *)
(*                                                                         *)
(* A profile, and the hash of one, is the set of modules it routes through *)
(* the VPS.  The tunnel is up when its SOCKS port has the expected         *)
(* identity; SocksTunnel models how it is brought up.                      *)
(***************************************************************************)
EXTENDS Naturals, FiniteSets

CONSTANTS
  Modules,      \* the routed services ($ModuleNames)
  Dogs,         \* process ids a watchdog may get
  None,         \* nobody, no file, not running
  Operations,   \* engine actions the user starts
  FaultKinds,   \* what may go wrong in the environment
  Recovery,     \* the control center is open: it recovers the runtime itself
  StatusReader, \* Status or DailySelfTest looks the watchdog up meanwhile
  MaxOps,       \* bound: engine actions started and configurations saved
  MaxFaults     \* bound: environment faults

Engines == {"foreground", "autostart"}
Procs == Engines \cup Dogs
Modes == {"DIRECT", "AUTO", "VPS"}
EngineActions == {"Apply", "Direct", "RestartTunnel", "StopTunnel"}
AllFaults == {"load", "tunnel", "vps", "proxifier", "pidfile", "crash"}

ASSUME ConstantsAssumption ==
  /\ None \notin Procs /\ \A r \in SUBSET Modules : None # r
  /\ Dogs \cap Engines = {}
  /\ Operations \subseteq EngineActions
  /\ FaultKinds \subseteq AllFaults
  /\ {Recovery, StatusReader} \subseteq BOOLEAN
  /\ {MaxOps, MaxFaults} \subseteq Nat

VARIABLES
  config,   \* routing-config.json: the mode of each module
  runtime,  \* runtime-state.json: override, effective routes, profile hash, reason
  disk,     \* the profile file the routes are written to ($ProfilePath)
  loaded,   \* the profile Proxifier enforces, None when it does not run
  lkg,      \* the last known good profile
  tunnel,   \* SOCKS 1081 answers with the VPS's identity
  vps,      \* the VPS can be reached
  mutex,    \* the owner of the mutation mutex
  pidfile,  \* watchdog.pid
  reader,   \* the pid a status reader took from watchdog.pid
  job,      \* per process: where it is and what it has read
  ops,      \* engine actions started and configurations saved
  faults    \* environment faults

files == <<config, runtime, disk, lkg>>
vars == <<config, runtime, disk, loaded, lkg, tunnel, vps, mutex, pidfile,
          reader, job, ops, faults>>

AllDirect == {}
\* Test-AnyEffectiveVps and Test-NeedsWatchdog.
AnyVps(r) == r # AllDirect
NeedsWatchdog(cfg, r) == (\E m \in Modules : cfg[m] # "DIRECT") \/ AnyVps(r)

\* Get-ProvisionalRoutes: AUTO keeps the route in effect.
Provisional(cfg, r) ==
  {m \in Modules : cfg[m] = "VPS" \/ (cfg[m] = "AUTO" /\ m \in r)}

\* What the probes may make of the AUTO modules; VPS only while it can be reached.
Resolutions(cfg) ==
  LET explicit == {m \in Modules : cfg[m] = "VPS"}
      auto == {m \in Modules : cfg[m] = "AUTO"}
  IN  {explicit \cup A : A \in IF vps THEN SUBSET auto ELSE {{}}}

\* The watchdog's verdict: a module in AUTO that is on VPS may also stay there.
Evaluations(cfg, r) ==
  LET explicit == {m \in Modules : cfg[m] = "VPS"}
      auto == {m \in Modules : cfg[m] = "AUTO"}
  IN  {explicit \cup A : A \in SUBSET (IF vps THEN auto ELSE auto \cap r)}

\* The tunnel after the probes: a route over VPS was probed through it, and
\* for a module in AUTO it may have been brought up without being chosen.
Probed(cfg, r) ==
  IF AnyVps(r) /\ vps THEN {TRUE}
  ELSE IF \E m \in Modules : cfg[m] = "AUTO" THEN {tunnel, vps} ELSE {tunnel}

IdleJob(op, res) ==
  [pc |-> "idle", op |-> op, by |-> "none", cfg |-> [m \in Modules |-> "DIRECT"],
   seen |-> AllDirect, hash |-> None, routes |-> AllDirect,
   final |-> FALSE, started |-> None, result |-> res]
DogJob(pc) == [IdleJob("Watchdog", "none") EXCEPT !.pc = pc]

Alive(d) == job[d].pc # "dead"
LiveDogs == {d \in Dogs : Alive(d)}

Init ==
  /\ config \in [Modules -> Modes]
  /\ runtime = [override |-> "NONE", effective |-> AllDirect, hash |-> None,
                reason |-> "INITIAL"]
  /\ disk = None /\ lkg = None
  /\ loaded = None
  /\ vps = TRUE /\ tunnel = FALSE
  /\ mutex = None /\ pidfile = None /\ reader = None
  /\ job = [p \in Procs |-> IF p \in Engines THEN IdleJob("none", "none")
                                             ELSE DogJob("dead")]
  /\ ops = 0 /\ faults = 0

-----------------------------------------------------------------------------
(* Starting and ending an operation.                                       *)

Goto(p, pc) == job' = [job EXCEPT ![p].pc = pc]

\* The process leaves the mutex; an engine action ends, a watchdog goes on
\* to its next round.
Rest(p, res) == IF p \in Engines THEN IdleJob(job[p].op, res) ELSE DogJob("config")
Finish(p, res) == mutex' = None /\ job' = [job EXCEPT ![p] = Rest(p, res)]

Start(p, op, by) ==
  /\ job[p].pc = "idle" /\ ops < MaxOps
  /\ ops' = ops + 1
  /\ job' = [job EXCEPT ![p] = [IdleJob(op, "none") EXCEPT !.pc = "lock", !.by = by]]
  /\ UNCHANGED <<files, loaded, tunnel, vps, mutex, pidfile, reader, faults>>

\* One foreground instance runs at a time (Enter-ForegroundInstance, and the
\* control center's own busy test); AutoStart applies the configuration.
UserStarts(op) == op \in Operations /\ Start("foreground", op, "user")
AutoStart == "Apply" \in Operations /\ Start("autostart", "Apply", "logon")

\* Invoke-V7RuntimeRecoveryIfNeeded: an AUTO or VPS mode is saved, no
\* operation runs, and SOCKS or the watchdog is missing.
WatchdogRuns == pidfile # None /\ Alive(pidfile)
RuntimeRecovery ==
  /\ Recovery
  /\ \E m \in Modules : config[m] # "DIRECT"
  /\ ~ (tunnel /\ WatchdogRuns)
  /\ Start("foreground", "Apply", "recovery")

\* Set-DesiredMode, Save-ConfigSnapshot: one replacement of the file under
\* the mutex.
SaveConfig ==
  /\ mutex = None /\ ops < MaxOps
  /\ ops' = ops + 1
  /\ \E m \in Modules : \E mode \in Modes \ {config[m]} : config' = [config EXCEPT ![m] = mode]
  /\ UNCHANGED <<runtime, disk, loaded, lkg, tunnel, vps, mutex, pidfile, reader, job, faults>>

\* Mutant: Direct leaves the watchdog alone.
AcquireKeepingDog(p) ==
  /\ job[p].pc = "lock" /\ mutex = None
  /\ mutex' = p
  /\ Goto(p, CASE job[p].op = "Direct" -> "load"
               [] job[p].op = "StopTunnel" -> "stopdog"
               [] job[p].op = "Watchdog" -> "provide"
               [] OTHER -> "read")
  /\ UNCHANGED <<files, loaded, tunnel, vps, pidfile, reader, ops, faults>>

Acquire(p) ==
  /\ job[p].pc = "lock" /\ mutex = None
  /\ mutex' = p
  /\ Goto(p, CASE job[p].op \in {"Direct", "StopTunnel"} -> "stopdog"
               [] job[p].op = "Watchdog" -> "provide"
               [] OTHER -> "read")
  /\ UNCHANGED <<files, loaded, tunnel, vps, pidfile, reader, ops, faults>>

\* Invoke-WithMutationLock throws after 15 s.
LockTimeout(p) ==
  /\ job[p].pc = "lock" /\ mutex # None
  /\ job' = [job EXCEPT ![p] = Rest(p, "fail")]
  /\ UNCHANGED <<files, loaded, tunnel, vps, mutex, pidfile, reader, ops, faults>>

-----------------------------------------------------------------------------
(* Apply-RoutingConfiguration and Restart-Tunnel: first reads.             *)

ReadForApply(p) ==
  /\ job[p].pc = "read" /\ job[p].op = "Apply"
  /\ runtime' = [runtime EXCEPT !.override = "NONE"]
  /\ job' = [job EXCEPT ![p].cfg = config, ![p].pc = "provide",
                        ![p].routes = Provisional(config, runtime.effective)]
  /\ UNCHANGED <<config, disk, loaded, lkg, tunnel, vps, mutex, pidfile, reader, ops, faults>>

\* Restart-Tunnel stops PuTTY after it has read the routes in effect.
ReadForRestart(p) ==
  /\ job[p].pc = "read" /\ job[p].op = "RestartTunnel"
  /\ tunnel' = FALSE
  /\ job' = [job EXCEPT ![p].routes = runtime.effective, ![p].pc = "provide",
                        ![p].final = TRUE]
  /\ UNCHANGED <<files, loaded, vps, mutex, pidfile, reader, ops, faults>>

(* Apply-EffectiveRoutesOnly, and the provisional half of Apply.           *)

\* Mutant: the tunnel is taken to be up once PuTTY was started.
ProvideUnchecked(p) ==
  /\ job[p].pc = "provide"
  /\ tunnel' = (AnyVps(job[p].routes) \/ tunnel)
  /\ Goto(p, "write")
  /\ UNCHANGED <<files, loaded, vps, mutex, pidfile, reader, ops, faults>>

\* Ensure-SocksTunnel.
Provide(p) ==
  /\ job[p].pc = "provide"
  /\ LET needed == AnyVps(job[p].routes) \/ job[p].op = "RestartTunnel" IN
     /\ tunnel' = IF needed THEN vps ELSE tunnel
     /\ IF needed /\ ~vps THEN Finish(p, "fail")
        ELSE IF AnyVps(job[p].routes) \/ job[p].op # "RestartTunnel"
             THEN Goto(p, "write") /\ UNCHANGED mutex
             ELSE Finish(p, "pass")
  /\ UNCHANGED <<files, loaded, vps, pidfile, reader, ops, faults>>

WriteProfile(p) ==
  /\ job[p].pc = "write"
  /\ disk' = job[p].routes
  /\ Goto(p, "load")
  /\ UNCHANGED <<config, runtime, loaded, lkg, tunnel, vps, mutex, pidfile, reader, ops, faults>>

\* Mutant: the second load of Apply is resolved again.
AfterLoadResolve(p) == IF job[p].op = "Apply" THEN "resolve" ELSE "commit"
AfterLoad(p) == IF job[p].op = "Apply" /\ ~job[p].final THEN "resolve" ELSE "commit"

\* Load-ProxifierProfile: the profile is loaded, its route verified, and it
\* becomes the last known good one.
Load(p) ==
  /\ job[p].pc = "load"
  /\ AnyVps(job[p].routes) => tunnel
  /\ loaded' = job[p].routes /\ lkg' = job[p].routes
  /\ Goto(p, AfterLoad(p))
  /\ UNCHANGED <<config, runtime, disk, tunnel, vps, mutex, pidfile, reader, ops, faults>>

\* Mutant: every operation discards the result of the load.
FailedLoadIgnored(p) == Goto(p, AfterLoad(p)) /\ UNCHANGED mutex

\* Stop-Tunnel discards the result of the load.
FailedLoad(p) == IF job[p].op = "StopTunnel" THEN Goto(p, "commit") /\ UNCHANGED mutex
                                             ELSE Finish(p, "fail")

\* Proxifier took the profile but the VPS route could not be verified; the
\* last known good profile is put back, unverified.
LoadUnverified(p) ==
  /\ job[p].pc = "load" /\ AnyVps(job[p].routes) /\ ~tunnel
  /\ loaded' = IF lkg = None THEN job[p].routes ELSE lkg
  /\ FailedLoad(p)
  /\ UNCHANGED <<files, tunnel, vps, pidfile, reader, ops, faults>>

Fault(kind) == kind \in FaultKinds /\ faults < MaxFaults /\ faults' = faults + 1

\* Proxifier is not confirmed to run, or its helper fails; the rollback to
\* the last known good profile may fail too.
LoadFails(p) ==
  /\ job[p].pc = "load" /\ Fault("load")
  /\ loaded' \in {loaded, job[p].routes, lkg, None}
  /\ FailedLoad(p)
  /\ UNCHANGED <<files, tunnel, vps, pidfile, reader, ops>>

\* Mutant: the resolved routes are recorded but not loaded.
ResolveWithoutReload(p) ==
  /\ job[p].pc = "resolve"
  /\ \E r \in Resolutions(job[p].cfg) :
       job' = [job EXCEPT ![p].routes = r, ![p].final = TRUE, ![p].pc = "commit"]
  /\ UNCHANGED <<files, loaded, tunnel, vps, mutex, pidfile, reader, ops, faults>>

\* Resolve-AutoRoutes: throws when a module in mode VPS finds no tunnel.
Resolve(p) ==
  /\ job[p].pc = "resolve"
  /\ IF vps \/ \A m \in Modules : job[p].cfg[m] # "VPS"
     THEN \E r \in Resolutions(job[p].cfg) :
            /\ tunnel' \in Probed(job[p].cfg, r)
            /\ job' = [job EXCEPT ![p].routes = r, ![p].final = TRUE, ![p].pc = "provide"]
            /\ UNCHANGED mutex
     ELSE UNCHANGED tunnel /\ Finish(p, "fail")
  /\ UNCHANGED <<files, loaded, vps, pidfile, reader, ops, faults>>

Reason(p) == CASE job[p].op = "Apply" -> "MANUAL_APPLY"
               [] job[p].op = "Direct" -> "DIRECT_OVERRIDE"
               [] job[p].op = "StopTunnel" -> "STOP_TUNNEL"
               [] job[p].op = "RestartTunnel" -> "MANUAL_TUNNEL_RESTART"
               [] OTHER -> "WATCHDOG"

\* Mutant: only Apply records the hash of the profile.
CommitOldHash(p) ==
  /\ job[p].pc = "commit"
  /\ runtime' = [override  |-> IF job[p].op \in {"Direct", "StopTunnel"} THEN "DIRECT" ELSE "NONE",
                 effective |-> job[p].routes,
                 hash      |-> IF job[p].op = "Apply" THEN job[p].routes ELSE runtime.hash,
                 reason    |-> Reason(p)]
  /\ IF job[p].op = "Apply" THEN Goto(p, "stopdog") /\ UNCHANGED mutex ELSE Finish(p, "pass")
  /\ UNCHANGED <<config, disk, loaded, lkg, tunnel, vps, pidfile, reader, ops, faults>>

\* Save-Runtime.  Stop-Tunnel leaves the profile hash as it was.
Commit(p) ==
  /\ job[p].pc = "commit"
  /\ runtime' = [override  |-> IF job[p].op \in {"Direct", "StopTunnel"} THEN "DIRECT" ELSE "NONE",
                 effective |-> job[p].routes,
                 hash      |-> IF job[p].op = "StopTunnel" THEN runtime.hash ELSE job[p].routes,
                 reason    |-> Reason(p)]
  /\ CASE job[p].op = "Apply" -> Goto(p, "stopdog") /\ UNCHANGED mutex
       [] job[p].op = "StopTunnel" -> Goto(p, "stoptunnel") /\ UNCHANGED mutex
       [] OTHER -> Finish(p, "pass")
  /\ UNCHANGED <<config, disk, loaded, lkg, tunnel, vps, pidfile, reader, ops, faults>>

\* Stop-TunnelProcess.
StopPutty(p) ==
  /\ job[p].pc = "stoptunnel"
  /\ tunnel' = FALSE
  /\ Finish(p, "pass")
  /\ UNCHANGED <<files, loaded, vps, pidfile, reader, ops, faults>>

-----------------------------------------------------------------------------
(* Stop-Watchdog, Start-Watchdog.                                          *)

Killed(D) == [p \in Procs |-> IF p \in D THEN DogJob("dead") ELSE job[p]]
Recorded == IF pidfile = None THEN {} ELSE {pidfile}

StopWatchdog(p) ==
  /\ job[p].pc = "stopdog"
  /\ pidfile' = None
  /\ LET next == IF job[p].op # "Apply" THEN "load"
                 ELSE IF NeedsWatchdog(job[p].cfg, job[p].routes) THEN "startdog" ELSE "verify"
     IN  job' = [Killed(Recorded) EXCEPT ![p].pc = next]
  /\ UNCHANGED <<files, loaded, tunnel, vps, mutex, reader, ops, faults>>

\* Mutant: only the recorded watchdog is stopped.
NoOrphans == {}
\* Start-Watchdog kills every watchdog it finds before it starts one.
Orphans == LiveDogs

StartWatchdog(p) ==
  /\ job[p].pc = "startdog"
  /\ \E d \in Dogs :
       /\ d \notin LiveDogs \ Orphans
       /\ job' = [Killed(Orphans) EXCEPT ![d] = DogJob("config"), ![p].pc = "pid", ![p].started = d]
  /\ pidfile' = None
  /\ UNCHANGED <<files, loaded, tunnel, vps, mutex, reader, ops, faults>>

WritePid(p) ==
  /\ job[p].pc = "pid"
  /\ pidfile' = job[p].started
  /\ Goto(p, "verify")
  /\ UNCHANGED <<files, loaded, tunnel, vps, mutex, reader, ops, faults>>

\* The exception is caught and Apply ignores what Start-Watchdog returns.
WritePidFails(p) ==
  /\ job[p].pc = "pid" /\ Fault("pidfile")
  /\ Finish(p, "pass")
  /\ UNCHANGED <<files, loaded, tunnel, vps, pidfile, reader, ops>>

\* Mutant: the pid file is removed when the lookup is over.
VerifyAndRemove(p) ==
  /\ job[p].pc = "verify"
  /\ pidfile' = None
  /\ Finish(p, "pass")
  /\ UNCHANGED <<files, loaded, tunnel, vps, reader, ops, faults>>

\* Get-WatchdogPid removes a pid file whose process is gone; Apply is done.
VerifyWatchdog(p) ==
  /\ job[p].pc = "verify"
  /\ pidfile' = IF WatchdogRuns THEN pidfile ELSE None
  /\ Finish(p, "pass")
  /\ UNCHANGED <<files, loaded, tunnel, vps, reader, ops, faults>>

-----------------------------------------------------------------------------
(* Invoke-Watchdog.                                                        *)

DogReadsConfig(d) ==
  /\ job[d].pc = "config"
  /\ job' = [job EXCEPT ![d].cfg = config, ![d].pc = "runtime"]
  /\ UNCHANGED <<files, loaded, tunnel, vps, mutex, pidfile, reader, ops, faults>>

DogReadsRuntime(d) ==
  /\ job[d].pc = "runtime"
  /\ IF runtime.override = "DIRECT" \/ ~NeedsWatchdog(job[d].cfg, runtime.effective)
     THEN job' = [job EXCEPT ![d] = DogJob("exit")]
     ELSE job' = [job EXCEPT ![d].seen = runtime.effective, ![d].hash = runtime.hash,
                             ![d].pc = "repair"]
  /\ UNCHANGED <<files, loaded, tunnel, vps, mutex, pidfile, reader, ops, faults>>

\* Mutant: the watchdog reports a lost tunnel and goes on.
DogReportsTunnel(d) ==
  /\ job[d].pc = "repair"
  /\ Goto(d, "evaluate")
  /\ UNCHANGED <<files, loaded, tunnel, vps, mutex, pidfile, reader, ops, faults>>

\* The tunnel is repaired outside the mutation mutex.
DogRepairs(d) ==
  /\ job[d].pc = "repair"
  /\ tunnel' = IF AnyVps(job[d].seen) THEN vps ELSE tunnel
  /\ Goto(d, "evaluate")
  /\ UNCHANGED <<files, loaded, vps, mutex, pidfile, reader, ops, faults>>

\* Mutant: only whether Proxifier runs is looked at.
DriftIgnored(d) == FALSE

Drifted(d) == job[d].hash # None /\ disk # None /\ disk # job[d].hash

\* Probe and decide the routes, then look at Proxifier and the profile file.
DogEvaluates(d) ==
  /\ job[d].pc = "evaluate"
  /\ \E r \in Evaluations(job[d].cfg, job[d].seen) :
       /\ tunnel' \in IF \E m \in r \ job[d].seen : job[d].cfg[m] = "AUTO" THEN {TRUE}
                      ELSE IF \E m \in Modules : job[d].cfg[m] = "AUTO" THEN {tunnel, vps}
                      ELSE {tunnel}
       /\ IF r # job[d].seen \/ loaded = None \/ Drifted(d)
          THEN job' = [job EXCEPT ![d].routes = r, ![d].pc = "lock"]
          ELSE job' = [job EXCEPT ![d] = DogJob("config")]
  /\ UNCHANGED <<files, loaded, vps, mutex, pidfile, reader, ops, faults>>

\* The watchdog removes whatever pid the file holds.
DogExits(d) ==
  /\ job[d].pc = "exit"
  /\ pidfile' = None
  /\ job' = [job EXCEPT ![d] = DogJob("dead")]
  /\ UNCHANGED <<files, loaded, tunnel, vps, mutex, reader, ops, faults>>

-----------------------------------------------------------------------------
(* Get-WatchdogPid of a process that holds no mutex.                       *)

ReaderTakesPid ==
  /\ StatusReader /\ reader = None /\ pidfile # None
  /\ reader' = pidfile
  /\ UNCHANGED <<files, loaded, tunnel, vps, mutex, pidfile, job, ops, faults>>

ReaderLooksUpProcess ==
  /\ reader # None
  /\ pidfile' = IF Alive(reader) THEN pidfile ELSE None
  /\ reader' = None
  /\ UNCHANGED <<files, loaded, tunnel, vps, mutex, job, ops, faults>>

(* The environment.                                                        *)

TunnelDrops ==
  /\ tunnel /\ Fault("tunnel") /\ tunnel' = FALSE
  /\ UNCHANGED <<files, loaded, vps, mutex, pidfile, reader, job, ops>>

VpsGoesDown ==
  /\ vps /\ Fault("vps") /\ vps' = FALSE /\ tunnel' = FALSE
  /\ UNCHANGED <<files, loaded, mutex, pidfile, reader, job, ops>>

VpsComesBack ==
  /\ ~vps /\ vps' = TRUE
  /\ UNCHANGED <<files, loaded, tunnel, mutex, pidfile, reader, job, ops, faults>>

ProxifierStops ==
  /\ loaded # None /\ Fault("proxifier") /\ loaded' = None
  /\ UNCHANGED <<files, tunnel, vps, mutex, pidfile, reader, job, ops>>

\* A process is killed; a mutex it owned is abandoned and can be taken.
Crash(p) ==
  /\ job[p].pc \notin {"idle", "dead"} /\ Fault("crash")
  /\ job' = [job EXCEPT ![p] = IF p \in Engines THEN IdleJob(job[p].op, "fail")
                                                ELSE DogJob("dead")]
  /\ mutex' = IF mutex = p THEN None ELSE mutex
  /\ UNCHANGED <<files, loaded, tunnel, vps, pidfile, reader, ops>>

-----------------------------------------------------------------------------
Step(p) ==
  \/ Acquire(p) \/ LockTimeout(p)
  \/ Provide(p) \/ WriteProfile(p) \/ Load(p) \/ LoadUnverified(p) \/ Commit(p)

EngineStep(p) ==
  \/ Step(p)
  \/ ReadForApply(p) \/ ReadForRestart(p) \/ Resolve(p) \/ StopPutty(p)
  \/ StopWatchdog(p) \/ StartWatchdog(p) \/ WritePid(p) \/ VerifyWatchdog(p)

DogStep(d) ==
  \/ Step(d)
  \/ DogReadsConfig(d) \/ DogReadsRuntime(d) \/ DogRepairs(d) \/ DogEvaluates(d)
  \/ DogExits(d)

Environment ==
  \/ TunnelDrops \/ VpsGoesDown \/ ProxifierStops
  \/ \E p \in Procs : LoadFails(p) \/ Crash(p)
  \/ \E p \in Engines : WritePidFails(p)

Next ==
  \/ \E op \in EngineActions : UserStarts(op)
  \/ AutoStart \/ RuntimeRecovery \/ SaveConfig
  \/ \E p \in Engines : EngineStep(p)
  \/ \E d \in Dogs : DogStep(d)
  \/ ReaderTakesPid \/ ReaderLooksUpProcess
  \/ VpsComesBack \/ Environment

Spec == Init /\ [][Next]_vars

\* Windows schedules every process and returns from every call, the control
\* center's timer ticks, and an unreachable VPS comes back.
Fairness ==
  /\ \A p \in Engines : WF_vars(EngineStep(p))
  /\ \A d \in Dogs : WF_vars(DogStep(d))
  /\ WF_vars(VpsComesBack)

FairSpec == Spec /\ Fairness

-----------------------------------------------------------------------------
(* Properties.                                                             *)

Pcs == {"idle", "lock", "read", "provide", "write", "load", "resolve", "commit",
        "stopdog", "startdog", "pid", "verify", "stoptunnel"}
DogPcs == {"dead", "config", "runtime", "repair", "evaluate", "lock", "provide",
           "write", "load", "commit", "exit"}
Routes == SUBSET Modules

Unlocked == {"idle", "lock", "dead", "config", "runtime", "repair", "evaluate", "exit"}

\* The variables have their types; a process is inside Invoke-WithMutationLock
\* exactly while it owns the mutex, and a tunnel needs a VPS it can reach.
TypeOK ==
  /\ config \in [Modules -> Modes]
  /\ runtime.override \in {"NONE", "DIRECT"} /\ runtime.effective \in Routes
  /\ \A x \in {runtime.hash, disk, loaded, lkg} : x = None \/ x \in Routes
  /\ {tunnel, vps} \subseteq BOOLEAN /\ (tunnel => vps)
  /\ mutex \in Procs \cup {None}
  /\ {pidfile, reader} \subseteq Dogs \cup {None}
  /\ \A p \in Procs : job[p].pc \in IF p \in Engines THEN Pcs ELSE DogPcs
  /\ \A p \in Procs : job[p].pc \notin Unlocked <=> mutex = p
  /\ ops \in 0..MaxOps /\ faults \in 0..MaxFaults

\* However Apply, crashes and status readers interleave, at most one
\* watchdog runs (Start-Watchdog stops the recorded one and every orphan).
AtMostOneWatchdog == Cardinality(LiveDogs) <= 1

\* The global DIRECT override is lifted only by an Apply that the user or
\* the logon task started: no watchdog takes it back.
OverrideStands ==
  [][(runtime.override = "DIRECT" /\ runtime'.override = "NONE") =>
       \E p \in Engines : /\ job[p].pc = "read" /\ job'[p].pc = "provide"
                          /\ job[p].by # "recovery"]_vars

\* While the override is recorded and nothing is in progress, Proxifier
\* enforces no VPS route.
OverrideIsLoaded ==
  (mutex = None /\ runtime.override = "DIRECT") => loaded \in {AllDirect, None}

Passes(p, op) == /\ job[p].op = op /\ job[p].pc # "idle"
                 /\ job'[p].pc = "idle" /\ job'[p].result = "pass"

\* An Apply that reports success leaves its resolved routes recorded, and
\* enforced unless Proxifier has been closed since.
ApplyIsInForce ==
  [][\A p \in Engines : Passes(p, "Apply") =>
       /\ runtime.override = "NONE" /\ runtime.effective = job[p].routes
       /\ loaded \in {runtime.effective, None}]_vars

\* When an Apply whose configuration or routes need a watchdog reports
\* success, the watchdog it started is recorded.
ApplyIsWatched ==
  [][\A p \in Engines :
       (Passes(p, "Apply") /\ NeedsWatchdog(job[p].cfg, runtime.effective)) =>
          job[p].started \in LiveDogs /\ pidfile' = job[p].started]_vars

\* When one failure of any kind leaves Proxifier enforcing other routes than
\* those recorded while a watchdog runs, the watchdog can tell: Proxifier does
\* not run, or the profile file does not have the recorded hash.  (After two
\* failed loads the recorded profile may be on disk again: then it cannot.)
DivergenceIsVisible ==
  (faults <= 1 /\ mutex = None /\ runtime.override = "NONE" /\ LiveDogs # {}) =>
     loaded \in {runtime.effective, None} \/ disk # runtime.hash

\* A started operation ends.
OperationsEnd == \A p \in Engines : job[p].pc # "idle" ~> job[p].pc = "idle"

Guarded == runtime.override = "NONE" /\ LiveDogs # {}

\* The watchdog brings a lost tunnel back while routes need it.
TunnelRestored ==
  (Guarded /\ AnyVps(runtime.effective) /\ ~tunnel)
     ~> (tunnel \/ ~Guarded \/ ~AnyVps(runtime.effective))

\* Whatever one failure has left in Proxifier, a profile nobody chose or none,
\* a running watchdog replaces it: Proxifier comes to enforce the recorded
\* routes, unless the user's override ends the watchdog.
DivergenceHeals ==
  (faults <= 1 /\ Guarded /\ loaded # runtime.effective)
     ~> (loaded = runtime.effective \/ ~Guarded \/ faults > 1)

\* Saving alone does not change the actual routing, as the tooltip of the save
\* button says: a watchdog never moves a module whose saved mode is explicit,
\* for Apply has moved it already.  No run checks this: the watchdog reads the
\* saved modes anew in every round, and moves the module.
SavedWaitsForApply ==
  [][\A d \in Dogs, m \in Modules :
       mutex = d /\ job[d].cfg[m] # "AUTO" /\ None \notin {loaded, loaded'} =>
         (m \in loaded') = (m \in loaded)]_vars
=============================================================================
