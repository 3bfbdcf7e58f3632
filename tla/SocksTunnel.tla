----------------------------- MODULE SocksTunnel -----------------------------
(***************************************************************************)
(* How the SOCKS tunnel on 127.0.0.1:1081 is brought up and taken down     *)
(* (Ensure-SocksTunnel, Start-PuttyTunnel and Stop-TunnelProcess of the    *)
(* generated V6.5 engine).  Each of the two entry points takes the named   *)
(* 1081 mutex for itself.  Two processes meet here: the engine, whose      *)
(* operations hold the mutation mutex and so follow one another, and the   *)
(* watchdog, whose repair holds no mutation mutex; the engine kills the    *)
(* watchdog at any point of its repair, also inside the 1081 mutex, which  *)
(* is then abandoned.                                                      *)
(*                                                                         *)
(* A PuTTY process logs in ("starting"), then listens on the port if it is *)
(* free; the identity test succeeds while a listening one is "up".         *)
(***************************************************************************)
EXTENDS Naturals, FiniteSets

CONSTANTS
  Puttys,      \* process ids PuTTY may get
  None,        \* nobody
  Operations,  \* what the engine is asked to do
  FaultKinds,  \* what may go wrong in the environment
  MaxOps,      \* bound: engine operations
  MaxFaults    \* bound: environment faults

Actors == {"engine", "watchdog"}
EngineOps == {"Apply", "RestartTunnel", "StopTunnel"}
AllFaults == {"drop", "refused", "slow", "start", "busy"}

ASSUME ConstantsAssumption ==
  /\ None \notin Actors
  /\ Operations \subseteq EngineOps
  /\ FaultKinds \subseteq AllFaults
  /\ {MaxOps, MaxFaults} \subseteq Nat

VARIABLES
  putty,   \* per PuTTY process: what it is doing
  mutex,   \* the owner of the 1081 mutex
  job,     \* per actor: where it is, in which operation, inside which call
  stopped, \* the last thing the engine reported is a stopped tunnel
  left,    \* calls of Ensure-SocksTunnel that ended before their PuTTY had logged in
  ops,     \* engine operations started
  faults   \* environment faults

vars == <<putty, mutex, job, stopped, left, ops, faults>>

PuttyStates == {"none", "starting", "up", "stale", "portless"}
Running == {p \in Puttys : putty[p] # "none"}
Listeners == {p \in Puttys : putty[p] \in {"up", "stale"}}
\* Test-SocksIdentity.
IdentityOk == \E p \in Puttys : putty[p] = "up"

Init ==
  /\ putty = [p \in Puttys |-> "none"]
  /\ mutex = None
  /\ job = [a \in Actors |-> [pc |-> IF a = "engine" THEN "idle" ELSE "dead", op |-> "none"]]
  /\ stopped = FALSE /\ left = 0
  /\ ops = 0 /\ faults = 0

Fault(kind) == kind \in FaultKinds /\ faults < MaxFaults /\ faults' = faults + 1
Goto(a, pc) == job' = [job EXCEPT ![a].pc = pc]

-----------------------------------------------------------------------------
(* Operations.                                                             *)

Start(op) ==
  /\ job["engine"].pc = "idle" /\ ops < MaxOps /\ op \in Operations
  /\ ops' = ops + 1
  /\ stopped' = FALSE
  /\ job' = [job EXCEPT !["engine"] =
       [op |-> op, pc |-> IF op = "Apply" THEN "ensure" ELSE IF op = "StopTunnel" THEN "killdog"
                          ELSE "stop"]]
  /\ UNCHANGED <<putty, mutex, left, faults>>

Starting == {p \in Puttys : putty[p] = "starting"}
Abandon(a) == left' = IF job[a].pc = "wait" /\ Starting # {} THEN left + 1 ELSE left

\* Mutant: Stop-Tunnel leaves the watchdog running.
KillWatchdogOfApply ==
  /\ job["engine"].pc = "killdog"
  /\ mutex' = IF mutex = "watchdog" /\ job["engine"].op = "Apply" THEN None ELSE mutex
  /\ IF job["engine"].op = "Apply"
     THEN job' = [job EXCEPT !["watchdog"].pc = "watch", !["engine"].pc = "idle"]
     ELSE Goto("engine", "stop")
  /\ UNCHANGED <<putty, stopped, left, ops, faults>>

\* Mutant: an abandoned mutex is not taken over.
KillWatchdogKeepingMutex ==
  /\ job["engine"].pc = "killdog"
  /\ job' = [job EXCEPT !["watchdog"].pc = IF job["engine"].op = "Apply" THEN "watch" ELSE "dead",
                        !["engine"].pc = IF job["engine"].op = "Apply" THEN "idle" ELSE "stop"]
  /\ UNCHANGED <<putty, mutex, stopped, left, ops, faults>>

\* Stop-Watchdog; Apply then starts a new one.
KillWatchdog ==
  /\ job["engine"].pc = "killdog"
  /\ Abandon("watchdog")
  /\ mutex' = IF mutex = "watchdog" THEN None ELSE mutex
  /\ job' = [job EXCEPT !["watchdog"].pc = IF job["engine"].op = "Apply" THEN "watch" ELSE "dead",
                        !["engine"].pc = IF job["engine"].op = "Apply" THEN "idle" ELSE "stop"]
  /\ UNCHANGED <<putty, stopped, ops, faults>>

\* Mutant: an open port is taken for a tunnel.
WatchdogTestsPort ==
  /\ job["watchdog"].pc = "watch" /\ Listeners = {}
  /\ Goto("watchdog", "stop")
  /\ UNCHANGED <<putty, mutex, stopped, left, ops, faults>>

\* Invoke-Watchdog tests the identity before it takes any mutex.
WatchdogTests ==
  /\ job["watchdog"].pc = "watch" /\ ~IdentityOk
  /\ Goto("watchdog", "stop")
  /\ UNCHANGED <<putty, mutex, stopped, left, ops, faults>>

\* Where an actor goes after Stop-TunnelProcess: repair and restart ignore
\* its result and ensure the tunnel, Stop-Tunnel reports it.
AfterStop(a, ok) ==
  IF job[a].op = "StopTunnel" /\ a = "engine"
  THEN Goto(a, "idle") /\ stopped' = ok
  ELSE Goto(a, "ensure") /\ UNCHANGED stopped

\* After Ensure-SocksTunnel: the watchdog goes on watching; Apply replaces
\* the watchdog when the tunnel is there.
AfterEnsure(a, ok) ==
  Goto(a, IF a = "watchdog" THEN "watch"
          ELSE IF job[a].op = "Apply" /\ ok THEN "killdog" ELSE "idle")

-----------------------------------------------------------------------------
(* Stop-TunnelProcess.                                                     *)

EnterStop(a) ==
  /\ job[a].pc = "stop" /\ mutex = None
  /\ mutex' = a
  /\ Goto(a, "kill")
  /\ UNCHANGED <<putty, stopped, left, ops, faults>>

\* Mutant: the listener is killed although the mutex was not got.
StopTimeoutIgnored(a) ==
  /\ job[a].pc = "stop" /\ mutex # None /\ Fault("busy")
  /\ Goto(a, "kill")
  /\ UNCHANGED <<putty, mutex, stopped, left, ops>>

\* No answer within 60 s.
StopTimeout(a) ==
  /\ job[a].pc = "stop" /\ mutex # None /\ Fault("busy")
  /\ AfterStop(a, FALSE)
  /\ UNCHANGED <<putty, mutex, left, ops>>

StopListener == putty' = [p \in Puttys |-> IF p \in Listeners THEN "none" ELSE putty[p]]

\* Whoever listens is killed; nobody listening counts as stopped.
KillListener(a) ==
  /\ job[a].pc = "kill"
  /\ StopListener
  /\ mutex' = None
  /\ AfterStop(a, TRUE)
  /\ UNCHANGED <<left, ops, faults>>

(* Ensure-SocksTunnel.                                                     *)

EnterEnsure(a) ==
  /\ job[a].pc = "ensure" /\ mutex = None
  /\ mutex' = a
  /\ Goto(a, "check")
  /\ UNCHANGED <<putty, stopped, left, ops, faults>>

EnsureTimeout(a) ==
  /\ job[a].pc = "ensure" /\ mutex # None /\ Fault("busy")
  /\ AfterEnsure(a, FALSE)
  /\ UNCHANGED <<putty, mutex, stopped, left, ops>>

\* The identity is tested again inside the mutex.
Check(a) ==
  /\ job[a].pc = "check"
  /\ IF IdentityOk THEN AfterEnsure(a, TRUE) /\ mutex' = None
                   ELSE Goto(a, "port") /\ UNCHANGED mutex
  /\ UNCHANGED <<putty, stopped, left, ops, faults>>

\* Mutant: a listener without the identity is left alone.
PortKeepingListener(a) ==
  /\ job[a].pc = "port"
  /\ Goto(a, "start")
  /\ UNCHANGED <<putty, mutex, stopped, left, ops, faults>>

\* Whoever listens now is stopped, and then the identity tested once more.
Port(a) ==
  /\ job[a].pc = "port"
  /\ Goto(a, IF Listeners = {} THEN "start" ELSE "recheck")
  /\ StopListener
  /\ UNCHANGED <<mutex, stopped, left, ops, faults>>

Recheck(a) ==
  /\ job[a].pc = "recheck"
  /\ IF IdentityOk THEN AfterEnsure(a, TRUE) /\ mutex' = None
                   ELSE Goto(a, "start") /\ UNCHANGED mutex
  /\ UNCHANGED <<putty, stopped, left, ops, faults>>

\* Start-PuttyTunnel.
StartPutty(a) ==
  /\ job[a].pc = "start"
  /\ \E p \in Puttys \ Running : putty' = [putty EXCEPT ![p] = "starting"]
  /\ Goto(a, "wait")
  /\ UNCHANGED <<mutex, stopped, left, ops, faults>>

\* No credential, host key or executable.
StartFails(a) ==
  /\ job[a].pc = "start" /\ Fault("start")
  /\ mutex' = None
  /\ AfterEnsure(a, FALSE)
  /\ UNCHANGED <<putty, stopped, left, ops>>

SeesIdentity(a) ==
  /\ job[a].pc = "wait" /\ IdentityOk
  /\ mutex' = None
  /\ AfterEnsure(a, TRUE)
  /\ UNCHANGED <<putty, stopped, left, ops, faults>>

\* TunnelWaitSeconds are over.  While a PuTTY is still logging in that takes
\* a slow server; the process is left alone.
WaitTimeout(a) ==
  /\ job[a].pc = "wait" /\ ~IdentityOk
  /\ IF Starting = {} THEN UNCHANGED faults ELSE Fault("slow")
  /\ Abandon(a)
  /\ mutex' = None
  /\ AfterEnsure(a, FALSE)
  /\ UNCHANGED <<putty, stopped, ops>>

-----------------------------------------------------------------------------
(* PuTTY: it binds the port when it is free, and stays when it is not.     *)

PuttyConnects(p) ==
  /\ putty[p] = "starting"
  /\ putty' = [putty EXCEPT ![p] = IF Listeners = {} THEN "up" ELSE "portless"]
  /\ UNCHANGED <<mutex, job, stopped, left, ops, faults>>

PuttyRefused(p) ==
  /\ putty[p] = "starting" /\ Fault("refused")
  /\ putty' = [putty EXCEPT ![p] = "none"]
  /\ UNCHANGED <<mutex, job, stopped, left, ops>>

\* The connection hangs or the process ends.
TunnelDrops(p) ==
  /\ putty[p] = "up" /\ Fault("drop")
  /\ \E s \in {"stale", "none"} : putty' = [putty EXCEPT ![p] = s]
  /\ UNCHANGED <<mutex, job, stopped, left, ops>>

-----------------------------------------------------------------------------
ActorStep(a) ==
  \/ EnterStop(a) \/ KillListener(a)
  \/ EnterEnsure(a) \/ Check(a) \/ Port(a) \/ Recheck(a)
  \/ StartPutty(a) \/ SeesIdentity(a) \/ WaitTimeout(a)

Next ==
  \/ \E op \in EngineOps : Start(op)
  \/ KillWatchdog \/ WatchdogTests
  \/ \E a \in Actors : ActorStep(a) \/ StopTimeout(a) \/ EnsureTimeout(a) \/ StartFails(a)
  \/ \E p \in Puttys : PuttyConnects(p) \/ PuttyRefused(p) \/ TunnelDrops(p)

Spec == Init /\ [][Next]_vars

\* Every process runs; a mutex that is freed again and again is got in the
\* end (Windows queues the waiters); PuTTY connects or gives up.
Fairness ==
  /\ WF_vars(KillWatchdog) /\ WF_vars(WatchdogTests)
  /\ \A a \in Actors : /\ WF_vars(KillListener(a)) /\ WF_vars(Check(a))
                       /\ WF_vars(Port(a)) /\ WF_vars(Recheck(a))
                       /\ WF_vars(StartPutty(a)) /\ WF_vars(SeesIdentity(a))
                       /\ WF_vars(WaitTimeout(a))
                       /\ SF_vars(EnterStop(a)) /\ SF_vars(EnterEnsure(a))
  /\ \A p \in Puttys : WF_vars(PuttyConnects(p))

FairSpec == Spec /\ Fairness

-----------------------------------------------------------------------------
(* Properties.                                                             *)

Pcs == {"idle", "dead", "watch", "stop", "kill", "ensure", "check", "port", "recheck",
        "start", "wait", "killdog"}
Critical == {"kill", "check", "port", "recheck", "start", "wait"}

\* The variables have their types, at most one PuTTY listens, and an actor
\* is inside one of the two calls exactly while it owns the 1081 mutex.
TypeOK ==
  /\ putty \in [Puttys -> PuttyStates] /\ Cardinality(Listeners) <= 1
  /\ mutex = None \/ mutex \in Actors
  /\ job \in [Actors -> [pc : Pcs, op : EngineOps \cup {"none"}]]
  /\ \A a \in Actors : job[a].pc \in Critical <=> mutex = a
  /\ stopped \in BOOLEAN /\ left \in 0..(MaxOps + MaxFaults)
  /\ ops \in 0..MaxOps /\ faults \in 0..MaxFaults

\* Ensure-SocksTunnel, repair, restart and the killing of a repairing
\* watchdog never multiply PuTTY processes: apart from one, each that runs
\* goes back to a call that ended before its PuTTY had logged in.
PuttysAreAccountedFor == Cardinality(Running) <= 1 + left

\* When Stop-Tunnel has passed, and no call ever left a PuTTY behind, no
\* PuTTY runs until the engine starts another operation: no watchdog is
\* left that would bring the tunnel up again.
StopIsFinal == (stopped /\ left = 0) => Running = {}

\* An engine operation ends, also when the watchdog it kills owned the mutex.
OperationsEnd == job["engine"].pc # "idle" ~> job["engine"].pc = "idle"

\* While a watchdog watches, a tunnel that was lost comes back.
TunnelComesBack ==
  (job["watchdog"].pc # "dead" /\ ~IdentityOk) ~> (IdentityOk \/ job["watchdog"].pc = "dead")
=============================================================================
