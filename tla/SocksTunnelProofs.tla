--------------------------- MODULE SocksTunnelProofs ---------------------------
(***************************************************************************)
(* Proofs about SocksTunnel: mutual exclusion in the two calls, no call    *)
(* multiplies PuTTY processes, and a stop is final.                        *)
(***************************************************************************)
EXTENDS SocksTunnel, FiniteSetTheorems, TLAPS

\* PuTTY processes that run and do not listen.
Others == {p \in Puttys : putty[p] \in {"starting", "portless"}}

Waiting == \E a \in Actors : job[a].pc = "wait"

\* Past the point where Ensure-SocksTunnel has stopped whoever listened.
Clearing == \E a \in Actors : job[a].pc \in {"recheck", "start"}

\* An engine operation that will still kill a watchdog, perhaps in its repair.
KillPending ==
  \/ job["engine"].op = "Apply" /\ job["engine"].pc # "idle"
  \/ job["engine"].pc = "killdog"

Jobs == [Actors -> [pc : Pcs, op : EngineOps \cup {"none"}]]

Types ==
  /\ putty \in [Puttys -> PuttyStates]
  /\ mutex = None \/ mutex \in Actors
  /\ job \in Jobs
  /\ stopped \in BOOLEAN /\ left \in Nat
  /\ ops \in 0..MaxOps /\ faults \in 0..MaxFaults

Exclusion == \A a \in Actors : job[a].pc \in Critical <=> mutex = a

\* The watchdog has no operation of its own, and no actor is where only the
\* other one can be.
Roles ==
  /\ job["watchdog"].op = "none" /\ job["watchdog"].pc \notin {"idle", "killdog"}
  /\ job["engine"].pc \notin {"watch", "dead"}

\* Each call that ends early costs a fault, or the operation that killed it.
Budget == (IF KillPending THEN left + 1 ELSE left) <= ops + faults

\* The PuTTY of a call that waits may not have been counted as left yet, but
\* only while one is logging in; and there is room for the one to be started.
Counting ==
  /\ IsFiniteSet(Running) /\ Cardinality(Listeners) <= 1
  /\ Cardinality(Running) <= 1 + left
  /\ Cardinality(Others) <= left \/ (Starting # {} /\ Waiting)
  /\ Clearing => Cardinality(Running) <= left

\* After Stop-Tunnel, and while it stops the tunnel, there is no watchdog.
Final ==
  /\ stopped => job["engine"].pc = "idle" /\ job["watchdog"].pc = "dead"
  /\ job["engine"].op = "StopTunnel" /\ job["engine"].pc \in {"stop", "kill"}
       => job["watchdog"].pc = "dead"
  /\ StopIsFinal

\* The inductive invariant.
Inductive == Types /\ Exclusion /\ Roles /\ Budget /\ Counting /\ Final

---------------------------------------------------------------------------
\* Jobs.

LEMMA GotoFacts ==
  ASSUME job \in Jobs, NEW a \in Actors, NEW pc \in Pcs, Goto(a, pc)
  PROVE  /\ job' \in Jobs
         /\ job'[a].pc = pc /\ job'[a].op = job[a].op
         /\ \A b \in Actors \ {a} : job'[b] = job[b]
  BY DEF Goto, Jobs

\* Where an actor goes after a call; the watchdog only where it belongs.
LEMMA AfterEnsureFacts ==
  ASSUME job \in Jobs, NEW a \in Actors, NEW ok \in BOOLEAN, AfterEnsure(a, ok)
  PROVE  /\ job' \in Jobs
         /\ job'[a].pc = IF a = "watchdog" THEN "watch"
                         ELSE IF job[a].op = "Apply" /\ ok THEN "killdog" ELSE "idle"
         /\ job'[a].op = job[a].op
         /\ \A b \in Actors \ {a} : job'[b] = job[b]
  BY GotoFacts DEF AfterEnsure, Pcs

LEMMA AfterStopFacts ==
  ASSUME job \in Jobs, NEW a \in Actors, NEW ok \in BOOLEAN, AfterStop(a, ok)
  PROVE  /\ job' \in Jobs
         /\ job'[a].pc = IF job[a].op = "StopTunnel" /\ a = "engine" THEN "idle" ELSE "ensure"
         /\ job'[a].op = job[a].op
         /\ \A b \in Actors \ {a} : job'[b] = job[b]
         /\ stopped' = IF job[a].op = "StopTunnel" /\ a = "engine" THEN ok ELSE stopped
  BY GotoFacts DEF AfterStop, Pcs

---------------------------------------------------------------------------
\* PuTTY processes.

LEMMA RunningSplits ==
  ASSUME Types, IsFiniteSet(Running)
  PROVE  /\ Running = Others \cup Listeners /\ Others \cap Listeners = {}
         /\ IsFiniteSet(Others) /\ IsFiniteSet(Listeners)
         /\ Cardinality(Running) = Cardinality(Others) + Cardinality(Listeners)
         /\ Cardinality(Running) \in Nat /\ Cardinality(Others) \in Nat /\ Cardinality(Listeners) \in Nat
<1>1. Running = Others \cup Listeners /\ Others \cap Listeners = {}
  BY DEF Types, PuttyStates, Running, Others, Listeners
<1>2. IsFiniteSet(Others) /\ IsFiniteSet(Listeners)
  BY <1>1, FS_Subset
<1>3. /\ Cardinality(Running) \in Nat /\ Cardinality(Others) \in Nat /\ Cardinality(Listeners) \in Nat
  BY <1>2, FS_CardinalityType
<1>4. Cardinality(Running) = Cardinality(Others) + Cardinality(Listeners) - Cardinality(Others \cap Listeners)
  BY <1>1, <1>2, FS_Union
<1>5. Cardinality(Others \cap Listeners) = 0
  BY <1>1, FS_EmptySet
<1>6. QED
  BY <1>1, <1>2, <1>3, <1>4, <1>5

\* A PuTTY with the identity, or any listener, leaves less room for others.
LEMMA ListenerCounts ==
  ASSUME Types, Counting, Listeners # {}
  PROVE  Cardinality(Others) <= left
<1>1. Cardinality(Listeners) # 0
  BY RunningSplits, FS_EmptySet DEF Counting
<1>2. QED
  BY <1>1, RunningSplits DEF Counting, Types

LEMMA OthersAreFew ==
  ASSUME Types, Counting
  PROVE  Cardinality(Others) <= 1 + left
  BY RunningSplits DEF Counting, Types

\* Steps of actors that start and stop no PuTTY.
LEMMA CountingStays ==
  ASSUME Types, Counting, putty' = putty, left' \in Nat, left <= left',
         Waiting => Waiting' \/ Cardinality(Others) <= left',
         Clearing' => Clearing
  PROVE  Counting'
<1>1. Running' = Running /\ Others' = Others /\ Listeners' = Listeners /\ Starting' = Starting
  BY DEF Running, Others, Listeners, Starting
<1>2. Cardinality(Running) \in Nat /\ Cardinality(Others) \in Nat
  BY RunningSplits DEF Counting
<1>3. QED
  BY <1>1, <1>2 DEF Counting, Types

---------------------------------------------------------------------------
\* Steps of an actor inside its operation or its round.

\* The mutex is taken with the first step into a call, given back with the
\* last, and kept in between.
Takes(a) ==
  \/ job[a].pc \notin Critical /\ job'[a].pc \in Critical /\ mutex = None /\ mutex' = a
  \/ job[a].pc \in Critical /\ job'[a].pc \notin Critical /\ mutex' = None
  \/ (job[a].pc \in Critical <=> job'[a].pc \in Critical) /\ mutex' = mutex

MovesOn(a) ==
  /\ job' \in Jobs /\ job'[a].op = job[a].op /\ \A b \in Actors \ {a} : job'[b] = job[b]
  /\ job[a].pc \notin {"idle", "dead", "killdog"}
  /\ Takes(a)
  /\ a = "watchdog" => job'[a].pc \notin {"idle", "killdog"}
  /\ a = "engine" => job'[a].pc \notin {"watch", "dead"}
  /\ job'[a].pc = "killdog" => job[a].op = "Apply"
  /\ job'[a].pc \in {"stop", "kill"} => job[a].pc \in {"stop", "watch"}

\* A call that ends before its PuTTY has logged in costs a fault.
Spends ==
  /\ ops' = ops /\ faults' \in 0..MaxFaults /\ left' \in Nat
  /\ left <= left' /\ left' - left <= faults' - faults

LEMMA Arithmetic ==
  ASSUME NEW l \in Nat, NEW m \in Nat, NEW o \in Nat, NEW f \in Nat, NEW g \in Nat,
         m - l <= g - f
  PROVE  (l <= o + f => m <= o + g) /\ (l + 1 <= o + f => m + 1 <= o + g)
  OBVIOUS

LEMMA BudgetStays ==
  ASSUME Types, Budget, Spends, KillPending' => KillPending
  PROVE  Budget'
<1>1. MaxOps \in Nat /\ MaxFaults \in Nat
  BY ConstantsAssumption, Zenon
<1>2. left \in Nat /\ ops \in Nat /\ faults \in Nat
  BY <1>1 DEF Types
<1>3. left' \in Nat /\ faults' \in Nat /\ ops' = ops /\ left' - left <= faults' - faults
  BY <1>1 DEF Spends
<1>4. left <= ops + faults /\ (KillPending => left + 1 <= ops + faults)
  BY <1>2 DEF Budget
<1>5. /\ left <= ops + faults => left' <= ops + faults'
      /\ left + 1 <= ops + faults => left' + 1 <= ops + faults'
  BY <1>2, <1>3, Arithmetic, ZenonT(60)
<1>6. left' <= ops' + faults' /\ (KillPending => left' + 1 <= ops' + faults')
  BY <1>3, <1>4, <1>5, Zenon
<1>7. QED
  BY <1>6 DEF Budget

LEMMA Move ==
  ASSUME Inductive, NEW a \in Actors, MovesOn(a), Spends,
         putty' \in [Puttys -> PuttyStates], stopped' \in BOOLEAN
  PROVE  /\ Types' /\ Exclusion' /\ Roles' /\ Budget'
         /\ stopped = FALSE /\ (stopped' = FALSE => Final')
         /\ job'["engine"].op = "StopTunnel" /\ job'["engine"].pc \in {"stop", "kill"}
              => job'["watchdog"].pc = "dead"
<1> USE DEF Inductive, MovesOn
<1>1. Types'
  BY DEF Types, Takes, Spends
<1>2. Exclusion'
  <2>1. None \notin Actors
    BY ConstantsAssumption
  <2>2. \A b \in Actors \ {a} : (job'[b].pc \in Critical) = (job[b].pc \in Critical)
    OBVIOUS
  <2>3. QED
    BY <2>1, <2>2 DEF Exclusion, Takes, Types
<1>3. Roles'
  BY DEF Roles, Actors
<1>4. Budget'
  <2>1. KillPending' => KillPending
    BY DEF KillPending, Roles, Actors
  <2>2. Budget /\ Types
    OBVIOUS
  <2>3. QED
    BY <2>1, <2>2, BudgetStays
<1>5. stopped = FALSE
  BY DEF Final, Actors, Roles, Types
<1>6. job'["engine"].op = "StopTunnel" /\ job'["engine"].pc \in {"stop", "kill"}
        => job'["watchdog"].pc = "dead"
  <2>1. CASE a = "engine"
    BY <2>1 DEF Final, Actors, Roles
  <2>2. CASE a = "watchdog"
    BY <2>2 DEF Final, Actors
  <2>3. QED
    BY <2>1, <2>2 DEF Actors
<1>7. stopped' = FALSE => Final'
  BY <1>6 DEF Final, StopIsFinal
<1>8. QED
  BY <1>1, <1>2, <1>3, <1>4, <1>5, <1>6, <1>7

LEMMA Parts ==
  ASSUME Types', Exclusion', Roles', Budget', Counting', Final'
  PROVE  Inductive'
  BY DEF Inductive

\* The same, for steps that leave the PuTTY processes alone.
LEMMA QuietMove ==
  ASSUME Inductive, NEW a \in Actors, MovesOn(a), Spends, putty' = putty, stopped' = FALSE,
         job[a].pc = "wait" => Cardinality(Others) <= left',
         job'[a].pc \in {"recheck", "start"} => job[a].pc \in {"recheck", "start"}
  PROVE  Inductive'
<1>1. Types' /\ Exclusion' /\ Roles' /\ Budget' /\ Final'
  BY Move DEF Inductive, Types
<1>2. Waiting => Waiting' \/ Cardinality(Others) <= left'
  BY DEF Waiting, MovesOn
<1>3. Clearing' => Clearing
  BY DEF Clearing, MovesOn
<1>4. Counting'
  BY <1>2, <1>3, CountingStays DEF Inductive, Spends
<1>5. QED
  BY <1>1, <1>4, Parts

LEMMA NotStopped ==
  ASSUME Inductive, NEW a \in Actors, job[a].pc \notin {"idle", "dead"}
  PROVE  stopped = FALSE
  BY DEF Inductive, Final, Actors, Roles, Types

LEMMA Differences ==
  \A l, f \in Nat : l <= l /\ l - l <= f - f /\ l <= l + 1 /\ l - l <= (f + 1) - f
                    /\ (l + 1) - l <= (f + 1) - f /\ f + 1 \in Nat /\ l + 1 \in Nat
  OBVIOUS

LEMMA Bounded ==
  \A f, m \in Nat : f < m => f + 1 \in 0..m
  OBVIOUS

LEMMA Free ==
  ASSUME Types, UNCHANGED <<left, ops, faults>>
  PROVE  Spends
<1>1. MaxFaults \in Nat
  BY ConstantsAssumption, Zenon
<1>2. left \in Nat /\ faults \in Nat /\ faults \in 0..MaxFaults
  BY <1>1 DEF Types
<1>3. left <= left /\ left - left <= faults - faults
  BY <1>2, Differences
<1>4. left' = left /\ ops' = ops /\ faults' = faults
  OBVIOUS
<1>5. QED
  BY <1>2, <1>3, <1>4, Zenon DEF Spends

LEMMA Costs ==
  ASSUME Types, NEW kind, Fault(kind), ops' = ops, left' \in {left, left + 1}
  PROVE  Spends
<1>1. MaxFaults \in Nat
  BY ConstantsAssumption, Zenon
<1>2. left \in Nat /\ faults \in Nat
  BY <1>1 DEF Types
<1>3. faults < MaxFaults /\ faults' = faults + 1
  BY DEF Fault
<1>4. faults' \in 0..MaxFaults
  BY <1>1, <1>2, <1>3, Bounded, Zenon
<1>5. /\ left <= left /\ left - left <= (faults + 1) - faults
      /\ left <= left + 1 /\ (left + 1) - left <= (faults + 1) - faults /\ left + 1 \in Nat
  BY <1>2, Differences
<1>6. CASE left' = left
  BY <1>2, <1>3, <1>4, <1>5, <1>6, Zenon DEF Spends
<1>7. CASE left' = left + 1
  BY <1>2, <1>3, <1>4, <1>5, <1>7, Zenon DEF Spends
<1>8. QED
  BY <1>6, <1>7

---------------------------------------------------------------------------
\* Steps that start and stop no PuTTY.

LEMMA EnterStopStep ==
  ASSUME Inductive, NEW a \in Actors, EnterStop(a)
  PROVE  Inductive'
<1>1. MovesOn(a) /\ job[a].pc = "stop" /\ job'[a].pc = "kill"
  BY GotoFacts DEF EnterStop, Inductive, Types, MovesOn, Takes, Critical, Pcs
<1>2. Spends /\ putty' = putty /\ stopped' = FALSE
  BY <1>1, Free, NotStopped DEF EnterStop, Inductive
<1>3. QED
  BY <1>1, <1>2, QuietMove

LEMMA EnterEnsureStep ==
  ASSUME Inductive, NEW a \in Actors, EnterEnsure(a)
  PROVE  Inductive'
<1>1. MovesOn(a) /\ job[a].pc = "ensure" /\ job'[a].pc = "check"
  BY GotoFacts DEF EnterEnsure, Inductive, Types, MovesOn, Takes, Critical, Pcs
<1>2. Spends /\ putty' = putty /\ stopped' = FALSE
  BY <1>1, Free, NotStopped DEF EnterEnsure, Inductive
<1>3. QED
  BY <1>1, <1>2, QuietMove

LEMMA StopTimeoutStep ==
  ASSUME Inductive, NEW a \in Actors, StopTimeout(a)
  PROVE  Inductive'
<1>1. MovesOn(a) /\ job[a].pc = "stop" /\ job'[a].pc \in {"idle", "ensure"}
  BY AfterStopFacts DEF StopTimeout, Inductive, Types, MovesOn, Takes, Critical
<1>2. stopped = FALSE
  BY <1>1, NotStopped
<1>3. stopped' = FALSE
  BY <1>2, AfterStopFacts DEF StopTimeout, Inductive, Types
<1>4. Spends /\ putty' = putty
  BY Costs DEF StopTimeout, Inductive
<1>5. QED
  BY <1>1, <1>3, <1>4, QuietMove

\* A call of Ensure-SocksTunnel ends.
LEMMA EnsureEnds ==
  ASSUME Inductive, NEW a \in Actors, NEW ok \in BOOLEAN, AfterEnsure(a, ok),
         job[a].pc \in {"ensure", "check", "recheck", "start", "wait"},
         mutex' = IF job[a].pc = "ensure" THEN mutex ELSE None,
         Spends, putty' = putty, stopped' = stopped,
         job[a].pc = "wait" => Cardinality(Others) <= left'
  PROVE  Inductive'
<1>1. /\ job'[a].pc \in {"watch", "killdog", "idle"}
      /\ job'[a].pc = "killdog" => job[a].op = "Apply"
      /\ a = "watchdog" => job'[a].pc \notin {"idle", "killdog"}
      /\ a = "engine" => job'[a].pc \notin {"watch", "dead"}
      /\ job' \in Jobs /\ job'[a].op = job[a].op /\ \A b \in Actors \ {a} : job'[b] = job[b]
  BY AfterEnsureFacts DEF Inductive, Types
<1>2. MovesOn(a)
  BY <1>1 DEF MovesOn, Takes, Critical
<1>3. stopped' = FALSE
  BY NotStopped
<1>4. QED
  BY <1>1, <1>2, <1>3, QuietMove

LEMMA EnsureTimeoutStep ==
  ASSUME Inductive, NEW a \in Actors, EnsureTimeout(a)
  PROVE  Inductive'
<1>1. Spends
  BY Costs DEF EnsureTimeout, Inductive
<1>2. QED
  BY <1>1, EnsureEnds DEF EnsureTimeout

LEMMA StartFailsStep ==
  ASSUME Inductive, NEW a \in Actors, StartFails(a)
  PROVE  Inductive'
<1>1. Spends
  BY Costs DEF StartFails, Inductive
<1>2. QED
  BY <1>1, EnsureEnds DEF StartFails

LEMMA CheckStep ==
  ASSUME Inductive, NEW a \in Actors, Check(a)
  PROVE  Inductive'
<1>1. Spends
  BY Free DEF Check, Inductive
<1>2. CASE IdentityOk
  BY <1>1, <1>2, EnsureEnds DEF Check
<1>3. CASE ~IdentityOk
  <2>1. MovesOn(a) /\ job[a].pc = "check" /\ job'[a].pc = "port"
    BY <1>3, GotoFacts DEF Check, Inductive, Types, MovesOn, Takes, Critical, Pcs
  <2>2. putty' = putty /\ stopped' = FALSE
    BY <2>1, NotStopped DEF Check
  <2>3. QED
    BY <1>1, <2>1, <2>2, QuietMove
<1>4. QED
  BY <1>2, <1>3

LEMMA RecheckStep ==
  ASSUME Inductive, NEW a \in Actors, Recheck(a)
  PROVE  Inductive'
<1>1. Spends
  BY Free DEF Recheck, Inductive
<1>2. CASE IdentityOk
  BY <1>1, <1>2, EnsureEnds DEF Recheck
<1>3. CASE ~IdentityOk
  <2>1. MovesOn(a) /\ job[a].pc = "recheck" /\ job'[a].pc = "start"
    BY <1>3, GotoFacts DEF Recheck, Inductive, Types, MovesOn, Takes, Critical, Pcs
  <2>2. putty' = putty /\ stopped' = FALSE
    BY <2>1, NotStopped DEF Recheck
  <2>3. QED
    BY <1>1, <2>1, <2>2, QuietMove
<1>4. QED
  BY <1>2, <1>3

LEMMA SeesIdentityStep ==
  ASSUME Inductive, NEW a \in Actors, SeesIdentity(a)
  PROVE  Inductive'
<1>1. Spends
  BY Free DEF SeesIdentity, Inductive
<1>2. Listeners # {}
  BY DEF SeesIdentity, IdentityOk, Listeners
<1>3. Cardinality(Others) <= left'
  BY <1>2, ListenerCounts DEF SeesIdentity, Inductive
<1>4. QED
  BY <1>1, <1>3, EnsureEnds DEF SeesIdentity

LEMMA WaitTimeoutStep ==
  ASSUME Inductive, NEW a \in Actors, WaitTimeout(a)
  PROVE  Inductive'
<1>1. CASE Starting = {}
  <2>1. left' = left /\ faults' = faults /\ ops' = ops
    BY <1>1 DEF WaitTimeout, Abandon
  <2>2. Spends
    BY <2>1, Free DEF Inductive
  <2>3. Cardinality(Others) <= left'
    BY <1>1, <2>1 DEF Inductive, Counting
  <2>4. QED
    BY <2>2, <2>3, EnsureEnds DEF WaitTimeout
<1>2. CASE Starting # {}
  <2>1. left' = left + 1 /\ Fault("slow") /\ ops' = ops
    BY <1>2 DEF WaitTimeout, Abandon
  <2>2. Spends
    BY <2>1, Costs DEF Inductive
  <2>3. left \in Nat /\ Cardinality(Others) <= 1 + left
    BY OthersAreFew DEF Inductive, Types
  <2>4. Cardinality(Others) <= left'
    BY <2>1, <2>3
  <2>5. QED
    BY <2>2, <2>4, EnsureEnds DEF WaitTimeout
<1>3. QED
  BY <1>1, <1>2

LEMMA WatchdogTestsStep ==
  ASSUME Inductive, WatchdogTests
  PROVE  Inductive'
<1>1. /\ "watchdog" \in Actors /\ MovesOn("watchdog")
      /\ job["watchdog"].pc = "watch" /\ job'["watchdog"].pc = "stop"
  BY GotoFacts DEF WatchdogTests, Inductive, Types, MovesOn, Takes, Critical, Pcs, Actors
<1>2. Spends /\ putty' = putty /\ stopped' = FALSE
  BY <1>1, Free, NotStopped DEF WatchdogTests, Inductive
<1>3. QED
  BY <1>1, <1>2, QuietMove

---------------------------------------------------------------------------
\* Steps that stop or start a PuTTY.

\* While an actor is inside a call and does not wait, nobody waits.
LEMMA NobodyWaits ==
  ASSUME Inductive, NEW a \in Actors, job[a].pc \in Critical, job[a].pc # "wait"
  PROVE  ~Waiting /\ Cardinality(Others) <= left
<1>1. mutex = a
  BY DEF Inductive, Exclusion
<1>2. ~Waiting
  BY <1>1 DEF Inductive, Exclusion, Waiting, Critical
<1>3. QED
  BY <1>2 DEF Inductive, Counting

LEMMA AfterStopListener ==
  ASSUME Types, StopListener
  PROVE  /\ putty' \in [Puttys -> PuttyStates]
         /\ Running' = Others /\ Others' = Others /\ Listeners' = {}
  BY DEF Types, StopListener, PuttyStates, Running, Others, Listeners

LEMMA CountingWithoutListener ==
  ASSUME Types, Counting, StopListener, left' = left, Cardinality(Others) <= left
  PROVE  Counting'
<1>1. Running' = Others /\ Others' = Others /\ Listeners' = {}
  BY AfterStopListener
<1>2. IsFiniteSet(Others) /\ Cardinality(Others) \in Nat /\ left \in Nat
  BY RunningSplits DEF Counting, Types
<1>3. Cardinality({}) = 0
  BY FS_EmptySet
<1>4. Cardinality(Others) <= 1 + left
  BY <1>2
<1>5. QED
  BY <1>1, <1>2, <1>3, <1>4 DEF Counting

LEMMA KillListenerStep ==
  ASSUME Inductive, NEW a \in Actors, KillListener(a)
  PROVE  Inductive'
<1>1. /\ MovesOn(a) /\ job[a].pc = "kill" /\ job'[a].pc \in {"idle", "ensure"}
      /\ stopped' = IF job[a].op = "StopTunnel" /\ a = "engine" THEN TRUE ELSE stopped
  BY AfterStopFacts DEF KillListener, Inductive, Types, MovesOn, Takes, Critical
<1>2. Spends /\ StopListener /\ left' = left
  BY Free DEF KillListener, Inductive
<1>3. Cardinality(Others) <= left
  BY <1>1, NobodyWaits DEF Critical
<1>4. Counting'
  BY <1>2, <1>3, CountingWithoutListener DEF Inductive
<1>5. /\ Types' /\ Exclusion' /\ Roles' /\ Budget' /\ stopped = FALSE
      /\ stopped' = FALSE => Final'
  <2>1. putty' \in [Puttys -> PuttyStates] /\ stopped' \in BOOLEAN
    BY <1>1, <1>2, AfterStopListener DEF Inductive, Types
  <2>2. QED
    BY <1>1, <1>2, <2>1, Move
<1>6. CASE stopped' = FALSE
  BY <1>4, <1>5, <1>6, Parts
<1>7. CASE stopped' # FALSE
  <2>1. /\ a = "engine" /\ job["engine"].op = "StopTunnel"
        /\ job["watchdog"].pc = "dead" /\ job'["watchdog"] = job["watchdog"]
        /\ job'["engine"].pc = "idle"
    BY <1>1, <1>5, <1>7, AfterStopFacts DEF KillListener, Inductive, Final, Types, Actors
  <2>2. left = 0 => Running' = {}
    <3>1. IsFiniteSet(Others) /\ Cardinality(Others) \in Nat
      BY RunningSplits DEF Inductive, Counting
    <3>2. left = 0 => Cardinality(Others) = 0
      BY <1>3, <3>1
    <3>3. QED
      BY <1>2, <3>1, <3>2, AfterStopListener, FS_EmptySet DEF Inductive
  <2>3. Final'
    BY <1>2, <2>1, <2>2 DEF Final, StopIsFinal
  <2>4. QED
    BY <1>4, <1>5, <2>3, Parts
<1>8. QED
  BY <1>6, <1>7

LEMMA PortStep ==
  ASSUME Inductive, NEW a \in Actors, Port(a)
  PROVE  Inductive'
<1>1. MovesOn(a) /\ job[a].pc = "port" /\ job'[a].pc \in {"start", "recheck"}
  BY GotoFacts DEF Port, Inductive, Types, MovesOn, Takes, Critical, Pcs
<1>2. Spends /\ StopListener /\ left' = left /\ stopped' = FALSE
  BY <1>1, Free, NotStopped DEF Port, Inductive
<1>3. Cardinality(Others) <= left
  BY <1>1, NobodyWaits DEF Critical
<1>4. Counting'
  BY <1>2, <1>3, CountingWithoutListener DEF Inductive
<1>5. putty' \in [Puttys -> PuttyStates]
  BY <1>2, AfterStopListener DEF Inductive
<1>6. QED
  BY <1>1, <1>2, <1>4, <1>5, Move, Parts

LEMMA StartPuttyStep ==
  ASSUME Inductive, NEW a \in Actors, StartPutty(a)
  PROVE  Inductive'
<1>1. MovesOn(a) /\ job[a].pc = "start" /\ job'[a].pc = "wait"
  BY GotoFacts DEF StartPutty, Inductive, Types, MovesOn, Takes, Critical, Pcs
<1>2. Spends /\ left' = left /\ stopped' = FALSE
  BY <1>1, Free, NotStopped DEF StartPutty, Inductive
<1>3. PICK p \in Puttys \ Running : putty' = [putty EXCEPT ![p] = "starting"]
  BY DEF StartPutty
<1>4. putty' \in [Puttys -> PuttyStates]
  BY <1>3 DEF Inductive, Types, PuttyStates
<1>5. Clearing
  BY <1>1 DEF Clearing
<1>6. Cardinality(Running) <= left
  BY <1>5 DEF Inductive, Counting
<1>7. Running' = Running \cup {p} /\ p \notin Running /\ Listeners' = Listeners /\ p \in Starting'
  BY <1>3 DEF Inductive, Types, Running, Listeners, Starting
<1>8. /\ IsFiniteSet(Running') /\ Cardinality(Running') = Cardinality(Running) + 1
      /\ Cardinality(Running) \in Nat
  BY <1>7, FS_AddElement, FS_CardinalityType DEF Inductive, Counting
<1>9. ~Clearing'
  <2>1. mutex = a
    BY <1>1 DEF Inductive, Exclusion, Critical
  <2>2. \A b \in Actors \ {a} : job[b].pc \notin Critical
    BY <2>1 DEF Inductive, Exclusion
  <2>3. QED
    BY <1>1, <2>2 DEF Clearing, MovesOn, Critical
<1>10. Waiting'
  BY <1>1 DEF Waiting
<1>11. Cardinality(Running') <= 1 + left
  BY <1>6, <1>8 DEF Inductive, Types
<1>12. Counting'
  BY <1>2, <1>7, <1>8, <1>9, <1>10, <1>11 DEF Inductive, Counting
<1>13. QED
  BY <1>1, <1>2, <1>4, <1>12, Move, Parts

---------------------------------------------------------------------------
\* PuTTY's own steps.

LEMMA MoreFaults ==
  \A r, f \in Nat : r <= f => r <= f + 1
  OBVIOUS

LEMMA PuttyAlone ==
  ASSUME Inductive, NEW p \in Puttys, NEW s \in PuttyStates, putty' = [putty EXCEPT ![p] = s],
         UNCHANGED <<mutex, job, stopped, left, ops>>,
         faults' = faults \/ \E kind : Fault(kind),
         Running' \subseteq Running,
         Cardinality(Others') <= left, Cardinality(Listeners') <= 1
  PROVE  Inductive'
<1>1. Spends
  BY Free, Costs DEF Inductive
<1>2. Types'
  BY <1>1 DEF Inductive, Types, Spends
<1>3. Exclusion' /\ Roles'
  BY DEF Inductive, Exclusion, Roles
<1>4. Budget'
  BY <1>1, BudgetStays DEF Inductive, KillPending
<1>5. Counting'
  <2>1. IsFiniteSet(Running') /\ Cardinality(Running') <= Cardinality(Running)
    BY FS_Subset DEF Inductive, Counting
  <2>2. Cardinality(Running') \in Nat /\ Cardinality(Running) \in Nat
    BY <2>1, FS_CardinalityType DEF Inductive, Counting
  <2>3. Cardinality(Running) <= 1 + left /\ (Clearing => Cardinality(Running) <= left) /\ left \in Nat
    BY DEF Inductive, Counting, Types
  <2>4. Cardinality(Running') <= 1 + left /\ (Clearing => Cardinality(Running') <= left)
    BY <2>1, <2>2, <2>3
  <2>5. left' = left /\ (Clearing' <=> Clearing)
    BY DEF Clearing
  <2>6. QED
    BY <2>1, <2>4, <2>5 DEF Counting
<1>6. Final'
  BY DEF Inductive, Final, StopIsFinal
<1>7. QED
  BY <1>2, <1>3, <1>4, <1>5, <1>6, Parts

LEMMA PuttyConnectsStep ==
  ASSUME Inductive, NEW p \in Puttys, PuttyConnects(p)
  PROVE  Inductive'
<1>1. p \in Others /\ p \notin Listeners
  BY DEF PuttyConnects, Others, Listeners
<1>2. CASE Listeners = {}
  <2>1. putty' = [putty EXCEPT ![p] = "up"] /\ "up" \in PuttyStates
    BY <1>2 DEF PuttyConnects, PuttyStates
  <2>2. Running' = Running /\ Others' = Others \ {p} /\ Listeners' = {p}
    BY <1>1, <1>2, <2>1 DEF Inductive, Types, Running, Others, Listeners
  <2>3. Cardinality(Others') = Cardinality(Others) - 1
    BY <1>1, <2>2, RunningSplits, FS_RemoveElement DEF Inductive, Counting
  <2>4. Cardinality(Others') <= left
    <3>1. Cardinality(Others) \in Nat /\ Cardinality(Others) <= 1 + left /\ left \in Nat
      BY OthersAreFew, RunningSplits DEF Inductive, Counting, Types
    <3>2. QED
      BY <2>3, <3>1
  <2>5. Cardinality(Listeners') <= 1
    BY <2>2, FS_Singleton
  <2>6. QED
    BY <2>1, <2>2, <2>4, <2>5, PuttyAlone DEF PuttyConnects
<1>3. CASE Listeners # {}
  <2>1. putty' = [putty EXCEPT ![p] = "portless"] /\ "portless" \in PuttyStates
    BY <1>3 DEF PuttyConnects, PuttyStates
  <2>2. Running' = Running /\ Others' = Others /\ Listeners' = Listeners
    BY <1>1, <2>1 DEF Inductive, Types, Running, Others, Listeners
  <2>3. Cardinality(Others') <= left /\ Cardinality(Listeners') <= 1
    BY <1>3, <2>2, ListenerCounts DEF Inductive, Counting
  <2>4. QED
    BY <2>1, <2>2, <2>3, PuttyAlone DEF PuttyConnects
<1>4. QED
  BY <1>2, <1>3

LEMMA PuttyRefusedStep ==
  ASSUME Inductive, NEW p \in Puttys, PuttyRefused(p)
  PROVE  Inductive'
<1>1. p \in Others /\ p \notin Listeners
  BY DEF PuttyRefused, Others, Listeners
<1>2. putty' = [putty EXCEPT ![p] = "none"] /\ "none" \in PuttyStates
  BY DEF PuttyRefused, PuttyStates
<1>3. Running' \subseteq Running /\ Others' = Others \ {p} /\ Listeners' = Listeners
  BY <1>1, <1>2 DEF Inductive, Types, Running, Others, Listeners
<1>4. Cardinality(Others') = Cardinality(Others) - 1
  BY <1>1, <1>3, RunningSplits, FS_RemoveElement DEF Inductive, Counting
<1>5. Cardinality(Others') <= left
  <2>1. Cardinality(Others) \in Nat /\ Cardinality(Others) <= 1 + left /\ left \in Nat
    BY OthersAreFew, RunningSplits DEF Inductive, Counting, Types
  <2>2. QED
    BY <1>4, <2>1
<1>6. Cardinality(Listeners') <= 1
  BY <1>3 DEF Inductive, Counting
<1>7. QED
  BY <1>2, <1>3, <1>5, <1>6, PuttyAlone DEF PuttyRefused

LEMMA TunnelDropsStep ==
  ASSUME Inductive, NEW p \in Puttys, TunnelDrops(p)
  PROVE  Inductive'
<1>1. p \in Listeners /\ Listeners # {}
  BY DEF TunnelDrops, Listeners
<1>2. PICK s \in {"stale", "none"} : putty' = [putty EXCEPT ![p] = s]
  BY DEF TunnelDrops
<1>3. s \in PuttyStates
  BY DEF PuttyStates
<1>4. Running' \subseteq Running /\ Others' = Others /\ Listeners' \subseteq Listeners
  BY <1>1, <1>2 DEF Inductive, Types, Running, Others, Listeners
<1>5. Cardinality(Others') <= left
  BY <1>1, <1>4, ListenerCounts DEF Inductive
<1>6. Cardinality(Listeners') <= 1
  <2>1. IsFiniteSet(Listeners) /\ Cardinality(Listeners) <= 1 /\ Cardinality(Listeners) \in Nat
    BY RunningSplits DEF Inductive, Counting
  <2>2. Cardinality(Listeners') <= Cardinality(Listeners) /\ Cardinality(Listeners') \in Nat
    BY <1>4, <2>1, FS_Subset, FS_CardinalityType
  <2>3. QED
    BY <2>1, <2>2
<1>7. QED
  BY <1>2, <1>3, <1>4, <1>5, <1>6, PuttyAlone DEF TunnelDrops

---------------------------------------------------------------------------
\* Operations.

LEMMA OneMore ==
  \A l, o, f, m \in Nat :
    /\ o < m => o + 1 \in 0..m
    /\ l <= o + f => l <= (o + 1) + f /\ l + 1 <= (o + 1) + f
    /\ l + 1 <= o + f => l <= o + f
  OBVIOUS

LEMMA StartStep ==
  ASSUME Inductive, NEW op \in EngineOps, Start(op)
  PROVE  Inductive'
<1> DEFINE pc == IF op = "Apply" THEN "ensure" ELSE IF op = "StopTunnel" THEN "killdog" ELSE "stop"
<1>1. MaxOps \in Nat /\ MaxFaults \in Nat
  BY ConstantsAssumption, Zenon
<1>2. /\ job["engine"].pc = "idle" /\ ops < MaxOps /\ ops' = ops + 1 /\ stopped' = FALSE
      /\ job' = [job EXCEPT !["engine"] = [op |-> op, pc |-> pc]]
      /\ putty' = putty /\ mutex' = mutex /\ left' = left /\ faults' = faults
  BY Zenon DEF Start
<1>3. /\ job' \in Jobs /\ job'["engine"].pc = pc /\ job'["engine"].op = op
      /\ job'["watchdog"] = job["watchdog"]
  <2>1. pc \in Pcs
    BY DEF Pcs
  <2>2. job \in Jobs
    BY DEF Inductive, Types
  <2> HIDE DEF pc
  <2>3. QED
    BY <1>2, <2>1, <2>2 DEF Jobs, Actors
<1>4. left \in Nat /\ ops \in Nat /\ faults \in Nat
  BY <1>1 DEF Inductive, Types
<1>5. Types'
  <2>1. ops' \in 0..MaxOps
    BY <1>1, <1>2, <1>4, OneMore, Zenon
  <2>2. QED
    BY <1>2, <1>3, <2>1 DEF Inductive, Types
<1>6. Exclusion' /\ Roles'
  BY <1>2, <1>3 DEF Inductive, Exclusion, Roles, Critical, Actors
<1>7. Budget'
  <2>1. left <= ops + faults
    BY <1>2, <1>4 DEF Inductive, Budget, KillPending
  <2>2. left <= (ops + 1) + faults /\ left + 1 <= (ops + 1) + faults
    BY <1>4, <2>1, OneMore
  <2>3. QED
    BY <1>2, <2>2, Zenon DEF Budget
<1>8. Counting'
  <2>1. (Waiting' <=> Waiting) /\ (Clearing' <=> Clearing)
    BY <1>2, <1>3 DEF Waiting, Clearing, Actors
  <2>2. left <= left'
    BY <1>2, <1>4
  <2>3. QED
    BY <1>2, <1>4, <2>1, <2>2, CountingStays DEF Inductive
<1>9. Final'
  BY <1>2, <1>3 DEF Final, StopIsFinal
<1>10. QED
  BY <1>5, <1>6, <1>7, <1>8, <1>9, Parts

LEMMA KillWatchdogStep ==
  ASSUME Inductive, KillWatchdog
  PROVE  Inductive'
<1> DEFINE new == IF job["engine"].op = "Apply" THEN "watch" ELSE "dead"
           next == IF job["engine"].op = "Apply" THEN "idle" ELSE "stop"
<1>1. MaxOps \in Nat /\ MaxFaults \in Nat
  BY ConstantsAssumption, Zenon
<1>2. left \in Nat /\ ops \in Nat /\ faults \in Nat
  BY <1>1 DEF Inductive, Types
<1>3. /\ job["engine"].pc = "killdog" /\ Abandon("watchdog")
      /\ mutex' = IF mutex = "watchdog" THEN None ELSE mutex
      /\ job' = [job EXCEPT !["watchdog"].pc = new, !["engine"].pc = next]
      /\ putty' = putty /\ stopped' = stopped /\ ops' = ops /\ faults' = faults
  BY Zenon DEF KillWatchdog
<1>4. /\ job' \in Jobs /\ job'["engine"].pc = next /\ job'["engine"].op = job["engine"].op
      /\ job'["watchdog"].pc = new /\ job'["watchdog"].op = job["watchdog"].op
  <2>1. new \in Pcs /\ next \in Pcs
    BY DEF Pcs
  <2>2. job \in Jobs
    BY DEF Inductive, Types
  <2> HIDE DEF new, next
  <2>3. QED
    BY <1>3, <2>1, <2>2 DEF Jobs, Actors
<1>5. left' \in Nat /\ left <= left' /\ left' \in {left, left + 1}
  BY <1>2, <1>3 DEF Abandon
<1>6. stopped = FALSE
  BY <1>3, NotStopped DEF Actors
<1>7. Types'
  BY <1>3, <1>4, <1>5 DEF Inductive, Types
<1>8. Exclusion' /\ Roles'
  <2>1. mutex # "engine" /\ None # "engine" /\ None # "watchdog"
    BY <1>3, ConstantsAssumption DEF Inductive, Exclusion, Critical, Actors
  <2>2. mutex' = None
    BY <1>3, <2>1 DEF Inductive, Types, Actors
  <2>3. QED
    BY <1>4, <2>1, <2>2 DEF Inductive, Exclusion, Roles, Critical, Actors
<1>9. Budget'
  <2>1. left + 1 <= ops + faults /\ left <= ops + faults
    BY <1>2, <1>3, OneMore DEF Inductive, Budget, KillPending
  <2>2. ~KillPending'
    BY <1>4 DEF KillPending
  <2>3. left' <= ops' + faults'
    BY <1>3, <1>5, <2>1, Zenon
  <2>4. QED
    BY <2>2, <2>3 DEF Budget
<1>10. Counting'
  <2>1. Waiting => Cardinality(Others) <= left'
    <3>1. Waiting => job["watchdog"].pc = "wait"
      BY <1>3 DEF Waiting, Actors
    <3>2. CASE Starting = {}
      BY <1>3, <3>2 DEF Inductive, Counting, Abandon
    <3>3. CASE Starting # {} /\ Waiting
      <4>1. left' = left + 1
        BY <1>3, <3>1, <3>3 DEF Abandon
      <4>2. Cardinality(Others) <= 1 + left /\ 1 + left = left + 1
        BY <1>2, OthersAreFew DEF Inductive
      <4>3. QED
        BY <4>1, <4>2
    <3>4. QED
      BY <3>2, <3>3
  <2>2. Clearing' => Clearing
    BY <1>4 DEF Clearing, Actors
  <2>3. QED
    BY <1>3, <1>5, <2>1, <2>2, CountingStays DEF Inductive
<1>11. Final'
  BY <1>3, <1>4, <1>6 DEF Final, StopIsFinal
<1>12. QED
  BY <1>7, <1>8, <1>9, <1>10, <1>11, Parts

---------------------------------------------------------------------------
\* The specification.

LEMMA InitEstablishes ==
  ASSUME Init
  PROVE  Inductive
<1>1. MaxOps \in Nat /\ MaxFaults \in Nat
  BY ConstantsAssumption, Zenon
<1>2. /\ job \in Jobs /\ job["engine"].pc = "idle" /\ job["watchdog"].pc = "dead"
      /\ job["engine"].op = "none" /\ job["watchdog"].op = "none"
  BY DEF Init, Jobs, Actors, Pcs
<1>3. Types
  <2>1. 0 \in 0..MaxOps /\ 0 \in 0..MaxFaults /\ 0 \in Nat
    BY <1>1
  <2>2. putty \in [Puttys -> PuttyStates]
    BY DEF Init, PuttyStates
  <2>3. ops \in 0..MaxOps /\ faults \in 0..MaxFaults /\ left \in Nat /\ mutex = None /\ stopped = FALSE
    BY <2>1, Zenon DEF Init
  <2>4. QED
    BY <1>2, <2>2, <2>3, Zenon DEF Types
<1>4. Exclusion /\ Roles /\ Final
  BY <1>2, ConstantsAssumption DEF Init, Exclusion, Roles, Final, StopIsFinal, Critical, Actors
<1>5. Budget
  BY <1>2 DEF Init, Budget, KillPending
<1>6. Counting
  <2>1. Running = {} /\ Others = {} /\ Listeners = {}
    BY DEF Init, Running, Others, Listeners
  <2>2. IsFiniteSet({}) /\ Cardinality({}) = 0
    BY FS_EmptySet
  <2>3. left = 0
    BY DEF Init
  <2>4. QED
    BY <2>1, <2>2, <2>3 DEF Counting
<1>7. QED
  BY <1>3, <1>4, <1>5, <1>6 DEF Inductive

LEMMA StutterKeeps ==
  ASSUME Inductive, UNCHANGED vars
  PROVE  Inductive'
<1>1. Types' /\ Exclusion' /\ Roles' /\ Final'
  BY DEF Inductive, vars, Types, Exclusion, Roles, Final, StopIsFinal, Running
<1>2. Budget'
  BY DEF Inductive, vars, Budget, KillPending
<1>3. Counting'
  BY DEF Inductive, vars, Counting, Running, Listeners, Others, Starting, Waiting, Clearing
<1>4. QED
  BY <1>1, <1>2, <1>3, Parts

LEMMA StepPreserves ==
  ASSUME Inductive, [Next]_vars
  PROVE  Inductive'
<1>1. ASSUME NEW op \in EngineOps, Start(op) PROVE Inductive'
  BY <1>1, StartStep
<1>2. CASE KillWatchdog
  BY <1>2, KillWatchdogStep
<1>3. CASE WatchdogTests
  BY <1>3, WatchdogTestsStep
<1>4. ASSUME NEW a \in Actors, ActorStep(a) PROVE Inductive'
  BY <1>4, EnterStopStep, KillListenerStep, EnterEnsureStep, CheckStep, PortStep, RecheckStep,
     StartPuttyStep, SeesIdentityStep, WaitTimeoutStep DEF ActorStep
<1>5. ASSUME NEW a \in Actors, StopTimeout(a) \/ EnsureTimeout(a) \/ StartFails(a) PROVE Inductive'
  BY <1>5, StopTimeoutStep, EnsureTimeoutStep, StartFailsStep
<1>6. ASSUME NEW p \in Puttys, PuttyConnects(p) \/ PuttyRefused(p) \/ TunnelDrops(p)
      PROVE  Inductive'
  BY <1>6, PuttyConnectsStep, PuttyRefusedStep, TunnelDropsStep
<1>7. CASE UNCHANGED vars
  BY <1>7, StutterKeeps
<1>8. QED
  BY <1>1, <1>2, <1>3, <1>4, <1>5, <1>6, <1>7 DEF Next

LEMMA AlwaysInductive == Spec => []Inductive
<1>1. Init => Inductive
  BY InitEstablishes
<1>2. Inductive /\ [Next]_vars => Inductive'
  BY StepPreserves
<1>3. QED
  BY <1>1, <1>2, PTL DEF Spec

\* The variables have their types, at most one PuTTY listens on the port, and
\* whoever is inside Ensure-SocksTunnel or Stop-TunnelProcess owns the mutex;
\* calls left early are at most the operations and faults that cut them short.
THEOREM TypeCorrect == Spec => []TypeOK
<1>1. Inductive => TypeOK
  <2> SUFFICES ASSUME Inductive PROVE TypeOK
    OBVIOUS
  <2>1. MaxOps \in Nat /\ MaxFaults \in Nat
    BY ConstantsAssumption, Zenon
  <2>2. left \in 0..(MaxOps + MaxFaults)
    BY <2>1 DEF Inductive, Types, Budget
  <2>3. QED
    BY <2>2 DEF Inductive, Types, Counting, Exclusion, Jobs, TypeOK
<1>2. QED
  BY <1>1, AlwaysInductive, PTL

\* No interleaving of engine and watchdog, and no kill of the watchdog inside
\* its repair, leaves more PuTTY processes than one and those of the calls
\* that ended before their PuTTY had logged in.
THEOREM PuttysDoNotMultiply == Spec => []PuttysAreAccountedFor
<1>1. Inductive => PuttysAreAccountedFor
  BY DEF Inductive, Counting, PuttysAreAccountedFor
<1>2. QED
  BY <1>1, AlwaysInductive, PTL

\* After Stop-Tunnel has reported a stopped tunnel nothing starts one again.
THEOREM StopStaysFinal == Spec => []StopIsFinal
<1>1. Inductive => StopIsFinal
  BY DEF Inductive, Final
<1>2. QED
  BY <1>1, AlwaysInductive, PTL
=============================================================================
