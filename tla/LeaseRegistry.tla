--------------------------- MODULE LeaseRegistry ---------------------------
(***************************************************************************)
(* What the Writer Lease registry promises to the agents that use it,      *)
(* without git, HTTP or workflow runs: one registry document and one clock.*)
(* A work unit is granted a lease only while no unexpired ACTIVE lease     *)
(* stands in its conflict domain, a granted lease is recorded for ever and *)
(* can only be turned from ACTIVE into RELEASED.                           *)
(***************************************************************************)
EXTENDS Naturals, Sequences

CONSTANTS WorkUnits,     \* work units that may ask for a lease
          DomainOf,      \* the conflict domain of each work unit
          LeaseIds,      \* identifiers of leases (UUIDs in the code)
          Bases,         \* commits of main a work unit can be based on
          LeaseSeconds   \* how long a lease lasts

VARIABLES registry, clock

absVars == <<registry, clock>>

NoLeases == [generation |-> 0, entries |-> << >>]

Conflicting(e, w) == e.domain = DomainOf[w] \/ e.wu = w

\* A lease that still excludes others at time t.
Holds(e, t) == e.state = "ACTIVE" /\ e.expires > t

Init == registry = NoLeases /\ clock = 0

\* The lease runs from the instant the request was judged, which is in the past.
Grant(w, id, base, t) ==
  /\ \A j \in DOMAIN registry.entries :
       ~ (Conflicting(registry.entries[j], w) /\ Holds(registry.entries[j], clock))
  /\ \A j \in DOMAIN registry.entries : registry.entries[j].id # id
  /\ registry' = [generation |-> registry.generation + 1,
                  entries |-> Append(registry.entries,
                     [id |-> id, wu |-> w, domain |-> DomainOf[w], base |-> base,
                      state |-> "ACTIVE", generation |-> registry.generation + 1,
                      acquired |-> t, expires |-> t + LeaseSeconds])]
  /\ UNCHANGED clock

\* Leases in S end early; nothing else in the document changes.
EndLeases(S) ==
  /\ \A j \in S : registry.entries[j].state = "ACTIVE"
  /\ registry' = [registry EXCEPT !.entries =
       [j \in DOMAIN registry.entries |->
          IF j \in S THEN [registry.entries[j] EXCEPT !.state = "RELEASED"]
                     ELSE registry.entries[j]]]
  /\ UNCHANGED clock

Pass == clock' = clock + 1 /\ UNCHANGED registry

Next ==
  \/ \E w \in WorkUnits, id \in LeaseIds, base \in Bases, t \in 0..clock : Grant(w, id, base, t)
  \/ \E S \in SUBSET DOMAIN registry.entries : EndLeases(S)
  \/ Pass

Spec == Init /\ [][Next]_absVars
=============================================================================
