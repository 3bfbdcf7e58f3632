------------------------ MODULE ContinuationLoopProofs ------------------------
(***************************************************************************)
(* Proofs about ContinuationLoop: types, what is merged was tested, and one *)
(* writer per frontier.                                                    *)
(***************************************************************************)
EXTENDS ContinuationLoop, FiniteSetTheorems, TLAPS

Acts == {"create", "acquire", "branch", "push", "pr", "release", "merge", "close"}

IssueRecords == [open : BOOLEAN, wu : Nat, frontier : 0..LastFrontier, base : 0..Tip, mark : Marks]
LeaseStates == {"NONE", "ACTIVE", "EXPIRED", "RELEASED"}
Branches == [head : Nat \cup {-1}, frontier : 0..LastFrontier]
Pulls == [state : {"NONE", "OPEN", "CLOSED", "MERGED"}, base : 0..Tip, merge : 0..Tip]
RunStates == {"absent", "pending", "success", "failure"}
Views == [head : 0..Tip, checkout : 0..Tip, open : SUBSET [number : Issues, mark : Marks]]
Requests == [session : Sessions, act : Acts, number : 0..Len(issue), late : BOOLEAN,
             wu : Nat, at : Nat \cup {-1}, frontier : 0..LastFrontier]

\* The provider's objects.
ProviderTypes ==
    /\ main \in Seq(Commits) /\ Tip >= 1
    /\ issue \in Seq(IssueRecords) /\ Len(issue) <= MaxIssues
    /\ lease \in [Numbers -> LeaseStates]
    /\ branch \in [Numbers -> Branches]
    /\ pull \in [Numbers -> Pulls]
    /\ ci \in [Numbers -> [Workflows -> RunStates]]

\* The greatest work unit id, which the planner takes from the history, exists.
HasGreatestId == \E k \in Issues : \A n \in Issues : issue[n].wu <= issue[k].wu

\* Commits of merged pull requests.
MergesAreCommits ==
    \A n \in Numbers : pull[n].state = "MERGED" => pull[n].merge \in 1..Tip /\ main[pull[n].merge].issue = n

\* Sessions, and the one request each waits for.
SessionTypes ==
    /\ pc \in [Sessions -> {"idle", "open", "decide", "wait"}]
    /\ seen \in [Sessions -> Views]
    /\ \A s \in Sessions : pc[s] \in {"open", "decide"} => seen[s].head # 0 /\ seen[s].checkout # 0
    /\ \A s \in Sessions : pc[s] = "wait" <=> \E r \in inflight : r.session = s /\ ~r.late
    /\ \A q, r \in inflight : ~q.late /\ ~r.late /\ q.session = r.session => q = r

RequestTypes ==
    \A r \in inflight :
        /\ r \in Requests
        /\ r.act # "create" => r.number # 0
        /\ r.act \in {"create", "branch"} => r.at \in 1..Tip

\* What a merge needs of the lease and the runs.
Tested(n) == lease[n] = "RELEASED" /\ \A w \in Required : ci[n][w] = "success"

MergedTested == \A n \in Numbers : pull[n].state = "MERGED" => Tested(n)

\* A merge request that can still be accepted is for a tested head: a repair
\* moves the branch past the head the request names.
MergeRequests ==
    \A r \in inflight : r.act = "merge" =>
        /\ pull[r.number].state # "NONE"
        /\ r.at <= branch[r.number].head
        /\ pull[r.number].state = "OPEN" /\ r.at = branch[r.number].head => Tested(r.number)

\* Leases of the work units of one frontier; numbers without an issue have none.
OneWriter ==
    /\ \A n \in Numbers : n > Len(issue) => lease[n] = "NONE"
    /\ \A m, n \in Issues :
          m # n /\ issue[m].frontier = issue[n].frontier => ~(lease[m] = "ACTIVE" /\ lease[n] = "ACTIVE")

OnFrontier == \A n \in Issues : issue[n].base # 0 => issue[n].frontier = main[issue[n].base].frontier

\* Frontiers of issues and of proposals under way.
Proposals ==
    FreshCheckout =>
        /\ OnFrontier
        /\ \A r \in inflight : r.act = "create" => r.frontier = main[r.at].frontier
        /\ \A s \in Sessions : seen[s].checkout = seen[s].head

\* The inductive invariant.
Inductive ==
    /\ ProviderTypes /\ HasGreatestId /\ MergesAreCommits
    /\ SessionTypes /\ RequestTypes
    /\ MergedTested /\ MergeRequests /\ OneWriter /\ Proposals

---------------------------------------------------------------------------
\* Helpers.

LEMMA Parts ==
  ASSUME ProviderTypes', HasGreatestId', MergesAreCommits', SessionTypes', RequestTypes',
         MergedTested', MergeRequests', OneWriter', Proposals'
  PROVE  Inductive'
  BY DEF Inductive

LEMMA Sizes ==
  ASSUME Inductive
  PROVE  /\ Tip \in Nat /\ Tip >= 1 /\ Len(issue) \in Nat /\ Len(issue) <= MaxIssues
         /\ MaxIssues \in Nat /\ LastFrontier \in Nat
         /\ Issues \subseteq Numbers
         /\ \A c \in 1..Tip : main[c] \in Commits
         /\ \A n \in Issues : issue[n] \in IssueRecords
<1>1. main \in Seq(Commits) /\ issue \in Seq(IssueRecords) /\ Len(issue) <= MaxIssues /\ Tip >= 1
  BY DEF Inductive, ProviderTypes
<1>2. MaxIssues \in Nat /\ LastFrontier \in Nat
  BY ConstantsAssumption
<1>3. Tip \in Nat /\ Len(issue) \in Nat
  BY <1>1 DEF Tip
<1>4. Issues \subseteq Numbers
  BY <1>1, <1>2, <1>3 DEF Issues, Numbers
<1>5. \A c \in 1..Tip : main[c] \in Commits
  BY <1>1 DEF Tip
<1>6. \A n \in Issues : issue[n] \in IssueRecords
  BY <1>1 DEF Issues
<1>7. QED
  BY <1>1, <1>2, <1>3, <1>4, <1>5, <1>6

LEMMA StepTyped ==
  ASSUME NEW n, NEW v
  PROVE  Step(n, v) \in {"none", "acquire", "branch", "push", "pr", "release", "merge"}
<1> DEFINE runs == CiDecision(v.checkout, n)
<1> HIDE DEF runs
<1>1. QED
  BY DEF Step, runs

\* The loop continues a work unit only when exactly one is executable.
LEMMA ContinuesOne ==
  ASSUME NEW v, Continuation(v) = "CONTINUE"
  PROVE  Executable(v.open, v.head) # {}
<1>1. Cardinality(Executable(v.open, v.head)) = 1
  <2>1. Materialization(v.checkout) # "CONTINUE"
    BY DEF Materialization
  <2>2. Disposition(v.open, v.head) # "CONTINUE"
    BY DEF Disposition
  <2>3. QED
    BY <2>1, <2>2 DEF Continuation
<1>2. Cardinality({}) = 0
  BY FS_EmptySet
<1>3. QED
  BY <1>1, <1>2

LEMMA ControlTyped ==
  ASSUME NEW v \in Views
  PROVE  /\ Control(v)[1] \in Acts \cup {"none"}
         /\ Control(v)[2] \in {0} \cup Issues
         /\ Control(v)[1] \notin {"none", "create"} => Control(v)[2] \in Issues
<1> DEFINE n == (CHOOSE e \in Executable(v.open, v.head) : TRUE).number
           k == CHOOSE m \in PostMerge(v) : TRUE
           d == Continuation(v)
<1>1. d = "CONTINUE" => n \in Issues
  <2>1. SUFFICES ASSUME d = "CONTINUE" PROVE n \in Issues
    OBVIOUS
  <2>2. Executable(v.open, v.head) # {}
    BY <2>1, ContinuesOne
  <2>3. PICK e : e = CHOOSE x \in Executable(v.open, v.head) : TRUE
    OBVIOUS
  <2>4. e \in Executable(v.open, v.head)
    BY <2>2, <2>3
  <2>5. e \in v.open /\ v.open \subseteq [number : Issues, mark : Marks]
    BY <2>4 DEF Executable, Views
  <2>6. e.number \in Issues
    BY <2>5
  <2>7. QED
    BY <2>3, <2>6
<1>2. PostMerge(v) # {} => k \in Issues
  <2>1. PostMerge(v) \subseteq Issues
    <3>1. v.open \subseteq [number : Issues, mark : Marks]
      BY DEF Views
    <3>2. QED
      BY <3>1 DEF PostMerge
  <2>2. QED
    BY <2>1
<1>3. Step(n, v) \in {"none", "acquire", "branch", "push", "pr", "release", "merge"}
  BY StepTyped
<1>4. \/ Control(v) \in {<<"none", 0>>, <<"create", 0>>}
      \/ d = "CONTINUE" /\ Control(v) = <<Step(n, v), n>>
      \/ PostMerge(v) # {} /\ Control(v) = <<"close", k>>
  <2> DEFINE busy == d = "BLOCKED" /\ ContinuationPolicy(v.checkout) /\ ~Ambiguous(v.open)
  <2>1. Control(v) =
          IF ~ControlPolicy(v.checkout) THEN <<"none", 0>>
          ELSE IF d = "PLAN_MATERIALIZATION" THEN <<"create", 0>>
          ELSE IF d = "CONTINUE" THEN <<Step(n, v), n>>
          ELSE IF busy /\ PostMerge(v) # {} THEN <<"close", k>>
          ELSE <<"none", 0>>
    BY DEF Control
  <2> HIDE DEF n, k, d, busy
  <2>2. QED
    BY <2>1
<1> HIDE DEF n, k, d
<1>5. QED
  BY <1>1, <1>2, <1>3, <1>4 DEF Acts

---------------------------------------------------------------------------
\* Steps of the sessions: the provider stays as it is.

LEMMA ProviderStays ==
  ASSUME Inductive, UNCHANGED provider
  PROVE  /\ ProviderTypes' /\ HasGreatestId' /\ MergesAreCommits' /\ MergedTested' /\ OneWriter'
         /\ Tip' = Tip /\ Issues' = Issues /\ Views' = Views /\ Requests' = Requests
         /\ \A n : Tested(n)' = Tested(n)
<1> USE DEF provider
<1>1. Tip' = Tip /\ Issues' = Issues
  BY DEF Tip, Issues
<1>2. IssueRecords' = IssueRecords /\ Pulls' = Pulls /\ Commits' = Commits
  BY <1>1 DEF IssueRecords, Pulls, Commits
<1>3. ProviderTypes'
  BY <1>1, <1>2 DEF Inductive, ProviderTypes
<1>4. HasGreatestId' /\ MergesAreCommits'
  BY <1>1 DEF Inductive, HasGreatestId, MergesAreCommits
<1>5. \A n : Tested(n)' = Tested(n)
  BY DEF Tested
<1>6. MergedTested' /\ OneWriter'
  BY <1>1, <1>5 DEF Inductive, MergedTested, OneWriter
<1>7. Views' = Views /\ Requests' = Requests
  BY <1>1 DEF Views, Requests
<1>8. QED
  BY <1>1, <1>3, <1>4, <1>5, <1>6, <1>7

\* With the same provider, requests that were there are still right.
LEMMA RequestsStay ==
  ASSUME Inductive, UNCHANGED provider, inflight' \subseteq inflight
  PROVE  RequestTypes' /\ MergeRequests' /\ (FreshCheckout => \A r \in inflight' : r.act = "create" => r.frontier = main[r.at].frontier)
<1>1. Tip' = Tip /\ Requests' = Requests /\ \A n : Tested(n)' = Tested(n)
  BY ProviderStays
<1>2. RequestTypes'
  BY <1>1 DEF Inductive, RequestTypes
<1>3. MergeRequests'
  BY <1>1 DEF Inductive, MergeRequests, provider
<1>4. QED
  BY <1>2, <1>3 DEF Inductive, Proposals

LEMMA ReadHeadPreserves ==
  ASSUME Inductive, NEW s \in Sessions, ReadHead(s)
  PROVE  Inductive'
<1>1. UNCHANGED provider /\ inflight' = inflight
  BY DEF ReadHead
<1>2. PICK c \in IF FreshCheckout THEN {Tip} ELSE 1..Tip :
          seen' = [seen EXCEPT ![s] = [head |-> Tip, checkout |-> c, open |-> {}]]
  BY DEF ReadHead
<1>3. Tip \in Nat /\ Tip >= 1 /\ c \in 1..Tip /\ (FreshCheckout => c = Tip)
  BY <1>2, Sizes, ConstantsAssumption
<1> DEFINE v == [head |-> Tip, checkout |-> c, open |-> {}]
<1>4. v \in Views
  BY <1>3 DEF Views
<1>5. SessionTypes'
  <2>1. pc' = [pc EXCEPT ![s] = "open"] /\ pc[s] = "idle"
    BY DEF ReadHead
  <2>2. pc' \in [Sessions -> {"idle", "open", "decide", "wait"}]
    BY <2>1 DEF Inductive, SessionTypes
  <2>3. seen' \in [Sessions -> Views']
    <3> HIDE DEF v
    <3>1. QED
      BY <1>1, <1>2, <1>4, ProviderStays DEF Inductive, SessionTypes, v
  <2>4. \A x \in Sessions : pc'[x] \in {"open", "decide"} => seen'[x].head # 0 /\ seen'[x].checkout # 0
    BY <1>2, <1>3, <2>1 DEF Inductive, SessionTypes
  <2>5. \A x \in Sessions : pc'[x] = "wait" <=> pc[x] = "wait"
    BY <2>1 DEF Inductive, SessionTypes
  <2>6. QED
    BY <1>1, <2>2, <2>3, <2>4, <2>5 DEF Inductive, SessionTypes
<1>6. Proposals'
  <2>1. FreshCheckout => \A x \in Sessions : seen'[x].checkout = seen'[x].head
    BY <1>2, <1>3 DEF Inductive, SessionTypes, Proposals
  <2>2. QED
    BY <1>1, <2>1, ProviderStays DEF Inductive, Proposals, OnFrontier, provider
<1>7. QED
  BY <1>1, <1>5, <1>6, ProviderStays, RequestsStay, Parts

LEMMA ReadOpenPreserves ==
  ASSUME Inductive, NEW s \in Sessions, ReadOpen(s)
  PROVE  Inductive'
<1>1. UNCHANGED provider /\ inflight' = inflight
  BY DEF ReadOpen
<1> DEFINE listed == {[number |-> n, mark |-> issue[n].mark] : n \in {m \in Issues : issue[m].open}}
           v == [seen[s] EXCEPT !.open = listed]
<1>2. seen' = [seen EXCEPT ![s] = v]
  BY DEF ReadOpen
<1>3. v \in Views /\ v.head = seen[s].head /\ v.checkout = seen[s].checkout
  <2>1. listed \subseteq [number : Issues, mark : Marks]
    BY Sizes DEF IssueRecords
  <2>2. seen[s] \in Views
    BY DEF Inductive, SessionTypes
  <2> HIDE DEF listed
  <2>3. QED
    BY <2>1, <2>2 DEF Views
<1> HIDE DEF v
<1>4. SessionTypes'
  <2>1. pc' = [pc EXCEPT ![s] = "decide"] /\ pc[s] = "open"
    BY DEF ReadOpen
  <2>2. pc' \in [Sessions -> {"idle", "open", "decide", "wait"}]
    BY <2>1 DEF Inductive, SessionTypes
  <2>3. seen' \in [Sessions -> Views']
    BY <1>1, <1>2, <1>3, ProviderStays DEF Inductive, SessionTypes
  <2>4. \A x \in Sessions : pc'[x] \in {"open", "decide"} => seen'[x].head # 0 /\ seen'[x].checkout # 0
    BY <1>2, <1>3, <2>1 DEF Inductive, SessionTypes
  <2>5. \A x \in Sessions : pc'[x] = "wait" <=> pc[x] = "wait"
    BY <2>1 DEF Inductive, SessionTypes
  <2>6. QED
    BY <1>1, <2>2, <2>3, <2>4, <2>5 DEF Inductive, SessionTypes
<1>5. Proposals'
  <2>1. FreshCheckout => \A x \in Sessions : seen'[x].checkout = seen'[x].head
    BY <1>2, <1>3 DEF Inductive, SessionTypes, Proposals
  <2>2. QED
    BY <1>1, <2>1, ProviderStays DEF Inductive, Proposals, OnFrontier, provider
<1>6. QED
  BY <1>1, <1>4, <1>5, ProviderStays, RequestsStay, Parts

\* The session has one unanswered request at most, in all steps that send,
\* give up on or answer one.
LEMMA RequestTyped ==
  ASSUME Inductive, NEW s \in Sessions, pc[s] = "decide", NEW a \in Acts, NEW n \in {0} \cup Issues,
         a # "create" => n \in Issues
  PROVE  /\ Request(s, a, n) \in Requests
         /\ a \in {"create", "branch"} => Request(s, a, n).at \in 1..Tip
<1>1. /\ seen[s] \in Views /\ seen[s].head # 0 /\ seen[s].checkout # 0
  BY DEF Inductive, SessionTypes
<1>2. /\ Tip \in Nat /\ Len(issue) \in Nat /\ Issues \subseteq Numbers
      /\ \A c \in 1..Tip : main[c] \in Commits
      /\ \A m \in Issues : issue[m] \in IssueRecords
  BY Sizes
<1>3. seen[s].head \in 1..Tip /\ seen[s].checkout \in 1..Tip
  BY <1>1, <1>2 DEF Views
<1>4. main[seen[s].checkout].frontier \in 0..LastFrontier /\ 0 \in 0..LastFrontier
  <2>1. LastFrontier \in Nat
    BY Sizes
  <2>2. QED
    BY <1>2, <1>3, <2>1 DEF Commits
<1>5. NextId \in Nat
  <2> DEFINE ids == {issue[m].wu : m \in Issues}
             top == CHOOSE i \in ids : \A m \in Issues : issue[m].wu <= i
  <2>1. \E i \in ids : \A m \in Issues : issue[m].wu <= i
    BY DEF Inductive, HasGreatestId
  <2>2. top \in ids
    BY <2>1
  <2>3. ids \subseteq Nat
    BY <1>2 DEF IssueRecords
  <2>4. NextId = 1 + top
    BY DEF NextId
  <2> HIDE DEF top, ids
  <2>5. QED
    BY <2>2, <2>3, <2>4
<1>6. a \in {"push", "merge"} => branch[n].head \in Nat \cup {-1}
  BY <1>2 DEF Inductive, ProviderTypes, Branches
<1>7. n \in 0..Len(issue)
  BY <1>2 DEF Issues
<1> DEFINE w == IF a = "create" THEN NextId ELSE 0
           h == IF a \in {"push", "merge"} THEN branch[n].head ELSE seen[s].head
           f == IF a = "create" THEN main[seen[s].checkout].frontier ELSE 0
<1>8. w \in Nat /\ h \in Nat \cup {-1} /\ f \in 0..LastFrontier
  BY <1>3, <1>4, <1>5, <1>6, <1>2
<1>9. a \in {"create", "branch"} => h \in 1..Tip
  BY <1>3
<1>10. Request(s, a, n) = [session |-> s, act |-> a, number |-> n, late |-> FALSE,
                           wu |-> w, at |-> h, frontier |-> f]
  BY DEF Request
<1> HIDE DEF w, h, f
<1>11. QED
  BY <1>7, <1>8, <1>9, <1>10 DEF Requests

\* A merge is only sent for a tested head.
LEMMA MergeIsAdmittedWhenTested ==
  ASSUME Inductive, NEW n \in Issues, NEW v, Admitted("merge", n, v)
  PROVE  pull[n].state = "OPEN" /\ Tested(n)
<1>1. Eligible(n, v)
  BY DEF Admitted
<1>2. pull[n].state = "OPEN" /\ lease[n] = "RELEASED" /\ CiDecision(v.checkout, n) = "CI_SUCCESS"
  BY <1>1 DEF Eligible
<1>3. Required \subseteq Registered(n) /\ \A w \in Registered(n) : ci[n][w] = "success"
  BY <1>2 DEF CiDecision
<1>4. QED
  BY <1>2, <1>3 DEF Tested

LEMMA DecidePreserves ==
  ASSUME Inductive, NEW s \in Sessions, Decide(s)
  PROVE  Inductive'
<1> DEFINE v == seen[s]
           a == Control(v)[1]
           n == Control(v)[2]
           q == Request(s, a, n)
           sends == Admitted(a, n, v)
<1>1. /\ UNCHANGED provider /\ pc[s] = "decide"
      /\ inflight' = IF sends THEN inflight \cup {q} ELSE inflight
      /\ pc' = [pc EXCEPT ![s] = IF sends THEN "wait" ELSE "idle"]
      /\ seen' = [seen EXCEPT ![s] = NothingSeen]
  BY DEF Decide
<1>2. v \in Views
  BY DEF Inductive, SessionTypes
<1>3. /\ a \in Acts \cup {"none"} /\ n \in {0} \cup Issues
      /\ a \notin {"none", "create"} => n \in Issues
  BY <1>2, ControlTyped
<1>4. sends => a # "none"
  BY DEF Admitted
<1>5. sends => q \in Requests /\ (a \in {"create", "branch"} => q.at \in 1..Tip)
  BY <1>1, <1>3, <1>4, RequestTyped
<1>6. q.session = s /\ q.act = a /\ q.number = n /\ q.late = FALSE
  BY DEF Request
<1>7. sends /\ a = "merge" => pull[n].state = "OPEN" /\ Tested(n) /\ q.at = branch[n].head
  <2>1. SUFFICES ASSUME sends, a = "merge" PROVE pull[n].state = "OPEN" /\ Tested(n) /\ q.at = branch[n].head
    OBVIOUS
  <2>2. n \in Issues /\ Admitted("merge", n, v)
    BY <1>3, <2>1
  <2>3. pull[n].state = "OPEN" /\ Tested(n)
    BY <2>2, MergeIsAdmittedWhenTested
  <2>4. QED
    BY <2>1, <2>3 DEF Request
<1>8. sends /\ a = "create" /\ FreshCheckout => q.frontier = main[q.at].frontier
  BY DEF Inductive, Proposals, Request
<1> HIDE DEF q, a, n, sends, v
<1>9. /\ Tip' = Tip /\ Requests' = Requests /\ Views' = Views /\ \A m : Tested(m)' = Tested(m)
  BY <1>1, ProviderStays
<1>10. RequestTypes'
  BY <1>1, <1>3, <1>4, <1>5, <1>6, <1>9, Sizes DEF Inductive, RequestTypes, Issues
<1>11. MergeRequests'
  <2>1. n \in Issues => branch[n].head \in Nat \cup {-1}
    BY Sizes DEF Inductive, ProviderTypes, Branches
  <2>2. sends /\ a = "merge" => pull[n].state = "OPEN" /\ q.at <= branch[n].head /\ Tested(n)
    BY <2>1, <1>7, <1>3
  <2>3. QED
    BY <1>1, <1>6, <1>9, <2>2 DEF Inductive, MergeRequests, provider
<1>12. Proposals'
  <2>1. FreshCheckout => \A x \in Sessions : seen'[x].checkout = seen'[x].head
    BY <1>1 DEF Inductive, SessionTypes, Proposals, NothingSeen
  <2>2. FreshCheckout => \A r \in inflight' : r.act = "create" => r.frontier = main[r.at].frontier
    BY <1>1, <1>6, <1>8 DEF Inductive, Proposals
  <2>3. QED
    BY <1>1, <2>1, <2>2, ProviderStays DEF Inductive, Proposals, OnFrontier, provider
<1>13. SessionTypes'
  <2>1. pc' \in [Sessions -> {"idle", "open", "decide", "wait"}]
    BY <1>1 DEF Inductive, SessionTypes
  <2>2. NothingSeen \in Views
    BY Sizes DEF NothingSeen, Views
  <2>3. seen' \in [Sessions -> Views']
    <3> HIDE DEF NothingSeen
    <3>1. QED
      BY <1>1, <1>9, <2>2 DEF Inductive, SessionTypes
  <2>4. \A x \in Sessions : pc'[x] \in {"open", "decide"} => seen'[x].head # 0 /\ seen'[x].checkout # 0
    BY <1>1 DEF Inductive, SessionTypes
  <2>5. ~\E r \in inflight : r.session = s /\ ~r.late
    BY <1>1 DEF Inductive, SessionTypes
  <2>6. \A x \in Sessions : pc'[x] = "wait" <=> \E r \in inflight' : r.session = x /\ ~r.late
    BY <1>1, <1>6, <2>5 DEF Inductive, SessionTypes
  <2>7. \A x, y \in inflight' : ~x.late /\ ~y.late /\ x.session = y.session => x = y
    BY <1>1, <1>6, <2>5 DEF Inductive, SessionTypes
  <2>8. QED
    BY <2>1, <2>3, <2>4, <2>6, <2>7 DEF SessionTypes
<1>14. QED
  BY <1>1, <1>10, <1>11, <1>12, <1>13, ProviderStays, Parts

LEMMA TimeoutPreserves ==
  ASSUME Inductive, NEW r \in inflight, Timeout(r)
  PROVE  Inductive'
<1> DEFINE q == [r EXCEPT !.late = TRUE]
<1>1. /\ UNCHANGED provider /\ seen' = seen /\ r.late = FALSE
      /\ inflight' = (inflight \ {r}) \cup {q} /\ pc' = [pc EXCEPT ![r.session] = "idle"]
  <2>1. r \in Requests
    BY DEF Inductive, RequestTypes
  <2>2. QED
    BY <2>1 DEF Timeout, Requests
<1>2. r \in Requests /\ (r.act # "create" => r.number # 0)
      /\ (r.act \in {"create", "branch"} => r.at \in 1..Tip)
  BY DEF Inductive, RequestTypes
<1>3. q \in Requests /\ q.late = TRUE /\ q.session = r.session /\ q.act = r.act
      /\ q.number = r.number /\ q.at = r.at /\ q.frontier = r.frontier
  BY <1>2 DEF Requests
<1> HIDE DEF q
<1>4. Tip' = Tip /\ Requests' = Requests /\ Views' = Views /\ \A m : Tested(m)' = Tested(m)
  BY <1>1, ProviderStays
<1>5. RequestTypes'
  BY <1>1, <1>2, <1>3, <1>4 DEF Inductive, RequestTypes
<1>6. MergeRequests'
  <2>1. r.act = "merge" =>
          /\ pull[r.number].state # "NONE" /\ r.at <= branch[r.number].head
          /\ pull[r.number].state = "OPEN" /\ r.at = branch[r.number].head => Tested(r.number)
    BY DEF Inductive, MergeRequests
  <2>2. QED
    BY <1>1, <1>3, <1>4, <2>1 DEF Inductive, MergeRequests, provider
<1>7. Proposals'
  BY <1>1, <1>3, ProviderStays DEF Inductive, Proposals, OnFrontier, provider
<1>8. SessionTypes'
  <2>1. pc' \in [Sessions -> {"idle", "open", "decide", "wait"}]
    BY <1>1 DEF Inductive, SessionTypes
  <2>2. \A x \in Sessions : pc'[x] \in {"open", "decide"} => pc[x] \in {"open", "decide"}
    BY <1>1 DEF Inductive, SessionTypes
  <2>3. \A x \in Sessions : pc'[x] = "wait" <=> pc[x] = "wait" /\ x # r.session
    BY <1>1, <1>2 DEF Inductive, SessionTypes, Requests
  <2>4. \A x \in inflight : ~x.late /\ x.session = r.session => x = r
    BY <1>1 DEF Inductive, SessionTypes
  <2>5. \A x \in Sessions : pc'[x] = "wait" <=> \E y \in inflight' : y.session = x /\ ~y.late
    BY <1>1, <1>3, <2>3, <2>4 DEF Inductive, SessionTypes
  <2>6. \A x, y \in inflight' : ~x.late /\ ~y.late /\ x.session = y.session => x = y
    BY <1>1, <1>3 DEF Inductive, SessionTypes
  <2>7. QED
    BY <1>1, <1>4, <2>1, <2>2, <2>5, <2>6 DEF Inductive, SessionTypes
<1>9. QED
  BY <1>1, <1>5, <1>6, <1>7, <1>8, ProviderStays, Parts

LEMMA LosePreserves ==
  ASSUME Inductive, NEW r \in inflight, Lose(r)
  PROVE  Inductive'
<1>1. UNCHANGED <<provider, pc, seen>> /\ r.late /\ inflight' = inflight \ {r}
  BY DEF Lose
<1>2. SessionTypes'
  <2>1. Views' = Views
    BY <1>1, ProviderStays
  <2>2. QED
    BY <1>1, <2>1 DEF Inductive, SessionTypes
<1>3. Proposals'
  BY <1>1, ProviderStays DEF Inductive, Proposals, OnFrontier, provider
<1>4. QED
  BY <1>1, <1>2, <1>3, ProviderStays, RequestsStay, Parts

---------------------------------------------------------------------------
\* Steps that change the provider: main and the history only grow, and at
\* most one request is answered.

Grows ==
    /\ Tip' \in Nat /\ Tip <= Tip' /\ Len(issue') \in Nat /\ Len(issue) <= Len(issue')
    /\ \A c \in 1..Tip : main'[c] = main[c]

Answered(r) ==
    /\ inflight' = inflight \ {r}
    /\ pc' = IF r.late THEN pc ELSE [pc EXCEPT ![r.session] = "idle"]

SessionsWait == seen' = seen /\ (UNCHANGED <<pc, inflight>> \/ \E r \in inflight : Answered(r))

LEMMA SessionsKeep ==
  ASSUME Inductive, Grows, SessionsWait
  PROVE  /\ SessionTypes' /\ RequestTypes' /\ inflight' \subseteq inflight
         /\ FreshCheckout =>
              /\ \A r \in inflight' : r.act = "create" => r.frontier = main'[r.at].frontier
              /\ \A s \in Sessions : seen'[s].checkout = seen'[s].head
<1>1. /\ Tip \in Nat /\ Len(issue) \in Nat /\ Tip' \in Nat /\ Tip <= Tip'
      /\ Len(issue') \in Nat /\ Len(issue) <= Len(issue')
      /\ \A c \in 1..Tip : main'[c] = main[c]
  BY Sizes DEF Grows
<1>2. 0..Tip \subseteq 0..Tip' /\ 1..Tip \subseteq 1..Tip' /\ Issues \subseteq Issues'
      /\ 0..Len(issue) \subseteq 0..Len(issue')
  BY <1>1 DEF Issues
<1>3. Views \subseteq Views'
  BY <1>2 DEF Views
<1>4. Requests \subseteq Requests'
  BY <1>2 DEF Requests
<1>5. seen' = seen /\ inflight' \subseteq inflight
  BY DEF SessionsWait, Answered
<1>6. RequestTypes'
  BY <1>2, <1>4, <1>5 DEF Inductive, RequestTypes
<1>7. FreshCheckout => \A r \in inflight' : r.act = "create" => r.frontier = main'[r.at].frontier
  BY <1>1, <1>5 DEF Inductive, Proposals, RequestTypes
<1>8. FreshCheckout => \A s \in Sessions : seen'[s].checkout = seen'[s].head
  BY <1>5 DEF Inductive, Proposals
<1>9. SessionTypes'
  <2>1. CASE UNCHANGED <<pc, inflight>>
    BY <1>3, <1>5, <2>1 DEF Inductive, SessionTypes
  <2>2. CASE \E r \in inflight : Answered(r)
    <3>1. PICK r \in inflight : Answered(r)
      BY <2>2
    <3>2. r \in Requests
      BY DEF Inductive, RequestTypes
    <3>3. CASE r.late
      BY <1>3, <1>5, <3>1, <3>3 DEF Inductive, SessionTypes, Answered
    <3>4. CASE ~r.late
      <4>1. inflight' = inflight \ {r} /\ pc' = [pc EXCEPT ![r.session] = "idle"]
        BY <3>1, <3>4 DEF Answered
      <4>2. pc' \in [Sessions -> {"idle", "open", "decide", "wait"}]
        BY <4>1 DEF Inductive, SessionTypes
      <4>3. \A x \in Sessions : pc'[x] \in {"open", "decide"} => pc[x] \in {"open", "decide"}
        BY <4>1 DEF Inductive, SessionTypes
      <4>4. \A x \in Sessions : pc'[x] = "wait" <=> pc[x] = "wait" /\ x # r.session
        BY <4>1, <3>2 DEF Inductive, SessionTypes, Requests
      <4>5. \A x \in inflight : ~x.late /\ x.session = r.session => x = r
        BY <3>4 DEF Inductive, SessionTypes
      <4>6. \A x \in Sessions : pc'[x] = "wait" <=> \E y \in inflight' : y.session = x /\ ~y.late
        BY <4>1, <4>4, <4>5 DEF Inductive, SessionTypes
      <4>7. QED
        BY <1>3, <1>5, <4>2, <4>3, <4>6 DEF Inductive, SessionTypes
    <3>5. QED
      BY <3>3, <3>4
  <2>3. QED
    BY <2>1, <2>2 DEF SessionsWait
<1>10. QED
  BY <1>5, <1>6, <1>7, <1>8, <1>9

LEMMA Composed ==
  ASSUME Inductive, Grows, SessionsWait, ProviderTypes', HasGreatestId', MergesAreCommits',
         MergedTested', MergeRequests', OneWriter', FreshCheckout => OnFrontier'
  PROVE  Inductive'
<1>1. SessionTypes' /\ RequestTypes'
  BY SessionsKeep
<1>2. Proposals'
  BY SessionsKeep DEF Proposals
<1>3. QED
  BY <1>1, <1>2, Parts

\* Steps that leave main and the issues alone.
LEMMA HistoryStays ==
  ASSUME Inductive, UNCHANGED <<main, issue>>
  PROVE  /\ Grows /\ HasGreatestId' /\ (FreshCheckout => OnFrontier')
         /\ Tip' = Tip /\ Issues' = Issues
         /\ main' \in Seq(Commits') /\ Tip' >= 1
         /\ issue' \in Seq(IssueRecords') /\ Len(issue') <= MaxIssues
         /\ Pulls' = Pulls
<1>1. Tip' = Tip /\ Issues' = Issues
  BY DEF Tip, Issues
<1>2. IssueRecords' = IssueRecords /\ Commits' = Commits /\ Pulls' = Pulls
  BY <1>1 DEF IssueRecords, Commits, Pulls
<1>3. Grows
  BY <1>1, Sizes DEF Grows
<1>4. HasGreatestId' /\ (FreshCheckout => OnFrontier')
  BY <1>1 DEF Inductive, HasGreatestId, Proposals, OnFrontier
<1>5. QED
  BY <1>1, <1>2, <1>3, <1>4 DEF Inductive, ProviderTypes

\* Steps that change the lease of one issue.
LEMMA LeaseSteps ==
  ASSUME Inductive, SessionsWait, NEW n \in Issues, NEW l \in LeaseStates,
         lease' = [lease EXCEPT ![n] = l], UNCHANGED <<main, issue, branch, pull, ci>>,
         lease[n] = "RELEASED" => l = "RELEASED",
         l = "ACTIVE" => ClaimEligible(n)
  PROVE  Inductive'
<1>1. n \in Numbers
  BY Sizes
<1>2. lease \in [Numbers -> LeaseStates]
  BY DEF Inductive, ProviderTypes
<1>3. ProviderTypes'
  BY <1>2, HistoryStays DEF Inductive, ProviderTypes
<1>4. MergesAreCommits'
  BY HistoryStays DEF Inductive, MergesAreCommits
<1>5. \A m : Tested(m) => Tested(m)'
  <2>1. \A m \in Numbers : lease[m] = "RELEASED" => lease'[m] = "RELEASED"
    BY <1>2
  <2>2. \A m : m \notin Numbers => lease'[m] = lease[m]
    BY <1>2, <1>1
  <2>3. QED
    BY <2>1, <2>2 DEF Tested
<1>6. MergedTested' /\ MergeRequests'
  BY <1>5, SessionsKeep, HistoryStays DEF Inductive, MergedTested, MergeRequests
<1>7. OneWriter'
  <2>1. Issues' = Issues /\ Issues \subseteq Numbers /\ Len(issue) \in Nat
    BY HistoryStays, Sizes
  <2>2. \A m \in Numbers : m > Len(issue) => lease'[m] = "NONE"
    <3>1. n <= Len(issue)
      BY DEF Issues
    <3>2. QED
      BY <1>1, <1>2, <3>1, <2>1 DEF Inductive, OneWriter, Numbers
  <2>3. \A m \in Issues : m # n /\ issue[m].frontier = issue[n].frontier => ~(lease'[m] = "ACTIVE" /\ lease'[n] = "ACTIVE")
    BY <1>1, <1>2, <2>1 DEF ClaimEligible
  <2>4. \A k, m \in Issues : k # n /\ m # n /\ k # m /\ issue[k].frontier = issue[m].frontier
           => ~(lease'[k] = "ACTIVE" /\ lease'[m] = "ACTIVE")
    BY <1>1, <1>2, <2>1 DEF Inductive, OneWriter
  <2>5. QED
    BY <2>1, <2>2, <2>3, <2>4 DEF OneWriter
<1>8. QED
  BY <1>3, <1>4, <1>6, <1>7, HistoryStays, Composed

\* Steps that change the branch of one issue: its head only moves forward.
LEMMA BranchSteps ==
  ASSUME Inductive, SessionsWait, NEW n \in Issues, NEW b \in Branches,
         branch' = [branch EXCEPT ![n] = b], branch[n].head < b.head,
         UNCHANGED <<main, issue, lease, pull>>,
         ci' \in [Numbers -> [Workflows -> RunStates]],
         \A m \in Numbers : ci'[m] = ci[m] \/ (m = n /\ pull[m].state # "MERGED")
  PROVE  Inductive'
<1>1. n \in Numbers
  BY Sizes
<1>2. branch \in [Numbers -> Branches]
  BY DEF Inductive, ProviderTypes
<1>3. ProviderTypes'
  BY <1>2, HistoryStays DEF Inductive, ProviderTypes
<1>4. MergesAreCommits' /\ OneWriter'
  BY HistoryStays DEF Inductive, MergesAreCommits, OneWriter
<1>5. MergedTested'
  BY HistoryStays DEF Inductive, MergedTested, Tested
<1>6. MergeRequests'
  <2>1. SUFFICES ASSUME NEW q \in inflight, q.act = "merge"
                 PROVE  /\ pull[q.number].state # "NONE" /\ q.at <= branch'[q.number].head
                        /\ pull[q.number].state = "OPEN" /\ q.at = branch'[q.number].head => Tested(q.number)'
    BY SessionsKeep, HistoryStays DEF MergeRequests, Tested
  <2>2. q \in Requests /\ q.number # 0
    BY <2>1 DEF Inductive, RequestTypes
  <2>3. q.number \in Numbers /\ q.at \in Int
    BY <2>2, Sizes DEF Requests, Numbers
  <2>4. /\ pull[q.number].state # "NONE" /\ q.at <= branch[q.number].head
        /\ pull[q.number].state = "OPEN" /\ q.at = branch[q.number].head => Tested(q.number)
    BY <2>1 DEF Inductive, MergeRequests
  <2>5. branch[n].head \in Int /\ b.head \in Int
    BY <1>1, <1>2 DEF Branches
  <2>6. CASE q.number = n
    BY <1>1, <1>2, <2>3, <2>4, <2>5, <2>6
  <2>7. CASE q.number # n
    <3>1. branch'[q.number] = branch[q.number] /\ ci'[q.number] = ci[q.number]
      BY <1>2, <2>3, <2>7
    <3>2. Tested(q.number) => Tested(q.number)'
      BY <3>1 DEF Tested
    <3>3. QED
      BY <2>4, <3>1, <3>2
  <2>8. QED
    BY <2>6, <2>7
<1>7. QED
  BY <1>3, <1>4, <1>5, <1>6, HistoryStays, Composed

\* Steps of a workflow run: a run that passed stays.
LEMMA RunSteps ==
  ASSUME Inductive, SessionsWait, NEW n \in Issues, NEW w \in Workflows, NEW x \in RunStates,
         ci' = [ci EXCEPT ![n][w] = x], ci[n][w] # "success",
         UNCHANGED <<main, issue, lease, branch, pull>>
  PROVE  Inductive'
<1>1. n \in Numbers
  BY Sizes
<1>2. ci \in [Numbers -> [Workflows -> RunStates]]
  BY DEF Inductive, ProviderTypes
<1>3. ci' \in [Numbers -> [Workflows -> RunStates]]
  BY <1>1, <1>2
<1>4. ProviderTypes'
  BY <1>3, HistoryStays DEF Inductive, ProviderTypes
<1>5. MergesAreCommits' /\ OneWriter'
  BY HistoryStays DEF Inductive, MergesAreCommits, OneWriter
<1>6. \A m \in Numbers : Tested(m) => Tested(m)'
  <2>1. \A m \in Numbers, v \in Workflows : ci[m][v] = "success" => ci'[m][v] = "success"
    BY <1>1, <1>2
  <2>2. Required \subseteq Workflows
    BY ConstantsAssumption
  <2>3. QED
    BY <2>1, <2>2 DEF Tested
<1>7. MergedTested'
  BY <1>6, HistoryStays DEF Inductive, MergedTested
<1>8. MergeRequests'
  <2>1. \A q \in inflight : q.act = "merge" => q.number \in Numbers
    BY Sizes DEF Inductive, RequestTypes, Requests, Numbers
  <2>2. QED
    BY <1>6, <2>1, SessionsKeep, HistoryStays DEF Inductive, MergeRequests
<1>9. QED
  BY <1>4, <1>5, <1>7, <1>8, HistoryStays, Composed

\* A step that rewrites one issue: not its number, frontier, base or id.
LEMMA IssueSteps ==
  ASSUME Inductive, NEW n \in Issues, NEW e \in IssueRecords,
         issue' = [issue EXCEPT ![n] = e], main' = main,
         e.wu = issue[n].wu, e.frontier = issue[n].frontier, e.base = issue[n].base
  PROVE  /\ Grows /\ HasGreatestId' /\ (FreshCheckout => OnFrontier')
         /\ Tip' = Tip /\ Issues' = Issues /\ Len(issue') = Len(issue)
         /\ main' \in Seq(Commits') /\ Tip' >= 1
         /\ issue' \in Seq(IssueRecords') /\ Len(issue') <= MaxIssues
         /\ Pulls' = Pulls
         /\ \A m \in Issues : issue'[m].frontier = issue[m].frontier
<1>1. issue \in Seq(IssueRecords) /\ n \in 1..Len(issue)
  BY DEF Inductive, ProviderTypes, Issues
<1>2. issue' \in Seq(IssueRecords) /\ Len(issue') = Len(issue)
  BY <1>1
<1>3. Tip' = Tip /\ Issues' = Issues
  BY <1>2 DEF Tip, Issues
<1>4. IssueRecords' = IssueRecords /\ Commits' = Commits /\ Pulls' = Pulls
  BY <1>3 DEF IssueRecords, Commits, Pulls
<1>5. \A m \in Issues : /\ issue'[m].wu = issue[m].wu /\ issue'[m].base = issue[m].base
                        /\ issue'[m].frontier = issue[m].frontier
  BY <1>1 DEF Issues
<1>6. Grows
  BY <1>2, <1>3, Sizes DEF Grows
<1>7. HasGreatestId' /\ (FreshCheckout => OnFrontier')
  BY <1>3, <1>5 DEF Inductive, HasGreatestId, Proposals, OnFrontier
<1>8. QED
  BY <1>2, <1>3, <1>4, <1>5, <1>6, <1>7, Sizes DEF Inductive, ProviderTypes

\* Steps on the pull request of one issue, other than its merge.
LEMMA PullSteps ==
  ASSUME Inductive, SessionsWait, Grows, HasGreatestId', FreshCheckout => OnFrontier',
         Tip' = Tip, Issues' = Issues, Len(issue') = Len(issue), Pulls' = Pulls,
         main' \in Seq(Commits'), Tip' >= 1, issue' \in Seq(IssueRecords'), Len(issue') <= MaxIssues,
         \A m \in Issues : issue'[m].frontier = issue[m].frontier,
         main' = main, UNCHANGED <<lease, branch, ci>>,
         NEW n \in Issues, NEW p \in Pulls, pull' = [pull EXCEPT ![n] = p],
         \/ p = pull[n]
         \/ p.state = "CLOSED" /\ pull[n].state # "MERGED"
         \/ p.state = "OPEN" /\ pull[n].state = "NONE"
  PROVE  Inductive'
<1>1. n \in Numbers
  BY Sizes
<1>2. pull \in [Numbers -> Pulls]
  BY DEF Inductive, ProviderTypes
<1>3. ProviderTypes'
  <2>1. pull' \in [Numbers -> Pulls']
    BY <1>2
  <2>2. QED
    BY <2>1 DEF Inductive, ProviderTypes
<1>4. \A m \in Numbers : pull'[m].state = "MERGED" => pull[m].state = "MERGED" /\ pull'[m].merge = pull[m].merge
  BY <1>1, <1>2
<1>5. MergesAreCommits' /\ MergedTested'
  BY <1>4 DEF Inductive, MergesAreCommits, MergedTested, Tested
<1>6. OneWriter'
  BY DEF Inductive, OneWriter
<1>7. MergeRequests'
  <2>1. \A m \in Numbers : pull[m].state # "NONE" =>
            pull'[m].state # "NONE" /\ (pull'[m].state = "OPEN" => pull[m].state = "OPEN")
    BY <1>1, <1>2
  <2>2. \A q \in inflight : q.act = "merge" => q.number \in Numbers
    BY Sizes DEF Inductive, RequestTypes, Requests, Numbers
  <2>3. QED
    BY <2>1, <2>2, SessionsKeep DEF Inductive, MergeRequests, Tested
<1>8. QED
  BY <1>3, <1>5, <1>6, <1>7, Composed

AddsCommit(c) == main' = Append(main, c)

\* A commit on main; what main recorded before stays.
LEMMA MainSteps ==
  ASSUME Inductive, NEW c \in Commits, AddsCommit(c), issue' = issue
  PROVE  /\ Grows /\ HasGreatestId' /\ (FreshCheckout => OnFrontier')
         /\ Tip' = Tip + 1 /\ Issues' = Issues /\ main'[Tip'] = c
         /\ main' \in Seq(Commits') /\ Tip' >= 1
         /\ issue' \in Seq(IssueRecords') /\ Len(issue') <= MaxIssues
         /\ Pulls \subseteq Pulls'
<1>1. main \in Seq(Commits) /\ issue \in Seq(IssueRecords) /\ Tip >= 1 /\ Len(issue) <= MaxIssues
  BY DEF Inductive, ProviderTypes
<1>2. Commits' = Commits
  BY DEF Commits
<1>3. /\ main' \in Seq(Commits) /\ Tip' = Tip + 1 /\ main'[Tip'] = c
      /\ \A i \in 1..Tip : main'[i] = main[i]
  BY <1>1 DEF Tip, AddsCommit
<1>4. Tip \in Nat /\ Issues' = Issues
  BY Sizes DEF Issues
<1>5. 0..Tip \subseteq 0..Tip'
  BY <1>3, <1>4
<1>6. IssueRecords \subseteq IssueRecords' /\ Pulls \subseteq Pulls'
  BY <1>5 DEF IssueRecords, Pulls
<1>7. Grows
  <2>1. Len(issue) \in Nat /\ Len(issue') = Len(issue)
    BY Sizes
  <2>2. Tip' \in Nat /\ Tip <= Tip'
    BY <1>3, <1>4
  <2>3. QED
    BY <1>3, <2>1, <2>2 DEF Grows
<1>8. HasGreatestId'
  BY <1>4 DEF Inductive, HasGreatestId
<1>9. FreshCheckout => OnFrontier'
  <2>1. \A n \in Issues : issue[n].base # 0 => issue[n].base \in 1..Tip
    BY <1>4, Sizes DEF IssueRecords
  <2>2. QED
    BY <1>3, <1>4, <2>1 DEF Inductive, Proposals, OnFrontier
<1>10. issue' \in Seq(IssueRecords')
  BY <1>1, <1>6
<1>11. QED
  BY <1>1, <1>2, <1>3, <1>4, <1>6, <1>7, <1>8, <1>9, <1>10

\* A commit from outside changes nothing else.
LEMMA OutsideSteps ==
  ASSUME Inductive, SessionsWait, NEW c \in Commits, AddsCommit(c),
         UNCHANGED <<issue, lease, branch, pull, ci>>
  PROVE  Inductive'
<1>1. ProviderTypes'
  BY MainSteps DEF Inductive, ProviderTypes
<1>2. Tip \in Nat /\ Tip' = Tip + 1 /\ Issues' = Issues /\ \A i \in 1..Tip : main'[i] = main[i]
  BY MainSteps, Sizes DEF Grows
<1>3. MergesAreCommits'
  <2>1. pull' = pull
    OBVIOUS
  <2>2. SUFFICES ASSUME NEW n \in Numbers, pull[n].state = "MERGED"
                 PROVE  pull[n].merge \in 1..Tip' /\ main'[pull[n].merge].issue = n
    BY <2>1 DEF MergesAreCommits
  <2>3. pull[n].merge \in 1..Tip /\ main[pull[n].merge].issue = n
    BY <2>2 DEF Inductive, MergesAreCommits
  <2>4. QED
    BY <1>2, <2>3
<1>4. MergedTested' /\ MergeRequests' /\ OneWriter'
  BY <1>2, SessionsKeep, MainSteps DEF Inductive, MergedTested, MergeRequests, OneWriter, Tested
<1>5. QED
  BY <1>1, <1>3, <1>4, MainSteps, Composed

---------------------------------------------------------------------------
\* The provider applies a request.

LEMMA MergedPull ==
  ASSUME NEW t, NEW m \in 0..t,
         NEW old \in [state : {"NONE", "OPEN", "CLOSED", "MERGED"}, base : 0..t, merge : 0..t]
  PROVE  LET new == [old EXCEPT !.state = "MERGED", !.merge = m]
         IN  /\ new \in [state : {"NONE", "OPEN", "CLOSED", "MERGED"}, base : 0..t, merge : 0..t]
             /\ new.state = "MERGED" /\ new.merge = m
  OBVIOUS

LEMMA MergePreserves ==
  ASSUME Inductive, NEW r \in inflight, Accepts(r), MergePullRequest(r), SessionsWait
  PROVE  Inductive'
<1> DEFINE n == r.number
           c == [frontier |-> IF branch[n].frontier = main[issue[n].base].frontier
                              THEN main[Tip].frontier ELSE branch[n].frontier,
                 issue |-> n, drift |-> main[Tip].drift]
           p == [pull[n] EXCEPT !.state = "MERGED", !.merge = Tip + 1]
<1>1. /\ r.act = "merge" /\ main' = Append(main, c)
      /\ pull' = [pull EXCEPT ![n].state = "MERGED", ![n].merge = Tip + 1]
      /\ UNCHANGED <<issue, lease, branch, ci>>
  BY DEF MergePullRequest
<1>2. pull[n].state = "OPEN" /\ branch[n].head = r.at
  BY <1>1 DEF Accepts
<1>3. r \in Requests /\ n # 0
  BY <1>1 DEF Inductive, RequestTypes
<1>4. n \in Issues /\ n \in Numbers
  BY <1>3, Sizes DEF Requests, Issues
<1>5. /\ Tip \in Nat /\ Tip >= 1 /\ main[Tip] \in Commits /\ branch[n] \in Branches /\ pull[n] \in Pulls
      /\ pull \in [Numbers -> Pulls]
  BY <1>4, Sizes DEF Inductive, ProviderTypes
<1>6. c \in Commits
  <2>1. n \in 0..MaxIssues
    BY <1>4 DEF Numbers
  <2> HIDE DEF n
  <2>2. QED
    BY <1>5, <2>1 DEF Commits, Branches
<1>7. pull' = [pull EXCEPT ![n] = p]
  BY <1>1, <1>4, <1>5
<1>8. p \in Pulls' /\ p.state = "MERGED" /\ p.merge = Tip + 1
  <2>1. Tip' = Tip + 1
    BY <1>1, <1>6, MainSteps DEF AddsCommit
  <2>2. pull[n] \in Pulls' /\ Tip + 1 \in 0..Tip'
    BY <1>5, <2>1, MainSteps, <1>1, <1>6 DEF AddsCommit
  <2>3. QED
    BY <2>2, MergedPull DEF Pulls
<1>9. Tested(n)
  BY <1>1, <1>2 DEF Inductive, MergeRequests
<1>10. /\ Grows /\ HasGreatestId' /\ (FreshCheckout => OnFrontier')
       /\ Tip' = Tip + 1 /\ Issues' = Issues /\ main'[Tip'] = c
       /\ main' \in Seq(Commits') /\ Tip' >= 1
       /\ issue' \in Seq(IssueRecords') /\ Len(issue') <= MaxIssues /\ Pulls \subseteq Pulls'
  BY <1>1, <1>6, MainSteps DEF AddsCommit
<1>11. c.issue = n /\ issue' = issue /\ lease' = lease /\ branch' = branch /\ ci' = ci
  BY <1>1
<1>12. /\ \A m \in Numbers \ {n} : pull'[m] = pull[m]
       /\ pull'[n] = p
  BY <1>4, <1>5, <1>7
<1> HIDE DEF n, c, p
<1>13. pull' \in [Numbers -> Pulls']
  <2>1. \A m \in Numbers : pull'[m] \in Pulls'
    BY <1>5, <1>8, <1>10, <1>12
  <2>2. QED
    BY <1>5, <1>7, <2>1
<1>14. ProviderTypes'
  BY <1>10, <1>11, <1>13 DEF Inductive, ProviderTypes
<1>15. MergesAreCommits'
  <2>1. SUFFICES ASSUME NEW m \in Numbers, pull'[m].state = "MERGED"
                 PROVE  pull'[m].merge \in 1..Tip' /\ main'[pull'[m].merge].issue = m
    BY DEF MergesAreCommits
  <2>2. CASE m = n
    BY <1>5, <1>8, <1>10, <1>11, <1>12, <2>2
  <2>3. CASE m # n
    <3>1. pull'[m] = pull[m]
      BY <1>12, <2>3
    <3>2. pull[m].merge \in 1..Tip /\ main[pull[m].merge].issue = m
      BY <2>1, <3>1 DEF Inductive, MergesAreCommits
    <3>3. \A i \in 1..Tip : main'[i] = main[i]
      BY <1>10 DEF Grows
    <3>4. QED
      BY <1>5, <1>10, <3>1, <3>2, <3>3
  <2>4. QED
    BY <2>2, <2>3
<1>16. MergedTested'
  BY <1>9, <1>11, <1>12 DEF Inductive, MergedTested, Tested
<1>17. MergeRequests'
  <2>1. \A q \in inflight : q.act = "merge" => q.number \in Numbers
    BY Sizes DEF Inductive, RequestTypes, Requests, Numbers
  <2>2. \A m \in Numbers : pull[m].state # "NONE" =>
            pull'[m].state # "NONE" /\ (pull'[m].state = "OPEN" => pull[m].state = "OPEN")
    BY <1>8, <1>12
  <2>3. inflight' \subseteq inflight
    BY <1>10, SessionsKeep
  <2>4. QED
    BY <1>11, <2>1, <2>2, <2>3 DEF Inductive, MergeRequests, Tested
<1>18. OneWriter'
  BY <1>10, <1>11 DEF Inductive, OneWriter
<1>19. QED
  BY <1>10, <1>14, <1>15, <1>16, <1>17, <1>18, Composed

AddsIssue(e) == issue' = Append(issue, e)

LEMMA IssueAdded ==
  ASSUME Inductive, Len(issue) < MaxIssues, NEW e \in IssueRecords, AddsIssue(e), main' = main
  PROVE  /\ Tip' = Tip /\ Pulls' = Pulls /\ main' \in Seq(Commits') /\ Tip' >= 1
         /\ issue' \in Seq(IssueRecords') /\ Len(issue') = Len(issue) + 1 /\ Len(issue') <= MaxIssues
         /\ issue'[Len(issue')] = e /\ \A n \in Issues : issue'[n] = issue[n]
         /\ Issues' = Issues \cup {Len(issue')}
<1>1. issue \in Seq(IssueRecords) /\ main \in Seq(Commits) /\ Tip >= 1
  BY DEF Inductive, ProviderTypes
<1>2. Tip' = Tip
  BY DEF Tip
<1>3. IssueRecords' = IssueRecords /\ Commits' = Commits /\ Pulls' = Pulls
  BY <1>2 DEF IssueRecords, Commits, Pulls
<1>4. /\ issue' \in Seq(IssueRecords) /\ Len(issue') = Len(issue) + 1 /\ issue'[Len(issue')] = e
      /\ \A n \in 1..Len(issue) : issue'[n] = issue[n]
  BY <1>1 DEF AddsIssue
<1>5. Len(issue) \in Nat /\ MaxIssues \in Nat
  BY Sizes
<1>6. 1..Len(issue') = 1..Len(issue) \cup {Len(issue')}
  BY <1>4, <1>5
<1>7. QED
  BY <1>1, <1>2, <1>3, <1>4, <1>5, <1>6 DEF Issues

LEMMA CreateIssuePreserves ==
  ASSUME Inductive, NEW r \in inflight, Accepts(r), CreateIssue(r), SessionsWait
  PROVE  Inductive'
<1> DEFINE e == [open |-> TRUE, wu |-> r.wu, frontier |-> r.frontier, base |-> r.at, mark |-> "READY"]
<1>1. r.act = "create" /\ issue' = Append(issue, e) /\ UNCHANGED <<main, lease, branch, pull, ci>>
  BY DEF CreateIssue
<1>2. Len(issue) < MaxIssues
  BY <1>1 DEF Accepts
<1>3. r \in Requests /\ r.at \in 1..Tip
  BY <1>1 DEF Inductive, RequestTypes
<1>4. e \in IssueRecords
  BY <1>3 DEF IssueRecords, Requests, Marks
<1>5. e.wu \in Nat /\ e.frontier = r.frontier /\ e.base = r.at
  BY <1>3 DEF Requests
<1> DEFINE k == Len(issue')
<1>6. /\ Tip' = Tip /\ Pulls' = Pulls /\ main' \in Seq(Commits') /\ Tip' >= 1
      /\ issue' \in Seq(IssueRecords') /\ k = Len(issue) + 1 /\ k <= MaxIssues
      /\ issue'[k] = e /\ \A n \in Issues : issue'[n] = issue[n]
      /\ Issues' = Issues \cup {k}
  BY <1>1, <1>2, <1>4, IssueAdded DEF AddsIssue
<1>7. /\ main' = main /\ lease' = lease /\ branch' = branch /\ pull' = pull /\ ci' = ci
      /\ k \notin Issues /\ k \in Numbers /\ Len(issue) \in Nat /\ k \in Nat
  BY <1>1, <1>6, Sizes DEF Issues, Numbers
<1> HIDE DEF e
<1>8. Grows
  BY <1>6, <1>7, Sizes DEF Grows
<1>9. HasGreatestId'
  <2>1. PICK t \in Issues : \A n \in Issues : issue[n].wu <= issue[t].wu
    BY DEF Inductive, HasGreatestId
  <2>2. \A n \in Issues : issue[n].wu \in Nat
    BY Sizes DEF IssueRecords
  <2>3. CASE e.wu <= issue[t].wu
    BY <1>6, <2>1, <2>3 DEF HasGreatestId
  <2>4. CASE ~(e.wu <= issue[t].wu)
    <3>1. issue[t].wu <= e.wu
      BY <1>5, <2>1, <2>2, <2>4
    <3>2. \A n \in Issues : issue[n].wu <= e.wu
      BY <1>5, <2>1, <2>2, <3>1
    <3>3. \A n \in Issues' : issue'[n].wu <= issue'[k].wu
      BY <1>5, <1>6, <3>2
    <3>4. QED
      BY <1>6, <3>3 DEF HasGreatestId
  <2>5. QED
    BY <2>3, <2>4
<1>10. ProviderTypes'
  BY <1>6, <1>7 DEF Inductive, ProviderTypes
<1>11. MergesAreCommits' /\ MergedTested' /\ MergeRequests'
  <2>1. inflight' \subseteq inflight
    BY <1>8, SessionsKeep
  <2>2. QED
    BY <1>6, <1>7, <2>1 DEF Inductive, MergesAreCommits, MergedTested, MergeRequests, Tested
<1>12. OneWriter'
  <2>1. lease[k] = "NONE"
    BY <1>6, <1>7 DEF Inductive, OneWriter
  <2>2. \A n \in Numbers : n > k => lease'[n] = "NONE"
    BY <1>6, <1>7 DEF Inductive, OneWriter, Numbers
  <2>3. QED
    BY <1>6, <1>7, <2>1, <2>2 DEF Inductive, OneWriter
<1>13. FreshCheckout => OnFrontier'
  <2>1. FreshCheckout => r.frontier = main[r.at].frontier
    BY <1>1 DEF Inductive, Proposals
  <2>2. QED
    BY <1>5, <1>6, <1>7, <2>1 DEF Inductive, Proposals, OnFrontier
<1>14. QED
  BY <1>8, <1>9, <1>10, <1>11, <1>12, <1>13, Composed

LEMMA ApplyPreserves ==
  ASSUME Inductive, NEW r \in inflight, Apply(r)
  PROVE  Inductive'
<1>1. SessionsWait
  BY DEF Apply, SessionsWait, Answered
<1>2. r \in Requests /\ (r.act # "create" => r.number # 0)
  BY DEF Inductive, RequestTypes
<1>3. r.act # "create" => r.number \in Issues
  BY <1>2, Sizes DEF Requests, Issues
<1>4. CASE ~Accepts(r) /\ UNCHANGED provider
  <2>1. Grows
    BY <1>4, HistoryStays DEF provider
  <2>2. MergeRequests'
    BY <1>4, <2>1, <1>1, SessionsKeep, RequestsStay
  <2>3. OnFrontier' = OnFrontier
    BY <1>4, ProviderStays DEF OnFrontier, provider
  <2>4. QED
    BY <1>1, <1>4, <2>1, <2>2, <2>3, ProviderStays, Composed DEF Inductive, Proposals
<1>5. CASE Accepts(r) /\ CreateIssue(r)
  BY <1>1, <1>5, CreateIssuePreserves
<1>6. CASE Accepts(r) /\ MergePullRequest(r)
  BY <1>1, <1>6, MergePreserves
<1>7. CASE Accepts(r) /\ ChangeLease(r)
  <2> DEFINE n == r.number
             l == IF r.act = "acquire" THEN "ACTIVE" ELSE "RELEASED"
  <2>1. /\ r.act \in {"acquire", "release"} /\ lease' = [lease EXCEPT ![n] = l]
        /\ UNCHANGED <<main, issue, branch, pull, ci>>
    BY <1>7 DEF ChangeLease
  <2>2. n \in Issues /\ l \in LeaseStates
    BY <1>3, <2>1 DEF LeaseStates
  <2>3. l = "ACTIVE" => ClaimEligible(n) /\ lease[n] # "RELEASED"
    BY <1>7, <2>1 DEF Accepts, LeaseState
  <2>4. l = "ACTIVE" \/ l = "RELEASED"
    OBVIOUS
  <2> HIDE DEF n, l
  <2>5. QED
    BY <1>1, <2>1, <2>2, <2>3, <2>4, LeaseSteps
<1>8. CASE Accepts(r) /\ (CreateBranch(r) \/ PushCommit(r))
  <2> DEFINE n == r.number
             b == IF r.act = "branch" THEN [head |-> 0, frontier |-> main[r.at].frontier]
                  ELSE [head |-> r.at + 1, frontier |-> Following(branch[n].frontier)]
  <2>1. r.act \in {"branch", "push"} /\ n \in Issues /\ n \in Numbers
    BY <1>3, <1>8, Sizes DEF CreateBranch, PushCommit
  <2>2. branch \in [Numbers -> Branches]
    BY DEF Inductive, ProviderTypes
  <2>3. branch' = [branch EXCEPT ![n] = b] /\ UNCHANGED <<main, issue, lease, pull, ci>>
    BY <1>8, <2>1, <2>2 DEF CreateBranch, PushCommit
  <2>4. b \in Branches /\ branch[n].head < b.head
    <3>1. branch[n].frontier \in 0..LastFrontier /\ LastFrontier \in Nat
      BY <2>1, <2>2, Sizes DEF Branches
    <3>2. Following(branch[n].frontier) \in 0..LastFrontier
      BY <3>1 DEF Following
    <3>3. CASE r.act = "branch"
      <4>1. r.at \in 1..Tip
        BY <3>3 DEF Inductive, RequestTypes
      <4>2. main[r.at].frontier \in 0..LastFrontier
        BY <4>1, Sizes DEF Commits
      <4>3. branch[n].head = -1
        BY <1>8, <3>3 DEF Accepts
      <4>4. QED
        BY <3>3, <4>2, <4>3 DEF Branches
    <3>4. CASE r.act = "push"
      <4>1. branch[n].head = r.at
        BY <1>8, <3>4 DEF Accepts
      <4>2. r.at \in Nat \cup {-1}
        BY <1>2 DEF Requests
      <4>3. QED
        BY <3>2, <3>4, <4>1, <4>2 DEF Branches
    <3>5. QED
      BY <2>1, <3>3, <3>4
  <2>5. ci' = ci /\ ci \in [Numbers -> [Workflows -> RunStates]]
    BY <2>3 DEF Inductive, ProviderTypes
  <2> HIDE DEF n, b
  <2>6. QED
    BY <1>1, <2>1, <2>3, <2>4, <2>5, BranchSteps
<1>9. CASE Accepts(r) /\ CreatePullRequest(r)
  <2> DEFINE n == r.number
             p == [state |-> "OPEN", base |-> Tip, merge |-> 0]
  <2>1. r.act = "pr" /\ pull' = [pull EXCEPT ![n] = p] /\ UNCHANGED <<main, issue, lease, branch, ci>>
    BY <1>9 DEF CreatePullRequest
  <2>2. n \in Issues /\ pull[n].state = "NONE"
    BY <1>3, <1>9, <2>1 DEF Accepts
  <2>3. p \in Pulls /\ p.state = "OPEN"
    BY Sizes DEF Pulls
  <2> HIDE DEF n, p
  <2>4. QED
    BY <1>1, <2>1, <2>2, <2>3, HistoryStays, PullSteps
<1>10. QED
  BY <1>4, <1>5, <1>6, <1>7, <1>8, <1>9 DEF Apply

---------------------------------------------------------------------------
\* Everybody else.

LEMMA RunsPreserve ==
  ASSUME Inductive, NEW n \in Issues, NEW w \in Workflows, RegisterRun(n, w) \/ CompleteRun(n, w)
  PROVE  Inductive'
<1>1. SessionsWait /\ UNCHANGED <<main, issue, lease, branch, pull>> /\ ci[n][w] # "success"
  BY DEF RegisterRun, CompleteRun, SessionsWait
<1>2. \E x \in RunStates : ci' = [ci EXCEPT ![n][w] = x]
  <2>1. \/ ci' = [ci EXCEPT ![n][w] = "pending"]
        \/ ci' = [ci EXCEPT ![n][w] = "failure"]
        \/ ci' = [ci EXCEPT ![n][w] = "success"]
    BY DEF RegisterRun, CompleteRun
  <2>2. QED
    BY <2>1 DEF RunStates
<1>3. QED
  BY <1>1, <1>2, RunSteps

LEMMA ExpireLeasePreserves ==
  ASSUME Inductive, NEW n \in Issues, ExpireLease(n)
  PROVE  Inductive'
<1>1. /\ SessionsWait /\ UNCHANGED <<main, issue, branch, pull, ci>>
      /\ lease' = [lease EXCEPT ![n] = "EXPIRED"] /\ lease[n] # "RELEASED"
  BY DEF ExpireLease, SessionsWait
<1>2. QED
  BY <1>1, LeaseSteps DEF LeaseStates

LEMMA CommitsPreserve ==
  ASSUME Inductive, ForeignCommit \/ RepairContracts
  PROVE  Inductive'
<1>1. SessionsWait /\ UNCHANGED <<issue, lease, branch, pull, ci>>
  BY DEF ForeignCommit, RepairContracts, SessionsWait
<1>2. main[Tip] \in Commits /\ 0 \in 0..MaxIssues
  BY Sizes
<1>3. \E c \in Commits : AddsCommit(c)
  <2>1. CASE ForeignCommit
    <3>1. PICK d \in SUBSET (DriftFiles \X {"changed", "invalid"}) :
             main' = Append(main, [frontier |-> main[Tip].frontier, issue |-> 0,
                                   drift |-> main[Tip].drift \cup d])
      BY <2>1 DEF ForeignCommit
    <3>2. d \in SUBSET (Files \X {"changed", "invalid"})
      <4>1. DriftFiles \subseteq Files
        BY ConstantsAssumption
      <4> HIDE DEF Files
      <4>2. QED
        BY <4>1
    <3>3. [frontier |-> main[Tip].frontier, issue |-> 0, drift |-> main[Tip].drift \cup d] \in Commits
      <4> HIDE DEF Files
      <4>1. QED
        BY <1>2, <3>2 DEF Commits
    <3>4. QED
      BY <3>1, <3>3 DEF AddsCommit
  <2>2. CASE RepairContracts
    <3>1. main' = Append(main, [main[Tip] EXCEPT !.issue = 0, !.drift = {}])
      BY <2>2 DEF RepairContracts
    <3>2. [main[Tip] EXCEPT !.issue = 0, !.drift = {}] \in Commits
      BY <1>2 DEF Commits
    <3>3. QED
      BY <3>1, <3>2 DEF AddsCommit
  <2>3. QED
    BY <2>1, <2>2
<1>4. QED
  BY <1>1, <1>3, OutsideSteps

LEMMA RepairBranchPreserves ==
  ASSUME Inductive, NEW n \in Issues, RepairBranch(n)
  PROVE  Inductive'
<1> DEFINE b == [branch[n] EXCEPT !.head = @ + 1]
<1>1. n \in Numbers /\ branch \in [Numbers -> Branches] /\ ci \in [Numbers -> [Workflows -> RunStates]]
  BY Sizes DEF Inductive, ProviderTypes
<1>2. /\ SessionsWait /\ UNCHANGED <<main, issue, lease, pull>> /\ pull[n].state = "OPEN"
      /\ ci' = [ci EXCEPT ![n] = NoRuns] /\ branch' = [branch EXCEPT ![n].head = @ + 1]
  BY DEF RepairBranch, SessionsWait
<1>3. b \in Branches /\ branch[n].head < b.head
  BY <1>1 DEF Branches
<1>4. branch' = [branch EXCEPT ![n] = b]
  BY <1>1, <1>2
<1>5. NoRuns \in [Workflows -> RunStates]
  BY DEF NoRuns, RunStates
<1>6. /\ ci' \in [Numbers -> [Workflows -> RunStates]]
      /\ \A m \in Numbers : ci'[m] = ci[m] \/ (m = n /\ pull[m].state # "MERGED")
  BY <1>1, <1>2, <1>5
<1> HIDE DEF b
<1>7. QED
  BY <1>2, <1>3, <1>4, <1>6, BranchSteps

LEMMA MarksPreserve ==
  ASSUME Inductive, NEW n \in Issues, MarkIssue(n) \/ RestoreMark(n)
  PROVE  Inductive'
<1>1. SessionsWait /\ UNCHANGED <<main, lease, branch, pull, ci>>
  BY DEF MarkIssue, RestoreMark, SessionsWait
<1>2. PICK m \in Marks : issue' = [issue EXCEPT ![n].mark = m]
  BY DEF MarkIssue, RestoreMark, Marks
<1> DEFINE e == [issue[n] EXCEPT !.mark = m]
<1>3. issue[n] \in IssueRecords
  BY Sizes
<1>4. e \in IssueRecords /\ e.wu = issue[n].wu /\ e.frontier = issue[n].frontier /\ e.base = issue[n].base
  BY <1>3 DEF IssueRecords
<1>5. issue' = [issue EXCEPT ![n] = e]
  BY <1>2
<1>6. n \in Numbers /\ pull \in [Numbers -> Pulls]
  BY Sizes DEF Inductive, ProviderTypes
<1>7. pull[n] \in Pulls /\ pull' = [pull EXCEPT ![n] = pull[n]]
  BY <1>1, <1>6
<1> HIDE DEF e
<1>8. QED
  BY <1>1, <1>4, <1>5, <1>7, IssueSteps, PullSteps

LEMMA CloseIssuePreserves ==
  ASSUME Inductive, NEW n \in Issues, CloseIssue(n)
  PROVE  Inductive'
<1> DEFINE e == [issue[n] EXCEPT !.open = FALSE]
           p == [pull[n] EXCEPT !.state = IF @ = "MERGED" THEN @ ELSE "CLOSED"]
<1>1. SessionsWait /\ UNCHANGED <<main, lease, branch, ci>>
  BY DEF CloseIssue, SessionsWait
<1>2. issue[n] \in IssueRecords /\ n \in Numbers /\ pull \in [Numbers -> Pulls]
  BY Sizes DEF Inductive, ProviderTypes
<1>3. e \in IssueRecords /\ e.wu = issue[n].wu /\ e.frontier = issue[n].frontier /\ e.base = issue[n].base
  BY <1>2 DEF IssueRecords
<1>4. issue' = [issue EXCEPT ![n] = e]
  BY DEF CloseIssue
<1>5. pull[n] \in Pulls /\ p \in Pulls
      /\ (p = pull[n] \/ (p.state = "CLOSED" /\ pull[n].state # "MERGED"))
  BY <1>2 DEF Pulls
<1>6. pull' = [pull EXCEPT ![n] = p]
  BY <1>2 DEF CloseIssue
<1> HIDE DEF e, p
<1>7. QED
  BY <1>1, <1>3, <1>4, <1>5, <1>6, IssueSteps, PullSteps

---------------------------------------------------------------------------
\* The invariant holds in every reachable state.

LEMMA InitEstablishes == Init => Inductive
<1> SUFFICES ASSUME Init PROVE Inductive
  OBVIOUS
<1> USE DEF Init
<1>1. LastFrontier \in Nat \ {0} /\ MaxIssues \in Nat \ {0}
  BY ConstantsAssumption
<1>2. Tip = 1 /\ Len(issue) = 1 /\ Issues = {1}
  BY DEF Tip, Issues
<1>3. main[1] \in Commits /\ issue[1] \in IssueRecords
  BY <1>1, <1>2 DEF Commits, IssueRecords, Marks
<1>4. main \in Seq(Commits) /\ issue \in Seq(IssueRecords)
  BY <1>3
<1>5. NoBranch \in Branches /\ NoPull \in Pulls /\ NoRuns \in [Workflows -> RunStates]
  BY <1>1, <1>2 DEF NoBranch, Branches, NoPull, Pulls, NoRuns, RunStates
<1>6. ProviderTypes
  BY <1>1, <1>2, <1>4, <1>5 DEF ProviderTypes, LeaseStates
<1>7. HasGreatestId
  BY <1>2 DEF HasGreatestId
<1>8. MergesAreCommits /\ MergedTested
  BY DEF MergesAreCommits, MergedTested, NoPull
<1>9. SessionTypes
  BY <1>2 DEF SessionTypes, NothingSeen, Views
<1>10. RequestTypes /\ MergeRequests
  BY DEF RequestTypes, MergeRequests
<1>11. OneWriter
  BY <1>2 DEF OneWriter
<1>12. Proposals
  BY <1>2 DEF Proposals, OnFrontier, NothingSeen
<1>13. QED
  BY <1>6, <1>7, <1>8, <1>9, <1>10, <1>11, <1>12 DEF Inductive

LEMMA StepPreserves == Inductive /\ [Next]_vars => Inductive'
<1> SUFFICES ASSUME Inductive, [Next]_vars PROVE Inductive'
  OBVIOUS
<1>1. CASE \E s \in Sessions : Session(s)
  BY <1>1, ReadHeadPreserves, ReadOpenPreserves, DecidePreserves DEF Session
<1>2. CASE \E r \in inflight : Timeout(r) \/ Lose(r) \/ Apply(r)
  BY <1>2, TimeoutPreserves, LosePreserves, ApplyPreserves
<1>3. CASE \E n \in Issues, w \in Workflows : RegisterRun(n, w) \/ CompleteRun(n, w)
  BY <1>3, RunsPreserve
<1>4. CASE \E n \in Issues : ExpireLease(n) \/ MarkIssue(n) \/ Owner(n)
  BY <1>4, ExpireLeasePreserves, MarksPreserve, RepairBranchPreserves, CloseIssuePreserves DEF Owner
<1>5. CASE ForeignCommit \/ RepairContracts
  BY <1>5, CommitsPreserve
<1>6. CASE UNCHANGED vars
  <2>1. UNCHANGED <<provider, pc, seen, inflight>>
    BY <1>6 DEF vars, provider
  <2>2. SessionTypes'
    BY <2>1, ProviderStays DEF Inductive, SessionTypes
  <2>3. Proposals'
    BY <2>1, ProviderStays DEF Inductive, Proposals, OnFrontier, provider
  <2>4. QED
    BY <2>1, <2>2, <2>3, ProviderStays, RequestsStay, Parts
<1>7. QED
  BY <1>1, <1>2, <1>3, <1>4, <1>5, <1>6 DEF Next

LEMMA AlwaysInductive == Spec => []Inductive
  BY InitEstablishes, StepPreserves, PTL DEF Spec

\* The state is well typed, and every merged pull request is a commit of its
\* issue on main.
THEOREM TypeCorrect == Spec => []TypeOK
<1>1. Inductive => TypeOK
  <2>1. SUFFICES ASSUME Inductive PROVE TypeOK
    OBVIOUS
  <2>2. QED
    BY <2>1 DEF Inductive, ProviderTypes, IssueRecords, LeaseStates, Branches, Pulls, RunStates,
                MergesAreCommits, SessionTypes, TypeOK
<1>2. QED
  BY <1>1, AlwaysInductive, PTL

\* evaluate_autonomous_merge_issue_close_eligibility and the expected head in
\* the merge of execute_reusable_merge_close: whatever a work unit's merge
\* brings to main was tested at that head by every required workflow, after
\* its writer gave up the lease, however late the merge is applied.
THEOREM OnlyTestedIsMerged == Spec => []MergedIsTested
<1>1. Inductive => MergedIsTested
  BY Sizes DEF Inductive, MergedTested, Tested, MergedIsTested
<1>2. QED
  BY <1>1, AlwaysInductive, PTL

\* evaluate_claim_admission looks at the conflict domain, also when it is applied late: two
\* work units for one frontier are never both written.
THEOREM OneWriterAtATime == Spec => []OneWriterPerFrontier
<1>1. Inductive => OneWriterPerFrontier
  BY DEF Inductive, OneWriter, OneWriterPerFrontier
<1>2. QED
  BY <1>1, AlwaysInductive, PTL
=============================================================================
