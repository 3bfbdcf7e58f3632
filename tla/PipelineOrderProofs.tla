------------------------ MODULE PipelineOrderProofs ------------------------
(***************************************************************************)
(* ContinuationLoop implements the safety part of FrontierPipeline: every  *)
(* frontier is merged exactly once and in order.                           *)
(***************************************************************************)
EXTENDS ContinuationLoopProofs, WellFoundedInduction, SequenceTheorems

\* Nobody has begun to work on the issue.
Untouched(n) ==
    /\ lease[n] = "NONE" /\ branch[n].head = -1 /\ pull[n].state \in {"NONE", "CLOSED"}
    /\ \A r \in inflight : r.number # n

\* Numbers without an issue, and the issue that was there before the first
\* frontier, are untouched; the others are for a frontier of main.
Founded(n) == IF issue[n].frontier = 0 THEN ~issue[n].open /\ Untouched(n) ELSE issue[n].base # 0

Foundation ==
    /\ \A n \in Numbers \ Issues : Untouched(n)
    /\ \A n \in Issues : Founded(n)

\* Duplicates of an open issue are untouched, and nobody is about to decide
\* on one without knowing of the older issue.
Younger(m, n) == m < n /\ issue[m].frontier = issue[n].frontier
Seen(s) == {e.number : e \in seen[s].open}

Elders == \A m, n \in Issues : Younger(m, n) /\ issue[m].open => Untouched(n)
EldersSeen ==
    \A s \in Sessions : pc[s] = "decide" =>
        \A n \in Seen(s), m \in Issues : Younger(m, n) /\ issue[m].open => m \in Seen(s)

\* The branch has the frontier of the issue until the work unit's commit; a
\* pull request is open for an open issue with its work on the branch.
WorkSound(n) ==
    /\ branch[n].head = 0 => branch[n].frontier = issue[n].frontier
    /\ branch[n].head >= 1 => branch[n].frontier = Following(issue[n].frontier)
    /\ pull[n].state = "OPEN" => issue[n].open /\ branch[n].head >= 1
    /\ ~issue[n].open /\ issue[n].frontier # 0 => pull[n].state \in {"CLOSED", "MERGED"}

Work == \A n \in Issues : WorkSound(n)

\* What a request names, besides the merge and the proposal.
Fits(r) ==
    /\ r.act = "create" => r.frontier # 0
    /\ r.act = "branch" => r.at = issue[r.number].base
    /\ r.act = "push" => r.at = 0
    /\ r.act = "pr" => branch[r.number].head >= 1

RequestsFit == \A r \in inflight : Fits(r)

\* A work unit that can no longer be merged: at most claims are on their way.
Dead(n) ==
    \/ pull[n].state = "CLOSED"
    \/ /\ lease[n] = "NONE" /\ branch[n].head = -1 /\ pull[n].state = "NONE"
       /\ \A r \in inflight : r.number = n => r.act = "acquire"

IsMerged(m) == pull[m].state = "MERGED"

\* Once a work unit is merged its duplicates are dead, main has gone past its
\* frontier, and main goes past a frontier by such a merge only.
Late(n) == \E m \in Issues \ {n} : issue[m].frontier = issue[n].frontier /\ IsMerged(m)

DuplicatesDie == \A n \in Issues : Late(n) => Dead(n)
Passed == \A m \in Issues : IsMerged(m) =>
              main[Tip].frontier = 0 \/ issue[m].frontier < main[Tip].frontier
PassedByMerge ==
    \A b \in 1..Tip : main[b].frontier # main[Tip].frontier =>
        \E m \in Issues : IsMerged(m) /\ issue[m].frontier = main[b].frontier
MergesOfIssues == \A b \in 1..Tip : main[b].issue \in {0} \cup Issues

Merges == DuplicatesDie /\ Passed /\ PassedByMerge /\ MergesOfIssues

\* What keeps the order, beside the invariant of ContinuationLoopProofs.
Orderly == Foundation /\ Elders /\ EldersSeen /\ Work /\ RequestsFit /\ Merges

---------------------------------------------------------------------------
\* The frontiers that commits merge, in their order.

\* Counts with the recursion of MergedFrontiers.
Counts(g, n, M, I) ==
    g = [c \in 0..n |-> IF c = 0 THEN <<>>
                        ELSE IF M[c].issue = 0 THEN g[c - 1]
                        ELSE Append(g[c - 1], I[M[c].issue].frontier)]

LEMMA Expand ==
  ASSUME NEW M, NEW I
  PROVE  MergedFrontiers(M, I) = (CHOOSE g : Counts(g, Len(M), M, I))[Len(M)]
  BY DEF MergedFrontiers, Counts

LEMMA Smallest ==
  ASSUME NEW T, T \subseteq Nat, T # {}
  PROVE  \E n \in T : \A m \in T : ~(m < n)
<1> DEFINE less == {ss \in Nat \X Nat : ss[1] < ss[2]}
<1>1. IsWellFoundedOn(less, Nat)
  BY NatLessThanWellFounded DEF OpToRel
<1>2. PICK x \in T : \A y \in T : ~(<<y, x>> \in less)
  <2> HIDE DEF less
  <2> QED  BY <1>1, WFMin
<1> QED  BY <1>2

LEMMA Exists ==
  ASSUME NEW M, NEW I, NEW n \in Nat
  PROVE  \E g : Counts(g, n, M, I)
<1> DEFINE T == {k \in Nat : ~\E g : Counts(g, k, M, I)}
<1>1. ASSUME T # {} PROVE FALSE
  <2>1. PICK k \in T : \A m \in T : ~(m < k)
    BY <1>1, Smallest
  <2>2. CASE k = 0
    <3>1. PICK g : g = [c \in 0..0 |-> <<>>]
      OBVIOUS
    <3>2. g = [c \in 0..0 |-> IF c = 0 THEN <<>>
                        ELSE IF M[c].issue = 0 THEN g[c - 1]
                        ELSE Append(g[c - 1], I[M[c].issue].frontier)]
      BY <3>1
    <3>3. Counts(g, 0, M, I)
      BY <3>2, Zenon DEF Counts
    <3> QED  BY <2>2, <3>3
  <2>3. CASE k # 0
    <3>1. k - 1 \in Nat /\ k - 1 \notin T
      BY <2>1, <2>3
    <3>2. PICK g : Counts(g, k - 1, M, I)
      BY <3>1
    <3>3. PICK last : last = IF M[k].issue = 0 THEN g[k - 1] ELSE Append(g[k - 1], I[M[k].issue].frontier)
      OBVIOUS
    <3>4. PICK h : h = [c \in 0..k |-> IF c = k THEN last ELSE g[c]]
      OBVIOUS
    <3>5. ASSUME NEW c \in 0..k
          PROVE  h[c] = IF c = 0 THEN <<>>
                        ELSE IF M[c].issue = 0 THEN h[c - 1]
                        ELSE Append(h[c - 1], I[M[c].issue].frontier)
      <4>1. CASE c = k
        <5>1. h[c] = last /\ h[c - 1] = g[c - 1]
          BY <2>3, <3>1, <3>4, <4>1
        <5> QED  BY <2>3, <3>3, <4>1, <5>1
      <4>2. CASE c # k
        <5>1. c \in 0..(k - 1) /\ h[c] = g[c]
          BY <2>3, <3>1, <3>4, <4>2
        <5>2. c # 0 => h[c - 1] = g[c - 1]
          BY <3>1, <3>4, <4>2
        <5>3. g[c] = IF c = 0 THEN <<>>
                        ELSE IF M[c].issue = 0 THEN g[c - 1]
                        ELSE Append(g[c - 1], I[M[c].issue].frontier)
          BY <3>2, <5>1 DEF Counts
        <5> QED  BY <5>1, <5>2, <5>3
      <4> QED  BY <4>1, <4>2
    <3>6. Counts(h, k, M, I)
      BY <3>4, <3>5 DEF Counts
    <3> QED  BY <2>1, <3>6
  <2> QED  BY <2>2, <2>3
<1> QED  BY <1>1

\* Merges of more commits go on from those of fewer.
Extends(M, I, N, J, n) ==
  \A c \in 1..n : /\ N[c].issue = M[c].issue
                  /\ M[c].issue # 0 => J[M[c].issue].frontier = I[M[c].issue].frontier

\* Two that agree on what they count agree, as far as both go.
LEMMA Agree ==
  ASSUME NEW M, NEW I, NEW N, NEW J, NEW g, NEW h, NEW m \in Nat, NEW n \in Nat, m <= n,
         Counts(g, m, M, I), Counts(h, n, N, J), Extends(M, I, N, J, m)
  PROVE  \A c \in 0..m : h[c] = g[c]
<1> DEFINE T == {c \in 0..m : h[c] # g[c]}
<1>1. ASSUME T # {} PROVE FALSE
  <2> T \subseteq Nat
    OBVIOUS
  <2>1. PICK c \in T : \A d \in T : ~(d < c)
    <3> HIDE DEF T
    <3> QED  BY <1>1, Smallest
  <2>2. c \in 0..m /\ c \in 0..n
    OBVIOUS
  <2>3. c # 0 => c - 1 \in 0..m /\ h[c - 1] = g[c - 1]
    BY <2>1
  <2>4. g[c] = IF c = 0 THEN <<>>
               ELSE IF M[c].issue = 0 THEN g[c - 1]
               ELSE Append(g[c - 1], I[M[c].issue].frontier)
    BY <2>2 DEF Counts
  <2>5. h[c] = IF c = 0 THEN <<>>
               ELSE IF N[c].issue = 0 THEN h[c - 1]
               ELSE Append(h[c - 1], J[N[c].issue].frontier)
    BY <2>2 DEF Counts
  <2>6. h[c] = g[c]
    BY <2>2, <2>3, <2>4, <2>5 DEF Extends
  <2> QED  BY <2>6
<1> QED  BY <1>1

LEMMA Counted ==
  ASSUME NEW M, NEW I, NEW n \in Nat, Len(M) = n
  PROVE  \E g : Counts(g, n, M, I) /\ MergedFrontiers(M, I) = g[n]
<1>1. PICK g : g = CHOOSE x : Counts(x, n, M, I)
  OBVIOUS
<1>2. PICK x : Counts(x, n, M, I)
  BY Exists
<1>3. Counts(g, n, M, I)
  BY <1>1, <1>2, Zenon
<1>4. MergedFrontiers(M, I) = g[n]
  BY <1>1, Expand, Zenon
<1> QED  BY <1>3, <1>4

LEMMA MergesStay ==
  ASSUME NEW M, NEW I, NEW N, NEW J, NEW n \in Nat, Len(M) = n, Len(N) = n, Extends(M, I, N, J, n)
  PROVE  MergedFrontiers(N, J) = MergedFrontiers(M, I)
<1>1. PICK g : Counts(g, n, M, I) /\ MergedFrontiers(M, I) = g[n]
  BY Counted
<1>2. PICK h : Counts(h, n, N, J) /\ MergedFrontiers(N, J) = h[n]
  BY Counted
<1>3. n <= n
  OBVIOUS
<1>4. \A c \in 0..n : h[c] = g[c]
  BY <1>1, <1>2, <1>3, Agree
<1> QED  BY <1>1, <1>2, <1>4

LEMMA MergesGrow ==
  ASSUME NEW M, NEW I, NEW N, NEW J, NEW n \in Nat, Len(M) = n, Len(N) = n + 1, Extends(M, I, N, J, n)
  PROVE  MergedFrontiers(N, J) =
           IF N[n + 1].issue = 0 THEN MergedFrontiers(M, I)
           ELSE Append(MergedFrontiers(M, I), J[N[n + 1].issue].frontier)
<1>1. PICK g : Counts(g, n, M, I) /\ MergedFrontiers(M, I) = g[n]
  BY Counted
<1>2. PICK h : Counts(h, n + 1, N, J) /\ MergedFrontiers(N, J) = h[n + 1]
  BY Counted
<1>3. n <= n + 1 /\ n + 1 \in Nat
  OBVIOUS
<1>4. \A c \in 0..n : h[c] = g[c]
  BY <1>1, <1>2, <1>3, Agree
<1>5. h[n + 1] = IF N[n + 1].issue = 0 THEN h[n]
                 ELSE Append(h[n], J[N[n + 1].issue].frontier)
  <2>1. n + 1 \in 0..(n + 1) /\ n + 1 # 0 /\ (n + 1) - 1 = n
    OBVIOUS
  <2> DEFINE k == n + 1
  <2>2. k \in 0..k /\ k # 0 /\ Counts(h, k, N, J)
    BY <1>2, <2>1
  <2> HIDE DEF k
  <2>3. h[k] = IF N[k].issue = 0 THEN h[k - 1] ELSE Append(h[k - 1], J[N[k].issue].frontier)
    BY <2>2 DEF Counts
  <2> QED  BY <2>1, <2>3 DEF k
<1> QED  BY <1>1, <1>2, <1>4, <1>5

---------------------------------------------------------------------------
\* What a step keeps.

\* A request is carried along as it is, or as one nobody waits for.
Like(q, r) == q.act = r.act /\ q.number = r.number /\ q.at = r.at /\ q.frontier = r.frontier
Carried == \A q \in inflight' : \E r \in inflight : Like(q, r)

\* Sessions about to decide were so before.
Watching == \A s \in Sessions : pc'[s] = "decide" => pc[s] = "decide" /\ seen'[s] = seen[s]

\* Issues are closed and appended, never opened again or changed.
IssuesKept ==
    /\ Len(issue) <= Len(issue') /\ Len(issue') \in Nat
    /\ \A n \in Issues : /\ issue'[n].frontier = issue[n].frontier
                         /\ issue'[n].base = issue[n].base
                         /\ issue'[n].open => issue[n].open

SameWork(n) == lease'[n] = lease[n] /\ branch'[n] = branch[n] /\ pull'[n] = pull[n]

LEMMA UntouchedStays ==
  ASSUME NEW n, Untouched(n), Carried, SameWork(n)
  PROVE  Untouched(n)'
  BY DEF Untouched, Carried, Like, SameWork

LEMMA DeadStays ==
  ASSUME NEW n, Dead(n), Carried, SameWork(n)
  PROVE  Dead(n)'
  BY DEF Dead, Carried, Like, SameWork

LEMMA EldersStaySeen ==
  ASSUME Inductive, EldersSeen, Watching, IssuesKept
  PROVE  EldersSeen'
<1>1. SUFFICES ASSUME NEW s \in Sessions, pc'[s] = "decide", NEW n \in Seen(s)', NEW m \in Issues',
                      Younger(m, n)', issue'[m].open
               PROVE  m \in Seen(s)'
  BY DEF EldersSeen
<1>2. pc[s] = "decide" /\ seen'[s] = seen[s] /\ Seen(s)' = Seen(s)
  BY <1>1 DEF Watching, Seen
<1>3. n \in Issues
  BY <1>1, <1>2 DEF Inductive, SessionTypes, Views, Seen
<1>4. m \in Issues
  BY <1>1, <1>3, Sizes DEF Issues, Younger
<1>5. Younger(m, n) /\ issue[m].open
  BY <1>1, <1>3, <1>4 DEF IssuesKept, Younger
<1> QED  BY <1>1, <1>2, <1>4, <1>5 DEF EldersSeen

LEMMA RequestsStillFit ==
  ASSUME Inductive, RequestsFit, Carried, IssuesKept,
         \A n \in Issues : branch[n].head >= 1 => branch'[n].head >= 1
  PROVE  RequestsFit'
<1>1. SUFFICES ASSUME NEW q \in inflight' PROVE Fits(q)'
  BY DEF RequestsFit
<1>2. PICK r \in inflight : Like(q, r)
  BY <1>1 DEF Carried
<1>3. Fits(r) /\ r \in Requests /\ (r.act # "create" => r.number # 0)
  BY DEF RequestsFit, Inductive, RequestTypes
<1>4. r.act # "create" => r.number \in Issues
  BY <1>3, Sizes DEF Requests, Issues
<1> QED  BY <1>2, <1>3, <1>4 DEF Fits, Like, IssuesKept

\* A step that takes each issue by itself, and merges nothing.
LEMMA IssueByIssue ==
  ASSUME Inductive, Orderly, IssuesKept, Len(issue') = Len(issue), main' = main, RequestsFit',
         \A n \in Numbers : Untouched(n) => Untouched(n)',
         \A n \in Issues : Late(n) => Dead(n)',
         \A n \in Issues : IsMerged(n)' <=> IsMerged(n),
         \A n \in Issues : WorkSound(n)'
  PROVE  Foundation' /\ Elders' /\ Work' /\ RequestsFit' /\ Merges'
<1>1. Issues' = Issues /\ Tip' = Tip /\ Issues \subseteq Numbers
  BY Sizes DEF Issues, Tip
<1>2. Foundation'
  BY <1>1 DEF Orderly, Foundation, Founded, IssuesKept
<1>3. Elders'
  BY <1>1 DEF Orderly, Elders, Younger, IssuesKept
<1>4. Work'
  BY <1>1 DEF Work
<1>5. DuplicatesDie'
  BY <1>1 DEF DuplicatesDie, Late, IssuesKept
<1>6. Passed'
  BY <1>1 DEF Orderly, Merges, Passed, IssuesKept
<1>7. PassedByMerge'
  BY <1>1 DEF Orderly, Merges, PassedByMerge, IssuesKept
<1>8. MergesOfIssues'
  BY <1>1 DEF Orderly, Merges, MergesOfIssues
<1> QED  BY <1>2, <1>3, <1>4, <1>5, <1>6, <1>7, <1>8 DEF Merges

\* The provider's objects stay, but for markers, and requests are carried along.
LEMMA QuietStep ==
  ASSUME Inductive, Orderly, Carried, UNCHANGED <<main, lease, branch, pull>>,
         Len(issue') = Len(issue),
         \A n \in Issues : /\ issue'[n].open = issue[n].open
                           /\ issue'[n].frontier = issue[n].frontier
                           /\ issue'[n].base = issue[n].base
  PROVE  Foundation' /\ Elders' /\ Work' /\ RequestsFit' /\ Merges' /\ IssuesKept
<1>1. IssuesKept
  BY Sizes DEF IssuesKept
<1>2. \A n : SameWork(n)
  BY DEF SameWork
<1>3. RequestsFit'
  BY <1>1, RequestsStillFit DEF Orderly
<1>4. \A n \in Issues : WorkSound(n)'
  BY DEF Orderly, Work, WorkSound
<1>5. \A n : Untouched(n) => Untouched(n)'
  BY <1>2, UntouchedStays
<1>6. \A n \in Issues : Late(n) => Dead(n)'
  BY <1>2, DeadStays DEF Orderly, Merges, DuplicatesDie
<1>7. \A n : IsMerged(n)' <=> IsMerged(n)
  BY DEF IsMerged
<1> QED  BY <1>1, <1>3, <1>4, <1>5, <1>6, <1>7, IssueByIssue

\* A step of the work on one issue that somebody works on.
LEMMA WorkStep ==
  ASSUME Inductive, Orderly, Carried, Watching, NEW n \in Issues, UNCHANGED <<main, issue>>,
         \A m \in Numbers \ {n} : SameWork(m),
         ~Untouched(n), Late(n) => Dead(n)', IsMerged(n)' <=> IsMerged(n), WorkSound(n)',
         branch[n].head >= 1 => branch'[n].head >= 1
  PROVE  Orderly'
<1>1. IssuesKept
  BY Sizes DEF IssuesKept
<1>2. Issues \subseteq Numbers
  BY Sizes
<1>3. RequestsFit'
  BY <1>1, <1>2, RequestsStillFit DEF Orderly, SameWork
<1>4. \A m \in Issues : WorkSound(m)'
  BY <1>2 DEF Orderly, Work, WorkSound, SameWork
<1>5. \A m \in Numbers : Untouched(m) => Untouched(m)'
  BY UntouchedStays
<1>6. \A m \in Issues : Late(m) => Dead(m)'
  BY <1>2, DeadStays DEF Orderly, Merges, DuplicatesDie
<1>7. \A m \in Issues : IsMerged(m)' <=> IsMerged(m)
  BY <1>2 DEF IsMerged, SameWork
<1>8. EldersSeen'
  BY <1>1, EldersStaySeen DEF Orderly
<1> QED  BY <1>1, <1>3, <1>4, <1>5, <1>6, <1>7, <1>8, IssueByIssue DEF Orderly

---------------------------------------------------------------------------
\* Steps that leave the provider's objects alone, but for runs and markers.

LEMMA ReadHeadKeeps ==
  ASSUME Inductive, Orderly, NEW s \in Sessions, ReadHead(s)
  PROVE  Orderly'
<1>1. UNCHANGED <<main, issue, lease, branch, pull>> /\ Carried
  BY DEF ReadHead, provider, Carried, Like
<1>2. Watching
  BY DEF ReadHead, Watching, Inductive, SessionTypes
<1> QED  BY <1>1, <1>2, QuietStep, EldersStaySeen DEF Orderly

LEMMA ReadOpenKeeps ==
  ASSUME Inductive, Orderly, NEW s \in Sessions, ReadOpen(s)
  PROVE  Orderly'
<1>1. UNCHANGED <<main, issue, lease, branch, pull>> /\ Carried
  BY DEF ReadOpen, provider, Carried, Like
<1>2. PICK v : v = [seen[s] EXCEPT !.open =
                      {[number |-> n, mark |-> issue[n].mark] : n \in {m \in Issues : issue[m].open}}]
  OBVIOUS
<1>3. pc' = [pc EXCEPT ![s] = "decide"] /\ seen' = [seen EXCEPT ![s] = v]
  BY <1>2 DEF ReadOpen, Inductive, SessionTypes
<1>4. seen[s] \in Views
  BY DEF Inductive, SessionTypes
<1>5. v.open = {[number |-> n, mark |-> issue[n].mark] : n \in {m \in Issues : issue[m].open}}
  BY <1>2, <1>4 DEF Views
<1>6. {e.number : e \in v.open} = {m \in Issues : issue[m].open}
  <2>1. ASSUME NEW n \in Issues, issue[n].open PROVE \E e \in v.open : e.number = n
    <3>1. [number |-> n, mark |-> issue[n].mark] \in v.open
      BY <1>5, <2>1
    <3> QED  BY <3>1
  <2>2. ASSUME NEW e \in v.open PROVE e.number \in Issues /\ issue[e.number].open
    <3>1. PICK n \in {m \in Issues : issue[m].open} : e = [number |-> n, mark |-> issue[n].mark]
      BY <1>5
    <3> QED  BY <3>1
  <2> HIDE <1>5
  <2> QED  BY <2>1, <2>2
<1>7. Seen(s)' = {m \in Issues : issue[m].open}
  BY <1>3, <1>6 DEF Seen, Inductive, SessionTypes
<1>8. \A x \in Sessions \ {s} : pc'[x] = pc[x] /\ Seen(x)' = Seen(x)
  BY <1>3 DEF Seen, Inductive, SessionTypes
<1>9. Issues' = Issues /\ issue' = issue
  BY <1>1 DEF Issues
<1>10. EldersSeen'
  <2>1. SUFFICES ASSUME NEW x \in Sessions, pc'[x] = "decide", NEW n \in Seen(x)', NEW m \in Issues,
                        Younger(m, n), issue[m].open
                 PROVE  m \in Seen(x)'
    BY <1>9 DEF EldersSeen, Younger
  <2>2. CASE x = s
    BY <1>7, <2>1, <2>2
  <2>3. CASE x # s
    BY <1>8, <2>1, <2>3 DEF Orderly, EldersSeen
  <2> QED  BY <2>2, <2>3
<1> QED  BY <1>1, <1>10, QuietStep DEF Orderly

LEMMA TimeoutKeeps ==
  ASSUME Inductive, Orderly, NEW r \in inflight, Timeout(r)
  PROVE  Orderly'
<1>1. r \in Requests
  BY DEF Inductive, RequestTypes
<1>2. PICK q : q = [r EXCEPT !.late = TRUE]
  OBVIOUS
<1>3. Like(q, r)
  BY <1>1, <1>2 DEF Like, Requests
<1>4. inflight' = (inflight \ {r}) \cup {q} /\ UNCHANGED <<main, issue, lease, branch, pull>>
  BY <1>2 DEF Timeout, provider
<1>5. Carried
  BY <1>3, <1>4 DEF Carried, Like
<1>6. Watching
  BY DEF Timeout, Watching, Inductive, SessionTypes
<1> QED  BY <1>4, <1>5, <1>6, QuietStep, EldersStaySeen DEF Orderly

\* Late requests are lost, requests are refused, runs start and end.
LEMMA IdleStepsKeep ==
  ASSUME Inductive, Orderly, UNCHANGED <<main, issue, lease, branch, pull, seen>>,
         inflight' \subseteq inflight,
         pc' = pc \/ \E s \in Sessions : pc' = [pc EXCEPT ![s] = "idle"]
  PROVE  Orderly'
<1>1. Carried
  BY DEF Carried, Like
<1>2. Watching
  BY DEF Watching, Inductive, SessionTypes
<1> QED  BY <1>1, <1>2, QuietStep, EldersStaySeen DEF Orderly

LEMMA MarksKeep ==
  ASSUME Inductive, Orderly, NEW n \in Issues, MarkIssue(n) \/ RestoreMark(n)
  PROVE  Orderly'
<1>1. PICK m \in Marks : issue' = [issue EXCEPT ![n].mark = m]
  BY DEF MarkIssue, RestoreMark, Marks
<1>2. issue \in Seq(IssueRecords) /\ n \in 1..Len(issue) /\ \A k \in Issues : issue[k] \in IssueRecords
  BY Sizes DEF Inductive, ProviderTypes, Issues
<1>3. Len(issue') = Len(issue)
  BY <1>1, <1>2
<1>4. \A k \in Issues : issue'[k] = IF k = n THEN [issue[n] EXCEPT !.mark = m] ELSE issue[k]
  BY <1>1, <1>2 DEF Issues
<1>5. \A k \in Issues : /\ issue'[k].open = issue[k].open /\ issue'[k].frontier = issue[k].frontier
                        /\ issue'[k].base = issue[k].base
  BY <1>2, <1>4 DEF IssueRecords
<1>6. UNCHANGED <<main, lease, branch, pull, pc, seen, inflight>>
  BY DEF MarkIssue, RestoreMark
<1>7. Carried /\ Watching
  BY <1>6 DEF Carried, Like, Watching
<1> QED  BY <1>3, <1>5, <1>6, <1>7, QuietStep, EldersStaySeen DEF Orderly

---------------------------------------------------------------------------
\* The decision.

LEMMA StepMeans ==
  ASSUME NEW n, NEW v, branch[n].head \in Nat \cup {-1}
  PROVE  /\ Step(n, v) = "push" => branch[n].head = 0
         /\ Step(n, v) = "pr" => branch[n].head >= 1
         /\ branch[n].head = -1 /\ lease[n] = "NONE" => Step(n, v) = "acquire"
<1>1. PICK runs : runs = CiDecision(v.checkout, n)
  OBVIOUS
<1> QED  BY <1>1 DEF Step, LeaseState

\* A session proposes the frontier of its checkout, which is not the end, or
\* takes the next step of an open issue whose base is the head it read, when
\* all it read is unambiguous and still true.
LEMMA DecisionMeans ==
  ASSUME Inductive, NEW v \in Views,
         Admitted(Control(v)[1], Control(v)[2], v)
  PROVE  \/ Control(v)[1] = "create" /\ Control(v)[2] = 0 /\ main[v.checkout].frontier # 0
         \/ \E e \in v.open :
              /\ Control(v)[2] = e.number /\ Control(v)[1] = Step(e.number, v)
              /\ issue[e.number].open /\ issue[e.number].base = v.head
              /\ ~Ambiguous(v.open) /\ InventoryAgrees(v.open)
<1> DEFINE d == Continuation(v)
           m == CHOOSE e \in Executable(v.open, v.head) : TRUE
           k == CHOOSE n \in PostMerge(v) : TRUE
<1>1. \/ Control(v) = <<"none", 0>>
      \/ Control(v) = <<"create", 0>> /\ d = "PLAN_MATERIALIZATION"
      \/ Control(v) = <<Step(m.number, v), m.number>> /\ d = "CONTINUE"
      \/ Control(v) = <<"close", k>> /\ PostMerge(v) # {}
  BY DEF Control
<1> HIDE DEF d, m, k
<1>2. CASE Control(v) = <<"none", 0>>
  BY <1>2 DEF Admitted
<1>3. CASE Control(v) = <<"create", 0>> /\ d = "PLAN_MATERIALIZATION"
  <2>1. Disposition(v.open, v.head) # "PLAN_MATERIALIZATION"
    BY DEF Disposition
  <2>2. Materialization(v.checkout) = "PLAN_MATERIALIZATION"
    BY <1>3, <2>1 DEF Continuation, d
  <2>3. main[v.checkout].frontier # 0
    BY <2>2 DEF Materialization
  <2> QED  BY <1>3, <2>3
<1>4. CASE Control(v) = <<Step(m.number, v), m.number>> /\ d = "CONTINUE"
  <2>1. m \in Executable(v.open, v.head)
    BY <1>4, ContinuesOne DEF d, m
  <2>2. m \in v.open /\ Class(m, v.head) = "EXECUTABLE"
    BY <2>1 DEF Executable
  <2>3. issue[m.number].base = v.head
    BY <2>2 DEF Class
  <2>4. ~Ambiguous(v.open) /\ InventoryAgrees(v.open)
    BY <1>4 DEF Continuation, d
  <2>5. issue[m.number].open
    BY <2>2, <2>4 DEF InventoryAgrees
  <2> QED  BY <1>4, <2>2, <2>3, <2>4, <2>5
<1>5. CASE Control(v) = <<"close", k>> /\ PostMerge(v) # {}
  <2>1. k \in PostMerge(v)
    BY <1>5 DEF k
  <2>2. PICK e \in v.open : e.number = k /\ Class(e, v.head) = "STALE_BASE"
    BY <2>1 DEF PostMerge
  <2>3. issue[k].base # v.head
    BY <2>2 DEF Class
  <2>4. Admitted("close", k, v)
    BY <1>5
  <2>5. Selected(k, v)
    BY <2>4 DEF Admitted
  <2> QED  BY <2>3, <2>5 DEF Selected
<1> QED  BY <1>1, <1>2, <1>3, <1>4, <1>5

\* The owner does not mark an open issue as done.
OwnerKeepsLive == OwnerMarks \cap {"DONE", "SUPERSEDED"} = {}

\* A session that knows of an older issue decides on neither.
LEMMA ElderBlocks ==
  ASSUME Inductive, EldersSeen, OwnerKeepsLive, NEW s \in Sessions, pc[s] = "decide",
         NEW e \in seen[s].open, ~Ambiguous(seen[s].open),
         NEW m \in Issues, Younger(m, e.number), issue[m].open
  PROVE  FALSE
<1>1. m \in Seen(s)
  BY DEF EldersSeen, Seen
<1>2. PICK f \in seen[s].open : f.number = m
  BY <1>1 DEF Seen
<1>3. e \in [number : Issues, mark : Marks] /\ f \in [number : Issues, mark : Marks]
  BY DEF Inductive, SessionTypes, Views
<1>4. e \in Live(seen[s].open) /\ f \in Live(seen[s].open)
  BY <1>3 DEF Live, Marks, OwnerKeepsLive
<1>5. e.number # f.number /\ issue[e.number].frontier = issue[f.number].frontier
  BY <1>2, <1>3, Sizes DEF Younger, Issues
<1> QED  BY <1>4, <1>5 DEF Ambiguous

LEMMA DecideKeeps ==
  ASSUME Inductive, Orderly, OwnerKeepsLive, NEW s \in Sessions, Decide(s)
  PROVE  Orderly'
<1>0. PICK v, a, n, q : v = seen[s] /\ a = Control(v)[1] /\ n = Control(v)[2] /\ q = Request(s, a, n)
  OBVIOUS
<1>1. UNCHANGED <<main, issue, lease, branch, pull>> /\ pc[s] = "decide"
      /\ inflight' = (IF Admitted(a, n, v) THEN inflight \cup {q} ELSE inflight)
      /\ pc' = [pc EXCEPT ![s] = IF Admitted(a, n, v) THEN "wait" ELSE "idle"]
      /\ seen' = [seen EXCEPT ![s] = NothingSeen]
  BY <1>0 DEF Decide, provider
<1>2. v \in Views
  BY <1>0 DEF Inductive, SessionTypes
<1>3. Watching
  BY <1>1 DEF Watching, Inductive, SessionTypes
<1>4. CASE ~Admitted(a, n, v)
  <2>1. inflight' = inflight
    BY <1>1, <1>4
  <2>2. Carried
    BY <2>1 DEF Carried, Like
  <2> QED  BY <1>1, <1>3, <2>2, QuietStep, EldersStaySeen DEF Orderly
<1>5. CASE Admitted(a, n, v)
  <2>1. \/ a = "create" /\ n = 0 /\ main[v.checkout].frontier # 0
        \/ \E e \in v.open :
              /\ n = e.number /\ a = Step(e.number, v)
              /\ issue[e.number].open /\ issue[e.number].base = v.head
              /\ ~Ambiguous(v.open) /\ InventoryAgrees(v.open)
    BY <1>2, <1>5, <1>0, DecisionMeans
  <2>2. q.act = a /\ q.number = n /\ (a = "create" => q.frontier = main[v.checkout].frontier)
        /\ q.at = (IF a \in {"push", "merge"} THEN branch[n].head ELSE v.head)
    BY <1>0 DEF Request
  <2>3. inflight' = inflight \cup {q}
    BY <1>1, <1>5
  <2>4. \A e \in v.open : e.number \in Issues
    BY <1>2 DEF Views
  <2>5. n # 0 => /\ n \in Issues /\ issue[n].open /\ issue[n].base = v.head /\ a = Step(n, v)
                 /\ \A m \in Issues : ~(Younger(m, n) /\ issue[m].open)
    BY <1>1, <1>0, <2>1, <2>4, ElderBlocks DEF Orderly
  <2>6. n = 0 => a = "create" /\ main[v.checkout].frontier # 0
    BY <2>1, <2>4 DEF Issues
  <2>7. /\ Issues' = Issues /\ Tip' = Tip /\ IssuesKept /\ Issues \subseteq Numbers
        /\ branch \in [Numbers -> Branches]
    BY <1>1, Sizes DEF Issues, Tip, IssuesKept, Inductive, ProviderTypes
  <2>8. n \in Issues => branch[n].head \in Nat \cup {-1}
    BY <2>7 DEF Branches
  <2>9. n # 0 => /\ a # "create"
                 /\ a = "push" => branch[n].head = 0
                 /\ a = "pr" => branch[n].head >= 1
                 /\ branch[n].head = -1 /\ lease[n] = "NONE" => a = "acquire"
    BY <2>5, <2>8, StepMeans, StepTyped
  <2>10. Fits(q)'
    BY <1>1, <2>2, <2>5, <2>6, <2>9 DEF Fits
  <2>11. RequestsFit'
    BY <1>1, <2>3, <2>10 DEF Orderly, RequestsFit, Fits
  <2>12. \A m : m # n /\ Untouched(m) => Untouched(m)'
    BY <1>1, <2>2, <2>3 DEF Untouched
  <2>13. Foundation'
    <3>1. \A m \in Numbers \ Issues : m # n
      BY <2>5 DEF Numbers
    <3>2. \A m \in Issues : issue[m].frontier = 0 => m # n
      BY <2>5 DEF Orderly, Foundation, Founded, Issues
    <3> QED  BY <1>1, <2>7, <2>12, <3>1, <3>2 DEF Orderly, Foundation, Founded
  <2>14. Elders'
    <3>1. SUFFICES ASSUME NEW m \in Issues, NEW k \in Issues, Younger(m, k), issue[m].open
                   PROVE  Untouched(k)'
      BY <1>1, <2>7 DEF Elders, Younger
    <3>2. k # n
      BY <2>5, <3>1 DEF Issues
    <3> QED  BY <2>12, <3>1, <3>2 DEF Orderly, Elders
  <2>15. \A m \in Issues : Dead(m) => Dead(m)'
    BY <1>1, <2>2, <2>3, <2>5, <2>9 DEF Dead, Issues
  <2>16. Work'
    BY <1>1, <2>7 DEF Orderly, Work, WorkSound
  <2>17. DuplicatesDie'
    BY <1>1, <2>7, <2>15 DEF Orderly, Merges, DuplicatesDie, Late, IsMerged
  <2>18. Passed' /\ PassedByMerge' /\ MergesOfIssues'
    BY <1>1, <2>7 DEF Orderly, Merges, Passed, PassedByMerge, MergesOfIssues, IsMerged
  <2> QED
    BY <1>3, <2>7, <2>11, <2>13, <2>14, <2>16, <2>17, <2>18, EldersStaySeen DEF Orderly, Merges
<1> QED  BY <1>4, <1>5

---------------------------------------------------------------------------
\* Steps of the work on an issue.

\* Whoever is worked on is for a frontier of main.
LEMMA WorkedOn ==
  ASSUME Inductive, Orderly, FreshCheckout, NEW n \in Issues, ~Untouched(n)
  PROVE  /\ issue[n].frontier \in 1..LastFrontier /\ issue[n].base \in 1..Tip
         /\ main[issue[n].base].frontier = issue[n].frontier
<1>1. issue[n].frontier # 0 /\ issue[n].base # 0
  BY DEF Orderly, Foundation, Founded
<1>2. issue[n] \in IssueRecords /\ LastFrontier \in Nat /\ Tip \in Nat
  BY Sizes
<1> QED  BY <1>1, <1>2 DEF IssueRecords, Inductive, Proposals, OnFrontier

\* Main has gone past the frontier of a merged work unit, hence past the base
\* of its duplicates.
LEMMA LateHasStaleBase ==
  ASSUME Inductive, Orderly, FreshCheckout, NEW n \in Issues, Late(n)
  PROVE  issue[n].base # Tip
<1>1. PICK m \in Issues \ {n} : issue[m].frontier = issue[n].frontier /\ IsMerged(m)
  BY DEF Late
<1>2. ~Untouched(m)
  BY <1>1 DEF Untouched, IsMerged
<1>3. issue[n].frontier \in 1..LastFrontier
  BY <1>1, <1>2, WorkedOn
<1>4. main[Tip].frontier = 0 \/ issue[n].frontier < main[Tip].frontier
  BY <1>1 DEF Orderly, Merges, Passed
<1>5. issue[n].base # 0
  BY <1>3 DEF Orderly, Foundation, Founded
<1>6. issue[n].frontier = main[issue[n].base].frontier
  BY <1>5 DEF Inductive, Proposals, OnFrontier
<1>7. LastFrontier \in Nat
  BY Sizes
<1> QED  BY <1>3, <1>4, <1>6, <1>7

\* A duplicate of merged work for which more than a claim is sent is closed.
LEMMA LateIsClosed ==
  ASSUME Orderly, NEW n \in Issues, Late(n),
         \/ \E r \in inflight : r.number = n /\ r.act # "acquire"
         \/ lease[n] # "NONE" \/ branch[n].head # -1 \/ pull[n].state # "NONE"
  PROVE  pull[n].state = "CLOSED"
  BY DEF Orderly, Merges, DuplicatesDie, Dead

\* An accepted request about the lease, the branch or the pull request.
LEMMA AcceptedKeeps ==
  ASSUME Inductive, Orderly, FreshCheckout, NEW r \in inflight, Accepts(r), Carried, Watching,
         ChangeLease(r) \/ CreateBranch(r) \/ PushCommit(r) \/ CreatePullRequest(r)
  PROVE  Orderly'
<1>1. r \in Requests /\ r.act \in {"acquire", "release", "branch", "push", "pr"}
  BY DEF ChangeLease, CreateBranch, PushCommit, CreatePullRequest, Inductive, RequestTypes
<1>2. PICK n : n = r.number
  OBVIOUS
<1>3. n \in Issues /\ n \in Numbers
  BY <1>1, <1>2, Sizes DEF Inductive, RequestTypes, Requests, Issues
<1>4. /\ lease \in [Numbers -> LeaseStates] /\ branch \in [Numbers -> Branches] /\ pull \in [Numbers -> Pulls]
  BY DEF Inductive, ProviderTypes
<1>5. UNCHANGED <<main, issue>> /\ \A m \in Numbers \ {n} : SameWork(m)
  BY <1>2, <1>3, <1>4 DEF ChangeLease, CreateBranch, PushCommit, CreatePullRequest, SameWork
<1>6. ~Untouched(n) /\ Fits(r) /\ WorkSound(n)
  BY <1>2, <1>3 DEF Untouched, Orderly, RequestsFit, Work
<1>7. /\ issue[n].frontier \in 1..LastFrontier
      /\ main[issue[n].base].frontier = issue[n].frontier
  BY <1>3, <1>6, WorkedOn
<1>8. branch[n].head \in Nat \cup {-1}
  BY <1>3, <1>4 DEF Branches
<1>9. CASE ChangeLease(r)
  <2>1. UNCHANGED <<branch, pull>>
    BY <1>9 DEF ChangeLease
  <2>2. WorkSound(n)'
    BY <1>5, <1>6, <2>1 DEF WorkSound
  <2>3. Late(n) => Dead(n)'
    <3>1. r.act = "acquire" => ~Late(n)
      BY <1>2, <1>3, LateHasStaleBase DEF Accepts
    <3>2. r.act # "acquire" /\ Late(n) => pull[n].state = "CLOSED"
      BY <1>2, <1>3, LateIsClosed
    <3> QED  BY <2>1, <3>1, <3>2 DEF Dead
  <2> QED  BY <1>3, <1>5, <1>6, <2>1, <2>2, <2>3, WorkStep DEF IsMerged
<1>10. CASE CreateBranch(r)
  <2>1. r.act = "branch" /\ branch[n].head = -1
    BY <1>2, <1>10 DEF CreateBranch, Accepts
  <2>2. branch'[n].head = 0 /\ branch'[n].frontier = issue[n].frontier
    BY <1>2, <1>3, <1>4, <1>6, <1>7, <1>10, <2>1 DEF CreateBranch, Fits
  <2>3. UNCHANGED <<lease, pull>>
    BY <1>10 DEF CreateBranch
  <2>4. WorkSound(n)'
    BY <1>5, <1>6, <2>1, <2>2, <2>3 DEF WorkSound
  <2>5. Late(n) => Dead(n)'
    BY <1>2, <1>3, <2>1, <2>3, LateIsClosed DEF Dead
  <2> QED  BY <1>3, <1>5, <1>6, <2>1, <2>3, <2>4, <2>5, WorkStep DEF IsMerged
<1>11. CASE PushCommit(r)
  <2>1. r.act = "push" /\ branch[n].head = 0 /\ r.at = 0
    BY <1>2, <1>6, <1>11 DEF PushCommit, Accepts, Fits
  <2>2. branch'[n].head = 1 /\ branch'[n].frontier = Following(issue[n].frontier)
    BY <1>2, <1>3, <1>4, <1>6, <1>11, <2>1 DEF PushCommit, WorkSound
  <2>3. UNCHANGED <<lease, pull>>
    BY <1>11 DEF PushCommit
  <2>4. WorkSound(n)'
    BY <1>5, <1>6, <2>1, <2>2, <2>3 DEF WorkSound
  <2>5. Late(n) => Dead(n)'
    BY <1>2, <1>3, <2>1, <2>3, LateIsClosed DEF Dead
  <2> QED  BY <1>3, <1>5, <1>6, <2>2, <2>3, <2>4, <2>5, WorkStep DEF IsMerged
<1>12. CASE CreatePullRequest(r)
  <2>1. r.act = "pr" /\ pull[n].state = "NONE" /\ branch[n].head >= 1
    BY <1>2, <1>6, <1>12 DEF CreatePullRequest, Accepts, Fits
  <2>2. pull'[n].state = "OPEN"
    BY <1>2, <1>3, <1>4, <1>12 DEF CreatePullRequest
  <2>3. UNCHANGED <<lease, branch>>
    BY <1>12 DEF CreatePullRequest
  <2>4. issue[n].open
    BY <1>3, <1>6, <1>7, <2>1, Sizes DEF WorkSound, IssueRecords
  <2>5. WorkSound(n)'
    BY <1>5, <1>6, <2>1, <2>2, <2>3, <2>4 DEF WorkSound
  <2>6. ~Late(n)
    BY <1>2, <1>3, <2>1, LateIsClosed
  <2> QED  BY <1>3, <1>5, <1>6, <2>1, <2>2, <2>3, <2>5, <2>6, WorkStep DEF IsMerged
<1> QED  BY <1>9, <1>10, <1>11, <1>12

LEMMA ExpireLeaseKeeps ==
  ASSUME Inductive, Orderly, NEW n \in Issues, ExpireLease(n)
  PROVE  Orderly'
<1>1. /\ lease[n] = "ACTIVE" /\ lease' = [lease EXCEPT ![n] = "EXPIRED"]
      /\ UNCHANGED <<main, issue, branch, pull, pc, seen, inflight>>
  BY DEF ExpireLease
<1>2. Carried /\ Watching
  BY <1>1 DEF Carried, Like, Watching
<1>3. lease \in [Numbers -> LeaseStates]
  BY DEF Inductive, ProviderTypes
<1>4. \A m \in Numbers \ {n} : SameWork(m)
  BY <1>1, <1>3 DEF SameWork
<1>5. WorkSound(n)'
  BY <1>1 DEF Orderly, Work, WorkSound
<1>6. ~Untouched(n) /\ (Late(n) => Dead(n)')
  BY <1>1, LateIsClosed DEF Untouched, Dead
<1> QED  BY <1>1, <1>2, <1>4, <1>5, <1>6, WorkStep DEF IsMerged

LEMMA RepairBranchKeeps ==
  ASSUME Inductive, Orderly, NEW n \in Issues, RepairBranch(n)
  PROVE  Orderly'
<1>1. /\ pull[n].state = "OPEN" /\ branch' = [branch EXCEPT ![n].head = @ + 1]
      /\ UNCHANGED <<main, issue, lease, pull, pc, seen, inflight>>
  BY DEF RepairBranch
<1>2. Carried /\ Watching
  BY <1>1 DEF Carried, Like, Watching
<1>3. branch \in [Numbers -> Branches] /\ n \in Numbers
  BY Sizes DEF Inductive, ProviderTypes
<1>4. branch[n].head \in Nat \cup {-1}
  BY <1>3 DEF Branches
<1>5. branch'[n].head = branch[n].head + 1 /\ branch'[n].frontier = branch[n].frontier
  BY <1>1, <1>3 DEF Branches
<1>6. \A m \in Numbers \ {n} : SameWork(m)
  BY <1>1, <1>3 DEF SameWork
<1>7. WorkSound(n)
  BY DEF Orderly, Work
<1>8. WorkSound(n)' /\ branch'[n].head >= 1
  BY <1>1, <1>4, <1>5, <1>7 DEF WorkSound
<1>9. ~Untouched(n) /\ ~Late(n)
  BY <1>1, LateIsClosed DEF Untouched
<1> QED  BY <1>1, <1>2, <1>6, <1>8, <1>9, WorkStep DEF IsMerged

LEMMA CloseIssueKeeps ==
  ASSUME Inductive, Orderly, NEW n \in Issues, CloseIssue(n)
  PROVE  Orderly'
<1>1. /\ issue' = [issue EXCEPT ![n].open = FALSE]
      /\ pull' = [pull EXCEPT ![n].state = IF @ = "MERGED" THEN @ ELSE "CLOSED"]
      /\ UNCHANGED <<main, lease, branch, pc, seen, inflight>>
  BY DEF CloseIssue
<1>2. /\ issue \in Seq(IssueRecords) /\ n \in 1..Len(issue) /\ \A k \in Issues : issue[k] \in IssueRecords
      /\ n \in Numbers /\ Issues \subseteq Numbers /\ pull \in [Numbers -> Pulls]
  BY Sizes DEF Inductive, ProviderTypes, Issues
<1>3. Len(issue') = Len(issue)
  BY <1>1, <1>2
<1>4. \A k \in Issues : issue'[k] = IF k = n THEN [issue[n] EXCEPT !.open = FALSE] ELSE issue[k]
  BY <1>1, <1>2 DEF Issues
<1>5. \A k \in Issues : /\ issue'[k].frontier = issue[k].frontier /\ issue'[k].base = issue[k].base
                        /\ issue'[k].open = IF k = n THEN FALSE ELSE issue[k].open
  BY <1>2, <1>4 DEF IssueRecords
<1>6. IssuesKept
  <2>1. \A k \in Issues : issue'[k].open => issue[k].open
    BY <1>5
  <2>2. Len(issue) <= Len(issue') /\ Len(issue') \in Nat
    BY <1>3, Sizes
  <2> QED  BY <1>5, <2>1, <2>2 DEF IssuesKept
<1>7. Carried /\ Watching
  BY <1>1 DEF Carried, Like, Watching
<1>8. RequestsFit'
  BY <1>1, <1>6, <1>7, RequestsStillFit DEF Orderly
<1>9. /\ pull'[n].state = IF pull[n].state = "MERGED" THEN "MERGED" ELSE "CLOSED"
      /\ \A m \in Numbers \ {n} : SameWork(m)
  BY <1>1, <1>2 DEF Pulls, SameWork
<1>10. \A m \in Numbers : Untouched(m) => Untouched(m)'
  <2>1. Untouched(n) => Untouched(n)'
    BY <1>1, <1>9 DEF Untouched
  <2> QED  BY <1>7, <1>9, <2>1, UntouchedStays
<1>11. \A m \in Issues : Late(m) => Dead(m)'
  <2>1. Dead(n) => Dead(n)'
    BY <1>9 DEF Dead
  <2> QED  BY <1>2, <1>7, <1>9, <2>1, DeadStays DEF Orderly, Merges, DuplicatesDie
<1>12. \A m \in Issues : IsMerged(m)' <=> IsMerged(m)
  BY <1>2, <1>9 DEF IsMerged, SameWork
<1>13. \A m \in Issues : WorkSound(m)'
  BY <1>1, <1>2, <1>5, <1>9 DEF Orderly, Work, WorkSound, SameWork
<1>14. EldersSeen'
  BY <1>6, <1>7, EldersStaySeen DEF Orderly
<1> QED  BY <1>1, <1>3, <1>6, <1>8, <1>10, <1>11, <1>12, <1>13, <1>14, IssueByIssue DEF Orderly

\* A new issue is the youngest, and untouched.
LEMMA CreateIssueKeeps ==
  ASSUME Inductive, Orderly, NEW r \in inflight, Accepts(r), Carried, Watching, CreateIssue(r)
  PROVE  Orderly'
<1>1. PICK e : e = [open |-> TRUE, wu |-> r.wu, frontier |-> r.frontier, base |-> r.at, mark |-> "READY"]
  OBVIOUS
<1>2. r.act = "create" /\ issue' = Append(issue, e) /\ UNCHANGED <<main, lease, branch, pull>>
  BY <1>1 DEF CreateIssue
<1>3. Len(issue) < MaxIssues
  BY <1>2 DEF Accepts
<1>4. r \in Requests /\ r.at \in 1..Tip /\ r.frontier # 0
  BY <1>2 DEF Inductive, RequestTypes, Orderly, RequestsFit, Fits
<1>5. e \in IssueRecords
  BY <1>1, <1>4 DEF IssueRecords, Requests, Marks
<1>6. PICK k : k = Len(issue) + 1
  OBVIOUS
<1>7. /\ Tip' = Tip /\ Len(issue') = k /\ issue'[k] = e /\ \A n \in Issues : issue'[n] = issue[n]
      /\ Issues' = Issues \cup {k}
  BY <1>2, <1>3, <1>5, <1>6, IssueAdded DEF AddsIssue
<1>8. k \in Numbers \ Issues /\ Len(issue) \in Nat /\ Issues \subseteq Numbers
  BY <1>3, <1>6, Sizes DEF Numbers, Issues
<1>9. IssuesKept
  BY <1>6, <1>7, <1>8 DEF IssuesKept
<1>10. \A n : SameWork(n)
  BY <1>2 DEF SameWork
<1>11. RequestsFit'
  BY <1>2, <1>9, RequestsStillFit DEF Orderly
<1>12. \A n : Untouched(n) => Untouched(n)'
  BY <1>10, UntouchedStays
<1>13. Untouched(k) /\ Untouched(k)'
  BY <1>8, <1>12 DEF Orderly, Foundation
<1>14. Foundation'
  <2>1. e.frontier # 0 /\ e.base # 0
    BY <1>1, <1>4, Sizes
  <2> QED  BY <1>7, <1>12, <2>1 DEF Orderly, Foundation, Founded
<1>15. Elders'
  <2>1. SUFFICES ASSUME NEW m \in Issues', NEW n \in Issues', Younger(m, n)', issue'[m].open
                 PROVE  Untouched(n)'
    BY DEF Elders
  <2>2. n \in Issues => m \in Issues
    BY <1>6, <1>7, <1>8, <2>1 DEF Younger, Issues
  <2> QED  BY <1>7, <1>12, <1>13, <2>1, <2>2 DEF Orderly, Elders, Younger
<1>16. Work'
  <2>1. WorkSound(k)'
    BY <1>1, <1>7, <1>13 DEF WorkSound, Untouched
  <2>2. ASSUME NEW n \in Issues PROVE WorkSound(n)'
    <3>1. issue'[n] = issue[n] /\ UNCHANGED <<branch, pull>> /\ WorkSound(n)
      BY <1>2, <1>7 DEF Orderly, Work
    <3> QED  BY <3>1 DEF WorkSound
  <2> QED  BY <1>7, <2>1, <2>2 DEF Work
<1>17. DuplicatesDie'
  <2>1. ~IsMerged(k)' /\ Dead(k)'
    BY <1>13 DEF Untouched, IsMerged, Dead
  <2>2. \A n \in Issues : Dead(n) => Dead(n)'
    BY <1>10, DeadStays
  <2>3. \A n \in Issues : Late(n)' => Late(n)
    BY <1>2, <1>7, <1>8, <2>1 DEF Late, IsMerged
  <2> QED  BY <1>7, <2>1, <2>2, <2>3 DEF Orderly, Merges, DuplicatesDie
<1>18. Passed' /\ PassedByMerge' /\ MergesOfIssues'
  <2>1. ~IsMerged(k)'
    BY <1>13 DEF Untouched, IsMerged
  <2>2. \A m \in Issues : IsMerged(m)' = IsMerged(m) /\ issue'[m].frontier = issue[m].frontier
    BY <1>2, <1>7 DEF IsMerged
  <2>3. Passed'
    BY <1>2, <1>7, <2>1, <2>2 DEF Orderly, Merges, Passed
  <2>4. PassedByMerge'
    <3>1. SUFFICES ASSUME NEW b \in 1..Tip, main[b].frontier # main[Tip].frontier
                   PROVE  \E m \in Issues' : IsMerged(m)' /\ issue'[m].frontier = main[b].frontier
      BY <1>2, <1>7 DEF PassedByMerge
    <3>2. PICK m \in Issues : IsMerged(m) /\ issue[m].frontier = main[b].frontier
      BY <3>1 DEF Orderly, Merges, PassedByMerge
    <3> QED  BY <1>7, <2>2, <3>2
  <2>5. MergesOfIssues'
    BY <1>2, <1>7 DEF Orderly, Merges, MergesOfIssues
  <2> QED  BY <2>3, <2>4, <2>5
<1>19. EldersSeen'
  BY <1>9, EldersStaySeen DEF Orderly
<1> QED  BY <1>11, <1>14, <1>15, <1>16, <1>17, <1>18, <1>19 DEF Orderly, Merges

---------------------------------------------------------------------------
\* The merge.

\* A merge request that is accepted finds main still at the frontier of its
\* work unit, which is the first to be merged for it.
LEMMA MergeMeans ==
  ASSUME Inductive, Orderly, FreshCheckout, NEW r \in inflight, Accepts(r), MergePullRequest(r)
  PROVE  LET n == r.number
         IN  /\ n \in Issues /\ issue[n].open /\ ~Late(n) /\ ~Untouched(n)
             /\ issue[n].frontier \in 1..LastFrontier /\ issue[n].base \in 1..Tip
             /\ main[Tip].frontier = issue[n].frontier
             /\ main[issue[n].base].frontier = issue[n].frontier
             /\ branch[n].frontier = Following(issue[n].frontier)
             /\ WorkSound(n)
<1>1. PICK n : n = r.number
  OBVIOUS
<1>2. r.act = "merge" /\ pull[n].state = "OPEN" /\ Mergeable(n)
  BY <1>1 DEF MergePullRequest, Accepts
<1>3. n \in Issues
  BY <1>1, <1>2, Sizes DEF Inductive, RequestTypes, Requests, Issues
<1>4. ~Late(n) /\ ~Untouched(n)
  BY <1>1, <1>2, <1>3, LateIsClosed DEF Untouched
<1>5. /\ issue[n].frontier \in 1..LastFrontier /\ issue[n].base \in 1..Tip
      /\ main[issue[n].base].frontier = issue[n].frontier
  BY <1>3, <1>4, WorkedOn
<1>6. WorkSound(n) /\ issue[n].open /\ branch[n].frontier = Following(issue[n].frontier)
  BY <1>2, <1>3 DEF Orderly, Work, WorkSound
<1>7. Following(issue[n].frontier) # issue[n].frontier
  BY <1>5, Sizes DEF Following
<1>8. main[Tip].frontier = issue[n].frontier
  <2>1. SUFFICES ASSUME main[Tip].frontier # issue[n].frontier PROVE FALSE
    OBVIOUS
  <2>2. PICK m \in Issues : IsMerged(m) /\ issue[m].frontier = issue[n].frontier
    BY <1>5, <2>1 DEF Orderly, Merges, PassedByMerge
  <2>3. m # n
    BY <1>2, <2>2 DEF IsMerged
  <2> QED  BY <1>4, <2>2, <2>3 DEF Late
<1> QED  BY <1>1, <1>3, <1>4, <1>5, <1>6, <1>8

\* What the merge does to main and to the pull request.
LEMMA MergeDoes ==
  ASSUME Inductive, Orderly, FreshCheckout, NEW r \in inflight, Accepts(r), MergePullRequest(r)
  PROVE  LET n == r.number
         IN  /\ UNCHANGED <<issue, lease, branch>>
             /\ Issues' = Issues /\ Tip' = Tip + 1 /\ Tip \in Nat /\ n \in Numbers
             /\ \A b \in 1..Tip : main'[b] = main[b]
             /\ main'[Tip'].frontier = Following(issue[n].frontier) /\ main'[Tip'].issue = n
             /\ \A m \in Numbers \ {n} : SameWork(m)
             /\ pull'[n].state = "MERGED"
<1>1. PICK n, c : /\ n = r.number
                  /\ c = [frontier |-> IF branch[n].frontier = main[issue[n].base].frontier
                                       THEN main[Tip].frontier ELSE branch[n].frontier,
                          issue |-> n, drift |-> main[Tip].drift]
  OBVIOUS
<1>2. /\ main' = Append(main, c)
      /\ pull' = [pull EXCEPT ![n].state = "MERGED", ![n].merge = Tip + 1]
      /\ UNCHANGED <<issue, lease, branch>>
  BY <1>1, Zenon DEF MergePullRequest
<1>3. /\ n \in Issues /\ issue[n].frontier \in 1..LastFrontier
      /\ main[issue[n].base].frontier = issue[n].frontier
      /\ branch[n].frontier = Following(issue[n].frontier)
  BY <1>1, MergeMeans
<1>4. Following(issue[n].frontier) # issue[n].frontier
  BY <1>3, Sizes DEF Following
<1>5. c.frontier = Following(issue[n].frontier) /\ c.issue = n
  BY <1>1, <1>3, <1>4
<1>6. /\ n \in Numbers /\ main[Tip] \in Commits /\ branch[n] \in Branches /\ pull \in [Numbers -> Pulls]
  BY <1>3, Sizes DEF Inductive, ProviderTypes
<1>7. c \in Commits
  BY <1>1, <1>6 DEF Commits, Branches, Numbers
<1>8. /\ Grows /\ Tip' = Tip + 1 /\ Issues' = Issues /\ main'[Tip'] = c /\ Tip \in Nat
  BY <1>2, <1>7, MainSteps, Sizes DEF AddsCommit
<1>9. \A b \in 1..Tip : main'[b] = main[b]
  BY <1>8 DEF Grows
<1>10. /\ \A m \in Numbers \ {n} : SameWork(m)
       /\ pull'[n].state = "MERGED"
  BY <1>2, <1>6 DEF SameWork, Pulls
<1> QED  BY <1>1, <1>2, <1>5, <1>6, <1>8, <1>9, <1>10

LEMMA MergeKeeps ==
  ASSUME Inductive, Orderly, FreshCheckout, NEW r \in inflight, Accepts(r), Carried, Watching,
         MergePullRequest(r)
  PROVE  Orderly'
<1>1. PICK n, f : n = r.number /\ f = issue[n].frontier
  OBVIOUS
<1>2. /\ n \in Issues /\ issue[n].open /\ ~Late(n) /\ ~Untouched(n)
      /\ f \in 1..LastFrontier /\ main[Tip].frontier = f
      /\ branch[n].frontier = Following(f) /\ WorkSound(n)
  BY <1>1, MergeMeans
<1>3. /\ UNCHANGED <<issue, lease, branch>>
      /\ Issues' = Issues /\ Tip' = Tip + 1 /\ Tip \in Nat /\ n \in Numbers
      /\ \A b \in 1..Tip : main'[b] = main[b]
      /\ main'[Tip'].frontier = Following(f) /\ main'[Tip'].issue = n
      /\ \A m \in Numbers \ {n} : SameWork(m)
      /\ pull'[n].state = "MERGED"
  BY <1>1, MergeDoes
<1>4. IssuesKept /\ Issues \subseteq Numbers /\ LastFrontier \in Nat
  BY <1>3, Sizes DEF IssuesKept
<1>5. /\ IsMerged(n)' /\ ~IsMerged(n)
      /\ \A m \in Issues \ {n} : IsMerged(m)' <=> IsMerged(m)
  <2>1. ~IsMerged(n)
    BY <1>1 DEF IsMerged, MergePullRequest, Accepts
  <2> QED  BY <1>3, <1>4, <2>1 DEF IsMerged, SameWork
<1>6. EldersSeen' /\ RequestsFit'
  BY <1>3, <1>4, EldersStaySeen, RequestsStillFit DEF Orderly
<1>7. \A m \in Numbers : Untouched(m) => Untouched(m)'
  BY <1>2, <1>3, UntouchedStays
<1>8. Foundation'
  BY <1>3, <1>4, <1>7 DEF Orderly, Foundation, Founded
<1>9. Elders'
  BY <1>3, <1>4, <1>7 DEF Orderly, Elders, Younger
<1>10. Work'
  <2>1. WorkSound(n)'
    BY <1>2, <1>3 DEF WorkSound
  <2>2. ASSUME NEW m \in Issues \ {n} PROVE WorkSound(m)'
    BY <1>3, <1>4 DEF Orderly, Work, WorkSound, SameWork
  <2> QED  BY <1>3, <2>1, <2>2 DEF Work
<1>11. DuplicatesDie'
  <2>1. SUFFICES ASSUME NEW k \in Issues, Late(k)' PROVE Dead(k)'
    BY <1>3 DEF DuplicatesDie
  <2>2. k # n
    BY <1>2, <1>3, <1>5, <2>1 DEF Late
  <2>3. Dead(k) => Dead(k)'
    BY <1>3, <1>4, <2>2, DeadStays
  <2>4. CASE Late(k)
    BY <2>3, <2>4 DEF Orderly, Merges, DuplicatesDie
  <2>5. CASE ~Late(k)
    <3>1. issue[k].frontier = f
      BY <1>1, <1>3, <1>5, <2>1, <2>5 DEF Late
    <3>2. CASE k > n
      <4>1. Untouched(k)
        BY <1>1, <1>2, <3>1, <3>2 DEF Orderly, Elders, Younger
      <4> QED  BY <2>3, <4>1 DEF Untouched, Dead
    <3>3. CASE k < n
      <4>1. ~issue[k].open
        BY <1>1, <1>2, <3>1, <3>3 DEF Orderly, Elders, Younger
      <4>2. pull[k].state \in {"CLOSED", "MERGED"}
        BY <1>2, <3>1, <4>1 DEF Orderly, Work, WorkSound
      <4>3. pull[k].state # "MERGED"
        BY <1>1, <1>2, <2>2, <3>1 DEF Late, IsMerged
      <4> QED  BY <2>3, <4>2, <4>3 DEF Dead
    <3> QED  BY <1>2, <2>2, <3>2, <3>3, Sizes DEF Issues
  <2> QED  BY <2>4, <2>5
<1>12. Passed'
  <2>1. SUFFICES ASSUME NEW m \in Issues, IsMerged(m)'
                 PROVE  Following(f) = 0 \/ issue[m].frontier < Following(f)
    BY <1>3 DEF Passed
  <2>2. Following(f) = 0 \/ Following(f) = f + 1
    BY DEF Following
  <2>3. CASE m = n
    BY <1>1, <1>2, <2>2, <2>3
  <2>4. CASE m # n
    <3>1. issue[m].frontier < f
      BY <1>2, <1>5, <2>1, <2>4 DEF Orderly, Merges, Passed
    <3>2. issue[m].frontier \in 0..LastFrontier
      BY Sizes DEF IssueRecords
    <3> QED  BY <1>2, <1>4, <2>2, <3>1, <3>2
  <2> QED  BY <2>3, <2>4
<1>13. PassedByMerge'
  <2>1. SUFFICES ASSUME NEW b \in 1..Tip, main[b].frontier # Following(f)
                 PROVE  \E m \in Issues : IsMerged(m)' /\ issue[m].frontier = main[b].frontier
    BY <1>3 DEF PassedByMerge
  <2>2. CASE main[b].frontier = f
    BY <1>1, <1>2, <1>5, <2>2
  <2>3. CASE main[b].frontier # f
    <3>1. PICK m \in Issues : IsMerged(m) /\ issue[m].frontier = main[b].frontier
      BY <1>2, <2>1, <2>3 DEF Orderly, Merges, PassedByMerge
    <3>2. IsMerged(m)'
      BY <1>5, <3>1
    <3> QED  BY <3>1, <3>2
  <2> QED  BY <2>2, <2>3
<1>14. MergesOfIssues'
  BY <1>2, <1>3 DEF Orderly, Merges, MergesOfIssues
<1> QED  BY <1>6, <1>8, <1>9, <1>10, <1>11, <1>12, <1>13, <1>14 DEF Orderly, Merges

\* A commit from outside keeps the frontier, and merges nothing.
LEMMA CommitMeans ==
  ASSUME Inductive, ForeignCommit \/ RepairContracts
  PROVE  /\ UNCHANGED <<issue, lease, branch, pull, pc, seen, inflight>>
         /\ Issues' = Issues /\ Tip' = Tip + 1 /\ Tip \in Nat /\ Tip >= 1
         /\ \A b \in 1..Tip : main'[b] = main[b]
         /\ main'[Tip'].frontier = main[Tip].frontier /\ main'[Tip'].issue = 0
<1>1. UNCHANGED <<issue, lease, branch, pull, pc, seen, inflight>>
  BY DEF ForeignCommit, RepairContracts
<1>2. main[Tip] \in Commits /\ main \in Seq(Commits) /\ Tip \in Nat /\ Tip >= 1
  BY Sizes DEF Inductive, ProviderTypes
<1>3. \E c : main' = Append(main, c) /\ c.frontier = main[Tip].frontier /\ c.issue = 0
  <2>1. CASE ForeignCommit
    BY <2>1 DEF ForeignCommit
  <2>2. CASE RepairContracts
    <3>1. PICK c : c = [main[Tip] EXCEPT !.issue = 0, !.drift = {}]
      OBVIOUS
    <3>2. c.frontier = main[Tip].frontier /\ c.issue = 0
      BY <1>2, <3>1 DEF Commits
    <3>3. main' = Append(main, c)
      BY <2>2, <3>1 DEF RepairContracts
    <3> QED  BY <3>2, <3>3
  <2> QED  BY <2>1, <2>2
<1>4. PICK c : main' = Append(main, c) /\ c.frontier = main[Tip].frontier /\ c.issue = 0
  BY <1>3
<1>5. Tip' = Tip + 1 /\ main'[Tip'] = c /\ \A b \in 1..Tip : main'[b] = main[b]
  BY <1>2, <1>4 DEF Tip
<1> QED  BY <1>1, <1>2, <1>4, <1>5 DEF Issues

LEMMA CommitKeeps ==
  ASSUME Inductive, Orderly, ForeignCommit \/ RepairContracts
  PROVE  Orderly'
<1>1. /\ UNCHANGED <<issue, lease, branch, pull, pc, seen, inflight>>
      /\ Issues' = Issues /\ Tip' = Tip + 1 /\ Tip \in Nat /\ Tip >= 1
      /\ \A b \in 1..Tip : main'[b] = main[b]
      /\ main'[Tip'].frontier = main[Tip].frontier /\ main'[Tip'].issue = 0
  BY CommitMeans
<1>2. Carried /\ Watching /\ IssuesKept
  BY <1>1, Sizes DEF Carried, Like, Watching, IssuesKept
<1>3. EldersSeen' /\ RequestsFit'
  BY <1>1, <1>2, EldersStaySeen, RequestsStillFit DEF Orderly
<1>4. Foundation' /\ Elders' /\ Work'
  BY <1>1 DEF Orderly, Foundation, Founded, Untouched, Elders, Younger, Work, WorkSound
<1>5. DuplicatesDie' /\ Passed'
  BY <1>1 DEF Orderly, Merges, DuplicatesDie, Late, Dead, Passed, IsMerged
<1>6. PassedByMerge'
  <2>1. SUFFICES ASSUME NEW b \in 1..Tip, main[b].frontier # main[Tip].frontier
                 PROVE  \E m \in Issues : IsMerged(m)' /\ issue[m].frontier = main[b].frontier
    BY <1>1 DEF PassedByMerge
  <2> QED  BY <1>1, <2>1 DEF Orderly, Merges, PassedByMerge, IsMerged
<1>7. MergesOfIssues'
  BY <1>1 DEF Orderly, Merges, MergesOfIssues
<1> QED  BY <1>3, <1>4, <1>5, <1>6, <1>7 DEF Orderly, Merges

---------------------------------------------------------------------------
\* The invariant.

LEMMA InitOrderly == Init => Orderly
<1> SUFFICES ASSUME Init PROVE Orderly
  OBVIOUS
<1>1. /\ Tip = 1 /\ Issues = {1} /\ issue[1].frontier = 0 /\ issue[1].base = 0 /\ ~issue[1].open
      /\ main[1].frontier = 1 /\ main[1].issue = 0 /\ inflight = {} /\ pc = [s \in Sessions |-> "idle"]
  BY DEF Init, Tip, Issues
<1>2. \A n \in Numbers : lease[n] = "NONE" /\ branch[n].head = -1 /\ pull[n].state = "NONE"
  BY DEF Init, NoBranch, NoPull
<1>3. 1 \in Numbers
  BY ConstantsAssumption DEF Numbers
<1>4. \A n \in Numbers : Untouched(n)
  BY <1>1, <1>2 DEF Untouched
<1>5. Foundation
  BY <1>1, <1>3, <1>4 DEF Foundation, Founded
<1>6. Elders /\ EldersSeen
  BY <1>1 DEF Elders, EldersSeen, Younger
<1>7. Work /\ RequestsFit
  BY <1>1, <1>2, <1>3 DEF Work, WorkSound, RequestsFit
<1>8. Merges
  BY <1>1, <1>2, <1>3 DEF Merges, DuplicatesDie, Late, Passed, PassedByMerge, MergesOfIssues, IsMerged
<1> QED  BY <1>5, <1>6, <1>7, <1>8 DEF Orderly

LEMMA ApplyKeeps ==
  ASSUME Inductive, Orderly, FreshCheckout, NEW r \in inflight, Apply(r)
  PROVE  Orderly'
<1>1. /\ inflight' = inflight \ {r} /\ seen' = seen
      /\ pc' = IF r.late THEN pc ELSE [pc EXCEPT ![r.session] = "idle"]
  BY DEF Apply
<1>2. r \in Requests
  BY DEF Inductive, RequestTypes
<1>3. Carried
  BY <1>1 DEF Carried, Like
<1>4. Watching
  BY <1>1, <1>2 DEF Watching, Inductive, SessionTypes
<1>5. CASE Accepts(r) /\ CreateIssue(r)
  BY <1>3, <1>4, <1>5, CreateIssueKeeps
<1>6. CASE Accepts(r) /\ (ChangeLease(r) \/ CreateBranch(r) \/ PushCommit(r) \/ CreatePullRequest(r))
  BY <1>3, <1>4, <1>6, AcceptedKeeps
<1>7. CASE Accepts(r) /\ MergePullRequest(r)
  BY <1>3, <1>4, <1>7, MergeKeeps
<1>8. CASE ~Accepts(r) /\ UNCHANGED provider
  BY <1>1, <1>2, <1>8, IdleStepsKeep DEF provider, Requests
<1> QED  BY <1>5, <1>6, <1>7, <1>8, Zenon DEF Apply

LEMMA StepOrderly ==
  ASSUME FreshCheckout, OwnerKeepsLive
  PROVE  Inductive /\ Orderly /\ [Next]_vars => Orderly'
<1> SUFFICES ASSUME Inductive, Orderly, [Next]_vars PROVE Orderly'
  OBVIOUS
<1>1. ASSUME NEW s \in Sessions, Session(s) PROVE Orderly'
  BY <1>1, ReadHeadKeeps, ReadOpenKeeps, DecideKeeps DEF Session
<1>2. ASSUME NEW r \in inflight, Timeout(r) \/ Lose(r) \/ Apply(r) PROVE Orderly'
  <2>1. CASE Lose(r)
    BY <2>1, IdleStepsKeep DEF Lose, provider
  <2> QED  BY <1>2, <2>1, TimeoutKeeps, ApplyKeeps
<1>3. ASSUME NEW n \in Issues, NEW w \in Workflows, RegisterRun(n, w) \/ CompleteRun(n, w)
      PROVE  Orderly'
  <2>1. UNCHANGED <<main, issue, lease, branch, pull, pc, seen, inflight>>
    BY <1>3 DEF RegisterRun, CompleteRun
  <2> QED  BY <2>1, IdleStepsKeep
<1>4. ASSUME NEW n \in Issues, ExpireLease(n) \/ MarkIssue(n) \/ Owner(n) PROVE Orderly'
  BY <1>4, ExpireLeaseKeeps, MarksKeep, RepairBranchKeeps, CloseIssueKeeps DEF Owner
<1>5. CASE ForeignCommit \/ RepairContracts
  BY <1>5, CommitKeeps
<1>6. CASE UNCHANGED vars
  BY <1>6, IdleStepsKeep DEF vars
<1> QED  BY <1>1, <1>2, <1>3, <1>4, <1>5, <1>6, Zenon DEF Next

---------------------------------------------------------------------------
\* The refinement.

\* No step changes the frontier of an issue.
FrontiersKept == \A n \in Issues : issue'[n].frontier = issue[n].frontier

LEMMA KeptFrontiers ==
  ASSUME Inductive, [Next]_vars
  PROVE  FrontiersKept
<1>1. /\ issue \in Seq(IssueRecords) /\ Len(issue) \in Nat /\ Issues = 1..Len(issue)
      /\ \A k \in Issues : issue[k] \in IssueRecords
  BY Sizes DEF Inductive, ProviderTypes, Issues
<1>2. CASE issue' = issue
  BY <1>2 DEF FrontiersKept
<1>3. ASSUME NEW n \in Issues, MarkIssue(n) \/ RestoreMark(n) \/ CloseIssue(n) PROVE FrontiersKept
  <2>1. PICK e : issue' = [issue EXCEPT ![n] = e] /\ e.frontier = issue[n].frontier
    <3>1. CASE CloseIssue(n)
      <4>1. PICK e : e = [issue[n] EXCEPT !.open = FALSE]
        OBVIOUS
      <4>2. issue' = [issue EXCEPT ![n] = e]
        BY <1>1, <3>1, <4>1 DEF CloseIssue
      <4>3. e.frontier = issue[n].frontier
        BY <1>1, <4>1 DEF IssueRecords
      <4> QED  BY <4>2, <4>3
    <3>2. ASSUME NEW m, issue' = [issue EXCEPT ![n].mark = m]
          PROVE  \E e : issue' = [issue EXCEPT ![n] = e] /\ e.frontier = issue[n].frontier
      <4>1. PICK e : e = [issue[n] EXCEPT !.mark = m]
        OBVIOUS
      <4>2. issue' = [issue EXCEPT ![n] = e]
        BY <1>1, <3>2, <4>1
      <4>3. e.frontier = issue[n].frontier
        BY <1>1, <4>1 DEF IssueRecords
      <4> QED  BY <4>2, <4>3
    <3> QED  BY <1>3, <3>1, <3>2 DEF MarkIssue, RestoreMark
  <2> QED  BY <1>1, <2>1 DEF FrontiersKept
<1>4. ASSUME NEW r, CreateIssue(r) PROVE FrontiersKept
  <2>1. PICK e : issue' = Append(issue, e)
    BY <1>4 DEF CreateIssue
  <2> QED  BY <1>1, <2>1 DEF FrontiersKept
<1>5. ASSUME NEW s \in Sessions, Session(s) PROVE issue' = issue
  BY <1>5 DEF Session, ReadHead, ReadOpen, Decide, provider
<1>6. ASSUME NEW r \in inflight, Timeout(r) \/ Lose(r) \/ Apply(r) PROVE issue' = issue \/ CreateIssue(r)
  BY <1>6 DEF Timeout, Lose, Apply, ChangeLease, CreateBranch, PushCommit, CreatePullRequest,
              MergePullRequest, provider
<1>7. ASSUME NEW n \in Issues, NEW w \in Workflows, RegisterRun(n, w) \/ CompleteRun(n, w)
      PROVE  issue' = issue
  BY <1>7 DEF RegisterRun, CompleteRun
<1>8. ASSUME NEW n \in Issues, ExpireLease(n) \/ RepairBranch(n) PROVE issue' = issue
  BY <1>8 DEF ExpireLease, RepairBranch
<1>9. CASE ForeignCommit \/ RepairContracts
  BY <1>2, <1>9 DEF ForeignCommit, RepairContracts
<1>10. CASE UNCHANGED vars
  BY <1>2, <1>10 DEF vars
<1> QED
  BY <1>2, <1>3, <1>4, <1>5, <1>6, <1>7, <1>8, <1>9, <1>10, Zenon DEF Next, Owner

LEMMA KeptMerges ==
  ASSUME Orderly, FrontiersKept, NEW N, \A b \in 1..Tip : N[b] = main[b]
  PROVE  Extends(main, issue, N, issue', Tip)
  BY DEF Orderly, Merges, MergesOfIssues, FrontiersKept, Extends

LEMMA MainStays ==
  ASSUME Inductive, Orderly, FrontiersKept, main' = main
  PROVE  Tip' = Tip /\ MergedFrontiers(main, issue)' = MergedFrontiers(main, issue)
<1>1. Extends(main, issue, main', issue', Tip)
  BY KeptMerges
<1>2. Tip \in Nat /\ Len(main) = Tip /\ Len(main') = Tip /\ Tip' = Tip
  BY Sizes DEF Tip
<1>3. MergedFrontiers(main', issue') = MergedFrontiers(main, issue)
  BY <1>1, <1>2, MergesStay
<1>4. MergedFrontiers(main, issue)' = MergedFrontiers(main', issue')
  BY DEF MergedFrontiers
<1> QED  BY <1>2, <1>3, <1>4

LEMMA MainGrows ==
  ASSUME Inductive, Orderly, FrontiersKept, Tip' = Tip + 1, \A b \in 1..Tip : main'[b] = main[b]
  PROVE  MergedFrontiers(main, issue)' =
           IF main'[Tip'].issue = 0 THEN MergedFrontiers(main, issue)
           ELSE Append(MergedFrontiers(main, issue), issue'[main'[Tip'].issue].frontier)
<1>1. Extends(main, issue, main', issue', Tip)
  BY KeptMerges
<1>2. Tip \in Nat /\ Len(main) = Tip /\ Len(main') = Tip + 1
  BY Sizes DEF Tip
<1>3. MergedFrontiers(main', issue') =
           IF main'[Tip + 1].issue = 0 THEN MergedFrontiers(main, issue)
           ELSE Append(MergedFrontiers(main, issue), issue'[main'[Tip + 1].issue].frontier)
  BY <1>1, <1>2, MergesGrow
<1>4. MergedFrontiers(main, issue)' = MergedFrontiers(main', issue')
  BY DEF MergedFrontiers
<1> QED  BY <1>3, <1>4

\* What a step does to main.
LEMMA MainChanges ==
  ASSUME [Next]_vars
  PROVE  \/ main' = main
         \/ ForeignCommit \/ RepairContracts
         \/ \E r \in inflight : Accepts(r) /\ MergePullRequest(r)
<1>1. ASSUME NEW s \in Sessions, Session(s) PROVE main' = main
  BY <1>1 DEF Session, ReadHead, ReadOpen, Decide, provider
<1>2. ASSUME NEW r \in inflight, Timeout(r) \/ Lose(r) \/ Apply(r)
      PROVE  main' = main \/ (Accepts(r) /\ MergePullRequest(r))
  BY <1>2 DEF Timeout, Lose, Apply, CreateIssue, ChangeLease, CreateBranch, PushCommit,
              CreatePullRequest, provider
<1>3. ASSUME NEW n \in Issues, NEW w \in Workflows, RegisterRun(n, w) \/ CompleteRun(n, w)
      PROVE  main' = main
  BY <1>3 DEF RegisterRun, CompleteRun
<1>4. ASSUME NEW n \in Issues, ExpireLease(n) \/ MarkIssue(n) \/ Owner(n) PROVE main' = main
  BY <1>4 DEF ExpireLease, MarkIssue, Owner, RepairBranch, RestoreMark, CloseIssue
<1>5. UNCHANGED vars => main' = main
  BY DEF vars
<1> QED  BY <1>1, <1>2, <1>3, <1>4, <1>5, Zenon DEF Next

LEMMA InitSimulates == Init => Pipeline!Init
<1> SUFFICES ASSUME Init PROVE Pipeline!Init
  OBVIOUS
<1>1. Tip = 1 /\ Len(main) = 1 /\ main[1].frontier = 1 /\ main[1].issue = 0
  BY DEF Init, Tip
<1>2. PICK g : Counts(g, 1, main, issue) /\ MergedFrontiers(main, issue) = g[1]
  <2>1. 1 \in Nat
    OBVIOUS
  <2> QED  BY <1>1, <2>1, Counted
<1>3. \A c \in 0..1 : g[c] = IF c = 0 THEN <<>>
                            ELSE IF main[c].issue = 0 THEN g[c - 1]
                            ELSE Append(g[c - 1], issue[main[c].issue].frontier)
  BY <1>2 DEF Counts
<1> QED  BY <1>1, <1>2, <1>3 DEF Pipeline!Init

LEMMA StepSimulates ==
  ASSUME FreshCheckout
  PROVE  Inductive /\ Orderly /\ [Next]_vars => [Pipeline!Complete]_(Pipeline!vars)
<1> SUFFICES ASSUME Inductive, Orderly, [Next]_vars PROVE [Pipeline!Complete]_(Pipeline!vars)
  OBVIOUS
<1>1. FrontiersKept
  BY KeptFrontiers
<1>2. CASE main' = main
  BY <1>1, <1>2, MainStays DEF Pipeline!vars
<1>3. CASE ForeignCommit \/ RepairContracts
  BY <1>1, <1>3, CommitMeans, MainGrows DEF Pipeline!vars
<1>4. ASSUME NEW r \in inflight, Accepts(r), MergePullRequest(r)
      PROVE  Pipeline!Complete
  <2>1. PICK n, f : n = r.number /\ f = issue[n].frontier
    OBVIOUS
  <2>2. n \in Issues /\ f \in 1..LastFrontier /\ main[Tip].frontier = f
    BY <1>4, <2>1, MergeMeans
  <2>3. /\ Tip' = Tip + 1 /\ issue' = issue /\ \A b \in 1..Tip : main'[b] = main[b]
        /\ main'[Tip'].frontier = Following(f) /\ main'[Tip'].issue = n
    BY <1>4, <2>1, MergeDoes
  <2>4. n # 0 /\ f # 0
    BY <2>2, Sizes DEF Issues
  <2>5. MergedFrontiers(main, issue)' = Append(MergedFrontiers(main, issue), f)
    BY <1>1, <2>1, <2>3, <2>4, MainGrows
  <2>6. Pipeline!Following(f) = Following(f)
    BY DEF Pipeline!Following, Following
  <2> QED  BY <2>2, <2>3, <2>4, <2>5, <2>6 DEF Pipeline!Complete
<1> QED  BY <1>2, <1>3, <1>4, MainChanges

\* evaluate_continuation, plan_materialization, _validate_successor and the
\* pinned merge of execute_plan, across sessions: every frontier of the
\* pipeline is merged exactly once and in order, whatever sessions overlap,
\* requests are late, leases expire, commits come from outside or work units
\* are proposed twice -- as long as a session checks out the head it reads,
\* and the owner does not mark an open issue as done.
THEOREM KeepsOrder ==
  ASSUME FreshCheckout, OwnerKeepsLive
  PROVE  Spec => KeepsPipelineOrder
<1>1. Init => Orderly
  BY InitOrderly
<1>2. Inductive /\ Orderly /\ [Next]_vars => Orderly'
  BY StepOrderly
<1>3. Init => Pipeline!Init
  BY InitSimulates
<1>4. Inductive /\ Orderly /\ [Next]_vars => [Pipeline!Complete]_(Pipeline!vars)
  BY StepSimulates
<1> QED
  BY <1>1, <1>2, <1>3, <1>4, AlwaysInductive, PTL DEF Spec, KeepsPipelineOrder, Pipeline!Safety

=============================================================================
