--------------------------- MODULE RepoSyncProofs ---------------------------
(***************************************************************************)
(* Theorems about RepoSync, for every set of agents and runs, page size,   *)
(* batch cap and fault set.                                                *)
(***************************************************************************)
EXTENDS RepoSync, FiniteSetTheorems, TLAPS

(***************************************************************************)
(* Type correctness.                                                       *)
(***************************************************************************)

\* There are finitely many rows: runs and times are finite.
LEMMA RowsFinite == IsFiniteSet(Rows)
<1> DEFINE P == Runs \X (0..MaxClock)
           f == [p \in P |-> [run |-> p[1], at |-> p[2]]]
<1>1. IsFiniteSet(P)
  <2>1. IsFiniteSet(Runs) /\ MaxClock \in Nat
    BY RepoSyncAssumption
  <2>2. IsFiniteSet(0..MaxClock)
    BY <2>1, FS_Interval
  <2> QED BY <2>1, <2>2, FS_Product
<1>2. f \in Surjection(P, Rows)
  <2>1. f \in [P -> Rows]
    BY DEF Rows
  <2>2. ASSUME NEW x \in Rows PROVE \E p \in P : f[p] = x
    <3>1. <<x.run, x.at>> \in P
      BY DEF Rows
    <3>2. f[<<x.run, x.at>>] = x
      BY <3>1 DEF Rows
    <3> QED BY <3>1, <3>2
  <2> QED BY <2>1, <2>2 DEF Surjection
<1> QED BY <1>1, <1>2, FS_Surjection

\* The fields of an agent's walk and push have their types.
LEMMA AgentFields ==
  ASSUME AgentTypeOK, NEW a \in Agents
  PROVE  /\ push[a] \in Push /\ walk[a] \in Walk
         /\ push[a].pending \subseteq Rows /\ push[a].ends \subseteq Rows
         /\ push[a].failures \in 0..2 /\ push[a].mutexRetries \in 0..MaxMutexRetries
         /\ walk[a].floor \in Nat /\ walk[a].pageNum \in Nat \ {0}
         /\ walk[a].rows \subseteq Rows /\ walk[a].last \in BOOLEAN
         /\ walk[a].asOf \in 0..MaxClock
<1>1. push[a] \in Push /\ walk[a] \in Walk
  BY DEF AgentTypeOK
<1> QED BY <1>1 DEF Push, Walk

\* The batch being pushed is a finite set of rows.
LEMMA SliceType ==
  ASSUME AgentTypeOK, NEW a \in Agents
  PROVE  /\ Slice(a) \subseteq push[a].pending
         /\ Slice(a) \subseteq Rows
         /\ Cardinality(Slice(a)) \in Nat
<1>1. Slice(a) \subseteq push[a].pending
  BY DEF Slice
<1>2. push[a].pending \subseteq Rows
  BY AgentFields
<1>3. IsFiniteSet(Slice(a))
  BY <1>1, <1>2, RowsFinite, FS_Subset
<1> QED BY <1>1, <1>2, <1>3, FS_CardinalityType

\* The empty walk and the empty push have the types of walk and push.
LEMMA EmptyTypes ==
  /\ NoWalk \in Walk
  /\ NoPush \in Push
BY RepoSyncAssumption DEF NoWalk, NoPush, Walk, Push

\* What NextSlice assigns has its type.
LEMMA NextSliceType ==
  ASSUME AgentTypeOK, NEW a \in Agents, NextSlice(a)
  PROVE  push' \in [Agents -> Push] /\ pc' \in [Agents -> PCs]
<1> DEFINE rest == push[a].pending \ Slice(a)
<1>1. rest \subseteq Rows /\ push[a].ends \cap rest \subseteq Rows
  BY AgentFields
<1>2. [NoPush EXCEPT !.pending = rest, !.ends = push[a].ends \cap rest] \in Push
  BY <1>1, EmptyTypes DEF Push
<1>3. push' \in [Agents -> Push]
  BY <1>2 DEF NextSlice, AgentTypeOK, Push
<1>4. pc' \in [Agents -> PCs]
  BY DEF NextSlice, AgentTypeOK, PCs
<1> QED BY <1>3, <1>4

\* What Halve assigns has its type.
LEMMA HalveType ==
  ASSUME AgentTypeOK, NEW a \in Agents, Halve(a)
  PROVE  push' \in [Agents -> Push] /\ pc' \in [Agents -> PCs]
<1>1. PICK mid \in Slice(a) :
        push' = [push EXCEPT ![a] = [NoPush EXCEPT !.pending = push[a].pending,
                                                   !.ends = push[a].ends \cup {mid}]]
  BY DEF Halve
<1>2. mid \in Rows
  BY SliceType
<1>3. push[a].pending \subseteq Rows /\ push[a].ends \cup {mid} \subseteq Rows
  BY <1>2, AgentFields
<1>4. [NoPush EXCEPT !.pending = push[a].pending, !.ends = push[a].ends \cup {mid}] \in Push
  BY <1>3, EmptyTypes DEF Push
<1>5. push' \in [Agents -> Push]
  BY <1>1, <1>4 DEF AgentTypeOK, Push
<1>6. pc' \in [Agents -> PCs]
  BY DEF Halve, AgentTypeOK, PCs
<1> QED BY <1>5, <1>6

\* The steps that end a batch or a walk keep the agents' types.
LEMMA SkipPoisonType ==
  ASSUME AgentTypeOK, NEW a \in Agents, SkipPoison(a), UNCHANGED <<walk, batchCap, outcome>>
  PROVE  AgentTypeOK'
<1>1. push' \in [Agents -> Push] /\ pc' \in [Agents -> PCs]
  BY NextSliceType DEF SkipPoison
<1>2. withheld' \in [Agents -> SUBSET Rows] /\ skipped' \subseteq Rows
  BY SliceType DEF SkipPoison, AgentTypeOK
<1> QED BY <1>1, <1>2 DEF AgentTypeOK, Push

\* The end of a walk keeps the agents' types.
LEMMA EndWalkType ==
  ASSUME AgentTypeOK, NEW a \in Agents, NEW code \in Outcomes, EndWalk(a, code)
  PROVE  AgentTypeOK'
BY EmptyTypes, RepoSyncAssumption DEF EndWalk, AgentTypeOK, PCs

\* A failed attempt keeps the agents' types.
LEMMA PushFailureType ==
  ASSUME AgentTypeOK, NEW a \in Agents, PushFailure(a)
  PROVE  AgentTypeOK'
<1>1. UNCHANGED <<walk, batchCap, outcome>>
  BY DEF PushFailure
<1>2. CASE Halve(a)
  BY <1>1, <1>2, HalveType DEF Halve, AgentTypeOK, Push
<1>3. CASE SkipPoison(a)
  BY <1>1, <1>3, SkipPoisonType
<1>4. CASE /\ IF Cardinality(Slice(a)) > 1 THEN push[a].failures + 1 < 2 ELSE push[a].failures + 1 < 3
           /\ push' = [push EXCEPT ![a].failures = push[a].failures + 1]
           /\ pc' = [pc EXCEPT ![a] = "push"]
           /\ UNCHANGED <<withheld, skipped>>
  <2>1. push[a].failures + 1 \in 0..2
    BY <1>4, AgentFields
    <2>2. push' \in [Agents -> Push]
      <3>1. [push[a] EXCEPT !.failures = push[a].failures + 1] \in Push
        BY <2>1, AgentFields DEF Push
      <3> QED BY <1>4, <3>1 DEF AgentTypeOK
  <2> QED BY <1>1, <1>4, <2>1, <2>2 DEF AgentTypeOK, PCs
<1> QED BY <1>2, <1>3, <1>4 DEF PushFailure

\* A batch refused as too large keeps the agents' types.
LEMMA TooLargeType ==
  ASSUME AgentTypeOK, NEW a \in Agents, TooLarge(a)
  PROVE  AgentTypeOK'
<1>1. CASE SkipPoison(a) /\ UNCHANGED batchCap
  BY <1>1, SkipPoisonType DEF TooLarge
<1>2. CASE /\ Cardinality(Slice(a)) > 1 /\ Halve(a)
           /\ batchCap' = [batchCap EXCEPT ![a] = Cardinality(Slice(a)) \div 2]
  <2>1. Cardinality(Slice(a)) \div 2 \in Nat \ {0}
    BY <1>2, SliceType
  <2>2. batchCap' \in [Agents -> Nat \ {0}]
    BY <1>2, <2>1 DEF AgentTypeOK
  <2> QED BY <1>2, <2>2, HalveType DEF TooLarge, Halve, AgentTypeOK, Push
<1> QED BY <1>1, <1>2 DEF TooLarge

\* The pipelines GitLab lists are rows.
LEMMA ListingType ==
  ASSUME GitLabTypeOK, NEW f
  PROVE  Listing(f) \subseteq Rows
BY DEF GitLabTypeOK, Listing, Row, Rows

\* A batch that is applied keeps the server's types.
LEMMA ApplyType ==
  ASSUME ServerTypeOK, NEW req \in slot, Apply(req)
  PROVE  ServerTypeOK'
<1>1. req \in Request
  BY DEF ServerTypeOK
<1>2. ingested' \subseteq Rows
  BY <1>1 DEF Apply, ServerTypeOK, Request
<1>3. cursor' \in 0..MaxClock
  BY <1>1 DEF Apply, ServerTypeOK, Request, Rows
<1>4. due' \in BOOLEAN /\ completeTo' \in 0..MaxClock
  BY <1>1 DEF Apply, ServerTypeOK, Request
<1>5. slot' \subseteq Request
  BY DEF Apply
<1> QED BY <1>2, <1>3, <1>4, <1>5 DEF ServerTypeOK

\* Every step keeps every variable in its type.
LEMMA TypeStep ==
  ASSUME TypeOK, [Next]_vars
  PROVE  TypeOK'
<1> USE DEF TypeOK
<1>1. CASE Tick
  BY <1>1, RepoSyncAssumption DEF Tick, GitLabTypeOK, ServerTypeOK, AgentTypeOK, serverVars, agentVars
<1>2. ASSUME NEW r \in Runs, Touch(r) PROVE TypeOK'
  <2>1. GitLabTypeOK'
    BY <1>2 DEF Touch, GitLabTypeOK
  <2> QED BY <1>2, <2>1 DEF Touch, ServerTypeOK, AgentTypeOK, serverVars, agentVars
<1>3. CASE BecomeDue
  BY <1>3 DEF BecomeDue, GitLabTypeOK, ServerTypeOK, AgentTypeOK, gitlabVars, agentVars
<1>4. CASE LateIngest
  <2>1. PICK req \in slot :
          \/ Apply(req)
          \/ slot' = {} /\ UNCHANGED <<cursor, completeTo, ingested, due>>
    BY <1>4 DEF LateIngest
  <2>2. ServerTypeOK'
    BY <2>1, ApplyType DEF ServerTypeOK
  <2> QED BY <1>4, <2>2 DEF LateIngest, GitLabTypeOK, AgentTypeOK, gitlabVars, agentVars
<1>5. ASSUME NEW a \in Agents, AgentStep(a) PROVE TypeOK'
  <2>1. CASE Hello(a)
    <3>1. (IF cursor = 0 THEN Backfill ELSE cursor) \in Nat
      BY RepoSyncAssumption DEF ServerTypeOK
    <3>2. AgentTypeOK'
      <4>1. [NoWalk EXCEPT !.floor = IF cursor = 0 THEN Backfill ELSE cursor] \in Walk
        BY <3>1, EmptyTypes DEF Walk
      <4>2. walk' \in [Agents -> Walk]
        BY <2>1, <4>1 DEF Hello, AgentTypeOK
      <4> QED BY <2>1, <4>2 DEF Hello, AgentTypeOK, PCs, Outcomes
    <3> QED BY <2>1, <3>2 DEF Hello, GitLabTypeOK, ServerTypeOK, gitlabVars, serverVars
  <2>2. CASE ListPage(a)
    <3> DEFINE listing == Listing(walk[a].floor)
    <3>1. PICK earlier, items :
             LET rows == {x \in items : x.run \notin Broken}
                 last == Cardinality(items) < PerPage
             IN  /\ items \in Oldest(listing \ earlier, PerPage)
                 /\ walk' = [walk EXCEPT ![a] = [@ EXCEPT !.rows = rows, !.last = last, !.asOf = clock]]
                 /\ withheld' = [withheld EXCEPT ![a] = @ \cup (items \ rows)]
                 /\ skipped' = skipped \cup (items \ rows)
                 /\ \E ends \in Splits(rows, batchCap[a]) :
                       push' = [push EXCEPT ![a] = [NoPush EXCEPT !.pending = rows, !.ends = ends]]
                 /\ pc' = [pc EXCEPT ![a] = IF rows = {} /\ ~last THEN "next" ELSE "push"]
      BY <2>2 DEF ListPage, Parsed
    <3> DEFINE rows == {x \in items : x.run \notin Broken}
    <3>2. items \subseteq Rows
      BY <3>1, ListingType DEF Oldest
    <3>3. rows \subseteq Rows
      BY <3>2
    <3>4. PICK ends \in Splits(rows, batchCap[a]) :
             push' = [push EXCEPT ![a] = [NoPush EXCEPT !.pending = rows, !.ends = ends]]
      BY <3>1
    <3>5. ends \subseteq Rows
      BY <3>3 DEF Splits
    <3>6. push' \in [Agents -> Push]
      <4>1. [NoPush EXCEPT !.pending = rows, !.ends = ends] \in Push
        BY <3>3, <3>5, EmptyTypes DEF Push
      <4> QED BY <3>4, <4>1 DEF AgentTypeOK, Push
    <3>7. walk' \in [Agents -> Walk]
      <4>1. ASSUME NEW last \in BOOLEAN
            PROVE  [walk[a] EXCEPT !.rows = rows, !.last = last, !.asOf = clock] \in Walk
        BY <3>3, AgentFields DEF GitLabTypeOK, Walk
      <4>2. (Cardinality(items) < PerPage) \in BOOLEAN
        OBVIOUS
      <4> QED BY <3>1, <4>1, <4>2 DEF AgentTypeOK
    <3>8. withheld' \in [Agents -> SUBSET Rows] /\ skipped' \subseteq Rows
      BY <3>1, <3>2 DEF AgentTypeOK
    <3>9. pc' \in [Agents -> PCs]
      BY <3>1 DEF AgentTypeOK, PCs
    <3>10. UNCHANGED <<gitlabVars, serverVars, batchCap, outcome>>
      BY <2>2 DEF ListPage, Parsed
    <3> QED BY <3>6, <3>7, <3>8, <3>9, <3>10
        DEF AgentTypeOK, Push, GitLabTypeOK, ServerTypeOK, gitlabVars, serverVars
  <2>3. CASE ListFailed(a)
    <3>1. AgentTypeOK'
      BY <2>3, EndWalkType DEF ListFailed, Outcomes
    <3> QED BY <2>3, <3>1 DEF ListFailed, GitLabTypeOK, ServerTypeOK, gitlabVars, serverVars
  <2>4. CASE NextPage(a)
    <3>1. CASE walk[a].last
      <4>1. AgentTypeOK'
        BY <2>4, <3>1, EndWalkType DEF NextPage, Outcomes
      <4> QED BY <2>4, <4>1 DEF NextPage, GitLabTypeOK, ServerTypeOK, gitlabVars, serverVars
    <3>2. CASE ~walk[a].last
      <4>1. \E w \in Walk : walk' = [walk EXCEPT ![a] = w]
        <5>1. ASSUME NEW top \in walk[a].rows, top.at - Second > walk[a].floor,
                     NEW hi \in Newest(walk[a].rows)
              PROVE  [NoWalk EXCEPT !.floor = hi.at - Second] \in Walk
          <6>1. hi.at - Second \in Nat
            BY <5>1, RepoSyncAssumption, AgentFields DEF Newest, Rows
          <6> QED BY <6>1, EmptyTypes DEF Walk
        <5>2. [NoWalk EXCEPT !.floor = walk[a].floor, !.pageNum = walk[a].pageNum + 1] \in Walk
          <6>1. walk[a].floor \in Nat /\ walk[a].pageNum + 1 \in Nat \ {0}
            BY AgentFields
          <6> QED BY <6>1, EmptyTypes DEF Walk
        <5> QED BY <2>4, <3>2, <5>1, <5>2 DEF NextPage, FilterMoves
      <4>2. AgentTypeOK'
        BY <2>4, <3>2, <4>1 DEF NextPage, AgentTypeOK, PCs
      <4> QED BY <2>4, <4>2 DEF NextPage, GitLabTypeOK, ServerTypeOK, gitlabVars, serverVars
    <3> QED BY <3>1, <3>2
  <2>5. CASE PushRuns(a)
    <3>1. [runs |-> Slice(a), final |-> IsFinal(a), asOf |-> walk[a].asOf] \in Request
      BY SliceType, AgentFields DEF Request, IsFinal
    <3>2. ServerTypeOK'
      BY <2>5, <3>1 DEF PushRuns, ServerTypeOK
    <3> QED BY <2>5, <3>2 DEF PushRuns, AgentTypeOK, PCs, GitLabTypeOK, gitlabVars
  <2>6. CASE SyncInProgress(a)
    <3>1. AgentTypeOK'
      <4>1. CASE push[a].mutexRetries < MaxMutexRetries
        <5>1. push[a].mutexRetries + 1 \in 0..MaxMutexRetries
          BY <4>1, RepoSyncAssumption, AgentFields
        <5>2. [push[a] EXCEPT !.mutexRetries = push[a].mutexRetries + 1] \in Push
          BY <5>1, AgentFields DEF Push
        <5> QED BY <2>6, <4>1, <5>2 DEF SyncInProgress, AgentTypeOK
      <4>2. CASE ~(push[a].mutexRetries < MaxMutexRetries)
        BY <2>6, <4>2, EndWalkType DEF SyncInProgress, Outcomes
      <4> QED BY <4>1, <4>2
    <3> QED BY <2>6, <3>1 DEF SyncInProgress, GitLabTypeOK, ServerTypeOK, gitlabVars, serverVars
  <2>7. CASE Refused(a)
    <3>1. AgentTypeOK'
      BY <2>7, EndWalkType, TooLargeType DEF Refused, Outcomes
    <3> QED BY <2>7, <3>1 DEF Refused, GitLabTypeOK, ServerTypeOK, gitlabVars, serverVars
  <2>8. CASE ServerError(a)
    <3>1. AgentTypeOK'
      BY <2>8, EndWalkType, PushFailureType DEF ServerError, Outcomes
    <3> QED BY <2>8, <3>1 DEF ServerError, GitLabTypeOK, ServerTypeOK, gitlabVars
  <2>9. CASE StopWaiting(a)
    <3>1. AgentTypeOK'
      BY <2>9, EndWalkType, PushFailureType DEF StopWaiting, Outcomes
    <3> QED BY <2>9, <3>1 DEF StopWaiting, GitLabTypeOK, ServerTypeOK, gitlabVars, serverVars
  <2>10. CASE Crash(a)
    <3>1. AgentTypeOK'
      BY <2>10, EmptyTypes, RepoSyncAssumption DEF Crash, AgentTypeOK, PCs, Outcomes
    <3> QED BY <2>10, <3>1 DEF Crash, GitLabTypeOK, ServerTypeOK, gitlabVars, serverVars
  <2>11. CASE Ingest(a)
    <3>1. ServerTypeOK'
      BY <2>11, ApplyType DEF Ingest
    <3>2. AgentTypeOK'
      <4>1. CASE NextSlice(a) /\ UNCHANGED <<walk, batchCap, withheld, outcome, skipped>>
        BY <4>1, NextSliceType DEF AgentTypeOK, Push
      <4>2. CASE PushFailure(a)
        BY <4>2, PushFailureType
      <4>3. CASE EndWalk(a, "aborted")
        BY <4>3, EndWalkType DEF Outcomes
      <4> QED BY <2>11, <4>1, <4>2, <4>3 DEF Ingest
    <3> QED BY <2>11, <3>1, <3>2 DEF Ingest, GitLabTypeOK, gitlabVars
  <2> QED BY <1>5, <2>1, <2>2, <2>3, <2>4, <2>5, <2>6, <2>7, <2>8, <2>9, <2>10, <2>11
      DEF AgentStep
<1>6. CASE UNCHANGED vars
  BY <1>6 DEF vars, gitlabVars, serverVars, agentVars, GitLabTypeOK, ServerTypeOK, AgentTypeOK
<1> QED BY <1>1, <1>2, <1>3, <1>4, <1>5, <1>6 DEF Next

\* The specification is type correct, whatever the constants.
THEOREM TypeCorrect == Spec => []TypeOK
<1>1. Init => TypeOK
  BY EmptyTypes, RepoSyncAssumption
     DEF Init, TypeOK, GitLabTypeOK, ServerTypeOK, AgentTypeOK, PCs, Outcomes
<1>2. TypeOK /\ [Next]_vars => TypeOK'
  BY TypeStep
<1> QED BY <1>1, <1>2, PTL DEF Spec

(***************************************************************************)
(* The sync is gap-free.                                                   *)
(*                                                                         *)
(* The cursor follows batches that were cut from a page that was listed    *)
(* earlier, while runs went on being updated.  What makes that safe is     *)
(* that at every stage -- the floor of the filter, the rows still pending, *)
(* the request being processed, whether or not its sender is still there   *)
(* -- everything older is already accounted for or part of the same stage. *)
(* An update takes a run to the present, ahead of every such time.  Pages  *)
(* that follow each other by number rest on the list they are cut from, so *)
(* that what is safe on a GitLab that changes is the filter that moves     *)
(* with every page, and otherwise the list must be at rest.                *)
(***************************************************************************)

\* Updates are in the past, and no second holds a full page of them unless bursts
\* may happen.
EnvInv ==
    /\ \A r \in Runs : updatedAt[r] <= clock
    /\ Bursts \/ Spread(updatedAt)

\* What GitLab lists from time t on, with runs last updated at the times of f.
ListAt(f, t) == {[run |-> r, at |-> f[r]] : r \in {q \in Runs : f[q] # 0 /\ t <= f[q]}}

\* The list is at rest during a walk, and its first n pages are in done.
HasPages(f, t, n, done) ==
    /\ ~LiveUpdates
    /\ \A E \in Oldest(ListAt(f, t), n * PerPage) : E \subseteq done

\* Both watermarks are in the past and cover only what is accounted for.
ServerInv ==
    /\ cursor <= clock /\ (cursor = 0 \/ Backfill <= cursor)
    /\ completeTo <= clock
    /\ Covers(updatedAt, Accounted, cursor)
    /\ Covers(updatedAt, Accounted, completeTo)

\* What is older than a row of a request is accounted for or in the request;
\* so is, if it is final, everything older than its page.
RequestInv(req) ==
    /\ \A x \in req.runs : /\ Backfill <= x.at /\ x.at <= clock
                           /\ Covers(updatedAt, Accounted \cup req.runs, x.at)
    /\ req.asOf <= clock
    /\ req.final => Covers(updatedAt, Accounted \cup req.runs, req.asOf)

\* All is accounted for below the filter of a walk, and so are the pages of the
\* filter before the one at hand.
WalkInv(a) ==
    /\ walk[a].pageNum = 1 \/ HasPages(updatedAt, walk[a].floor, walk[a].pageNum - 1, Accounted)
    /\ Backfill <= walk[a].floor
    /\ walk[a].floor = Backfill \/ walk[a].floor <= clock
    /\ Covers(updatedAt, Accounted, walk[a].floor)

\* What is older than a row of the page is accounted for or pending; a page
\* that is not the last moves the filter, or is followed by the next page of it.
PageInv(a) ==
    /\ push[a].pending \subseteq walk[a].rows
    /\ \A x \in walk[a].rows :
          /\ Backfill <= x.at /\ x.at <= clock
          /\ Covers(updatedAt, Accounted \cup push[a].pending, x.at)
    /\ walk[a].asOf <= clock
    /\ IF walk[a].last
       THEN Covers(updatedAt, Accounted \cup push[a].pending, walk[a].asOf)
       ELSE \/ FilterMoves(a)
            \/ HasPages(updatedAt, walk[a].floor, walk[a].pageNum, Accounted \cup push[a].pending)

\* What holds of agent a.
AgentInv(a) ==
    /\ pc[a] # "idle" => WalkInv(a)
    /\ pc[a] \in {"push", "await", "next"} => PageInv(a)
    /\ pc[a] = "next" => push[a].pending = {}

\* The request being processed is the batch of the agent that waits, if one does.
AwaitInv ==
    /\ \A a \in Agents : pc[a] = "await" => \E req : slot = {req} /\ req.runs = Slice(a)
    /\ \A a, b \in Agents : (pc[a] = "await" /\ pc[b] = "await") => a = b

\* The inductive invariant.
GapFreeInv ==
    /\ EnvInv
    /\ ServerInv
    /\ \A req \in slot : RequestInv(req)
    /\ \A a \in Agents : AgentInv(a)
    /\ AwaitInv

-----------------------------------------------------------------------------

\* Coverage up to a time of the past survives updates and more rows.
LEMMA CoversGrow ==
  ASSUME NEW f \in [Runs -> Nat], NEW g \in [Runs -> Nat], NEW S, NEW T,
         NEW t \in Nat, NEW now \in Nat,
         Covers(f, S, t), S \subseteq T, t <= now,
         \A r \in Runs : g[r] = f[r] \/ now <= g[r]
  PROVE  Covers(g, T, t)
BY DEF Covers

\* Nothing in the retention window is older than the window.
LEMMA CoversBackfill ==
  ASSUME NEW f \in [Runs -> Nat], NEW S
  PROVE  Covers(f, S, Backfill)
BY RepoSyncAssumption DEF Covers

\* What every step leaves behind: time goes on, updates are at the present,
\* between walks unless they are live, and what is accounted for stays so.
Monotone ==
    /\ clock <= clock'
    /\ \A r \in Runs : updatedAt'[r] = updatedAt[r] \/ clock <= updatedAt'[r]
    /\ LiveUpdates \/ UNCHANGED updatedAt \/ \A a \in Agents : pc[a] = "idle"
    /\ Accounted \subseteq Accounted'

\* The other agents do not notice a step of agent a.
OthersSame(a) ==
    \A b \in Agents \ {a} : pc'[b] = pc[b] /\ walk'[b] = walk[b] /\ push'[b] = push[b]

\* What the types say of the variables of GitLab, of the server and of agent a.
LEMMA TypeFacts ==
  /\ TypeOK => /\ clock \in Nat /\ cursor \in Nat /\ completeTo \in Nat
               /\ updatedAt \in [Runs -> Nat]
  /\ TypeOK' => /\ clock' \in Nat /\ cursor' \in Nat /\ completeTo' \in Nat
                /\ updatedAt' \in [Runs -> Nat]
<1>1. \A n \in 0..MaxClock : n \in Nat
  BY RepoSyncAssumption
<1>2. TypeOK => /\ clock \in Nat /\ cursor \in Nat /\ completeTo \in Nat
                /\ updatedAt \in [Runs -> Nat]
  BY <1>1 DEF TypeOK, GitLabTypeOK, ServerTypeOK
<1>3. TypeOK' => /\ clock' \in Nat /\ cursor' \in Nat /\ completeTo' \in Nat
                 /\ updatedAt' \in [Runs -> Nat]
  BY <1>1 DEF TypeOK, GitLabTypeOK, ServerTypeOK
<1> QED BY <1>2, <1>3

\* Rows have natural times, requests are sets of rows.
LEMMA RowFacts ==
  /\ \A x \in Rows : x.run \in Runs /\ x.run \in Nat /\ x.at \in Nat /\ x.at <= MaxClock
  /\ \A req \in Request : req.runs \subseteq Rows /\ req.final \in BOOLEAN /\ req.asOf \in Nat
<1>1. \A n \in 0..MaxClock : n \in Nat /\ n <= MaxClock
  BY RepoSyncAssumption
<1>2. \A r \in Runs : r \in Nat
  BY RepoSyncAssumption
<1> QED BY <1>1, <1>2 DEF Rows, Request

\* Pages that are accounted for stay so for the rest of a walk.
LEMMA PagesStable ==
  ASSUME Monotone, NEW a \in Agents, pc[a] # "idle", NEW t, NEW n,
         NEW S, NEW T, S \subseteq T, HasPages(updatedAt, t, n, S)
  PROVE  HasPages(updatedAt', t, n, T)
<1>1. updatedAt' = updatedAt
  BY DEF Monotone, HasPages
<1>2. HasPages(updatedAt, t, n, T)
  BY DEF HasPages
<1> QED BY <1>1, <1>2

\* An agent whose own state a step leaves alone keeps its invariant.
LEMMA AgentStable ==
  ASSUME TypeOK, TypeOK', Monotone, NEW b \in Agents, AgentInv(b),
         pc'[b] = pc[b], walk'[b] = walk[b], push'[b] = push[b]
  PROVE  AgentInv(b)'
<1>1. /\ walk[b].floor \in Nat /\ walk[b].asOf \in Nat /\ walk[b].rows \subseteq Rows
      /\ push[b].pending \subseteq Rows
  BY AgentFields, RepoSyncAssumption DEF TypeOK
<1>2. ASSUME NEW S, NEW T, NEW t \in Nat, t <= clock, Covers(updatedAt, S, t), S \subseteq T
      PROVE  Covers(updatedAt', T, t)
  <2>1. updatedAt' \in [Runs -> Nat] /\ updatedAt \in [Runs -> Nat] /\ clock \in Nat
    BY TypeFacts
  <2> QED BY <1>2, <2>1, CoversGrow DEF Monotone
<1>3. ASSUME pc[b] # "idle" PROVE WalkInv(b)'
  <2>1. WalkInv(b)
    BY <1>3 DEF AgentInv
  <2>2. Covers(updatedAt', Accounted', walk[b].floor)
    <3>1. CASE walk[b].floor = Backfill
      BY <3>1, CoversBackfill, TypeFacts
    <3>2. CASE walk[b].floor <= clock
      BY <3>2, <2>1, <1>1, <1>2 DEF WalkInv, Monotone
    <3> QED BY <2>1, <3>1, <3>2 DEF WalkInv
  <2>3. clock <= clock' /\ clock \in Nat /\ clock' \in Nat
    BY TypeFacts DEF Monotone
  <2>4. walk[b].pageNum = 1 \/ HasPages(updatedAt', walk[b].floor, walk[b].pageNum - 1, Accounted')
    BY <1>3, <2>1, PagesStable DEF WalkInv, Monotone
  <2> QED BY <2>1, <2>2, <2>3, <2>4, <1>1 DEF WalkInv
<1>4. ASSUME pc[b] \in {"push", "await", "next"} PROVE PageInv(b)'
  <2>1. PageInv(b)
    BY <1>4 DEF AgentInv
  <2>2. clock <= clock' /\ clock \in Nat /\ clock' \in Nat
    BY TypeFacts DEF Monotone
  <2>3. Accounted \cup push[b].pending \subseteq Accounted' \cup push[b].pending
    BY DEF Monotone
  <2>4. ASSUME NEW x \in walk[b].rows
        PROVE  /\ Backfill <= x.at /\ x.at <= clock'
               /\ Covers(updatedAt', Accounted' \cup push[b].pending, x.at)
    <3>1. x.at \in Nat
      BY <1>1, RowFacts
    <3>2. Backfill <= x.at /\ x.at <= clock /\ Covers(updatedAt, Accounted \cup push[b].pending, x.at)
      BY <2>1 DEF PageInv
    <3> QED BY <1>2, <2>2, <2>3, <3>1, <3>2
  <2>5. walk[b].last => Covers(updatedAt', Accounted' \cup push[b].pending, walk[b].asOf)
    BY <1>1, <1>2, <2>1, <2>3 DEF PageInv
  <2>6. ~walk[b].last =>
           \/ FilterMoves(b)'
           \/ HasPages(updatedAt', walk[b].floor, walk[b].pageNum, Accounted' \cup push[b].pending)
    <3>1. ASSUME FilterMoves(b) PROVE FilterMoves(b)'
      BY <3>1 DEF FilterMoves
    <3>2. ASSUME HasPages(updatedAt, walk[b].floor, walk[b].pageNum, Accounted \cup push[b].pending)
          PROVE  HasPages(updatedAt', walk[b].floor, walk[b].pageNum, Accounted' \cup push[b].pending)
      BY <1>4, <2>3, <3>2, PagesStable
    <3> QED BY <2>1, <3>1, <3>2 DEF PageInv
  <2>7. walk[b].asOf <= clock'
    BY <2>1, <2>2, <1>1 DEF PageInv
  <2>8. push[b].pending \subseteq walk[b].rows
    BY <2>1 DEF PageInv
  <2> QED BY <2>4, <2>5, <2>6, <2>7, <2>8 DEF PageInv
<1> QED BY <1>3, <1>4 DEF AgentInv

\* A request keeps its invariant whatever else happens.
LEMMA RequestStable ==
  ASSUME TypeOK, TypeOK', Monotone, NEW req \in Request, RequestInv(req)
  PROVE  RequestInv(req)'
<1>1. clock <= clock' /\ clock \in Nat /\ clock' \in Nat
  BY TypeFacts DEF Monotone
<1>2. ASSUME NEW t \in Nat, t <= clock, Covers(updatedAt, Accounted \cup req.runs, t)
      PROVE  Covers(updatedAt', Accounted' \cup req.runs, t)
  <2>1. updatedAt' \in [Runs -> Nat] /\ updatedAt \in [Runs -> Nat] /\ clock \in Nat
    BY TypeFacts
  <2>2. Accounted \cup req.runs \subseteq Accounted' \cup req.runs
    BY DEF Monotone
  <2> QED BY <1>2, <2>1, <2>2, CoversGrow DEF Monotone
<1>3. \A x \in req.runs : x.at \in Nat
  BY RowFacts
<1>4. ASSUME NEW x \in req.runs
      PROVE  /\ Backfill <= x.at /\ x.at <= clock'
             /\ Covers(updatedAt', Accounted' \cup req.runs, x.at)
  <2>1. x.at \in Nat
    BY <1>3
  <2>2. Backfill <= x.at /\ x.at <= clock /\ Covers(updatedAt, Accounted \cup req.runs, x.at)
    BY DEF RequestInv
  <2> QED BY <1>1, <1>2, <2>1, <2>2
<1>5. req.asOf \in Nat /\ req.asOf <= clock
  BY RowFacts DEF RequestInv
<1>6. req.final => Covers(updatedAt', Accounted' \cup req.runs, req.asOf)
  BY <1>2, <1>5 DEF RequestInv
<1>7. req.asOf <= clock'
  BY <1>1, <1>5
<1> QED BY <1>4, <1>6, <1>7 DEF RequestInv

\* The watermarks stay covered when the server does not move them.
LEMMA ServerStable ==
  ASSUME TypeOK, TypeOK', Monotone, ServerInv, UNCHANGED <<cursor, completeTo>>
  PROVE  ServerInv'
<1>1. clock <= clock' /\ clock \in Nat /\ clock' \in Nat /\ cursor \in Nat /\ completeTo \in Nat
  BY TypeFacts DEF Monotone
<1>2. ASSUME NEW t \in Nat, t <= clock, Covers(updatedAt, Accounted, t)
      PROVE  Covers(updatedAt', Accounted', t)
  <2>1. updatedAt' \in [Runs -> Nat] /\ updatedAt \in [Runs -> Nat] /\ clock \in Nat
    BY TypeFacts
  <2> QED BY <1>2, <2>1, CoversGrow DEF Monotone
<1> QED BY <1>1, <1>2 DEF ServerInv

-----------------------------------------------------------------------------

\* The operations of an agent only add to what was skipped.
LEMMA OpsGrow ==
  ASSUME NEW a \in Agents
  PROVE  /\ NextSlice(a) /\ UNCHANGED skipped => skipped \subseteq skipped'
         /\ \A code : EndWalk(a, code) => skipped \subseteq skipped'
         /\ PushFailure(a) => skipped \subseteq skipped'
         /\ TooLarge(a) => skipped \subseteq skipped'
BY DEF EndWalk, PushFailure, TooLarge, Halve, SkipPoison

\* No step takes back what was ingested, skipped or updated.
LEMMA StepMonotone ==
  ASSUME TypeOK, [Next]_vars
  PROVE  Monotone
<1> USE DEF Monotone, Accounted
<1>0. clock \in Nat /\ updatedAt \in [Runs -> Nat]
  BY TypeFacts
<1>1. CASE Tick
  BY <1>0, <1>1 DEF Tick, serverVars, agentVars
<1>2. ASSUME NEW r \in Runs, Touch(r) PROVE Monotone
  BY <1>0, <1>2 DEF Touch, serverVars, agentVars
<1>3. CASE BecomeDue
  BY <1>0, <1>3 DEF BecomeDue, gitlabVars, agentVars
<1>4. CASE LateIngest
  BY <1>0, <1>4 DEF LateIngest, Apply, gitlabVars, agentVars
<1>5. ASSUME NEW a \in Agents, AgentStep(a) PROVE Monotone
  <2>1. UNCHANGED gitlabVars
    BY <1>5 DEF AgentStep, Hello, ListPage, ListFailed, NextPage, PushRuns, SyncInProgress,
                Refused, ServerError, StopWaiting, Crash, Ingest
  <2>2. ingested \subseteq ingested'
    BY <1>5 DEF AgentStep, Hello, ListPage, ListFailed, NextPage, PushRuns, SyncInProgress,
                Refused, ServerError, StopWaiting, Crash, Ingest, Apply, serverVars
  <2>3. skipped \subseteq skipped'
    BY <1>5, OpsGrow
       DEF AgentStep, Hello, ListPage, ListFailed, NextPage, PushRuns, SyncInProgress,
           Refused, ServerError, StopWaiting, Crash, Ingest
  <2> QED BY <1>0, <2>1, <2>2, <2>3 DEF gitlabVars
<1>6. CASE UNCHANGED vars
  BY <1>0, <1>6 DEF vars, gitlabVars, serverVars, agentVars
<1> QED BY <1>1, <1>2, <1>3, <1>4, <1>5, <1>6 DEF Next

\* An agent that goes on with the same page and walk keeps its invariant, if
\* what is no longer pending has been accounted for.
LEMMA PageStable ==
  ASSUME TypeOK, TypeOK', Monotone, NEW a \in Agents, AgentInv(a),
         pc[a] \in {"push", "await"}, pc'[a] \in {"push", "await", "next"}, walk'[a] = walk[a],
         push'[a].pending \subseteq push[a].pending,
         push[a].pending \subseteq Accounted' \cup push'[a].pending,
         pc'[a] = "next" => push'[a].pending = {}
  PROVE  AgentInv(a)'
<1>1. /\ walk[a].floor \in Nat /\ walk[a].asOf \in Nat /\ walk[a].rows \subseteq Rows
  BY AgentFields, RepoSyncAssumption DEF TypeOK
<1>2. ASSUME NEW S, NEW T, NEW t \in Nat, t <= clock, Covers(updatedAt, S, t), S \subseteq T
      PROVE  Covers(updatedAt', T, t)
  <2>1. updatedAt' \in [Runs -> Nat] /\ updatedAt \in [Runs -> Nat] /\ clock \in Nat
    BY TypeFacts
  <2> QED BY <1>2, <2>1, CoversGrow DEF Monotone
<1>3. WalkInv(a) /\ PageInv(a)
  BY DEF AgentInv
<1>4. clock <= clock' /\ clock \in Nat /\ clock' \in Nat
  BY TypeFacts DEF Monotone
<1>5. WalkInv(a)'
  <2>1. Covers(updatedAt', Accounted', walk[a].floor)
    <3>1. CASE walk[a].floor = Backfill
      BY <3>1, CoversBackfill, TypeFacts
    <3>2. CASE walk[a].floor <= clock
      BY <3>2, <1>1, <1>2, <1>3 DEF WalkInv, Monotone
    <3> QED BY <1>3, <3>1, <3>2 DEF WalkInv
  <2>2. walk[a].pageNum = 1 \/ HasPages(updatedAt', walk[a].floor, walk[a].pageNum - 1, Accounted')
    BY <1>3, PagesStable DEF WalkInv, Monotone
  <2> QED BY <2>1, <2>2, <1>1, <1>3, <1>4 DEF WalkInv
<1>6. PageInv(a)'
  <2>1. Accounted \cup push[a].pending \subseteq Accounted' \cup push'[a].pending
    BY DEF Monotone
  <2>2. ASSUME NEW x \in walk[a].rows
        PROVE  /\ Backfill <= x.at /\ x.at <= clock'
               /\ Covers(updatedAt', Accounted' \cup push'[a].pending, x.at)
    <3>1. x.at \in Nat
      BY <1>1, RowFacts
    <3>2. Backfill <= x.at /\ x.at <= clock /\ Covers(updatedAt, Accounted \cup push[a].pending, x.at)
      BY <1>3 DEF PageInv
    <3> QED BY <1>2, <1>4, <2>1, <3>1, <3>2
  <2>3. walk[a].last => Covers(updatedAt', Accounted' \cup push'[a].pending, walk[a].asOf)
    BY <1>1, <1>2, <1>3, <2>1 DEF PageInv
  <2>4. ~walk[a].last =>
           \/ FilterMoves(a)'
           \/ HasPages(updatedAt', walk[a].floor, walk[a].pageNum, Accounted' \cup push'[a].pending)
    <3>1. ASSUME FilterMoves(a) PROVE FilterMoves(a)'
      BY <3>1 DEF FilterMoves
    <3>2. ASSUME HasPages(updatedAt, walk[a].floor, walk[a].pageNum, Accounted \cup push[a].pending)
          PROVE  HasPages(updatedAt', walk[a].floor, walk[a].pageNum, Accounted' \cup push'[a].pending)
      BY <2>1, <3>2, PagesStable
    <3> QED BY <1>3, <3>1, <3>2 DEF PageInv
  <2>5. walk[a].asOf <= clock'
    BY <1>1, <1>3, <1>4 DEF PageInv
  <2>6. push'[a].pending \subseteq walk[a].rows
    BY <1>3 DEF PageInv
  <2> QED BY <2>2, <2>3, <2>4, <2>5, <2>6 DEF PageInv
<1> QED BY <1>5, <1>6 DEF AgentInv

\* A batch that was delivered, or given up, leaves the rest of the page.
LEMMA NextSliceInv ==
  ASSUME TypeOK, TypeOK', Monotone, NEW a \in Agents, AgentInv(a),
         pc[a] \in {"push", "await"}, NextSlice(a), UNCHANGED walk, Slice(a) \subseteq Accounted'
  PROVE  AgentInv(a)' /\ pc'[a] # "await" /\ OthersSame(a)
<1> DEFINE rest == push[a].pending \ Slice(a)
<1>1. push'[a].pending = rest
  <2>1. push' = [push EXCEPT ![a] = [NoPush EXCEPT !.pending = rest, !.ends = push[a].ends \cap rest]]
    BY DEF NextSlice
  <2>2. [NoPush EXCEPT !.pending = rest, !.ends = push[a].ends \cap rest].pending = rest
    BY DEF NoPush
  <2> QED BY <2>1, <2>2 DEF TypeOK, AgentTypeOK
<1>2. pc'[a] = IF rest = {} THEN "next" ELSE "push"
  BY DEF NextSlice, TypeOK, AgentTypeOK
<1>3. OthersSame(a)
  BY DEF NextSlice, OthersSame, TypeOK, AgentTypeOK
<1>4. AgentInv(a)'
  BY <1>1, <1>2, PageStable
<1> QED BY <1>2, <1>3, <1>4

\* Halving a batch leaves the page as it was, cut at one more row.
LEMMA HalveInv ==
  ASSUME TypeOK, TypeOK', Monotone, NEW a \in Agents, AgentInv(a),
         pc[a] \in {"push", "await"}, Halve(a), UNCHANGED walk
  PROVE  AgentInv(a)' /\ pc'[a] # "await" /\ OthersSame(a)
<1>1. push'[a].pending = push[a].pending
  <2>1. PICK mid : push' = [push EXCEPT ![a] = [NoPush EXCEPT !.pending = push[a].pending,
                                                              !.ends = push[a].ends \cup {mid}]]
    BY DEF Halve
  <2>2. [NoPush EXCEPT !.pending = push[a].pending,
                       !.ends = push[a].ends \cup {mid}].pending = push[a].pending
    BY DEF NoPush
  <2> QED BY <2>1, <2>2 DEF TypeOK, AgentTypeOK
<1>2. pc'[a] = "push"
  BY DEF Halve, TypeOK, AgentTypeOK
<1>3. OthersSame(a)
  BY DEF Halve, OthersSame, TypeOK, AgentTypeOK
<1>4. AgentInv(a)'
  BY <1>1, <1>2, PageStable
<1> QED BY <1>2, <1>3, <1>4

\* A batch that is given up is accounted for as skipped.
LEMMA SkipPoisonInv ==
  ASSUME TypeOK, TypeOK', Monotone, NEW a \in Agents, AgentInv(a),
         pc[a] \in {"push", "await"}, SkipPoison(a), UNCHANGED walk
  PROVE  AgentInv(a)' /\ pc'[a] # "await" /\ OthersSame(a)
<1>1. Slice(a) \subseteq Accounted'
  BY DEF SkipPoison, Accounted
<1> QED BY <1>1, NextSliceInv DEF SkipPoison

\* At the end of a walk there is nothing left to say of it.
LEMMA EndWalkInv ==
  ASSUME TypeOK, NEW a \in Agents, NEW code, EndWalk(a, code)
  PROVE  AgentInv(a)' /\ pc'[a] # "await" /\ OthersSame(a)
<1>1. pc'[a] = "idle"
  BY DEF EndWalk, TypeOK, AgentTypeOK
<1>2. OthersSame(a)
  BY DEF EndWalk, OthersSame, TypeOK, AgentTypeOK
<1> QED BY <1>1, <1>2 DEF AgentInv

\* A failed attempt loses no row of the page.
LEMMA PushFailureInv ==
  ASSUME TypeOK, TypeOK', Monotone, NEW a \in Agents, AgentInv(a),
         pc[a] \in {"push", "await"}, PushFailure(a)
  PROVE  AgentInv(a)' /\ pc'[a] # "await" /\ OthersSame(a)
<1>1. UNCHANGED walk
  BY DEF PushFailure
<1>2. CASE Halve(a)
  BY <1>1, <1>2, HalveInv
<1>3. CASE SkipPoison(a)
  BY <1>1, <1>3, SkipPoisonInv
<1>4. CASE /\ push' = [push EXCEPT ![a].failures = push[a].failures + 1]
           /\ pc' = [pc EXCEPT ![a] = "push"]
  <2>1. push'[a].pending = push[a].pending
    BY <1>4, AgentFields DEF TypeOK, AgentTypeOK, Push
  <2>2. pc'[a] = "push"
    BY <1>4 DEF TypeOK, AgentTypeOK
  <2>3. OthersSame(a)
    BY <1>1, <1>4 DEF OthersSame, TypeOK, AgentTypeOK
  <2>4. AgentInv(a)'
    BY <1>1, <2>1, <2>2, PageStable
  <2> QED BY <2>2, <2>3, <2>4
<1> QED BY <1>2, <1>3, <1>4 DEF PushFailure

\* A batch refused as too large loses no row of the page.
LEMMA TooLargeInv ==
  ASSUME TypeOK, TypeOK', Monotone, NEW a \in Agents, AgentInv(a),
         pc[a] \in {"push", "await"}, TooLarge(a)
  PROVE  AgentInv(a)' /\ pc'[a] # "await" /\ OthersSame(a)
BY HalveInv, SkipPoisonInv DEF TooLarge

-----------------------------------------------------------------------------

\* The batch being pushed is the oldest part of what is pending.
LEMMA SliceOlder ==
  ASSUME TypeOK, NEW a \in Agents, NEW x \in Slice(a), NEW y \in push[a].pending, y.at < x.at
  PROVE  y \in Slice(a)
<1>1. push[a].pending \subseteq Rows /\ push[a].ends \subseteq Rows /\ x \in push[a].pending
  BY AgentFields, SliceType DEF TypeOK
<1>2. ASSUME NEW e \in push[a].ends, Before(e, y) PROVE Before(e, x)
  BY <1>1, <1>2, RowFacts DEF Before
<1> QED BY <1>1, <1>2 DEF Slice

\* GitLab's order leaves no choice of the oldest n rows.
LEMMA OldestUnique ==
  ASSUME NEW S \in SUBSET Rows, NEW n, NEW T \in Oldest(S, n), NEW U \in Oldest(S, n)
  PROVE  T = U
<1>1. /\ T \subseteq S /\ U \subseteq S
      /\ \A x \in T, y \in S : Before(y, x) => y \in T
      /\ \A x \in U, y \in S : Before(y, x) => y \in U
      /\ Cardinality(T) = Cardinality(U)
  BY DEF Oldest
<1>2. IsFiniteSet(T) /\ IsFiniteSet(U)
  BY <1>1, RowsFinite, FS_Subset
<1>3. T \subseteq U \/ U \subseteq T
  <2> SUFFICES ASSUME NEW x \in T \ U, NEW y \in U \ T PROVE FALSE
    OBVIOUS
  <2>1. x \in Rows /\ y \in Rows /\ x # y
    BY <1>1
  <2>2. x.run # y.run \/ x.at # y.at
    BY <2>1 DEF Rows
  <2>3. Before(x, y) \/ Before(y, x)
    BY <2>1, <2>2, RowFacts DEF Before
  <2> QED BY <1>1, <2>3
<1> QED BY <1>1, <1>2, <1>3, FS_Subset

\* The pages of a filter are parts of it, and there is nothing before page one.
LEMMA PageOfFilter ==
  ASSUME NEW L \in SUBSET Rows, NEW n \in Nat, NEW earlier \in Oldest(L, n),
         NEW items \in Oldest(L \ earlier, PerPage)
  PROVE  /\ earlier \subseteq L /\ items \subseteq L
         /\ n = 0 => earlier = {}
<1>1. earlier \subseteq L /\ items \subseteq L \ earlier
  BY DEF Oldest
<1>2. Cardinality(earlier) = IF Cardinality(L) < n THEN Cardinality(L) ELSE n
  BY DEF Oldest
<1>3. IsFiniteSet(L) /\ IsFiniteSet(earlier)
  BY <1>1, RowsFinite, FS_Subset
<1>4. Cardinality(L) \in Nat
  BY <1>3, FS_CardinalityType
<1>5. n = 0 => earlier = {}
  BY <1>2, <1>3, <1>4, FS_EmptySet
<1> QED BY <1>1, <1>5

\* A row older than a row of a page is on that page or on one before it.
LEMMA PagesInOrder ==
  ASSUME NEW L \in SUBSET Rows, NEW n \in Nat, NEW earlier \in Oldest(L, n),
         NEW items \in Oldest(L \ earlier, PerPage),
         NEW x \in items, NEW y \in L, y.at < x.at
  PROVE  y \in earlier \cup items
<1>1. \A v \in items, z \in L \ earlier : Before(z, v) => z \in items
  BY DEF Oldest
<1> QED BY <1>1 DEF Before

\* A page that is not full is the last: it holds all that the earlier ones leave.
LEMMA LastPageEnds ==
  ASSUME NEW L \in SUBSET Rows, NEW n \in Nat, NEW earlier \in Oldest(L, n),
         NEW items \in Oldest(L \ earlier, PerPage), Cardinality(items) < PerPage
  PROVE  earlier \cup items = L
<1> DEFINE rest == L \ earlier
<1>1. earlier \subseteq L /\ items \subseteq rest
  BY DEF Oldest
<1>2. Cardinality(items) = IF Cardinality(rest) < PerPage THEN Cardinality(rest) ELSE PerPage
  BY DEF Oldest
<1>3. IsFiniteSet(rest)
  BY RowsFinite, FS_Subset
<1>4. Cardinality(rest) \in Nat
  BY <1>3, FS_CardinalityType
<1>5. Cardinality(items) = Cardinality(rest)
  BY <1>2, <1>4, RepoSyncAssumption
<1>6. items = rest
  BY <1>1, <1>3, <1>5, FS_Subset
<1> QED BY <1>1, <1>6

\* A full page makes, with the pages before it, the oldest rows of the filter.
LEMMA PagesAddUp ==
  ASSUME NEW L \in SUBSET Rows, NEW n \in Nat, NEW earlier \in Oldest(L, n),
         NEW items \in Oldest(L \ earlier, PerPage), ~(Cardinality(items) < PerPage)
  PROVE  /\ Cardinality(items) = PerPage
         /\ earlier \cup items \in Oldest(L, n + PerPage)
<1> DEFINE rest == L \ earlier
<1>1. earlier \subseteq L /\ items \subseteq rest
  BY DEF Oldest
<1>2. /\ \A x \in earlier, y \in L : Before(y, x) => y \in earlier
      /\ \A x \in items, y \in rest : Before(y, x) => y \in items
  BY DEF Oldest
<1>3. /\ Cardinality(earlier) = IF Cardinality(L) < n THEN Cardinality(L) ELSE n
      /\ Cardinality(items) = IF Cardinality(rest) < PerPage THEN Cardinality(rest) ELSE PerPage
  BY DEF Oldest
<1>4. IsFiniteSet(L) /\ IsFiniteSet(rest) /\ IsFiniteSet(earlier) /\ IsFiniteSet(items)
  BY <1>1, RowsFinite, FS_Subset
<1>5. Cardinality(L) \in Nat /\ Cardinality(rest) \in Nat /\ PerPage \in Nat \ {0}
  BY <1>4, FS_CardinalityType, RepoSyncAssumption
<1>6. Cardinality(items) = PerPage
  BY <1>3, <1>5
<1>7. Cardinality(earlier) = n
  <2>1. CASE Cardinality(L) < n
    <3>1. earlier = L
      BY <1>1, <1>3, <1>4, <2>1, FS_Subset
    <3>2. items = {}
      BY <1>1, <3>1
    <3> QED BY <1>5, <1>6, <3>2, FS_EmptySet
  <2>2. CASE ~(Cardinality(L) < n)
    BY <1>3, <2>2
  <2> QED BY <2>1, <2>2
<1>8. Cardinality(earlier \cup items) = n + PerPage
  <2>1. earlier \cap items = {}
    BY <1>1
  <2>2. Cardinality(earlier \cup items) =
          Cardinality(earlier) + Cardinality(items) - Cardinality(earlier \cap items)
    BY <1>4, FS_Union
  <2>3. Cardinality(earlier \cap items) = 0
    BY <2>1, FS_EmptySet
  <2> QED BY <1>5, <1>6, <1>7, <2>2, <2>3
<1>9. earlier \cup items \subseteq L
  BY <1>1
<1>10. ~(Cardinality(L) < n + PerPage)
  <2>1. Cardinality(earlier \cup items) <= Cardinality(L)
    BY <1>4, <1>9, FS_Subset
  <2> QED BY <1>5, <1>8, <2>1
<1>11. ASSUME NEW x \in earlier \cup items, NEW y \in L, Before(y, x)
       PROVE  y \in earlier \cup items
  BY <1>2, <1>11
<1> QED BY <1>6, <1>8, <1>9, <1>10, <1>11 DEF Oldest

\* A full page of parseable rows does not fit into a second.
LEMMA FullPageSpreads ==
  ASSUME TypeOK, Spread(updatedAt), NEW f, NEW items \in SUBSET Listing(f),
         Cardinality(items) = PerPage, NEW t \in 1..MaxClock
  PROVE  \E x \in items : x.run \notin Broken /\ x.at \notin t..t + Second
<1> DEFINE W == {r \in Runs : r \in Broken \/ updatedAt[r] \in t..t + Second}
<1>1. SUFFICES ASSUME \A x \in items : x.run \in Broken \/ x.at \in t..t + Second
               PROVE  FALSE
  OBVIOUS
<1>2. \A x \in items : x.run \in Runs /\ x = Row(x.run) /\ x.at = updatedAt[x.run]
  BY DEF Listing, Row
<1>3. Cardinality(W) < PerPage
  BY DEF Spread
<1>4. IsFiniteSet(W)
  BY RepoSyncAssumption, FS_Subset
<1>5. [x \in items |-> x.run] \in Injection(items, W)
  <2>1. \A x \in items : x.run \in W
    BY <1>1, <1>2
  <2>2. \A x, y \in items : x.run = y.run => x = y
    BY <1>2
  <2> QED BY <2>1, <2>2 DEF Injection, IsInjective
<1>6. Cardinality(items) <= Cardinality(W)
  BY <1>4, <1>5, FS_Injection
<1>7. Cardinality(W) \in Nat
  BY <1>4, FS_CardinalityType
<1> QED BY <1>3, <1>6, <1>7, RepoSyncAssumption

\* So a full page moves the filter.
LEMMA FullPageMoves ==
  ASSUME TypeOK, Spread(updatedAt), NEW f \in Nat, Backfill <= f, NEW items \in SUBSET Listing(f),
         Cardinality(items) = PerPage
  PROVE  /\ \E lo, hi \in items : lo.run \notin Broken /\ hi.run \notin Broken /\ lo.at < hi.at
         /\ \E hi \in items : hi.run \notin Broken /\ hi.at - Second > f
<1>0. items \subseteq Rows /\ \A x \in items : f <= x.at
  BY ListingType DEF TypeOK, Listing, Row
<1>1. \A x \in items : x.at \in Nat /\ x.at <= MaxClock /\ f <= x.at
  BY <1>0, RowFacts
<1>2. PICK z \in items : TRUE
  <2>1. Cardinality({}) = 0 /\ PerPage # 0
    BY FS_EmptySet, RepoSyncAssumption
  <2>2. items # {}
    BY <2>1
  <2> QED BY <2>2
<1>3. Backfill \in Nat \ {0} /\ MaxClock \in Nat /\ Second \in Nat \ {0}
  BY RepoSyncAssumption
<1>4. f \in 1..MaxClock
  BY <1>1, <1>2, <1>3
<1>5. PICK x \in items : x.run \notin Broken /\ x.at \notin f..f + Second
  BY <1>4, FullPageSpreads
<1>6. x.at - Second > f
  BY <1>1, <1>3, <1>5
<1>7. x.at \in 1..MaxClock
  BY <1>1, <1>3, <1>6
<1>8. PICK y \in items : y.run \notin Broken /\ y.at \notin x.at..x.at + Second
  BY <1>7, FullPageSpreads
<1>9. y.at < x.at \/ x.at < y.at
  BY <1>1, <1>3, <1>8
<1> QED BY <1>5, <1>6, <1>8, <1>9

-----------------------------------------------------------------------------

\* A walk starts where everything is accounted for.
LEMMA HelloInv ==
  ASSUME TypeOK, GapFreeInv, NEW a \in Agents, Hello(a)
  PROVE  AgentInv(a)' /\ pc'[a] # "await" /\ OthersSame(a)
<1>1. OthersSame(a)
  BY DEF Hello, OthersSame, TypeOK, AgentTypeOK
<1>2. CASE due
  <2> DEFINE start == IF cursor = 0 THEN Backfill ELSE cursor
  <2>1. pc'[a] = "list" /\ walk'[a] = [NoWalk EXCEPT !.floor = start]
    BY <1>2 DEF Hello, TypeOK, AgentTypeOK
  <2>2. walk'[a].floor = start /\ walk'[a].pageNum = 1
    BY <2>1 DEF NoWalk
  <2>3. Backfill <= start /\ (start = Backfill \/ start <= clock)
    BY RepoSyncAssumption DEF GapFreeInv, ServerInv
  <2>4. Covers(updatedAt, Accounted, start)
    BY CoversBackfill, TypeFacts DEF GapFreeInv, ServerInv
  <2>5. UNCHANGED <<clock, updatedAt, Accounted>>
    BY DEF Hello, gitlabVars, serverVars, Accounted
  <2>7. WalkInv(a)'
    BY <2>2, <2>3, <2>4, <2>5 DEF WalkInv
  <2> QED BY <1>1, <2>1, <2>7 DEF AgentInv
<1>3. CASE ~due
  <2>1. pc'[a] = "idle"
    BY <1>3 DEF Hello
  <2> QED BY <1>1, <2>1 DEF AgentInv
<1> QED BY <1>2, <1>3

\* A page: everything older than one of its rows is accounted for or on it.
LEMMA ListPageInv ==
  ASSUME ~Bursts \/ ~LiveUpdates, TypeOK, GapFreeInv, NEW a \in Agents, ListPage(a)
  PROVE  AgentInv(a)' /\ pc'[a] # "await" /\ OthersSame(a)
<1> DEFINE listing == Listing(walk[a].floor)
<1>1. WalkInv(a) /\ EnvInv
  BY DEF ListPage, Parsed, GapFreeInv, AgentInv
<1>2. PICK earlier, items :
             LET rows == {x \in items : x.run \notin Broken}
                 last == Cardinality(items) < PerPage
             IN  /\ earlier \in Oldest(listing, (walk[a].pageNum - 1) * PerPage)
                 /\ items \in Oldest(listing \ earlier, PerPage)
                 /\ walk' = [walk EXCEPT ![a] = [@ EXCEPT !.rows = rows, !.last = last, !.asOf = clock]]
                 /\ skipped' = skipped \cup (items \ rows)
                 /\ \E ends \in Splits(rows, batchCap[a]) :
                       push' = [push EXCEPT ![a] = [NoPush EXCEPT !.pending = rows, !.ends = ends]]
                 /\ pc' = [pc EXCEPT ![a] = IF rows = {} /\ ~last THEN "next" ELSE "push"]
  BY DEF ListPage, Parsed
<1> DEFINE rows == {x \in items : x.run \notin Broken}
           last == Cardinality(items) < PerPage
<1> DEFINE n == (walk[a].pageNum - 1) * PerPage
<1>3. n \in Nat /\ n + PerPage = walk[a].pageNum * PerPage /\ (walk[a].pageNum = 1 => n = 0)
  <2>1. walk[a].pageNum - 1 \in Nat /\ walk[a].pageNum \in Nat /\ PerPage \in Nat
    BY AgentFields, RepoSyncAssumption DEF TypeOK
  <2>2. \A k, p \in Nat : k * p \in Nat /\ k * p + p = (k + 1) * p /\ 0 * p = 0
    OBVIOUS
  <2> QED BY <2>1, <2>2
<1> HIDE DEF n
<1>4. earlier \in Oldest(listing, n) /\ items \in Oldest(listing \ earlier, PerPage)
  BY <1>2 DEF n
<1>5. /\ items \subseteq listing
      /\ n = 0 => earlier = {}
      /\ \A x \in items, y \in listing : y.at < x.at => y \in earlier \cup items
      /\ last => earlier \cup items = listing
      /\ ~last => /\ Cardinality(items) = PerPage
                  /\ earlier \cup items \in Oldest(listing, n + PerPage)
  <2>1. listing \in SUBSET Rows
    BY ListingType DEF TypeOK
  <2> HIDE DEF listing, rows
  <2>2. items \subseteq listing /\ (n = 0 => earlier = {})
    BY <1>3, <1>4, <2>1, PageOfFilter
  <2>3. ASSUME NEW x \in items, NEW y \in listing, y.at < x.at PROVE y \in earlier \cup items
    BY <1>3, <1>4, <2>1, <2>3, PagesInOrder
  <2>4. last => earlier \cup items = listing
    BY <1>3, <1>4, <2>1, LastPageEnds
  <2>5. ~last => /\ Cardinality(items) = PerPage
                 /\ earlier \cup items \in Oldest(listing, n + PerPage)
    BY <1>3, <1>4, <2>1, PagesAddUp
  <2> QED BY <2>2, <2>3, <2>4, <2>5
<1>6. listing = ListAt(updatedAt, walk[a].floor)
  BY DEF Listing, Row, ListAt
<1>7. earlier \subseteq Accounted
  BY <1>1, <1>3, <1>4, <1>5, <1>6 DEF WalkInv, HasPages, n
<1>8. UNCHANGED <<clock, updatedAt, ingested>>
  BY DEF ListPage, Parsed, gitlabVars, serverVars
<1>9. /\ walk'[a].floor = walk[a].floor /\ walk'[a].pageNum = walk[a].pageNum
      /\ walk'[a].rows = rows /\ walk'[a].last = last /\ walk'[a].asOf = clock
  <2>1. walk'[a] = [walk[a] EXCEPT !.rows = rows, !.last = last, !.asOf = clock]
    BY <1>2 DEF TypeOK, AgentTypeOK
  <2>2. walk[a] \in Walk
    BY AgentFields DEF TypeOK
  <2> QED BY <2>1, <2>2 DEF Walk
<1>10. push'[a].pending = rows
  <2>1. PICK ends : push' = [push EXCEPT ![a] = [NoPush EXCEPT !.pending = rows, !.ends = ends]]
    BY <1>2
  <2>2. [NoPush EXCEPT !.pending = rows, !.ends = ends].pending = rows
    BY DEF NoPush
  <2> QED BY <2>1, <2>2 DEF TypeOK, AgentTypeOK
<1>11. pc'[a] \in {"push", "next"} /\ (pc'[a] = "next" => rows = {})
  BY <1>2 DEF TypeOK, AgentTypeOK
<1>12. OthersSame(a)
  <2>1. \E w, p, c : /\ walk' = [walk EXCEPT ![a] = w] /\ push' = [push EXCEPT ![a] = p]
                     /\ pc' = [pc EXCEPT ![a] = c]
    BY <1>2
  <2> QED BY <2>1 DEF OthersSame, TypeOK, AgentTypeOK
<1>13. Accounted' \cup rows = Accounted \cup items
  BY <1>2, <1>8 DEF Accounted
<1>14. /\ clock \in Nat /\ updatedAt \in [Runs -> Nat] /\ walk[a].floor \in Nat
       /\ Backfill \in Nat \ {0} /\ PerPage \in Nat \ {0}
  BY TypeFacts, AgentFields, RepoSyncAssumption DEF TypeOK
<1>15. ASSUME NEW r \in Runs, Backfill <= updatedAt[r],
              Row(r) \in listing => Row(r) \in earlier \cup items
       PROVE  Row(r) \in Accounted \cup items
  <2>1. CASE updatedAt[r] < walk[a].floor
    BY <1>1, <1>15, <2>1 DEF WalkInv, Covers, Row
  <2>2. CASE walk[a].floor <= updatedAt[r]
    <3>1. Row(r) \in listing
      BY <1>14, <1>15, <2>2 DEF Listing
    <3> QED BY <1>15, <1>7, <3>1
  <2> QED BY <1>14, <2>1, <2>2
<1>16. ASSUME NEW x \in rows
       PROVE  /\ Backfill <= x.at /\ x.at <= clock
              /\ Covers(updatedAt, Accounted \cup items, x.at)
  <2>1. x.at \in Nat /\ walk[a].floor <= x.at /\ x.at <= clock
    BY <1>1, <1>5, <1>14 DEF Listing, Row, EnvInv
  <2>2. ASSUME NEW r \in Runs, Backfill <= updatedAt[r], updatedAt[r] < x.at
        PROVE  Row(r) \in Accounted \cup items
    <3>1. Row(r) \in listing => Row(r) \in earlier \cup items
      BY <1>5, <2>2 DEF Row
    <3> QED BY <1>15, <2>2, <3>1
  <2> QED BY <1>1, <1>14, <2>1, <2>2 DEF WalkInv, Covers, Row
<1>17. last => Covers(updatedAt, Accounted \cup items, clock)
  BY <1>5, <1>15 DEF Covers, Row
<1>18. ~last => \/ FilterMoves(a)'
                \/ HasPages(updatedAt, walk[a].floor, walk[a].pageNum, Accounted \cup items)
  <2>1. CASE LiveUpdates
    <3>1. Spread(updatedAt)
      BY <1>1, <2>1 DEF EnvInv
    <3>2. ASSUME ~last
          PROVE  /\ \E lo, hi \in rows : lo.at < hi.at
                 /\ \E hi \in rows : hi.at - Second > walk[a].floor
      BY <1>1, <1>5, <1>14, <3>1, <3>2, FullPageMoves DEF WalkInv
    <3> QED BY <1>9, <3>2 DEF FilterMoves
  <2>2. CASE ~LiveUpdates
    <3>1. ASSUME ~last, NEW E \in Oldest(listing, n + PerPage)
          PROVE  E \subseteq Accounted \cup items
      <4>1. listing \in SUBSET Rows
        BY ListingType DEF TypeOK
      <4>2. E = earlier \cup items
        BY <1>5, <3>1, <4>1, OldestUnique
      <4> QED BY <1>7, <4>2
    <3> QED BY <1>3, <1>6, <2>2, <3>1 DEF HasPages
  <2> QED BY <2>1, <2>2
<1>19. WalkInv(a)'
  <2>1. Covers(updatedAt, Accounted', walk[a].floor)
    BY <1>1, <1>2, <1>8 DEF WalkInv, Covers, Accounted
  <2>2. walk[a].pageNum = 1 \/ HasPages(updatedAt, walk[a].floor, walk[a].pageNum - 1, Accounted')
    BY <1>1, <1>2, <1>8 DEF WalkInv, HasPages, Accounted
  <2> QED BY <1>1, <1>8, <1>9, <2>1, <2>2 DEF WalkInv
<1>20. PageInv(a)'
  <2>1. push'[a].pending \subseteq walk'[a].rows
    BY <1>9, <1>10
  <2>2. Accounted' \cup push'[a].pending = Accounted \cup items
    BY <1>10, <1>13
  <2>3. \A x \in walk'[a].rows :
           /\ Backfill <= x.at /\ x.at <= clock'
           /\ Covers(updatedAt', Accounted' \cup push'[a].pending, x.at)
    BY <1>8, <1>9, <1>16, <2>2
  <2>4. walk'[a].asOf <= clock'
    BY <1>8, <1>9, <1>14
  <2>5. IF walk'[a].last
        THEN Covers(updatedAt', Accounted' \cup push'[a].pending, walk'[a].asOf)
        ELSE \/ FilterMoves(a)'
             \/ HasPages(updatedAt', walk'[a].floor, walk'[a].pageNum, Accounted' \cup push'[a].pending)
    BY <1>8, <1>9, <1>17, <1>18, <2>2
  <2> QED BY <2>1, <2>3, <2>4, <2>5 DEF PageInv
<1> QED BY <1>10, <1>11, <1>12, <1>19, <1>20 DEF AgentInv

\* The next filter starts within the rows of the page, all accounted for; or the
\* next page of the same filter follows, with all before it accounted for.
LEMMA NextPageInv ==
  ASSUME TypeOK, GapFreeInv, NEW a \in Agents, NextPage(a)
  PROVE  AgentInv(a)' /\ pc'[a] # "await" /\ OthersSame(a)
<1>1. CASE walk[a].last
  BY <1>1, EndWalkInv DEF NextPage
<1>2. CASE ~walk[a].last
  <2>1. WalkInv(a) /\ PageInv(a) /\ push[a].pending = {}
    BY DEF NextPage, GapFreeInv, AgentInv
  <2>2. pc' = [pc EXCEPT ![a] = "list"] /\ UNCHANGED <<push, clock, updatedAt, Accounted>>
    BY <1>2 DEF NextPage, gitlabVars, serverVars, Accounted
  <2>3. pc'[a] = "list"
    BY <2>2 DEF TypeOK, AgentTypeOK
  <2>4. WalkInv(a)' /\ OthersSame(a)
    <3>1. CASE FilterMoves(a)
      <4>1. PICK hi \in Newest(walk[a].rows) :
              walk' = [walk EXCEPT ![a] = [NoWalk EXCEPT !.floor = hi.at - Second]]
        BY <1>2, <3>1 DEF NextPage
      <4>2. walk'[a].floor = hi.at - Second /\ walk'[a].pageNum = 1
        <5>1. walk'[a] = [NoWalk EXCEPT !.floor = hi.at - Second]
          BY <4>1 DEF TypeOK, AgentTypeOK
        <5> QED BY <5>1 DEF NoWalk
      <4>3. walk[a].rows \subseteq Rows /\ walk[a].floor \in Nat /\ hi \in walk[a].rows
        BY AgentFields DEF TypeOK, Newest
      <4>4. /\ hi.at \in Nat /\ clock \in Nat /\ Backfill \in Nat /\ Second \in Nat
            /\ updatedAt \in [Runs -> Nat]
        BY <4>3, RowFacts, TypeFacts, RepoSyncAssumption
      <4>5. hi.at - Second > walk[a].floor
        <5>1. PICK top \in walk[a].rows : top.at - Second > walk[a].floor
          BY <3>1 DEF FilterMoves
        <5>2. top.at <= hi.at /\ top.at \in Nat
          BY <4>3, RowFacts DEF Newest
        <5> QED BY <4>3, <4>4, <5>1, <5>2
      <4>6. Backfill <= hi.at - Second /\ hi.at - Second <= clock
        BY <2>1, <4>3, <4>4, <4>5 DEF WalkInv, PageInv
      <4>7. Covers(updatedAt, Accounted, hi.at - Second)
        <5>1. Covers(updatedAt, Accounted, hi.at)
          BY <2>1, <4>3 DEF PageInv
        <5> QED BY <4>4, <5>1 DEF Covers
      <4>8. WalkInv(a)'
        BY <2>2, <4>2, <4>6, <4>7 DEF WalkInv
      <4>9. OthersSame(a)
        BY <2>2, <4>1 DEF OthersSame, TypeOK, AgentTypeOK
      <4> QED BY <4>8, <4>9
    <3>2. CASE ~FilterMoves(a)
      <4>1. walk' = [walk EXCEPT ![a] = [NoWalk EXCEPT !.floor = walk[a].floor,
                                                       !.pageNum = walk[a].pageNum + 1]]
        BY <1>2, <3>2 DEF NextPage
      <4>2. walk'[a].floor = walk[a].floor /\ walk'[a].pageNum = walk[a].pageNum + 1
        <5>1. walk'[a] = [NoWalk EXCEPT !.floor = walk[a].floor, !.pageNum = walk[a].pageNum + 1]
          BY <4>1 DEF TypeOK, AgentTypeOK
        <5> QED BY <5>1 DEF NoWalk
      <4>3. HasPages(updatedAt, walk[a].floor, walk[a].pageNum, Accounted)
        BY <1>2, <2>1, <3>2 DEF PageInv
      <4>4. walk'[a].pageNum - 1 = walk[a].pageNum
        BY <4>2, AgentFields DEF TypeOK
      <4>5. WalkInv(a)'
        BY <2>1, <2>2, <4>2, <4>3, <4>4 DEF WalkInv
      <4>6. OthersSame(a)
        BY <2>2, <4>1 DEF OthersSame, TypeOK, AgentTypeOK
      <4> QED BY <4>5, <4>6
    <3> QED BY <3>1, <3>2
  <2> QED BY <2>3, <2>4 DEF AgentInv
<1> QED BY <1>1, <1>2

\* A batch that is applied takes the watermarks with it, not past a gap.
LEMMA ApplyInv ==
  ASSUME TypeOK, TypeOK', Monotone, ServerInv, NEW req \in slot, RequestInv(req), Apply(req)
  PROVE  ServerInv'
<1>1. clock <= clock' /\ clock \in Nat /\ clock' \in Nat /\ cursor \in Nat /\ completeTo \in Nat
  BY TypeFacts DEF Monotone
<1>2. ASSUME NEW S, NEW t \in Nat, t <= clock, Covers(updatedAt, S, t), S \subseteq Accounted'
      PROVE  Covers(updatedAt', Accounted', t)
  <2>1. updatedAt' \in [Runs -> Nat] /\ updatedAt \in [Runs -> Nat] /\ clock \in Nat
    BY TypeFacts
  <2> QED BY <1>2, <2>1, CoversGrow DEF Monotone
<1>3. req.runs \subseteq Rows /\ req.asOf \in Nat
  BY RowFacts DEF TypeOK, ServerTypeOK
<1>4. Accounted \subseteq Accounted' /\ Accounted \cup req.runs \subseteq Accounted'
  BY DEF Monotone, Apply, Accounted
<1>5. cursor' <= clock' /\ (cursor' = 0 \/ Backfill <= cursor')
      /\ Covers(updatedAt', Accounted', cursor')
  <2>1. CASE cursor' = cursor
    BY <1>1, <1>2, <1>4, <2>1 DEF ServerInv
  <2>2. ASSUME NEW x \in req.runs, cursor' = x.at
        PROVE  /\ cursor' <= clock' /\ Backfill <= cursor'
               /\ Covers(updatedAt', Accounted', cursor')
    <3>1. /\ x.at \in Nat /\ Backfill <= x.at /\ x.at <= clock
          /\ Covers(updatedAt, Accounted \cup req.runs, x.at)
      BY <1>3, RowFacts DEF RequestInv
    <3> QED BY <1>1, <1>2, <1>4, <2>2, <3>1
  <2> QED BY <2>1, <2>2 DEF Apply
<1>6. completeTo' <= clock' /\ Covers(updatedAt', Accounted', completeTo')
  <2>1. CASE req.final
    BY <1>1, <1>2, <1>3, <1>4, <2>1 DEF Apply, RequestInv
  <2>2. CASE ~req.final
    BY <1>1, <1>2, <1>4, <2>2 DEF Apply, ServerInv
  <2> QED BY <2>1, <2>2
<1> QED BY <1>5, <1>6 DEF ServerInv

\* A request takes the oldest part of the page, all that is left if it is final.
LEMMA NewRequestInv ==
  ASSUME TypeOK, GapFreeInv, NEW a \in Agents, pc[a] = "push"
  PROVE  RequestInv([runs |-> Slice(a), final |-> IsFinal(a), asOf |-> walk[a].asOf])
<1> DEFINE req == [runs |-> Slice(a), final |-> IsFinal(a), asOf |-> walk[a].asOf]
<1>1. PageInv(a)
  BY DEF GapFreeInv, AgentInv
<1>2. Slice(a) \subseteq push[a].pending /\ push[a].pending \subseteq walk[a].rows
  BY <1>1, SliceType DEF TypeOK, PageInv
<1>3. ASSUME NEW x \in Slice(a)
      PROVE  /\ Backfill <= x.at /\ x.at <= clock
             /\ Covers(updatedAt, Accounted \cup Slice(a), x.at)
  <2>1. /\ Backfill <= x.at /\ x.at <= clock
        /\ Covers(updatedAt, Accounted \cup push[a].pending, x.at)
    BY <1>1, <1>2 DEF PageInv
  <2>2. ASSUME NEW r \in Runs, [run |-> r, at |-> updatedAt[r]] \in push[a].pending,
               updatedAt[r] < x.at
        PROVE  [run |-> r, at |-> updatedAt[r]] \in Slice(a)
    BY <2>2, SliceOlder
  <2> QED BY <2>1, <2>2 DEF Covers
<1>4. IsFinal(a) => Covers(updatedAt, Accounted \cup Slice(a), walk[a].asOf)
  BY <1>1 DEF IsFinal, PageInv
<1>5. walk[a].asOf <= clock
  BY <1>1 DEF PageInv
<1> QED BY <1>3, <1>4, <1>5 DEF RequestInv

\* What a step of an agent does to the others and to the slot.
LEMMA AgentStepInv ==
  ASSUME ~Bursts \/ ~LiveUpdates, TypeOK, TypeOK', Monotone, GapFreeInv, NEW a \in Agents, AgentStep(a)
  PROVE  /\ AgentInv(a)' /\ OthersSame(a)
         /\ ServerInv'
         /\ \A req \in slot' : RequestInv(req)'
         /\ AwaitInv'
<1>1. AgentInv(a) /\ ServerInv /\ AwaitInv
  BY DEF GapFreeInv
<1>2. \A req \in slot : req \in Request /\ RequestInv(req)'
  BY RequestStable DEF GapFreeInv, TypeOK, ServerTypeOK
<1>3. ASSUME OthersSame(a), pc'[a] # "await", slot' = slot
      PROVE  AwaitInv'
  <2>1. \A b \in Agents : pc'[b] = "await" => b # a /\ pc[b] = "await" /\ Slice(b)' = Slice(b)
    BY <1>3 DEF OthersSame, Slice
  <2> QED BY <1>1, <1>3, <2>1 DEF AwaitInv
<1>4. ASSUME OthersSame(a), pc'[a] # "await", pc[a] = "await"
      PROVE  AwaitInv'
  <2>1. \A b \in Agents : pc'[b] # "await"
    BY <1>1, <1>4 DEF OthersSame, AwaitInv
  <2> QED BY <2>1 DEF AwaitInv
<1>5. ASSUME AgentInv(a)', OthersSame(a), pc'[a] # "await", UNCHANGED serverVars
      PROVE  /\ AgentInv(a)' /\ OthersSame(a)
             /\ ServerInv'
             /\ \A req \in slot' : RequestInv(req)'
             /\ AwaitInv'
  BY <1>1, <1>2, <1>3, <1>5, ServerStable DEF serverVars
<1>6. CASE Hello(a)
  BY <1>5, <1>6, HelloInv DEF Hello
<1>7. CASE ListPage(a)
  BY <1>5, <1>7, ListPageInv DEF ListPage, Parsed
<1>8. CASE ListFailed(a)
  BY <1>5, <1>8, EndWalkInv DEF ListFailed
<1>9. CASE NextPage(a)
  BY <1>5, <1>9, NextPageInv DEF NextPage
<1>10. CASE PushRuns(a)
  <2>0. PICK new : new = [runs |-> Slice(a), final |-> IsFinal(a), asOf |-> walk[a].asOf]
    OBVIOUS
  <2>1. /\ pc[a] = "push" /\ slot = {} /\ slot' = {new}
        /\ UNCHANGED <<cursor, completeTo, walk, push>>
        /\ pc' = [pc EXCEPT ![a] = "await"]
    BY <1>10, <2>0 DEF PushRuns
  <2>2. pc'[a] = "await" /\ OthersSame(a)
    BY <2>1 DEF OthersSame, TypeOK, AgentTypeOK
  <2>3. AgentInv(a)'
    BY <1>1, <2>1, <2>2, PageStable
  <2>4. ServerInv'
    BY <1>1, <2>1, ServerStable
  <2>5. new \in Request
    BY <2>1 DEF TypeOK, ServerTypeOK
  <2>6. RequestInv(new)'
    <3>1. RequestInv(new)
      BY <2>0, <2>1, NewRequestInv
    <3> QED BY <1>1, <2>5, <3>1, RequestStable
  <2>7. AwaitInv'
    <3>1. \A b \in Agents : pc[b] # "await"
      BY <1>1, <2>1 DEF AwaitInv
    <3>2. \A b \in Agents : pc'[b] = "await" => b = a
      BY <2>2, <3>1 DEF OthersSame
    <3>3. Slice(a)' = Slice(a)
      BY <2>1 DEF Slice
    <3>4. \E req : slot' = {req} /\ req.runs = Slice(a)'
      BY <2>0, <2>1, <3>3
    <3> QED BY <3>2, <3>4 DEF AwaitInv
  <2> QED BY <2>1, <2>2, <2>3, <2>4, <2>6, <2>7
<1>11. CASE SyncInProgress(a)
  <2>1. pc[a] = "push" /\ UNCHANGED serverVars
    BY <1>11 DEF SyncInProgress
  <2>2. CASE push[a].mutexRetries < MaxMutexRetries
    <3>1. /\ push' = [push EXCEPT ![a].mutexRetries = @ + 1]
          /\ UNCHANGED <<pc, walk>>
      BY <1>11, <2>2 DEF SyncInProgress
    <3>2. push'[a].pending = push[a].pending
      BY <3>1, AgentFields DEF TypeOK, AgentTypeOK, Push
    <3>3. OthersSame(a)
      BY <3>1 DEF OthersSame, TypeOK, AgentTypeOK
    <3>4. AgentInv(a)'
      BY <1>1, <2>1, <3>1, <3>2, PageStable
    <3> QED BY <1>5, <2>1, <3>1, <3>3, <3>4
  <2>3. CASE ~(push[a].mutexRetries < MaxMutexRetries)
    BY <1>5, <1>11, <2>1, <2>3, EndWalkInv DEF SyncInProgress
  <2> QED BY <2>2, <2>3
<1>12. CASE Refused(a)
  BY <1>1, <1>5, <1>12, EndWalkInv, TooLargeInv DEF Refused
<1>13. CASE ServerError(a)
  <2>1. AgentInv(a)' /\ pc'[a] # "await" /\ OthersSame(a)
    BY <1>1, <1>13, EndWalkInv, PushFailureInv DEF ServerError
  <2>2. pc[a] = "await" /\ slot' = {} /\ UNCHANGED <<cursor, completeTo>>
    BY <1>13 DEF ServerError
  <2> QED BY <1>1, <1>4, <2>1, <2>2, ServerStable
<1>14. CASE StopWaiting(a)
  BY <1>1, <1>5, <1>14, EndWalkInv, PushFailureInv DEF StopWaiting
<1>15. CASE Crash(a)
  <2>1. pc'[a] = "idle" /\ OthersSame(a) /\ UNCHANGED serverVars
    BY <1>15 DEF Crash, OthersSame, TypeOK, AgentTypeOK
  <2>2. AgentInv(a)'
    BY <2>1 DEF AgentInv
  <2> QED BY <1>5, <2>1, <2>2
<1>16. CASE Ingest(a)
  <2>1. PICK req \in slot : Apply(req)
    BY <1>16 DEF Ingest
  <2>2. pc[a] = "await" /\ req.runs = Slice(a)
    BY <1>1, <1>16, <2>1 DEF Ingest, AwaitInv
  <2>3. Slice(a) \subseteq Accounted'
    BY <2>1, <2>2 DEF Apply, Accounted
  <2>4. AgentInv(a)' /\ pc'[a] # "await" /\ OthersSame(a)
    BY <1>1, <1>16, <2>2, <2>3, EndWalkInv, PushFailureInv, NextSliceInv DEF Ingest
  <2>5. ServerInv'
    BY <1>1, <2>1, ApplyInv DEF GapFreeInv
  <2>6. slot' = {}
    BY <2>1 DEF Apply
  <2> QED BY <1>4, <2>2, <2>4, <2>5, <2>6
<1> QED BY <1>6, <1>7, <1>8, <1>9, <1>10, <1>11, <1>12, <1>13, <1>14, <1>15, <1>16 DEF AgentStep

\* The invariant is inductive, unless bursts fill a page within a second and runs
\* change while it is read.
LEMMA GapFreeStep ==
  ASSUME ~Bursts \/ ~LiveUpdates, TypeOK, TypeOK', GapFreeInv, [Next]_vars
  PROVE  GapFreeInv'
<1>1. Monotone
  BY StepMonotone
<1>2. /\ clock \in Nat /\ clock' \in Nat /\ updatedAt \in [Runs -> Nat]
      /\ updatedAt' \in [Runs -> Nat]
  BY TypeFacts
<1>3. ASSUME UNCHANGED gitlabVars PROVE EnvInv'
  BY <1>3 DEF gitlabVars, GapFreeInv, EnvInv, Spread
<1>4. ASSUME UNCHANGED agentVars PROVE \A b \in Agents : AgentInv(b)'
  BY <1>1, <1>4, AgentStable DEF agentVars, GapFreeInv
<1>5. \A req \in slot : RequestInv(req)'
  BY <1>1, RequestStable DEF GapFreeInv, TypeOK, ServerTypeOK
<1>6. ASSUME UNCHANGED agentVars, UNCHANGED slot PROVE AwaitInv'
  BY <1>6 DEF agentVars, GapFreeInv, AwaitInv, Slice
<1>7. ASSUME UNCHANGED <<cursor, completeTo>> PROVE ServerInv'
  BY <1>1, <1>7, ServerStable DEF GapFreeInv
<1>8. CASE Tick
  <2>1. EnvInv'
    BY <1>2, <1>8 DEF Tick, GapFreeInv, EnvInv, Spread
  <2> QED BY <1>4, <1>5, <1>6, <1>7, <1>8, <2>1 DEF Tick, serverVars, GapFreeInv
<1>9. ASSUME NEW r \in Runs, Touch(r) PROVE GapFreeInv'
  <2>1. Bursts \/ Spread(updatedAt')
    BY <1>9 DEF Touch
  <2>2. \A q \in Runs : updatedAt'[q] <= clock'
    BY <1>2, <1>9 DEF Touch, GapFreeInv, EnvInv
  <2>3. EnvInv'
    BY <2>1, <2>2 DEF EnvInv, Spread
  <2> QED BY <1>4, <1>5, <1>6, <1>7, <1>9, <2>3 DEF Touch, serverVars, GapFreeInv
<1>10. CASE BecomeDue
  BY <1>3, <1>4, <1>5, <1>6, <1>7, <1>10 DEF BecomeDue, GapFreeInv
<1>11. CASE LateIngest
  <2>1. PICK req \in slot :
          \/ Apply(req)
          \/ slot' = {} /\ UNCHANGED <<cursor, completeTo, ingested, due>>
    BY <1>11 DEF LateIngest
  <2>2. slot' = {}
    BY <2>1 DEF Apply
  <2>3. ServerInv'
    BY <1>1, <1>7, <2>1, ApplyInv DEF GapFreeInv
  <2>4. AwaitInv'
    BY <1>11 DEF LateIngest, agentVars, AwaitInv
  <2> QED BY <1>3, <1>4, <1>11, <2>2, <2>3, <2>4 DEF LateIngest, GapFreeInv
<1>12. ASSUME NEW a \in Agents, AgentStep(a) PROVE GapFreeInv'
  <2>1. /\ AgentInv(a)' /\ OthersSame(a) /\ ServerInv'
        /\ \A req \in slot' : RequestInv(req)'
        /\ AwaitInv'
    BY <1>1, <1>12, AgentStepInv
  <2>2. ASSUME NEW b \in Agents PROVE AgentInv(b)'
    <3>1. CASE b = a
      BY <2>1, <3>1
    <3>2. CASE b # a
      BY <1>1, <2>1, <3>2, AgentStable DEF OthersSame, GapFreeInv
    <3> QED BY <3>1, <3>2
  <2>3. UNCHANGED gitlabVars
    BY <1>12 DEF AgentStep, Hello, ListPage, ListFailed, NextPage, PushRuns, SyncInProgress,
                 Refused, ServerError, StopWaiting, Crash, Ingest
  <2> QED BY <1>3, <2>1, <2>2, <2>3 DEF GapFreeInv
<1>13. CASE UNCHANGED vars
  BY <1>3, <1>4, <1>5, <1>6, <1>7, <1>13 DEF vars, serverVars, GapFreeInv
<1> QED BY <1>8, <1>9, <1>10, <1>11, <1>12, <1>13 DEF Next

\* Nothing is listed, pushed or covered at first.
LEMMA GapFreeInit ==
  ASSUME Init
  PROVE  GapFreeInv
<1>1. updatedAt \in [Runs -> 0..StartClock] /\ (Bursts \/ Spread(updatedAt)) /\ clock = StartClock
  BY DEF Init
<1>2. EnvInv
  BY <1>1, RepoSyncAssumption DEF EnvInv
<1>3. ServerInv
  BY RepoSyncAssumption DEF Init, ServerInv, Covers
<1>4. \A a \in Agents : pc[a] = "idle"
  BY DEF Init
<1> QED BY <1>2, <1>3, <1>4 DEF Init, GapFreeInv, AgentInv, AwaitInv

\* The invariant holds throughout, for every number of agents and every fault: with
\* runs updated at any moment unless a second may hold a full page of them, and
\* with any number of runs in a second if none changes during a walk.
THEOREM GapFree ==
  ASSUME ~Bursts \/ ~LiveUpdates
  PROVE  Spec => []GapFreeInv
<1>1. Init => GapFreeInv
  BY GapFreeInit
<1>2. TypeOK /\ TypeOK' /\ GapFreeInv /\ [Next]_vars => GapFreeInv'
  BY GapFreeStep
<1>3. Spec => []TypeOK
  BY TypeCorrect
<1> QED BY <1>1, <1>2, <1>3, PTL DEF Spec

\* The cursor never passes a run that was neither pushed nor given up.
THEOREM CursorCovered ==
  ASSUME ~Bursts \/ ~LiveUpdates
  PROVE  Spec => []CoveredPrefix
<1>1. GapFreeInv => CoveredPrefix
  BY DEF GapFreeInv, ServerInv, CoveredPrefix
<1> QED BY <1>1, GapFree, PTL

\* A repository stamped as synced is complete up to its last page.
THEOREM StampCovered ==
  ASSUME ~Bursts \/ ~LiveUpdates
  PROVE  Spec => []CompletePrefix
<1>1. GapFreeInv => CompletePrefix
  BY DEF GapFreeInv, ServerInv, CompletePrefix
<1> QED BY <1>1, GapFree, PTL

-----------------------------------------------------------------------------
(***************************************************************************)
(* RepoSync implements SyncContract.                                       *)
(***************************************************************************)

\* The server's part of a step: the cursor does not move back, and the stamp
\* and the due flag change only together.
LEMMA ServerSteps ==
  ASSUME TypeOK, [Next]_vars, UNCHANGED gitlabVars
  PROVE  /\ cursor <= cursor'
         /\ UNCHANGED <<completeTo, due>> \/ due' = FALSE \/ BecomeDue
<1>1. cursor <= cursor
  BY TypeFacts
<1>2. ASSUME NEW req \in slot, Apply(req)
      PROVE  cursor <= cursor' /\ (UNCHANGED <<completeTo, due>> \/ due' = FALSE)
  BY <1>2 DEF Apply
<1>3. CASE Tick
  BY <1>1, <1>3 DEF Tick, serverVars
<1>4. CASE \E r \in Runs : Touch(r)
  BY <1>1, <1>4 DEF Touch, serverVars
<1>5. CASE BecomeDue
  BY <1>1, <1>5 DEF BecomeDue
<1>6. CASE LateIngest
  BY <1>1, <1>2, <1>6 DEF LateIngest
<1>7. ASSUME NEW a \in Agents, AgentStep(a)
      PROVE  cursor <= cursor' /\ (UNCHANGED <<completeTo, due>> \/ due' = FALSE)
  BY <1>1, <1>2, <1>7 DEF AgentStep, Hello, ListPage, ListFailed, NextPage, PushRuns, SyncInProgress,
                          Refused, ServerError, StopWaiting, Crash, Ingest, serverVars
<1>8. CASE UNCHANGED vars
  BY <1>1, <1>8 DEF vars, serverVars
<1> QED BY <1>3, <1>4, <1>5, <1>6, <1>7, <1>8 DEF Next

\* Every step is a step of the contract, or one the contract does not see.
LEMMA ContractStep ==
  ASSUME TypeOK, TypeOK', GapFreeInv', [Next]_vars
  PROVE  [Contract!Next]_(Contract!vars)
<1>1. CASE Tick
  BY <1>1 DEF Tick, serverVars, agentVars, Accounted, Contract!Next, Contract!Tick
<1>2. ASSUME NEW r \in Runs, Touch(r) PROVE Contract!Next
  BY <1>2 DEF Touch, serverVars, agentVars, Accounted, Contract!Next, Contract!Touch
<1>3. CASE BecomeDue
  BY <1>3 DEF BecomeDue, gitlabVars, agentVars, Accounted, Contract!Next, Contract!BecomeDue
<1>4. ASSUME UNCHANGED gitlabVars, ~BecomeDue PROVE Contract!Next
  <2>1. /\ Accounted \subseteq Accounted'
        /\ cursor <= cursor'
        /\ UNCHANGED <<completeTo, due>> \/ due' = FALSE
    BY <1>4, StepMonotone, ServerSteps DEF Monotone
  <2>2. cursor' <= clock' /\ completeTo' <= clock'
        /\ Covers(updatedAt', Accounted', cursor') /\ Covers(updatedAt', Accounted', completeTo')
    BY DEF GapFreeInv, ServerInv
  <2>3. UNCHANGED <<clock, updatedAt>>
    BY <1>4 DEF gitlabVars
  <2>4. cursor' <= clock /\ completeTo' \in 0..clock
    BY <2>2, <2>3, TypeFacts
  <2>5. Contract!CoveredBy(Accounted', cursor') /\ Contract!CoveredBy(Accounted', completeTo')
    BY <2>2, <2>3 DEF Covers, Contract!CoveredBy, Contract!Row
  <2>6. CASE UNCHANGED <<completeTo, due>>
    BY <2>1, <2>3, <2>4, <2>5, <2>6 DEF Contract!Next, Contract!Deliver
  <2>7. CASE due' = FALSE
    BY <2>1, <2>3, <2>4, <2>5, <2>7 DEF Contract!Next, Contract!Complete
  <2> QED BY <2>1, <2>6, <2>7
<1>5. CASE LateIngest \/ \E a \in Agents : AgentStep(a)
  <2>1. UNCHANGED gitlabVars
    BY <1>5 DEF LateIngest, AgentStep, Hello, ListPage, ListFailed, NextPage, PushRuns,
                SyncInProgress, Refused, ServerError, StopWaiting, Crash, Ingest
  <2> QED BY <1>3, <1>4, <2>1
<1>6. CASE UNCHANGED vars
  BY <1>6 DEF vars, gitlabVars, serverVars, agentVars, Accounted, Contract!vars
<1> QED BY <1>1, <1>2, <1>3, <1>5, <1>6 DEF Next

\* The walk of pages, batches and retries, by any number of agents, implements
\* the contract: its watermarks only move forward and never past a gap.
THEOREM ImplementsContract ==
  ASSUME ~Bursts \/ ~LiveUpdates
  PROVE  Spec => GapFreeSync
<1>1. Init => Contract!Init
  <2>1. ASSUME Init PROVE Contract!Init
    <3>1. StartClock \in Nat
      BY RepoSyncAssumption
    <3> QED BY <2>1, <3>1 DEF Init, Contract!Init, Accounted
  <2> QED BY <2>1
<1>2. TypeOK /\ TypeOK' /\ GapFreeInv' /\ [Next]_vars => [Contract!Next]_(Contract!vars)
  BY ContractStep
<1>3. Spec => []TypeOK /\ []GapFreeInv
  BY TypeCorrect, GapFree
<1> QED BY <1>1, <1>2, <1>3, PTL DEF Spec, GapFreeSync, Contract!Spec
=============================================================================
