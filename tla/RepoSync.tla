------------------------------ MODULE RepoSync ------------------------------
(***************************************************************************)
(* The synchronisation of ONE repository: agents walk the pipelines of a   *)
(* GitLab project page by page in the order of their last update (ListRuns *)
(* of collector.go), cut every page into batches and push them to the      *)
(* server (syncRepo, repoPush, pushSlice of cycle.go), which upserts the   *)
(* rows and moves its cursor.  Several agents may share the connection,    *)
(* any of them may crash and restart, and requests may fail, time out, or  *)
(* be applied without their answer arriving.                               *)
(*                                                                         *)
(* A row is a run at the time of its last update.  Its other fields, and   *)
(* where the byte cap of a request falls, are abstracted: a page may be    *)
(* cut into batches anywhere the batch cap allows.  The pauses between two *)
(* attempts are left out, an attempt may come at any time; a 429 with a    *)
(* short window is such a pause and nothing else.                          *)
(***************************************************************************)
EXTENDS Integers, FiniteSets

CONSTANTS
    Agents,          \* agents on the connection, a duplicate counts as another
    Runs,            \* ids of the pipeline runs
    Broken,          \* runs whose updated_at does not parse
    PerPage,         \* perPage: rows of a full page
    MaxRunsPerBatch, \* limits.max_runs_per_batch of the hello response
    MaxMutexRetries, \* attempts repeated on sync_in_progress
    Second,          \* the overlap of two pages, in clock ticks
    Backfill,        \* backfill_not_before of the hello response
    ServerWindow,    \* largest batch the server processes in time
    SlowAnswer,      \* how a larger batch fails: "server_error" or "timeout"
    Faults,          \* failures that occur, see AllFaults
    Bursts,          \* TRUE: a full page of runs may share a second
    LiveUpdates,     \* TRUE: runs change while an agent walks
    StartClock,      \* time of the first step
    MaxClock         \* bound: time stops here

AllFaults == {"collector", "collector_timeout", "server_error", "lost", "timeout",
              "too_large", "rate_limited", "suspended", "unknown_repo", "invalid", "crash"}

ASSUME RepoSyncAssumption ==
    /\ Runs \subseteq Nat /\ IsFiniteSet(Runs) /\ Broken \subseteq Runs
    /\ PerPage \in Nat \ {0} /\ MaxRunsPerBatch \in Nat \ {0} /\ MaxMutexRetries \in Nat
    /\ Second \in Nat \ {0} /\ Backfill \in Nat \ {0}
    /\ ServerWindow \in Nat \ {0} /\ SlowAnswer \in {"server_error", "timeout"}
    /\ Faults \subseteq AllFaults
    /\ Bursts \in BOOLEAN /\ LiveUpdates \in BOOLEAN
    /\ StartClock \in Nat /\ MaxClock \in Nat /\ StartClock <= MaxClock

VARIABLES
    \* GitLab
    clock,      \* its time
    updatedAt,  \* [Runs -> time of the last update, 0: not created yet]
    \* the server
    cursor,     \* repo.cursor, 0: null
    completeTo, \* when the page of the last final batch was listed (history)
    ingested,   \* rows upserted or counted as rejected
    due,        \* repo.sync_due
    slot,       \* the request being processed, at most one per connection
    \* each agent
    pc,         \* where it is: see PCs
    walk,       \* ListRuns: filter floor, page number, the rows of the page,
                \*   whether it is the last, and when it was listed (history)
    push,       \* pushSlice: rows of the page not delivered yet, the last rows of
                \*   the batches still to push, failures and mutex retries so far
    batchCap,   \* repoPush.batchCap
    withheld,   \* rows this walk dropped or skipped
    outcome,    \* outcome.Code of the latest walk, for the next hello
    \* history
    skipped     \* rows any walk dropped or skipped

gitlabVars == <<clock, updatedAt>>
serverVars == <<cursor, completeTo, ingested, due, slot>>
agentVars  == <<pc, walk, push, batchCap, withheld, outcome, skipped>>
vars == <<gitlabVars, serverVars, agentVars>>

PCs == {"idle",  \* between two cycles
        "list",  \* about to fetch a page
        "push",  \* about to push a batch (or to push it again)
        "await", \* its request is with the server
        "next"}  \* the page is delivered

Outcomes == {"none", "ok", "partial", "push_failed", "collector_error", "aborted",
             "rate_limited", "unknown_repo"}

Rows == [run : Runs, at : 0..MaxClock]

Request == [runs : SUBSET Rows, final : BOOLEAN, asOf : 0..MaxClock]

Walk == [floor : Nat, pageNum : Nat \ {0}, rows : SUBSET Rows, last : BOOLEAN, asOf : 0..MaxClock]
Push == [pending : SUBSET Rows, ends : SUBSET Rows, failures : 0..2, mutexRetries : 0..MaxMutexRetries]

NoWalk == [floor |-> 0, pageNum |-> 1, rows |-> {}, last |-> FALSE, asOf |-> 0]
NoPush == [pending |-> {}, ends |-> {}, failures |-> 0, mutexRetries |-> 0]

-----------------------------------------------------------------------------
(***************************************************************************)
(* The pipelines of GitLab.                                                *)
(***************************************************************************)

Row(r) == [run |-> r, at |-> updatedAt[r]]

\* order_by=updated_at, sort=asc; GitLab breaks ties by id.
Before(x, y) == x.at < y.at \/ (x.at = y.at /\ x.run < y.run)

\* Rows the filter updated_after=f lets through: those updated at f or later.
Listing(f) == {Row(r) : r \in {q \in Runs : updatedAt[q] # 0 /\ f <= updatedAt[q]}}

\* The oldest n rows of S (all of S if there are fewer), as a set of that one set.
Oldest(S, n) ==
    {T \in SUBSET S : /\ \A x \in T, y \in S : Before(y, x) => y \in T
                      /\ Cardinality(T) = IF Cardinality(S) < n THEN Cardinality(S) ELSE n}

\* No second holds a full page of runs, the unparseable ones all counted in.
Spread(f) ==
    \A t \in 1..MaxClock :
        Cardinality({r \in Runs : r \in Broken \/ f[r] \in t..t + Second}) < PerPage

Newest(S) == {x \in S : \A y \in S : y.at <= x.at}

-----------------------------------------------------------------------------
(***************************************************************************)
(* The batches of a page.  splitBatches fixes the last row of every batch  *)
(* but the final one; halving a batch adds the last row of its first half. *)
(***************************************************************************)

\* The batch being pushed: everything pending up to the first of the ends.
Slice(a) == {x \in push[a].pending : ~ \E e \in push[a].ends : Before(e, x)}

\* Mutant of IsFinal: every batch of the last page is final.
MutIsFinal(a) == walk[a].last

\* final: the last batch of the last page.
IsFinal(a) == walk[a].last /\ Slice(a) = push[a].pending

\* splitBatches: no batch exceeds the cap.  The byte cap may end one earlier.
Splits(rows, cap) ==
    {ends \in SUBSET (rows \ {x \in rows : \A y \in rows : ~Before(x, y)}) :
        \A x \in rows :
            Cardinality({y \in rows : /\ y = x \/ Before(x, y)
                                      /\ ~ \E e \in ends : Before(e, y) /\ ~ Before(e, x)}) <= cap}

\* pushSlice returned nil: on to the next batch, with fresh counters.
NextSlice(a) ==
    LET rest == push[a].pending \ Slice(a) IN
    /\ push' = [push EXCEPT ![a] = [NoPush EXCEPT !.pending = rest,
                                                  !.ends = push[a].ends \cap rest]]
    /\ pc' = [pc EXCEPT ![a] = IF rest = {} THEN "next" ELSE "push"]

\* halve: both halves are pushed in turn, each with fresh counters.
Halve(a) ==
    \E mid \in Slice(a) :
        /\ Cardinality({x \in Slice(a) : x = mid \/ Before(x, mid)}) = Cardinality(Slice(a)) \div 2
        /\ push' = [push EXCEPT ![a] = [NoPush EXCEPT !.pending = push[a].pending,
                                                      !.ends = push[a].ends \cup {mid}]]
        /\ pc' = [pc EXCEPT ![a] = "push"]
        /\ UNCHANGED <<withheld, skipped>>

\* skipPoison: the batch (one row, or the empty final batch) is given up.
SkipPoison(a) ==
    /\ withheld' = [withheld EXCEPT ![a] = @ \cup Slice(a)]
    /\ skipped' = skipped \cup Slice(a)
    /\ NextSlice(a)

\* The walk is over: syncRepo returns its outcome, repoPush is dropped.
EndWalk(a, code) ==
    /\ pc' = [pc EXCEPT ![a] = "idle"]
    /\ walk' = [walk EXCEPT ![a] = NoWalk]
    /\ push' = [push EXCEPT ![a] = NoPush]
    /\ batchCap' = [batchCap EXCEPT ![a] = MaxRunsPerBatch]
    /\ outcome' = [outcome EXCEPT ![a] = code]
    /\ UNCHANGED <<withheld, skipped>>

\* Mutant of PushFailure: a batch that cannot be halved is pushed once more.
MutPushFailurePatient(a) ==
    LET size == Cardinality(Slice(a))
        failures == push[a].failures + 1
    IN  /\ \/ size > 1 /\ failures >= 2 /\ Halve(a)
           \/ size <= 1 /\ failures > 3 /\ SkipPoison(a)
           \/ /\ IF size > 1 THEN failures < 2 ELSE failures <= 3
              /\ push' = [push EXCEPT ![a].failures = failures]
              /\ pc' = [pc EXCEPT ![a] = "push"]
              /\ UNCHANGED <<withheld, skipped>>
        /\ UNCHANGED <<walk, batchCap, outcome>>

\* Transport failure or 5xx: the second one halves, the third gives up what
\* cannot be halved, otherwise the batch is pushed again.
PushFailure(a) ==
    LET size == Cardinality(Slice(a))
        failures == push[a].failures + 1
    IN  /\ \/ size > 1 /\ failures >= 2 /\ Halve(a)
           \/ size <= 1 /\ failures >= 3 /\ SkipPoison(a)
           \/ /\ IF size > 1 THEN failures < 2 ELSE failures < 3
              /\ push' = [push EXCEPT ![a].failures = failures]
              /\ pc' = [pc EXCEPT ![a] = "push"]
              /\ UNCHANGED <<withheld, skipped>>
        /\ UNCHANGED <<walk, batchCap, outcome>>

\* 413: halve and keep the halved size as cap for later pages.
TooLarge(a) ==
    LET size == Cardinality(Slice(a)) IN
    /\ \/ size <= 1 /\ SkipPoison(a) /\ UNCHANGED batchCap
       \/ size > 1 /\ Halve(a) /\ batchCap' = [batchCap EXCEPT ![a] = size \div 2]
    /\ UNCHANGED <<walk, outcome>>

-----------------------------------------------------------------------------
Init ==
    /\ clock = StartClock
    /\ updatedAt \in {f \in [Runs -> 0..StartClock] : Bursts \/ Spread(f)}
    /\ cursor = 0
    /\ completeTo = 0
    /\ ingested = {}
    /\ due = TRUE
    /\ slot = {}
    /\ pc = [a \in Agents |-> "idle"]
    /\ walk = [a \in Agents |-> NoWalk]
    /\ push = [a \in Agents |-> NoPush]
    /\ batchCap = [a \in Agents |-> MaxRunsPerBatch]
    /\ withheld = [a \in Agents |-> {}]
    /\ outcome = [a \in Agents |-> "none"]
    /\ skipped = {}

-----------------------------------------------------------------------------
(***************************************************************************)
(* GitLab: time passes, pipelines are created and change status.           *)
(***************************************************************************)
Tick ==
    /\ clock < MaxClock
    /\ clock' = clock + 1
    /\ UNCHANGED <<updatedAt, serverVars, agentVars>>

Touch(r) ==
    /\ updatedAt[r] # clock /\ clock # 0
    /\ LiveUpdates \/ \A a \in Agents : pc[a] = "idle"
    /\ updatedAt' = [updatedAt EXCEPT ![r] = clock]
    /\ Bursts \/ Spread(updatedAt')
    /\ UNCHANGED <<clock, serverVars, agentVars>>

-----------------------------------------------------------------------------
(***************************************************************************)
(* The agent walks the pages.                                              *)
(***************************************************************************)

\* hello delivers the latest outcome and, if the repository is due, starts a
\* walk at the cursor or, for want of one, at the backfill floor (sinceOf).
Hello(a) ==
    /\ pc[a] = "idle"
    /\ due \/ outcome[a] # "none"
    /\ outcome' = [outcome EXCEPT ![a] = "none"]
    /\ withheld' = [withheld EXCEPT ![a] = {}]
    /\ IF due
       THEN /\ pc' = [pc EXCEPT ![a] = "list"]
            /\ walk' = [walk EXCEPT ![a] = [NoWalk EXCEPT !.floor = IF cursor = 0 THEN Backfill ELSE cursor]]
       ELSE UNCHANGED <<pc, walk>>
    /\ UNCHANGED <<gitlabVars, serverVars, push, batchCap, skipped>>

\* buildRuns: the rows whose updated_at parses.  Their details and jobs are
\* fetched in the same step.
Parsed(items) == {x \in items : x.run \notin Broken}

\* Mutant of ListPage: an empty page ends the walk without an empty batch.
MutListPageNoEmptyBatch(a) ==
    /\ pc[a] = "list"
    /\ \E earlier \in Oldest(Listing(walk[a].floor), (walk[a].pageNum - 1) * PerPage) :
       \E items \in Oldest(Listing(walk[a].floor) \ earlier, PerPage) :
          LET rows == Parsed(items)
              last == Cardinality(items) < PerPage
          IN  /\ walk' = [walk EXCEPT ![a] = [@ EXCEPT !.rows = rows, !.last = last, !.asOf = clock]]
              /\ withheld' = [withheld EXCEPT ![a] = @ \cup (items \ rows)]
              /\ skipped' = skipped \cup (items \ rows)
              /\ \E ends \in Splits(rows, batchCap[a]) :
                    push' = [push EXCEPT ![a] = [NoPush EXCEPT !.pending = rows, !.ends = ends]]
              /\ pc' = [pc EXCEPT ![a] = IF rows = {} THEN "next" ELSE "push"]
    /\ UNCHANGED <<gitlabVars, serverVars, batchCap, outcome>>

\* One page: unparseable rows are dropped, the others cut into batches.  A
\* page without any is passed over unless it is the last, whose batch must be
\* pushed although it is empty.
ListPage(a) ==
    /\ pc[a] = "list"
    /\ \E earlier \in Oldest(Listing(walk[a].floor), (walk[a].pageNum - 1) * PerPage) :
       \E items \in Oldest(Listing(walk[a].floor) \ earlier, PerPage) :
          LET rows == Parsed(items)
              last == Cardinality(items) < PerPage
          IN  /\ walk' = [walk EXCEPT ![a] = [@ EXCEPT !.rows = rows, !.last = last, !.asOf = clock]]
              /\ withheld' = [withheld EXCEPT ![a] = @ \cup (items \ rows)]
              /\ skipped' = skipped \cup (items \ rows)
              /\ \E ends \in Splits(rows, batchCap[a]) :
                    push' = [push EXCEPT ![a] = [NoPush EXCEPT !.pending = rows, !.ends = ends]]
              /\ pc' = [pc EXCEPT ![a] = IF rows = {} /\ ~last THEN "next" ELSE "push"]
    /\ UNCHANGED <<gitlabVars, serverVars, batchCap, outcome>>

\* The page, or the detail or the jobs of one of its rows, cannot be fetched.
\* A timeout of the HTTP client counts as the end of the context.
ListFailed(a) ==
    /\ pc[a] = "list"
    /\ \/ "collector" \in Faults /\ EndWalk(a, "collector_error")
       \/ "collector_timeout" \in Faults /\ EndWalk(a, "aborted")
    /\ UNCHANGED <<gitlabVars, serverVars>>

\* Mutant of NextPage: plain offset pagination over the whole walk.
MutNextPageOffset(a) ==
    /\ pc[a] = "next"
    /\ \/ /\ walk[a].last
          /\ EndWalk(a, IF withheld[a] = {} THEN "ok" ELSE "partial")
       \/ /\ ~walk[a].last
          /\ walk' = [walk EXCEPT ![a] = [NoWalk EXCEPT !.floor = walk[a].floor,
                                                        !.pageNum = walk[a].pageNum + 1]]
          /\ pc' = [pc EXCEPT ![a] = "list"]
          /\ UNCHANGED <<push, batchCap, withheld, outcome, skipped>>
    /\ UNCHANGED <<gitlabVars, serverVars>>

\* Mutant of NextPage: no offset pagination inside a second.
MutNextPageKeysetOnly(a) ==
    /\ pc[a] = "next"
    /\ \/ /\ walk[a].last
          /\ EndWalk(a, IF withheld[a] = {} THEN "ok" ELSE "partial")
       \/ /\ ~walk[a].last
          /\ \E hi \in Newest(walk[a].rows) :
                walk' = [walk EXCEPT ![a] = [NoWalk EXCEPT !.floor = hi.at - Second]]
          /\ pc' = [pc EXCEPT ![a] = "list"]
          /\ UNCHANGED <<push, batchCap, withheld, outcome, skipped>>
    /\ UNCHANGED <<gitlabVars, serverVars>>

\* The page can move the filter: its rows do not all share one time, and the
\* newest is more than the overlap ahead of the filter.
FilterMoves(a) ==
    /\ \E lo, hi \in walk[a].rows : lo.at < hi.at
    /\ \E hi \in walk[a].rows : hi.at - Second > walk[a].floor

\* The page is delivered.  After the last one the walk is over; otherwise the
\* filter moves to one second before the newest row, or, when the page cannot
\* move it, the next page of the same filter follows.
NextPage(a) ==
    /\ pc[a] = "next"
    /\ \/ /\ walk[a].last
          /\ EndWalk(a, IF withheld[a] = {} THEN "ok" ELSE "partial")
       \/ /\ ~walk[a].last
          /\ \/ /\ FilterMoves(a)
                /\ \E hi \in Newest(walk[a].rows) :
                      walk' = [walk EXCEPT ![a] = [NoWalk EXCEPT !.floor = hi.at - Second]]
             \/ /\ ~FilterMoves(a)
                /\ walk' = [walk EXCEPT ![a] = [NoWalk EXCEPT !.floor = walk[a].floor,
                                                              !.pageNum = walk[a].pageNum + 1]]
          /\ pc' = [pc EXCEPT ![a] = "list"]
          /\ UNCHANGED <<push, batchCap, withheld, outcome, skipped>>
    /\ UNCHANGED <<gitlabVars, serverVars>>

-----------------------------------------------------------------------------
(***************************************************************************)
(* The agent pushes a batch (pushSlice).                                   *)
(***************************************************************************)

\* The request is admitted: the server starts to process it.
PushRuns(a) ==
    /\ pc[a] = "push"
    /\ slot = {}
    /\ slot' = {[runs |-> Slice(a), final |-> IsFinal(a), asOf |-> walk[a].asOf]}
    /\ pc' = [pc EXCEPT ![a] = "await"]
    /\ UNCHANGED <<gitlabVars, cursor, completeTo, ingested, due>>
    /\ UNCHANGED <<walk, push, batchCap, withheld, outcome, skipped>>

\* Mutant of SyncInProgress: a batch that meets a taken slot too often is passed over.
MutSyncInProgressSkips(a) ==
    /\ pc[a] = "push"
    /\ slot # {}
    /\ IF push[a].mutexRetries < MaxMutexRetries
       THEN /\ push' = [push EXCEPT ![a].mutexRetries = @ + 1]
            /\ UNCHANGED <<pc, walk, batchCap, withheld, outcome, skipped>>
       ELSE NextSlice(a) /\ UNCHANGED <<walk, batchCap, withheld, outcome, skipped>>
    /\ UNCHANGED <<gitlabVars, serverVars>>

\* 409 sync_in_progress: another request holds the connection's slot.
SyncInProgress(a) ==
    /\ pc[a] = "push"
    /\ slot # {}
    /\ IF push[a].mutexRetries < MaxMutexRetries
       THEN /\ push' = [push EXCEPT ![a].mutexRetries = @ + 1]
            /\ UNCHANGED <<pc, walk, batchCap, withheld, outcome, skipped>>
       ELSE EndWalk(a, "push_failed")
    /\ UNCHANGED <<gitlabVars, serverVars>>

\* The request is answered with an error before any of it is processed.
Refused(a) ==
    /\ pc[a] = "push"
    /\ \/ "too_large" \in Faults /\ TooLarge(a)
       \/ "rate_limited" \in Faults /\ EndWalk(a, "rate_limited")
       \/ "suspended" \in Faults /\ EndWalk(a, "aborted")
       \/ "unknown_repo" \in Faults /\ EndWalk(a, "unknown_repo")
       \/ "invalid" \in Faults /\ EndWalk(a, "push_failed")
    /\ UNCHANGED <<gitlabVars, serverVars>>

\* The server gives the request up: with a 5xx, or, if the batch is more than
\* it can process in time, the way SlowAnswer says.
ServerError(a) ==
    /\ pc[a] = "await"
    /\ slot' = {}
    /\ LET slow == Cardinality(Slice(a)) > ServerWindow IN
       \/ "server_error" \in Faults /\ PushFailure(a)
       \/ slow /\ SlowAnswer = "server_error" /\ PushFailure(a)
       \/ slow /\ SlowAnswer = "timeout" /\ EndWalk(a, "aborted")
    /\ UNCHANGED <<gitlabVars, cursor, completeTo, ingested, due>>

\* The agent no longer waits, while the server still processes the request:
\* the connection broke, or the timeout of the HTTP client expired, whose
\* error isCycleStopper takes for the end of the context.
StopWaiting(a) ==
    /\ pc[a] = "await"
    /\ \/ "lost" \in Faults /\ PushFailure(a)
       \/ "timeout" \in Faults /\ EndWalk(a, "aborted")
    /\ UNCHANGED <<gitlabVars, serverVars>>

\* The process dies, wherever it is, and is started again.
Crash(a) ==
    /\ "crash" \in Faults
    /\ pc[a] # "idle" \/ outcome[a] # "none"
    /\ pc' = [pc EXCEPT ![a] = "idle"]
    /\ walk' = [walk EXCEPT ![a] = NoWalk]
    /\ push' = [push EXCEPT ![a] = NoPush]
    /\ batchCap' = [batchCap EXCEPT ![a] = MaxRunsPerBatch]
    /\ withheld' = [withheld EXCEPT ![a] = {}]
    /\ outcome' = [outcome EXCEPT ![a] = "none"]
    /\ UNCHANGED <<gitlabVars, serverVars, skipped>>

-----------------------------------------------------------------------------
(***************************************************************************)
(* The server.                                                             *)
(***************************************************************************)

\* The cadence of the repository, or sync_now, makes it due again.
BecomeDue ==
    /\ ~due
    /\ due' = TRUE
    /\ UNCHANGED <<gitlabVars, cursor, completeTo, ingested, slot, agentVars>>

\* The rows are upserted (or counted as rejected), the cursor moves up to the
\* newest of them, and a final batch stamps the repository.
Apply(req) ==
    /\ Cardinality(req.runs) <= ServerWindow
    /\ ingested' = ingested \cup req.runs
    /\ \E c \in {cursor} \cup {x.at : x \in req.runs} :
          /\ cursor' = c
          /\ cursor <= c /\ \A x \in req.runs : x.at <= c
    /\ IF req.final
       THEN due' = FALSE /\ completeTo' = req.asOf
       ELSE UNCHANGED <<due, completeTo>>
    /\ slot' = {}

\* The agent that waits for the request gets its answer, or loses it.
Ingest(a) ==
    /\ pc[a] = "await"
    /\ \E req \in slot : Apply(req)
    /\ \/ NextSlice(a) /\ UNCHANGED <<walk, batchCap, withheld, outcome, skipped>>
       \/ "lost" \in Faults /\ PushFailure(a)
       \/ "timeout" \in Faults /\ EndWalk(a, "aborted")
    /\ UNCHANGED gitlabVars

\* Nobody waits any more: the request is applied late, or never.
LateIngest ==
    /\ \A a \in Agents : pc[a] # "await"
    /\ \E req \in slot :
          \/ Apply(req)
          \/ slot' = {} /\ UNCHANGED <<cursor, completeTo, ingested, due>>
    /\ UNCHANGED <<gitlabVars, agentVars>>

-----------------------------------------------------------------------------
AgentStep(a) ==
    \/ Hello(a) \/ ListPage(a) \/ ListFailed(a) \/ NextPage(a)
    \/ PushRuns(a) \/ SyncInProgress(a) \/ Refused(a)
    \/ ServerError(a) \/ StopWaiting(a) \/ Crash(a) \/ Ingest(a)

Next ==
    \/ Tick
    \/ \E r \in Runs : Touch(r)
    \/ BecomeDue
    \/ LateIngest
    \/ \E a \in Agents : AgentStep(a)

Spec == Init /\ [][Next]_vars

-----------------------------------------------------------------------------
GitLabTypeOK ==
    /\ clock \in 0..MaxClock
    /\ updatedAt \in [Runs -> 0..MaxClock]

ServerTypeOK ==
    /\ cursor \in 0..MaxClock
    /\ completeTo \in 0..MaxClock
    /\ ingested \subseteq Rows
    /\ due \in BOOLEAN
    /\ slot \subseteq Request

AgentTypeOK ==
    /\ pc \in [Agents -> PCs]
    /\ walk \in [Agents -> Walk]
    /\ push \in [Agents -> Push]
    /\ batchCap \in [Agents -> Nat \ {0}]
    /\ withheld \in [Agents -> SUBSET Rows]
    /\ outcome \in [Agents -> Outcomes]
    /\ skipped \subseteq Rows

\* Every variable has its type; the counters of pushSlice stay within what
\* its exits allow, since they are tested before they are stored.
TypeOK == GitLabTypeOK /\ ServerTypeOK /\ AgentTypeOK

\* With runs last updated at the times of f, every row older than t is in done.
Covers(f, done, t) ==
    \A r \in Runs : (Backfill <= f[r] /\ f[r] < t) => [run |-> r, at |-> f[r]] \in done

Accounted == ingested \cup skipped

\* The cursor never passes a run that was neither pushed nor given up: "the
\* cursor only ever covers an accepted prefix" (syncRepo), the runs given up
\* aside.  This is what keyset paging, batches in order, halving and retries
\* are for: a run the cursor passes over is never listed again.
CoveredPrefix == Covers(updatedAt, Accounted, cursor)

\* When a repository is stamped as synced, everything its last page could
\* list has been pushed or given up: the final flag is on the very last batch
\* of a walk (repoPush.page), across halvings, and whoever else pushes.
CompletePrefix == Covers(updatedAt, Accounted, completeTo)

\* The strict reading of the comment on syncRepo and of PROTOCOL.md: what the
\* cursor covers has been accepted, so that a run skipped by the poison-pill
\* rule "is retried naturally next cycle".
AcceptedPrefix ==
    \A r \in Runs \ Broken :
        (Backfill <= updatedAt[r] /\ updatedAt[r] < cursor) => Row(r) \in ingested

\* What a walk dropped or skipped is in the outcome the next hello reports:
\* the "partial" code, however the walk ended.
WithheldReported ==
    \A a \in Agents : (pc[a] = "idle" /\ withheld[a] # {}) => outcome[a] = "partial"

\* The walk of one agent is a detail of the contract of SyncContract: no step
\* moves a watermark backwards, or past a run that is unaccounted for.
Contract == INSTANCE SyncContract WITH accounted <- Accounted
GapFreeSync == Contract!Spec

-----------------------------------------------------------------------------
(***************************************************************************)
(* Fairness: the loop of an agent goes on by itself, the server finishes   *)
(* what it processes, and asks for the repository on its cadence.  No      *)
(* failure is obliged to happen, or to stop happening.                     *)
(***************************************************************************)
Fairness ==
    /\ \A a \in Agents :
          /\ WF_vars(Hello(a)) /\ WF_vars(ListPage(a)) /\ WF_vars(NextPage(a))
          /\ WF_vars(PushRuns(a)) /\ WF_vars(SyncInProgress(a))
          /\ WF_vars(Ingest(a) \/ ServerError(a))
    /\ WF_vars(LateIngest)
    /\ WF_vars(BecomeDue)

FairSpec == Spec /\ Fairness

\* A repository that is due gets synced: walks are not repeated for ever, be
\* it for an empty final batch, a page that does not move the filter, or a
\* batch that is too large for the server's processing window.
DueIsServed == due ~> ~due

\* A run that is no longer updated ends up on the server in its final state.
EventuallyIngested ==
    \A r \in Runs \ Broken : <>[](Backfill <= updatedAt[r] => Row(r) \in ingested)

=============================================================================
