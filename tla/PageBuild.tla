----------------------------- MODULE PageBuild -----------------------------
(***************************************************************************)
(* What a row of a page is made of (buildRuns of collector.go).  The list  *)
(* of pipelines is one request, and for the pipelines that need them their *)
(* detail and their jobs are further ones; pipelines change, and are       *)
(* deleted, in between.  The row is a mixture of what GitLab said at three *)
(* times; it is pushed with the time of the first, and the server's cursor *)
(* follows that.                                                           *)
(*                                                                         *)
(* Paging and batches are module RepoSync; here a walk is one page, which  *)
(* is pushed or not.  A version stands for everything a pipeline consists  *)
(* of, its jobs included.                                                  *)
(***************************************************************************)
EXTENDS Integers, FiniteSets

CONSTANTS
    Pipelines,     \* ids of the pipelines of a project
    MaxTime,       \* bound on the time
    MaxEvents      \* bound on changes, deletions and failed requests together

ASSUME PageBuildAssumption ==
    /\ Pipelines \subseteq Nat /\ IsFiniteSet(Pipelines)
    /\ MaxTime \in Nat \ {0} /\ MaxEvents \in Nat

VARIABLES
    now,        \* the time of the latest change
    pipeline,   \* [Pipelines -> its status, time and version, and if it is deleted]
    events,     \* changes, deletions and failures so far; numbers the versions
    lastAt,     \* the server's cursor
    stored,     \* [Pipelines -> the row the server has]
    stage,      \* what the walk does: see Stages
    items,      \* rows of the list not built yet
    item,       \* the row being built
    built       \* rows of the page built so far

gitVars  == <<now, pipeline, events>>
rowVars  == <<items, item, built>>
buildVars == <<gitVars, lastAt, stored, stage, rowVars>>

Stages == {"idle", "detail", "jobs", "push"}

\* "none": not created yet; "canceled" is like "failed", "skipped" like "success".
Statuses == {"none", "running", "success", "failed"}
Terminal == {"success", "failed"}
WithJobs == {"failed"}

\* version is that of the summary, detail and jobs those of the parts fetched
\* separately, 0 if they are not there.
Item == [id : Nat, at : Nat, status : Statuses, version : Nat, detail : Nat, jobs : Nat]
NoItem(p) == [id |-> p, at |-> 0, status |-> "none", version |-> 0, detail |-> 0, jobs |-> 0]
NoRow == NoItem(0)

\* The order of the list: by time, ties by id.
Precedes(x, y) == x.at < y.at \/ (x.at = y.at /\ x.id < y.id)
Latest(S) == CHOOSE t \in {x.at : x \in S} : \A x \in S : x.at <= t
Later(s, t) == IF s < t THEN t ELSE s

BuildInit ==
    /\ now = 1
    /\ pipeline = [p \in Pipelines |-> [at |-> 0, status |-> "none", version |-> 0, deleted |-> FALSE]]
    /\ events = 0
    /\ lastAt = 0
    /\ stored = [p \in Pipelines |-> NoItem(p)]
    /\ stage = "idle"
    /\ items = {} /\ built = {} /\ item = NoRow

-----------------------------------------------------------------------------
(***************************************************************************)
(* GitLab.                                                                 *)
(***************************************************************************)
Event == events < MaxEvents /\ events' = events + 1

Listed(p) == pipeline[p].status # "none"

\* A pipeline is created, proceeds, or runs again, in the same second as the
\* change before or in a later one; its updated_at is the time.
PipelineChanges(p) ==
    /\ ~pipeline[p].deleted
    /\ Event
    /\ now' \in {now, now + 1} /\ now' <= MaxTime
    /\ \E s \in Statuses \ {"none"} :
          pipeline' = [pipeline EXCEPT ![p] =
                          [at |-> now', status |-> s, version |-> events', deleted |-> FALSE]]
    /\ UNCHANGED <<lastAt, stored, stage, rowVars>>

PipelineDeleted(p) ==
    /\ Listed(p)
    /\ Event
    /\ pipeline' = [pipeline EXCEPT ![p] = [at |-> 0, status |-> "none", version |-> 0, deleted |-> TRUE]]
    /\ UNCHANGED <<now, lastAt, stored, stage, rowVars>>

-----------------------------------------------------------------------------
(***************************************************************************)
(* The walk.                                                               *)
(***************************************************************************)

\* The next row of the list is built, or the page is complete.
BuildNextOf(rows) ==
    /\ items' = rows
    /\ IF rows = {}
       THEN stage' = "push" /\ item' = NoRow
       ELSE /\ stage' = "detail"
            /\ item' = CHOOSE x \in rows : \A y \in rows : ~Precedes(y, x)

\* Mutant of ListPipelines: the list starts after the cursor's second.
MutListPipelines(withUser) ==
    /\ stage = "idle"
    /\ LET rows == {[NoItem(p) EXCEPT !.at = pipeline[p].at, !.status = pipeline[p].status,
                                      !.version = pipeline[p].version,
                                      !.detail = IF withUser THEN pipeline[p].version ELSE 0]
                    : p \in {q \in Pipelines : Listed(q) /\ pipeline[q].at > lastAt}}
       IN  rows # {} /\ BuildNextOf(rows)
    /\ built' = {}
    /\ UNCHANGED <<gitVars, lastAt, stored>>

\* One page of the list, from the cursor on; newer GitLabs name the user in it.
ListPipelines(withUser) ==
    /\ stage = "idle"
    /\ LET rows == {[NoItem(p) EXCEPT !.at = pipeline[p].at, !.status = pipeline[p].status,
                                      !.version = pipeline[p].version,
                                      !.detail = IF withUser THEN pipeline[p].version ELSE 0]
                    : p \in {q \in Pipelines : Listed(q) /\ pipeline[q].at >= lastAt}}
       IN  rows # {} /\ BuildNextOf(rows)
    /\ built' = {}
    /\ UNCHANGED <<gitVars, lastAt, stored>>

\* Mutant of FetchDetail: the row takes over the detail's time.
MutFetchDetail ==
    LET p == pipeline[item.id] IN
    /\ stage = "detail"
    /\ IF item.status \in Terminal /\ item.detail = 0 /\ ~p.deleted
       THEN item' = [item EXCEPT !.status = p.status, !.version = p.version, !.detail = p.version,
                                 !.at = p.at]
       ELSE UNCHANGED item
    /\ stage' = "jobs"
    /\ UNCHANGED <<gitVars, lastAt, stored, items, built>>

\* getPipeline, for a terminal row without a user: the detail replaces the row,
\* except for its time; if the pipeline is gone, the row stays what it is.
FetchDetail ==
    LET p == pipeline[item.id] IN
    /\ stage = "detail"
    /\ IF item.status \in Terminal /\ item.detail = 0 /\ ~p.deleted
       THEN item' = [item EXCEPT !.status = p.status, !.version = p.version, !.detail = p.version]
       ELSE UNCHANGED item
    /\ stage' = "jobs"
    /\ UNCHANGED <<gitVars, lastAt, stored, items, built>>

\* The walk fails: nothing of the page is pushed.
AbandonPage ==
    /\ stage' = "idle"
    /\ items' = {} /\ built' = {} /\ item' = NoRow
    /\ UNCHANGED <<lastAt, stored>>

\* listJobs, for a row with a status whose jobs the server stores.  A pipeline
\* that is gone is an error here.
FetchJobs ==
    LET p == pipeline[item.id] IN
    /\ stage = "jobs"
    /\ IF item.status \in WithJobs /\ p.deleted
       THEN AbandonPage
       ELSE /\ built' = built \cup {[item EXCEPT !.jobs = IF item.status \in WithJobs THEN p.version ELSE 0]}
            /\ BuildNextOf(items \ {x \in items : x.id = item.id})
            /\ UNCHANGED <<lastAt, stored>>
    /\ UNCHANGED gitVars

\* A request of the walk fails, to GitLab or to the server.
WalkBreaks ==
    /\ stage # "idle"
    /\ Event
    /\ AbandonPage
    /\ UNCHANGED <<now, pipeline>>

\* Mutant of PushPage: the cursor moves past the newest row.
MutPushPage ==
    /\ stage = "push"
    /\ stored' = [p \in Pipelines |->
                     IF \E x \in built : x.id = p THEN CHOOSE x \in built : x.id = p ELSE stored[p]]
    /\ lastAt' = Later(lastAt, Latest(built) + 1)
    /\ stage' = "idle"
    /\ built' = {}
    /\ UNCHANGED <<gitVars, items, item>>

\* The server upserts the rows by id, and its cursor follows their times.
PushPage ==
    /\ stage = "push"
    /\ stored' = [p \in Pipelines |->
                     IF \E x \in built : x.id = p THEN CHOOSE x \in built : x.id = p ELSE stored[p]]
    /\ lastAt' = Later(lastAt, Latest(built))
    /\ stage' = "idle"
    /\ built' = {}
    /\ UNCHANGED <<gitVars, items, item>>

BuildNext ==
    \/ \E p \in Pipelines : PipelineChanges(p) \/ PipelineDeleted(p)
    \/ \E withUser \in BOOLEAN : ListPipelines(withUser)
    \/ FetchDetail \/ FetchJobs \/ WalkBreaks \/ PushPage

BuildSpec == BuildInit /\ [][BuildNext]_buildVars

-----------------------------------------------------------------------------
\* The row the server has is what GitLab says now, as far as it is owed: the
\* detail of a terminal pipeline, the jobs of a failed one.
Current(p) ==
    /\ stored[p].status = pipeline[p].status
    /\ stored[p].version = pipeline[p].version
    /\ pipeline[p].status \in Terminal => stored[p].detail = pipeline[p].version
    /\ pipeline[p].status \in WithJobs => stored[p].jobs = pipeline[p].version

\* Every variable has its type, and the cursor does not run ahead of the time.
BuildTypeOK ==
    /\ now \in 1..MaxTime
    /\ pipeline \in [Pipelines -> [at : 0..now, status : Statuses, version : 0..events, deleted : BOOLEAN]]
    /\ events \in 0..MaxEvents
    /\ lastAt \in 0..now
    /\ stored \in [Pipelines -> Item]
    /\ stage \in Stages
    /\ items \subseteq Item /\ built \subseteq Item /\ item \in Item

\* A row may be built from answers of different times, and be out of date when
\* it is pushed, but then its pipeline will be listed again: a pipeline the
\* cursor has passed is stored as GitLab has it, with its detail and its jobs.
StaleIsRelisted ==
    \A p \in Pipelines : Listed(p) => Current(p) \/ lastAt <= pipeline[p].at

\* The walk goes on, and a due repository is walked again (RepoSync).
BuildFairness ==
    /\ WF_buildVars(\E withUser \in BOOLEAN : ListPipelines(withUser))
    /\ WF_buildVars(FetchDetail) /\ WF_buildVars(FetchJobs) /\ WF_buildVars(PushPage)

\* A pipeline that has come to rest is stored as it is, however it changed, or
\* others were deleted, while it was fetched.
EventuallyCurrent == \A p \in Pipelines : <>[](Listed(p) => Current(p))

=============================================================================
