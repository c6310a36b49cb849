----------------------------- MODULE AgentLoop -----------------------------
(***************************************************************************)
(* The control loop of one agent (Run of agent.go, cycle and drainLogs of  *)
(* cycle.go): hello asks the server what to do, then the catalog if it is  *)
(* requested, every due repository in turn, and the outstanding job logs.  *)
(* The agent keeps nothing but a copy of the last answer; the connection   *)
(* may be paused, the token revoked and a repository deactivated between   *)
(* any two requests.                                                       *)
(*                                                                         *)
(* The walk of one repository is module RepoSync; here it is a number of   *)
(* accepted batches and the way it ends.  Pauses are left out: an agent    *)
(* that sleeps is one that has not taken its next step yet.  The server    *)
(* lists repositories and jobs in the order of their numbers.              *)
(***************************************************************************)
EXTENDS Integers, FiniteSets

CONSTANTS
    Repos,             \* repositories of the connection
    Jobs,              \* failed jobs whose logs the server may want
    RepoOf,            \* [Jobs -> Repos]
    MaxReported,       \* maxReportedOutcomes
    MaxLogsPerRequest, \* limits.max_logs_per_request
    MaxLogRequests,    \* maxLogRequestsPerCycle
    Trouble,           \* [Repos -> {"none", "error", "timeout"}]: how a walk always ends
    Unreadable,        \* jobs whose trace GitLab fails to deliver
    Unstorable,        \* jobs whose log the server skips
    Once,              \* TRUE: one cycle per process (cron)
    Faults             \* failures that occur, see AllFaults

AllFaults == {"hello_lost", "catalog", "walk", "timeout", "log_lost", "log_error", "rate_short",
              "rate_long", "pause", "revoke", "deactivate", "crash"}

ASSUME AgentLoopAssumption ==
    /\ Repos \subseteq Nat /\ IsFiniteSet(Repos)
    /\ Jobs \subseteq Nat /\ IsFiniteSet(Jobs)
    /\ RepoOf \in [Jobs -> Repos]
    /\ MaxReported \in Nat \ {0} /\ MaxLogsPerRequest \in Nat \ {0} /\ MaxLogRequests \in Nat \ {0}
    /\ Trouble \in [Repos -> {"none", "error", "timeout"}]
    /\ Unreadable \subseteq Jobs /\ Unstorable \subseteq Jobs
    /\ Once \in BOOLEAN
    /\ Faults \subseteq AllFaults

VARIABLES
    \* the server
    active,           \* repositories activated in the dashboard
    due,              \* repositories whose sync is due
    paused,           \* connection.paused
    revoked,          \* the agent's token is revoked
    catalogRequested, \* catalog_requested
    owed,             \* failed jobs without a stored log
    logged,           \* jobs with a stored log, an empty one for a purged trace
    reported,         \* [Repos -> the latest outcome a hello reported]
    \* the agent
    pc,               \* where it is: see PCs
    todo,             \* due repositories of the hello response not walked yet
    wants,            \* the want_logs list last received
    requests,         \* log requests of this drain
    outcomes,         \* outcomes recorded for the next hello
    \* history
    refused           \* a data request since the last hello met a stopper

serverVars == <<active, due, paused, revoked, catalogRequested, owed, logged, reported>>
agentVars  == <<pc, todo, wants, requests, outcomes, refused>>
vars == <<serverVars, agentVars>>

PCs == {"hello",   \* between two cycles
        "catalog", \* pushCatalog
        "repos",   \* the loop over the due repositories
        "drain"}   \* drainLogs

\* status of an outcome; "partial" is told apart in RepoSync.
Statuses == {"none", "ok", "skipped", "error"}

First(S) == CHOOSE x \in S : \A y \in S : x <= y

\* want_logs: recomputed from the database for every answer.
Outstanding(o) == {j \in o : RepoOf[j] \in active}

\* The server answers every data request with 409 connection_suspended or 401.
Suspended == paused \/ revoked

\* wants of one repository, the first one's, at most MaxLogsPerRequest.
Group ==
    LET mine == {j \in wants : RepoOf[j] = RepoOf[First(wants)]}
    IN  {j \in mine : Cardinality({i \in mine : i < j}) < MaxLogsPerRequest}

-----------------------------------------------------------------------------
Init ==
    /\ active \in SUBSET Repos
    /\ due \in SUBSET Repos
    /\ paused = FALSE
    /\ revoked = FALSE
    /\ catalogRequested = TRUE
    /\ owed \in SUBSET Jobs
    /\ logged = {}
    /\ reported = [r \in Repos |-> "none"]
    /\ pc = "hello"
    /\ todo = {}
    /\ wants = {}
    /\ requests = 0
    /\ outcomes = {}
    /\ refused = FALSE

-----------------------------------------------------------------------------
(***************************************************************************)
(* The server's side of the dashboard.                                     *)
(***************************************************************************)
BecomeDue(r) ==
    /\ r \notin due
    /\ due' = due \cup {r}
    /\ UNCHANGED <<active, paused, revoked, catalogRequested, owed, logged, reported, agentVars>>

RequestCatalog ==
    /\ ~catalogRequested
    /\ catalogRequested' = TRUE
    /\ UNCHANGED <<active, due, paused, revoked, owed, logged, reported, agentVars>>

TogglePause ==
    /\ "pause" \in Faults
    /\ paused' = ~paused
    /\ UNCHANGED <<active, due, revoked, catalogRequested, owed, logged, reported, agentVars>>

ToggleActive(r) ==
    /\ "deactivate" \in Faults
    /\ active' = IF r \in active THEN active \ {r} ELSE active \cup {r}
    /\ UNCHANGED <<due, paused, revoked, catalogRequested, owed, logged, reported, agentVars>>

Revoke ==
    /\ "revoke" \in Faults /\ ~revoked
    /\ revoked' = TRUE
    /\ UNCHANGED <<active, due, paused, catalogRequested, owed, logged, reported, agentVars>>

-----------------------------------------------------------------------------
(***************************************************************************)
(* The cycle.                                                              *)
(***************************************************************************)

\* Mutant of Recorded: an outcome too many is kept.
MutRecorded(r, status) ==
    IF Cardinality(outcomes) <= MaxReported THEN outcomes \cup {[repo |-> r, status |-> status]}
                                            ELSE outcomes

\* recordOutcome: what does not fit the heartbeat is not kept.
Recorded(r, status) ==
    IF Cardinality(outcomes) < MaxReported THEN outcomes \cup {[repo |-> r, status |-> status]}
                                           ELSE outcomes

\* cycle returns with these outcomes.  With -once the process exits, and cron
\* starts another one.
EndCycle(results) ==
    /\ pc' = "hello"
    /\ todo' = {} /\ wants' = {} /\ requests' = 0
    /\ outcomes' = IF Once THEN {} ELSE results

\* What a hello reports replaces what was known of those repositories.
ReportOutcomes ==
    reported' = [r \in Repos |->
        IF \E o \in outcomes : o.repo = r THEN (CHOOSE o \in outcomes : o.repo = r).status
                                          ELSE reported[r]]

\* The answer of hello starts a cycle, unless the connection is paused.
StartCycle(list) ==
    /\ refused' = FALSE
    /\ IF paused
       THEN UNCHANGED <<pc, todo, wants>>
       ELSE /\ pc' = IF catalogRequested THEN "catalog" ELSE "repos"
            /\ todo' = due \cap active
            /\ wants' = list
    /\ UNCHANGED <<active, due, paused, revoked, catalogRequested, owed, logged, requests>>

\* Mutant of Hello: the log requests of the hello response are not used.
MutHelloNoWants ==
    /\ pc = "hello" /\ ~revoked
    /\ ReportOutcomes
    /\ outcomes' = {}
    /\ StartCycle({})

\* Mutant of Hello: the outcomes stay after they were delivered.
MutHelloKeepsOutcomes ==
    /\ pc = "hello" /\ ~revoked
    /\ ReportOutcomes
    /\ UNCHANGED outcomes
    /\ StartCycle(Outstanding(owed))

\* Mutant of Hello: the outcomes are lost on their way.
MutHelloDropsOutcomes ==
    /\ pc = "hello" /\ ~revoked
    /\ UNCHANGED reported
    /\ outcomes' = {}
    /\ StartCycle(Outstanding(owed))

\* hello succeeds: the outcomes are delivered, and a cycle may start.
Hello ==
    /\ pc = "hello" /\ ~revoked
    /\ ReportOutcomes
    /\ outcomes' = {}
    /\ StartCycle(Outstanding(owed))

\* hello reaches the server, its answer does not reach the agent.
HelloLost ==
    /\ "hello_lost" \in Faults
    /\ pc = "hello" /\ ~revoked
    /\ ReportOutcomes
    /\ UNCHANGED <<active, due, paused, revoked, catalogRequested, owed, logged, agentVars>>

\* A data request, or the retrieval of the data, ends the cycle: the server
\* suspended the connection or rejects the token, or a client timed out.
Stopper ==
    \/ Suspended /\ refused' = TRUE
    \/ "timeout" \in Faults /\ UNCHANGED refused

\* Mutant of PushCatalog: a stopper does not stop the cycle.
MutPushCatalogGoesOn ==
    /\ pc = "catalog"
    /\ \/ /\ ~Suspended
          /\ catalogRequested' = FALSE
          /\ pc' = "repos"
          /\ UNCHANGED <<todo, wants, requests, outcomes, refused>>
       \/ /\ "catalog" \in Faults
          /\ pc' = "repos"
          /\ UNCHANGED <<catalogRequested, todo, wants, requests, outcomes, refused>>
       \/ Stopper /\ pc' = "repos" /\ UNCHANGED <<catalogRequested, todo, wants, requests, outcomes>>
    /\ UNCHANGED <<active, due, paused, revoked, owed, logged, reported>>

\* The catalog is pushed; if the projects cannot be listed, or the push fails,
\* the cycle goes on and the server asks again.
PushCatalog ==
    /\ pc = "catalog"
    /\ \/ /\ ~Suspended
          /\ catalogRequested' = FALSE
          /\ pc' = "repos"
          /\ UNCHANGED <<todo, wants, requests, outcomes, refused>>
       \/ /\ "catalog" \in Faults
          /\ pc' = "repos"
          /\ UNCHANGED <<catalogRequested, todo, wants, requests, outcomes, refused>>
       \/ Stopper /\ EndCycle(outcomes) /\ UNCHANGED catalogRequested
    /\ UNCHANGED <<active, due, paused, revoked, owed, logged, reported>>

-----------------------------------------------------------------------------
(***************************************************************************)
(* The loop over the due repositories.                                     *)
(***************************************************************************)

\* Mutant of PushBatch: a walk that is over does not leave the list.
MutPushBatchStays(final) ==
    LET r == First(todo) IN
    /\ pc = "repos" /\ todo # {}
    /\ r \in active /\ ~Suspended
    /\ final => Trouble[r] = "none"
    /\ \E new \in SUBSET {j \in Jobs \ (owed \cup logged) : RepoOf[j] = r} :
          /\ owed' = owed \cup new
          /\ wants' = Outstanding(owed')
    /\ IF final
       THEN due' = due \ {r} /\ outcomes' = Recorded(r, "ok")
       ELSE UNCHANGED <<due, outcomes>>
    /\ UNCHANGED <<active, paused, revoked, catalogRequested, logged, reported, pc, todo, requests,
                   refused>>

\* A batch of the walk is accepted: jobs it brings may be owed a log, and the
\* answer carries the outstanding list.
PushBatch(final) ==
    LET r == First(todo) IN
    /\ pc = "repos" /\ todo # {}
    /\ r \in active /\ ~Suspended
    /\ final => Trouble[r] = "none"
    /\ \E new \in SUBSET {j \in Jobs \ (owed \cup logged) : RepoOf[j] = r} :
          /\ owed' = owed \cup new
          /\ wants' = Outstanding(owed')
    /\ IF final
       THEN /\ due' = due \ {r}
            /\ todo' = todo \ {r}
            /\ outcomes' = Recorded(r, "ok")
       ELSE UNCHANGED <<due, todo, outcomes>>
    /\ UNCHANGED <<active, paused, revoked, catalogRequested, logged, reported, pc, requests, refused>>

\* Mutant of WalkFails: any failure of a walk stops the cycle.
MutWalkFailsStops ==
    LET r == First(todo) IN
    /\ pc = "repos" /\ todo # {}
    /\ \/ r \notin active /\ ~Suspended /\ outcomes' = Recorded(r, "skipped")
       \/ "walk" \in Faults /\ \E status \in Statuses \ {"none"} : outcomes' = Recorded(r, status)
       \/ Trouble[r] = "error" /\ outcomes' = Recorded(r, "error")
    /\ pc' = "hello"
    /\ todo' = {} /\ wants' = {} /\ requests' = 0
    /\ UNCHANGED <<serverVars, refused>>

\* The walk of a repository ends without a final batch, the others are still
\* walked.  It may end "ok" and the repository stay due: the final batch, of one
\* row or none, was skipped as undeliverable.
WalkFails ==
    LET r == First(todo) IN
    /\ pc = "repos" /\ todo # {}
    /\ \/ r \notin active /\ ~Suspended /\ outcomes' = Recorded(r, "skipped")
       \/ "walk" \in Faults /\ \E status \in Statuses \ {"none"} : outcomes' = Recorded(r, status)
       \/ Trouble[r] = "error" /\ outcomes' = Recorded(r, "error")
    /\ todo' = todo \ {r}
    /\ UNCHANGED <<serverVars, pc, wants, requests, refused>>

\* The walk is aborted, and the cycle with it.
WalkStops ==
    LET r == First(todo) IN
    /\ pc = "repos" /\ todo # {}
    /\ \/ Stopper
       \/ Trouble[r] = "timeout" /\ UNCHANGED refused
    /\ EndCycle(Recorded(r, "error"))
    /\ UNCHANGED serverVars

StartDrain ==
    /\ pc = "repos" /\ todo = {}
    /\ pc' = "drain"
    /\ requests' = 0
    /\ UNCHANGED <<serverVars, todo, wants, outcomes, refused>>

-----------------------------------------------------------------------------
(***************************************************************************)
(* The log drain.                                                          *)
(***************************************************************************)
MayPushLogs == pc = "drain" /\ wants # {} /\ requests < MaxLogRequests
TracesRead  == Group \cap Unreadable = {}

\* Nothing left to do, the cap is reached, or a trace of the next request
\* cannot be fetched.
EndDrain ==
    /\ pc = "drain"
    /\ wants = {} \/ requests >= MaxLogRequests \/ ~TracesRead
    /\ EndCycle(outcomes)
    /\ UNCHANGED <<serverVars, refused>>

\* Mutant of LogsStored: the answer's list is not used.
MutLogsStoredKeepsWants ==
    LET stored == Group \ Unstorable IN
    /\ MayPushLogs /\ TracesRead
    /\ RepoOf[First(wants)] \in active /\ ~Suspended
    /\ owed' = owed \ stored /\ logged' = logged \cup stored
    /\ IF stored = {}
       THEN EndCycle(outcomes)
       ELSE /\ requests' = requests + 1
            /\ UNCHANGED <<pc, todo, outcomes, wants>>
    /\ UNCHANGED <<active, due, paused, revoked, catalogRequested, reported, refused>>

\* The logs are stored, or skipped; the answer carries what is left.  Without
\* any progress the drain is over.
LogsStored ==
    LET stored == Group \ Unstorable IN
    /\ MayPushLogs /\ TracesRead
    /\ RepoOf[First(wants)] \in active /\ ~Suspended
    /\ owed' = owed \ stored /\ logged' = logged \cup stored
    /\ IF stored = {} /\ Outstanding(owed') = wants
       THEN EndCycle(outcomes)
       ELSE /\ wants' = Outstanding(owed')
            /\ requests' = requests + 1
            /\ UNCHANGED <<pc, todo, outcomes>>
    /\ UNCHANGED <<active, due, paused, revoked, catalogRequested, reported, refused>>

\* The logs are stored, but the answer is lost.
LogsLost ==
    /\ "log_lost" \in Faults
    /\ MayPushLogs /\ TracesRead
    /\ RepoOf[First(wants)] \in active /\ ~Suspended
    /\ owed' = owed \ (Group \ Unstorable) /\ logged' = logged \cup (Group \ Unstorable)
    /\ EndCycle(outcomes)
    /\ UNCHANGED <<active, due, paused, revoked, catalogRequested, reported, refused>>

\* The request is refused: a repository that is gone leaves the list, a short
\* rate window repeats the request, anything else ends the drain.
LogsRefused ==
    /\ MayPushLogs /\ TracesRead
    /\ \/ /\ RepoOf[First(wants)] \notin active /\ ~Suspended
          /\ wants' = {j \in wants : RepoOf[j] # RepoOf[First(wants)]}
          /\ requests' = requests + 1
          /\ UNCHANGED <<pc, todo, outcomes, refused>>
       \/ /\ "rate_short" \in Faults
          /\ requests' = requests + 1
          /\ UNCHANGED <<pc, todo, outcomes, wants, refused>>
       \/ "rate_long" \in Faults /\ EndCycle(outcomes) /\ UNCHANGED refused
       \/ "log_error" \in Faults /\ EndCycle(outcomes) /\ UNCHANGED refused
       \/ Stopper /\ EndCycle(outcomes)
    /\ UNCHANGED serverVars

-----------------------------------------------------------------------------
\* The process dies and is started again, with a valid token if need be.
Restart ==
    /\ "crash" \in Faults \/ revoked
    /\ pc' = "hello"
    /\ todo' = {} /\ wants' = {} /\ requests' = 0
    /\ outcomes' = {}
    /\ refused' = FALSE
    /\ revoked' = FALSE
    /\ UNCHANGED <<active, due, paused, catalogRequested, owed, logged, reported>>

Next ==
    \/ \E r \in Repos : BecomeDue(r) \/ ToggleActive(r)
    \/ RequestCatalog \/ TogglePause \/ Revoke
    \/ Hello \/ HelloLost \/ PushCatalog
    \/ PushBatch(FALSE) \/ PushBatch(TRUE) \/ WalkFails \/ WalkStops
    \/ StartDrain \/ EndDrain \/ LogsStored \/ LogsLost \/ LogsRefused
    \/ Restart

Spec == Init /\ [][Next]_vars

-----------------------------------------------------------------------------
Outcome == [repo : Repos, status : Statuses]

\* Every variable has its type; the outcomes fit the heartbeat, however many
\* repositories are walked before a hello gets through, and a drain makes no more
\* requests than its cap allows.
TypeOK ==
    /\ active \subseteq Repos /\ due \subseteq Repos
    /\ paused \in BOOLEAN /\ revoked \in BOOLEAN /\ catalogRequested \in BOOLEAN
    /\ owed \subseteq Jobs /\ logged \subseteq Jobs
    /\ reported \in [Repos -> Statuses]
    /\ pc \in PCs
    /\ todo \subseteq Repos
    /\ wants \subseteq Jobs
    /\ requests \in 0..MaxLogRequests
    /\ outcomes \subseteq Outcome /\ Cardinality(outcomes) <= MaxReported
    /\ refused \in BOOLEAN

\* A request that met the suspension of the connection, or a rejected token,
\* is the last data request before the next hello, whichever of catalog, runs
\* and logs it was: "Stop pushing; keep hello polling" (PROTOCOL.md).
StopperEndsCycle == refused => pc = "hello"

\* A heartbeat carries one cycle's outcomes, each repository's at most once:
\* an outcome is cleared before its repository can be walked again, although
\* it is kept for as long as no hello gets through.
OneOutcomePerRepo ==
    /\ \A o, p \in outcomes : o.repo = p.repo => o = p
    /\ \A o \in outcomes : o.repo \notin todo

\* The agent fetches and pushes no log that is stored already: the list it
\* works on, of the hello or of the latest runs or logs answer, holds only
\* jobs the server is still owed.
WantsOwed == wants \subseteq owed

-----------------------------------------------------------------------------
(***************************************************************************)
(* Fairness: the loop goes on by itself, and a walk comes to its end       *)
(* (DueIsServed of RepoSync).  No failure has to happen, or to stop        *)
(* happening.                                                              *)
(***************************************************************************)
FairSpec ==
    /\ Spec
    /\ WF_vars(Hello) /\ WF_vars(PushCatalog)
    /\ WF_vars(PushBatch(TRUE) \/ WalkFails \/ WalkStops)
    /\ WF_vars(StartDrain) /\ WF_vars(EndDrain)
    /\ WF_vars(LogsStored \/ LogsLost \/ LogsRefused)

\* Every cycle ends, so that the heartbeat goes on, whichever repositories
\* fail, and however often the server refuses or skips the logs (drainLogs).
CycleEnds == pc # "hello" ~> pc = "hello"

\* A due repository whose walk can succeed is synced, whatever becomes of the
\* walks of the others.
DueServed ==
    \A r \in Repos :
        Trouble[r] = "none" => ((r \in due /\ r \in active) ~> (r \notin due \/ r \notin active))

\* A log GitLab can deliver is pushed in the end: "anything left over simply
\* drains on later cycles" (drainLogs).
LogsDrained ==
    \A j \in Jobs \ (Unreadable \cup Unstorable) :
        (j \in owed /\ RepoOf[j] \in active) ~> (j \notin owed \/ RepoOf[j] \notin active)

\* What is recorded of a walk reaches the server with a later hello, also if
\* the answers of some hellos are lost.
OutcomesReported ==
    \A r \in Repos, status \in Statuses :
        [repo |-> r, status |-> status] \in outcomes ~> reported[r] = status

=============================================================================
