# TLA+ models of trimci-agent

`trimci-agent` pulls pipeline data out of a self-hosted GitLab and pushes it to the
TrimCI ingest API. One process runs one sequential loop and keeps no state on disk:
every cycle starts with a `hello` that returns what to do, and from which cursor. The
interesting part is therefore not parallelism inside the process but what lies between
the agent, a GitLab whose pipelines change while they are listed, and a server whose
answers may be late, lost, or refusals - plus a second agent started by mistake on the
same token.

## Components

| Component | Source | State | Operations | Correct if |
|---|---|---|---|---|
| Repository sync | `internal/agentloop/cycle.go` (`syncRepo` .. `skipPoison`), `internal/collector/gitlabci/collector.go` (`ListRuns`, `buildRuns`) | filter floor, page number, rows of the page, batches still to push, `batchCap`, failure counters | list a page, cut it, push, halve, skip, end | the server's cursor never passes a run that was not delivered; the final flag comes last; walks end; settled runs arrive |
| Rows of a page | `collector.go` (`buildRuns`, `getPipeline`, `listJobs`) | rows of the page built so far | list, detail, jobs, push | a row made of answers of different times is either current or listed again |
| Control loop | `internal/agentloop/agent.go`, `cycle.go` (`cycle`, `pushCatalog`, `recordOutcome`) | copy of the hello answer, outcomes for the next hello | hello, catalog, next repository, stop | a failing repository is not in the way of others; stoppers stop; outcomes get through; the heartbeat goes on; a signal, and nothing else, ends the process |
| Log drain | `cycle.go` (`drainLogs`), `collector.go` (`LogTail`) | outstanding list, number of requests | group, fetch, push, give up | the backlog drains; the drain ends; nothing is pushed twice |
| Ingest transport | `internal/api` | none | one POST per call, classification of its failure | used through the above |
| GitLab client | `internal/collector/gitlabci/client.go`, `collector.go` (`ListProjects`, `listJobs`, `LogTail`) | attempt counter, page number, list or buffer read so far | GET with bounded 429 retries, pages, tail of a trace | bounded waits; lists are complete up to their limit; the tail is the tail |
| Backoff | `internal/backoff` | failure streak | `Next`, `Reset` | delay within 1 s .. 15 min for every streak |
| Health endpoint | `internal/healthz` | last successful hello, interval | record, probe | healthy while the agent works, and not during an outage |
| Start-up | `cmd/trimci-agent/main.go` | signal, exit code | start, signal, exit, `-healthcheck` | exit codes say what happened |
| Scope guard, versions, configuration, log redaction | `scope.go`, `internal/semver`, `internal/config`, `internal/logredact` | none | pure functions | - |

The parts call each other in one goroutine (the health endpoint reads its state under a
mutex from another). Server, GitLab and dashboard act at any time.

Hard behaviours, with their lines, are the `hazards` of `PROJECT.json`.

## Modules

| Module | Models |
|---|---|
| `SyncContract` | Abstract: what the sync of one repository promises. Two watermarks (the cursor; the time up to which a finished walk claims completeness) never run ahead of the rows accounted for, and never move back. |
| `RepoSync` | Detailed: several agents, GitLab's listing and the server's upserts for one repository. |
| `MCRepoSync`, `MCRepoSyncGitLabs` | Its small instances; the second module composes three of them. |
| `RepoSyncProofs` | Its theorems. |
| `AgentLoop` | The cycle of one agent over several repositories and the log drain; the walk of a repository is reduced to accepted batches and an ending. |
| `MCAgentLoop`, `AgentLoopProofs` | Its instances and theorems. |
| `PageBuild`, `PageBuildProofs` | How a row of a page is made of three requests while pipelines change, and the cursor that follows it. |
| `Durations`, `DurationsProofs` | The delays the agent computes, in 64-bit arithmetic. |
| `Process`, `ProcessProofs` | The process around the cycle, on a clock: start-up, probe, hello, pauses, signal, health check. Extends `Durations`. |
| `OffsetPages`, `OffsetPagesProofs` | The lists read by page number: jobs of a pipeline, projects of the catalog. |
| `TraceTail`, `TraceTailProofs` | The buffer that keeps the end of a trace. |
| `NumberLemmas` | Facts about natural numbers the proofs share: the least member of a set, induction, recursive functions. |
| `MCAgentParts` | Small instances of the last four and of `PageBuild`. |

`RepoSync` has the cycle of a repository in full and reduces a row to its time; `PageBuild`
has the row in full and reduces the walk to one page. `AgentLoop` has the cycle in full and
reduces a walk to its ending; `Process` reduces the cycle to its requests and pauses. The parts of
`MCAgentParts` share no state, so that a behaviour runs one of them, chosen by the variable
`part`.

### RepoSync and the code

A *row* is a run at the time of its last update; nothing else of a run matters to paging,
batching and cursors. GitLab is `clock` and `updatedAt`; `Touch` updates any run at any
time, in the middle of a walk as well if `LiveUpdates`. The listing is inclusive
(`updated_at >= updated_after`, `collector_test.go:72`) and, by assumption, ties are
broken by id.

| Code | Action or definition |
|---|---|
| `Run` -> `sinceOf`, start of `syncRepo` | `Hello` |
| loop body of `ListRuns` with `buildRuns`, `repoPush.page`, `splitBatches` | `ListPage` (`Parsed`, `Splits`), `NextPage` (`FilterMoves`) |
| any error of the GitLab client | `ListFailed` |
| `pushSlice`, by answer: admitted / 409 / 413, 429, 4xx / 5xx, transport, timeout / 2xx | `PushRuns` / `SyncInProgress` / `Refused` / `ServerError`, `StopWaiting` / `Ingest` |
| `halve`, `skipPoison`, return nil | `Halve`, `SkipPoison`, `NextSlice` |
| the switch of `syncRepo` on the walk's error | `EndWalk` |
| the process dies and is restarted | `Crash` |
| server: upsert, cursor, `final`, one request per connection at a time | `Apply`, `slot`, `LateIngest`, `BecomeDue` |

The recursion of `halve` is a set: `push[a].ends` holds the last row of every batch still
to push except the last batch; the batch at hand (`Slice`) is everything pending up to
the first of them, and halving adds one end. A batch is final exactly if it is all that
is pending of the last page.

Abstractions: where the byte cap cuts a page is open (any cut within `batchCap`); pauses
are not steps, so that a short 429, which only pauses, is a stutter; a row the server
rejects counts as ingested (the server moves the cursor over it); the clamp of the cursor
to server time does nothing because no row is newer than the clock; the retention window
does not move. The server's side is external: it is modelled from `docs/PROTOCOL.md`
and the tests' fake server. `completeTo`, `asOf` and `skipped` are history variables.

A timeout of the HTTP client ends the cycle instead of being retried, because that is
what the code does: the error of `http.Client.Timeout` matches
`context.DeadlineExceeded`, `post` hands it on unwrapped, and `isCycleStopper` comes
first in `pushSlice`.

### AgentLoop and the code

`Hello` is `Run` from the request to the decision about the cycle (`StartCycle`),
`ReportOutcomes` is `buildHello` seen from the server, `HelloLost` the failure that leaves
the outcomes where they are. `PushCatalog`, `PushBatch`/`WalkFails`/`WalkStops`, `StartDrain`,
`EndDrain`/`LogsStored`/`LogsLost`/`LogsRefused` are the three phases of `cycle`. `PushBatch`
stands for every accepted batch of a walk, `WalkFails` for the ends of a walk without a final
batch that let the cycle go on, `WalkStops` for those that return `stop`. A walk may end "ok"
and leave its repository due: the final batch, of one row or none, was skipped as undeliverable.
`Recorded` drops what exceeds `MaxReported`, as `recordOutcome` does. Lists are sets in the order of their numbers,
which is the server's order. `Trouble` fixes the fate of a repository's walks, `Unreadable`
and `Unstorable` that of logs. Failures that only delay (hello retries, 426, short 429 on
runs) are stutters.

### Process, Durations and the code

Time is counted in seconds. It passes in pauses (`EndPause`, which is `Sleep`; `wait` is the
pause under way) and in requests, each of which takes any time up to the timeout of its client:
30 s for the probe of GitLab, up to 150 s for a hello and the requests of a cycle, which is the
timeout of the ingest client (a trace has 120 s). `Spend` is the time of everything but the sleep
after a cycle, which is `Idle`. `silent` is the time since the last good hello, counted whatever
the agent does and as far as `Healthy` can tell it apart.

| Code | Action or definition |
|---|---|
| `main`, `run` up to `agent.Run` | `StartProcess` |
| `signal.NotifyContext` | `Signal` |
| `Sleep` | `Pause`, then `EndPause` (its two cases are the two cases of the `select`) |
| `buildHello` -> `Describe` -> `getJSON` -> `do` | `Probed`, `ProbeThrottled` |
| `Run`, hello failed | `HelloFails`, `RetryHello` (`Failures` and `HelloDelays` are `classifyHelloFailure`, `Streak` the counter of `Next`) |
| `Run`, hello succeeded | `HelloSucceeds` (`HelloSucceeded`, `Reset`, `pollInterval`) |
| a request of the cycle, with the pause of `pushSlice`, `drainLogs` or `do` that follows it | `CycleRequest` |
| a push answered with a short 429 | `PushThrottled` |
| return from `cycle` | `CycleReturns` |
| `/healthz` as seen by `-healthcheck` | `Healthy` |

The jitter of `Next` is uniform from 0 to the ceiling and at least one second: the model takes
the two ends. `BackoffCeiling` and `RetryAfterOf` compute in units of 512 ns, of which every
number of seconds is a multiple, so that a 64-bit number of nanoseconds is a 55-bit number of
units (`hi`, `lo`), with the same sign and the same wrap-around. `failure` is the error that the
sleep under way follows. `failures` (of the kind the backoff counts, since the last good hello),
`held` and `work` are history variables: `RetriesPaced` ties the sleep to the kind of failure and
to `failures`, which is counted apart from the `streak` the code computes with.

### PageBuild and the code

`ListPipelines` is the request of `ListRuns` (with or without `user` in the summary, as newer
and older GitLabs do), `FetchDetail` the enrichment of a terminal row, `FetchJobs` the rest of
the loop body, `PushPage` the accepted batch with the server's upsert and cursor. A version
number stands for everything a pipeline consists of; `version`, `detail` and `jobs` of a row say
which version each part was fetched from. The time of the row is that of the list. `WalkBreaks`
is any error on the way: `buildRuns` returns it and nothing of the page is pushed. The one
second by which the filter is moved back is left out: it only makes the walk list more.

### OffsetPages, TraceTail and the code

`ReadPage` is one round of the loop of `ListProjects` or `listJobs`; the two differ in their order
and in what GitLab does to the list meanwhile (`JobRetried`; `ProjectAdded`, `ProjectRemoved`). An
entry is a number; those that appear while the list is read have numbers of their own. A job that
is retried leaves the list of latest jobs, wherever it stands, and its successor, with the highest
id, enters it at the front; a new project may enter the list of projects, which is by path,
anywhere. `listJobs` does not return `truncated`; the model keeps it for both.

`TraceTail` has one action per event of `readTail`. A trace is its number of bytes (`size`) and the
positions at which its characters begin (`starts`), which is all that `[]rune(string(raw))` looks
at: `Runes` turns each complete character into a rune and each byte of one that was cut into
U+FFFD. The buffer is the range `first..received`. `Texts` says what UTF-8 promises: a character
has four bytes at most, and a byte that is no UTF-8 is a character of its own.

## Runs

Bounds common to the `RepoSync` runs: three runs (two with two agents), two or three
rows a page, times up to 3..7, overlap one tick, one mutex retry. Two rows a page and
three runs give a full page followed by another, a page whose batches split, and a run that
overtakes another between two pages. The third instance of `RepoSyncSafe` has three runs on the
last page and in one batch, so that the second half of a batch is halved again and the final
flag goes down two levels. `TypeOK` of `RepoSync` is checked on those three instances, where
requests fail in every way that counts; the theorem `TypeCorrect` covers the failures of the other runs.

| Run | Question | Result |
|---|---|---|
| `RepoSyncSafe` | Is everything below the cursor, and below the sync stamp, covered - on a GitLab whose runs change during the walk (but not a full page in one second: `Bursts = FALSE`), on a quiet one with full pages in one second, unparseable rows, 5xx, lost answers, and on one at rest whose batches of three are halved twice? | holds |
| `RepoSyncShared` | Do two agents with crashes, timeouts and orphaned requests implement `SyncContract`? | holds |
| `RepoSyncFair` | Is a due repository synced, and does a settled run arrive, though batches above the server's window fail, full pages share a second and rows do not parse? | holds |
| `RepoSyncSkip` | Does the cursor only cover accepted rows? | violated |
| `RepoSyncOffset` | As `RepoSyncSafe` on the changing GitLab, but with a full page in one second | violated |
| `RepoSyncTimeout` | As `RepoSyncFair`, with one constant changed: the slow batch ends in the client's timeout | violated |
| `RepoSyncReport` | Does the next hello report what was skipped or dropped? | violated |
| `AgentLoopSafe` | Suspension, stale lists, outcomes of one cycle, no more than fit - and does every cycle end - under all failures together? | holds |
| `AgentLoopFair` | Is everybody served beside a repository that always fails? Do logs drain, outcomes arrive? | holds |
| `AgentLoopHeadOfLine` | Do logs drain if one trace cannot be fetched? | violated |
| `AgentParts` | Delays for every streak and extreme headers, exit codes, signal, health; rows built while pipelines change; offset lists that change while read; tails cut anywhere | holds |
| `CatalogGap` | Is a catalog that is not marked as truncated complete? | violated |

`RepoSyncSafe` checks three instances of `RepoSync` in one run: the variable `gitlab`, which never
changes, says which of them a behaviour belongs to, and the other two are `INSTANCE ... WITH` other
constants on the same variables. `AgentLoopSafe` checks `CycleEnds` under all failures: none of them
is obliged to happen, so that a cycle without an end would not be saved by one.

Two agents, repositories or jobs are enough for one to be in the way of the other; three jobs,
interleaved over two repositories, make a request cap of one bite. `AgentLoopSafe` has room for
one outcome of two repositories in its heartbeat, so that `recordOutcome` drops one.

Bounds of `AgentParts`. Process: a rate window of hello absent, or longer than any other delay; one
of a push absent, or the longest that is honored inline; Retry-After of GitLab absent, one second
above its cap, and 2^35 s, whose nanoseconds wrap; requests of no time, 30 s and 150 s, the two
timeouts; pauses of 30 s; two requests in a cycle beside any number of throttled pushes; all 64
failure streaks. The poll intervals are short, 10 s and 20 s, so that both limits of the health
check, four and five intervals, lie among the sums of such times and are reached from below and
above by the cycle, the probe, failed hellos and their delays; an absent interval, which
becomes a minute, is left to the theorems (`PollIntervalPositive`), which hold for all values. PageBuild:
two pipelines, three times and three events are enough for one to change between any two of the
requests of its row while another is built, in the same second or a later one, and for a deletion
after that. OffsetPages: lists of up to six, pages of two, a limit of four (on a page boundary; lists
of three, four and five lie on its sides) and two changes. TraceTail: traces of up to 14 bytes, cut
into characters of one to four bytes in every way, and reads of up to five bytes for a tail of two
characters; its buffer of twelve is cut at every place of a character. Deadlock is not checked in these two runs: the
process exits, calls return and the events of `PageBuild` are used up.

### What the violated runs show

- **A skipped run is lost** (`RepoSyncSkip`). The poison-pill rule goes on with the next
  batch, whose acceptance moves the cursor past the skipped run. It is *not* "retried
  naturally next cycle".
- **The offset fallback has the gap keyset paging avoids** (`RepoSyncOffset`). A run
  updated between two offset pages of a stuck second shifts the rest.
- **Timeouts livelock** (`RepoSyncTimeout`). A timeout aborts the cycle before it could be
  counted, so that the batch is never halved.
- **Skips go unreported** (`RepoSyncReport`) when the walk fails later on.
- **One trace blocks the drain** (`AgentLoopHeadOfLine`).
- **The catalog can miss a project** (`CatalogGap`). One that is removed between two pages
  shifts the next one; the project that falls in between is missing although it was there all
  the time, and the catalog is not marked as truncated. Additions and retried jobs only make an
  entry appear twice (`NothingMissed`).

Two consequences need no run of their own. `DueServed` fails too if the repository in trouble
times out rather than fails (`Trouble = "timeout"`), since every cycle then stops at it; and
`OutcomesReported` fails with `Once = TRUE`, where the process exits before its next hello.

What the health check does not promise: that an agent which works is always healthy.
`HealthyWhileWorking` says exactly how much time the five intervals leave: the sleep after a cycle
takes one, and requests, pauses, the probe and failed hellos may together take less than four.
With the default of a minute two requests that use up most of their 150 s are enough to exceed them,
and so is one backoff of five minutes in a cycle; then the check fails although the next hello may
succeed. In the other direction nothing is missed: `OutageShows`. A number of seconds above 9.2e9
in Retry-After wraps to a negative delay and is no pause at all; `ThrottleBounded` is about the cap
only and does not exclude it.

## Fairness

`RepoSync!Fairness`: weak fairness for each agent's own steps (it is a loop that waits for
nobody but its requests, which have timeouts), for the server's processing of a request, for
orphaned requests being dealt with, and for the repository's cadence. Failures are never
obliged to happen, nor to stop: in `RepoSyncFair` a batch above `ServerWindow` fails every
time. `AgentLoop!FairSpec`: weak fairness for the phases of the cycle. That a walk comes to
its end is an assumption there, justified by `DueIsServed` of `RepoSync`. Nothing forces
`BecomeDue`, pausing or deactivation.

`ProcFairness` is weak fairness only: a pause ends, and so do the probe, hello and the requests of
a cycle, in whatever way (the clients have timeouts). That does not make a cycle return: a server
that answers every push with a short 429 keeps the agent in `pushSlice` for ever, since nothing
there counts these answers. `HellosGoOn` therefore states this behaviour as its exception
(`[]<><<PushPaused>>`) instead of assuming it away; every other pause is counted by the code, which
`MaxRequests` stands for. `OutageShows` and `SignalStops` need no exception. Neither answers nor
signals are ever obliged to come out in any way.
`BuildFairness`: the walk goes on, and is
repeated; that a due repository is walked again is `DueIsServed`.

## Proofs

All theorems hold for every value of the constants that satisfies the `ASSUME`s.

- `TypeCorrect`: type correctness of `RepoSync`; the step that needs an argument is that the
  failure counter is tested before it is stored, so it never exceeds two.
- `GapFree`, and from it `CursorCovered`, `StampCovered`, `ImplementsContract`, under the
  hypothesis `~Bursts \/ ~LiveUpdates`: no second holds a full page (unparseable rows all counted
  in), or no run changes during a walk. This is sharp: with both, `RepoSyncOffset` shows
  the gap. `CoveredPrefix` alone is not inductive: whether a batch may move the cursor depends on
  what lies between it and the rows already delivered. The inductive `GapFreeInv` says where an
  agent is: everything below its filter is accounted for, and so are the pages of the filter
  before the one at hand (`WalkInv`); everything older than one of the rows pending on its page
  is accounted for, or pending too, and a full page moves the filter or completes one more page of
  it (`PageInv`); a batch in flight carries everything that separates its newest row from what is
  accounted for, even when its agent is gone (`RequestInv`); and at most one agent waits
  (`AwaitInv`). Updates cannot break it because they move a run to the present, which no
  watermark has reached (`EnvInv`, `ServerInv`). Why a page leaves no gap has two cases. If seconds
  are not that crowded, a full page of parseable rows does not fit into one (`FullPageSpreads`), and
  the filter always moves: page numbers are never used. If they are, page numbers are used, and safe
  because the list rests: GitLab's order leaves no choice of its first n pages (`HasPages`,
  `OldestUnique`), and one page more extends them (`PagesAddUp`), until a page that is not full is
  the rest of the list (`LastPageEnds`).
- `ImplementsContract` maps each step to one step of the contract or to a stutter
  (`ContractStep`), with `accounted` mapped to the rows ingested or skipped.
- `LoopTypeCorrect`, `StopperStops`, `OutcomesUnique`, `DrainOnlyOwed` for `AgentLoop`, from one
  inductive conjunction `Inv`: the invariants need each other's types and the fact that no
  list survives the end of a cycle; `RecordedFits` counts the outcomes. `FirstIsMember` rests on the well-foundedness of the
  naturals.
- `ProcTypeCorrect`, `RetriesArePaced`, `ThrottlingIsBounded`, `ExitsAreAskedFor`, `WorkingIsHealthy`
  for `Process`, from two invariants that are inductive together. `PaceInv` adds to the types that a
  probe is held up for at most 15 minutes for each 429 it got so far, and that `failures` and the
  streak count the same thing: then `CeilingDoublesUpToCap` below bounds the delay (`PaceRetryHello`).
  `ProcInv` says where a `-once` process may be once it had its hello, that a failure is remembered
  only while its delay is slept, and, in `Calm`, that what `silent` exceeds `work` by is at most one sleep
  of an interval, which has not begun in a cycle and before it. That time which passes keeps `Calm`
  is `SpendCalm`.
- `BuildTypeCorrect`, `StaleRowsRelisted` for `PageBuild`. The invariant that the server's rows
  are current or will be listed again is not inductive by itself. `RowsInv` says that a row keeps
  the time of the list, at which its pipeline is, or which it has left for a later one;
  `FreshInv` that a pipeline older than some row of the page, which the cursor may thus pass with
  the push, has not changed since it was listed, so that the parts of its row fit together
  however late they were fetched. This is what keeping the list's `updated_at` is for: with the
  time of the detail it breaks.

- `CeilingDoublesUpToCap`, `RetryAfterBounded` for `Durations`. Both are about functions defined by
  recursion on numbers, of which the prover knows nothing by itself. `NumberLemmas` gives it
  first-order forms of what it needs: `Climb` is induction up to a bound by a set of numbers
  instead of a formula, and `Iteration` the existence of the function. `ShortShifts` follows the
  shift while it is exact, `LongShifts` from where its lower half is empty; in between and after
  the wrap the ceiling is the cap. `TimesType` keeps the product of any number of digits a word.
- `ListTypeCorrect`, `QuietListsAreExact`, `OnlyRemovalsHide` for `OffsetPages`. `ListInv` says what
  is read when a page is requested: it is what the list begins with if nothing has changed
  (`PagesAdjoin`: pages that follow each other leave no gap), and without removals it holds every
  entry that was there all the time and now stands before the page, because insertions and
  retries only move entries back.
- `TailTypeCorrect`, `TailsAreExact` for `TraceTail`. The inductive part is small (`Buffered`: the
  buffer is all of the trace so far, or its last `Keep` bytes); what needs an argument is
  `BufferSuffices`. Four bytes in a row hold the first byte of a character, so that a full buffer
  holds more characters than the tail (`Crowded`); the bytes of the character the cut went through
  lie before all of them (`LooseBytes`) and are no part of the last ones.

Only model-checked: every liveness property (fairness and `ENABLED` are beyond the
prover). Without the hypothesis of `GapFree` its properties are false, not unproved.

## Not modelled, and the plan

1. *Done*: `SyncContract`, `RepoSync`, `AgentLoop`, `Process` with `Durations`, `PageBuild`,
   `OffsetPages`, `TraceTail`, and a theorem for every safety invariant of their runs.
2. Left to prove: a contract of the log drain, and that `AgentLoop` implements it.
3. A composition of `AgentLoop` and `RepoSync` for two repositories, in place of the assumption
   that a walk ends.

Left out for good: the semantic versions (they decide about a log line only), the scope guard
(a match of regular expressions that every path of the collector passes), the reading of the
environment (a pure function whose failure is exit code 2), log redaction, version constants,
JSON encoding, TLS and logging. None of them has state or interacts with the rest.
