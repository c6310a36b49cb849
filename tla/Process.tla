------------------------------ MODULE Process ------------------------------
(***************************************************************************)
(* The process around the cycle, with its pauses: start-up (main.go), the  *)
(* hello loop (Run of agent.go) with the probe of GitLab that precedes     *)
(* every hello (buildHello, Describe, do of client.go), the delays after a *)
(* failed hello (classifyHelloFailure, backoff.go), the signal that ends   *)
(* the process, and the health check (healthz.go).                         *)
(*                                                                         *)
(* Time is counted in seconds.  It passes in pauses and in requests, each  *)
(* of which takes any time up to the timeout of its HTTP client.  A cycle  *)
(* is a number of requests with their pauses, what it does is module       *)
(* AgentLoop.  HEALTHZ_ADDR is set; without it there is no health to ask   *)
(* for.                                                                    *)
(***************************************************************************)
EXTENDS Durations

CONSTANTS
    HelloWindows,  \* Retry-After of a 429 to hello in seconds, 0: none
    PushWindows,   \* the short ones, which a push waits for
    GitLabHeaders, \* Retry-After of a 429 of GitLab as binary digits, <<>>: none
    PollIntervals, \* poll_interval_seconds of the server's answers
    InlinePauses,  \* the other pauses of a cycle in seconds, 0: none
    RequestTimes,  \* how long requests take, in seconds
    MaxRequests    \* bound: requests of a cycle, those not counted that a short 429 repeats

InlineRetryAfterCeiling == 90

ASSUME ProcessAssumption ==
    /\ HelloWindows \subseteq Nat /\ PollIntervals \subseteq Nat
    /\ PushWindows \subseteq 0..InlineRetryAfterCeiling
    /\ GitLabHeaders \subseteq Seq({0, 1})
    /\ InlinePauses \subseteq Nat /\ RequestTimes \subseteq Nat
    /\ MaxRequests \in Nat

VARIABLES
    at,        \* where the process is: see Places
    wait,      \* the pause it sleeps, in seconds, 0: none
    once,      \* -once
    signalled, \* SIGINT or SIGTERM arrived: the context is canceled
    exitCode,  \* of the process, -1: it runs
    attempt,   \* requests of this probe that GitLab answered with 429
    requests,  \* requests of this cycle
    failure,   \* err of Run: how the last hello failed, and the Retry-After it carried
    streak,    \* helloBackoff.attempts
    known,     \* lastHelloOK is set
    interval,  \* pollInterval of the health state
    silent,    \* seconds since the last good hello, as far as Healthy tells them apart
    \* history
    failures,  \* hellos since then that failed for other reasons than an answer below 500
    held,      \* seconds for which GitLab held this probe up
    work       \* seconds since the last good hello, but for the sleep after its cycle

procVars == <<at, wait, once, signalled, exitCode, attempt, requests, failure, streak, known,
              interval, silent, failures, held, work>>

Places == {"start", "describe", "hello", "cycle", "sleep", "exited"}

RateLimitRetries    == 5
ApiTimeout          == 30   \* of a request to the API of GitLab
RequestTimeout      == 150  \* of a request to the server
TokenRetryDelay     == 300
ProtocolRetryDelay  == 900
DefaultPollInterval == 60
MaxStreak           == 63
MaxFailures         == 9    \* from the ninth failure on the longest delay is the cap

Running == at \notin {"start", "exited"}

Least(m, n) == IF m < n THEN m ELSE n

\* The delays of backoff.go and client.go, for every streak and header.
Ceiling    == [n \in 0..MaxStreak |-> BackoffCeiling(n)]
RetryAfter == [header \in GitLabHeaders |-> RetryAfterOf(header)]

NoFailure  == [kind |-> "none", window |-> 0]

\* How a hello fails, as classifyHelloFailure sees it: a rejected token (401), a
\* retired protocol (426), a rate limit (429), or anything else.
Failures ==
    [kind : {"token", "protocol", "other"}, window : {0}] \cup
    [kind : {"limited"}, window : HelloWindows]

PollInterval(seconds) == IF seconds > 0 THEN seconds ELSE DefaultPollInterval

\* A Retry-After that is left out of a 429 of the server is a minute.
OrMinute(window) == IF window > 0 THEN window ELSE 60

\* Healthy of /healthz, as -healthcheck sees it.
Healthy == Running /\ known /\ silent < 5 * interval

ProcInit ==
    /\ at = "start"
    /\ wait = 0
    /\ once = FALSE
    /\ signalled = FALSE
    /\ exitCode = -1
    /\ attempt = 0 /\ requests = 0
    /\ failure = NoFailure /\ streak = 0
    /\ known = FALSE /\ interval = DefaultPollInterval
    /\ silent = 0
    /\ failures = 0 /\ held = 0 /\ work = 0

Exit(code) ==
    /\ at' = "exited"
    /\ exitCode' = code
    /\ wait' = 0

Pause(place, seconds) ==
    /\ at' = place
    /\ wait' = seconds
    /\ UNCHANGED exitCode

\* What a request with this timeout may take.
Within(timeout) == {t \in RequestTimes : t <= timeout}

\* Time passes, in the sleep after a cycle or in anything else.
Idle(seconds) ==
    /\ silent' = IF known THEN Least(silent + seconds, 5 * interval) ELSE 0
    /\ UNCHANGED work

Spend(seconds) ==
    /\ silent' = IF known THEN Least(silent + seconds, 5 * interval) ELSE 0
    /\ work'   = IF known THEN Least(work + seconds, 4 * interval) ELSE 0

\* run of main.go: the configuration, the collector or the health listener may
\* fail before the loop starts.
StartProcess ==
    /\ at = "start"
    /\ once' \in BOOLEAN
    /\ Pause("describe", 0) \/ Exit(2)
    /\ UNCHANGED <<signalled, attempt, requests, failure, streak, known, interval, silent, failures,
                   held, work>>

Signal ==
    /\ Running /\ ~signalled
    /\ signalled' = TRUE
    /\ UNCHANGED <<at, wait, once, exitCode, attempt, requests, failure, streak, known, interval,
                   silent, failures, held, work>>

-----------------------------------------------------------------------------
\* Sleep is over: its time has passed, or the context is canceled before that.
\* A loop that comes back to its start with a canceled context ends, a canceled
\* probe makes hello fail, a canceled cycle returns.
EndPause ==
    /\ wait > 0
    /\ \E seconds \in IF signalled THEN {0, wait} ELSE {wait} :
          IF at = "sleep" /\ failure = NoFailure THEN Idle(seconds) ELSE Spend(seconds)
    /\ IF signalled
       THEN \/ at = "sleep" /\ Exit(0)
            \/ at = "describe" /\ Pause("hello", 0)
            \/ at = "cycle" /\ Pause("cycle", 0)
       ELSE Pause(IF at = "sleep" THEN "describe" ELSE at, 0)
    /\ failure' = NoFailure
    /\ UNCHANGED <<once, signalled, attempt, requests, streak, known, interval, failures, held>>

\* GitLab answers the probe, or fails to: both are reported with hello.
Probed(seconds) ==
    /\ at = "describe" /\ wait = 0
    /\ Pause("hello", 0)
    /\ attempt' = 0 /\ held' = 0
    /\ Spend(seconds)
    /\ UNCHANGED <<once, signalled, requests, failure, streak, known, interval, failures>>

\* Mutant of ProbeThrottled: the number of attempts is not limited.
MutProbeThrottled(header, seconds) ==
    /\ at = "describe" /\ wait = 0 /\ ~signalled
    /\ Pause("describe", RetryAfter[header])
    /\ held' = Least(held + RetryAfter[header], 10000)
    /\ Spend(seconds)
    /\ UNCHANGED <<once, signalled, attempt, requests, failure, streak, known, interval, failures>>

\* GitLab answers the probe with 429.
ProbeThrottled(header, seconds) ==
    /\ at = "describe" /\ wait = 0 /\ ~signalled
    /\ IF attempt >= RateLimitRetries
       THEN /\ Pause("hello", 0)
            /\ attempt' = 0 /\ held' = 0
       ELSE /\ Pause("describe", RetryAfter[header])
            /\ attempt' = attempt + 1
            /\ held' = held + RetryAfter[header]
    /\ Spend(seconds)
    /\ UNCHANGED <<once, signalled, requests, failure, streak, known, interval, failures>>

-----------------------------------------------------------------------------
\* The cycle is over, or there was none: one cycle per process, or the next
\* hello after the poll interval.
AfterCycle(seconds) == IF once THEN Exit(0) ELSE Pause("sleep", seconds)

\* Mutant of HelloSucceeds: the health state is told at the start of a cycle only.
MutHelloSucceedsPaused(seconds, paused) ==
    /\ at = "hello"
    /\ streak' = 0
    /\ known' = TRUE
    /\ interval' = PollInterval(seconds)
    /\ silent' = IF paused THEN Least(silent, 5 * interval') ELSE 0
    /\ failures' = 0 /\ work' = 0
    /\ IF paused THEN AfterCycle(interval') ELSE Pause("cycle", 0)
    /\ UNCHANGED <<once, signalled, attempt, requests, failure, held>>

\* Mutant of HelloSucceeds: the backoff is not reset.
MutHelloSucceedsStreak(seconds, paused) ==
    /\ at = "hello"
    /\ known' = TRUE
    /\ interval' = PollInterval(seconds)
    /\ silent' = 0 /\ failures' = 0 /\ work' = 0
    /\ IF paused THEN AfterCycle(interval') ELSE Pause("cycle", 0)
    /\ UNCHANGED <<once, signalled, attempt, requests, failure, streak, held>>

HelloSucceeds(seconds, paused) ==
    /\ at = "hello"
    /\ streak' = 0
    /\ known' = TRUE
    /\ interval' = PollInterval(seconds)
    /\ silent' = 0 /\ failures' = 0 /\ work' = 0
    /\ IF paused THEN AfterCycle(interval') ELSE Pause("cycle", 0)
    /\ UNCHANGED <<once, signalled, attempt, requests, failure, held>>

\* classifyHelloFailure.  Next has full jitter, of which the shortest and the
\* longest delay are taken.
HelloDelays(f) ==
    CASE f.kind = "token"    -> {TokenRetryDelay}
      [] f.kind = "protocol" -> {ProtocolRetryDelay}
      [] f.kind = "limited"  -> {OrMinute(f.window)}
      [] f.kind = "other"    -> {1, Ceiling[streak]}

\* Mutant of Streak: the shift count grows without bound.
MutStreak(f) == IF f.kind = "other" THEN streak + 1 ELSE streak

\* The failures in a row of which the backoff knows.
Streak(f) == IF f.kind = "other" THEN Least(streak + 1, MaxStreak) ELSE streak

\* The delay that follows a failure; -once fails instead.
RetryHello(f) ==
    /\ failure' = f
    /\ streak' = Streak(f)
    /\ failures' = IF f.kind = "other" THEN Least(failures + 1, MaxFailures) ELSE failures
    /\ IF once THEN Exit(1) ELSE \E d \in HelloDelays(f) : Pause("sleep", d)

\* Mutant of HelloFails: a rejected token ends the process.
MutHelloFails(seconds) ==
    /\ at = "hello"
    /\ Spend(seconds)
    /\ IF signalled THEN Exit(0) /\ UNCHANGED <<failure, streak, failures>>
       ELSE \E f \in Failures :
              IF f.kind = "token" THEN Exit(1) /\ UNCHANGED <<failure, streak, failures>>
                                  ELSE RetryHello(f)
    /\ UNCHANGED <<once, signalled, attempt, requests, known, interval, held>>

\* Mutant of HelloFails: the context is not asked before the failure is classified.
MutHelloFailsCanceled(seconds) ==
    /\ at = "hello"
    /\ Spend(seconds)
    /\ \E f \in Failures : RetryHello(f)
    /\ UNCHANGED <<once, signalled, attempt, requests, known, interval, held>>

\* Mutant of HelloFails: every answered hello is good for the health state.
MutHelloFailsHealthy(seconds) ==
    /\ at = "hello"
    /\ silent' = 0 /\ work' = 0
    /\ IF signalled THEN Exit(0) /\ UNCHANGED <<failure, streak, failures>>
       ELSE \E f \in Failures : RetryHello(f)
    /\ UNCHANGED <<once, signalled, attempt, requests, known, interval, held>>

\* hello fails: a canceled process ends, -once ends with a failure, and any
\* other process tries again after its delay.
HelloFails(seconds) ==
    /\ at = "hello"
    /\ Spend(seconds)
    /\ IF signalled THEN Exit(0) /\ UNCHANGED <<failure, streak, failures>>
       ELSE \E f \in Failures : RetryHello(f)
    /\ UNCHANGED <<once, signalled, attempt, requests, known, interval, held>>

-----------------------------------------------------------------------------
\* A request of the cycle, to GitLab or to the server, and the pause before the
\* next one if it has to be repeated: a rate window of GitLab, a busy
\* connection, a push that failed, a rate window of the log drain.
CycleRequest(seconds, pause) ==
    /\ at = "cycle" /\ wait = 0 /\ ~signalled
    /\ requests < MaxRequests
    /\ requests' = requests + 1
    /\ Pause("cycle", pause)
    /\ Spend(seconds)
    /\ UNCHANGED <<once, signalled, attempt, failure, streak, known, interval, failures, held>>

\* A push is answered with a short 429.  The code does not count these answers,
\* and repeats the push for as long as it gets them.
PushThrottled(seconds, window) ==
    /\ at = "cycle" /\ wait = 0 /\ ~signalled
    /\ Pause("cycle", OrMinute(window))
    /\ Spend(seconds)
    /\ UNCHANGED <<once, signalled, attempt, requests, failure, streak, known, interval, failures,
                   held>>

CycleReturns ==
    /\ at = "cycle" /\ wait = 0
    /\ AfterCycle(interval)
    /\ requests' = 0
    /\ UNCHANGED <<once, signalled, attempt, failure, streak, known, interval, silent, failures,
                   held, work>>

ProbeDone ==
    \E t \in Within(ApiTimeout) : Probed(t) \/ \E h \in GitLabHeaders : ProbeThrottled(h, t)
HelloAnswered == \E p \in PollIntervals, paused \in BOOLEAN : HelloSucceeds(p, paused)
HelloFailed   == \E t \in Within(RequestTimeout) : HelloFails(t)
PushPaused    == \E t \in Within(RequestTimeout), w \in PushWindows : PushThrottled(t, w)
CycleGoesOn   == \E t \in Within(RequestTimeout), d \in InlinePauses : CycleRequest(t, d)

ProcNext ==
    \/ StartProcess \/ Signal
    \/ EndPause
    \/ ProbeDone
    \/ HelloAnswered \/ HelloFailed
    \/ CycleGoesOn \/ PushPaused \/ CycleReturns

ProcSpec == ProcInit /\ [][ProcNext]_procVars

-----------------------------------------------------------------------------
\* Every variable has its type; the failure streak stays where a shift by it is
\* defined, and the attempts of a probe within their bound.
ProcTypeOK ==
    /\ at \in Places
    /\ wait \in Nat
    /\ once \in BOOLEAN /\ signalled \in BOOLEAN
    /\ exitCode \in -1..2
    /\ attempt \in 0..RateLimitRetries /\ requests \in 0..MaxRequests
    /\ failure \in Failures \cup {NoFailure} /\ streak \in 0..MaxStreak
    /\ known \in BOOLEAN /\ interval \in Nat \ {0}
    /\ silent \in 0..5 * interval /\ work \in 0..4 * interval
    /\ failures \in 0..MaxFailures /\ held \in Nat

\* The longest delay that follows n failures in a row, in seconds.
LongestDelay(n) == IF n > 8 THEN 900 ELSE <<5, 10, 20, 40, 80, 160, 320, 640>>[n]

\* However long an outage lasts, hello is tried again: a sleep after the n-th
\* failure since the last good hello takes a second at least, so that no failure
\* loop spins, and min(5 s * 2^(n-1), 15 min) at most, also where the shift wraps
\* (backoff.go), whatever failures of another kind, which the backoff does not
\* count, lie between; a sleep after one of those takes what its kind demands, a
\* rate limit "exactly" what it asked for (backoff.go:4), and the sleep after a
\* cycle the interval.
RetriesPaced ==
    at = "sleep" =>
        /\ failure.kind = "other"    => 1 <= wait /\ failures > 0 /\ wait <= LongestDelay(failures)
        /\ failure.kind = "token"    => wait = TokenRetryDelay
        /\ failure.kind = "protocol" => wait = ProtocolRetryDelay
        /\ failure.kind = "limited"  => wait = OrMinute(failure.window)
        /\ failure.kind = "none"     => wait = interval

\* One probe of GitLab cannot hold hello up for more than five times 15 minutes,
\* whatever its 429 answers ask for: "a misconfigured instance cannot pin the
\* agent inside one request" (client.go:24).
ThrottleBounded == held <= RateLimitRetries * 900

\* Trouble never ends the process: it exits after a signal or, with -once, after
\* its hello, and with a failure if that hello failed; or before it started
\* ("The agent never exits on server-side trouble", agent.go:147).
ExitsOnlyWhenAsked ==
    /\ exitCode = 0 => signalled \/ (once /\ known)
    /\ exitCode = 1 => once /\ ~known
    /\ exitCode = 2 => ~known /\ failure = NoFailure

\* Of the five intervals of silence that the health check allows, one is for the
\* sleep after a cycle, and the other four are left for everything else: from
\* the first good hello on the check succeeds until the cycle, the probe, failed
\* hellos and their delays have taken four intervals, requests included, since
\* the last good hello ("generous: rate-limit waits and long batches
\* legitimately delay hellos", healthz.go:44).  The server may change the
\* interval with any hello, and pause the connection.
HealthyWhileWorking == Running /\ known /\ work < 4 * interval => Healthy

-----------------------------------------------------------------------------
(***************************************************************************)
(* Fairness: pauses end, and so do requests, because the HTTP clients have *)
(* timeouts; the loop goes on.                                             *)
(***************************************************************************)
ProcFairness ==
    /\ WF_procVars(EndPause)
    /\ WF_procVars(ProbeDone)
    /\ WF_procVars(HelloAnswered \/ HelloFailed)
    /\ WF_procVars(CycleGoesOn \/ PushPaused \/ CycleReturns)

\* The heartbeat goes on: whatever GitLab and the server answer, another hello
\* is sent, also if GitLab answers every probe with 429 - unless the server
\* answers pushes with short 429s for ever, which nothing limits (pushSlice).
HellosGoOn ==
    \/ Running /\ ~once ~> at = "hello" \/ at = "exited"
    \/ []<><<PushPaused>>_procVars

\* A heartbeat that has stopped shows: unless hellos go on to succeed, the health
\* check fails for good, whether the server is down, rejects the token, pauses
\* the pushes for ever, or the process has ended ("200 while hellos succeed",
\* README.md:191).
OutageShows == []<><<HelloAnswered>>_procVars \/ <>[]~Healthy

\* A signal ends the process without an error, wherever it arrives.
SignalStops == signalled ~> exitCode = 0

=============================================================================
