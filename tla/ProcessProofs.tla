---------------------------- MODULE ProcessProofs ----------------------------
(***************************************************************************)
(* Theorems about Process: that every retry is paced, for which reasons    *)
(* the process ends, and that its health check tells a process that works  *)
(* from one that does not, for any delays, intervals and request times.    *)
(***************************************************************************)
EXTENDS Process, DurationsProofs

(***************************************************************************)
(* The pauses.                                                             *)
(***************************************************************************)

\* What is inductive about the pauses: the probe has been held up by at most 15
\* minutes for every attempt, the backoff has counted the failures since the
\* last good hello and no other, and a sleep is the delay of its failure.
PaceInv ==
    /\ ProcTypeOK
    /\ held <= 900 * attempt
    /\ failures = Least(streak, MaxFailures)
    /\ RetriesPaced

\* A poll interval the server leaves out, or sends as 0, is replaced (pollInterval).
LEMMA PollIntervalPositive ==
  ASSUME NEW seconds \in Nat
  PROVE  PollInterval(seconds) \in Nat \ {0}
BY DEF PollInterval, DefaultPollInterval

\* The delays of the two tables are within their limits.
LEMMA DelaysBounded ==
  /\ \A n \in 0..MaxStreak : Ceiling[n] \in 1..900 /\ Ceiling[n] = LongestDelay(n + 1)
  /\ \A n \in Nat : LongestDelay(Least(n, MaxFailures)) = LongestDelay(n)
  /\ LongestDelay(MaxStreak) = 900
  /\ \A h \in GitLabHeaders : RetryAfter[h] \in 0..900
<1>1. ASSUME NEW n \in 0..MaxStreak
      PROVE  Ceiling[n] = IF n < 8 THEN <<5, 10, 20, 40, 80, 160, 320, 640>>[n + 1] ELSE 900
  BY CeilingDoublesUpToCap DEF Ceiling, MaxStreak
<1>2. \A n \in 0..7 : <<5, 10, 20, 40, 80, 160, 320, 640>>[n + 1] \in 1..900
  OBVIOUS
<1>3. \A n \in 0..MaxStreak : Ceiling[n] \in 1..900 /\ Ceiling[n] = LongestDelay(n + 1)
  BY <1>1, <1>2 DEF LongestDelay, MaxStreak
<1>4. LongestDelay(MaxStreak) = 900
  BY DEF LongestDelay, MaxStreak
<1>5. \A n \in Nat : LongestDelay(Least(n, MaxFailures)) = LongestDelay(n)
  BY DEF LongestDelay, Least, MaxFailures
<1>6. \A h \in GitLabHeaders : RetryAfter[h] \in 0..900
  BY RetryAfterBounded, ProcessAssumption DEF RetryAfter
<1> QED BY <1>3, <1>4, <1>5, <1>6

\* Time that passes keeps the clocks within what is told apart.
LEMMA ClocksBounded ==
  ASSUME ProcTypeOK, NEW seconds \in Nat, Idle(seconds) \/ Spend(seconds)
  PROVE  silent' \in 0..5 * interval /\ work' \in 0..4 * interval
<1>1. /\ interval \in Nat \ {0} /\ silent \in Nat /\ silent <= 5 * interval
      /\ work \in Nat /\ work <= 4 * interval
  BY DEF ProcTypeOK
<1> QED BY <1>1 DEF Idle, Spend, Least

\* The initial state satisfies the invariant.
LEMMA PaceInvInit == ProcInit => PaceInv
<1> SUFFICES ASSUME ProcInit PROVE PaceInv
  OBVIOUS
<1>1. interval = 60 /\ silent = 0 /\ work = 0
  BY DEF ProcInit, DefaultPollInterval
<1>2. at \in Places /\ at = "start"
  BY DEF ProcInit, Places
<1>3. /\ wait = 0 /\ exitCode = -1 /\ attempt = 0 /\ streak = 0 /\ held = 0 /\ failures = 0
      /\ requests = 0 /\ failure = NoFailure
  BY DEF ProcInit
<1>4. once \in BOOLEAN /\ signalled \in BOOLEAN /\ known \in BOOLEAN
  BY DEF ProcInit
<1>5. RetriesPaced
  BY <1>2 DEF RetriesPaced
<1>6. ProcTypeOK
  BY <1>1, <1>2, <1>3, <1>4, ProcessAssumption DEF ProcTypeOK, RateLimitRetries, MaxStreak, MaxFailures
<1>7. failures = Least(streak, MaxFailures)
  BY <1>3 DEF Least, MaxFailures
<1> QED BY <1>3, <1>5, <1>6, <1>7 DEF PaceInv

\* The process starts, or gets a signal.
LEMMA PaceStart ==
  ASSUME PaceInv, StartProcess \/ Signal
  PROVE  PaceInv'
<1>1. CASE StartProcess
  <2>1. /\ at' \in {"describe", "exited"} /\ wait' = 0 /\ exitCode' \in -1..2 /\ once' \in BOOLEAN
        /\ UNCHANGED <<signalled, attempt, requests, failure, streak, known, interval, silent,
                       failures, held, work>>
    BY <1>1 DEF StartProcess, Pause, Exit, PaceInv, ProcTypeOK
  <2> QED BY <2>1 DEF PaceInv, ProcTypeOK, RetriesPaced, Places
<1>2. CASE Signal
  BY <1>2 DEF Signal, PaceInv, ProcTypeOK, RetriesPaced
<1> QED BY <1>1, <1>2

\* A pause is over.
LEMMA PaceEndPause ==
  ASSUME PaceInv, EndPause
  PROVE  PaceInv'
<1>1. /\ at' \in Places \ {"sleep"} /\ wait' = 0 /\ exitCode' \in -1..2 /\ failure' = NoFailure
      /\ UNCHANGED <<once, signalled, attempt, requests, streak, known, interval, failures, held>>
  BY DEF EndPause, Exit, Pause, PaceInv, ProcTypeOK, Places
<1>2. PICK seconds \in {0, wait} : Idle(seconds) \/ Spend(seconds)
  BY DEF EndPause
<1>3. silent' \in 0..5 * interval /\ work' \in 0..4 * interval
  BY <1>2, ClocksBounded DEF PaceInv, ProcTypeOK
<1> QED BY <1>1, <1>3 DEF PaceInv, ProcTypeOK, RetriesPaced

\* The probe of GitLab: the attempts are limited, and so is every pause.
LEMMA PaceProbe ==
  ASSUME PaceInv, ProbeDone
  PROVE  PaceInv'
<1>1. PICK t \in Within(ApiTimeout) : Probed(t) \/ \E h \in GitLabHeaders : ProbeThrottled(h, t)
  BY DEF ProbeDone
<1>2. t \in Nat
  BY ProcessAssumption DEF Within
<1>3. Spend(t) /\ UNCHANGED <<once, signalled, requests, failure, streak, known, interval, failures>>
  BY <1>1 DEF Probed, ProbeThrottled
<1>4. silent' \in 0..5 * interval /\ work' \in 0..4 * interval
  BY <1>2, <1>3, ClocksBounded DEF PaceInv
<1>5. /\ at' \in {"describe", "hello"} /\ exitCode' = exitCode /\ wait' \in Nat
      /\ attempt' \in 0..5 /\ held' \in Nat /\ held' <= 900 * attempt'
  <2>1. CASE Probed(t)
    BY <2>1 DEF Probed, Pause
  <2>2. ASSUME NEW h \in GitLabHeaders, ProbeThrottled(h, t)
        PROVE  /\ at' \in {"describe", "hello"} /\ exitCode' = exitCode /\ wait' \in Nat
               /\ attempt' \in 0..5 /\ held' \in Nat /\ held' <= 900 * attempt'
    <3> DEFINE r == RetryAfter[h]
    <3>1. r \in Nat /\ r <= 900
      <4>1. r \in 0..900
        BY DelaysBounded
      <4> HIDE DEF r
      <4> QED BY <4>1
    <3> HIDE DEF r
    <3>2. attempt \in 0..5 /\ held \in Nat /\ held <= 900 * attempt
      BY DEF PaceInv, ProcTypeOK, RateLimitRetries
    <3>3. /\ at' \in {"describe", "hello"} /\ exitCode' = exitCode
          /\ \/ wait' = 0 /\ attempt' = 0 /\ held' = 0
             \/ wait' = r /\ attempt < 5 /\ attempt' = attempt + 1 /\ held' = held + r
      BY <2>2, <3>2 DEF ProbeThrottled, Pause, RateLimitRetries, r
    <3>4. held + r \in Nat /\ held + r <= 900 * (attempt + 1)
      BY <3>1, <3>2, SMT
    <3> QED BY <3>1, <3>2, <3>3, <3>4
  <2> QED BY <1>1, <2>1, <2>2
<1> QED BY <1>3, <1>4, <1>5 DEF PaceInv, ProcTypeOK, RetriesPaced, Places, RateLimitRetries

\* A good hello: the next one is an interval away, or follows the cycle.
LEMMA PaceHelloSucceeds ==
  ASSUME PaceInv, NEW seconds \in PollIntervals, NEW paused \in BOOLEAN, failure = NoFailure,
         HelloSucceeds(seconds, paused)
  PROVE  PaceInv'
<1>1. interval' \in Nat \ {0}
  BY PollIntervalPositive, ProcessAssumption DEF HelloSucceeds
<1>2. \/ at' = "exited" /\ exitCode' = 0 /\ wait' = 0
      \/ at' = "sleep" /\ exitCode' = exitCode /\ wait' = interval'
      \/ at' = "cycle" /\ exitCode' = exitCode /\ wait' = 0
  BY DEF HelloSucceeds, AfterCycle, Exit, Pause
<1>3. /\ streak' = 0 /\ failures' = 0 /\ known' = TRUE /\ silent' = 0 /\ work' = 0
      /\ UNCHANGED <<once, signalled, attempt, requests, failure, held>>
  BY DEF HelloSucceeds
<1>4. silent' \in 0..5 * interval' /\ work' \in 0..4 * interval'
  <2>1. \A i \in Nat : 0 \in 0..5 * i /\ 0 \in 0..4 * i
    OBVIOUS
  <2> QED BY <1>1, <1>3, <2>1
<1>5. ProcTypeOK'
  <2>1. at' \in Places /\ wait' \in Nat /\ exitCode' \in -1..2
    BY <1>1, <1>2 DEF PaceInv, ProcTypeOK, Places
  <2>2. streak' \in 0..MaxStreak /\ failures' \in 0..MaxFailures
    BY <1>3 DEF MaxStreak, MaxFailures
  <2> QED BY <1>1, <1>3, <1>4, <2>1, <2>2 DEF PaceInv, ProcTypeOK
<1>6. RetriesPaced'
  BY <1>2, <1>3 DEF RetriesPaced, NoFailure
<1>7. failures' = Least(streak', MaxFailures)
  BY <1>3 DEF Least, MaxFailures
<1> QED BY <1>3, <1>5, <1>6, <1>7 DEF PaceInv

\* A failed hello is retried, or ends a process with -once: the streak counts what
\* the delay is taken from.
LEMMA PaceRetryHello ==
  ASSUME PaceInv, NEW f \in Failures, RetryHello(f)
  PROVE  /\ \/ at' = "exited" /\ exitCode' = 1 /\ wait' = 0
            \/ at' = "sleep" /\ exitCode' = exitCode /\ wait' \in Nat
         /\ failure' = f
         /\ streak' \in 0..MaxStreak /\ failures' \in 0..MaxFailures
         /\ failures' = Least(streak', MaxFailures)
         /\ interval' = interval => RetriesPaced'
<1>1. streak \in 0..MaxStreak /\ failures = Least(streak, MaxFailures)
  BY DEF PaceInv, ProcTypeOK
<1>2. failure' = f /\ streak' = Streak(f)
  BY DEF RetryHello
<1>3. streak' \in 0..MaxStreak
  BY <1>1, <1>2 DEF Streak, Least, MaxStreak
<1>4. failures' = Least(streak', MaxFailures) /\ failures' \in 0..MaxFailures
  BY <1>1, <1>2 DEF RetryHello, Streak, Least, MaxStreak, MaxFailures
<1>5. /\ f.kind \in {"token", "protocol", "other", "limited"}
      /\ f.kind = "limited" => f.window \in Nat
  BY ProcessAssumption DEF Failures
<1>6. \/ at' = "exited" /\ exitCode' = 1 /\ wait' = 0
      \/ \E d \in HelloDelays(f) : at' = "sleep" /\ exitCode' = exitCode /\ wait' = d
  BY DEF RetryHello, Exit, Pause
<1>7. CASE at' = "exited" /\ exitCode' = 1 /\ wait' = 0
  BY <1>2, <1>3, <1>4, <1>7 DEF RetriesPaced
<1>8. ASSUME NEW d \in HelloDelays(f), at' = "sleep", exitCode' = exitCode, wait' = d
      PROVE  d \in Nat /\ (interval' = interval => RetriesPaced')
  <2>1. CASE f.kind = "other"
    <3>1. d \in {1, Ceiling[streak]}
      BY <1>8, <2>1 DEF HelloDelays
    <3>2. Ceiling[streak] \in 1..900 /\ Ceiling[streak] = LongestDelay(streak + 1)
      BY <1>1, DelaysBounded
    <3>3. streak' = IF streak < 63 THEN streak + 1 ELSE 63
      BY <1>1, <1>2, <2>1 DEF Streak, Least, MaxStreak
    <3>4. LongestDelay(streak') = Ceiling[streak]
      <4>1. CASE streak < 63
        BY <3>2, <3>3, <4>1
      <4>2. CASE streak = 63
        <5>1. LongestDelay(63) = 900 /\ LongestDelay(64) = 900
          BY DEF LongestDelay
        <5> QED BY <3>2, <3>3, <4>2, <5>1
      <4> QED BY <1>1, <4>1, <4>2 DEF MaxStreak
    <3>5. LongestDelay(failures') = Ceiling[streak]
      <4>1. LongestDelay(Least(streak', MaxFailures)) = LongestDelay(streak')
        <5>1. \A n \in Nat : LongestDelay(Least(n, MaxFailures)) = LongestDelay(n)
          BY DelaysBounded
        <5>2. streak' \in Nat
          BY <1>3 DEF MaxStreak
        <5> HIDE DEF MaxFailures
        <5> QED BY <5>1, <5>2
      <4> QED BY <1>4, <3>4, <4>1
    <3>6. failures' > 0
      BY <1>1, <1>4, <3>3 DEF Least, MaxFailures, MaxStreak
    <3>7. d \in Nat /\ 1 <= d /\ d <= LongestDelay(failures')
      BY <3>1, <3>2, <3>5
    <3> QED BY <1>2, <1>8, <2>1, <3>6, <3>7 DEF RetriesPaced
  <2>2. CASE f.kind = "token"
    BY <1>2, <1>8, <2>2 DEF HelloDelays, RetriesPaced, TokenRetryDelay
  <2>3. CASE f.kind = "protocol"
    BY <1>2, <1>8, <2>3 DEF HelloDelays, RetriesPaced, ProtocolRetryDelay
  <2>4. CASE f.kind = "limited"
    <3>1. d = OrMinute(f.window)
      BY <1>8, <2>4 DEF HelloDelays
    <3>2. d \in Nat
      BY <1>5, <2>4, <3>1 DEF OrMinute
    <3> QED BY <1>2, <1>8, <2>4, <3>1, <3>2 DEF RetriesPaced
  <2> QED BY <1>5, <2>1, <2>2, <2>3, <2>4
<1>9. CASE at' # "exited"
  BY <1>2, <1>3, <1>4, <1>6, <1>8, <1>9
<1> QED BY <1>6, <1>7, <1>9

\* A failed hello.
LEMMA PaceHelloFails ==
  ASSUME PaceInv, HelloFailed
  PROVE  PaceInv'
<1>1. PICK t \in Within(RequestTimeout) : HelloFails(t)
  BY DEF HelloFailed
<1>2. t \in Nat
  BY ProcessAssumption DEF Within
<1>3. Spend(t) /\ UNCHANGED <<once, signalled, attempt, requests, known, interval, held>>
  BY <1>1 DEF HelloFails
<1>4. silent' \in 0..5 * interval /\ work' \in 0..4 * interval
  BY <1>2, <1>3, ClocksBounded DEF PaceInv
<1>5. CASE signalled
  <2>1. at' = "exited" /\ exitCode' = 0 /\ wait' = 0 /\ UNCHANGED <<failure, streak, failures>>
    BY <1>1, <1>5 DEF HelloFails, Exit
  <2> QED BY <1>3, <1>4, <2>1 DEF PaceInv, ProcTypeOK, RetriesPaced, Places
<1>6. CASE ~signalled
  <2>1. PICK f \in Failures : RetryHello(f)
    BY <1>1, <1>6 DEF HelloFails
  <2>2. /\ \/ at' = "exited" /\ exitCode' = 1 /\ wait' = 0
           \/ at' = "sleep" /\ exitCode' = exitCode /\ wait' \in Nat
        /\ failure' = f
        /\ streak' \in 0..MaxStreak /\ failures' \in 0..MaxFailures
        /\ failures' = Least(streak', MaxFailures)
        /\ RetriesPaced'
    BY <1>3, <2>1, PaceRetryHello
  <2> QED BY <1>3, <1>4, <2>2 DEF PaceInv, ProcTypeOK, Places
<1> QED BY <1>5, <1>6

\* A cycle makes a request, or is over.
LEMMA PaceCycle ==
  ASSUME PaceInv, CycleGoesOn \/ PushPaused \/ (failure = NoFailure /\ CycleReturns)
  PROVE  PaceInv'
<1>1. CASE CycleReturns /\ failure = NoFailure
  <2>1. \/ at' = "exited" /\ exitCode' = 0 /\ wait' = 0
        \/ at' = "sleep" /\ exitCode' = exitCode /\ wait' = interval
    BY <1>1 DEF CycleReturns, AfterCycle, Exit, Pause
  <2>2. /\ requests' = 0
        /\ UNCHANGED <<once, signalled, attempt, failure, streak, known, interval, silent, failures,
                       held, work>>
    BY <1>1 DEF CycleReturns
  <2> QED BY <1>1, <2>1, <2>2, ProcessAssumption
      DEF PaceInv, ProcTypeOK, RetriesPaced, NoFailure, Places
<1>2. ASSUME NEW t \in Nat, NEW d \in Nat, Spend(t), Pause("cycle", d), requests' \in 0..MaxRequests,
             UNCHANGED <<once, signalled, attempt, failure, streak, known, interval, failures, held>>
      PROVE  PaceInv'
  <2>1. silent' \in 0..5 * interval /\ work' \in 0..4 * interval
    BY <1>2, ClocksBounded DEF PaceInv
  <2>2. at' = "cycle" /\ wait' = d /\ exitCode' = exitCode
    BY <1>2 DEF Pause
  <2> QED BY <1>2, <2>1, <2>2 DEF PaceInv, ProcTypeOK, RetriesPaced, Places
<1>3. CASE CycleGoesOn
  <2>1. PICK t \in Within(RequestTimeout), d \in InlinePauses : CycleRequest(t, d)
    BY <1>3 DEF CycleGoesOn
  <2>2. requests' \in 0..MaxRequests
    BY <2>1, ProcessAssumption DEF CycleRequest, PaceInv, ProcTypeOK
  <2>3. t \in Nat /\ d \in Nat
    BY ProcessAssumption DEF Within
  <2> QED BY <1>2, <2>1, <2>2, <2>3 DEF CycleRequest
<1>4. CASE PushPaused
  <2>1. PICK t \in Within(RequestTimeout), w \in PushWindows : PushThrottled(t, w)
    BY <1>4 DEF PushPaused
  <2>2. t \in Nat /\ OrMinute(w) \in Nat
    <3>1. w \in 0..90
      BY ProcessAssumption DEF InlineRetryAfterCeiling
    <3> QED BY <3>1, ProcessAssumption DEF Within, OrMinute
  <2>3. requests' \in 0..MaxRequests
    BY <2>1 DEF PushThrottled, PaceInv, ProcTypeOK
  <2> QED BY <1>2, <2>1, <2>2, <2>3 DEF PushThrottled
<1> QED BY <1>1, <1>3, <1>4

(***************************************************************************)
(* The end of the process, and its health.                                 *)
(***************************************************************************)

\* Since the last good hello at most one sleep of an interval has passed besides
\* what was spent otherwise, unless the latter has reached its limit.
Calm ==
    Running /\ known /\ work < 4 * interval =>
        /\ at = "cycle" => silent <= work
        /\ at = "sleep" => /\ failure = NoFailure => wait = interval /\ silent <= work
                           /\ silent <= work + interval
        /\ at \in {"describe", "hello"} => silent <= work + interval

\* The conjunction that is inductive, given the types: the two properties with
\* what ties the exit code, the failure and -once to the place the process is at.
ProcInv ==
    /\ exitCode = -1 <=> at # "exited"
    /\ wait = 0 \/ at \in {"describe", "cycle", "sleep"}
    /\ at = "start" => ~known
    /\ failure = NoFailure \/ at \in {"sleep", "exited"}
    /\ at = "sleep" => ~once
    /\ at = "cycle" => known
    /\ once /\ known => at \in {"cycle", "exited"}
    /\ ExitsOnlyWhenAsked
    /\ Calm

-----------------------------------------------------------------------------
\* What is spent counts twice, as silence and as work.
LEMMA SpendCalm ==
  ASSUME ProcTypeOK, Calm, Running, NEW seconds \in Nat, Spend(seconds),
         UNCHANGED <<known, interval>>,
         \/ at = "cycle" /\ at' = "cycle"
         \/ at \in {"describe", "hello", "sleep"} /\ at' \in {"describe", "hello", "exited"}
         \/ at = "hello" /\ at' = "sleep" /\ failure' # NoFailure
  PROVE  Calm'
<1>1. /\ interval \in Nat \ {0} /\ silent \in Nat /\ silent <= 5 * interval
      /\ work \in Nat /\ work <= 4 * interval
  BY DEF ProcTypeOK
<1>2. SUFFICES ASSUME known, work' < 4 * interval, at' # "exited"
               PROVE  /\ at' = "cycle" => silent' <= work'
                      /\ at' \in {"describe", "hello", "sleep"} => silent' <= work' + interval
  BY DEF Calm, Running
<1>3. /\ silent' = Least(silent + seconds, 5 * interval)
      /\ work' = Least(work + seconds, 4 * interval)
  BY <1>2 DEF Spend
<1>4. work + seconds < 4 * interval /\ work' = work + seconds /\ silent' <= silent + seconds
  BY <1>1, <1>2, <1>3 DEF Least
<1>5. work < 4 * interval
  BY <1>1, <1>4
<1>6. CASE at = "cycle"
  BY <1>1, <1>2, <1>3, <1>4, <1>5, <1>6 DEF Calm, Least
<1>7. CASE at \in {"describe", "hello", "sleep"}
  <2>1. silent <= work + interval
    BY <1>2, <1>5, <1>7 DEF Calm
  <2>2. silent' <= work' + interval
    BY <1>1, <1>3, <1>4, <2>1 DEF Least
  <2> QED BY <1>7, <2>2
<1> QED BY <1>6, <1>7

\* The initial state satisfies the invariant.
LEMMA ProcInvInit == ProcInit => ProcInv
BY DEF ProcInit, ProcInv, Calm, ExitsOnlyWhenAsked, Running, NoFailure

\* The process starts, or gets a signal.
LEMMA StartInv ==
  ASSUME ProcInv, StartProcess \/ Signal
  PROVE  ProcInv'
<1>1. CASE StartProcess
  <2>1. \/ at' = "describe" /\ exitCode' = exitCode
        \/ at' = "exited" /\ exitCode' = 2
    BY <1>1 DEF StartProcess, Pause, Exit
  <2>2. at = "start" /\ wait' = 0 /\ UNCHANGED <<failure, known>>
    BY <1>1 DEF StartProcess, Pause, Exit
  <2> QED BY <2>1, <2>2 DEF ProcInv, Calm, ExitsOnlyWhenAsked, NoFailure
<1>2. CASE Signal
  BY <1>2 DEF Signal, ProcInv, Calm, ExitsOnlyWhenAsked, Running
<1> QED BY <1>1, <1>2

\* A pause is over: the sleep after a cycle is the interval that is not counted
\* as work.
LEMMA EndPauseInv ==
  ASSUME PaceInv, ProcInv, EndPause
  PROVE  ProcInv'
<1>1. /\ \/ at = "sleep" /\ signalled /\ at' = "exited" /\ exitCode' = 0
         \/ at = "sleep" /\ at' = "describe" /\ exitCode' = exitCode
         \/ at = "describe" /\ at' \in {"describe", "hello"} /\ exitCode' = exitCode
         \/ at = "cycle" /\ at' = "cycle" /\ exitCode' = exitCode
      /\ wait' = 0 /\ failure' = NoFailure
      /\ UNCHANGED <<once, signalled, known, interval>>
  BY DEF EndPause, Exit, Pause, ProcInv
<1>2. at \in Places /\ wait \in Nat
  BY DEF PaceInv, ProcTypeOK
<1>3. Calm'
  <2>1. CASE at = "sleep" /\ failure = NoFailure
    <3>1. PICK seconds \in {0, wait} : Idle(seconds)
      BY <2>1 DEF EndPause
    <3>2. SUFFICES ASSUME known, work < 4 * interval, Running
                   PROVE  silent' <= work + interval
      BY <1>1, <2>1, <3>1 DEF Calm, Idle, Running
    <3>3. silent <= work /\ seconds <= interval
      BY <1>2, <2>1, <3>1, <3>2 DEF ProcInv, Calm, PaceInv, ProcTypeOK
    <3>4. /\ interval \in Nat /\ silent \in Nat /\ work \in Nat /\ seconds \in Nat
      BY <1>2 DEF PaceInv, ProcTypeOK
    <3> QED BY <3>1, <3>2, <3>3, <3>4 DEF Idle, Least
  <2>2. CASE ~(at = "sleep" /\ failure = NoFailure)
    <3>1. PICK seconds \in {0, wait} : Spend(seconds)
      BY <2>2 DEF EndPause
    <3>2. seconds \in Nat
      BY <1>2
    <3>3. Running
      BY <1>1 DEF Running
    <3> QED BY <1>1, <3>1, <3>2, <3>3, SpendCalm DEF ProcInv, PaceInv
  <2> QED BY <2>1, <2>2
<1> QED BY <1>1, <1>3 DEF ProcInv, ExitsOnlyWhenAsked

\* The probe of GitLab: it takes its time, and its pauses.
LEMMA ProbeInv ==
  ASSUME PaceInv, ProcInv, ProbeDone
  PROVE  ProcInv'
<1>1. PICK t \in Within(ApiTimeout) : Probed(t) \/ \E h \in GitLabHeaders : ProbeThrottled(h, t)
  BY DEF ProbeDone
<1>2. t \in Nat
  BY ProcessAssumption DEF Within
<1>3. /\ at = "describe" /\ at' \in {"describe", "hello"} /\ exitCode' = exitCode
      /\ wait' = 0 \/ at' = "describe"
      /\ UNCHANGED <<once, signalled, known, interval, failure>> /\ Spend(t)
  BY <1>1 DEF Probed, ProbeThrottled, Pause
<1>4. Calm'
  BY <1>2, <1>3, SpendCalm DEF ProcInv, PaceInv, Running
<1> QED BY <1>3, <1>4 DEF ProcInv, ExitsOnlyWhenAsked

\* A good hello sets both clocks to zero.
LEMMA HelloSucceedsInv ==
  ASSUME PaceInv, ProcInv, HelloAnswered
  PROVE  ProcInv'
<1>1. PICK p \in PollIntervals, paused \in BOOLEAN : HelloSucceeds(p, paused)
  BY DEF HelloAnswered
<1>2. /\ at = "hello" /\ silent' = 0 /\ work' = 0 /\ known' = TRUE
      /\ UNCHANGED <<once, signalled, failure>>
      /\ \/ once /\ at' = "exited" /\ exitCode' = 0 /\ wait' = 0
         \/ ~once /\ at' = "sleep" /\ exitCode' = exitCode /\ wait' = interval'
         \/ at' = "cycle" /\ exitCode' = exitCode /\ wait' = 0
  BY <1>1 DEF HelloSucceeds, AfterCycle, Exit, Pause
<1>3. interval' \in Nat
  BY <1>1, PollIntervalPositive, ProcessAssumption DEF HelloSucceeds
<1>4. Calm'
  <2>1. \A i \in Nat : 0 <= 0 /\ 0 <= 0 + i
    OBVIOUS
  <2>2. silent' <= work' /\ silent' <= work' + interval'
    <3>1. silent' = 0 /\ work' = 0
      BY <1>2
    <3> QED BY <1>3, <2>1, <3>1
  <2> QED BY <1>2, <2>2 DEF Calm, Running
<1> QED BY <1>2, <1>4 DEF ProcInv, ExitsOnlyWhenAsked

\* A failed hello: the next one is a delay away, and the delay counts as work.
LEMMA HelloFailsInv ==
  ASSUME PaceInv, ProcInv, HelloFailed
  PROVE  ProcInv'
<1>1. PICK t \in Within(RequestTimeout) : HelloFails(t)
  BY DEF HelloFailed
<1>2. t \in Nat
  BY ProcessAssumption DEF Within
<1>3. \A f \in Failures : f # NoFailure
  BY DEF Failures, NoFailure
<1>4. /\ at = "hello" /\ Spend(t) /\ UNCHANGED <<once, signalled, known, interval>>
      /\ \/ signalled /\ at' = "exited" /\ exitCode' = 0 /\ wait' = 0
         \/ once /\ at' = "exited" /\ exitCode' = 1 /\ wait' = 0
         \/ ~once /\ at' = "sleep" /\ exitCode' = exitCode /\ failure' # NoFailure
  BY <1>1, <1>3 DEF HelloFails, RetryHello, Exit, Pause
<1>5. Calm'
  BY <1>2, <1>4, SpendCalm DEF ProcInv, PaceInv, Running
<1> QED BY <1>4, <1>5 DEF ProcInv, ExitsOnlyWhenAsked

\* A cycle makes a request, or is over.
LEMMA CycleInv ==
  ASSUME PaceInv, ProcInv, CycleGoesOn \/ PushPaused \/ CycleReturns
  PROVE  ProcInv'
<1>1. CASE CycleReturns
  <2>1. /\ at = "cycle"
        /\ \/ once /\ at' = "exited" /\ exitCode' = 0 /\ wait' = 0
           \/ ~once /\ at' = "sleep" /\ exitCode' = exitCode /\ wait' = interval
        /\ UNCHANGED <<once, signalled, failure, known, interval, silent, work>>
    BY <1>1 DEF CycleReturns, AfterCycle, Exit, Pause
  <2>2. interval \in Nat /\ silent \in Nat /\ work \in Nat
    BY DEF PaceInv, ProcTypeOK
  <2>3. Calm'
    BY <2>1, <2>2 DEF ProcInv, Calm, Running
  <2> QED BY <2>1, <2>3 DEF ProcInv, ExitsOnlyWhenAsked
<1>2. ASSUME NEW t \in Nat, at = "cycle", Spend(t), at' = "cycle",
             UNCHANGED <<once, signalled, exitCode, failure, known, interval>>
      PROVE  ProcInv'
  <2>1. Calm'
    BY <1>2, SpendCalm DEF ProcInv, PaceInv, Running
  <2> QED BY <1>2, <2>1 DEF ProcInv, ExitsOnlyWhenAsked
<1>3. CASE CycleGoesOn
  <2>1. PICK t \in Within(RequestTimeout), d \in InlinePauses : CycleRequest(t, d)
    BY <1>3 DEF CycleGoesOn
  <2> QED BY <1>2, <2>1, ProcessAssumption DEF CycleRequest, Pause, Within
<1>4. CASE PushPaused
  <2>1. PICK t \in Within(RequestTimeout), w \in PushWindows : PushThrottled(t, w)
    BY <1>4 DEF PushPaused
  <2> QED BY <1>2, <2>1, ProcessAssumption DEF PushThrottled, Pause, Within
<1> QED BY <1>1, <1>3, <1>4

-----------------------------------------------------------------------------
\* Every step preserves the two invariants.
LEMMA ProcStep == PaceInv /\ ProcInv /\ [ProcNext]_procVars => (PaceInv /\ ProcInv)'
<1> SUFFICES ASSUME PaceInv, ProcInv, [ProcNext]_procVars PROVE PaceInv' /\ ProcInv'
  OBVIOUS
<1>1. CASE UNCHANGED procVars
  <2>1. PaceInv'
    BY <1>1 DEF procVars, PaceInv, ProcTypeOK, RetriesPaced
  <2>2. ProcInv'
    BY <1>1 DEF procVars, ProcInv, Calm, ExitsOnlyWhenAsked, Running
  <2> QED BY <2>1, <2>2
<1>2. CASE StartProcess \/ Signal
  BY <1>2, PaceStart, StartInv
<1>3. CASE EndPause
  BY <1>3, PaceEndPause, EndPauseInv
<1>4. CASE ProbeDone
  BY <1>4, PaceProbe, ProbeInv
<1>5. CASE HelloAnswered
  <2>1. PICK p \in PollIntervals, paused \in BOOLEAN : HelloSucceeds(p, paused)
    BY <1>5 DEF HelloAnswered
  <2>2. failure = NoFailure
    BY <2>1 DEF HelloSucceeds, ProcInv
  <2> QED BY <1>5, <2>1, <2>2, PaceHelloSucceeds, HelloSucceedsInv
<1>6. CASE HelloFailed
  BY <1>6, PaceHelloFails, HelloFailsInv
<1>7. CASE CycleGoesOn \/ PushPaused \/ CycleReturns
  <2>1. CycleReturns => failure = NoFailure
    BY DEF CycleReturns, ProcInv
  <2> QED BY <1>7, <2>1, PaceCycle, CycleInv
<1> QED BY <1>1, <1>2, <1>3, <1>4, <1>5, <1>6, <1>7 DEF ProcNext

\* The invariants hold in every reachable state (Run of agent.go).
LEMMA ProcHolds == ProcSpec => [](PaceInv /\ ProcInv)
<1>1. ProcInit => PaceInv /\ ProcInv
  BY PaceInvInit, ProcInvInit
<1> QED BY <1>1, ProcStep, PTL DEF ProcSpec

\* Every variable of the process has its type: the shift count of the backoff
\* stays below 64, and a probe is tried six times at most.
THEOREM ProcTypeCorrect == ProcSpec => []ProcTypeOK
<1>1. PaceInv => ProcTypeOK
  BY DEF PaceInv
<1> QED BY <1>1, ProcHolds, PTL

\* Whatever the server answers, and in any order: after the n-th failure that the
\* backoff counts the next hello is a second away at least, and min(5 s * 2^(n-1),
\* 15 min) at most, and after every other failure what its kind demands (Next of
\* backoff.go, classifyHelloFailure of agent.go).
THEOREM RetriesArePaced == ProcSpec => []RetriesPaced
<1>1. PaceInv => RetriesPaced
  BY DEF PaceInv
<1> QED BY <1>1, ProcHolds, PTL

\* Whatever numbers GitLab's 429 answers carry, in any order: one probe holds
\* hello up for 75 minutes at most (do and retryAfterOf of client.go).
THEOREM ThrottlingIsBounded == ProcSpec => []ThrottleBounded
<1>1. PaceInv => ThrottleBounded
  BY DEF PaceInv, ProcTypeOK, ThrottleBounded, RateLimitRetries
<1> QED BY <1>1, ProcHolds, PTL

\* Whatever GitLab and the server answer, in any order, the process exits only
\* after a signal or, with -once, after its hello, and its exit code tells which
\* (Run of agent.go).
THEOREM ExitsAreAskedFor == ProcSpec => []ExitsOnlyWhenAsked
<1>1. ProcInv => ExitsOnlyWhenAsked
  BY DEF ProcInv
<1> QED BY <1>1, ProcHolds, PTL

\* For any intervals, pauses, delays and request times: /healthz reports a process
\* as healthy until everything but the sleep after its cycle, failed hellos
\* included, has taken four intervals since the last good hello (healthy of
\* healthz.go).
THEOREM WorkingIsHealthy == ProcSpec => []HealthyWhileWorking
<1>1. PaceInv /\ ProcInv => HealthyWhileWorking
  <2> SUFFICES ASSUME PaceInv, ProcInv, Running, known, work < 4 * interval
               PROVE  silent < 5 * interval
    BY DEF HealthyWhileWorking, Healthy
  <2>1. silent \in Nat /\ work \in Nat /\ interval \in Nat \ {0}
    BY DEF PaceInv, ProcTypeOK
  <2>2. at \in {"describe", "hello", "cycle", "sleep"}
    BY DEF PaceInv, ProcTypeOK, Places, Running
  <2>3. silent <= work + interval
    BY <2>1, <2>2 DEF ProcInv, Calm
  <2> QED BY <2>1, <2>3
<1> QED BY <1>1, ProcHolds, PTL

=============================================================================
