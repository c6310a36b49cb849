----------------------------- MODULE Durations -----------------------------
(***************************************************************************)
(* The delays the agent computes as 64-bit numbers of nanoseconds: the     *)
(* ceiling of the backoff (Next of backoff.go) and GitLab's Retry-After    *)
(* (retryAfterOf of client.go).  One second is 5^9 times 2^9 ns, so every  *)
(* such number is a multiple of 512 ns, and a 64-bit number that wraps is  *)
(* a 55-bit number of these units that wraps.                              *)
(***************************************************************************)
EXTENDS Integers, Sequences

Second   == 1953125       \* units of 512 ns
Base     == 5 * Second    \* of backoff.go
BackoffCap == 900 * Second
MaxRetryAfter == 900 * Second
DefaultRetryAfter == 60   \* seconds

\* Two's complement, in two parts that TLC's integers hold: 25 bits and 30 bits.
LowRange  == 1073741824
HighRange == 33554432
Wide(n) == [hi |-> n \div LowRange, lo |-> n % LowRange]
Plus(x, y) ==
    [hi |-> (x.hi + y.hi + (x.lo + y.lo) \div LowRange) % HighRange,
     lo |-> (x.lo + y.lo) % LowRange]
Twice(x)      == Plus(x, x)
Value(x)      == x.hi * LowRange + x.lo    \* unless it is negative
Negative(x)   == x.hi >= HighRange \div 2
Above(x, n)   == ~Negative(x) /\ (x.hi > Wide(n).hi \/ (x.hi = Wide(n).hi /\ x.lo > Wide(n).lo))
InSeconds(x)  == Value(x) \div Second

\* Base << n
Shifted[n \in 0..63] == IF n = 0 THEN Wide(Base) ELSE Twice(Shifted[n - 1])

\* Mutant of BackoffCeiling: a shift that wrapped is not caught.
MutBackoffCeiling(n) ==
    LET ceiling == Shifted[n]
    IN  IF Above(ceiling, BackoffCap) THEN InSeconds(Wide(BackoffCap))
        ELSE IF Negative(ceiling) THEN 0 ELSE InSeconds(ceiling)

\* The upper end of the delay that follows n failures, in seconds.
BackoffCeiling(n) ==
    LET ceiling == Shifted[n]
    IN  InSeconds(IF Above(ceiling, BackoffCap) \/ Negative(ceiling) \/ ceiling = Wide(0)
                  THEN Wide(BackoffCap) ELSE ceiling)

\* A number of seconds times time.Second; the number as its binary digits.
Times(digits) ==
    LET d[n \in 0..Len(digits)] ==
            IF n = 0 THEN Wide(0)
            ELSE IF digits[n] = 1 THEN Plus(Twice(d[n - 1]), Wide(Second)) ELSE Twice(d[n - 1])
    IN  d[Len(digits)]

\* Mutant of RetryAfterOf: the cap is forgotten.
MutRetryAfterOf(header) ==
    LET d == Times(header)
    IN  IF header = <<>> THEN DefaultRetryAfter
        ELSE IF Negative(d) THEN 0 ELSE InSeconds(d)

\* The pause a 429 of GitLab asks for, in whole seconds; <<>> is a header that
\* is absent, no number, or not positive.  Sleep takes a product that wrapped
\* to a negative number for no pause.
RetryAfterOf(header) ==
    LET d == Times(header)
    IN  IF header = <<>> THEN DefaultRetryAfter
        ELSE IF Above(d, MaxRetryAfter) THEN InSeconds(Wide(MaxRetryAfter))
        ELSE IF Negative(d) THEN 0 ELSE InSeconds(d)

=============================================================================
