----------------------------- MODULE TraceTail -----------------------------
(***************************************************************************)
(* The tail of a job's trace (LogTail of collector.go, readTail and        *)
(* lastChars of client.go).  The trace arrives in chunks, of which only as *)
(* many bytes are kept as the last characters can take, so that the buffer *)
(* may begin, and a chunk end, in the middle of a character.               *)
(*                                                                         *)
(* A trace is its number of bytes and the positions at which characters    *)
(* begin, the buffer a range of positions.  A byte that is no UTF-8 is a   *)
(* character of one byte.                                                  *)
(***************************************************************************)
EXTENDS Integers, FiniteSets

CONSTANTS
    MaxChars, \* limits.log_tail_chars
    Chunk,    \* bytes a read delivers at most
    MaxTrace  \* bound: bytes of a trace

ASSUME TraceTailAssumption ==
    MaxChars \in Nat \ {0} /\ Chunk \in Nat \ {0} /\ MaxTrace \in Nat

VARIABLES
    size,     \* of the trace GitLab has, in bytes
    starts,   \* positions of the first bytes of its characters
    fetching, \* where the call is: see Fetches
    received, \* bytes of the trace received
    first,    \* position of the first byte in buf of readTail, received is the last
    tail      \* result: runes

tailVars == <<size, starts, fetching, received, first, tail>>

Fetches == {"idle", "read", "done", "unavailable", "failed"}

\* A character has four bytes at most.
Texts(n) == {S \in SUBSET (1..n) : \A p \in 1..n : \E s \in S : s \in p - 3..p}

\* The bytes of the character that begins at s.
CharBytes(s) == {p \in s..size : \A t \in starts : s < t => p < t}

\* Mutant of Keep: a character is taken for a byte.
MutKeep == MaxChars

\* keep of readTail
Keep == MaxChars * 4 + 4

\* []rune(string(raw)) for the bytes of raw: a complete character is a rune, and
\* every byte of an incomplete one is U+FFFD.
Runes(raw) ==
    LET complete == {s \in starts : CharBytes(s) \subseteq raw}
    IN  {[at |-> s, bad |-> FALSE] : s \in complete} \cup
        {[at |-> p, bad |-> TRUE] : p \in raw \ UNION {CharBytes(s) : s \in complete}}

\* The last n runes.
LastOf(runes, n) == {r \in runes : Cardinality({q \in runes : r.at <= q.at}) <= n}

TailInit ==
    /\ size = 0 /\ starts = {}
    /\ fetching = "idle"
    /\ received = 0 /\ first = 1
    /\ tail = {}

\* The request succeeds; a trace that is gone (404) is a final answer, any
\* other failure is not.
RequestTrace ==
    /\ fetching = "idle"
    /\ \/ /\ fetching' = "read"
          /\ size' \in 0..MaxTrace
          /\ starts' \in Texts(size')
       \/ fetching' \in {"unavailable", "failed"} /\ UNCHANGED <<size, starts>>
    /\ UNCHANGED <<received, first, tail>>

\* Mutant of Trimmed: the whole trace is kept.
MutTrimmed(from, to) == from

\* Where the buffer begins once it is cut down to the bytes to keep.
Trimmed(from, to) == IF to - from + 1 > Keep THEN to - Keep + 1 ELSE from

\* A chunk is appended to the buffer.
ReadChunk ==
    /\ fetching = "read"
    /\ \E n \in 1..Chunk :
          /\ received + n <= size
          /\ received' = received + n
          /\ first' = Trimmed(first, received')
    /\ UNCHANGED <<size, starts, fetching, tail>>

TraceEnds ==
    /\ fetching = "read"
    /\ received = size
    /\ fetching' = "done"
    /\ tail' = LastOf(Runes(first..received), MaxChars)
    /\ UNCHANGED <<size, starts, received, first>>

\* The connection breaks: no tail at all.
ReadBreaks ==
    /\ fetching = "read"
    /\ fetching' = "failed"
    /\ UNCHANGED <<size, starts, received, first, tail>>

TailNext == RequestTrace \/ ReadChunk \/ TraceEnds \/ ReadBreaks

TailSpec == TailInit /\ [][TailNext]_tailVars

-----------------------------------------------------------------------------
\* Every variable has its type; no more than the bytes to keep are held, however
\* long the trace is.
TailTypeOK ==
    /\ size \in 0..MaxTrace /\ starts \in Texts(size)
    /\ fetching \in Fetches
    /\ received \in 0..size
    /\ first \in 1..received + 1 /\ received - first + 1 <= Keep
    /\ tail \subseteq [at : 1..size, bad : BOOLEAN]

\* The tail is the last characters of the whole trace: none of them is lost, and
\* none garbled by the cut at the front, wherever chunks and the buffer end.
TailExact ==
    fetching = "done" => tail = LastOf({[at |-> s, bad |-> FALSE] : s \in starts}, MaxChars)

=============================================================================
