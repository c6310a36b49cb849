--------------------------- MODULE TraceTailProofs ---------------------------
(***************************************************************************)
(* Proofs about TraceTail: the tail is the last characters of the whole    *)
(* trace, whatever its characters, its length and the sizes of its chunks. *)
(***************************************************************************)
EXTENDS TraceTail, NumberLemmas, FiniteSetTheorems

\* The rune of the complete character that begins at s.
Whole(s) == [at |-> s, bad |-> FALSE]

\* The whole characters that begin from a to b.
Wholes(a, b) == {Whole(s) : s \in {t \in starts : t \in a..b}}

-----------------------------------------------------------------------------
\* Any four bytes in a row hold the first byte of a character.
LEMMA FourBytes ==
  ASSUME NEW n \in Nat, starts \in Texts(n), NEW p \in Nat, p >= 1, p + 3 <= n
  PROVE  \E s \in starts : s \in p..p + 3
<1>1. p + 3 \in 1..n
  OBVIOUS
<1>2. PICK s \in starts : s \in p + 3 - 3..p + 3
  BY <1>1 DEF Texts
<1> QED BY <1>2

\* The first byte of a trace begins a character.
LEMMA FirstByte ==
  ASSUME NEW n \in Nat, starts \in Texts(n), n >= 1
  PROVE  1 \in starts
<1>1. PICK s \in starts : s \in 1 - 3..1
  BY DEF Texts
<1>2. s \in 1..n
  BY DEF Texts
<1> QED BY <1>1, <1>2

\* What a rune is made of.
LEMMA RuneType ==
  ASSUME NEW X
  PROVE  /\ \A p \in X : \A b \in BOOLEAN : [at |-> p, bad |-> b] \in [at : X, bad : BOOLEAN]
         /\ \A r \in [at : X, bad : BOOLEAN] :
               /\ r.at \in X /\ r.bad \in BOOLEAN
               /\ r = [at |-> r.at, bad |-> r.bad]
  OBVIOUS

\* The runes of a trace are finitely many.
LEMMA RunesFinite ==
  ASSUME NEW n \in Nat
  PROVE  IsFiniteSet([at : 1..n, bad : BOOLEAN])
<1> DEFINE All(b) == {[at |-> s, bad |-> b] : s \in 1..n}
           f(b) == [s \in 1..n |-> [at |-> s, bad |-> b]]
<1>1. ASSUME NEW b \in BOOLEAN
      PROVE  IsFiniteSet(All(b))
  <2>1. IsFiniteSet(1..n)
    BY FS_Interval
  <2>2. f(b) \in Surjection(1..n, All(b))
    BY DEF Surjection
  <2> HIDE DEF f, All
  <2> QED BY <2>1, <2>2, FS_Surjection
<1>2. IsFiniteSet(All(TRUE) \cup All(FALSE))
  BY <1>1, FS_Union
<1>3. [at : 1..n, bad : BOOLEAN] \subseteq All(TRUE) \cup All(FALSE)
  <2> SUFFICES ASSUME NEW r \in [at : 1..n, bad : BOOLEAN] PROVE r \in All(TRUE) \cup All(FALSE)
    OBVIOUS
  <2>1. r.at \in 1..n /\ r.bad \in BOOLEAN /\ r = [at |-> r.at, bad |-> r.bad]
    BY RuneType
  <2>2. r.bad = TRUE \/ r.bad = FALSE
    BY <2>1
  <2> QED BY <2>1, <2>2
<1> HIDE DEF All, f
<1> QED BY <1>2, <1>3, FS_Subset

\* 4 k bytes in a row hold the first bytes of k characters.
LEMMA Crowded ==
  ASSUME NEW n \in Nat, starts \in Texts(n), NEW a \in Nat, a >= 1,
         NEW N \in Nat, a + 4 * N - 1 <= n
  PROVE  Cardinality(Wholes(a, a + 4 * N - 1)) >= N
<1> DEFINE S == {k \in 0..N : Cardinality(Wholes(a, a + 4 * k - 1)) >= k}
<1>1. ASSUME NEW b \in Int
      PROVE  IsFiniteSet(Wholes(a, b)) /\ Cardinality(Wholes(a, b)) \in Nat
  <2>1. Wholes(a, b) \subseteq [at : 1..n, bad : BOOLEAN]
    <3>1. starts \subseteq 1..n
      BY DEF Texts
    <3>2. ASSUME NEW s \in starts
          PROVE  Whole(s) \in [at : 1..n, bad : BOOLEAN]
      BY <3>1, RuneType DEF Whole
    <3> QED BY <3>2 DEF Wholes
  <2>2. IsFiniteSet(Wholes(a, b))
    BY <2>1, RunesFinite, FS_Subset
  <2> QED BY <2>2, FS_CardinalityType
<1>2. 0 \in S
  BY <1>1
<1>3. ASSUME NEW k \in 0..N, k > 0, k - 1 \in S
      PROVE  k \in S
  <2> DEFINE b == a + 4 * (k - 1) - 1
             c == a + 4 * k - 1
  <2>1. b \in Nat /\ c \in Nat /\ b + 1 \in Nat /\ c = b + 4 /\ c <= n /\ b + 1 >= 1
    BY <1>3
  <2>2. PICK s \in starts : s \in b + 1..b + 1 + 3
    <3>1. b + 1 + 3 <= n
      BY <2>1
    <3> HIDE DEF b
    <3> QED BY <2>1, <3>1, FourBytes
  <2>3. Cardinality(Wholes(a, b)) >= k - 1
    BY <1>3
  <2> HIDE DEF b, c
  <2>4. s \in a..c /\ s \notin a..b
    <3>1. b = a + 4 * (k - 1) - 1 /\ k - 1 \in Nat
      BY <1>3 DEF b
    <3>2. b >= a - 1
      BY <3>1
    <3> QED BY <2>1, <2>2, <3>2
  <2>5. Whole(s) \notin Wholes(a, b)
    BY <2>4 DEF Wholes, Whole
  <2>6. Wholes(a, b) \cup {Whole(s)} \subseteq Wholes(a, c)
    BY <2>1, <2>4 DEF Wholes
  <2>7. Cardinality(Wholes(a, b) \cup {Whole(s)}) = Cardinality(Wholes(a, b)) + 1
    <3>1. IsFiniteSet(Wholes(a, b))
      BY <1>1, <2>1
    <3> HIDE DEF S
    <3> QED BY <2>5, <3>1, FS_AddElement
  <2>8. Cardinality(Wholes(a, b) \cup {Whole(s)}) <= Cardinality(Wholes(a, c))
    BY <1>1, <2>1, <2>6, FS_Subset
  <2>9. Cardinality(Wholes(a, c)) >= k
    BY <1>1, <2>1, <2>3, <2>7, <2>8
  <2> QED BY <2>9 DEF c
<1> HIDE DEF S
<1>4. 0..N \subseteq S
  BY <1>2, <1>3, Climb
<1>5. N \in S
  BY <1>4
<1> QED BY <1>5 DEF S

-----------------------------------------------------------------------------
\* A character that begins in the buffer is complete, one that begins before
\* it is not.
LEMMA CompleteCharacters ==
  ASSUME size \in Nat, starts \in Texts(size), NEW a \in 1..size + 1, NEW s \in starts
  PROVE  CharBytes(s) \subseteq a..size <=> a <= s
<1>1. s \in 1..size
  BY DEF Texts
<1>2. starts \subseteq Nat
  BY DEF Texts
<1>3. s \in CharBytes(s)
  BY <1>1, <1>2 DEF CharBytes
<1>4. CharBytes(s) \subseteq s..size
  BY DEF CharBytes
<1> QED BY <1>1, <1>3, <1>4

\* The bytes of no complete character lie before every character of the buffer.
LEMMA LooseBytes ==
  ASSUME size \in Nat, starts \in Texts(size), NEW a \in 1..size + 1,
         NEW p \in a..size, \A s \in starts : a <= s => p \notin CharBytes(s),
         NEW t \in starts, a <= t
  PROVE  p < t
<1> SUFFICES ASSUME t <= p PROVE FALSE
  BY DEF Texts
<1> DEFINE D == {d \in Nat : p - d \in starts /\ a <= p - d}
<1>1. starts \subseteq Nat /\ p \in Nat
  BY DEF Texts
<1>2. p - t \in D
  BY <1>1
<1>3. PICK d \in D : \A e \in D : d <= e
  <2> HIDE DEF D
  <2>1. D \subseteq Nat
    BY DEF D
  <2> QED BY <1>2, <2>1, LeastNumber
<1>4. p - d \in starts /\ a <= p - d /\ p - d <= p
  BY <1>1, <1>3
<1>5. ASSUME NEW u \in starts, p - d < u
      PROVE  p < u
  <2>1. SUFFICES ASSUME u <= p PROVE FALSE
    BY <1>1
  <2>2. p - u \in D
    BY <1>1, <1>3, <1>5, <2>1
  <2> QED BY <1>1, <1>3, <1>5, <2>2
<1>6. p \in CharBytes(p - d)
  BY <1>1, <1>4, <1>5 DEF CharBytes
<1> QED BY <1>4, <1>6

\* The runes of a buffer that reaches to the end of the trace: its whole
\* characters, and bytes before all of them.
LEMMA RunesAre ==
  ASSUME size \in Nat, starts \in Texts(size), NEW a \in 1..size + 1
  PROVE  /\ \A s \in starts : Whole(s) \in Runes(a..size) <=> a <= s
         /\ \A r \in Runes(a..size) :
               \/ \E s \in starts : a <= s /\ r = Whole(s)
               \/ /\ r.at \in a..size /\ r.bad
                  /\ \A t \in starts : a <= t => r.at < t
<1> DEFINE complete == {s \in starts : CharBytes(s) \subseteq a..size}
           loose == (a..size) \ UNION {CharBytes(s) : s \in complete}
<1>1. Runes(a..size) = {[at |-> s, bad |-> FALSE] : s \in complete} \cup
                       {[at |-> p, bad |-> TRUE] : p \in loose}
  BY DEF Runes
<1>2. complete = {s \in starts : a <= s}
  BY CompleteCharacters
<1>3. ASSUME NEW p \in loose, NEW t \in starts, a <= t
      PROVE  p < t
  <2>1. p \in a..size /\ \A s \in starts : a <= s => p \notin CharBytes(s)
    BY <1>2
  <2> HIDE DEF loose
  <2> QED BY <1>3, <2>1, LooseBytes
<1>4. \A p \in loose : p \in a..size
  OBVIOUS
<1> HIDE DEF complete, loose
<1>5. ASSUME NEW s \in starts
      PROVE  Whole(s) \in Runes(a..size) <=> a <= s
  BY <1>1, <1>2 DEF Whole
<1>6. ASSUME NEW r \in Runes(a..size)
      PROVE  \/ \E s \in starts : a <= s /\ r = Whole(s)
             \/ /\ r.at \in a..size /\ r.bad
                /\ \A t \in starts : a <= t => r.at < t
  <2>1. CASE \E s \in complete : r = [at |-> s, bad |-> FALSE]
    BY <1>2, <2>1 DEF Whole
  <2>2. CASE \E p \in loose : r = [at |-> p, bad |-> TRUE]
    BY <1>3, <1>4, <2>2
  <2> QED BY <1>1, <2>1, <2>2
<1> QED BY <1>5, <1>6

\* What the buffer holds: all of the trace so far, or its last Keep bytes.
Buffered == first = 1 \/ received - first + 1 = Keep

\* The runes of the buffer end in the last characters of the trace: a byte of a
\* character that the cut went through has too many characters after it.
LEMMA BufferSuffices ==
  ASSUME size \in Nat, starts \in Texts(size), NEW a \in 1..size + 1,
         a = 1 \/ size - a + 1 = Keep
  PROVE  LastOf(Runes(a..size), MaxChars) = LastOf({Whole(s) : s \in starts}, MaxChars)
<1> DEFINE R == Runes(a..size)
           G == {Whole(s) : s \in starts}
           After(X, p) == {q \in X : p <= q.at}
           Good(r) == \E s \in starts : a <= s /\ r = Whole(s)
<1> USE TraceTailAssumption
<1>1. starts \subseteq 1..size
  BY DEF Texts
<1>2. R \subseteq [at : 1..size, bad : BOOLEAN] /\ G \subseteq [at : 1..size, bad : BOOLEAN]
  <2>1. G \subseteq [at : 1..size, bad : BOOLEAN]
    <3>1. ASSUME NEW s \in starts
          PROVE  Whole(s) \in [at : 1..size, bad : BOOLEAN]
      BY <1>1, RuneType DEF Whole
    <3> QED BY <3>1
  <2>2. \A s \in starts : s \in 1..size
    BY <1>1
  <2>3. a..size \subseteq 1..size
    OBVIOUS
  <2>4. R \subseteq [at : 1..size, bad : BOOLEAN]
    <3>1. ASSUME NEW r \in R
          PROVE  \E p \in 1..size : \E b \in BOOLEAN : r = [at |-> p, bad |-> b]
      BY <2>2, <2>3 DEF Runes
    <3> QED BY <3>1, RuneType
  <2> QED BY <2>1, <2>4
<1>3. IsFiniteSet(R) /\ IsFiniteSet(G)
  BY <1>2, RunesFinite, FS_Subset
<1>4. ASSUME NEW s \in starts, a <= s
      PROVE  After(R, s) = After(G, s)
  <2>1. \A q \in R : s <= q.at => q \in G
    <3> SUFFICES ASSUME NEW q \in R, s <= q.at PROVE q \in G
      OBVIOUS
    <3>1. \/ Good(q)
          \/ q.at \in a..size /\ \A t \in starts : a <= t => q.at < t
      BY RunesAre
    <3>2. ~(q.at \in a..size /\ \A t \in starts : a <= t => q.at < t)
      BY <1>1, <1>4
    <3> QED BY <3>1, <3>2
  <2>2. \A q \in G : s <= q.at => q \in R
    <3> SUFFICES ASSUME NEW t \in starts, s <= Whole(t).at PROVE Whole(t) \in R
      OBVIOUS
    <3>1. a <= t
      BY <1>1, <1>4 DEF Whole
    <3> QED BY <3>1, RunesAre
  <2> QED BY <2>1, <2>2
<1>5. ASSUME a # 1, NEW X \in {R, G}, NEW p \in 1..size, \A t \in starts : a <= t => p <= t
      PROVE  ~(Cardinality(After(X, p)) <= MaxChars)
  <2>1. Cardinality(Wholes(a, size)) >= MaxChars + 1
    <3>1. a + 4 * (MaxChars + 1) - 1 = size
      BY <1>5 DEF Keep
    <3> QED BY <3>1, Crowded
  <2>2. Wholes(a, size) \subseteq After(X, p)
    <3> SUFFICES ASSUME NEW t \in starts, t \in a..size PROVE Whole(t) \in After(X, p)
      BY DEF Wholes
    <3>1. Whole(t) \in R /\ Whole(t) \in G
      BY RunesAre
    <3>2. p <= Whole(t).at
      BY <1>5 DEF Whole
    <3> QED BY <3>1, <3>2
  <2>3. IsFiniteSet(After(X, p))
    BY <1>3, FS_Subset
  <2>4. Cardinality(Wholes(a, size)) <= Cardinality(After(X, p))
    BY <2>2, <2>3, FS_Subset
  <2>5. Cardinality(After(X, p)) \in Nat /\ Cardinality(Wholes(a, size)) \in Nat
    BY <2>2, <2>3, FS_Subset, FS_CardinalityType
  <2> HIDE DEF After
  <2> QED BY <2>1, <2>4, <2>5
<1>6. ASSUME NEW r \in R, ~Good(r)
      PROVE  ~(Cardinality(After(R, r.at)) <= MaxChars)
  <2>1. r.at \in a..size /\ \A t \in starts : a <= t => r.at < t
    BY <1>6, RunesAre
  <2>2. a # 1
    <3> SUFFICES ASSUME a = 1 PROVE FALSE
      OBVIOUS
    <3>1. 1 \in starts
      BY <2>1, FirstByte
    <3> QED BY <2>1, <3>1
  <2>3. r.at \in 1..size /\ \A t \in starts : a <= t => r.at <= t
    BY <1>1, <2>1
  <2> HIDE DEF R, After
  <2> QED BY <1>5, <2>2, <2>3
<1>7. ASSUME NEW r \in G, ~Good(r)
      PROVE  ~(Cardinality(After(G, r.at)) <= MaxChars)
  <2>1. PICK s \in starts : r = Whole(s)
    OBVIOUS
  <2>2. r.at = s /\ s \in 1..size /\ s < a
    BY <1>1, <1>7, <2>1 DEF Whole
  <2>3. a # 1 /\ \A t \in starts : a <= t => r.at <= t
    BY <1>1, <2>2
  <2> HIDE DEF G, After
  <2> QED BY <1>5, <2>2, <2>3
<1>8. ASSUME NEW r, Good(r)
      PROVE  /\ r \in R /\ r \in G
             /\ Cardinality(After(R, r.at)) = Cardinality(After(G, r.at))
  <2>1. PICK s \in starts : a <= s /\ r = Whole(s)
    BY <1>8
  <2>2. r \in R /\ r \in G /\ r.at = s
    BY <2>1, RunesAre DEF Whole
  <2> QED BY <1>4, <2>1, <2>2
<1>9. LastOf(R, MaxChars) = {r \in R : Cardinality(After(R, r.at)) <= MaxChars}
  BY DEF LastOf
<1>10. LastOf(G, MaxChars) = {r \in G : Cardinality(After(G, r.at)) <= MaxChars}
  BY DEF LastOf
<1> HIDE DEF R, G, After, Good
<1>11. LastOf(R, MaxChars) = LastOf(G, MaxChars)
  BY <1>6, <1>7, <1>8, <1>9, <1>10
<1> QED BY <1>11 DEF R, G

-----------------------------------------------------------------------------
\* The inductive invariant: the buffer is all that was received, or as much of
\* its end as is kept.
TailInv ==
    /\ TailTypeOK
    /\ fetching = "idle" => received = 0 /\ first = 1 /\ tail = {}
    /\ Buffered
    /\ TailExact

\* The start of the buffer, before and after it is cut.
LEMMA BufferIsCut ==
  ASSUME NEW a \in Nat, NEW b \in Nat, NEW c \in Nat, a >= 1, a <= b + 1, b < c,
         a = 1 \/ b - a + 1 = Keep
  PROVE  /\ Trimmed(a, c) \in 1..c + 1
         /\ c - Trimmed(a, c) + 1 <= Keep
         /\ Trimmed(a, c) = 1 \/ c - Trimmed(a, c) + 1 = Keep
<1>1. Keep \in Nat
  BY TraceTailAssumption DEF Keep
<1> QED BY <1>1 DEF Trimmed

\* TailInv holds at the start and is kept by every step.
LEMMA TailInvariant == TailSpec => []TailInv
<1> USE TraceTailAssumption
<1>1. TailInit => TailInv
  <2> SUFFICES ASSUME TailInit PROVE TailInv
    OBVIOUS
  <2>1. Keep \in Nat
    BY DEF Keep
  <2>2. {} \in Texts(0)
    BY DEF Texts
  <2> QED BY <2>1, <2>2 DEF TailInit, TailInv, TailTypeOK, Buffered, TailExact, Fetches
<1>2. TailInv /\ [TailNext]_tailVars => TailInv'
  <2> SUFFICES ASSUME TailInv, [TailNext]_tailVars PROVE TailInv'
    OBVIOUS
  <2>0. Keep \in Nat /\ size \in Nat /\ received \in Nat /\ first \in Nat
    BY DEF TailInv, TailTypeOK, Keep
  <2>1. CASE RequestTrace
    <3>1. size' \in 0..MaxTrace /\ starts' \in Texts(size')
      BY <2>1 DEF RequestTrace, TailInv, TailTypeOK
    <3>2. received' = 0 /\ first' = 1 /\ tail' = {}
          /\ fetching' \in {"read", "unavailable", "failed"}
      BY <2>1 DEF RequestTrace, TailInv
    <3> QED BY <2>0, <3>1, <3>2 DEF TailInv, TailTypeOK, Buffered, TailExact, Fetches
  <2>2. CASE ReadChunk
    <3>1. PICK n \in 1..Chunk : received + n <= size /\ received' = received + n
                                /\ first' = Trimmed(first, received')
      BY <2>2 DEF ReadChunk
    <3>2. received' \in 0..size /\ received < received' /\ received' \in Nat
      BY <2>0, <3>1
    <3>3. /\ first' \in 1..received' + 1 /\ received' - first' + 1 <= Keep
          /\ first' = 1 \/ received' - first' + 1 = Keep
      BY <2>0, <3>1, <3>2, BufferIsCut DEF TailInv, TailTypeOK, Buffered
    <3>4. fetching = "read" /\ UNCHANGED <<size, starts, fetching, tail>>
      BY <2>2 DEF ReadChunk
    <3> QED BY <3>2, <3>3, <3>4 DEF TailInv, TailTypeOK, Buffered, TailExact
  <2>3. CASE TraceEnds
    <3>1. /\ fetching' = "done" /\ tail' = LastOf(Runes(first..size), MaxChars)
          /\ UNCHANGED <<size, starts, received, first>> /\ received = size
      BY <2>3 DEF TraceEnds
    <3>2. tail' = LastOf({Whole(s) : s \in starts}, MaxChars)
      BY <2>0, <3>1, BufferSuffices DEF TailInv, TailTypeOK, Buffered
    <3>3. tail' = LastOf({[at |-> s, bad |-> FALSE] : s \in starts}, MaxChars)
      BY <3>2 DEF Whole
    <3>4. tail' \subseteq [at : 1..size, bad : BOOLEAN]
      <4>1. ASSUME NEW s \in starts
            PROVE  [at |-> s, bad |-> FALSE] \in [at : 1..size, bad : BOOLEAN]
        BY RuneType DEF TailInv, TailTypeOK, Texts
      <4> QED BY <3>3, <4>1 DEF LastOf
    <3> QED BY <3>1, <3>3, <3>4 DEF TailInv, TailTypeOK, Buffered, TailExact, Fetches
  <2>4. CASE ReadBreaks
    BY <2>4 DEF ReadBreaks, TailInv, TailTypeOK, Buffered, TailExact, Fetches
  <2>5. CASE UNCHANGED tailVars
    BY <2>5 DEF tailVars, TailInv, TailTypeOK, Buffered, TailExact, Texts, LastOf
  <2> QED BY <2>1, <2>2, <2>3, <2>4, <2>5 DEF TailNext
<1> QED BY <1>1, <1>2, PTL DEF TailSpec

\* Every variable has its type, and no more of a trace is in memory than the
\* bytes to keep, for every limit, trace and size of its chunks.
THEOREM TailTypeCorrect == TailSpec => []TailTypeOK
<1>1. TailInv => TailTypeOK
  BY DEF TailInv
<1> QED BY <1>1, TailInvariant, PTL

\* The tail of a trace of any length and any characters is its last characters,
\* none lost and none garbled, for every limit and every size of the chunks.
THEOREM TailsAreExact == TailSpec => []TailExact
<1>1. TailInv => TailExact
  BY DEF TailInv
<1> QED BY <1>1, TailInvariant, PTL

=============================================================================
