---------------------------- MODULE DurationsProofs ----------------------------
(***************************************************************************)
(* Theorems about Durations: the delays the agent computes in 64 bits stay *)
(* within their limits, also where the arithmetic wraps.                   *)
(***************************************************************************)
EXTENDS Durations, NumberLemmas

\* The values of 55 bits.
Words == {x \in [hi : Nat, lo : Nat] : x.hi < HighRange /\ x.lo < LowRange}

\* The numbers the source names, as words.
LEMMA Literals ==
  /\ Wide(0) = [hi |-> 0, lo |-> 0]
  /\ Wide(Second) = [hi |-> 0, lo |-> 1953125]
  /\ Wide(Base) = [hi |-> 0, lo |-> 9765625]
  /\ Wide(BackoffCap) = [hi |-> 1, lo |-> 684070676]
  /\ Wide(MaxRetryAfter) = [hi |-> 1, lo |-> 684070676]
  /\ InSeconds(Wide(BackoffCap)) = 900
  /\ InSeconds(Wide(MaxRetryAfter)) = 900
BY SMT DEF Wide, InSeconds, Value, Second, Base, BackoffCap, MaxRetryAfter, LowRange, HighRange

\* A sum is a word, whatever is carried.
LEMMA PlusType ==
  ASSUME NEW x \in Words, NEW y \in Words
  PROVE  Plus(x, y) \in Words
BY SMT DEF Plus, Words, LowRange, HighRange

\* A word that is neither negative nor above 15 minutes is a number of seconds
\* up to 900.
LEMMA InSecondsBounded ==
  ASSUME NEW x \in Words, ~Negative(x), ~Above(x, BackoffCap) \/ ~Above(x, MaxRetryAfter)
  PROVE  InSeconds(x) \in 0..900
<1>1. x.hi < 1 \/ (x.hi = 1 /\ x.lo <= 684070676)
  BY Literals, SMT DEF Above, Words
<1>2. Value(x) \in Nat /\ Value(x) <= 1757812500
  BY <1>1, SMT DEF Value, Words, LowRange
<1> QED BY <1>2, SMT DEF InSeconds, Second

\* What is computed from a word, word by word, exists.
LEMMA WordIteration ==
  ASSUME NEW first \in Words
  PROVE  \A m \in Nat : \A s \in [1..m -> [Words -> Words]] :
            \E f \in [0..m -> Words] : f[0] = first /\ \A n \in 1..m : f[n] = s[n][f[n - 1]]
BY Iteration

-----------------------------------------------------------------------------
\* Base << n is computed by doubling.
LEMMA ShiftedDef ==
  /\ Shifted \in [0..63 -> Words]
  /\ Shifted[0] = Wide(Base)
  /\ \A n \in 1..63 : Shifted[n] = Twice(Shifted[n - 1])
<1> DEFINE step == [n \in 1..63 |-> [x \in Words |-> Twice(x)]]
<1>1. Wide(Base) \in Words
  BY Literals, SMT DEF Words, LowRange, HighRange
<1>2. step \in [1..63 -> [Words -> Words]]
  BY PlusType DEF Twice
<1>3. PICK f \in [0..63 -> Words] : f[0] = Wide(Base) /\ \A n \in 1..63 : f[n] = step[n][f[n - 1]]
  <2> HIDE DEF step
  <2>1. \A s \in [1..63 -> [Words -> Words]] :
           \E f \in [0..63 -> Words] : f[0] = Wide(Base) /\ \A n \in 1..63 : f[n] = s[n][f[n - 1]]
    <3>1. \A m \in Nat : \A s \in [1..m -> [Words -> Words]] :
             \E f \in [0..m -> Words] : f[0] = Wide(Base) /\ \A n \in 1..m : f[n] = s[n][f[n - 1]]
      BY <1>1, WordIteration
    <3>2. 63 \in Nat
      OBVIOUS
    <3> QED BY <3>1, <3>2
  <2> QED BY <1>2, <2>1, Zenon
<1>4. \A n \in 0..63 : f[n] = IF n = 0 THEN Wide(Base) ELSE Twice(f[n - 1])
  <2>1. \A n \in 1..63 : f[n - 1] \in Words
    OBVIOUS
  <2>2. \A n \in 1..63 : f[n] = Twice(f[n - 1])
    BY <1>3, <2>1
  <2> QED BY <1>3, <2>2
<1>5. f = [n \in 0..63 |-> IF n = 0 THEN Wide(Base) ELSE Twice(f[n - 1])]
  BY <1>3, <1>4
<1>6. Shifted = [n \in 0..63 |-> IF n = 0 THEN Wide(Base) ELSE Twice(Shifted[n - 1])]
  BY <1>5 DEF Shifted
<1>7. \A n \in 0..63 : Shifted[n] \in Words
  <2> DEFINE S == {n \in 0..63 : Shifted[n] \in Words}
  <2>1. 0 \in S
    BY <1>6, <1>1
  <2>2. \A n \in 0..63 : n > 0 /\ n - 1 \in S => n \in S
    BY <1>6, PlusType DEF Twice
  <2> HIDE DEF S
  <2>3. 0..63 \subseteq S
    BY <2>1, <2>2, Climb
  <2> QED BY <2>3 DEF S
<1>8. Shifted \in [0..63 -> Words]
  BY <1>6, <1>7
<1>9. \A n \in 1..63 : Shifted[n] = Twice(Shifted[n - 1])
  BY <1>6
<1> QED BY <1>6, <1>8, <1>9

\* Doubling a word: the low part carries into the high part, what the high part
\* does not hold is lost.
LEMMA Doubled ==
  ASSUME NEW x \in Words
  PROVE  /\ x.lo < 536870912  => Twice(x).lo = 2 * x.lo
         /\ x.lo >= 536870912 => Twice(x).lo = 2 * x.lo - 1073741824
         /\ x.lo < 536870912 /\ x.hi < 16777216   => Twice(x).hi = 2 * x.hi
         /\ x.lo >= 536870912 /\ x.hi < 16777216  => Twice(x).hi = 2 * x.hi + 1
         /\ x.lo < 536870912 /\ x.hi >= 16777216  => Twice(x).hi = 2 * x.hi - 33554432
<1>1. x.lo \in Nat /\ x.hi \in Nat /\ x.lo < 1073741824 /\ x.hi < 33554432
  BY SMT DEF Words, LowRange, HighRange
<1>2. /\ Twice(x).lo = (x.lo + x.lo) % 1073741824
      /\ Twice(x).hi = (x.hi + x.hi + (x.lo + x.lo) \div 1073741824) % 33554432
  BY SMT DEF Twice, Plus, LowRange, HighRange
<1>3. /\ \A h \in Nat : h < 33554432 => h % 33554432 = h
      /\ \A h \in Nat : h >= 33554432 /\ h < 67108864 => h % 33554432 = h - 33554432
  BY SMT
<1>4. CASE x.lo < 536870912
  <2>1. (x.lo + x.lo) % 1073741824 = 2 * x.lo /\ (x.lo + x.lo) \div 1073741824 = 0
    BY <1>1, <1>4, SMT
  <2>2. Twice(x).hi = (2 * x.hi) % 33554432 /\ 2 * x.hi \in Nat
    BY <1>1, <1>2, <2>1, SMT
  <2>3. Twice(x).hi = IF x.hi < 16777216 THEN 2 * x.hi ELSE 2 * x.hi - 33554432
    BY <1>1, <1>3, <2>2, SMT
  <2> QED BY <1>1, <1>2, <1>4, <2>1, <2>3, SMT
<1>5. CASE x.lo >= 536870912
  <2>1. /\ (x.lo + x.lo) % 1073741824 = 2 * x.lo - 1073741824
        /\ (x.lo + x.lo) \div 1073741824 = 1
    BY <1>1, <1>5, SMT
  <2>2. Twice(x).hi = (2 * x.hi + 1) % 33554432 /\ 2 * x.hi + 1 \in Nat
    BY <1>1, <1>2, <2>1, SMT
  <2>3. x.hi < 16777216 => Twice(x).hi = 2 * x.hi + 1
    BY <1>1, <1>3, <2>2, SMT
  <2> QED BY <1>1, <1>2, <1>5, <2>1, <2>3, SMT
<1> QED BY <1>1, <1>4, <1>5, SMT

\* The first shifts are exact: 5 s, 10 s, ..., 640 s.
LEMMA ShortShifts ==
  /\ Shifted[0].hi = 0 /\ Shifted[0].lo = 9765625
  /\ Shifted[1].hi = 0 /\ Shifted[1].lo = 19531250
  /\ Shifted[2].hi = 0 /\ Shifted[2].lo = 39062500
  /\ Shifted[3].hi = 0 /\ Shifted[3].lo = 78125000
  /\ Shifted[4].hi = 0 /\ Shifted[4].lo = 156250000
  /\ Shifted[5].hi = 0 /\ Shifted[5].lo = 312500000
  /\ Shifted[6].hi = 0 /\ Shifted[6].lo = 625000000
  /\ Shifted[7].hi = 1 /\ Shifted[7].lo = 176258176
<1>1. Shifted[0].hi = 0 /\ Shifted[0].lo = 9765625
  BY ShiftedDef, Literals
<1>2. /\ Shifted[1].hi = 0 /\ Shifted[1].lo = 19531250
      /\ Shifted[2].hi = 0 /\ Shifted[2].lo = 39062500
      /\ Shifted[3].hi = 0 /\ Shifted[3].lo = 78125000
      /\ Shifted[4].hi = 0 /\ Shifted[4].lo = 156250000
  BY <1>1, ShiftedDef, Doubled, SMT
<1>3. /\ Shifted[5].hi = 0 /\ Shifted[5].lo = 312500000
      /\ Shifted[6].hi = 0 /\ Shifted[6].lo = 625000000
      /\ Shifted[7].hi = 1 /\ Shifted[7].lo = 176258176
  BY <1>2, ShiftedDef, Doubled, SMT
<1> QED BY <1>1, <1>2, <1>3

\* Eight and more shifts are 20 minutes at least, or wrap: as the low part is
\* empty from the thirtieth on, what is left of a wrapped number is even in the
\* high part: zero, negative or again above 15 minutes.
LEMMA LongShifts == \A n \in 8..63 : Shifted[n].hi >= 2 \/ Shifted[n] = Wide(0)
<1>1. /\ Shifted[8].hi = 2 /\ Shifted[8].lo = 352516352
      /\ Shifted[9].hi = 4 /\ Shifted[9].lo = 705032704
      /\ Shifted[10].hi = 9 /\ Shifted[10].lo = 336323584
      /\ Shifted[11].hi = 18 /\ Shifted[11].lo = 672647168
      /\ Shifted[12].hi = 37 /\ Shifted[12].lo = 271552512
      /\ Shifted[13].hi = 74 /\ Shifted[13].lo = 543105024
  BY ShortShifts, ShiftedDef, Doubled, SMT
<1>2. /\ Shifted[14].hi = 149 /\ Shifted[14].lo = 12468224
      /\ Shifted[15].hi = 298 /\ Shifted[15].lo = 24936448
      /\ Shifted[16].hi = 596 /\ Shifted[16].lo = 49872896
      /\ Shifted[17].hi = 1192 /\ Shifted[17].lo = 99745792
      /\ Shifted[18].hi = 2384 /\ Shifted[18].lo = 199491584
      /\ Shifted[19].hi = 4768 /\ Shifted[19].lo = 398983168
  BY <1>1, ShiftedDef, Doubled, SMT
<1>3. /\ Shifted[20].hi = 9536 /\ Shifted[20].lo = 797966336
      /\ Shifted[21].hi = 19073 /\ Shifted[21].lo = 522190848
      /\ Shifted[22].hi = 38146 /\ Shifted[22].lo = 1044381696
      /\ Shifted[23].hi = 76293 /\ Shifted[23].lo = 1015021568
      /\ Shifted[24].hi = 152587 /\ Shifted[24].lo = 956301312
      /\ Shifted[25].hi = 305175 /\ Shifted[25].lo = 838860800
  BY <1>2, ShiftedDef, Doubled, SMT
<1>4. /\ Shifted[26].hi = 610351 /\ Shifted[26].lo = 603979776
      /\ Shifted[27].hi = 1220703 /\ Shifted[27].lo = 134217728
      /\ Shifted[28].hi = 2441406 /\ Shifted[28].lo = 268435456
      /\ Shifted[29].hi = 4882812 /\ Shifted[29].lo = 536870912
      /\ Shifted[30].hi = 9765625 /\ Shifted[30].lo = 0
      /\ Shifted[31].hi = 19531250 /\ Shifted[31].lo = 0
  BY <1>3, ShiftedDef, Doubled, SMT
<1> DEFINE S == {n \in 0..32 : Shifted[n + 31].lo = 0 /\ \E k \in Nat : Shifted[n + 31].hi = 2 * k}
<1>5. 0 \in S
  BY <1>4, SMT
<1>6. ASSUME NEW n \in 0..32, n > 0, n - 1 \in S
      PROVE  n \in S
  <2>1. Shifted[n - 1 + 31] \in Words /\ Shifted[n + 31] = Twice(Shifted[n - 1 + 31])
    BY <1>6, ShiftedDef
  <2>2. PICK k \in Nat : Shifted[n - 1 + 31].hi = 2 * k /\ Shifted[n - 1 + 31].lo = 0
    BY <1>6
  <2>3. \/ Shifted[n + 31].hi = 2 * (2 * k)
        \/ Shifted[n + 31].hi = 2 * (2 * k - 16777216) /\ 2 * k >= 16777216
    BY <2>1, <2>2, Doubled, SMT DEF Words
  <2>4. Shifted[n + 31].lo = 0
    BY <2>1, <2>2, Doubled, SMT
  <2>5. \E j \in Nat : Shifted[n + 31].hi = 2 * j
    <3>1. CASE Shifted[n + 31].hi = 2 * (2 * k)
      BY <3>1
    <3>2. CASE Shifted[n + 31].hi = 2 * (2 * k - 16777216) /\ 2 * k >= 16777216
      <4>1. 2 * k - 16777216 \in Nat
        BY <3>2, SMT
      <4> QED BY <3>2, <4>1, SMT
    <3> QED BY <2>3, <3>1, <3>2
  <2> QED BY <2>4, <2>5
<1> HIDE DEF S
<1>7. 0..32 \subseteq S
  <2>1. \A N \in Nat : (\A n \in 0..N : n > 0 /\ n - 1 \in S => n \in S) => 0..N \subseteq S
    BY <1>5, Climb
  <2>2. 32 \in Nat
    OBVIOUS
  <2> QED BY <1>6, <2>1, <2>2
<1>8. ASSUME NEW n \in 31..63
      PROVE  Shifted[n].hi >= 2 \/ Shifted[n] = Wide(0)
  <2>1. n - 31 \in S /\ n - 31 + 31 = n
    BY <1>7
  <2>2. PICK k \in Nat : Shifted[n].hi = 2 * k /\ Shifted[n].lo = 0
    BY <2>1 DEF S
  <2>3. k = 0 \/ Shifted[n].hi >= 2
    BY <2>2
  <2>4. Shifted[n] \in Words
    BY ShiftedDef
  <2> QED BY <2>2, <2>3, <2>4, Literals, SMT DEF Words
<1> QED BY <1>1, <1>2, <1>3, <1>4, <1>8, SMT

-----------------------------------------------------------------------------
\* The ceiling of the backoff doubles up to 640 seconds and stays at 15 minutes
\* from the ninth failure on, also where the shift wraps (Next of backoff.go).
THEOREM CeilingDoublesUpToCap ==
  /\ \A n \in 0..7 : BackoffCeiling(n) = <<5, 10, 20, 40, 80, 160, 320, 640>>[n + 1]
  /\ \A n \in 8..63 : BackoffCeiling(n) = 900
<1>1. ASSUME NEW n \in 8..63
      PROVE  BackoffCeiling(n) = 900
  <2>1. Shifted[n] = Wide(0) \/ Shifted[n].hi >= 2
    BY LongShifts
  <2>2. Shifted[n].hi >= 2 => Above(Shifted[n], BackoffCap) \/ Negative(Shifted[n])
    <3>1. Shifted[n] \in Words
      BY ShiftedDef
    <3>2. Shifted[n].hi \in Nat /\ Wide(BackoffCap).hi = 1
      BY <3>1, Literals, SMT DEF Words
    <3> QED BY <3>2, SMT DEF Above
  <2> QED BY <2>1, <2>2, Literals DEF BackoffCeiling
<1>2. ASSUME NEW n \in 0..7
      PROVE  /\ BackoffCeiling(n) = InSeconds(Shifted[n])
             /\ Shifted[n] \in Words
  <2>1. Shifted[n] \in Words
    BY ShiftedDef
  <2>2. ~Above(Shifted[n], BackoffCap) /\ ~Negative(Shifted[n])
    BY ShortShifts, Literals, SMT DEF Above, Negative, HighRange
  <2>3. Shifted[n] # Wide(0)
    BY ShortShifts, Literals, SMT
  <2> QED BY <2>1, <2>2, <2>3 DEF BackoffCeiling
<1>3. \A n \in 0..7 : InSeconds(Shifted[n]) = <<5, 10, 20, 40, 80, 160, 320, 640>>[n + 1]
  BY ShortShifts, SMT DEF InSeconds, Value, LowRange, Second
<1> QED BY <1>1, <1>2, <1>3

\* A number of seconds, however many digits it has, becomes a word.
LEMMA TimesType ==
  ASSUME NEW digits \in Seq({0, 1})
  PROVE  Times(digits) \in Words
<1> DEFINE N == Len(digits)
           next(n, x) == IF digits[n] = 1 THEN Plus(Twice(x), Wide(Second)) ELSE Twice(x)
           step == [n \in 1..N |-> [x \in Words |-> next(n, x)]]
           d[n \in 0..N] == IF n = 0 THEN Wide(0)
                            ELSE IF digits[n] = 1 THEN Plus(Twice(d[n - 1]), Wide(Second)) ELSE Twice(d[n - 1])
<1>1. N \in Nat
  OBVIOUS
<1>2. Wide(0) \in Words /\ Wide(Second) \in Words
  BY Literals, SMT DEF Words, LowRange, HighRange
<1>3. \A n \in 1..N, x \in Words : next(n, x) \in Words
  BY <1>2, PlusType DEF Twice
<1>4. step \in [1..N -> [Words -> Words]]
  BY <1>3
<1>5. PICK f \in [0..N -> Words] : f[0] = Wide(0) /\ \A n \in 1..N : f[n] = step[n][f[n - 1]]
  <2> HIDE DEF N, step
  <2>1. \A s \in [1..N -> [Words -> Words]] :
           \E f \in [0..N -> Words] : f[0] = Wide(0) /\ \A n \in 1..N : f[n] = s[n][f[n - 1]]
    BY <1>1, <1>2, WordIteration
  <2> QED BY <1>4, <2>1, Zenon
<1>6. \A n \in 0..N : f[n] = IF n = 0 THEN Wide(0) ELSE next(n, f[n - 1])
  <2>1. \A n \in 1..N : f[n - 1] \in Words
    BY <1>1
  <2>2. \A n \in 1..N : f[n] = next(n, f[n - 1])
    BY <1>5, <2>1
  <2> HIDE DEF N, next
  <2> QED BY <1>1, <1>5, <2>2
<1>7. f = [n \in 0..N |-> IF n = 0 THEN Wide(0)
                          ELSE IF digits[n] = 1 THEN Plus(Twice(f[n - 1]), Wide(Second)) ELSE Twice(f[n - 1])]
  <2> HIDE DEF N
  <2> QED BY <1>6
<1>8. d = [n \in 0..N |-> IF n = 0 THEN Wide(0)
                          ELSE IF digits[n] = 1 THEN Plus(Twice(d[n - 1]), Wide(Second)) ELSE Twice(d[n - 1])]
  BY <1>7
<1> HIDE DEF d
<1>9. \A n \in 0..N : n = 0 \/ n - 1 \in 0..N
  BY <1>1
<1>10. 0..N \subseteq {n \in 0..N : d[n] \in Words}
  <2> DEFINE S == {n \in 0..N : d[n] \in Words}
  <2>1. 0 \in S
    BY <1>1, <1>2, <1>8
  <2>2. ASSUME NEW n \in 0..N, n > 0, n - 1 \in S
        PROVE  n \in S
    <3>1. d[n] = next(n, d[n - 1]) /\ n \in 1..N
      BY <1>8, <2>2
    <3> QED BY <1>3, <2>2, <3>1
  <2> HIDE DEF S, N
  <2>3. 0..N \subseteq S
    BY <1>1, <2>1, <2>2, Climb
  <2> QED BY <2>3 DEF S
<1>11. d[N] \in Words
  BY <1>1, <1>10
<1>12. Times(digits) = d[N]
  BY DEF Times, d
<1> QED BY <1>11, <1>12

\* Whatever number GitLab sends, and whether its nanoseconds wrap or not, a 429
\* pauses for 15 minutes at most (retryAfterOf of client.go).
THEOREM RetryAfterBounded ==
  ASSUME NEW header \in Seq({0, 1})
  PROVE  RetryAfterOf(header) \in 0..900
<1>1. Times(header) \in Words
  BY TimesType
<1>2. CASE header = <<>>
  BY <1>2 DEF RetryAfterOf, DefaultRetryAfter
<1>3. CASE header # <<>> /\ (Above(Times(header), MaxRetryAfter) \/ Negative(Times(header)))
  BY <1>3, Literals DEF RetryAfterOf, Above
<1>4. CASE header # <<>> /\ ~Above(Times(header), MaxRetryAfter) /\ ~Negative(Times(header))
  BY <1>1, <1>4, InSecondsBounded DEF RetryAfterOf
<1> QED BY <1>2, <1>3, <1>4

=============================================================================
