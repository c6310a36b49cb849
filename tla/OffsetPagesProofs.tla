-------------------------- MODULE OffsetPagesProofs --------------------------
(***************************************************************************)
(* Theorems about OffsetPages: what is read of a list by page number, for  *)
(* lists, pages and limits of any size.                                    *)
(***************************************************************************)
EXTENDS OffsetPages, SequenceTheorems, TLAPS

\* Part of a list.
LEMMA PartIs ==
  ASSUME NEW S, NEW s \in Seq(S), NEW m \in Nat \ {0}, NEW n \in 0..Len(s), m <= n + 1
  PROVE  /\ SubSeq(s, m, n) \in Seq(S)
         /\ Len(SubSeq(s, m, n)) = n - m + 1
         /\ \A j \in 1..n - m + 1 : SubSeq(s, m, n)[j] = s[m + j - 1]
<1>1. m \in Int /\ n \in Int /\ \A i \in m..n : s[i] \in S
  OBVIOUS
<1> QED BY <1>1, SubSeqProperties

\* Without its i-th entry, the later entries of a list are one place further ahead.
LEMMA RemoveAtIs ==
  ASSUME NEW S, NEW s \in Seq(S), NEW i \in 1..Len(s)
  PROVE  /\ RemoveAt(s, i) \in Seq(S)
         /\ Len(RemoveAt(s, i)) = Len(s) - 1
         /\ \A j \in 1..Len(s) - 1 : RemoveAt(s, i)[j] = IF j < i THEN s[j] ELSE s[j + 1]
<1> DEFINE a == SubSeq(s, 1, i - 1)
           b == SubSeq(s, i + 1, Len(s))
<1>1. Len(s) \in Nat /\ i - 1 \in 0..Len(s)
  OBVIOUS
<1>2. /\ a \in Seq(S) /\ Len(a) = i - 1
      /\ \A j \in 1..i - 1 : a[j] = s[j]
  BY <1>1, PartIs
<1>3. /\ b \in Seq(S) /\ Len(b) = Len(s) - i
      /\ \A j \in 1..Len(s) - i : b[j] = s[i + j]
  BY <1>1, PartIs
<1> HIDE DEF a, b
<1>4. /\ a \o b \in Seq(S) /\ Len(a \o b) = Len(s) - 1
      /\ \A j \in 1..Len(s) - 1 : (a \o b)[j] = IF j <= i - 1 THEN a[j] ELSE b[j - (i - 1)]
  <2>1. /\ a \o b \in Seq(S) /\ Len(a \o b) = Len(a) + Len(b)
        /\ \A j \in 1..Len(a) + Len(b) : (a \o b)[j] = IF j <= Len(a) THEN a[j] ELSE b[j - Len(a)]
    BY <1>2, <1>3, ConcatProperties
  <2>2. Len(a) + Len(b) = Len(s) - 1
    BY <1>1, <1>2, <1>3
  <2> QED BY <1>2, <2>1, <2>2
<1>5. ASSUME NEW j \in 1..Len(s) - 1
      PROVE  (a \o b)[j] = IF j < i THEN s[j] ELSE s[j + 1]
  <2>1. CASE j < i
    BY <1>1, <1>2, <1>4, <2>1
  <2>2. CASE j >= i
    <3>1. j - (i - 1) \in 1..Len(s) - i /\ i + (j - (i - 1)) = j + 1
      BY <1>1, <2>2
    <3> QED BY <1>1, <1>3, <1>4, <2>2, <3>1
  <2>3. j < i \/ j >= i
    OBVIOUS
  <2> QED BY <2>1, <2>2, <2>3
<1>6. RemoveAt(s, i) = a \o b
  BY DEF RemoveAt, a, b
<1> QED BY <1>4, <1>5, <1>6

\* With a new i-th entry, the later entries of a list are one place further back.
LEMMA InsertAtIs ==
  ASSUME NEW S, NEW s \in Seq(S), NEW i \in 1..Len(s) + 1, NEW e \in S
  PROVE  /\ InsertAt(s, i, e) \in Seq(S)
         /\ Len(InsertAt(s, i, e)) = Len(s) + 1
         /\ \A j \in 1..Len(s) + 1 :
               InsertAt(s, i, e)[j] = IF j < i THEN s[j] ELSE IF j = i THEN e ELSE s[j - 1]
<1> DEFINE a == SubSeq(s, 1, i - 1)
           b == SubSeq(s, i, Len(s))
           ae == a \o <<e>>
<1>1. Len(s) \in Nat /\ i - 1 \in 0..Len(s)
  OBVIOUS
<1>2. /\ a \in Seq(S) /\ Len(a) = i - 1
      /\ \A j \in 1..i - 1 : a[j] = s[j]
  BY <1>1, PartIs
<1>3. /\ b \in Seq(S) /\ Len(b) = Len(s) - i + 1
      /\ \A j \in 1..Len(s) - i + 1 : b[j] = s[i + j - 1]
  BY <1>1, PartIs
<1> HIDE DEF a, b
<1>4. /\ ae \in Seq(S) /\ Len(ae) = i
      /\ \A j \in 1..i : ae[j] = IF j < i THEN s[j] ELSE e
  <2>1. <<e>> \in Seq(S) /\ Len(<<e>>) = 1 /\ <<e>>[1] = e
    OBVIOUS
  <2>2. /\ a \o <<e>> \in Seq(S) /\ Len(a \o <<e>>) = Len(a) + 1
        /\ \A j \in 1..Len(a) + 1 : (a \o <<e>>)[j] = IF j <= Len(a) THEN a[j] ELSE <<e>>[j - Len(a)]
    BY <1>2, <2>1, ConcatProperties
  <2>3. ASSUME NEW j \in 1..i
        PROVE  ae[j] = IF j < i THEN s[j] ELSE e
    <3>1. CASE j < i
      BY <1>1, <1>2, <2>2, <3>1
    <3>2. CASE j = i
      <4>1. j - Len(a) = 1 /\ j \in 1..Len(a) + 1 /\ ~(j <= Len(a))
        BY <1>1, <1>2, <3>2
      <4>2. ae[j] = <<e>>[j - Len(a)]
        BY <2>2, <4>1
      <4> QED BY <2>1, <3>2, <4>1, <4>2
    <3>3. j < i \/ j = i
      OBVIOUS
    <3> QED BY <3>1, <3>2, <3>3
  <2>4. Len(a) + 1 = i
    BY <1>1, <1>2
  <2> QED BY <2>2, <2>3, <2>4
<1> HIDE DEF ae
<1>5. /\ ae \o b \in Seq(S) /\ Len(ae \o b) = Len(s) + 1
      /\ \A j \in 1..Len(s) + 1 : (ae \o b)[j] = IF j <= i THEN ae[j] ELSE b[j - i]
  <2>1. /\ ae \o b \in Seq(S) /\ Len(ae \o b) = Len(ae) + Len(b)
        /\ \A j \in 1..Len(ae) + Len(b) : (ae \o b)[j] = IF j <= Len(ae) THEN ae[j] ELSE b[j - Len(ae)]
    BY <1>3, <1>4, ConcatProperties
  <2>2. Len(ae) + Len(b) = Len(s) + 1
    BY <1>1, <1>3, <1>4
  <2> QED BY <1>4, <2>1, <2>2
<1>6. ASSUME NEW j \in 1..Len(s) + 1
      PROVE  (ae \o b)[j] = IF j < i THEN s[j] ELSE IF j = i THEN e ELSE s[j - 1]
  <2>1. CASE j <= i
    BY <1>1, <1>4, <1>5, <2>1
  <2>2. CASE j > i
    <3>1. j - i \in 1..Len(s) - i + 1 /\ i + (j - i) - 1 = j - 1
      BY <1>1, <2>2
    <3> QED BY <1>1, <1>3, <1>5, <2>2, <3>1
  <2>3. j <= i \/ j > i
    OBVIOUS
  <2> QED BY <2>1, <2>2, <2>3
<1>7. InsertAt(s, i, e) = ae \o b
  BY DEF InsertAt, a, ae, b
<1> QED BY <1>5, <1>6, <1>7

-----------------------------------------------------------------------------
\* Entries before the n-th page.
Before(n) == (n - 1) * PageSize

\* Pages follow each other without a gap.
LEMMA PagesAdjoin ==
  ASSUME NEW n \in Nat \ {0}
  PROVE  /\ Before(n) \in Nat /\ n - 1 <= Before(n)
         /\ n * PageSize = Before(n) + PageSize
         /\ Before(n + 1) = Before(n) + PageSize
<1>1. PageSize \in Nat \ {0}
  BY OffsetPagesAssumption
<1>2. \A k \in Nat, q \in Nat \ {0} : k * q \in Nat /\ k <= k * q
  BY SMT
<1>3. \A k \in Nat, q \in Nat : (k + 1) * q = k * q + q
  BY SMT
<1>4. n - 1 \in Nat /\ n - 1 + 1 = n /\ n + 1 - 1 = n
  OBVIOUS
<1> QED BY <1>1, <1>2, <1>3, <1>4 DEF Before

\* A page is full if there is a next one, and else what is left of the list.
LEMMA PageIs ==
  ASSUME NEW S, NEW s \in Seq(S), NEW n \in Nat \ {0}
  PROVE  /\ PageOf(s, n) \in Seq(S)
         /\ HasNext(s, n) => Len(PageOf(s, n)) = PageSize /\ Before(n) + PageSize < Len(s)
         /\ ~HasNext(s, n) /\ Before(n) <= Len(s) => Len(PageOf(s, n)) = Len(s) - Before(n)
         /\ Before(n) <= Len(s) => Before(n) + Len(PageOf(s, n)) <= Len(s)
         /\ Before(n) <= Len(s) =>
               PageOf(s, n) = SubSeq(s, Before(n) + 1, Before(n) + Len(PageOf(s, n)))
         /\ \A j \in 1..Len(PageOf(s, n)) : PageOf(s, n)[j] = s[Before(n) + j]
<1> DEFINE off == Before(n)
           top == off + PageSize
           items == PageOf(s, n)
<1>1. off \in Nat /\ top \in Nat /\ top > off /\ n * PageSize = top /\ (n - 1) * PageSize = off /\ Len(s) \in Nat
  BY PagesAdjoin, OffsetPagesAssumption DEF Before
<1>2. /\ items = SubSeq(s, off + 1, IF top < Len(s) THEN top ELSE Len(s))
      /\ HasNext(s, n) <=> top < Len(s)
  BY <1>1 DEF PageOf, HasNext
<1> HIDE DEF off, top, items
<1>3. CASE top < Len(s)
  <2>1. /\ SubSeq(s, off + 1, top) \in Seq(S) /\ Len(SubSeq(s, off + 1, top)) = top - (off + 1) + 1
        /\ \A j \in 1..top - (off + 1) + 1 : SubSeq(s, off + 1, top)[j] = s[off + 1 + j - 1]
    BY <1>1, <1>3, PartIs
  <2>2. top - (off + 1) + 1 = PageSize /\ top = off + PageSize
    BY <1>1, OffsetPagesAssumption DEF top
  <2>3. /\ items \in Seq(S) /\ Len(items) = PageSize /\ items = SubSeq(s, off + 1, off + Len(items))
        /\ \A j \in 1..Len(items) : items[j] = s[off + j]
    <3>1. items = SubSeq(s, off + 1, top)
      BY <1>2, <1>3
    <3>2. \A j \in 1..PageSize : off + 1 + j - 1 = off + j
      BY <1>1
    <3> QED BY <2>1, <2>2, <3>1, <3>2
  <2>4. off <= Len(s) /\ off + Len(items) <= Len(s) /\ ~(off > Len(s)) /\ HasNext(s, n) /\ off + PageSize < Len(s)
    <3>1. off + Len(items) = top /\ off + PageSize = top
      BY <2>2, <2>3
    <3> QED BY <1>1, <1>2, <1>3, <3>1
  <2> QED BY <2>3, <2>4 DEF off, items
<1>4. CASE ~(top < Len(s)) /\ off <= Len(s)
  <2>1. /\ SubSeq(s, off + 1, Len(s)) \in Seq(S) /\ Len(SubSeq(s, off + 1, Len(s))) = Len(s) - (off + 1) + 1
        /\ \A j \in 1..Len(s) - (off + 1) + 1 : SubSeq(s, off + 1, Len(s))[j] = s[off + 1 + j - 1]
    BY <1>1, <1>4, PartIs
  <2>2. Len(s) - (off + 1) + 1 = Len(s) - off /\ off + (Len(s) - off) = Len(s)
    BY <1>1
  <2>3. /\ items \in Seq(S) /\ Len(items) = Len(s) - off /\ items = SubSeq(s, off + 1, off + Len(items))
        /\ \A j \in 1..Len(items) : items[j] = s[off + j]
    <3>1. items = SubSeq(s, off + 1, Len(s))
      BY <1>2, <1>4
    <3>2. \A j \in 1..Len(s) - off : off + 1 + j - 1 = off + j
      BY <1>1
    <3> QED BY <2>1, <2>2, <3>1, <3>2
  <2>4. off + Len(items) <= Len(s) /\ ~(off > Len(s)) /\ ~HasNext(s, n)
    BY <1>1, <1>2, <1>4, <2>3
  <2> QED BY <1>4, <2>3, <2>4 DEF off, items
<1>5. CASE off > Len(s)
  <2>1. items = SubSeq(s, off + 1, Len(s))
    BY <1>1, <1>2, <1>5
  <2>2. SubSeq(s, off + 1, Len(s)) = <<>>
    BY <1>1, <1>5, SubSeqEmpty
  <2>3. items = <<>> /\ items \in Seq(S) /\ Len(items) = 0
    <3>1. <<>> \in Seq(S) /\ Len(<<>>) = 0
      OBVIOUS
    <3> QED BY <2>1, <2>2, <3>1
  <2> QED BY <1>1, <1>2, <1>5, <2>3 DEF off, items
<1>6. (top < Len(s)) \/ (~(top < Len(s)) /\ off <= Len(s)) \/ off > Len(s)
  BY <1>1
<1> QED BY <1>3, <1>4, <1>5, <1>6

-----------------------------------------------------------------------------
\* While the list is read, every page that was read is full; without changes they
\* are the beginning of the list, and unless an entry was removed, those of the
\* constant entries that were not read are still ahead.
ListInv ==
    /\ ListTypeOK
    /\ reading = "idle" => edits = 0 /\ removals = 0 /\ page = 1 /\ out = <<>> /\ ~truncated
    /\ reading = "page" => Len(out) = Before(page)
    /\ reading = "page" /\ edits = 0 =>
          /\ Before(page) <= Len(listing)
          /\ out = SubSeq(listing, 1, Before(page))
    /\ reading = "page" /\ removals = 0 =>
          \A c \in constant : \/ c \in Elements(out)
                             \/ \E j \in 1..Len(listing) : Before(page) < j /\ listing[j] = c
    /\ QuietExact
    /\ NothingMissed

\* The initial state satisfies the invariant.
LEMMA ListInvInit == ListInit => ListInv
<1> SUFFICES ASSUME ListInit PROVE ListInv
  OBVIOUS
<1>1. ListTypeOK
  <2>1. Len(<<>>) = 0 /\ <<>> \in Seq(Entries)
    OBVIOUS
  <2>2. edits \in 0..MaxEdits /\ removals \in 0..edits /\ page \in 1..MaxEntries + 2
    BY OffsetPagesAssumption DEF ListInit
  <2>3. kind \in {"jobs", "projects"} /\ reading \in Phases /\ truncated \in BOOLEAN
    BY DEF ListInit, Phases
  <2>4. listing = <<>> /\ out = <<>> /\ constant = {} /\ 0 <= MaxEntries
    BY OffsetPagesAssumption DEF ListInit
  <2> QED BY <2>1, <2>2, <2>3, <2>4 DEF ListTypeOK
<1> QED BY <1>1 DEF ListInit, ListInv, QuietExact, NothingMissed

\* The call begins.
LEMMA StartListInv ==
  ASSUME ListInv, StartList
  PROVE  ListInv'
<1>1. PICK n \in 0..MaxListed : listing' = [i \in 1..n |-> i] /\ constant' = 1..n
  BY DEF StartList
<1>2. /\ reading' = "page" /\ kind' \in {"jobs", "projects"}
      /\ edits = 0 /\ removals = 0 /\ page = 1 /\ out = <<>> /\ ~truncated
      /\ UNCHANGED <<edits, removals, page, out, truncated>>
  BY DEF StartList, ListInv
<1>3. n \in Nat /\ 1..n \subseteq Entries
  BY OffsetPagesAssumption DEF Entries
<1>4. listing' \in Seq(Entries) /\ Len(listing') = n /\ \A i \in 1..n : listing'[i] = i
  BY <1>1, <1>3
<1>5. ListTypeOK'
  BY <1>1, <1>2, <1>3, <1>4 DEF ListInv, ListTypeOK, Phases
<1>6. Before(page') = 0 /\ Len(out') = 0
  BY <1>2, OffsetPagesAssumption DEF Before
<1>7. out' = SubSeq(listing', 1, 0)
  BY <1>2, SubSeqEmpty
<1>8. \A c \in constant' : \E j \in 1..Len(listing') : 0 < j /\ listing'[j] = c
  BY <1>1, <1>3, <1>4
<1> QED BY <1>2, <1>3, <1>4, <1>5, <1>6, <1>7, <1>8 DEF ListInv, QuietExact, NothingMissed

\* What an edit has to do with the invariant: every entry that stays is as far
\* back as before, or further, unless it was a removal.
LEMMA EditInv ==
  ASSUME ListInv, NEW list \in Seq(Entries), Edit(list),
         constant' \subseteq constant, removals' \in {removals, removals + 1},
         removals' = removals => \A j \in 1..Len(listing) : listing[j] \in constant' =>
             \E k \in 1..Len(list) : j <= k /\ list[k] = listing[j]
  PROVE  ListInv'
<1>1. /\ reading = "page" /\ edits' = edits + 1 /\ edits < MaxEdits /\ listing' = list
      /\ UNCHANGED <<kind, reading, page, out, truncated>>
  BY DEF Edit
<1>2. edits \in Nat /\ removals \in 0..edits /\ page \in Nat \ {0} /\ Before(page) \in Nat
  <2>1. edits \in Nat /\ removals \in 0..edits /\ page \in Nat \ {0}
    BY OffsetPagesAssumption DEF ListInv, ListTypeOK
  <2> QED BY <2>1, PagesAdjoin
<1>3. ListTypeOK'
  <2>1. edits' \in 0..MaxEdits /\ removals' \in 0..edits'
    BY <1>1, <1>2, OffsetPagesAssumption
  <2> QED BY <1>1, <2>1 DEF ListInv, ListTypeOK
<1>4. edits' # 0
  BY <1>1, <1>2
<1>5. ASSUME removals' = 0, NEW c \in constant'
      PROVE  c \in Elements(out) \/ \E k \in 1..Len(list) : Before(page) < k /\ list[k] = c
  <2>1. removals = 0 /\ removals' = removals
    BY <1>2, <1>5
  <2>2. c \in Elements(out) \/ \E j \in 1..Len(listing) : Before(page) < j /\ listing[j] = c
    BY <1>1, <2>1 DEF ListInv
  <2>3. ASSUME NEW j \in 1..Len(listing), Before(page) < j, listing[j] = c
        PROVE  \E k \in 1..Len(list) : Before(page) < k /\ list[k] = c
    <3>1. PICK k \in 1..Len(list) : j <= k /\ list[k] = listing[j]
      BY <1>5, <2>1, <2>3
    <3>2. Before(page) < k
      <4>1. Len(listing) \in Nat /\ Len(list) \in Nat
        BY DEF ListInv, ListTypeOK
      <4> QED BY <1>2, <2>3, <3>1, <4>1
    <3> QED BY <2>3, <3>1, <3>2
  <2> QED BY <2>2, <2>3
<1>6. Before(page') = Before(page) /\ Elements(out') = Elements(out) /\ reading' = "page"
  BY <1>1
<1> QED BY <1>1, <1>3, <1>4, <1>5, <1>6 DEF ListInv, QuietExact, NothingMissed

\* A job is retried, a project appears or goes away.
LEMMA EditsInv ==
  ASSUME ListInv,
         \/ \E i \in 1..Len(listing) : JobRetried(i) \/ ProjectRemoved(i)
         \/ \E i \in 1..Len(listing) + 1 : ProjectAdded(i)
  PROVE  ListInv'
<1>1. listing \in Seq(Entries) /\ Len(listing) \in Nat /\ constant \subseteq Entries
  BY DEF ListInv, ListTypeOK
<1>2. ASSUME edits < MaxEdits
      PROVE  NewEntry \in Entries
  BY <1>2, OffsetPagesAssumption DEF NewEntry, Entries, ListInv, ListTypeOK
<1>3. ASSUME NEW i \in 1..Len(listing), JobRetried(i)
      PROVE  ListInv'
  <2> DEFINE rest == RemoveAt(listing, i)
             list == <<NewEntry>> \o rest
  <2>1. /\ Edit(list) /\ edits < MaxEdits /\ constant' = constant \ {listing[i]}
        /\ removals' = removals
    BY <1>3 DEF JobRetried, Edit
  <2>2. /\ rest \in Seq(Entries) /\ Len(rest) = Len(listing) - 1
        /\ \A j \in 1..Len(listing) - 1 : rest[j] = IF j < i THEN listing[j] ELSE listing[j + 1]
    BY <1>1, RemoveAtIs
  <2> HIDE DEF rest
  <2>3. <<NewEntry>> \in Seq(Entries) /\ Len(<<NewEntry>>) = 1
    BY <1>2, <2>1
  <2>4. /\ list \in Seq(Entries) /\ Len(list) = 1 + Len(rest)
        /\ \A j \in 1..1 + Len(rest) : list[j] = IF j <= 1 THEN <<NewEntry>>[j] ELSE rest[j - 1]
    BY <2>2, <2>3, ConcatProperties
  <2> HIDE DEF list
  <2>5. ASSUME NEW j \in 1..Len(listing), listing[j] \in constant'
        PROVE  \E k \in 1..Len(list) : j <= k /\ list[k] = listing[j]
    <3>1. CASE j < i
      <4>1. j + 1 \in 1..1 + Len(rest) /\ ~(j + 1 <= 1) /\ j + 1 - 1 = j /\ j \in 1..Len(listing) - 1
        BY <1>1, <2>2, <3>1
      <4>2. list[j + 1] = listing[j]
        BY <2>2, <2>4, <3>1, <4>1
      <4>3. j + 1 \in 1..Len(list) /\ j <= j + 1
        BY <2>4, <4>1
      <4> QED BY <4>2, <4>3
    <3>2. CASE j > i
      <4>1. j \in 1..1 + Len(rest) /\ ~(j <= 1) /\ j - 1 \in 1..Len(listing) - 1 /\ ~(j - 1 < i) /\ j - 1 + 1 = j
        BY <1>1, <2>2, <3>2
      <4>2. list[j] = listing[j]
        BY <2>2, <2>4, <4>1
      <4>3. j \in 1..Len(list) /\ j <= j
        BY <2>4, <4>1
      <4> QED BY <4>2, <4>3
    <3>3. j # i
      BY <2>1, <2>5
    <3>4. j < i \/ j > i
      BY <3>3
    <3> QED BY <3>1, <3>2, <3>4
  <2> QED BY <2>1, <2>4, <2>5, EditInv
<1>4. ASSUME NEW i \in 1..Len(listing) + 1, ProjectAdded(i)
      PROVE  ListInv'
  <2> DEFINE list == InsertAt(listing, i, NewEntry)
  <2>1. /\ Edit(list) /\ edits < MaxEdits /\ constant' = constant /\ removals' = removals
    BY <1>4 DEF ProjectAdded, Edit
  <2>2. /\ list \in Seq(Entries) /\ Len(list) = Len(listing) + 1
        /\ \A j \in 1..Len(listing) + 1 :
              list[j] = IF j < i THEN listing[j] ELSE IF j = i THEN NewEntry ELSE listing[j - 1]
    BY <1>1, <1>2, <2>1, InsertAtIs
  <2> HIDE DEF list
  <2>3. ASSUME NEW j \in 1..Len(listing)
        PROVE  \E k \in 1..Len(list) : j <= k /\ list[k] = listing[j]
    <3>1. CASE j < i
      <4>1. j \in 1..Len(listing) + 1
        BY <1>1
      <4> QED BY <2>2, <3>1, <4>1
    <3>2. CASE j >= i
      <4>1. j + 1 \in 1..Len(listing) + 1 /\ ~(j + 1 < i) /\ j + 1 # i /\ j + 1 - 1 = j /\ j <= j + 1
        BY <1>1, <3>2
      <4>2. list[j + 1] = listing[j]
        BY <2>2, <4>1
      <4> QED BY <2>2, <4>1, <4>2
    <3>3. j < i \/ j >= i
      OBVIOUS
    <3> QED BY <3>1, <3>2, <3>3
  <2> QED BY <2>1, <2>2, <2>3, EditInv
<1>5. ASSUME NEW i \in 1..Len(listing), ProjectRemoved(i)
      PROVE  ListInv'
  <2>1. /\ Edit(RemoveAt(listing, i)) /\ constant' \subseteq constant /\ removals' = removals + 1
    BY <1>5 DEF ProjectRemoved
  <2>2. RemoveAt(listing, i) \in Seq(Entries)
    BY <1>1, RemoveAtIs
  <2>3. removals \in Nat
    BY DEF ListInv, ListTypeOK
  <2>4. removals' # removals
    BY <2>1, <2>3
  <2> QED BY <2>1, <2>2, <2>4, EditInv
<1> QED BY <1>3, <1>4, <1>5

\* A page is read.
LEMMA ReadPageInv ==
  ASSUME ListInv, ReadPage
  PROVE  ListInv'
<1> DEFINE items == PageOf(listing, page)
           off == Before(page)
           n == Len(items)
           cut == n > Room
           added == IF cut THEN SubSeq(items, 1, Room) ELSE items
<1>1. /\ listing \in Seq(Entries) /\ Len(listing) \in Nat /\ page \in Nat \ {0}
      /\ out \in Seq(Entries) /\ Len(out) \in Nat /\ Len(out) <= MaxEntries
      /\ MaxEntries \in Nat \ {0} /\ PageSize \in Nat \ {0}
  BY OffsetPagesAssumption DEF ListInv, ListTypeOK
<1>2. /\ reading = "page" /\ out' = out \o added /\ truncated' = cut
      /\ page' = IF cut THEN page ELSE page + 1
      /\ reading' = IF ~cut /\ HasNext(listing, page) THEN "page" ELSE "done"
      /\ UNCHANGED <<listing, kind, edits, removals, constant>>
  BY DEF ReadPage, AppendPage
<1>3. off \in Nat /\ page - 1 <= off /\ Len(out) = off /\ Before(page + 1) = off + PageSize
  BY <1>1, <1>2, PagesAdjoin DEF ListInv
<1>4. /\ items \in Seq(Entries)
      /\ HasNext(listing, page) => n = PageSize /\ off + PageSize < Len(listing)
      /\ ~HasNext(listing, page) /\ off <= Len(listing) => n = Len(listing) - off
      /\ off <= Len(listing) => off + n <= Len(listing)
      /\ off <= Len(listing) => items = SubSeq(listing, off + 1, off + n)
      /\ \A j \in 1..n : items[j] = listing[off + j]
  BY <1>1, PageIs
<1>5. Room \in Nat /\ Room = MaxEntries - off /\ n \in Nat /\ cut \in BOOLEAN
  BY <1>1, <1>3, <1>4 DEF Room
<1> HIDE DEF items, off
<1>6. /\ added \in Seq(Entries) /\ Len(added) = (IF cut THEN Room ELSE n)
      /\ off + Len(added) <= MaxEntries
  <2>1. CASE cut
    <3>1. Room <= n /\ 1 <= Room + 1 /\ Room \in 0..Len(items) /\ 1 \in Nat \ {0} /\ Room - 1 + 1 = Room
      BY <1>5, <2>1
    <3>2. SubSeq(items, 1, Room) \in Seq(Entries) /\ Len(SubSeq(items, 1, Room)) = Room - 1 + 1
      BY <1>4, <3>1, PartIs
    <3> QED BY <1>1, <1>3, <1>5, <2>1, <3>1, <3>2
  <2>2. CASE ~cut
    BY <1>1, <1>3, <1>4, <1>5, <2>2
  <2> QED BY <2>1, <2>2
<1> HIDE DEF added
<1>7. /\ out' \in Seq(Entries) /\ Len(out') = off + Len(added)
      /\ \A j \in 1..off + Len(added) : out'[j] = IF j <= off THEN out[j] ELSE added[j - off]
  BY <1>1, <1>2, <1>3, <1>6, ConcatProperties
<1>8. ListTypeOK'
  <2>1. page' \in 1..MaxEntries + 2
    BY <1>1, <1>2, <1>3, <1>5
  <2>2. Len(out') <= MaxEntries /\ truncated' \in BOOLEAN /\ reading' \in Phases
    BY <1>2, <1>5, <1>6, <1>7 DEF Phases
  <2> QED BY <1>2, <1>7, <2>1, <2>2 DEF ListInv, ListTypeOK
<1>9. ASSUME ~cut
      PROVE  added = items /\ Len(added) = n
  BY <1>6, <1>9 DEF added
<1>10. ASSUME reading' = "page"
       PROVE  /\ Len(out') = Before(page')
              /\ ~cut /\ page' = page + 1 /\ Before(page') = off + n
  <2>1. ~cut /\ HasNext(listing, page)
    BY <1>2, <1>10
  <2>2. page' = page + 1 /\ n = PageSize
    BY <1>2, <1>4, <2>1
  <2> QED BY <1>3, <1>7, <1>9, <2>1, <2>2
<1>11. ASSUME edits = 0
       PROVE  /\ off <= Len(listing) /\ off + n <= Len(listing)
              /\ ~cut => out' = SubSeq(listing, 1, off + n)
              /\ cut => out' = SubSeq(listing, 1, MaxEntries) /\ MaxEntries < Len(listing)
  <2>1. off <= Len(listing) /\ out = SubSeq(listing, 1, off)
    BY <1>2, <1>11 DEF ListInv, off
  <2>2. off + n <= Len(listing) /\ items = SubSeq(listing, off + 1, off + n)
    BY <1>4, <2>1
  <2>3. \A m \in 0..n : SubSeq(listing, 1, off) \o SubSeq(listing, off + 1, off + m) = SubSeq(listing, 1, off + m)
    <3>1. ASSUME NEW m \in 0..n
          PROVE  1 \in 1..Len(listing) + 1 /\ off \in 1 - 1..Len(listing) /\ off + m \in off..Len(listing)
      BY <1>1, <1>3, <1>5, <2>1, <2>2
    <3> QED BY <1>1, <3>1, ConcatAdjacentSubSeq
  <2>4. CASE ~cut
    <3>1. n \in 0..n
      BY <1>5
    <3> QED BY <1>2, <1>9, <2>1, <2>2, <2>3, <2>4, <3>1
  <2>5. CASE cut
    <3>1. Room \in 0..n /\ off + Room = MaxEntries /\ MaxEntries < Len(listing)
      BY <1>1, <1>3, <1>5, <2>2, <2>5
    <3>2. added = SubSeq(listing, off + 1, off + Room)
      <4>1. added = SubSeq(SubSeq(listing, off + 1, off + n), 1, Room)
        BY <2>2, <2>5 DEF added
      <4>2. CASE Room = 0
        BY <1>3, <4>1, <4>2, SubSeqEmpty
      <4>3. CASE Room > 0
        <5> DEFINE t == SubSeq(listing, off + 1, off + Room)
        <5>1. /\ off + 1 \in Nat \ {0} /\ off + Room \in 0..Len(listing) /\ off + 1 <= off + Room + 1
              /\ off + Room - (off + 1) + 1 = Room
          BY <1>1, <1>3, <1>5, <2>2, <3>1, <4>3
        <5>2. /\ t \in Seq(Entries) /\ Len(t) = Room
              /\ \A j \in 1..Room : t[j] = listing[off + 1 + j - 1]
          <6>1. ASSUME NEW k \in 0..Len(listing), off + 1 <= k + 1
                PROVE  /\ SubSeq(listing, off + 1, k) \in Seq(Entries)
                       /\ Len(SubSeq(listing, off + 1, k)) = k - (off + 1) + 1
                       /\ \A j \in 1..k - (off + 1) + 1 : SubSeq(listing, off + 1, k)[j] = listing[off + 1 + j - 1]
            BY <1>1, <5>1, <6>1, PartIs
          <6> DEFINE k == off + Room
          <6>2. k \in 0..Len(listing) /\ off + 1 <= k + 1 /\ k - (off + 1) + 1 = Room
            BY <1>1, <1>3, <1>5, <5>1
          <6>3. t = SubSeq(listing, off + 1, k)
            OBVIOUS
          <6> HIDE DEF k, t
          <6> QED BY <6>1, <6>2, <6>3
        <5>3. 1 \in Nat \ {0} /\ Room \in 0..Len(items) /\ 1 <= Room + 1 /\ Room - 1 + 1 = Room
          BY <1>5, <3>1, <4>3
        <5>4. added \in Seq(Entries) /\ Len(added) = Room /\ \A j \in 1..Room : added[j] = items[1 + j - 1]
          BY <1>4, <2>5, <5>3, PartIs DEF added
        <5>5. ASSUME NEW j \in 1..Room
              PROVE  added[j] = t[j]
          <6>1. 1 + j - 1 = j /\ off + 1 + j - 1 = off + j /\ j \in 1..n
            BY <1>3, <1>5, <3>1
          <6> QED BY <1>4, <5>2, <5>4, <6>1
        <5> QED BY <5>2, <5>4, <5>5, SeqEqual
      <4> QED BY <1>5, <4>2, <4>3
    <3> QED BY <1>2, <2>1, <2>2, <2>3, <2>5, <3>1, <3>2
  <2> QED BY <2>1, <2>2, <2>4, <2>5
<1>12. QuietExact'
  <2> SUFFICES ASSUME reading' = "done", edits = 0
               PROVE  /\ out' = SubSeq(listing, 1, IF Len(listing) < MaxEntries THEN Len(listing) ELSE MaxEntries)
                      /\ cut <=> Len(listing) > MaxEntries
    BY <1>2 DEF QuietExact
  <2>1. CASE cut
    BY <1>1, <1>11, <2>1
  <2>2. CASE ~cut
    <3>1. ~HasNext(listing, page)
      BY <1>2, <2>2
    <3>2. off + n = Len(listing)
      <4>1. off <= Len(listing)
        BY <1>11
      <4>2. n = Len(listing) - off
        BY <1>4, <3>1, <4>1
      <4> QED BY <1>1, <1>3, <4>2
    <3>3. Len(listing) <= MaxEntries
      BY <1>5, <1>1, <1>3, <2>2, <3>2
    <3>4. (IF Len(listing) < MaxEntries THEN Len(listing) ELSE MaxEntries) = Len(listing)
      BY <1>1, <3>3
    <3> QED BY <1>1, <1>11, <2>2, <3>2, <3>3, <3>4
  <2> QED BY <2>1, <2>2
<1>13. ASSUME removals = 0, ~cut, NEW c \in constant
       PROVE  \/ c \in Elements(out')
              \/ HasNext(listing, page) /\ \E j \in 1..Len(listing) : off + n < j /\ listing[j] = c
  <2>1. Len(out') = off + n
    BY <1>7, <1>9, <1>13
  <2>2. CASE c \in Elements(out)
    <3>1. PICK j \in 1..Len(out) : out[j] = c
      BY <2>2 DEF Elements
    <3>2. j \in 1..off + Len(added) /\ j <= off /\ j \in 1..Len(out')
      BY <1>3, <1>5, <1>9, <1>13, <2>1, <3>1
    <3>3. out'[j] = c
      BY <1>7, <3>1, <3>2
    <3> QED BY <3>2, <3>3 DEF Elements
  <2>3. ASSUME NEW j \in 1..Len(listing), off < j, listing[j] = c
        PROVE  \/ c \in Elements(out')
               \/ HasNext(listing, page) /\ off + n < j
    <3>1. CASE j <= off + n
      <4>1. j \in 1..off + Len(added) /\ ~(j <= off) /\ j - off \in 1..n /\ off + (j - off) = j /\ j \in 1..Len(out')
        BY <1>1, <1>3, <1>5, <1>9, <1>13, <2>1, <2>3, <3>1
      <4>2. out'[j] = items[j - off]
        BY <1>7, <1>9, <1>13, <4>1
      <4>3. out'[j] = c
        BY <1>4, <2>3, <4>1, <4>2
      <4> QED BY <4>1, <4>3 DEF Elements
    <3>2. CASE j > off + n
      <4>1. off <= Len(listing) /\ j <= Len(listing)
        BY <1>1, <1>3, <2>3
      <4>2. n # Len(listing) - off
        BY <1>1, <1>3, <1>5, <3>2, <4>1
      <4>3. HasNext(listing, page)
        BY <1>4, <4>1, <4>2
      <4> QED BY <3>2, <4>3
    <3> QED BY <1>3, <1>5, <3>1, <3>2
  <2>4. c \in Elements(out) \/ \E j \in 1..Len(listing) : off < j /\ listing[j] = c
    BY <1>2, <1>13 DEF ListInv, off
  <2> QED BY <2>2, <2>3, <2>4
<1>14. NothingMissed'
  <2> SUFFICES ASSUME reading' = "done", ~cut, removals = 0
               PROVE  constant \subseteq Elements(out')
    BY <1>2 DEF NothingMissed
  <2>1. ~HasNext(listing, page)
    BY <1>2
  <2> QED BY <1>13, <2>1
<1>15. reading' = "page" /\ removals' = 0 =>
          \A c \in constant' : \/ c \in Elements(out')
                              \/ \E j \in 1..Len(listing') : Before(page') < j /\ listing'[j] = c
  BY <1>2, <1>10, <1>13
<1>16. reading' = "page" /\ edits' = 0 =>
          Before(page') <= Len(listing') /\ out' = SubSeq(listing', 1, Before(page'))
  BY <1>2, <1>10, <1>11
<1>17. reading' # "idle"
  BY <1>2
<1> QED BY <1>8, <1>10, <1>12, <1>14, <1>15, <1>16, <1>17 DEF ListInv

\* Every step preserves the invariant.
LEMMA ListInvStep == ListInv /\ [ListNext]_listVars => ListInv'
<1> SUFFICES ASSUME ListInv, [ListNext]_listVars PROVE ListInv'
  OBVIOUS
<1>1. CASE UNCHANGED listVars
  BY <1>1 DEF listVars, ListInv, ListTypeOK, QuietExact, NothingMissed, Before, Elements
<1>2. CASE ReadFails
  <2>1. Len(<<>>) = 0 /\ <<>> \in Seq(Entries) /\ 0 <= MaxEntries
    BY OffsetPagesAssumption
  <2>2. reading' = "failed" /\ out' = <<>> /\ UNCHANGED <<listing, kind, edits, removals, page, truncated, constant>>
    BY <1>2 DEF ReadFails
  <2> QED BY <2>1, <2>2 DEF ListInv, ListTypeOK, Phases, QuietExact, NothingMissed
<1> QED BY <1>1, <1>2, StartListInv, EditsInv, ReadPageInv DEF ListNext

\* The invariant holds in every reachable state (getPage of client.go).
LEMMA ListInvHolds == ListSpec => []ListInv
BY ListInvInit, ListInvStep, PTL DEF ListSpec

\* Every variable of a call has its type, and no result is longer than its limit
\* (ListProjects, listJobs).
THEOREM ListTypeCorrect == ListSpec => []ListTypeOK
<1>1. ListInv => ListTypeOK
  BY DEF ListInv
<1> QED BY <1>1, ListInvHolds, PTL

\* For any page size, limit and length: a list that does not change while it is
\* read is read exactly up to the limit, and is marked as truncated if and only if
\* there is more (ListProjects of collector.go).
THEOREM QuietListsAreExact == ListSpec => []QuietExact
<1>1. ListInv => QuietExact
  BY DEF ListInv
<1> QED BY <1>1, ListInvHolds, PTL

\* For any retries of jobs and any new projects between any two pages: what was
\* there all the time is read (listJobs, ListProjects of collector.go).
THEOREM OnlyRemovalsHide == ListSpec => []NothingMissed
<1>1. ListInv => NothingMissed
  BY DEF ListInv
<1> QED BY <1>1, ListInvHolds, PTL

=============================================================================
