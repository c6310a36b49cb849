--------------------------- MODULE PageBuildProofs ---------------------------
(***************************************************************************)
(* Theorems about PageBuild: a row that is out of date when it is pushed   *)
(* is listed again, for any number of pipelines, changes and failures.     *)
(***************************************************************************)
EXTENDS PageBuild, NumberLemmas

Rows == items \cup built

\* Rows that are left to build have a first one.
LEMMA FirstRow ==
  ASSUME NEW rows, rows \subseteq Item, rows # {}
  PROVE  (CHOOSE x \in rows : \A y \in rows : ~Precedes(y, x)) \in rows
<1>1. \A x \in rows : x.at \in Nat /\ x.id \in Nat
  BY DEF Item
<1>2. PICK t \in {x.at : x \in rows} : \A u \in {x.at : x \in rows} : t <= u
  <2>1. {x.at : x \in rows} \subseteq Nat /\ {x.at : x \in rows} # {}
    BY <1>1
  <2> QED BY <2>1, LeastNumber
<1>3. PICK i \in {x.id : x \in {y \in rows : y.at = t}} :
         \A j \in {x.id : x \in {y \in rows : y.at = t}} : i <= j
  <2>1. /\ {x.id : x \in {y \in rows : y.at = t}} \subseteq Nat
        /\ {x.id : x \in {y \in rows : y.at = t}} # {}
    BY <1>1, <1>2
  <2> QED BY <2>1, LeastNumber
<1>4. PICK x \in rows : x.at = t /\ x.id = i
  BY <1>3
<1>5. ASSUME NEW y \in rows
      PROVE  ~Precedes(y, x)
  <2>1. x.at <= y.at /\ x.at \in Nat /\ y.at \in Nat /\ x.id \in Nat /\ y.id \in Nat
    BY <1>1, <1>2, <1>4
  <2>2. y.at = t => i <= y.id
    BY <1>3
  <2> QED BY <2>1, <2>2, <1>4 DEF Precedes
<1> QED BY <1>5

\* The rows of a page have a latest time.
LEMMA LatestIsMax ==
  ASSUME NEW S, S # {}, NEW n \in Nat, \A x \in S : x.at \in 0..n
  PROVE  /\ \E x \in S : Latest(S) = x.at
         /\ \A x \in S : x.at <= Latest(S)
<1>1. PICK d \in {n - x.at : x \in S} : \A e \in {n - x.at : x \in S} : d <= e
  <2>1. {n - x.at : x \in S} \subseteq Nat /\ {n - x.at : x \in S} # {}
    OBVIOUS
  <2> QED BY <2>1, LeastNumber
<1>2. PICK x \in S : d = n - x.at
  BY <1>1
<1>3. ASSUME NEW y \in S
      PROVE  y.at <= x.at
  <2>1. n - x.at <= n - y.at
    BY <1>1, <1>2
  <2> QED BY <2>1
<1>4. \E t \in {y.at : y \in S} : \A y \in S : y.at <= t
  BY <1>3
<1> QED BY <1>4 DEF Latest

-----------------------------------------------------------------------------
\* What the walk is about: deleted pipelines are not listed, the row being built is one of those left to build,
\* every pipeline has one row at most, no older than the cursor and no newer
\* than its pipeline.
RowsInv ==
    /\ \A p \in Pipelines : pipeline[p].deleted => ~Listed(p)
    /\ stage = "idle" => items = {} /\ built = {}
    /\ stage = "detail" => item \in items
    /\ stage = "jobs" => \E x \in items : x.id = item.id /\ x.at = item.at
    /\ stage = "push" => items = {} /\ built # {}
    /\ \A x \in Rows : /\ x.id \in Pipelines
                       /\ lastAt <= x.at /\ x.at <= now
                       /\ Listed(x.id) => x.at <= pipeline[x.id].at
    /\ \A x, y \in Rows : x.id = y.id => x = y
    /\ \A x \in items, y \in built : x.id # y.id

\* A row is what its pipeline is now, its detail and its jobs aside.
Fresh(x, p) ==
    /\ x.id = p
    /\ x.at = pipeline[p].at /\ x.status = pipeline[p].status /\ x.version = pipeline[p].version

HasDetail(x) == x.status \in Terminal => x.detail = x.version
HasJobs(x)   == x.status \in WithJobs => x.jobs = x.version

\* The cursor, which may move to the latest row, may pass the pipeline.
MayPass(p) ==
    /\ Listed(p) /\ lastAt <= pipeline[p].at
    /\ \E y \in Rows : pipeline[p].at < y.at

\* A pipeline the cursor may pass has not changed since it was listed, so that
\* the parts of its row fit together, however late they are fetched.
FreshInv ==
    \A p \in Pipelines : MayPass(p) =>
        \/ /\ \E x \in items : Fresh(x, p) /\ x.detail \in {0, x.version}
           /\ stage = "jobs" /\ item.id = p => Fresh(item, p) /\ HasDetail(item)
        \/ \E x \in built : Fresh(x, p) /\ HasDetail(x) /\ HasJobs(x)

\* The inductive invariant.
BuildInv == BuildTypeOK /\ RowsInv /\ FreshInv /\ StaleIsRelisted

\* The initial state satisfies the invariant.
LEMMA BuildInvInit == BuildInit => BuildInv
<1> SUFFICES ASSUME BuildInit PROVE BuildInv
  OBVIOUS
<1>1. \A p \in Pipelines : NoItem(p) \in Item
  BY PageBuildAssumption DEF NoItem, Item, Statuses
<1>2. NoRow \in Item
  BY DEF NoRow, NoItem, Item, Statuses
<1>3. BuildTypeOK
  BY <1>1, <1>2, PageBuildAssumption DEF BuildInit, BuildTypeOK, Statuses, Stages
<1>4. \A p \in Pipelines : ~Listed(p)
  BY DEF BuildInit, Listed
<1> QED BY <1>3, <1>4 DEF BuildInit, BuildInv, RowsInv, FreshInv, StaleIsRelisted, Rows, MayPass

-----------------------------------------------------------------------------
\* The types of a pipeline.
LEMMA PipelineType ==
  ASSUME BuildTypeOK, NEW p \in Pipelines
  PROVE  /\ pipeline[p].at \in 0..now /\ pipeline[p].status \in Statuses
         /\ pipeline[p].version \in 0..events /\ pipeline[p].version \in Nat
         /\ now \in Nat /\ events \in Nat /\ lastAt \in Nat /\ lastAt <= now
BY PageBuildAssumption DEF BuildTypeOK

\* A pipeline that changes moves to the present, which neither the cursor nor
\* a row of the page is ahead of.
LEMMA ChangesInv ==
  ASSUME BuildInv, NEW p \in Pipelines, PipelineChanges(p)
  PROVE  BuildInv'
<1>1. PICK s \in Statuses \ {"none"} :
         pipeline' = [pipeline EXCEPT ![p] =
                         [at |-> now', status |-> s, version |-> events', deleted |-> FALSE]]
  BY DEF PipelineChanges
<1>2. now' \in {now, now + 1} /\ now' <= MaxTime /\ events' = events + 1 /\ events < MaxEvents
  BY DEF PipelineChanges, Event
<1>3. UNCHANGED <<lastAt, stored, stage, items, item, built>>
  BY DEF PipelineChanges, rowVars
<1>4. now \in 1..MaxTime /\ events \in 0..MaxEvents /\ lastAt \in 0..now
  BY DEF BuildInv, BuildTypeOK
<1>5. now' \in 1..MaxTime /\ events' \in 0..MaxEvents /\ now <= now' /\ lastAt <= now'
  BY <1>2, <1>4, PageBuildAssumption
<1>6. /\ pipeline'[p].at = now'
      /\ \A q \in Pipelines \ {p} : pipeline'[q] = pipeline[q]
  BY <1>1 DEF BuildInv, BuildTypeOK
<1>7. BuildTypeOK'
  <2>1. pipeline' \in [Pipelines -> [at : 0..now', status : Statuses, version : 0..events',
                                     deleted : BOOLEAN]]
    <3>1. /\ 0..now \subseteq 0..now' /\ 0..events \subseteq 0..events'
          /\ now' \in 0..now' /\ events' \in 0..events'
      BY <1>2, <1>4, <1>5, PageBuildAssumption
    <3> QED BY <1>1, <3>1 DEF BuildInv, BuildTypeOK
  <2> QED BY <2>1, <1>3, <1>4, <1>5, PageBuildAssumption DEF BuildInv, BuildTypeOK
<1>8. RowsInv'
  <2>1. ASSUME NEW x \in Rows
        PROVE  x.at <= now' /\ (Listed(x.id)' => x.at <= pipeline'[x.id].at)
    <3>1. x.at <= now /\ x.id \in Pipelines /\ (Listed(x.id) => x.at <= pipeline[x.id].at)
      BY DEF BuildInv, RowsInv
    <3>2. x.at \in Nat
      BY DEF BuildInv, BuildTypeOK, Rows, Item
    <3>3. x.at <= now'
      BY <3>1, <3>2, <1>4, <1>5
    <3> QED BY <3>1, <3>3, <1>6 DEF Listed
  <2>2. \A q \in Pipelines : pipeline'[q].deleted => ~Listed(q)'
    BY <1>1, <1>6 DEF BuildInv, BuildTypeOK, RowsInv, Listed
  <2> QED BY <2>1, <2>2, <1>3 DEF BuildInv, RowsInv, Rows
<1>9. ~MayPass(p)'
  <2>1. \A y \in Rows : y.at \in Nat /\ y.at <= now
    BY DEF BuildInv, BuildTypeOK, RowsInv, Rows, Item
  <2>2. \A y \in Rows : ~(now' < y.at)
    BY <2>1, <1>4, <1>5
  <2> QED BY <2>2, <1>3, <1>6 DEF MayPass, Rows
<1>10. FreshInv'
  <2>1. \A q \in Pipelines \ {p} : MayPass(q)' => MayPass(q)
    BY <1>3, <1>6 DEF MayPass, Rows, Listed
  <2> QED BY <2>1, <1>3, <1>6, <1>9 DEF BuildInv, FreshInv, Fresh, HasDetail, HasJobs
<1>11. StaleIsRelisted'
  BY <1>3, <1>5, <1>6 DEF BuildInv, StaleIsRelisted, Current, Listed
<1> QED BY <1>7, <1>8, <1>10, <1>11 DEF BuildInv

\* A pipeline that is deleted is owed nothing any more.
LEMMA DeletedInv ==
  ASSUME BuildInv, NEW p \in Pipelines, PipelineDeleted(p)
  PROVE  BuildInv'
<1>1. /\ pipeline' = [pipeline EXCEPT ![p] =
                         [at |-> 0, status |-> "none", version |-> 0, deleted |-> TRUE]]
      /\ events' = events + 1 /\ events < MaxEvents
      /\ UNCHANGED <<now, lastAt, stored, stage, items, item, built>>
  BY DEF PipelineDeleted, Event, rowVars
<1>2. now \in 1..MaxTime /\ events \in 0..MaxEvents
  BY DEF BuildInv, BuildTypeOK
<1>3. ~Listed(p)' /\ \A q \in Pipelines \ {p} : pipeline'[q] = pipeline[q]
  BY <1>1 DEF Listed, BuildInv, BuildTypeOK
<1>4. BuildTypeOK'
  <2>1. /\ 0..events \subseteq 0..events' /\ 0 \in 0..events' /\ 0 \in 0..now
        /\ events' \in 0..MaxEvents /\ "none" \in Statuses
    BY <1>1, <1>2, PageBuildAssumption DEF Statuses
  <2>2. pipeline' \in [Pipelines -> [at : 0..now, status : Statuses, version : 0..events',
                                     deleted : BOOLEAN]]
    BY <1>1, <2>1 DEF BuildInv, BuildTypeOK
  <2> QED BY <2>1, <2>2, <1>1 DEF BuildInv, BuildTypeOK
<1>5. RowsInv'
  BY <1>1, <1>3 DEF BuildInv, RowsInv, Rows, Listed
<1>6. FreshInv'
  <2>1. \A q \in Pipelines \ {p} : MayPass(q)' => MayPass(q)
    BY <1>1, <1>3 DEF MayPass, Rows, Listed
  <2>2. ~MayPass(p)'
    BY <1>3 DEF MayPass
  <2> QED BY <2>1, <2>2, <1>1, <1>3 DEF BuildInv, FreshInv, Fresh, HasDetail, HasJobs
<1>7. StaleIsRelisted'
  BY <1>1, <1>3 DEF BuildInv, StaleIsRelisted, Current, Listed
<1> QED BY <1>4, <1>5, <1>6, <1>7 DEF BuildInv

\* A walk that fails leaves nothing behind.
LEMMA AbandonInv ==
  ASSUME BuildInv, AbandonPage, UNCHANGED <<now, pipeline>>,
         events' \in events..MaxEvents
  PROVE  BuildInv'
<1>1. /\ stage' = "idle" /\ items' = {} /\ built' = {} /\ item' = NoRow
      /\ UNCHANGED <<now, pipeline, lastAt, stored>>
  BY DEF AbandonPage
<1>2. BuildTypeOK'
  <2>1. NoRow \in Item /\ "idle" \in Stages
    BY DEF NoRow, NoItem, Item, Statuses, Stages
  <2>2. events \in 0..MaxEvents /\ events' \in 0..MaxEvents /\ 0..events \subseteq 0..events'
    BY PageBuildAssumption DEF BuildInv, BuildTypeOK
  <2>3. pipeline' \in [Pipelines -> [at : 0..now, status : Statuses, version : 0..events',
                                     deleted : BOOLEAN]]
    BY <1>1, <2>2 DEF BuildInv, BuildTypeOK
  <2> QED BY <1>1, <2>1, <2>2, <2>3 DEF BuildInv, BuildTypeOK
<1>3. RowsInv' /\ FreshInv'
  <2>1. \A p \in Pipelines : pipeline'[p].deleted => ~Listed(p)'
    BY <1>1 DEF BuildInv, RowsInv, Listed
  <2> QED BY <1>1, <2>1 DEF RowsInv, FreshInv, MayPass, Rows
<1>4. StaleIsRelisted'
  BY <1>1 DEF BuildInv, StaleIsRelisted, Current, Listed
<1> QED BY <1>2, <1>3, <1>4 DEF BuildInv

-----------------------------------------------------------------------------
\* The list is what GitLab has at this moment.
LEMMA ListInv ==
  ASSUME BuildInv, NEW withUser \in BOOLEAN, ListPipelines(withUser)
  PROVE  BuildInv'
<1> DEFINE row(p) == [NoItem(p) EXCEPT !.at = pipeline[p].at, !.status = pipeline[p].status,
                                       !.version = pipeline[p].version,
                                       !.detail = IF withUser THEN pipeline[p].version ELSE 0]
           listed == {q \in Pipelines : Listed(q) /\ pipeline[q].at >= lastAt}
           rows == {row(p) : p \in listed}
<1>1. /\ rows # {} /\ BuildNextOf(rows) /\ built' = {}
      /\ UNCHANGED <<now, pipeline, events, lastAt, stored>>
  BY DEF ListPipelines, gitVars
<1>2. ASSUME NEW p \in Pipelines
      PROVE  /\ row(p) \in Item
             /\ row(p).id = p /\ Fresh(row(p), p) /\ row(p).detail \in {0, row(p).version}
  <2>1. /\ pipeline[p].at \in Nat /\ pipeline[p].status \in Statuses
        /\ pipeline[p].version \in Nat /\ p \in Nat
    BY PipelineType, PageBuildAssumption DEF BuildInv
  <2> QED BY <2>1 DEF NoItem, Item, Fresh
<1>3. rows \subseteq Item
  BY <1>2
<1> HIDE DEF row
<1>4. items' = rows /\ stage' = "detail" /\ item' \in rows
  BY <1>1, <1>3, FirstRow DEF BuildNextOf
<1>5. BuildTypeOK'
  BY <1>1, <1>3, <1>4 DEF BuildInv, BuildTypeOK, Stages
<1>6. RowsInv'
  <2>1. ASSUME NEW x \in rows
        PROVE  /\ x.id \in Pipelines /\ x = row(x.id)
               /\ lastAt <= x.at /\ x.at <= now /\ x.at = pipeline[x.id].at
    <3>1. PICK p \in listed : x = row(p)
      OBVIOUS
    <3>2. x.id = p /\ x.at = pipeline[p].at
      BY <3>1, <1>2 DEF Fresh
    <3>3. pipeline[p].at \in 0..now /\ now \in Nat /\ lastAt \in Nat
      BY PipelineType DEF BuildInv
    <3> QED BY <3>1, <3>2, <3>3
  <2>2. \A x \in rows : x.at <= x.at
    BY <1>3 DEF Item
  <2>3. \A p \in Pipelines : pipeline'[p].deleted => ~Listed(p)'
    BY <1>1 DEF BuildInv, RowsInv, Listed
  <2> QED BY <1>1, <1>4, <2>1, <2>2, <2>3 DEF RowsInv, Rows, Listed
<1>7. FreshInv'
  <2>1. ASSUME NEW p \in Pipelines, MayPass(p)'
        PROVE  row(p) \in rows
    <3>1. Listed(p) /\ lastAt <= pipeline[p].at
      BY <2>1, <1>1 DEF MayPass, Listed
    <3>2. pipeline[p].at \in Nat /\ lastAt \in Nat
      BY PipelineType DEF BuildInv
    <3> QED BY <3>1, <3>2
  <2> QED BY <2>1, <1>1, <1>2, <1>4 DEF FreshInv, Fresh
<1>8. StaleIsRelisted'
  BY <1>1 DEF BuildInv, StaleIsRelisted, Current, Listed
<1> QED BY <1>5, <1>6, <1>7, <1>8 DEF BuildInv

\* The detail replaces the row but for its time; of a pipeline the cursor may
\* pass it is the detail of the same version.
LEMMA DetailInv ==
  ASSUME BuildInv, FetchDetail
  PROVE  BuildInv'
<1>1. /\ stage = "detail" /\ stage' = "jobs"
      /\ UNCHANGED <<now, pipeline, events, lastAt, stored, items, built>>
  BY DEF FetchDetail, gitVars
<1>2. item \in items /\ item \in Item /\ item.id \in Pipelines
  BY <1>1 DEF BuildInv, BuildTypeOK, RowsInv, Rows
<1>3. \/ /\ item' = [item EXCEPT !.status = pipeline[item.id].status,
                               !.version = pipeline[item.id].version,
                               !.detail = pipeline[item.id].version]
         /\ item.status \in Terminal /\ item.detail = 0
      \/ /\ item' = item
         /\ ~(item.status \in Terminal /\ item.detail = 0 /\ ~pipeline[item.id].deleted)
  BY DEF FetchDetail
<1>4. item' \in Item /\ item'.id = item.id /\ item'.at = item.at
  <2>1. pipeline[item.id].status \in Statuses /\ pipeline[item.id].version \in Nat
    BY <1>2, PipelineType DEF BuildInv
  <2> QED BY <1>2, <1>3, <2>1 DEF Item
<1>5. BuildTypeOK'
  BY <1>1, <1>4 DEF BuildInv, BuildTypeOK, Stages
<1>6. RowsInv'
  <2>1. \E x \in items' : x.id = item'.id /\ x.at = item'.at
    BY <1>1, <1>2, <1>4
  <2> QED BY <1>1, <2>1 DEF BuildInv, RowsInv, Rows, Listed
<1>7. FreshInv'
  <2> SUFFICES ASSUME NEW p \in Pipelines, MayPass(p)'
               PROVE  \/ /\ \E x \in items : Fresh(x, p) /\ x.detail \in {0, x.version}
                         /\ item'.id = p => Fresh(item', p) /\ HasDetail(item')
                      \/ \E x \in built : Fresh(x, p) /\ HasDetail(x) /\ HasJobs(x)
    BY <1>1 DEF FreshInv, Fresh, HasDetail, HasJobs
  <2>1. MayPass(p)
    BY <1>1 DEF MayPass, Rows, Listed
  <2>2. CASE \E x \in built : Fresh(x, p) /\ HasDetail(x) /\ HasJobs(x)
    BY <2>2
  <2>3. CASE \E x \in items : Fresh(x, p) /\ x.detail \in {0, x.version}
    <3>1. ASSUME item'.id = p
          PROVE  Fresh(item', p) /\ HasDetail(item')
      <4>1. Fresh(item, p) /\ item.detail \in {0, item.version}
        BY <2>3, <3>1, <1>2, <1>4 DEF BuildInv, RowsInv, Rows, Fresh
      <4>2. item.id = p /\ ~pipeline[p].deleted
        BY <4>1, <2>1 DEF Fresh, MayPass, BuildInv, RowsInv
      <4> QED BY <4>1, <4>2, <1>2, <1>3 DEF Fresh, HasDetail, Item
    <3> QED BY <2>3, <3>1
  <2> QED BY <2>1, <2>2, <2>3 DEF BuildInv, FreshInv
<1>8. StaleIsRelisted'
  BY <1>1 DEF BuildInv, StaleIsRelisted, Current, Listed
<1> QED BY <1>5, <1>6, <1>7, <1>8 DEF BuildInv

\* The jobs complete a row.
LEMMA JobsInv ==
  ASSUME BuildInv, FetchJobs, ~(item.status \in WithJobs /\ pipeline[item.id].deleted)
  PROVE  BuildInv'
<1> DEFINE done == [item EXCEPT !.jobs = IF item.status \in WithJobs
                                         THEN pipeline[item.id].version ELSE 0]
           rest == items \ {x \in items : x.id = item.id}
<1>1. /\ stage = "jobs" /\ built' = built \cup {done} /\ BuildNextOf(rest)
      /\ UNCHANGED <<now, pipeline, events, lastAt, stored>>
  BY DEF FetchJobs, gitVars
<1>2. PICK own \in items : own.id = item.id /\ own.at = item.at
  BY <1>1 DEF BuildInv, RowsInv
<1>3. item \in Item /\ items \subseteq Item /\ built \subseteq Item /\ item.id \in Pipelines
  BY <1>2 DEF BuildInv, BuildTypeOK, RowsInv, Rows
<1>4. /\ done \in Item /\ done.id = item.id /\ done.at = item.at
      /\ done.status = item.status /\ done.version = item.version /\ done.detail = item.detail
      /\ item.status \in WithJobs => done.jobs = pipeline[item.id].version
  <2>1. pipeline[item.id].version \in Nat
    BY <1>3, PipelineType DEF BuildInv
  <2> QED BY <1>3, <2>1 DEF Item
<1> HIDE DEF done
<1>5. /\ items' = rest
      /\ \/ rest = {} /\ stage' = "push" /\ item' = NoRow
         \/ rest # {} /\ stage' = "detail" /\ item' \in rest
  BY <1>1, <1>3, FirstRow DEF BuildNextOf
<1>6. BuildTypeOK'
  <2>1. NoRow \in Item
    BY DEF NoRow, NoItem, Item, Statuses
  <2> QED BY <1>1, <1>3, <1>4, <1>5, <2>1 DEF BuildInv, BuildTypeOK, Stages
<1>7. RowsInv'
  <2>1. \A x \in rest \cup built : x.id # item.id
    BY <1>2 DEF BuildInv, RowsInv, Rows
  <2>2. \A x, y \in rest \cup built \cup {done} : x.id = y.id => x = y
    BY <1>4, <2>1 DEF BuildInv, RowsInv, Rows
  <2>3. \A x \in rest \cup built \cup {done} :
           /\ x.id \in Pipelines
           /\ lastAt <= x.at /\ x.at <= now
           /\ Listed(x.id) => x.at <= pipeline[x.id].at
    BY <1>2, <1>4 DEF BuildInv, RowsInv, Rows
  <2>4. \A p \in Pipelines : pipeline'[p].deleted => ~Listed(p)'
    BY <1>1 DEF BuildInv, RowsInv, Listed
  <2>5. \A x \in rest, y \in built \cup {done} : x.id # y.id
    BY <1>4, <2>1 DEF BuildInv, RowsInv
  <2> QED BY <1>1, <1>5, <2>2, <2>3, <2>4, <2>5 DEF RowsInv, Rows, Listed
<1>8. FreshInv'
  <2> SUFFICES ASSUME NEW p \in Pipelines, MayPass(p)'
               PROVE  \/ \E x \in rest : Fresh(x, p) /\ x.detail \in {0, x.version}
                      \/ \E x \in built \cup {done} : Fresh(x, p) /\ HasDetail(x) /\ HasJobs(x)
    BY <1>1, <1>5 DEF FreshInv, Fresh, HasDetail, HasJobs
  <2>1. MayPass(p)
    BY <1>1, <1>2, <1>4, <1>5 DEF MayPass, Rows, Listed
  <2>2. CASE \E x \in built : Fresh(x, p) /\ HasDetail(x) /\ HasJobs(x)
    BY <2>2
  <2>3. CASE /\ \E x \in items : Fresh(x, p) /\ x.detail \in {0, x.version}
             /\ item.id = p => Fresh(item, p) /\ HasDetail(item)
    <3>1. CASE item.id = p
      BY <2>3, <3>1, <1>4 DEF Fresh, HasDetail, HasJobs
    <3>2. CASE item.id # p
      BY <2>3, <3>2 DEF Fresh
    <3> QED BY <3>1, <3>2
  <2> QED BY <2>1, <2>2, <2>3, <1>1 DEF BuildInv, FreshInv
<1>9. StaleIsRelisted'
  BY <1>1 DEF BuildInv, StaleIsRelisted, Current, Listed
<1> QED BY <1>6, <1>7, <1>8, <1>9 DEF BuildInv

\* The cursor moves to the latest row.  A pipeline it passes had not changed since
\* it was listed, so that its row is what it is now; one it had passed before has
\* no row in this page.
LEMMA PushInv ==
  ASSUME BuildInv, PushPage
  PROVE  BuildInv'
<1>1. /\ stage = "push" /\ stage' = "idle" /\ built' = {} /\ items' = {} /\ item' = item
      /\ items = {} /\ built # {}
      /\ lastAt' = Later(lastAt, Latest(built))
      /\ UNCHANGED <<now, pipeline, events>>
  BY DEF PushPage, gitVars, BuildInv, RowsInv
<1>2. \A p \in Pipelines :
         stored'[p] = IF \E x \in built : x.id = p THEN CHOOSE x \in built : x.id = p ELSE stored[p]
  BY DEF PushPage
<1>3. /\ now \in Nat /\ lastAt \in 0..now /\ built \subseteq Item
      /\ \A x \in built : x.at \in 0..now
  <2>1. \A x \in built : x.at \in Nat /\ x.at <= now
    BY DEF BuildInv, BuildTypeOK, RowsInv, Rows, Item
  <2> QED BY <2>1, PageBuildAssumption DEF BuildInv, BuildTypeOK
<1>4. PICK z \in built : Latest(built) = z.at
  BY <1>1, <1>3, LatestIsMax
<1>5. /\ lastAt' \in 0..now /\ lastAt <= lastAt'
      /\ lastAt' = lastAt \/ lastAt' = z.at
  BY <1>1, <1>3, <1>4 DEF Later
<1>6. BuildTypeOK'
  <2>1. \A p \in Pipelines : stored'[p] \in Item
    BY <1>2, <1>3 DEF BuildInv, BuildTypeOK
  <2>2. stored' \in [Pipelines -> Item]
    BY <2>1 DEF PushPage
  <2> QED BY <1>1, <1>5, <2>2 DEF BuildInv, BuildTypeOK, Stages
<1>7. RowsInv' /\ FreshInv'
  <2>1. \A p \in Pipelines : pipeline'[p].deleted => ~Listed(p)'
    BY <1>1 DEF BuildInv, RowsInv, Listed
  <2> QED BY <1>1, <2>1 DEF RowsInv, FreshInv, MayPass, Rows
<1>8. ASSUME NEW p \in Pipelines, Listed(p), ~(lastAt' <= pipeline[p].at)
      PROVE  Current(p)'
  <2>1. pipeline[p].at \in Nat /\ pipeline[p].at < lastAt'
    BY <1>5, <1>8, PipelineType DEF BuildInv
  <2>2. CASE pipeline[p].at < lastAt
    <3>1. Current(p)
      BY <1>3, <1>8, <2>1, <2>2 DEF BuildInv, StaleIsRelisted
    <3>2. \A x \in built : x.id # p
      <4> SUFFICES ASSUME NEW x \in built, x.id = p PROVE FALSE
        OBVIOUS
      <4>1. lastAt <= x.at /\ x.at <= pipeline[p].at
        BY <1>8 DEF BuildInv, RowsInv, Rows
      <4> QED BY <4>1, <1>3, <2>1, <2>2
    <3> QED BY <3>1, <3>2, <1>1, <1>2 DEF Current
  <2>3. CASE lastAt <= pipeline[p].at
    <3>1. MayPass(p)
      <4>1. pipeline[p].at < z.at
        BY <1>3, <1>5, <2>1, <2>3
      <4> QED BY <4>1, <1>8, <2>3 DEF MayPass, Rows
    <3>2. PICK x \in built : Fresh(x, p) /\ HasDetail(x) /\ HasJobs(x)
      BY <3>1, <1>1 DEF BuildInv, FreshInv
    <3>3. stored'[p] = x
      <4>1. \A y \in built : y.id = p => y = x
        BY <3>2 DEF Fresh, BuildInv, RowsInv, Rows
      <4>2. (CHOOSE y \in built : y.id = p) = x
        BY <3>2, <4>1 DEF Fresh
      <4> QED BY <1>2, <3>2, <4>2 DEF Fresh
    <3> QED BY <1>1, <3>2, <3>3 DEF Current, Fresh, HasDetail, HasJobs
  <2> QED BY <1>3, <2>1, <2>2, <2>3
<1>9. StaleIsRelisted'
  BY <1>1, <1>8 DEF StaleIsRelisted, Listed
<1> QED BY <1>6, <1>7, <1>9 DEF BuildInv

-----------------------------------------------------------------------------
\* Every step preserves the invariant.
LEMMA BuildInvStep == BuildInv /\ [BuildNext]_buildVars => BuildInv'
<1> SUFFICES ASSUME BuildInv, [BuildNext]_buildVars PROVE BuildInv'
  OBVIOUS
<1>1. CASE UNCHANGED buildVars
  BY <1>1 DEF buildVars, gitVars, rowVars, BuildInv, BuildTypeOK, RowsInv, FreshInv,
     StaleIsRelisted, Rows, MayPass, Fresh, HasDetail, HasJobs, Current, Listed
<1>2. CASE FetchJobs
  <2>1. CASE item.status \in WithJobs /\ pipeline[item.id].deleted
    <3>1. AbandonPage /\ UNCHANGED <<now, pipeline, events>>
      BY <1>2, <2>1 DEF FetchJobs, gitVars
    <3>2. events' \in events..MaxEvents
      BY <3>1, PageBuildAssumption DEF BuildInv, BuildTypeOK
    <3> QED BY <3>1, <3>2, AbandonInv
  <2> QED BY <1>2, <2>1, JobsInv
<1>3. CASE WalkBreaks
  <2>1. AbandonPage /\ UNCHANGED <<now, pipeline>>
    BY <1>3 DEF WalkBreaks
  <2>2. events' \in events..MaxEvents
    BY <1>3, PageBuildAssumption DEF WalkBreaks, Event, BuildInv, BuildTypeOK
  <2> QED BY <2>1, <2>2, AbandonInv
<1> QED BY <1>1, <1>2, <1>3, ChangesInv, DeletedInv, ListInv, DetailInv, PushInv DEF BuildNext

\* The invariant holds in every reachable state (buildRuns, ListRuns).
LEMMA BuildInvHolds == BuildSpec => []BuildInv
BY BuildInvInit, BuildInvStep, PTL DEF BuildSpec

\* Every variable of the building of pages has its type, and the cursor is never
\* ahead of the time.
THEOREM BuildTypeCorrect == BuildSpec => []BuildTypeOK
<1>1. BuildInv => BuildTypeOK
  BY DEF BuildInv
<1> QED BY <1>1, BuildInvHolds, PTL

\* For any number of pipelines, changes, deletions and failures, at any moment of a
\* walk: no pipeline the cursor has passed is stored in a state it no longer has
\* (buildRuns of collector.go).
THEOREM StaleRowsRelisted == BuildSpec => []StaleIsRelisted
<1>1. BuildInv => StaleIsRelisted
  BY DEF BuildInv
<1> QED BY <1>1, BuildInvHolds, PTL

=============================================================================
