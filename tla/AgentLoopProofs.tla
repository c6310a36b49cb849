-------------------------- MODULE AgentLoopProofs --------------------------
(***************************************************************************)
(* Theorems about AgentLoop: its safety properties hold for any number of  *)
(* repositories and jobs, any limits and any failures.                     *)
(***************************************************************************)
EXTENDS AgentLoop, NumberLemmas, FiniteSetTheorems

\* A list that is not empty has a first member.
LEMMA FirstIsMember ==
  ASSUME NEW S, S \subseteq Nat, S # {}
  PROVE  First(S) \in S
BY LeastNumber DEF First

\* A set of outcomes that fits the heartbeat.
Fits(results) ==
    results \subseteq Outcome /\ IsFiniteSet(results) /\ Cardinality(results) <= MaxReported

\* The conjunction that is inductive: the types, and the three invariants
\* together with what ties the lists of the agent to the place it is at.
Inv ==
    /\ TypeOK
    /\ StopperEndsCycle
    /\ OneOutcomePerRepo
    /\ WantsOwed
    /\ Fits(outcomes)
    /\ pc = "hello" => (todo = {} /\ wants = {})

\* No outcomes fit the heartbeat.
LEMMA NothingFits == Fits({})
BY FS_EmptySet, AgentLoopAssumption DEF Fits

\* The initial states satisfy the invariant.
LEMMA InvInit == Init => Inv
<1> SUFFICES ASSUME Init PROVE Inv
  OBVIOUS
<1>1. reported \in [Repos -> Statuses] /\ pc \in PCs
  BY DEF Init, Statuses, PCs
<1>2. requests \in 0..MaxLogRequests
  BY AgentLoopAssumption DEF Init
<1>3. Fits(outcomes)
  BY NothingFits DEF Init
<1>4. TypeOK
  BY <1>1, <1>2, <1>3 DEF Init, TypeOK, Fits
<1> QED BY <1>3, <1>4 DEF Init, Inv, StopperEndsCycle, OneOutcomePerRepo, WantsOwed

\* One more outcome is kept only if it fits.
LEMMA RecordedFits ==
  ASSUME Fits(outcomes), NEW r \in Repos, NEW status \in Statuses
  PROVE  Fits(Recorded(r, status))
<1> DEFINE o == [repo |-> r, status |-> status]
<1>1. o \in Outcome
  BY DEF Outcome
<1> HIDE DEF o
<1>2. outcomes \subseteq Outcome /\ IsFiniteSet(outcomes) /\ Cardinality(outcomes) <= MaxReported
  BY DEF Fits
<1>3. IsFiniteSet(outcomes \cup {o}) /\ Cardinality(outcomes \cup {o}) <= Cardinality(outcomes) + 1
  <2>1. /\ IsFiniteSet(outcomes \cup {o})
        /\ Cardinality(outcomes \cup {o}) = IF o \in outcomes THEN Cardinality(outcomes)
                                                               ELSE Cardinality(outcomes) + 1
    BY <1>2, FS_AddElement
  <2>2. Cardinality(outcomes) \in Nat
    BY <1>2, FS_CardinalityType
  <2> QED BY <2>1, <2>2
<1>4. Cardinality(outcomes) \in Nat /\ MaxReported \in Nat
  BY <1>2, FS_CardinalityType, AgentLoopAssumption
<1>5. CASE Cardinality(outcomes) < MaxReported
  <2>1. Recorded(r, status) = outcomes \cup {o}
    BY <1>5 DEF Recorded, o
  <2>2. Cardinality(outcomes \cup {o}) \in Nat
    BY <1>3, FS_CardinalityType
  <2>3. Cardinality(outcomes \cup {o}) <= MaxReported
    BY <1>3, <1>4, <1>5, <2>2
  <2> QED BY <1>1, <1>2, <1>3, <2>1, <2>3 DEF Fits
<1>6. CASE ~(Cardinality(outcomes) < MaxReported)
  BY <1>6 DEF Recorded
<1> QED BY <1>5, <1>6

\* A repository whose walk ends has its outcome recorded, and only that.
LEMMA RecordedInv ==
  ASSUME Inv, NEW r \in todo, NEW status \in Statuses,
         NEW rest, rest \subseteq todo \ {r},
         outcomes' = Recorded(r, status), todo' = rest
  PROVE  Fits(outcomes') /\ OneOutcomePerRepo'
<1>1. r \in Repos
  BY DEF Inv, TypeOK
<1>2. Fits(outcomes')
  <2>1. Fits(Recorded(r, status))
    BY <1>1, RecordedFits DEF Inv
  <2> QED BY <2>1
<1>3. \A o \in outcomes : o.repo # r
  BY DEF Inv, OneOutcomePerRepo
<1>4. outcomes' \subseteq outcomes \cup {[repo |-> r, status |-> status]}
  BY DEF Recorded
<1>5. OneOutcomePerRepo'
  BY <1>3, <1>4 DEF Inv, OneOutcomePerRepo
<1> QED BY <1>2, <1>5

\* The end of a cycle leaves nothing behind but the outcomes.
LEMMA EndCycleInv ==
  ASSUME NEW results, Fits(results),
         \A o, p \in results : o.repo = p.repo => o = p,
         EndCycle(results)
  PROVE  /\ pc' \in PCs /\ todo' \subseteq Repos /\ wants' \subseteq Jobs
         /\ requests' \in 0..MaxLogRequests
         /\ Fits(outcomes')
         /\ OneOutcomePerRepo' /\ WantsOwed' /\ StopperEndsCycle'
         /\ pc' = "hello" /\ todo' = {} /\ wants' = {}
BY AgentLoopAssumption, NothingFits DEF EndCycle, PCs, OneOutcomePerRepo, WantsOwed, StopperEndsCycle

\* EndCycle with the outcomes as they are.
LEMMA EndCycleKeeps ==
  ASSUME Inv, EndCycle(outcomes)
  PROVE  /\ pc' \in PCs /\ todo' \subseteq Repos /\ wants' \subseteq Jobs
         /\ requests' \in 0..MaxLogRequests
         /\ Fits(outcomes')
         /\ OneOutcomePerRepo' /\ WantsOwed' /\ StopperEndsCycle'
         /\ pc' = "hello" /\ todo' = {} /\ wants' = {}
BY EndCycleInv DEF Inv, TypeOK, OneOutcomePerRepo

\* The steps of the server and the dashboard.
LEMMA ServerStepInv ==
  ASSUME Inv,
         \/ \E r \in Repos : BecomeDue(r) \/ ToggleActive(r)
         \/ RequestCatalog \/ TogglePause \/ Revoke
  PROVE  Inv'
<1>1. UNCHANGED <<agentVars, owed, logged, reported>>
  BY DEF BecomeDue, ToggleActive, RequestCatalog, TogglePause, Revoke
<1>2. active' \subseteq Repos /\ due' \subseteq Repos
  BY DEF BecomeDue, ToggleActive, RequestCatalog, TogglePause, Revoke, Inv, TypeOK
<1>3. paused' \in BOOLEAN /\ revoked' \in BOOLEAN /\ catalogRequested' \in BOOLEAN
  BY DEF BecomeDue, ToggleActive, RequestCatalog, TogglePause, Revoke, Inv, TypeOK
<1> QED BY <1>1, <1>2, <1>3
    DEF agentVars, Inv, TypeOK, StopperEndsCycle, OneOutcomePerRepo, WantsOwed

\* What hello reports has the type of the reported outcomes.
LEMMA ReportType ==
  ASSUME Inv, ReportOutcomes
  PROVE  reported' \in [Repos -> Statuses]
<1>1. ASSUME NEW r \in Repos, \E o \in outcomes : o.repo = r
      PROVE  (CHOOSE o \in outcomes : o.repo = r).status \in Statuses
  <2>1. (CHOOSE o \in outcomes : o.repo = r) \in Outcome
    BY <1>1 DEF Inv, TypeOK
  <2> QED BY <2>1 DEF Outcome
<1> QED BY <1>1 DEF ReportOutcomes, Inv, TypeOK

\* A hello, whether its answer arrives or not.
LEMMA HelloInv ==
  ASSUME Inv, Hello \/ HelloLost
  PROVE  Inv'
<1>1. reported' \in [Repos -> Statuses]
  BY ReportType DEF Hello, HelloLost
<1>2. CASE Hello
  <2>1. UNCHANGED <<active, due, paused, revoked, catalogRequested, owed, logged, requests>>
    BY <1>2 DEF Hello, StartCycle
  <2>2. outcomes' = {} /\ refused' = FALSE
    BY <1>2 DEF Hello, StartCycle
  <2>3. CASE paused
    BY <1>1, <1>2, <2>1, <2>2, <2>3, NothingFits
       DEF Hello, StartCycle, Inv, TypeOK, Fits, StopperEndsCycle, OneOutcomePerRepo, WantsOwed
  <2>4. CASE ~paused
    <3>1. pc' \in {"catalog", "repos"} /\ todo' = due \cap active /\ wants' \subseteq owed
      BY <1>2, <2>4 DEF Hello, StartCycle, Outstanding
    <3> QED BY <1>1, <2>1, <2>2, <3>1, NothingFits
        DEF Inv, TypeOK, Fits, StopperEndsCycle, OneOutcomePerRepo, WantsOwed, PCs
  <2> QED BY <2>3, <2>4
<1>3. CASE HelloLost
  BY <1>1, <1>3
     DEF HelloLost, agentVars, Inv, TypeOK, StopperEndsCycle, OneOutcomePerRepo, WantsOwed
<1> QED BY <1>2, <1>3

\* The catalog push.
LEMMA CatalogInv ==
  ASSUME Inv, PushCatalog
  PROVE  Inv'
<1>1. catalogRequested' \in BOOLEAN /\ refused' \in BOOLEAN
  BY DEF PushCatalog, Stopper, Inv, TypeOK
<1>2. CASE EndCycle(outcomes)
  BY <1>1, <1>2, EndCycleKeeps DEF PushCatalog, Inv, TypeOK, Fits
<1>3. CASE pc' = "repos" /\ UNCHANGED <<todo, wants, requests, outcomes, refused>>
  BY <1>1, <1>3 DEF PushCatalog, Inv, TypeOK, StopperEndsCycle, OneOutcomePerRepo, WantsOwed, PCs
<1> QED BY <1>2, <1>3 DEF PushCatalog

\* The steps of a walk.
LEMMA WalkInv ==
  ASSUME Inv, PushBatch(FALSE) \/ PushBatch(TRUE) \/ WalkFails \/ WalkStops
  PROVE  Inv'
<1> DEFINE r == First(todo)
<1>1. todo # {} /\ pc = "repos"
  BY DEF PushBatch, WalkFails, WalkStops
<1>2. r \in todo
  BY <1>1, FirstIsMember, AgentLoopAssumption DEF Inv, TypeOK
<1>3. {"ok", "skipped", "error"} \subseteq Statuses
  BY DEF Statuses
<1>4. ASSUME NEW final \in BOOLEAN, PushBatch(final) PROVE Inv'
  <2>1. owed \subseteq owed' /\ owed' \subseteq Jobs /\ wants' \subseteq owed'
    BY <1>4 DEF PushBatch, Outstanding, Inv, TypeOK
  <2>2. due' \subseteq Repos /\ todo' \subseteq Repos
    BY <1>4 DEF PushBatch, Inv, TypeOK
  <2>3. Fits(outcomes') /\ OneOutcomePerRepo'
    <3>1. CASE final
      <4>1. outcomes' = Recorded(r, "ok") /\ todo' = todo \ {r}
        BY <1>4, <3>1 DEF PushBatch
      <4> QED BY <1>2, <1>3, <4>1, RecordedInv DEF Inv
    <3>2. CASE ~final
      BY <1>4, <3>2 DEF PushBatch, Inv, TypeOK, OneOutcomePerRepo
    <3> QED BY <3>1, <3>2
  <2>4. UNCHANGED <<active, paused, revoked, catalogRequested, logged, reported, pc, requests, refused>>
    BY <1>4 DEF PushBatch
  <2> QED BY <1>1, <2>1, <2>2, <2>3, <2>4 DEF Inv, TypeOK, Fits, StopperEndsCycle, WantsOwed
<1>5. CASE WalkFails
  <2>1. PICK status \in {"ok", "skipped", "error"} : outcomes' = Recorded(r, status)
    BY <1>5 DEF WalkFails, Statuses
  <2>2. todo' = todo \ {r}
    BY <1>5 DEF WalkFails
  <2>3. Fits(outcomes') /\ OneOutcomePerRepo'
    BY <1>2, <1>3, <2>1, <2>2, RecordedInv DEF Inv
  <2> QED BY <1>1, <1>5, <2>2, <2>3
      DEF WalkFails, serverVars, Inv, TypeOK, Fits, StopperEndsCycle, WantsOwed
<1>6. CASE WalkStops
  <2> DEFINE results == Recorded(r, "error")
  <2>1. EndCycle(results)
    BY <1>6 DEF WalkStops
  <2>2. results \subseteq outcomes \cup {[repo |-> r, status |-> "error"]}
    BY DEF Recorded
  <2>3. Fits(results)
    <3>1. r \in Repos
      BY <1>2 DEF Inv, TypeOK
    <3> QED BY <1>3, <3>1, RecordedFits DEF Inv
  <2>4. \A o, p \in results : o.repo = p.repo => o = p
    BY <1>2, <2>2 DEF Inv, OneOutcomePerRepo
  <2>5. refused' \in BOOLEAN
    BY <1>6 DEF WalkStops, Stopper, Inv, TypeOK
  <2> HIDE DEF results
  <2> QED BY <1>6, <2>1, <2>3, <2>4, <2>5, EndCycleInv DEF WalkStops, serverVars, Inv, TypeOK, Fits
<1> QED BY <1>4, <1>5, <1>6

\* The steps of the log drain.
LEMMA DrainInv ==
  ASSUME Inv, StartDrain \/ EndDrain \/ LogsStored \/ LogsLost \/ LogsRefused
  PROVE  Inv'
<1>1. CASE StartDrain
  BY <1>1, AgentLoopAssumption
     DEF StartDrain, serverVars, Inv, TypeOK, StopperEndsCycle, OneOutcomePerRepo, WantsOwed, PCs
<1>2. CASE EndDrain
  BY <1>2, EndCycleKeeps DEF EndDrain, serverVars, Inv, TypeOK, Fits
<1>3. MayPushLogs => requests + 1 \in 0..MaxLogRequests
  BY AgentLoopAssumption DEF MayPushLogs, Inv, TypeOK
<1>4. Group \subseteq Jobs
  BY DEF Group, Inv, TypeOK
<1>5. CASE LogsStored
  <2>1. owed' \subseteq Jobs /\ logged' \subseteq Jobs
    BY <1>4, <1>5 DEF LogsStored, Inv, TypeOK
  <2>2. UNCHANGED <<active, due, paused, revoked, catalogRequested, reported, refused>>
    BY <1>5 DEF LogsStored
  <2>3. CASE EndCycle(outcomes)
    BY <2>1, <2>2, <2>3, EndCycleKeeps DEF Inv, TypeOK, Fits
  <2>4. CASE ~EndCycle(outcomes)
    <3>1. wants' \subseteq owed' /\ requests' \in 0..MaxLogRequests /\ UNCHANGED <<pc, todo, outcomes>>
      BY <1>3, <1>5, <2>4 DEF LogsStored, Outstanding
    <3>2. pc = "drain"
      BY <1>5 DEF LogsStored, MayPushLogs
    <3> QED BY <2>1, <2>2, <3>1, <3>2 DEF Inv, TypeOK, StopperEndsCycle, OneOutcomePerRepo, WantsOwed
  <2> QED BY <2>3, <2>4
<1>6. CASE LogsLost
  <2>1. owed' \subseteq Jobs /\ logged' \subseteq Jobs
    BY <1>4, <1>6 DEF LogsLost, Inv, TypeOK
  <2> QED BY <1>6, <2>1, EndCycleKeeps DEF LogsLost, Inv, TypeOK, Fits
<1>7. CASE LogsRefused
  <2>1. UNCHANGED serverVars /\ refused' \in BOOLEAN
    BY <1>7 DEF LogsRefused, Stopper, Inv, TypeOK
  <2>2. CASE EndCycle(outcomes)
    BY <2>1, <2>2, EndCycleKeeps DEF serverVars, Inv, TypeOK, Fits
  <2>3. CASE ~EndCycle(outcomes)
    <3>1. pc = "drain" /\ wants' \subseteq wants /\ requests' \in 0..MaxLogRequests
      BY <1>3, <1>7, <2>3 DEF LogsRefused, MayPushLogs
    <3>2. UNCHANGED <<pc, todo, outcomes, refused>>
      BY <1>7, <2>3 DEF LogsRefused
    <3> QED BY <2>1, <3>1, <3>2
        DEF serverVars, Inv, TypeOK, StopperEndsCycle, OneOutcomePerRepo, WantsOwed
  <2> QED BY <2>2, <2>3
<1> QED BY <1>1, <1>2, <1>5, <1>6, <1>7

\* Every step preserves the invariant.
LEMMA InvNext == Inv /\ [Next]_vars => Inv'
<1> SUFFICES ASSUME Inv, [Next]_vars PROVE Inv'
  OBVIOUS
<1>1. CASE Restart
  <2>1. pc' \in PCs /\ requests' \in 0..MaxLogRequests
    BY <1>1, AgentLoopAssumption DEF Restart, PCs
  <2> QED BY <1>1, <2>1, NothingFits DEF Restart, Inv, TypeOK, Fits, StopperEndsCycle, OneOutcomePerRepo, WantsOwed
<1>2. CASE UNCHANGED vars
  BY <1>2 DEF vars, serverVars, agentVars, Inv, TypeOK, StopperEndsCycle, OneOutcomePerRepo, WantsOwed
<1> QED BY <1>1, <1>2, ServerStepInv, HelloInv, CatalogInv, WalkInv, DrainInv DEF Next

\* The invariant holds in every reachable state.
LEMMA Invariance == Spec => []Inv
BY InvInit, InvNext, PTL DEF Spec

\* Every variable has its type; in particular no drain exceeds its cap, and no
\* heartbeat carries more outcomes than fit.
THEOREM LoopTypeCorrect == Spec => []TypeOK
<1>1. Inv => TypeOK
  BY DEF Inv
<1> QED BY <1>1, Invariance, PTL

\* After a suspension or a rejected token no data is pushed before a hello.
THEOREM StopperStops == Spec => []StopperEndsCycle
<1>1. Inv => StopperEndsCycle
  BY DEF Inv
<1> QED BY <1>1, Invariance, PTL

\* A heartbeat reports every repository at most once.
THEOREM OutcomesUnique == Spec => []OneOutcomePerRepo
<1>1. Inv => OneOutcomePerRepo
  BY DEF Inv
<1> QED BY <1>1, Invariance, PTL

\* No log is fetched and pushed that the server has stored.
THEOREM DrainOnlyOwed == Spec => []WantsOwed
<1>1. Inv => WantsOwed
  BY DEF Inv
<1> QED BY <1>1, Invariance, PTL

=============================================================================
