---------------------------- MODULE MCAgentLoop ----------------------------
(***************************************************************************)
(* Small instances of AgentLoop: two repositories are enough for one to be *)
(* in the way of the other, and three jobs for a repository whose logs do  *)
(* not fit one request and another one behind it.                          *)
(***************************************************************************)
EXTENDS AgentLoop
TwoRepos == {1, 2}
TwoJobs == {1, 2}
ThreeJobs == {1, 2, 3}
OneEach == [j \in TwoJobs |-> j]
Interleaved == [j \in ThreeJobs |-> IF j = 2 THEN 2 ELSE 1]
NoTrouble == [r \in TwoRepos |-> "none"]
FirstFails == [r \in TwoRepos |-> IF r = 1 THEN "error" ELSE "none"]
=============================================================================
