----------------------------- MODULE MCRepoSync -----------------------------
(***************************************************************************)
(* Small instances of RepoSync.  Three runs and two rows a page are enough *)
(* for a full page that is followed by another, for a page whose batches   *)
(* are split again, and for a row that another one overtakes in between.   *)
(***************************************************************************)
EXTENDS RepoSync
TwoRuns == {1, 2}
ThreeRuns == {1, 2, 3}
NoFaults == {}
HalvingFaults == {"too_large"}
RestingFaults == {"too_large", "server_error"}
PushFaults == {"server_error", "lost", "collector", "collector_timeout"}
RefusalFaults == {"server_error", "too_large", "rate_limited"}
ProcessFaults == {"timeout", "crash", "suspended", "unknown_repo", "invalid", "rate_limited", "collector",
                  "collector_timeout"}
=============================================================================
