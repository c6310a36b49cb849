------------------------- MODULE MCRepoSyncGitLabs -------------------------
(***************************************************************************)
(* One agent against one of three GitLabs.  One updates runs during the    *)
(* walks, but never a full page of them in a second.  One is quiet during  *)
(* walks, but has full pages in one second and rows that do not parse, and *)
(* pushes fail.  The third rests, its runs all fit the last page and one   *)
(* batch, which is halved twice.                                           *)
(***************************************************************************)
EXTENDS MCRepoSync

Quiet == INSTANCE RepoSync WITH
    Bursts <- TRUE, LiveUpdates <- FALSE, Broken <- {3}, PerPage <- 3,
    Faults <- PushFaults, StartClock <- 1, MaxClock <- 2

Resting == INSTANCE RepoSync WITH
    Bursts <- TRUE, LiveUpdates <- FALSE, PerPage <- 4, MaxRunsPerBatch <- 3,
    Faults <- RestingFaults, StartClock <- 2, MaxClock <- 2

VARIABLE gitlab   \* which of the three it is

EitherInit ==
    \/ gitlab = "live" /\ Init
    \/ gitlab = "quiet" /\ Quiet!Init
    \/ gitlab = "resting" /\ Resting!Init

EitherNext ==
    \/ gitlab = "live" /\ Next /\ UNCHANGED gitlab
    \/ gitlab = "quiet" /\ Quiet!Next /\ UNCHANGED gitlab
    \/ gitlab = "resting" /\ Resting!Next /\ UNCHANGED gitlab

EitherSpec == EitherInit /\ [][EitherNext]_<<vars, gitlab>>
=============================================================================
