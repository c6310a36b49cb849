---------------------------- MODULE SyncContract ----------------------------
(***************************************************************************)
(* What the incremental sync of one repository promises, whatever pages,   *)
(* batches, retries, restarts and duplicate agents lie behind it.          *)
(*                                                                         *)
(* A pipeline run of the CI instance is identified by its id and carries   *)
(* the time of its last update; a run at a given time is a row.  Rows are  *)
(* accounted for: taken over by the server, or given up by an agent.  Two  *)
(* watermarks summarise what has been accounted for:                       *)
(*   - cursor, where the next walk starts: nothing below it is ever listed *)
(*     again, so a row it passes over while unaccounted is lost for good;  *)
(*   - completeTo, what the end of a walk claims: a repository that is not *)
(*     due is complete up to there.                                        *)
(* The contract is that neither watermark ever runs ahead of the rows.     *)
(***************************************************************************)
EXTENDS Integers

CONSTANTS Runs,     \* ids of the pipeline runs of the repository
          Backfill  \* rows older than this are outside the retention window

VARIABLES clock,      \* time on the CI instance
          updatedAt,  \* [Runs -> time of the last update, 0: not created yet]
          cursor,     \* the server's cursor, 0: none yet
          completeTo, \* time up to which the last finished walk claims completeness
          accounted,  \* rows ingested or given up so far
          due         \* the server wants this repository synced

vars == <<clock, updatedAt, cursor, completeTo, accounted, due>>

Row(r) == [run |-> r, at |-> updatedAt[r]]

\* Every run whose current row is older than t is among the rows of done.
CoveredBy(done, t) ==
    \A r \in Runs : (Backfill <= updatedAt[r] /\ updatedAt[r] < t) => Row(r) \in done

Init ==
    /\ clock \in Nat
    /\ updatedAt \in [Runs -> 0..clock]
    /\ cursor = 0
    /\ completeTo = 0
    /\ accounted = {}
    /\ due = TRUE

-----------------------------------------------------------------------------

\* Time passes.
Tick ==
    /\ clock' = clock + 1
    /\ UNCHANGED <<updatedAt, cursor, completeTo, accounted, due>>

\* A run is created or updated: always at the present time.
Touch ==
    /\ \E r \in Runs : updatedAt' = [updatedAt EXCEPT ![r] = clock]
    /\ UNCHANGED <<clock, cursor, completeTo, accounted, due>>

\* The server asks for the repository again.
BecomeDue ==
    /\ due' = TRUE
    /\ UNCHANGED <<clock, updatedAt, cursor, completeTo, accounted>>

\* Rows are accounted for; the cursor may follow, never beyond what is
\* accounted for and never backwards.
Deliver ==
    /\ accounted \subseteq accounted'
    /\ cursor <= cursor' /\ cursor' <= clock
    /\ CoveredBy(accounted', cursor')
    /\ UNCHANGED <<clock, updatedAt, completeTo, due>>

\* A walk ends: with its last rows the repository is complete up to some time
\* of the past, and no longer due.
Complete ==
    /\ accounted \subseteq accounted'
    /\ cursor <= cursor' /\ cursor' <= clock
    /\ CoveredBy(accounted', cursor')
    /\ completeTo' \in 0..clock
    /\ CoveredBy(accounted', completeTo')
    /\ due' = FALSE
    /\ UNCHANGED <<clock, updatedAt>>

Next == Tick \/ Touch \/ BecomeDue \/ Deliver \/ Complete

Spec == Init /\ [][Next]_vars

=============================================================================
