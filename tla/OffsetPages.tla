---------------------------- MODULE OffsetPages ----------------------------
(***************************************************************************)
(* The lists the collector reads by page number while they change: the     *)
(* jobs of a pipeline (listJobs of collector.go), newest first, and the    *)
(* projects of the instance for the catalog (ListProjects), by path.  A    *)
(* page is cut from the list as it is when the page is requested           *)
(* (getPage of client.go).  What a request does with a 429 is in Process.  *)
(***************************************************************************)
EXTENDS Integers, Sequences, SequencesExt

CONSTANTS
    MaxListed,  \* bound on the length of the list when the call begins
    PageSize,   \* perPage
    MaxEntries, \* maxJobsPerRun, catalogMaxProjects
    MaxEdits    \* bound on the changes of the list while it is read

ASSUME OffsetPagesAssumption ==
    /\ MaxListed \in Nat /\ MaxEdits \in Nat
    /\ PageSize \in Nat \ {0} /\ MaxEntries \in Nat \ {0}

VARIABLES
    listing,   \* the list as GitLab has it
    kind,      \* "jobs" or "projects": what is read
    edits,     \* changes while it is read
    removals,  \* removals among them
    reading,   \* where the call is: see Phases
    page,      \* number of the page to be requested
    out,       \* entries read so far
    truncated, \* result: the list has more than MaxEntries entries
    \* history
    constant   \* entries that were in the list all the time it was read

listVars == <<listing, kind, edits, removals, reading, page, out, truncated, constant>>

Phases == {"idle", "page", "done", "failed"}

\* Jobs or projects; those that appear while the list is read have the numbers
\* after those that were there.
Entries  == 1..MaxListed + MaxEdits
NewEntry == MaxListed + edits + 1

Elements(s) == {s[i] : i \in 1..Len(s)}

\* The n-th page of a list.
PageOf(list, n) ==
    SubSeq(list, (n - 1) * PageSize + 1,
           IF n * PageSize < Len(list) THEN n * PageSize ELSE Len(list))

\* X-Next-Page
HasNext(list, n) == n * PageSize < Len(list)

ListInit ==
    /\ listing = <<>>
    /\ kind = "jobs"
    /\ edits = 0 /\ removals = 0
    /\ reading = "idle"
    /\ page = 1
    /\ out = <<>>
    /\ truncated = FALSE
    /\ constant = {}

StartList ==
    /\ reading = "idle"
    /\ kind' \in {"jobs", "projects"}
    /\ \E n \in 0..MaxListed :
          /\ listing' = [i \in 1..n |-> i]
          /\ constant' = 1..n
    /\ reading' = "page"
    /\ UNCHANGED <<edits, removals, page, out, truncated>>

-----------------------------------------------------------------------------
(***************************************************************************)
(* GitLab.                                                                 *)
(***************************************************************************)
Edit(list) ==
    /\ reading = "page" /\ edits < MaxEdits
    /\ edits' = edits + 1
    /\ listing' = list
    /\ UNCHANGED <<kind, reading, page, out, truncated>>

\* A job is retried: the new one, which is the newest, takes its place in the
\* list of latest jobs.
JobRetried(i) ==
    /\ kind = "jobs"
    /\ Edit(<<NewEntry>> \o RemoveAt(listing, i))
    /\ constant' = constant \ {listing[i]}
    /\ UNCHANGED removals

ProjectAdded(i) ==
    /\ kind = "projects"
    /\ Edit(InsertAt(listing, i, NewEntry))
    /\ UNCHANGED <<constant, removals>>

ProjectRemoved(i) ==
    /\ kind = "projects"
    /\ Edit(RemoveAt(listing, i))
    /\ constant' = constant \ {listing[i]}
    /\ removals' = removals + 1

-----------------------------------------------------------------------------
(***************************************************************************)
(* The call.                                                               *)
(***************************************************************************)
Room == MaxEntries - Len(out)

\* A page is appended; if it is cut, the entries without room are left out and
\* the call ends, as it does after the last page.
AppendPage(items, cut, next) ==
    /\ reading = "page"
    /\ out' = out \o (IF cut THEN SubSeq(items, 1, Room) ELSE items)
    /\ truncated' = cut
    /\ page' = IF cut THEN page ELSE next
    /\ reading' = IF ~cut /\ HasNext(listing, page) THEN "page" ELSE "done"
    /\ UNCHANGED <<listing, kind, edits, removals, constant>>

\* Mutant of ReadPage: the limit is not looked at.
MutReadPageUnlimited == AppendPage(PageOf(listing, page), FALSE, page + 1)

\* Mutant of ReadPage: the list counts as truncated once it is full.
MutReadPageFull == AppendPage(PageOf(listing, page), Len(PageOf(listing, page)) >= Room, page + 1)

\* Mutant of ReadPage: the next page is counted from the entries read so far.
MutReadPageSkips == AppendPage(PageOf(listing, page), Len(PageOf(listing, page)) > Room, Len(out') + 1)

\* Only an entry for which there is no room cuts the list.
ReadPage == AppendPage(PageOf(listing, page), Len(PageOf(listing, page)) > Room, page + 1)

\* A page cannot be fetched: the call fails, what it has read is dropped.
ReadFails ==
    /\ reading = "page"
    /\ reading' = "failed"
    /\ out' = <<>>
    /\ UNCHANGED <<listing, kind, edits, removals, page, truncated, constant>>

ListNext ==
    \/ StartList
    \/ \E i \in 1..Len(listing) : JobRetried(i) \/ ProjectRemoved(i)
    \/ \E i \in 1..Len(listing) + 1 : ProjectAdded(i)
    \/ ReadPage \/ ReadFails

ListSpec == ListInit /\ [][ListNext]_listVars

-----------------------------------------------------------------------------
\* Every variable has its type, and a result fits its limit.
ListTypeOK ==
    /\ listing \in Seq(Entries) /\ constant \subseteq Entries
    /\ kind \in {"jobs", "projects"}
    /\ edits \in 0..MaxEdits /\ removals \in 0..edits
    /\ reading \in Phases
    /\ page \in 1..MaxEntries + 2
    /\ out \in Seq(Entries) /\ Len(out) <= MaxEntries
    /\ truncated \in BOOLEAN

\* What does not change while it is read is read exactly: the first entries up
\* to the limit, each once, "truncated" only if there are more (catalog of
\* PROTOCOL.md), on whichever page boundary the limit falls.
QuietExact ==
    reading = "done" /\ edits = 0 =>
        /\ out = SubSeq(listing, 1, IF Len(listing) < MaxEntries THEN Len(listing) ELSE MaxEntries)
        /\ truncated <=> Len(listing) > MaxEntries

\* Changes displace entries between two pages, but unless a project goes away
\* none is missed that was there all the time: retried jobs and new projects
\* only push entries back to where they are read twice.
NothingMissed ==
    reading = "done" /\ ~truncated /\ removals = 0 => constant \subseteq Elements(out)

\* A catalog that is not marked as truncated is "the full list of projects the
\* credential can see" (PROTOCOL.md).
CatalogComplete ==
    reading = "done" /\ kind = "projects" /\ ~truncated => constant \subseteq Elements(out)

=============================================================================
