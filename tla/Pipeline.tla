------------------------------ MODULE Pipeline ------------------------------
(***************************************************************************)
(* The scheduler (worker.py) and run_pipeline: source by source, fetch,    *)
(* ingest posting by posting, commit every CommitEvery, write the bitmaps, *)
(* add the run record.                                                     *)
(*                                                                         *)
(* Abstracted: what a session writes per posting is Ingest, what reaches   *)
(* Redis is BitmapIndex.  POST /pipeline/run executes the same run; here   *)
(* it is the other session, which stores the same postings.                *)
(***************************************************************************)
EXTENDS Integers, Sequences, SequencesExt

CONSTANTS
    Posting,      \* fingerprints
    Bare,         \* postings without a known skill or a tag: never stored
    Offers,       \* Offers[name]: the pages a source answers with, see Page
    Configured,   \* sources whose API key is set
    PageSize,     \* hits per page of Hacker News (100 in the code)
    HackerLimit,  \* postings taken from Hacker News (200)
    CommitEvery,  \* 50 in the code
    MaxFaults     \* bound: failed requests, calls and commits, crashes

\* The fetchers: pages asked for, postings taken (0: all), whether they need a key,
\* and whether they pass over an item that makes no posting or fail on it.
Remotive == [name |-> "remotive", pages |-> 1, limit |-> 0, keyed |-> FALSE, drops |-> FALSE]
Arbeitnow == [name |-> "arbeitnow", pages |-> 1, limit |-> 0, keyed |-> FALSE, drops |-> FALSE]
HackerNews == [name |-> "hackernews", pages |-> HackerLimit \div PageSize + 1,
               limit |-> HackerLimit, keyed |-> FALSE, drops |-> TRUE]
Adzuna == [name |-> "adzuna", pages |-> 1, limit |-> 0, keyed |-> TRUE, drops |-> FALSE]
Naukri == [name |-> "naukri", pages |-> 1, limit |-> 0, keyed |-> TRUE, drops |-> TRUE]

Sources == <<Remotive, Arbeitnow, HackerNews, Adzuna, Naukri>>
Name == {Sources[i].name : i \in DOMAIN Sources}

\* What a response contains: postings, and perhaps items that make none.
Page == [postings : Seq(Posting), junk : BOOLEAN]
NoHits == [postings |-> <<>>, junk |-> FALSE]

ASSUME PostingAssumption == Bare \subseteq Posting
ASSUME SourceAssumption ==
    /\ Offers \in [Name -> Seq(Page)]
    /\ Configured \subseteq Name
ASSUME BoundAssumption ==
    /\ PageSize \in Nat \ {0}
    /\ CommitEvery \in Nat \ {0}
    /\ {HackerLimit, MaxFaults} \subseteq Nat

VARIABLES
    pc,        \* where the worker is
    primed,    \* the run at start-up is over
    at,        \* index into Sources
    page,      \* next page of the current source
    tries,     \* failed tries of that page
    postings,  \* fetched from the current source
    error,     \* its fetch failed
    handled,   \* how many of its postings were ingested
    inserted,  \* how many of those were new
    own,       \* rows of the open transaction
    added,     \* run records of the open transaction
    pending,   \* _PendingBitmap
    copies,    \* committed rows per posting
    records,   \* pipeline_runs, as far as the latest run committed them
    credit,    \* history: rows per source that the latest run committed
    outcome,   \* of the latest run
    faults     \* faults so far

place == <<pc, primed, at>>
fetchVars == <<page, tries, postings, error>>
countVars == <<handled, inserted>>
txVars == <<own, added, pending>>
vars == <<place, fetchVars, countVars, txVars, copies, records, credit, outcome, faults>>

Source == Sources[at]

----------------------------------------------------------------------------
\* A run ends, by returning or by an exception that the worker logs: the session is
\* closed, the worker sleeps, except after its first run.  Mutant: it goes on where it was.
EndRun_InPlace(how) ==
    /\ outcome' = how
    /\ pc' = IF how = "failed" THEN pc ELSE IF primed THEN "asleep" ELSE "begin"
    /\ primed' = TRUE
    /\ own' = {} /\ added' = {} /\ pending' = {}
EndRun(how) ==
    /\ outcome' = how
    /\ pc' = IF primed THEN "asleep" ELSE "begin"
    /\ primed' = TRUE
    /\ own' = {} /\ added' = {} /\ pending' = {}

Wake ==
    /\ pc = "asleep"
    /\ pc' = "begin"
    /\ UNCHANGED <<primed, at, fetchVars, countVars, txVars, copies, records, credit,
                   outcome, faults>>

\* The variables of the loop over the sources.  Mutant: the counts go on.
NextSource_KeepsCount(i) ==
    /\ at' = i
    /\ page' = 1 /\ tries' = 0 /\ postings' = <<>> /\ error' = FALSE
    /\ handled' = 0 /\ UNCHANGED inserted
NextSource(i) ==
    /\ at' = i
    /\ page' = 1 /\ tries' = 0 /\ postings' = <<>> /\ error' = FALSE
    /\ handled' = 0 /\ inserted' = 0

Begin ==
    /\ pc = "begin"
    /\ pc' = "fetch"
    /\ NextSource(1)
    /\ records' = {}
    /\ credit' = [n \in Name |-> 0]
    /\ outcome' = "running"
    /\ UNCHANGED <<primed, txVars, copies, faults>>

----------------------------------------------------------------------------
\* Fetching.

PageOf(f, n) == IF n <= Len(Offers[f.name]) THEN Offers[f.name][n] ELSE NoHits
Unusable(f, n) == ~f.drops /\ PageOf(f, n).junk

\* After a page: over at the limit, at an empty page, at the last page.
Cut(f, ps) == IF f.limit > 0 /\ Len(ps) > f.limit THEN SubSeq(ps, 1, f.limit) ELSE ps
\* Mutant: the last page is not asked for.
Enough_Early(f, n, ps) ==
    (f.limit > 0 /\ Len(ps) >= f.limit) \/ PageOf(f, n) = NoHits \/ n + 1 >= f.pages
Enough(f, n, ps) ==
    (f.limit > 0 /\ Len(ps) >= f.limit) \/ PageOf(f, n) = NoHits \/ n = f.pages

\* Without its key a source offers nothing; one try of a page otherwise.
SkipSource ==
    /\ pc = "fetch"
    /\ Source.keyed /\ Source.name \notin Configured
    /\ pc' = "ingest"
    /\ UNCHANGED <<primed, at, fetchVars, countVars, txVars, copies, records, credit,
                   outcome, faults>>

Asking == pc = "fetch" /\ (Source.keyed => Source.name \in Configured)

\* What a coroutine that raises leaves: no postings at all, also of earlier pages.
SourceFails ==
    /\ postings' = <<>>
    /\ error' = TRUE
    /\ pc' = "ingest"

Answered ==
    /\ Asking
    /\ ~Unusable(Source, page)
    /\ LET all == postings \o PageOf(Source, page).postings
       IN  /\ postings' = Cut(Source, all)
           /\ pc' = IF Enough(Source, page, all) THEN "ingest" ELSE "fetch"
    /\ page' = page + 1
    /\ tries' = 0
    /\ UNCHANGED <<primed, at, error, countVars, txVars, copies, records, credit, outcome,
                   faults>>

\* A page without the fields it should have, or (a fault) no JSON: no further try.
Garbled ==
    /\ Asking
    /\ \/ Unusable(Source, page) /\ UNCHANGED faults
       \/ faults < MaxFaults /\ faults' = faults + 1
    /\ SourceFails
    /\ UNCHANGED <<primed, at, page, tries, countVars, txVars, copies, records, credit,
                   outcome>>

\* An HTTP error or a timeout; the third one in a row is raised.
RequestFails ==
    /\ Asking
    /\ faults < MaxFaults
    /\ faults' = faults + 1
    /\ tries' = tries + 1
    /\ IF tries' = 3 THEN SourceFails ELSE UNCHANGED <<pc, postings, error>>
    /\ UNCHANGED <<primed, at, page, countVars, txVars, copies, records, credit, outcome>>

----------------------------------------------------------------------------
\* Ingesting.

\* Rows of p that the fingerprint SELECT sees; two of them make it raise.
Found(p) == copies[p] + (IF p \in own THEN 1 ELSE 0)

IngestRaises ==
    /\ pc = "ingest" /\ handled < Len(postings)
    /\ Found(postings[handled + 1]) > 1
    /\ EndRun("failed")
    /\ UNCHANGED <<at, fetchVars, countVars, copies, records, credit, faults>>

IngestNext ==
    /\ pc = "ingest" /\ handled < Len(postings)
    /\ LET p == postings[handled + 1]
           new == IF Found(p) = 0 THEN {p} \ Bare ELSE {}
       IN  /\ Found(p) < 2
           /\ own' = own \cup new
           /\ pending' = pending \cup new
           /\ inserted' = IF new = {} THEN inserted ELSE inserted + 1
    /\ handled' = handled + 1
    /\ pc' = IF handled' % CommitEvery = 0 THEN "commit" ELSE "ingest"
    /\ UNCHANGED <<primed, at, fetchVars, added, copies, records, credit, outcome, faults>>

IngestDone ==
    /\ pc = "ingest" /\ handled = Len(postings)
    /\ pc' = "last_commit"
    /\ UNCHANGED <<primed, at, fetchVars, countVars, txVars, copies, records, credit,
                   outcome, faults>>

\* The commit of the rows, and of the record of the source before.  Mutant: the
\* records belong to no transaction that is committed.
Commit_RowsOnly(from, to) ==
    /\ pc = from
    /\ pc' = to
    /\ copies' = [p \in Posting |-> copies[p] + (IF p \in own THEN 1 ELSE 0)]
    /\ credit' = [credit EXCEPT ![Source.name] = @ + Cardinality(own)]
    /\ own' = {}
    /\ UNCHANGED <<primed, at, fetchVars, countVars, added, records, pending, outcome, faults>>
Commit(from, to) ==
    /\ pc = from
    /\ pc' = to
    /\ copies' = [p \in Posting |-> copies[p] + (IF p \in own THEN 1 ELSE 0)]
    /\ credit' = [credit EXCEPT ![Source.name] = @ + Cardinality(own)]
    /\ records' = records \cup added
    /\ own' = {} /\ added' = {}
    /\ UNCHANGED <<primed, at, fetchVars, countVars, pending, outcome, faults>>

\* _flush_bitmaps.
Flush(from, to) ==
    /\ pc = from
    /\ pc' = to
    /\ pending' = {}
    /\ UNCHANGED <<primed, at, fetchVars, countVars, own, added, copies, records, credit,
                   outcome, faults>>

\* A failing statement or commit, or a failing Redis if there is something to write, ends
\* the run: only the fetch is inside a try.
CallFails ==
    /\ \/ pc = "ingest" /\ handled < Len(postings)
       \/ pc \in {"commit", "last_commit", "end"}
       \/ pc \in {"flush", "last_flush"} /\ pending # {}
    /\ faults < MaxFaults
    /\ faults' = faults + 1
    /\ EndRun("failed")
    /\ UNCHANGED <<at, fetchVars, countVars, copies, records, credit>>

\* session.add(run), which no commit follows yet.
Record ==
    /\ pc = "record"
    /\ added' = added \cup {[source |-> Source.name, fetched |-> Len(postings),
                             inserted |-> inserted, skipped |-> handled - inserted,
                             error |-> error]}
    /\ IF at < Len(Sources)
       THEN NextSource(at + 1) /\ pc' = "fetch"
       ELSE UNCHANGED <<at, fetchVars, countVars>> /\ pc' = "end"
    /\ UNCHANGED <<primed, own, pending, copies, records, credit, outcome, faults>>

\* The CALL that refreshes the aggregate fails inside the session's transaction, which
\* is logged; the run returns.
Refresh ==
    /\ pc = "refresh"
    /\ EndRun("returned")
    /\ UNCHANGED <<at, fetchVars, countVars, copies, records, credit, faults>>

----------------------------------------------------------------------------
\* The other session commits a posting that this one may be inserting.
OtherStores(p) ==
    /\ copies[p] = 0
    /\ p \notin Bare
    /\ copies' = [copies EXCEPT ![p] = 1]
    /\ UNCHANGED <<place, fetchVars, countVars, txVars, records, credit, outcome, faults>>

\* SIGTERM sets an event that nothing waits for, so that every stop is a kill; compose
\* starts the scheduler again.
Killed ==
    /\ faults < MaxFaults
    /\ faults' = faults + 1
    /\ pc' = "begin"
    /\ primed' = FALSE
    /\ own' = {} /\ added' = {} /\ pending' = {}
    /\ outcome' = "killed"
    /\ UNCHANGED <<at, fetchVars, countVars, copies, records, credit>>

Init ==
    /\ pc = "begin" /\ primed = FALSE /\ at = 1
    /\ page = 1 /\ tries = 0 /\ postings = <<>> /\ error = FALSE
    /\ handled = 0 /\ inserted = 0
    /\ own = {} /\ added = {} /\ pending = {}
    /\ copies = [p \in Posting |-> 0]
    /\ records = {}
    /\ credit = [n \in Name |-> 0]
    /\ outcome = "running"
    /\ faults = 0

\* What the worker does when nothing fails.
Work ==
    \/ Wake \/ Begin
    \/ SkipSource \/ Answered
    \/ IngestRaises \/ IngestNext \/ IngestDone
    \/ Commit("commit", "flush") \/ Flush("flush", "ingest")
    \/ Commit("last_commit", "last_flush") \/ Flush("last_flush", "record")
    \/ Record
    \/ Commit("end", "refresh") \/ Refresh

Next ==
    \/ Work
    \/ Garbled \/ RequestFails \/ CallFails \/ Killed
    \/ \E p \in Posting : OtherStores(p)

\* The event loop resumes the worker; a response that can not be read is one too.
Spec == Init /\ [][Next]_vars /\ WF_vars(Work \/ Garbled)

----------------------------------------------------------------------------
Row == [source : Name, fetched : Nat, inserted : Nat, skipped : Nat, error : BOOLEAN]

TypeOK ==
    /\ pc \in {"begin", "fetch", "ingest", "commit", "flush", "last_commit", "last_flush",
               "record", "end", "refresh", "asleep"}
    /\ primed \in BOOLEAN
    /\ at \in DOMAIN Sources
    /\ page \in Nat \ {0} /\ tries \in 0..3
    /\ postings \in Seq(Posting) /\ error \in BOOLEAN
    /\ handled \in 0..Len(postings) /\ inserted \in 0..handled
    /\ own \subseteq Posting /\ pending \subseteq Posting
    /\ added \subseteq Row /\ records \subseteq Row
    /\ copies \in [Posting -> 0..2]
    /\ credit \in [Name -> Nat]
    /\ outcome \in {"running", "returned", "failed", "killed"}
    /\ faults \in 0..MaxFaults

Stored == {p \in Posting : copies[p] > 0}
Recorded == {r.source : r \in records}

\* What a source has to offer when nothing goes wrong: the postings of its pages up to
\* the first empty one, as many as the limit allows.
Reached(f) == {n \in 1..f.pages : \A m \in 1..n : PageOf(f, m) # NoHits}
Pages(f) ==
    LET Read[n \in 0..f.pages] ==
            IF n = 0 THEN <<>>
            ELSE IF n \in Reached(f) THEN Read[n - 1] \o PageOf(f, n).postings
            ELSE Read[n - 1]
    IN  Read
Offered(f) ==
    IF f.keyed /\ f.name \notin Configured THEN {} ELSE ToSet(Cut(f, Pages(f)[f.pages]))
Readable(f) == \A n \in 1..f.pages : ~Unusable(f, n)

\* A committed run record tells what its run committed for that source, however the run
\* ended (the rows are committed before the record, lines 173 and 204).
RecordsTruthful ==
    \A r \in records : r.inserted = credit[r.source] /\ (r.error => r.inserted = 0)

\* Rows without a run record are those of at most the two sources that the run reached
\* last: a record waits for the commit of the next source.
OnlyLastRecordsMissing ==
    \A n \in Name :
        credit[n] > 0 /\ n \notin Recorded =>
            n = Source.name \/ (at > 1 /\ n = Sources[at - 1].name)

\* A run that returns has a record of every source, and holds every posting of those
\* that answered.
ReturnedRunComplete ==
    outcome = "returned" =>
        /\ Recorded = Name
        /\ \A r \in records : \A i \in DOMAIN Sources :
              Sources[i].name = r.source /\ ~r.error => Offered(Sources[i]) \subseteq Stored \cup Bare

\* A posting on offer is stored in the end, unless a posting that is offered with it or
\* before it makes every run raise, because it is stored twice.
InTheWay(i) == \E j \in 1..i : \E q \in Offered(Sources[j]) : copies[q] > 1
OffersGetStored ==
    \A i \in DOMAIN Sources : \A p \in Posting :
        p \in Offered(Sources[i]) /\ Readable(Sources[i]) => <>(p \in Stored \cup Bare \/ InTheWay(i))

=============================================================================
