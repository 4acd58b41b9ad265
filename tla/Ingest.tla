------------------------------- MODULE Ingest -------------------------------
(***************************************************************************)
(* The database side of ingestion: the transactions of POST /ingest        *)
(* (api/v1/ingest.py) and of run_pipeline (infrastructure/ingestion), run  *)
(* by concurrent sessions over one Postgres at READ COMMITTED.             *)
(*                                                                         *)
(* job_events has no unique fingerprint (migration 002 drops it), so the   *)
(* sessions deduplicate by a SELECT before the INSERT.  employers.name and *)
(* emerging_candidates.token are unique: an INSERT of a key that another   *)
(* open transaction has inserted, and an UPDATE of a row that one has      *)
(* updated, wait until that transaction ends.  Every statement that reads  *)
(* or writes a table is a step of its own.                                 *)
(*                                                                         *)
(* Abstracted: a posting is a value with the attributes the control flow   *)
(* tests; the bitmap entries published after a commit are BitmapIndex.     *)
(***************************************************************************)
EXTENDS Integers, Sequences, FiniteSets

CONSTANTS
    Session,      \* database sessions that ingest
    ApiSession,   \* those of POST /ingest; the others run the pipeline
    Posting,      \* what clients and sources send
    Fingerprint,  \* Fingerprint[p]: hash of normalised title, company, location
    Company,      \* Company[p]: the employer's name, not normalised
    Tokens,       \* Tokens[p]: the unknown terms the extractor finds, sorted
    Skilled,      \* postings with a known skill or a tag
    Broken,       \* postings that name one skill twice
    CommitEvery,  \* postings per pipeline commit (50 in the code)
    Feed,         \* the request bodies and source feeds that may arrive
    MaxBatches    \* bound: batches begun by all sessions together

Name == {Company[p] : p \in Posting}
Token == UNION {{Tokens[p][i] : i \in DOMAIN Tokens[p]} : p \in Posting}

ASSUME PostingAssumption ==
    /\ DOMAIN Fingerprint = Posting
    /\ DOMAIN Company = Posting
    /\ DOMAIN Tokens = Posting
    /\ \A p \in Posting :
          /\ Tokens[p] \in Seq(Token)
          /\ \A i, j \in DOMAIN Tokens[p] : Tokens[p][i] = Tokens[p][j] => i = j
    /\ Skilled \subseteq Posting
    /\ Broken \subseteq Posting
ASSUME SessionAssumption == ApiSession \subseteq Session
ASSUME FeedAssumption == Feed \subseteq Seq(Posting) \ {<<>>}
ASSUME BoundAssumption == CommitEvery \in Nat \ {0} /\ MaxBatches \in Nat

VARIABLES
    rows,       \* committed job_events
    employers,  \* committed employer names
    counts,     \* committed emerging_candidates: occurrence_count, 0 for no row
    tx,         \* per session: its program counter and its open transaction
    batches     \* batches begun so far

vars == <<rows, employers, counts, tx, batches>>
dbVars == <<rows, employers, counts>>

\* A row of job_events; the serial number stands for the uuid.
Row == [posting : Posting, session : Session, serial : Nat]

Step == {"idle", "check", "employer", "new_employer", "event", "broken",
         "token", "write_token", "commit"}

NoCounts == [t \in Token |-> 0]

\* A session: its program counter, the postings and tokens to do, its uncommitted
\* rows, employers and counts, the count it has read, the postings done since the
\* last commit, the rows committed when its transaction began, and its next uuid.
Tx == [pc : Step, todo : Seq(Posting), tokens : Seq(Token),
       rows : SUBSET Row, employers : SUBSET Name, counts : [Token -> Nat],
       read : Nat, done : Nat, begun : SUBSET Row, serial : Nat]

\* A session with no open transaction.
Idle(serial) ==
    [pc |-> "idle", todo |-> <<>>, rows |-> {}, employers |-> {},
     counts |-> NoCounts, tokens |-> <<>>, read |-> 0, done |-> 0,
     begun |-> {}, serial |-> serial]

----------------------------------------------------------------------------
\* What a session sees: committed rows and its own.

Posted(s) == Head(tx[s].todo)
\* Mutant: the session does not flush its own inserts before the SELECT.
VisibleRows_Committed(s) == rows
VisibleRows(s) == rows \cup tx[s].rows

\* Mutant: a row keeps the fingerprint of its text as it came.
Copies_Raw(R, f) == {r \in R : r.posting = f}
Copies(R, f) == {r \in R : Fingerprint[r.posting] = f}

\* The counts f after a transaction that wrote g.
CountsOver(f, g) == [t \in Token |-> IF g[t] = 0 THEN f[t] ELSE g[t]]
Seen(s) == CountsOver(counts, tx[s].counts)

\* The session that holds the key or the row lock this session needs next.
Blocks(t, s) ==
    /\ t # s
    /\ \/ tx[s].pc = "new_employer" /\ Company[Posted(s)] \in tx[t].employers
       \/ tx[s].pc = "write_token" /\ tx[t].counts[Head(tx[s].tokens)] # 0

\* The pipeline commits when (inserted + skipped) % 50 = 0.  Mutant: one late.
Due_Late(n) == n > CommitEvery
Due(n) == n >= CommitEvery

\* The transaction t of session s after its posting is inserted or skipped: the
\* pipeline commits every CommitEvery postings, both commit at the end.
Advance(t, s) ==
    LET rest == Tail(t.todo)
        n == t.done + 1
        due == rest = <<>> \/ (s \notin ApiSession /\ Due(n))
    IN  [t EXCEPT !.todo = rest, !.done = n, !.tokens = <<>>,
                  !.pc = IF due THEN "commit" ELSE "check"]

\* The pipeline drops a posting without skills after ensure_employer.
AfterEmployer(t, s) ==
    IF s \in ApiSession \/ Head(t.todo) \in Skilled
    THEN [t EXCEPT !.pc = "event"]
    ELSE Advance(t, s)

\* The next token of the posting, or the next posting.
AfterToken(t, s) ==
    IF Tail(t.tokens) = <<>>
    THEN Advance(t, s)
    ELSE [t EXCEPT !.pc = "token", !.tokens = Tail(t.tokens)]

\* An exception, caught or not: the transaction is rolled back, the rest of the
\* request or of the run is dropped.
Undo(s) == tx' = [tx EXCEPT ![s] = Idle(tx[s].serial)]

----------------------------------------------------------------------------
\* A request or a source's feed arrives; an empty one touches no table.
Begin(s) ==
    /\ tx[s].pc = "idle"
    /\ batches < MaxBatches
    /\ batches' = batches + 1
    /\ \E feed \in Feed :
          tx' = [tx EXCEPT ![s] =
                    [@ EXCEPT !.pc = "check", !.todo = feed, !.begun = rows]]
    /\ UNCHANGED dbVars

\* SELECT ... WHERE fingerprint = fp: none goes on, one is skipped.
CheckFingerprint(s) ==
    /\ tx[s].pc = "check"
    /\ LET copies == Copies(VisibleRows(s), Fingerprint[Posted(s)])
       IN  /\ Cardinality(copies) <= 1
           /\ tx' = [tx EXCEPT ![s] = IF copies = {}
                                      THEN [@ EXCEPT !.pc = "employer"]
                                      ELSE Advance(@, s)]
    /\ UNCHANGED <<dbVars, batches>>

\* scalar_one_or_none() raises MultipleResultsFound on two.
CheckRaises(s) ==
    /\ tx[s].pc = "check"
    /\ Cardinality(Copies(VisibleRows(s), Fingerprint[Posted(s)])) > 1
    /\ Undo(s)
    /\ UNCHANGED <<dbVars, batches>>

\* Mutant: a cache of employers that all sessions share, committed or not.
SelectEmployer_Cached(s) ==
    /\ tx[s].pc = "employer"
    /\ tx' = [tx EXCEPT ![s] =
                IF \E t \in Session : Company[Posted(s)] \in employers \cup tx[t].employers
                THEN AfterEmployer(@, s)
                ELSE [@ EXCEPT !.pc = "new_employer"]]
    /\ UNCHANGED <<dbVars, batches>>

\* ensure_employer: SELECT by name.
SelectEmployer(s) ==
    /\ tx[s].pc = "employer"
    /\ tx' = [tx EXCEPT ![s] =
                IF Company[Posted(s)] \in employers \cup @.employers
                THEN AfterEmployer(@, s)
                ELSE [@ EXCEPT !.pc = "new_employer"]]
    /\ UNCHANGED <<dbVars, batches>>

\* Mutant: no unique index on employers.name.
InsertEmployer_NoUnique(s) ==
    /\ tx[s].pc = "new_employer"
    /\ LET t == [tx[s] EXCEPT !.employers = @ \cup {Company[Posted(s)]}]
       IN  tx' = [tx EXCEPT ![s] = AfterEmployer(t, s)]
    /\ UNCHANGED <<dbVars, batches>>

\* ensure_employer: INSERT, after the open inserts of the name have ended; a name
\* committed since the SELECT is an IntegrityError.
InsertEmployer(s) ==
    /\ tx[s].pc = "new_employer"
    /\ \A t \in Session : ~Blocks(t, s)
    /\ IF Company[Posted(s)] \in employers
       THEN Undo(s)
       ELSE LET t == [tx[s] EXCEPT !.employers = @ \cup {Company[Posted(s)]}]
            IN  tx' = [tx EXCEPT ![s] = AfterEmployer(t, s)]
    /\ UNCHANGED <<dbVars, batches>>

\* The INSERT of the event and of its skills.
InsertEvent(s) ==
    /\ tx[s].pc = "event"
    /\ LET p == Posted(s)
           row == [posting |-> p, session |-> s, serial |-> tx[s].serial]
           t == [tx[s] EXCEPT !.rows = @ \cup {row}, !.serial = @ + 1]
       IN  tx' = [tx EXCEPT ![s] =
                    IF p \in Broken THEN [t EXCEPT !.pc = "broken"]
                    ELSE IF s \in ApiSession \/ Tokens[p] = <<>> THEN Advance(t, s)
                    ELSE [t EXCEPT !.pc = "token", !.tokens = Tokens[p]]]
    /\ UNCHANGED <<dbVars, batches>>

\* Two job_skills rows with one primary key: the next flush raises.
SkillsRaise(s) ==
    /\ tx[s].pc = "broken"
    /\ Undo(s)
    /\ UNCHANGED <<dbVars, batches>>

\* _record_emerging: SELECT the candidate.
SelectToken(s) ==
    /\ tx[s].pc = "token"
    /\ tx' = [tx EXCEPT ![s] = [@ EXCEPT !.pc = "write_token",
                                         !.read = Seen(s)[Head(tx[s].tokens)]]]
    /\ UNCHANGED <<dbVars, batches>>

\* The value that is written.  Mutant: a new candidate is inserted with 1 and then
\* incremented.
Incremented_Twice(n) == IF n = 0 THEN 2 ELSE n + 1
Incremented(n) == n + 1

\* _record_emerging: the ORM writes the value it read plus one, or inserts a new
\* candidate, which fails when one has been committed since.
WriteToken(s) ==
    /\ tx[s].pc = "write_token"
    /\ \A t \in Session : ~Blocks(t, s)
    /\ LET token == Head(tx[s].tokens)
           t == [tx[s] EXCEPT !.counts[token] = Incremented(tx[s].read)]
       IN  IF tx[s].read = 0 /\ counts[token] # 0
           THEN Undo(s)
           ELSE tx' = [tx EXCEPT ![s] = AfterToken(t, s)]
    /\ UNCHANGED <<dbVars, batches>>

\* COMMIT publishes everything at once and ends the locks.
Commit(s) ==
    /\ tx[s].pc = "commit"
    /\ rows' = rows \cup tx[s].rows
    /\ employers' = employers \cup tx[s].employers
    /\ counts' = CountsOver(counts, tx[s].counts)
    /\ tx' = [tx EXCEPT ![s] =
                IF @.todo = <<>>
                THEN Idle(@.serial)
                ELSE [Idle(@.serial) EXCEPT !.pc = "check", !.todo = tx[s].todo,
                                            !.begun = rows']]
    /\ UNCHANGED batches

\* Mutant: nothing breaks a wait cycle.
Deadlocked_Never(s) == FALSE

\* Postgres ends a wait cycle by aborting one of its members.
Deadlocked(s) ==
    \E C \in SUBSET Session :
        /\ s \in C
        /\ \A t \in C : \E u \in C : Blocks(u, t)
        /\ \A t \in C : \E u \in C : Blocks(t, u)
DeadlockVictim(s) ==
    /\ Deadlocked(s)
    /\ Undo(s)
    /\ UNCHANGED <<dbVars, batches>>

\* The process dies or its connection drops: Postgres rolls back.
Disconnect(s) ==
    /\ tx[s].pc # "idle"
    /\ Undo(s)
    /\ UNCHANGED <<dbVars, batches>>

----------------------------------------------------------------------------
Init ==
    /\ rows = {}
    /\ employers = {}
    /\ counts = NoCounts
    /\ tx = [s \in Session |-> Idle(0)]
    /\ batches = 0

\* What the session's own code and the database do next.
Progress(s) ==
    \/ CheckFingerprint(s)
    \/ CheckRaises(s)
    \/ SelectEmployer(s)
    \/ InsertEmployer(s)
    \/ InsertEvent(s)
    \/ SkillsRaise(s)
    \/ SelectToken(s)
    \/ WriteToken(s)
    \/ Commit(s)
    \/ DeadlockVictim(s)

Next == \E s \in Session : Begin(s) \/ Progress(s) \/ Disconnect(s)

Spec == Init /\ [][Next]_vars

\* Every statement is answered, waits end with the holder's transaction, and
\* Postgres looks for deadlocks; no client has to come, and none has to drop.
FairSpec == Spec /\ \A s \in Session : WF_vars(Progress(s))

----------------------------------------------------------------------------
TypeOK ==
    /\ rows \subseteq Row
    /\ employers \subseteq Name
    /\ counts \in [Token -> Nat]
    /\ tx \in [Session -> Tx]
    /\ \A s \in Session \ ApiSession : tx[s].done <= CommitEvery
    /\ batches \in 0..MaxBatches

\* A transaction never inserts a posting again that was committed before it began,
\* nor one that it has inserted itself: duplicates come from transactions that
\* overlap, and from nothing else (the check of ingest_raw and of POST /ingest).
DuplicatesNeedOverlap ==
    \A s \in Session : \A r \in tx[s].rows :
        \A q \in tx[s].begun \cup tx[s].rows :
            q # r => Fingerprint[q.posting] # Fingerprint[r.posting]

\* A session is the source of at most one committed row per fingerprint, so a
\* posting is stored at most once per session that ever sent it.
OneCopyPerSession ==
    \A q, r \in rows :
        q.session = r.session /\ Fingerprint[q.posting] = Fingerprint[r.posting] => q = r

\* Every committed event has its employer, and no two open transactions, or one and
\* the committed state, have created the same employer: ensure_employer may fail
\* on the unique name, it never doubles one.
EmployersConsistent ==
    /\ \A r \in rows : Company[r.posting] \in employers
    /\ \A s \in Session : tx[s].employers \cap employers = {}
    /\ \A s, t \in Session : s # t => tx[s].employers \cap tx[t].employers = {}

\* A candidate's occurrence_count never exceeds the committed postings that mention
\* it: concurrent runs can lose a count (the read-modify-write of
\* _record_emerging), they never invent one.
CountsBacked ==
    \A t \in Token :
        counts[t] <= Cardinality({r \in rows : \E i \in DOMAIN Tokens[r.posting] :
                                                  Tokens[r.posting][i] = t})

\* Every request and every run ends: the waits on unique names and on row locks
\* are broken when they form a cycle.
BatchesEnd == \A s \in Session : tx[s].pc # "idle" ~> tx[s].pc = "idle"

\* "dedupe is enforced in app code instead" (alembic 002): no two committed rows
\* have one fingerprint.
NoDuplicateFingerprints ==
    \A q, r \in rows : Fingerprint[q.posting] = Fingerprint[r.posting] => q = r

----------------------------------------------------------------------------
\* The inductive invariant behind the safety properties.

\* Where the session's next posting and next token are needed, it has one, and the
\* pipeline has not missed its commit.
WorkLeft ==
    \A s \in Session :
        /\ tx[s].pc \in {"check", "employer", "new_employer", "event", "token",
                         "write_token"} => tx[s].todo # <<>>
        /\ tx[s].pc \in {"token", "write_token"} => tx[s].tokens # <<>>
        /\ tx[s].pc # "commit" /\ s \notin ApiSession => tx[s].done < CommitEvery

\* An event, committed or not, that a session has inserted or is about to insert
\* has an employer that the session can see.
EventsEmployed ==
    \A s \in Session :
        /\ \A r \in tx[s].rows : Company[r.posting] \in employers \cup tx[s].employers
        /\ tx[s].pc = "event" =>
              Company[Posted(s)] \in employers \cup tx[s].employers

\* Between the check and the insert of a posting, no copy of it is in what the
\* transaction found when it began or in what it has inserted.
CheckedOnce ==
    \A s \in Session :
        /\ tx[s].begun \subseteq rows
        /\ tx[s].pc \in {"employer", "new_employer", "event"} =>
              \A q \in tx[s].begun \cup tx[s].rows :
                  Fingerprint[q.posting] # Fingerprint[Posted(s)]

\* An open transaction knows all committed rows of its own session, and its rows
\* bear the session's name; a session without a transaction has none.
OwnRowsKnown ==
    \A s \in Session :
        /\ \A r \in tx[s].rows : r.session = s
        /\ IF tx[s].pc = "idle"
           THEN tx[s].rows = {}
           ELSE \A q \in rows : q.session = s => q \in tx[s].begun

\* What every statement of every session preserves.
IngestInv ==
    /\ TypeOK
    /\ WorkLeft
    /\ EventsEmployed
    /\ EmployersConsistent
    /\ CheckedOnce
    /\ DuplicatesNeedOverlap
    /\ OwnRowsKnown
    /\ OneCopyPerSession

=============================================================================
