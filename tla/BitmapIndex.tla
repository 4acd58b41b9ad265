---------------------------- MODULE BitmapIndex ----------------------------
(***************************************************************************)
(* The dual write of Signum: rows of job_events in Postgres and the bitmap *)
(* index over them in Redis (infrastructure/indexing/bitmap.py).           *)
(*                                                                         *)
(* Writers are sessions that commit rows and only then publish them: the   *)
(* POST /ingest handler and run_pipeline, the latter in the scheduler      *)
(* process or, through POST /pipeline/run, in the backend.  The backend    *)
(* rebuilds the index in its lifespan hook when it finds Redis empty.      *)
(* Every await on Redis or on Postgres that another process can slip into  *)
(* is a step of its own.                                                   *)
(*                                                                         *)
(* Abstracted: the columns of a row are the set of bm:* keys they stand    *)
(* for; meta:<n> is written with idx:<n> and read only beside it, so it is *)
(* not kept apart; the scratch key bm:_result belongs to the search.       *)
(***************************************************************************)
EXTENDS Integers, FiniteSets

CONSTANTS
    Event,      \* event ids (uuid4): rows that exist or will be inserted
    Key,        \* the bm:<field>:<value> keys
    Keys,       \* Keys[e]: the keys that the columns and skills of e stand for
    RegionKey,  \* the keys bm:country:remote and bm:country:eu
    Skilled,    \* the events that have at least one row in job_skills
    Writer,     \* sessions that ingest
    ApiWriter,  \* those that run the POST /ingest handler
    Hosted,     \* those that live in the backend process
    BatchSize,  \* postings per Redis pipeline in a rebuild (200 in the code)
    MaxFaults   \* bound: crashes, failed calls and Redis losses together

ASSUME KeysAssumption ==
    /\ Keys \in [Event -> SUBSET Key]
    /\ RegionKey \subseteq Key
    /\ Skilled \subseteq Event
ASSUME WriterAssumption ==
    /\ ApiWriter \subseteq Hosted
    /\ Hosted \subseteq Writer
ASSUME BoundAssumption ==
    /\ BatchSize \in Nat \ {0}
    /\ MaxFaults \in Nat

VARIABLES
    committed,  \* the committed rows of job_events
    counter,    \* posting_counter, NoCounter when the key is absent
    idx,        \* idx:<n> -> event id, as a function on the numbers in use
    bits,       \* the bitstrings: bits[k] is the set of numbers whose bit is 1
    pc,         \* per writer: "idle", in a transaction "txn", or in "flush"
    pending,    \* per writer: its inserted rows that are not published yet
    num,        \* per writer: the number INCR returned and it has not used, or 0
    backend,    \* the stage of the backend process
    populated,  \* what the lifespan hook read: COUNT(*) > 0
    listed,     \* what the rebuild's last KEYS returned
    rows,       \* rows the rebuild selected and has not written yet
    count,      \* postings the rebuild has written
    faults,     \* faults so far
    clean       \* history: posting numbers are handed out once, see Disturb

redisVars == <<counter, idx, bits>>
writerVars == <<pc, pending, num>>
backendVars == <<backend, populated, listed, rows, count>>
vars == <<committed, redisVars, writerVars, backendVars, faults, clean>>

NoCounter == -1
NoEntry == [n \in {} |-> 0]
NoBits == [k \in Key |-> {}]
NothingListed == [bm |-> {}, idx |-> {}, counter |-> {}]

Stage == {"down", "count", "check",
          "list_bm", "delete_bm", "list_idx", "delete_idx",
          "list_counter", "delete_counter", "select", "write", "set", "up"}

\* The stages of rebuild_from_db.
RebuildStage == Stage \ {"down", "count", "check", "up"}

TypeOK ==
    /\ committed \subseteq Event
    /\ counter \in Nat \cup {NoCounter}
    /\ DOMAIN idx \subseteq Nat \ {0}
    /\ idx \in [DOMAIN idx -> Event]
    /\ bits \in [Key -> SUBSET (Nat \ {0})]
    /\ pc \in [Writer -> {"idle", "txn", "flush"}]
    /\ pending \in [Writer -> SUBSET Event]
    /\ num \in [Writer -> Nat]
    /\ backend \in Stage
    /\ populated \in BOOLEAN
    /\ listed \in [bm : SUBSET Key, idx : SUBSET Nat, counter : SUBSET Nat]
    /\ rows \subseteq Event
    /\ count \in Nat
    /\ faults \in 0..MaxFaults
    /\ clean \in BOOLEAN

----------------------------------------------------------------------------
\* Readings of the state.

Rebuilding == backend \in RebuildStage

\* A session whose INCR has returned and whose add_posting has not run.
Holds(w) == num[w] # 0
NoHolder == \A w \in Writer : ~Holds(w)

\* Committed rows that a live session still has to publish.
Owed == {e \in Event : \E w \in Writer : pc[w] = "flush" /\ e \in pending[w]}

\* Event ids that occur nowhere yet.
Fresh ==
    {e \in Event : e \notin committed /\ \A w \in Writer : e \notin pending[w]}

Indexed(e) == \E n \in DOMAIN idx : idx[n] = e

\* The keys add_posting and the rebuild set for a row: both run_pipeline and
\* the rebuild leave the remote and eu pseudo-countries out, POST /ingest
\* leaves out only "unknown".
PipelineKeys == [e \in Event |-> Keys[e] \ RegionKey]
KeysWritten(w) == IF w \in ApiWriter THEN Keys ELSE PipelineKeys

Overlay(f, g) ==
    [n \in DOMAIN f \cup DOMAIN g |-> IF n \in DOMAIN g THEN g[n] ELSE f[n]]

\* The effect of one MULTI/EXEC: the entries of g, each with the bits keysOf.
Publish(g, keysOf) ==
    /\ idx' = Overlay(idx, g)
    /\ bits' = [k \in Key |->
                  bits[k] \cup {n \in DOMAIN g : k \in keysOf[g[n]]}]

----------------------------------------------------------------------------
\* The ingesting sessions.

\* One transaction's inserts: every row gets a new uuid.  The pipeline drops a
\* posting in which it finds no skill, the API does not.
Insert(w) ==
    /\ pc[w] = "idle"
    /\ w \in Hosted => backend = "up"
    /\ \E S \in SUBSET Fresh \ {{}} :
          /\ w \in ApiWriter \/ S \subseteq Skilled
          /\ pending' = [pending EXCEPT ![w] = S]
    /\ pc' = [pc EXCEPT ![w] = "txn"]
    /\ UNCHANGED <<committed, redisVars, num, backendVars, faults, clean>>

Commit(w) ==
    /\ pc[w] = "txn"
    /\ committed' = committed \cup pending[w]
    /\ pc' = [pc EXCEPT ![w] = "flush"]
    /\ UNCHANGED <<redisVars, pending, num, backendVars, faults, clean>>

\* Mutant: the except branch forgets pending.clear().
Rollback_KeepsPending(w) ==
    /\ pc[w] = "txn"
    /\ pc' = [pc EXCEPT ![w] = "flush"]
    /\ UNCHANGED <<committed, redisVars, pending, num, backendVars, faults, clean>>

\* The IntegrityError handler of POST /ingest, and every exception that leaves
\* the session open: the rows vanish and nothing stays pending.
Rollback(w) ==
    /\ pc[w] = "txn"
    /\ pc' = [pc EXCEPT ![w] = "idle"]
    /\ pending' = [pending EXCEPT ![w] = {}]
    /\ UNCHANGED <<committed, redisVars, num, backendVars, faults, clean>>

\* Mutant: the counter is read instead of incremented.
NextIndex_Reads(w) ==
    /\ pc[w] = "flush"
    /\ num[w] = 0
    /\ counter' = IF counter = NoCounter THEN 1 ELSE counter
    /\ num' = [num EXCEPT ![w] = counter']
    /\ clean' = (clean /\ ~Rebuilding)
    /\ UNCHANGED <<committed, idx, bits, pc, pending, backendVars, faults>>

\* INCR posting_counter; an absent key counts as 0.  Numbers handed out while a
\* rebuild runs are the ones the rebuild itself assigns: that is a disturbance.
NextIndex(w) ==
    /\ pc[w] = "flush"
    /\ num[w] = 0
    /\ counter' = IF counter = NoCounter THEN 1 ELSE counter + 1
    /\ num' = [num EXCEPT ![w] = counter']
    /\ clean' = (clean /\ ~Rebuilding)
    /\ UNCHANGED <<committed, idx, bits, pc, pending, backendVars, faults>>

\* Mutant: what was published stays in the pending list.
AddPosting_NoClear(w) ==
    /\ pc[w] = "flush"
    /\ Holds(w)
    /\ \E e \in pending[w] :
          Publish([n \in {num[w]} |-> e], KeysWritten(w))
    /\ num' = [num EXCEPT ![w] = 0]
    /\ UNCHANGED <<committed, counter, pc, pending, backendVars, faults, clean>>

\* Mutant: pending.clear() slips into the loop.
AddPosting_ClearsAll(w) ==
    /\ pc[w] = "flush"
    /\ Holds(w)
    /\ \E e \in pending[w] :
          Publish([n \in {num[w]} |-> e], KeysWritten(w))
    /\ pending' = [pending EXCEPT ![w] = {}]
    /\ pc' = [pc EXCEPT ![w] = "idle"]
    /\ num' = [num EXCEPT ![w] = 0]
    /\ UNCHANGED <<committed, counter, backendVars, faults, clean>>

AddPosting(w) ==
    /\ pc[w] = "flush"
    /\ Holds(w)
    /\ \E e \in pending[w] :
          /\ Publish([n \in {num[w]} |-> e], KeysWritten(w))
          /\ pending' = [pending EXCEPT ![w] = @ \ {e}]
          /\ pc' = [pc EXCEPT ![w] = IF pending[w] = {e} THEN "idle" ELSE "flush"]
    /\ num' = [num EXCEPT ![w] = 0]
    /\ UNCHANGED <<committed, counter, backendVars, faults, clean>>

\* A Redis call of the flush raises, or the session's process dies: the rest of
\* the pending list is gone, its rows stay committed.
Fail(w) ==
    /\ pc[w] = "flush"
    /\ faults < MaxFaults
    /\ faults' = faults + 1
    /\ pc' = [pc EXCEPT ![w] = "idle"]
    /\ pending' = [pending EXCEPT ![w] = {}]
    /\ num' = [num EXCEPT ![w] = 0]
    /\ UNCHANGED <<committed, redisVars, backendVars, clean>>

----------------------------------------------------------------------------
\* The backend's lifespan hook and rebuild_from_db.

GoTo(stage) == backend' = stage

Boot ==
    /\ backend = "down"
    /\ GoTo("count")
    /\ UNCHANGED <<committed, redisVars, writerVars, populated, listed, rows,
                   count, faults, clean>>

CountRows ==
    /\ backend = "count"
    /\ populated' = (committed # {})
    /\ GoTo("check")
    /\ UNCHANGED <<committed, redisVars, writerVars, listed, rows, count,
                   faults, clean>>

\* Mutant: the rebuild runs at every start, whatever the counter says.
CheckCounter_Always ==
    /\ backend = "check"
    /\ GoTo(IF populated THEN "list_bm" ELSE "up")
    /\ UNCHANGED <<committed, redisVars, writerVars, populated, listed, rows,
                   count, faults, clean>>

\* "if not counter and total > 0"
CheckCounter ==
    /\ backend = "check"
    /\ GoTo(IF counter = NoCounter /\ populated THEN "list_bm" ELSE "up")
    /\ UNCHANGED <<committed, redisVars, writerVars, populated, listed, rows,
                   count, faults, clean>>

\* KEYS <pattern>, for bm:*, idx:* and posting_counter in turn.
ListKeys ==
    /\ \/ /\ backend = "list_bm"
          /\ listed' = [listed EXCEPT !.bm = {k \in Key : bits[k] # {}}]
          /\ GoTo("delete_bm")
       \/ /\ backend = "list_idx"
          /\ listed' = [listed EXCEPT !.idx = DOMAIN idx]
          /\ GoTo("delete_idx")
       \/ /\ backend = "list_counter"
          /\ listed' = [listed EXCEPT !.counter = {counter} \ {NoCounter}]
          /\ GoTo("delete_counter")
    /\ UNCHANGED <<committed, redisVars, writerVars, populated, rows, count,
                   faults, clean>>

\* DEL of the keys listed; what was created since KEYS stays.
DeleteKeys ==
    /\ \/ /\ backend = "delete_bm"
          /\ bits' = [k \in Key |-> IF k \in listed.bm THEN {} ELSE bits[k]]
          /\ listed' = [listed EXCEPT !.bm = {}]
          /\ GoTo("list_idx")
          /\ UNCHANGED <<counter, idx, clean>>
       \/ /\ backend = "delete_idx"
          /\ idx' = [n \in DOMAIN idx \ listed.idx |-> idx[n]]
          /\ listed' = [listed EXCEPT !.idx = {}]
          /\ GoTo("list_counter")
          /\ UNCHANGED <<counter, bits, clean>>
       \/ /\ backend = "delete_counter"
          /\ counter' = IF listed.counter # {} THEN NoCounter ELSE counter
          /\ listed' = [listed EXCEPT !.counter = {}]
          /\ GoTo("select")
          /\ clean' = (clean \/ ( /\ idx = NoEntry /\ bits = NoBits
                                  /\ counter' = NoCounter /\ NoHolder ))
          /\ UNCHANGED <<idx, bits>>
    /\ UNCHANGED <<committed, writerVars, populated, rows, count, faults>>

\* The SELECT joins job_skills: a row without skills is not in it.  Rows that a
\* session committed and has still to publish get a second number.
SelectRows ==
    /\ backend = "select"
    /\ rows' = committed \cap Skilled
    /\ clean' = (clean /\ rows' \cap Owed = {})
    /\ GoTo("write")
    /\ UNCHANGED <<committed, redisVars, writerVars, populated, listed, count,
                   faults>>

\* The numbers of the next batch of a rebuild.  Mutant: it numbers from 0, the
\* bit that no search reads.
BatchNumbers_FromZero(size) == count .. count + size - 1
BatchNumbers(size) == count + 1 .. count + size

\* Mutant: a batch is written only when it is full, the loop waits for the rest.
WriteBatch_FullOnly ==
    /\ backend = "write"
    /\ \E f \in [BatchNumbers(BatchSize) -> rows] :
           /\ \A m, n \in DOMAIN f : f[m] = f[n] => m = n
           /\ Publish(f, PipelineKeys)
           /\ rows' = rows \ {f[n] : n \in DOMAIN f}
    /\ count' = count + BatchSize
    /\ UNCHANGED <<committed, counter, writerVars, backend, populated, listed,
                   faults, clean>>

\* One Redis pipeline of at most BatchSize postings, numbered from count + 1.
\* The order of the SELECT is by posted_at, which is input: any order.
WriteBatch ==
    /\ backend = "write"
    /\ rows # {}
    /\ \E size \in 1..BatchSize :
         \E f \in [BatchNumbers(size) -> rows] :
           /\ \A m, n \in DOMAIN f : f[m] = f[n] => m = n
           /\ size = BatchSize \/ rows = {f[n] : n \in DOMAIN f}
           /\ Publish(f, PipelineKeys)
           /\ rows' = rows \ {f[n] : n \in DOMAIN f}
           /\ count' = count + size
    /\ UNCHANGED <<committed, counter, writerVars, backend, populated, listed,
                   faults, clean>>

\* Mutant: the last, incomplete batch is dropped.
BatchesDone_FullOnly ==
    /\ backend = "write"
    /\ Cardinality(rows) < BatchSize
    /\ rows' = {}
    /\ GoTo("set")
    /\ UNCHANGED <<committed, redisVars, writerVars, populated, listed,
                   count, faults, clean>>

BatchesDone ==
    /\ backend = "write"
    /\ rows = {}
    /\ GoTo("set")
    /\ UNCHANGED <<committed, redisVars, writerVars, populated, listed, rows,
                   count, faults, clean>>

\* Mutant: the counter is not restored, so INCR starts again at 1.
SetCounter_Forgotten ==
    /\ backend = "set"
    /\ count' = 0
    /\ GoTo("up")
    /\ UNCHANGED <<committed, redisVars, writerVars, populated, listed, rows,
                   faults, clean>>

SetCounter ==
    /\ backend = "set"
    /\ counter' = count
    /\ count' = 0
    /\ GoTo("up")
    /\ UNCHANGED <<committed, idx, bits, writerVars, populated, listed, rows,
                   faults, clean>>

\* A rebuild that stops after a batch leaves entries above the counter.
Interrupted ==
    /\ listed' = NothingListed
    /\ rows' = {}
    /\ count' = 0
    /\ clean' = (clean /\ (Rebuilding => idx = NoEntry))

\* "never block startup on a rebuild failure": the exception is swallowed.
StartupFails ==
    /\ backend \in Stage \ {"down", "up"}
    /\ faults < MaxFaults
    /\ faults' = faults + 1
    /\ GoTo("up")
    /\ Interrupted
    /\ UNCHANGED <<committed, redisVars, writerVars, populated>>

\* The backend dies with every session in it; what was not committed is undone.
BackendCrash ==
    /\ backend # "down"
    /\ faults < MaxFaults
    /\ faults' = faults + 1
    /\ GoTo("down")
    /\ Interrupted
    /\ pc' = [w \in Writer |-> IF w \in Hosted THEN "idle" ELSE pc[w]]
    /\ pending' = [w \in Writer |-> IF w \in Hosted THEN {} ELSE pending[w]]
    /\ num' = [w \in Writer |-> IF w \in Hosted THEN 0 ELSE num[w]]
    /\ UNCHANGED <<committed, redisVars, populated>>

\* Redis has no volume and no AOF: recreating its container empties it.
RedisLoss ==
    /\ faults < MaxFaults
    /\ faults' = faults + 1
    /\ counter' = NoCounter
    /\ idx' = NoEntry
    /\ bits' = NoBits
    /\ clean' = (NoHolder /\ rows \cap Owed = {})
    /\ UNCHANGED <<committed, writerVars, backendVars>>

----------------------------------------------------------------------------
\* The stack comes up on a database volume that survived and an empty Redis.
Init ==
    /\ committed \in SUBSET Event
    /\ counter = NoCounter
    /\ idx = NoEntry
    /\ bits = NoBits
    /\ pc = [w \in Writer |-> "idle"]
    /\ pending = [w \in Writer |-> {}]
    /\ num = [w \in Writer |-> 0]
    /\ backend = "down"
    /\ populated = FALSE
    /\ listed = NothingListed
    /\ rows = {}
    /\ count = 0
    /\ faults = 0
    /\ clean = TRUE

WriterStep(w) ==
    \/ Insert(w)
    \/ Commit(w)
    \/ Rollback(w)
    \/ NextIndex(w)
    \/ AddPosting(w)
    \/ Fail(w)

BackendStep ==
    \/ Boot
    \/ CountRows
    \/ CheckCounter
    \/ ListKeys
    \/ DeleteKeys
    \/ SelectRows
    \/ WriteBatch
    \/ BatchesDone
    \/ SetCounter

Next ==
    \/ \E w \in Writer : WriterStep(w)
    \/ BackendStep
    \/ StartupFails
    \/ BackendCrash
    \/ RedisLoss

Spec == Init /\ [][Next]_vars

\* Redis answers every call in the end and the event loops run every task;
\* compose restarts a backend that exits ("restart: unless-stopped").  Nothing
\* obliges a client to ingest, and no fault is ever owed.
Fairness ==
    /\ WF_vars(BackendStep)
    /\ \A w \in Writer : WF_vars(Commit(w) \/ NextIndex(w) \/ AddPosting(w))

FairSpec == Spec /\ Fairness

----------------------------------------------------------------------------
\* What the index promises.

\* Whatever fails and whenever, the index never names a row that Postgres does
\* not have: the bitmap writes come after the commit (ingest.py:128).
IndexedRowsCommitted == \A n \in DOMAIN idx : idx[n] \in committed

\* The columns of the index agree with the row each number stands for: a set bit
\* is a number in use whose row has that value, and a row can be found by each
\* of its values, the remote and eu pseudo-countries aside.
BitsMatchRows ==
    /\ \A k \in Key : \A n \in bits[k] :
          n \in DOMAIN idx /\ k \in Keys[idx[n]]
    /\ \A n \in DOMAIN idx : \A k \in PipelineKeys[idx[n]] : n \in bits[k]

\* As long as no writer's INCR fell into a rebuild or outlived its counter, and
\* no rebuild stopped halfway, a filter selects exactly the rows it should
\* (add_posting and rebuild_from_db, each with its own numbering).
FiltersExact == clean => BitsMatchRows

\* Under the same condition no search returns a row twice: a row has one
\* number, whether its session or a rebuild published it.
RowsNumberedOnce ==
    clean => \A m, n \in DOMAIN idx : idx[m] = idx[n] => m = n

\* Under the same condition a step of any actor either empties the index or
\* leaves every posting number with its row: INCR and the rebuild's counter
\* hand out no number twice.
EntriesStable ==
    [][clean /\ clean' => \/ idx' = NoEntry
                          \/ \A n \in DOMAIN idx :
                                n \in DOMAIN idx' /\ idx'[n] = idx[n]]_vars

\* Until something fails, a backend that serves has every row with a skill in
\* the index or in the hands of a session about to publish it ("rebuild the
\* bitmap index from the DB if Redis came up empty", main.py:35).
UpMeansIndexed ==
    faults = 0 /\ backend = "up" =>
        \A e \in committed \cap Skilled : Indexed(e) \/ e \in Owed

\* Without faults, a committed row that its session still has to publish is
\* published: no interleaving of the flushes and the rebuild starves one.
OwedIsPublished ==
    \A e \in Event : (e \in Owed) ~> (Indexed(e) \/ faults > 0)

\* Whatever fails, the backend comes up again: the rebuild ends, and neither its
\* failure nor a crash keeps the process from serving (main.py:51).
BackendComesUp == []<>(backend = "up")

----------------------------------------------------------------------------
\* Statements of the repository that the code does not keep; each has a run that
\* shows how.

\* "clear existing bitmap keys first so a partial rebuild can't leave stale bits
\* behind" (bitmap.py:167): when a rebuild ends, however it ends, no bit is set at
\* a number that the counter is going to hand out again.
RebuildLeavesNoStaleBits ==
    [][Rebuilding /\ ~Rebuilding' =>
          \A k \in Key : \A n \in bits'[k] : n <= counter']_vars

\* "Each posting ingestion is atomic: insert job_events + insert job_skills +
\* update bitmap" (docs/ARCHITECTURE.md): a session that has ended has indexed
\* every row it committed.
IngestionAtomic ==
    [][\A w \in Writer :
          pc[w] = "flush" /\ pc'[w] = "idle" =>
              \A e \in pending[w] : Indexed(e)']_vars

----------------------------------------------------------------------------
\* The inductive invariant behind the safety properties.

\* A row belongs to one session at a time, and is uncommitted exactly until that
\* session's transaction ends.
SessionsApart ==
    /\ \A w \in Writer :
          /\ pc[w] = "idle" => pending[w] = {}
          /\ pc[w] = "txn" => pending[w] \cap committed = {}
          /\ pc[w] = "flush" => pending[w] \subseteq committed
          /\ Holds(w) => pc[w] = "flush"
    /\ \A v, w \in Writer : v # w => pending[v] \cap pending[w] = {}

\* The rebuild's own variables mean something only while it writes.
RebuildLocal ==
    /\ rows \subseteq committed
    /\ rows # {} => backend = "write"
    /\ count # 0 => backend \in {"write", "set"}

\* The numbers in use lie below the source of the next ones: the counter, or
\* the rebuild's own count while the counter is absent.
NumbersBelow ==
    clean =>
      /\ Rebuilding => counter = NoCounter
      /\ \A n \in DOMAIN idx : n <= IF Rebuilding THEN count ELSE counter
      /\ \A w \in Writer : Holds(w) => num[w] <= counter /\ num[w] \notin DOMAIN idx
      /\ \A v, w \in Writer : v # w /\ Holds(v) => num[v] # num[w]

\* Nobody is about to publish a row that has a number, and no two are about to
\* publish the same one.
PublishedOnce ==
    clean =>
      /\ rows \cap Owed = {}
      /\ \A n \in DOMAIN idx : idx[n] \notin rows /\ idx[n] \notin Owed

\* What a step of any actor preserves: rows belong to sessions, numbers to rows,
\* and bits to numbers.
IndexInv ==
    /\ TypeOK
    /\ SessionsApart
    /\ RebuildLocal
    /\ IndexedRowsCommitted
    /\ NumbersBelow
    /\ PublishedOnce
    /\ RowsNumberedOnce
    /\ FiltersExact

----------------------------------------------------------------------------
\* The abstract index: numbers and bitstrings read as sets of rows.

Known == {idx[n] : n \in DOMAIN idx}
Found == [k \in Key |-> {idx[n] : n \in bits[k] \cap DOMAIN idx}]

PI == INSTANCE PostingIndex
        WITH Posting <- Event, Must <- PipelineKeys, May <- Keys,
             stored <- committed, known <- Known, found <- Found,
             trusted <- clean

\* The numbered bitstrings implement an index of rows: while it is undisturbed
\* every step of a session or of a rebuild adds whole committed rows under their
\* keys and forgets none, or empties it (add_posting, rebuild_from_db).
IndexesPostings == PI!Spec

============================================================================
