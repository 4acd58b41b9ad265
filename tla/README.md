# A TLA+ verification of Signum

Signum collects job postings from public sources, extracts the skills they name, stores them in
Postgres/TimescaleDB and answers multi-filter searches from a bitmap index it keeps in Redis.
These modules model its stateful core as the code under `src/` has it, `TLC` checks them on small
instances, and `TLAPS` proves every safety property that these checks pass for every instance.

| Module | What it models | Instance | Theorems |
| --- | --- | --- | --- |
| `BitmapIndex.tla` | the dual write: committed rows, the Redis index, the ingesting sessions, start-up and rebuild | `MCBitmapIndex`, five `.cfg` | `BitmapIndexProofs` |
| `PostingIndex.tla` | what that index promises, without numbers and bitstrings | `IndexFaults.cfg` | `BitmapIndexProofs` |
| `Ingest.tla` | the transactions of `POST /ingest` and of the pipeline over one Postgres | `MCIngest`, `Ingest.cfg`, `DuplicatePosting.cfg` | `IngestProofs` |
| `BitmapSearch.tla` | `GET /search`: concurrent searches over `bm:_result`, and the SQL fallback | `MCBitmapSearch`, `Search.cfg` | `BitmapSearchProofs` |
| `Pipeline.tla` | the scheduler and one run over the five sources, with its run records | `MCPipeline`, `Pipeline.cfg` | `PipelineProofs` |
| `RateLimit.tla` | the request counters of the middleware | `MCRateLimit`, `RateLimit.cfg` | `RateLimitProofs` |
| `Taxonomy.tla` | reviews, the seed script and the caches of the taxonomy | `MCTaxonomy`, `Taxonomy.cfg` | `TaxonomyProofs` |
| `Signals.tla` | `/signals` from the aggregate and from the tables, `/graph` | `MCSignals`, `Signals.cfg` | `SignalsProofs` |
| `NaturalLemmas.tla` | no code: least numbers, induction and recursion, for the proofs | - | its own lemmas |

`PROJECT.json` holds components, runs, mutants, the line map, findings, hazards and theorems.
Run in this directory, for instance, `tlc -config Search.cfg MCBitmapSearch` and
`tlapm BitmapSearchProofs.tla`. Runs take from seconds to two minutes on two cores.

## 1. Inventory

Four processes (`docker-compose.yml`): Postgres with a volume, Redis with none, the backend (one
uvicorn process, asyncio), the scheduler. All restart "unless stopped". Backend and scheduler share
no memory: they meet in Postgres and in Redis.

| Component | State | Operations | Interacts with | Hard behaviour | Correct when |
| --- | --- | --- | --- | --- | --- |
| Bitmap index, `infrastructure/indexing/bitmap.py` | Redis: `posting_counter`, `idx:<n>`, `meta:<n>`, the bitstrings `bm:<field>:<value>`, the scratch key `bm:_result` | `next_index`, `add_posting`, `search`, `rebuild_from_db` | called by ingest, pipeline, lifespan, search | every call is its own Redis round trip; a rebuild is a dozen of them; a search shares its result key | a number stands for one row, a row has one number, each bitstring holds exactly the rows with its value |
| Ingest API, `api/v1/ingest.py` | the request's transaction, its pending list | check, insert, commit, publish | Postgres, then index | commit and index write are two systems | what is committed gets indexed, what is not does not |
| Pipeline, `infrastructure/ingestion/pipeline.py`, `common.py` | the run's transaction, pending list, per-source counters, run records | fetch five sources, `ingest_raw`, commit every 50, `_flush_bitmaps`, record the run, try to refresh the aggregate | sources, extractor, Postgres, index | runs overlap with requests and with each other; failures between any two awaits | one bad source does not lose the others; no duplicate, no invented count |
| Start-up, `main.py` `lifespan` | - | COUNT, GET counter, conditional rebuild | Postgres, index | races with the scheduler; failures are swallowed | the backend always comes up, with an index that covers the database |
| Scheduler, `worker.py` | - | run, sleep 6 h, forever | pipeline | a run that raises; SIGTERM | runs keep coming; it stops when told to |
| Search API, `api/v1/search.py` | - | bitmap path, metadata backfill, SQL fallback | index, Postgres | concurrent searches; two query paths, which compare values differently | each path answers what its own comparison asks for, completely |
| Source fetchers, `sources.py` | - | HTTP, three tries with growing pauses | pipeline | timeouts, partial pages | a failure is an error of that source |
| Extractor, `extractor.py` | taxonomy cache with a TTL of 300 s | `_load_taxonomy`, `extract_from_text` | pipeline, review | refilled across an await | bounded staleness |
| Emerging review, `api/v1/emerging.py` | `emerging_candidates`, `skill_taxonomy` | list, review | pipeline counts, taxonomy | concurrent and repeated reviews | a token whose candidate says accepted is in the taxonomy |
| Rate limit, authentication, `api/middleware.py` | Redis: `ratelimit:<method>:<ip>` with an expiry | INCR, EXPIRE | every request | failure between the two calls | at most `limit` requests in a window; no client blocked for good |
| Signals, trends, graph | the aggregate `cooccurrence_30d` | SQL reads | Postgres | two query paths, one of them over an aggregate that nothing fills; a failed query inside a transaction | a wider window shows no less; scores fade as time passes |
| Reset script, `scripts/reset_and_reingest.py` | - | delete rows, delete keys, run the pipeline | everything | runs beside the live processes | an index that matches the database afterwards |
| Schema, `alembic/` | constraints | DDL, once | Postgres | the unique fingerprint is dropped by migration 002 | the constraints the code relies on exist |
| Status, health, metrics, taxonomy, extract; benchmark and verification scripts; configuration, logging, dashboards | - | `POST /pipeline/run`, `POST /extract`, else read-only | pipeline, extractor | - | those two are the second session of `Pipeline` and a task of `Taxonomy`; the rest is not modelled |

`PROJECT.json` lists under `hazards` where each of these bites, with the property that would notice.

Row by row, the modules: the index is `BitmapIndex` and `BitmapSearch`; the ingest API `Ingest` and
`BitmapIndex`; the pipeline `Ingest`, `BitmapIndex` and `Pipeline`; start-up `BitmapIndex`; scheduler and
fetchers `Pipeline`; search `BitmapSearch`; extractor cache, review and seed script `Taxonomy`; rate
limit and authentication `RateLimit`; signals and graph `Signals`.

## 2. How the modules fit together

The modules divide the system at the seams the code has, and share vocabulary at each seam:

- `BitmapIndex` and `Ingest` share their sessions' life cycle (insert, commit, publish). The first keeps
  the Redis side in detail and lets a transaction insert any set of rows; the second keeps the
  statements of the transaction and stops at the commit.
- `Pipeline` is the loop around such sessions. A posting there is inserted in one step, because
  `Ingest` has the statements, and the flush only empties the pending list, because `BitmapIndex` has the
  rest; that the list holds the transaction's rows, and only committed ones when it is flushed, is
  `PendingCommittedCorrect`. In return it has what the other two leave to chance: which posting comes next, when a
  run commits and how it ends.
- `BitmapIndex` implements `PostingIndex` (a refinement, checked and proved). `BitmapSearch` reads
  an index that only grows or is lost, one of the undisturbed behaviours of `PostingIndex` (`SearchedIndexIsAbstract`, proved), and adds
  the numbers again, since the byte scan is about them. Of a rebuild's batch it sees the rows one by one. Numbers have no gaps there
and INCR and SETBIT are one step; a number held across a loss, or used up by a failed flush, is the matter of `BitmapIndex`.
- `Taxonomy` decides what is known; `Ingest` counts what is not.
- `Signals` reads the rows that `Ingest` commits; the refresh that fails at the end of a run of `Pipeline` is why it reads nothing else.

Recursive operators are used nowhere in a module that is proved about; what the code computes in a loop is a recursive
function there. The library's induction theorems take an operator as a parameter, which the installed provers cannot
instantiate. `NaturalLemmas` therefore derives from the well-foundedness of strict inclusion among finite sets that a set of
naturals has a least element (`Least`), that a set with 0 and all successors is everything (`Induction`), and that a first value and a
step function define a function on `0..N` (`Recursion`). `LoopRecursion` of the byte scan and `PagesRecursion` of the fetchers are instances of it.

What could follow: the reset script as one more actor of `BitmapIndex`; one module in which
`BitmapSearch` runs over the disturbed index of `BitmapIndex` instead of one that grows or is lost; larger times to live in
`Taxonomy` with liveness.

## 3. `BitmapIndex`

### State and steps

| Variable | In the code |
| --- | --- |
| `committed` | rows of `job_events` |
| `counter`, `idx`, `bits` | `posting_counter`, `idx:<n>` (and `meta:<n>`, always written with it), `bm:<field>:<value>` |
| `pc`, `pending`, `num` | a session's place in the handler, its pending list, the result of INCR before `add_posting` |
| `backend`, `populated`, `listed`, `rows`, `count` | the lifespan hook's and the rebuild's place and local variables |
| `faults`, `clean` | how many faults so far; a history variable, see below |

| Action | Code |
| --- | --- |
| `Insert`, `Commit`, `Rollback` | `ingest.py` 70-126, `pipeline.py` 161-174 |
| `NextIndex`, `AddPosting` | `bitmap.py` 32-69 called from `ingest.py` 131-141 and `_flush_bitmaps` |
| `Fail` | a Redis call of the flush raises, or the process dies: the pending list is gone |
| `Boot`, `CountRows`, `CheckCounter`, `StartupFails` | `main.py` 33-53 |
| `ListKeys`, `DeleteKeys`, `SelectRows`, `WriteBatch`, `BatchesDone`, `SetCounter` | `bitmap.py` 169-236, one action per round trip |
| `BackendCrash`, `RedisLoss` | the container ends; Redis has neither volume nor AOF |

A Redis pipeline of redis-py is a MULTI/EXEC, so a batch is one step. KEYS and DEL are two. `meta:*` is
listed and deleted after `idx:*`; as it is only read beside an `idx:` entry it is not a variable. An
INCR on an absent key gives 1. `KeysWritten` keeps the difference between the writers: `POST /ingest`
sets the bits of the pseudo-countries `remote` and `eu`, the pipeline and the rebuild do not. `SelectRows`
keeps the inner join: a row that has no skill is never rebuilt. The reset script, which deletes
committed rows, is not an actor here.

Rows are abstract ids with a fixed set of keys (`Keys`). The order of a rebuild is by `posted_at`,
which is the sources' data, so every order is allowed.

### What holds

Unconditionally (`IndexedRowsCommitted`): whatever fails, the index names committed rows only. This is
the point of writing the bitmaps after the commit.

Conditionally: the exactness of the index needs each number to be handed out once, and the
code guards that with nothing but the order of events. The history variable `clean` says whether it
has been so. It becomes false when

- an INCR falls into a rebuild (the number is one the rebuild assigns as well),
- Redis is lost while a session holds a number that it has not yet written, or while a rebuild has
  still to write rows that a session will publish too,
- a rebuild's SELECT sees rows that a live session has committed and not yet published,
- a rebuild stops after a batch, with entries above the absent counter,

and true again when the index is emptied with nobody holding a number. No condition of it is
idle: without any one of them TLC finds a counterexample to `FiltersExact`, `RowsNumberedOnce` or
`EntriesStable`, so each names an event after which the real index can be wrong. While `clean` holds,

- `FiltersExact`: a bit is set exactly for the rows that have the value (pseudo-countries aside),
- `RowsNumberedOnce`: no row has two numbers, so no search returns one twice,
- `EntriesStable`: a step empties the index or leaves every number with its row.

**The abstract index.** `PostingIndex` has no numbers, sessions or counter: a set of stored rows, the rows the index
knows and the rows that each key selects. While it is trusted it grows by whole stored rows, each
under all of its keys in one step, or is emptied; once disturbed it promises only to name stored rows.
`IndexesPostings` is that specification under the mapping `Known`, `Found`, `clean`: a reader of the
undisturbed index never sees a row half published, forgotten or under a foreign key.

`UpMeansIndexed`, `OwedIsPublished` and `BackendComesUp` speak of start-up: without a scheduler and
without faults a serving backend has every row with a skill indexed or in the hands of the session about to
publish it; nothing starves such a session; and whatever fails, the backend serves again.

### Runs

| Run | Instance | Shows |
| --- | --- | --- |
| `index_faults` | three rows, one session of each kind (request, pipeline in the backend, scheduler), batches of two, three faults; about 100 000 states | the safety properties, and that every step is one of `PostingIndex` |
| `index_boot` | the two backend sessions, two faults, fairness; about 8 400 states | the start-up and liveness properties |
| `index_boot_race` | the scheduler alone, no fault | `UpMeansIndexed` fails: the scheduler's first INCR between start-up and GET makes the hook believe that Redis is populated (`main.py:35-36` promises otherwise) |
| `partial_rebuild` | one session, batches of one, one fault | `RebuildLeavesNoStaleBits` fails: `bitmap.py:167-168` promises it |
| `commit_index_gap` | one session, one fault | `IngestionAtomic` fails: `docs/ARCHITECTURE.md:100` promises it |

Bounds. Three rows are what the interesting cases need: a full and a short batch, one row without
skills, and a row published while others are being rebuilt. Three faults allow a Redis loss, a backend
crash and a failed flush, or a failed rebuild after a loss, in one behaviour. The proofs remove all
these bounds except the fault counter's role as a counter: `MaxFaults` is any natural number.
`CHECK_DEADLOCK FALSE` is set because an instance rests when its rows are used up.

Fairness. `WF_vars(BackendStep)`: Redis and Postgres answer in the end, the event loop runs the hook,
and compose restarts a backend that exited. One weak fairness condition per session over commit, INCR and
`add_posting`: the same event loop. A client owes no request, and no fault is owed.

### What is proved

`BitmapIndexProofs.tla` proves, for every set of rows, keys and sessions, every batch size and every
number of faults, under the named assumptions of `BitmapIndex` alone: `TypeCorrect`, `InvCorrect`,
`IndexedRowsCommittedCorrect`, `FiltersExactCorrect`, `RowsNumberedOnceCorrect` and
`EntriesStableCorrect`, `UpMeansIndexedCorrect` and the refinement `RefinesPostingIndex`.

The argument is the inductive invariant `IndexInv`. The three properties are not inductive alone:

- that a set bit is exact when `add_posting` overwrites nothing needs numbers in use to lie below the
  next number to be handed out. `NumbersBelow` says so with two sources of numbers: the
  counter, and, while a rebuild runs and the counter is absent, the rebuild's own count. It also says
  that the numbers in sessions' hands are pairwise different and unused;
- that a row is not numbered twice needs to know who is going to number it: `PublishedOnce` keeps the rows that have a
  number, the rows a rebuild has still to write and the rows sessions owe apart from each other;
- that these are committed, and that rows of different sessions are different, is `SessionsApart` and
  `RebuildLocal`.

The lemmas follow the structure of `Next`, one per action or group of actions that disturbs the same conjuncts;
`PublishType` and its companions are about the effect of one Redis transaction.
`UpMeansIndexedCorrect` is proved under the hypothesis `Hosted = Writer`, that only the backend ingests,
and `index_boot_race` shows that it is needed. Its invariant `BootInv` follows the lifespan hook: as nobody
ingests while the backend is not up, Redis is as empty at each stage as `GET` found it, the hook skips its rebuild only
when the table is empty, and what the SELECT returned is either still in `rows` or indexed.

The refinement goes action by action: a session's transaction is `Store`, one MULTI/EXEC is `Publish` (of one row
by `add_posting`, of a batch by the rebuild), `RedisLoss` and the end of the deletion are `Empty`, every
step that leaves `clean` false is `Disturb`, and the rest are stutters. It needs `IndexInv`: without
numbers below the counter, `add_posting` would take a row out of `Known`.

Fairness and therefore `OwedIsPublished` and `BackendComesUp` are beyond the prover and rest on TLC.

## 4. `Ingest`

### State and steps

`rows`, `employers` and `counts` are the committed tables; `tx[s]` is a session: its place in the
handler, the postings to do, and its open transaction. Reads are at READ COMMITTED: a statement
sees what is committed when it runs and what its own transaction wrote.

| Action | Code |
| --- | --- |
| `Begin` | a request arrives (`ingest.py` 63-69), or a source's feed is fetched (`pipeline.py` 147-161) |
| `CheckFingerprint`, `CheckRaises` | the SELECT and `scalar_one_or_none`, which raises on two rows (`ingest.py` 71-75, `pipeline.py` 76-79) |
| `SelectEmployer`, `InsertEmployer` | `ensure_employer` (`common.py` 38-45); the insert waits for an open insert of the same name and fails if it was committed |
| `InsertEvent`, `SkillsRaise` | the event and its skills; a posting that names a skill twice breaks the primary key at the next flush |
| `SelectToken`, `WriteToken` | `_record_emerging` (`pipeline.py` 64-71): read, add one in Python, write the value, at the session's next flush |
| `Commit` | `pipeline.py` 169-173, `ingest.py` 118 |
| `DeadlockVictim`, `Disconnect` | Postgres ends a wait cycle; a process or connection ends |

A posting is a value with a fingerprint, a company, the terms that the extractor does not know and whether it
knows any; the extractor itself is not modelled. An exception drops the rest of the request or run
(`Undo`): the request's session closes, and the exception leaves `run_pipeline`. The next source of a run is a new `Begin` of the same session.

### What holds

- `DuplicatesNeedOverlap`: an open transaction never holds a copy of a posting that was committed before the
  transaction began, nor two copies of one. Two overlapping transactions do duplicate a posting:
  run `duplicate_posting` shows it against "dedupe is enforced in app code instead" (migration 002).
- `OneCopyPerSession`: so a posting is stored at most once per session that ever sent it.
- `EmployersConsistent`: an employer is created once, and before its events.
- `CountsBacked`: counts may be lost, never invented.
- `BatchesEnd`: every request and every run ends, though two of them may wait for each other.

### Runs

`ingest` has a request and two pipeline runs (100 800 states), three batches, from three feeds chosen
so that the same two employers and the same two terms are wanted in opposite orders, two spellings of
a company share a fingerprint, a posting has no skill and one names a skill twice (in a run, after a commit; in a request, before the only one); a
commit every two postings makes a feed of three take two transactions. `duplicate_posting` has one request
and one run. Three sessions are enough for a wait cycle beside a bystander, and for a count read by one, written by
another and written again. `MaxBatches` bounds the batches begun; the rest state of an instance is why deadlock checking is off.

Fairness: one weak fairness condition per session over everything the code and the database do next,
`DeadlockVictim` included, since Postgres looks for cycles after `deadlock_timeout`. Neither a new
batch nor a lost connection is owed.

### What is proved

`IngestProofs.tla` proves, for every set of sessions, postings and feeds and every commit interval:
`TypeCorrect`, `InvCorrect`, `DuplicatesNeedOverlapCorrect`, `OneCopyPerSessionCorrect`,
`EmployersConsistentCorrect`, `CountsBackedCorrect`, and `LoneSessionNeverDuplicates`: the deduplication that migration 002
leaves to the application is sufficient where a single session ingests. It is the other
side of run `duplicate_posting`, for which a second session is all it takes.

The inductive invariant `IngestInv` adds to the three properties what a session relies on between
two statements:

- `CheckedOnce`: from the SELECT of a fingerprint to the INSERT, no copy is in what the transaction
  began with or has inserted. Nothing is said of rows committed since, and nothing could be;
- `OwnRowsKnown`: what a session itself has committed it finds again, because every transaction
  begins after its last commit. This makes `OneCopyPerSession` follow from `DuplicatesNeedOverlap`;
- `EventsEmployed`: an event's employer is committed or in the same transaction, so a commit
  never publishes an event without it;
- `WorkLeft`: `Head` is only taken of something.

All actions but `Commit` change one session's record. The proof therefore restates the invariant for
one record (`InOrder`), proves once that a record in order whose employers are new to all others preserves it
(`OneRecord`), and shows for each statement that it leaves its record in order; `Commit` is the one case
that relates the sessions to the tables. The waits (`Blocks`) matter to exactly one conjunct:
that two open transactions never create the same employer.

`CountsBacked` has an invariant of its own, `CountsInv`: behind each token that a session has still to count
stands a row that it has inserted and not committed (`RowsBehind`), so the count it read leaves room for one more. The
row locks play no part: what overlapping writers lose only makes the count smaller. The tokens of a posting are distinct (`discover_emerging`
returns a sorted set), which `PostingAssumption` says and the proof uses.

`BatchesEnd`, being liveness, rests on TLC.

## 5. `BitmapSearch`

### State and steps

`counter`, `idx`, `bits` are the index, `scratch` is `bm:_result`, and `search[s]` is a request: its place, what
it has read, its answer and the path that gave it.

| Action | Code |
| --- | --- |
| `Begin` | `search.py` 28-36: filters are passed on as `sen`, `country`, `size` |
| `BitOp`, `BitCount`, `Get`, `Fetch` | `bitmap.py` 76-160, one action per call to Redis; a request of one key needs no BITOP |
| `Scan` | the byte scan, `bitmap.py` 112-123 |
| `Backfill`, `CallFails`, `Sql` | `search.py` 38-115: titles that the index lacks, `except Exception: pass`, the fallback |
| `Publish`, `RedisLoss` | the writers, as far as a search can see them |

The comparison of values follows the code. The index holds and is asked in lower case (`KeysOf`, `Keys`), and which
values get a bit depends on who indexes the row (`LeftOut`): nobody indexes an unknown country or size, and the pipeline and the
rebuild leave out the pseudo-countries too (`pipeline.py` 121-122, `bitmap.py` 229-232), while `POST /ingest` leaves out `unknown` alone
(`ingest.py` 111-112). A row of `POST /ingest` has no title in Redis (`untitled`), which is what sends a search to `Backfill`. The
fallback compares stored values, left out of the index or not, with lowered skills (`Joined`), counts the matches against the length of
the request (`SqlRows`), and looks its filters up under names of which only `country` is ever passed (`SqlFilters`).

### What holds

- `UndisturbedAnswersMatch`: a search that no other BITOP overtook, on a Redis that kept its data, returns matching rows only.
- `AnswerOfOneSearch`: an overtaken search returns the rows of the other search, never a mixture. It is what the shared key can still promise.
- `UndisturbedSearchComplete`: such a search finds what was indexed when it began under the keys asked for, if every writer
  sets these (`Promised`), up to its limit, whatever is published meanwhile, and leaves the answer to SQL only if there was nothing. Nothing is promised
  of `country=remote` or `country=eu`: the rows of the pipeline cannot be found by them, and those of `POST /ingest` only until a rebuild.
- `FallbackAnswers`: a fallback that answers gives exactly the rows that store each requested skill in lower case and the
  country as asked (`Stored`), up to the limit; those are the rows asked for when all values concerned are so spelt (`Spelt`). It
  fixes what the SQL path does not do: seniority and size make no difference, and a skill stored as `Python` is found by no request.
- `ScanMeetsLoop`: `Scan`, a set comprehension, is what the two nested loops compute (`ScanLoop`, which goes through the
  numbers one by one and skips the rest of a byte once it is `Left`), for all bitstrings of `MaxScan` numbers and
  all limits up to it, eight in the run: the limit ends a byte's loop only, so each later non-zero byte adds one number more.
  It speaks of constants, so it is evaluated once, in the initial state.

Run `search` has two searchers (symmetric), four requests, two postings in bytes of three bits, each published by either writer, and
one fault; about 1.2 million states. `dev` stores `Python` and the country `remote`, `lead` stores `python`, a seniority and a real country.
The requests have one and two keys and the limits 1 and 2: one for a country alone, on which SQL never answers anything; one for two skills that SQL
finds of `lead` only; one with the pseudo-country; one with a seniority that SQL ignores.

### What is proved

`BitmapSearchProofs.tla`, for every set of postings, requests and searchers, byte size and number of faults:
`TypeCorrect`, `UndisturbedAnswersMatchCorrect`, `AnswerOfOneSearchCorrect`, `FallbackAnswersCorrect`,
`UndisturbedSearchCompleteCorrect` and `ScanMeetsLoopCorrect`. The invariant `IInv` adds: a bit is set for the numbers of the rows that have the value (`IndexInv`);
`scratch` holds matches of `author`, the request whose BITOP wrote it, unless Redis was lost; an exposed search that was not overtaken is that
author (`AuthorInv`); numbers and answers match the request they were read for (`AnswerInv`); and an SQL
answer is among `SqlRows`, and all of them or as many as the limit (`SqlInv`). That `SqlRows` are `Stored` is an argument about cardinalities:
as many joined skills as the request has can only be all of them, each once.

`UndisturbedSearchComplete` has an invariant of its own, `CompleteInv`, which follows the numbers of the owed rows through
a search. `NumbersInv`: numbers have no gaps, a row has one of them and its bits are set at least under the keys that the pipeline sets. `OwedInv`, place by
place: until the result is read, the numbers of the owed rows are set in what this search will read (in `scratch`, if it has written
it and is undisturbed); after GET they are among `own`, or `own` has as many numbers as the limit; and the path to SQL is
taken only if there are none. What carries it over GET is `ScanComplete`: a scan that misses a set number has collected
at least the limit. What carries it over Fetch is that different numbers have different rows, so rows count as much as numbers.

`ScanMeetsLoopCorrect` removes the bound and the byte size: `ScanIsLoop` goes by induction over the numbers, with the claim that
what the loop has taken up to n is what `Scan` selects up to n (`ScanSteps`).

`SearchedIndexIsAbstract` maps the index that searches read to `PostingIndex`: a publication is `Publish` of one row, a loss of
Redis is `Empty`, the steps of a search are stutters. The abstract index is told the keys a row must have, those of the pipeline, apart from
those it may have, those of `POST /ingest`; the seam is where they differ.

## 6. `Pipeline`

### State and steps

| Variable | In the code |
| --- | --- |
| `pc`, `primed`, `at` | the place in `_run_loop` and `run_pipeline`, whether the first run is over, the source |
| `page`, `tries`, `postings`, `error` | the fetcher's loop, `_fetch_json`'s attempts, what `fetch()` returned |
| `handled`, `inserted` | `inserted + skipped` and `inserted` |
| `own`, `added`, `pending` | rows and run records of the open transaction, `_PendingBitmap` |
| `copies`, `records` | committed rows per fingerprint, `pipeline_runs` of the latest run |
| `credit`, `outcome` | history: rows that the latest run committed per source, and how it ended |

`Answered`, `RequestFails`, `Garbled` and `SkipSource` are one try of one page (`sources.py` 27-38 and the five fetchers, which are records
of what they ask for); `IngestRaises`, `IngestNext`, `IngestDone` one posting (`pipeline.py` 161-173); `Commit`, `Flush`, `Record`
and `Refresh` the rest of a run; `CallFails` any failure outside the `try` around the fetch, which ends the run; `Killed` a stop,
always in mid-run because the stop event is never awaited; `OtherStores` a posting stored by another session.

### What holds

- `RecordsTruthful`: a committed run record says what its run committed for that source, however the run was cut off.
- `OnlyLastRecordsMissing`: the rows without a record are those of at most the two sources reached last, since a record
  waits for the next source's first commit.
- `ReturnedRunComplete`: a run that returns has a record of every source and has stored all that those without an error offered.
- `OffersGetStored` (liveness): what is on offer is stored in the end, unless a posting stored twice stands in the way and makes every
  run raise. This exception is not idle: the hazard at `pipeline.py:78` is that such a run never gets past it.

Run `pipeline`: one commit every two postings and a feed of two on each side of it, a Hacker News limit of two on pages of
two, one source without its key, one with an item that makes no posting, one that drops such items; three faults
(three failed tries are what a source takes to fail); about 260 000 states. Fairness is one condition over all the worker does
(`Work`, and `Garbled` for an answer it cannot read): one coroutine that the event loop resumes.

### What is proved

`PipelineProofs.tla`: `TypeCorrect`, `RecordsTruthfulCorrect`, `OnlyLastRecordsMissingCorrect`, `ReturnedRunCompleteCorrect`, for all postings, answers, page and commit sizes
and any number of faults. `TypeInv` includes why a fingerprint has at most two rows. `RecordInv` says that the sources with a
record, committed or not, are exactly the first ones (`LoggedInv`), that at most the last of these is uncommitted
(`AddedInv`), and that `inserted` is what the source committed plus what its transaction holds (`CountInv`).

`ReturnedRunComplete` compares the fetch loop, which stops early in three ways and cuts at the limit, with the pages laid end to
end (`Pages`, a recursive function; `Reached` is how far the loop goes). Its invariant `StoreInv` says that before a page is asked for
`postings` are the pages so far (`PagesInv`); that while they are ingested they are, unless the fetch failed, all
that is on offer, because at each of the three ends the pages that follow make no difference (`FetchIsOver`), and what has been handled of
them is stored, or in `own` until the commit (`KeptInv`); that each source recorded without an error, committed or not, has its offer
stored (`StoredInv`); and that a run ends after its last source only (`ReturnInv`). Stored rows are never withdrawn, so other sessions do not disturb it.

`PendingCommittedCorrect` is about the order of commit and flush (see section 2). `OffersGetStored` rests on TLC.

## 7. `RateLimit`

`count` and `ttl` are Redis' counter and expiry of a key (method, address), `req[r]` a request on its way through
`RateLimitMiddleware` (`Incr`, `Expire`, `IncrFails`, `ExpireFails`), `AuthMiddleware` (`Auth`) and the handler. A failed call may have
been executed. `Tick` is time, `BackendCrash` and `RedisLoss` are the containers. `passed[k][a]` is history: the
requests of k let through in this tick and the a ticks before it.

- `SlidingBound`: within any window's length a key lets through at most twice its limit, and at most one limit more per fault.
- `EndlessNeedsFault`: no schedule of requests alone leaves a counter without an end.
- `BlockedEnds` (liveness): a client over its limit is let through again, unless a fault tore INCR and EXPIRE apart.

Run `ratelimit`: one address, GET with limit 2 and POST with limit 1, two requests in flight, a window of two ticks (the shortest in
which a request may fall before or after the middle), one fault. Counters above every limit are not told apart (`MaxCount`).
Fairness: each request is served on (`Serve`), and time passes (`Tick`).

`RateLimitProofs.tla` proves for any number of addresses, methods and requests, any window and any limits:

- `TypeCorrect`, and `EndlessNeedsFaultCorrect`: a counter is 0, has a time to live, or has the request that made it 1 still
  before its EXPIRE;
- `SlidingBoundCorrect`. The bound is not inductive, since it says nothing of what is left of the current window. The invariant
  `WindowInv` gives each key a `Budget`: what its counter has admitted so far, at most the limit, and a limit for each fault. Since the tick of the
  EXPIRE no more than the budget has passed; in a whole window no more than the budget and one limit. When the counter ends, its
  window covers a whole `Window`, so all that the next window can still see is one budget, and that is the one limit carried over. A fault that
  makes Redis forget a counter is paid for by the budget's other term (`BudgetFault`).

`BlockedEnds` is liveness and rests on TLC.

## 8. `Taxonomy`

`taxonomy` and `candidate` are the tables, `cache[p]` is `_TAXONOMY_CACHE` of a process with the age of its time stamp, `task[t]` an
extraction, `review[r]` a review between SELECT and COMMIT, `seeding` the seed script between its read and its commit. `since` and
`owed` are history: how long a skill is there, and what an extraction has a right to know.

| Action | Code |
| --- | --- |
| `Look`, `Load`, `Store`, `Use` | `extractor.py` 207-225, 254-279: the test of the cache, the SELECT, the assignment after the await, the use |
| `Select`, `CommitReview` | `emerging.py` 50-75; the commit fails on a skill that is already there |
| `SeedRead`, `SeedCommit` | `seed_taxonomy.py` 201-224 |
| `Tick`, `Crash` | `time.monotonic`, a restart |

- `KnowsOwedSkills`: however refills overlap, an extraction knows every skill that had been in the table for the time to live when it
  began. It holds because the time stamp is taken before the SELECT; the mutant that takes it after breaks it.
- `AcceptedInTaxonomy`: a candidate that says accepted is in the taxonomy, whatever reviews overlap. The converse
  fails by design of the code: a later rejection leaves the skill.
- `SeededComplete`: a seed run that succeeded has left all its skills there, though two of its names share a key.
- `AcceptedBecomesKnown` (liveness): every process comes to know an accepted skill, and does not forget it but for restarts, which are finite here.

Run `taxonomy`: one process with two extractions (caches are independent), two reviewers, the script, a time to live of one tick, one
crash. With two ticks the safety properties hold too, on 1.4 million states, which is too many for the liveness check. Fairness:
every process goes on extracting, as the scheduler does every six hours, and time passes.

`TaxonomyProofs.tla` proves the type invariant and the three safety properties for all names, processes, tasks and times to live. The core of it is
`Covers(S, age)`: a set of skills of this age has every skill that has been in the table for longer. Each cache and
each refill on its way satisfies it (`CacheInv`), whichever is stored last. `AcceptedBecomesKnown` rests on TLC.

## 9. `Signals`

A posting is its skills and its age, in ticks of which `Day` make a day; `rows` are the tables, `hour` is the time of day, and `covered` what
the continuous aggregate has counted.

| Action or query | Code |
| --- | --- |
| `Ingest`, `Run`, `Reset`, `Tick` | `POST /ingest`; a run of the pipeline with its refresh; `reset_and_reingest.py` 28-31; time |
| `CaggQuery`, `RawQuery`, `FromCagg` | `signals.py` 15-28, 30-44 and 56-74 |
| `Velocity`, `Days` | `signals.py` 94-98, `infrastructure/signals.py` |
| `Matched`, `Shown`, `Weight` | `graph.py` 25-38 |

The tables are asked by `posted_at` (`Since`). The aggregate counts by the day of `posted_at` and is asked by the start of that day
(`BucketAge`), so a bucket leaves the month up to a day before its last posting does. The prior postings of a pair are all that are not
recent, however old: `velocity` is not the difference of two windows.

Nothing ever fills the aggregate. Migration 002 creates it `WITH NO DATA` and adds no refresh policy; the only refresh is the CALL at the end of a
run (`pipeline.py` 209), which TimescaleDB refuses inside a transaction, and the session's `execute` has opened one; the exception is logged. An
aggregate without data answers nothing (`latest-pg17` materializes only), so `Refreshed` returns `covered` as it was and every answer
is made from the tables. `Refreshed_Works` is the code with a CALL that succeeds.

- `WindowsNest`: for any two windows, on either side of the 30 days at which `/signals` changes its query, the wider one shows the same pairs,
  totals and `last7`, and no fewer recent postings.
- `ScoreFades`: between two moments without a new posting, in which time may pass and runs may find nothing, `/signals` lists the same pairs, with the same
  totals, and no score that is positive rises (none becomes so, either).
- `GraphAgrees`: a neighbour of a skill with one spelling weighs what `/signals` counts for the pair.

The first two hold because the aggregate is empty, and are here for the day it is not. With a refresh that works, TLC finds both violated: the aggregate
counts the month whatever the window and knows nothing older, so a narrow window shows fewer pairs and more recent postings than a wide
one, and the first refresh makes a pair break out by the postings it forgets.

Run `signals`: four postings of ages up to three and a half days, a day of two ticks, a week of one day, a month of two, windows of one, two and three days, pairs
from two postings on; Rust has two spellings; 13 122 states. All ages at all hours, and all orders of runs, deletion and
time occur. Ages from `MaxAge` on are not told apart, which is above the month and every window; postings dated in the future are left out.

`SignalsProofs.tla` proves all three for every set of postings and skills and all bounds. `SignalsInv` says that the aggregate is empty and the rows are
finitely many, so `Result` is `RawQuery` (`FromTables`). `WindowsNest` is then a matter of subsets and their sizes. For `ScoreFades`, rows only
grow older (`Older`), so fewer are recent and the oldest, which exists by `Least`, is no younger; `Fading` compares the two scores, products of a velocity and
a quotient, by `Product` and `Quotient`. `GraphAgrees` rests on a bijection between a pair's postings and the rows of the
join, which exists only where one spelling makes the side that is shown unique.

## 10. Only model-checked

Every safety invariant, action property and refinement that a passing run checks is also a theorem. What rests on TLC alone:

- liveness (`OwedIsPublished`, `BackendComesUp`, `BatchesEnd`, `OffersGetStored`, `BlockedEnds`, `AcceptedBecomesKnown`), because neither
  fairness nor ENABLED is within the prover's reach;
- the four statements of the repository that the code does not keep, which are counterexamples and have nothing to prove.

## 11. Where the code departs from its documents, without a run of its own

- `ARCHITECTURE.md` 83-85 and migration 002, 43-45, have `cooccurrence_30d` refreshed on ingest and on a schedule. Nothing refreshes it (section 9);
  the model says so by construction, and a counterexample would only repeat that.
- `README.md` 69 defines velocity as the last 30 days less "prior 30d". The prior postings are all older ones, and on the aggregate's path, if it ever answered, there
  would be none.
- `README.md` 60 and ADR-003 have a B-tree fallback for the multi-filter search. It ignores seniority and size and lowers the requested skills, although
  "skills are stored capitalized" (`graph.py` 16); `FallbackAnswers` says what is left of it.
- `ARCHITECTURE.md` 89-91 gives each distinct value its bitstring. Unknown values have none, and `remote` and `eu` have one only for rows of `POST /ingest`,
  which the next rebuild drops (`UndisturbedSearchComplete`, `KeysWritten` of `BitmapIndex`).

## 12. Not modelled

- `clean` states that exactness is conditional; how long a wrong index stays wrong is not bounded by anything in the code, short of a restart of Redis.
- spaCy and the fuzzy match of `extract_known`, the parsing of the foreign formats (`parse_posted_at`, salaries, regions), the
  PMI and the labels of `/trends`: functions of one input, without a state of the system; what they return is an input here.
- The response counters of `POST /ingest`, read by one client only; listing endpoints, health, metrics, the log middleware.
- The reset script's deletion of the Redis keys: it is KEYS and DEL, like a rebuild's, from another process.
- Redis' memory and persistence settings beyond "recreated empty"; Postgres' isolation beyond READ COMMITTED, unique keys and row locks.
- Benchmark and verification scripts, dashboards, configuration: no protocol state.
- Numbers are unbounded: Redis counters have 64 bits and a bitstring 2^32 bits, beyond what the sources supply.
