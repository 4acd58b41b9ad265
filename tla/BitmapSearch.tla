---------------------------- MODULE BitmapSearch ----------------------------
(***************************************************************************)
(* GET /search (api/v1/search.py): BitmapIndex.search over Redis, and the  *)
(* SQL query that answers when the index fails or finds nothing.           *)
(*                                                                         *)
(* Searches are concurrent coroutines.  One with two or more keys stores   *)
(* its BITOP in bm:_result, a key that all searches share, and reads it    *)
(* back in two further calls.  Every call to Redis or Postgres is a step.  *)
(*                                                                         *)
(* Abstracted: a posting is its tags, the pairs of a field and a stored    *)
(* value; what the index says of them is BitmapIndex.  Here the index only *)
(* grows, by rows of either writer, or is lost with Redis.                 *)
(***************************************************************************)
EXTENDS Integers, Sequences, FiniteSets

CONSTANTS
    Event,      \* postings committed to Postgres
    Value,      \* skills, seniorities, countries and sizes, as written
    Lower,      \* Lower[v]: v in lower case
    Tags,       \* Tags[e]: the fields and stored values of e
    Unknown,    \* the country or size of a row that has none
    Region,     \* the pseudo-countries "remote" and "eu"
    Request,    \* the queries that clients send
    Searcher,   \* requests in flight
    ByteBits,   \* bits of a byte (8 in the code)
    MaxFaults,  \* bound: failed calls and losses of Redis
    MaxScan     \* bound: numbers and limits for which the scan is compared with its loop

Field == {"skill", "sen", "country", "size"}
Parameter == {"seniority", "country", "company_size"}

ASSUME ValueAssumption ==
    /\ Lower \in [Value -> Value]
    /\ \A v \in Value : Lower[Lower[v]] = Lower[v]
    /\ Tags \in [Event -> SUBSET (Field \X Value)]
    /\ \A e \in Event : IsFiniteSet(Tags[e])
    /\ Unknown \in Value /\ Region \subseteq Value
ASSUME RequestAssumption ==
    /\ Request \subseteq [skills : Seq(Value), filters : SUBSET (Parameter \X Value),
                          limit : Nat]
    /\ \A r \in Request : IsFiniteSet(r.filters)
ASSUME BoundAssumption == ByteBits \in Nat \ {0} /\ {MaxFaults, MaxScan} \subseteq Nat

VARIABLES
    counter,  \* posting_counter
    idx,      \* idx:<n> -> posting
    bits,     \* the bitstrings of the index
    untitled, \* the numbers n whose meta:<n> has no title
    scratch,  \* the bits of bm:_result
    author,   \* history: the request whose BITOP wrote bm:_result
    search,   \* per searcher: where its request is and what it has read
    faults    \* faults so far

indexVars == <<counter, idx, bits, untitled>>
vars == <<indexVars, scratch, author, search, faults>>

Key == Field \X Value
NoBits == [k \in Key |-> {}]

\* Where a search is: between two calls, at an answer, or at a failed response.
Place == {"idle", "bitop", "count", "get", "fetch", "backfill", "sql", "done", "error"}

NoRequest == [skills |-> <<>>, filters |-> {}, limit |-> 0]

\* A search: its place and request, the numbers it scanned, its answer and the path
\* that gave it, and whether a failed SQL has spoilt its session.  History: the rows
\* that were findable when it began, whose bits it read, and what came in between.
Progress == [pc : Place, request : Request \cup {NoRequest}, own : SUBSET Nat,
             answer : SUBSET Event, method : {"redis_bitmap", "postgres_btree"},
             aborted : BOOLEAN, owed : SUBSET Event, from : Request \cup {NoRequest},
             disturbed : SUBSET {"search", "loss", "failure"}]

Resting == [pc |-> "idle", request |-> NoRequest, own |-> {}, answer |-> {},
            method |-> "redis_bitmap", aborted |-> FALSE, owed |-> {},
            from |-> NoRequest, disturbed |-> {}]

----------------------------------------------------------------------------
\* The index, and what a request asks of it.

\* The keys of the values that a row has.
Values(e) == {<<t[1], Lower[t[2]]>> : t \in Tags[e]}

\* The two ways into the index: add_posting called by POST /ingest, or by the pipeline,
\* whose choice of keys the rebuild shares.
Writer == {"ingest", "pipeline"}

\* The stored values, as written, that get no bit: neither writer sets one for an unknown
\* country or size, and the pipeline sets none for a pseudo-country.
LeftOut(by) ==
    ({"country", "size"} \X {Unknown})
        \cup (IF by = "pipeline" THEN {"country"} \X Region ELSE {})
KeysOf(e, by) == {<<t[1], Lower[t[2]]>> : t \in Tags[e] \ LeftOut(by)}

\* The names under which the endpoint passes its parameters on.
RequestName == [seniority |-> "sen", country |-> "country", company_size |-> "size"]
Filters(r) == {<<RequestName[f[1]], f[2]>> : f \in r.filters}

\* The keys a request is ANDed from.
Keys(r) ==
    {<<"skill", Lower[r.skills[i]]>> : i \in DOMAIN r.skills}
        \cup {<<f[1], Lower[f[2]]>> : f \in Filters(r)}
KeyCount(r) == Len(r.skills) + Cardinality(r.filters)

\* The row has all that is asked for; and it can be found by it, whoever indexed it.
Matches(e, r) == Keys(r) \subseteq Values(e)
Promised(e, r) == KeyCount(r) > 0 /\ Keys(r) \subseteq KeysOf(e, "pipeline")

\* The byte scan: the limit ends the scan of a byte, never the scan of the bytes, so
\* each later byte adds its first number.  Mutant: numbers are counted from 0.
Scan_TooFew(S, limit) == {n \in S : Cardinality({m \in S : m <= n}) < limit}
Scan(S, limit) ==
    {n \in S : \/ Cardinality({m \in S : m <= n}) <= limit
               \/ \A m \in S : m < n => m \div ByteBits # n \div ByteBits}

\* The two loops of the scan, number by number: the one over the bits of a byte is left
\* when it has added a number and the limit is reached.
Left(taken, n, limit) ==
    Cardinality(taken) >= limit /\ \E m \in taken : m \div ByteBits = n \div ByteBits
ScanLoop(last, S, limit) ==
    LET Taken[n \in 0..last] ==
            IF n = 0 THEN {}
            ELSE IF n \in S /\ ~Left(Taken[n - 1], n, limit) THEN Taken[n - 1] \cup {n}
            ELSE Taken[n - 1]
    IN  Taken[last]

\* The SQL query: filters that it looks up under the endpoint's parameter names, of
\* which only "country" is also a name they were passed on by.
SqlFilters(r) == {f \in Filters(r) : f[1] \in Parameter}
SkillsOf(e) == {t[2] : t \in {u \in Tags[e] : u[1] = "skill"}}
\* The skills that the join leaves: all, or those that equal a lowered request skill.
Joined(e, r) ==
    IF r.skills = <<>>
    THEN SkillsOf(e)
    ELSE SkillsOf(e) \cap {Lower[r.skills[i]] : i \in DOMAIN r.skills}
\* Mutant: a posting with any of the skills is enough.
SqlRows_AnySkill(r) == {e \in Event : SqlFilters(r) \subseteq Tags[e] /\ Joined(e, r) # {}}
SqlRows(r) ==
    {e \in Event : /\ SqlFilters(r) \subseteq Tags[e]
                  /\ Joined(e, r) # {}
                  /\ Cardinality(Joined(e, r)) = Len(r.skills)}

----------------------------------------------------------------------------
\* The writers, as far as a search can see them.

\* next_index and add_posting of a row that has no number; POST /ingest passes no title.
\* Mutant: the number is the counter's value before its increment.
Publish_FromZero(e, by) ==
    /\ \A n \in DOMAIN idx : idx[n] # e
    /\ counter' = counter + 1
    /\ idx' = [n \in DOMAIN idx \cup {counter} |-> IF n = counter THEN e ELSE idx[n]]
    /\ bits' = [k \in Key |-> IF k \in KeysOf(e, by) THEN bits[k] \cup {counter} ELSE bits[k]]
    /\ untitled' = IF by = "ingest" THEN untitled \cup {counter} ELSE untitled
    /\ UNCHANGED <<scratch, author, search, faults>>
Publish(e, by) ==
    /\ \A n \in DOMAIN idx : idx[n] # e
    /\ counter' = counter + 1
    /\ idx' = [n \in DOMAIN idx \cup {counter'} |-> IF n = counter' THEN e ELSE idx[n]]
    /\ bits' = [k \in Key |-> IF k \in KeysOf(e, by) THEN bits[k] \cup {counter'} ELSE bits[k]]
    /\ untitled' = IF by = "ingest" THEN untitled \cup {counter'} ELSE untitled
    /\ UNCHANGED <<scratch, author, search, faults>>

\* Redis restarts empty; numbers start again at 1.
RedisLoss ==
    /\ faults < MaxFaults
    /\ faults' = faults + 1
    /\ counter' = 0
    /\ idx' = [n \in {} |-> 0]
    /\ bits' = NoBits
    /\ untitled' = {}
    /\ scratch' = {}
    /\ search' = [s \in Searcher |->
                    IF search[s].pc = "idle" THEN search[s]
                    ELSE [search[s] EXCEPT !.disturbed = @ \cup {"loss"}]]
    /\ UNCHANGED author

----------------------------------------------------------------------------
\* One search.

At(s, place) == search[s].pc = place
Asked(s) == search[s].request

Goto(s, place) == search' = [search EXCEPT ![s] = [@ EXCEPT !.pc = place]]

\* A request arrives; one without keys skips the index.
Begin(s) ==
    /\ At(s, "idle")
    /\ \E r \in Request :
          search' = [search EXCEPT ![s] =
                       [@ EXCEPT !.request = r,
                                 !.pc = CASE KeyCount(r) = 0 -> "sql"
                                          [] KeyCount(r) = 1 -> "count"
                                          [] OTHER -> "bitop",
                                 !.owed = {e \in {idx[n] : n \in DOMAIN idx} : Promised(e, r)}]]
    /\ UNCHANGED <<indexVars, scratch, author, faults>>

\* A search that has written bm:_result and not read it yet.
Exposed(s) == search[s].pc \in {"count", "get"} /\ KeyCount(Asked(s)) > 1

\* The numbers set in every bitstring of the request.
Anded(r) == {n \in 1..counter : \A k \in Keys(r) : n \in bits[k]}

\* Mutant: BITOP OR.
BitOp_Or(s) ==
    /\ At(s, "bitop")
    /\ scratch' = UNION {bits[k] : k \in Keys(Asked(s))}
    /\ author' = Asked(s)
    /\ search' = [t \in Searcher |->
                    IF t = s THEN [search[t] EXCEPT !.pc = "count"]
                    ELSE IF Exposed(t) THEN [search[t] EXCEPT !.disturbed = @ \cup {"search"}]
                    ELSE search[t]]
    /\ UNCHANGED <<indexVars, faults>>

\* BITOP AND bm:_result <key> ...
BitOp(s) ==
    /\ At(s, "bitop")
    /\ scratch' = Anded(Asked(s))
    /\ author' = Asked(s)
    /\ search' = [t \in Searcher |->
                    IF t = s THEN [search[t] EXCEPT !.pc = "count"]
                    ELSE IF Exposed(t) THEN [search[t] EXCEPT !.disturbed = @ \cup {"search"}]
                    ELSE search[t]]
    /\ UNCHANGED <<indexVars, faults>>

\* The key a search reads: its only one, or bm:_result.  Mutant: always bm:_result,
\* which a search for one key has not written.
ResultBits_Shared(s) == scratch
ResultBits(s) ==
    IF KeyCount(Asked(s)) = 1 THEN Anded(Asked(s)) ELSE scratch
ResultAuthor(s) == IF KeyCount(Asked(s)) = 1 THEN Asked(s) ELSE author

\* BITCOUNT: nothing set ends the search of the index.
BitCount(s) ==
    /\ At(s, "count")
    /\ Goto(s, IF ResultBits(s) = {} THEN "sql" ELSE "get")
    /\ UNCHANGED <<indexVars, scratch, author, faults>>

\* GET and the scan of what it returns.
Get(s) ==
    /\ At(s, "get")
    /\ search' = [search EXCEPT ![s] =
                    [@ EXCEPT !.pc = IF ResultBits(s) = {} THEN "sql" ELSE "fetch",
                              !.own = Scan(ResultBits(s), Asked(s).limit),
                              !.from = ResultAuthor(s)]]
    /\ UNCHANGED <<indexVars, scratch, author, faults>>

\* GET idx:<n> and HMGET meta:<n> for all numbers in one pipeline; a number without an
\* entry is dropped, a row without a title sends the search to Postgres once more.
Fetch(s) ==
    /\ At(s, "fetch")
    /\ LET own == search[s].own \cap DOMAIN idx
           found == {idx[n] : n \in own}
       IN  search' = [search EXCEPT ![s] =
                        [@ EXCEPT !.answer = found, !.own = {},
                                  !.pc = IF found = {} THEN "sql"
                                         ELSE IF own \cap untitled # {} THEN "backfill"
                                         ELSE "done"]]
    /\ UNCHANGED <<indexVars, scratch, author, faults>>

\* The titles of rows that the index has without one.
Backfill(s) ==
    /\ At(s, "backfill")
    /\ Goto(s, "done")
    /\ UNCHANGED <<indexVars, scratch, author, faults>>

\* "except Exception: pass": whatever raises, the SQL query answers; after a failed
\* backfill it runs in an aborted transaction.
CallFails(s) ==
    /\ search[s].pc \in {"bitop", "count", "get", "fetch", "backfill"}
    /\ faults < MaxFaults
    /\ faults' = faults + 1
    /\ search' = [search EXCEPT ![s] =
                    [@ EXCEPT !.pc = "sql", !.answer = {}, !.aborted = At(s, "backfill"),
                              !.disturbed = search[s].disturbed \cup {"failure"}]]
    /\ UNCHANGED <<indexVars, scratch, author>>

\* The fallback.  Its order is by posted_at, so any rows may be within the limit.
Sql(s) ==
    /\ At(s, "sql")
    /\ IF search[s].aborted
       THEN Goto(s, "error")
       ELSE \E found \in SUBSET SqlRows(Asked(s)) :
              /\ \/ found = SqlRows(Asked(s)) /\ Cardinality(found) <= Asked(s).limit
                 \/ Cardinality(found) = Asked(s).limit
              /\ search' = [search EXCEPT ![s] =
                              [@ EXCEPT !.pc = "done", !.answer = found,
                                        !.method = "postgres_btree"]]
    /\ UNCHANGED <<indexVars, scratch, author, faults>>

\* The response is sent.
Respond(s) ==
    /\ search[s].pc \in {"done", "error"}
    /\ search' = [search EXCEPT ![s] = Resting]
    /\ UNCHANGED <<indexVars, scratch, author, faults>>

----------------------------------------------------------------------------
Init ==
    /\ counter = 0
    /\ idx = [n \in {} |-> 0]
    /\ bits = NoBits
    /\ untitled = {}
    /\ scratch = {}
    /\ author = NoRequest
    /\ search = [s \in Searcher |-> Resting]
    /\ faults = 0

SearchStep(s) ==
    \/ BitOp(s)
    \/ BitCount(s)
    \/ Get(s)
    \/ Fetch(s)
    \/ Backfill(s)
    \/ Sql(s)

Next ==
    \/ \E e \in Event, by \in Writer : Publish(e, by)
    \/ RedisLoss
    \/ \E s \in Searcher : Begin(s) \/ SearchStep(s) \/ CallFails(s) \/ Respond(s)

Spec == Init /\ [][Next]_vars

----------------------------------------------------------------------------
TypeOK ==
    /\ counter \in Nat
    /\ DOMAIN idx \subseteq 1..counter
    /\ idx \in [DOMAIN idx -> Event]
    /\ bits \in [Key -> SUBSET (1..counter)]
    /\ untitled \subseteq DOMAIN idx
    /\ scratch \subseteq Nat
    /\ author \in Request \cup {NoRequest}
    /\ search \in [Searcher -> Progress]
    /\ faults \in 0..MaxFaults

\* A search that the index answered.
ByIndex(s) == At(s, "done") /\ search[s].method = "redis_bitmap"

\* A search that no other search's BITOP overtook between its own BITOP and its GET,
\* and that kept its Redis, returns rows that match all of its keys (RESULT_KEY).
UndisturbedAnswersMatch ==
    \A s \in Searcher :
        ByIndex(s) /\ search[s].disturbed \cap {"search", "loss"} = {}
            => \A e \in search[s].answer : Matches(e, Asked(s))

\* One that was overtaken returns rows of the other search, never a mixture: as long
\* as Redis kept its data, an answer is that of one request (BITOP and GET are atomic).
AnswerOfOneSearch ==
    \A s \in Searcher :
        ByIndex(s) /\ "loss" \notin search[s].disturbed
            => \A e \in search[s].answer : Matches(e, search[s].from)

\* An undisturbed search finds every row that was indexed when it began and has the keys
\* asked for among those that every writer sets, up to its limit, and leaves the answer to
\* SQL only when there was none.  Nothing is promised of a search for a pseudo-country or
\* an unknown value: it finds the rows of POST /ingest at most (bitmap.py:229).
UndisturbedSearchComplete ==
    \A s \in Searcher :
        At(s, "done") /\ search[s].disturbed = {} =>
            IF search[s].method = "redis_bitmap"
            THEN \/ search[s].owed \subseteq search[s].answer
                 \/ Cardinality(search[s].answer) >= Asked(s).limit
            ELSE search[s].owed = {}

\* The loops of bitmap.py:112-123 collect what Scan says: the numbers of the limit, and
\* one more for each byte after that which has any.
ScanMeetsLoop ==
    Init =>
        \A S \in SUBSET (1..MaxScan) : \A limit \in 0..MaxScan :
            Scan(S, limit) = ScanLoop(MaxScan, S, limit)

\* What the fallback's rows are, by what they store: they have a skill spelt as each
\* requested one in lower case, no two of which are the same, and the country as asked.
Stored(r) ==
    {e \in Event :
        /\ r.skills # <<>>
        /\ \A i \in DOMAIN r.skills :
              /\ <<"skill", Lower[r.skills[i]]>> \in Tags[e]
              /\ \A j \in DOMAIN r.skills : Lower[r.skills[i]] = Lower[r.skills[j]] => i = j
        /\ \A f \in r.filters : f[1] = "country" => f \in Tags[e]}

\* A request for skills, each once, and at most a country, whose values no row stores in
\* another spelling than SQL compares them in.
Spelt(r) ==
    /\ r.skills # <<>>
    /\ \A i, j \in DOMAIN r.skills : Lower[r.skills[i]] = Lower[r.skills[j]] => i = j
    /\ \A f \in r.filters : f[1] = "country"
    /\ \A e \in Event : \A t \in Tags[e] :
          /\ t[1] = "skill" /\ (\E i \in DOMAIN r.skills : Lower[r.skills[i]] = Lower[t[2]])
                => t[2] = Lower[t[2]]
          /\ \A f \in r.filters : t[1] = f[1] /\ Lower[t[2]] = Lower[f[2]] => t = f

\* A fallback that answers gives all rows stored as SQL compares them, up to its limit, and
\* no others: seniority and company size make no difference, and a skill that is stored with
\* a capital is never found.  It gives what was asked for when the request is Spelt.
FallbackAnswers ==
    \A s \in Searcher :
        LET r == Asked(s)
            answer == search[s].answer
        IN  At(s, "done") /\ search[s].method = "postgres_btree" =>
                /\ answer \subseteq Stored(r)
                /\ Stored(r) \subseteq answer \/ Cardinality(answer) = r.limit
                /\ Spelt(r) => Stored(r) = {e \in Event : Matches(e, r)}

=============================================================================
