------------------------- MODULE BitmapSearchProofs -------------------------
(***************************************************************************)
(* Theorems about BitmapSearch for every set of postings and requests, any *)
(* number of concurrent searches and any number of faults.                 *)
(***************************************************************************)
EXTENDS BitmapSearch, FiniteSetTheorems, NaturalLemmas, TLAPS

Asking == Request \cup {NoRequest}

LEMMA RequestFacts ==
    ASSUME NEW r \in Request
    PROVE  /\ r.skills \in Seq(Value) /\ r.limit \in Nat
           /\ r.filters \subseteq Parameter \X Value
           /\ KeyCount(r) \in Nat
           /\ Filters(r) \subseteq Key
           /\ Keys(r) \subseteq Key
<1>1. r.skills \in Seq(Value) /\ r.limit \in Nat /\ r.filters \subseteq Parameter \X Value
      /\ IsFiniteSet(r.filters)
  BY RequestAssumption
<1>2. KeyCount(r) \in Nat
  BY <1>1, FS_CardinalityType DEF KeyCount
<1>3. \A f \in r.filters : f[1] \in Parameter /\ f[2] \in Value
  BY <1>1
<1>4. \A p \in Parameter : RequestName[p] \in Field
  BY DEF Parameter, RequestName, Field
<1>5. Filters(r) \subseteq Key
  BY <1>3, <1>4 DEF Filters, Key
<1>6. \A i \in DOMAIN r.skills : <<"skill", Lower[r.skills[i]]>> \in Key
  BY <1>1, ValueAssumption DEF Key, Field
<1>7. \A f \in Filters(r) : <<f[1], Lower[f[2]]>> \in Key
  BY <1>5, ValueAssumption DEF Key
<1>8. Keys(r) \subseteq Key
  BY <1>6, <1>7 DEF Keys
<1> QED
  BY <1>1, <1>2, <1>5, <1>8

\* What a writer sets are keys of the row's values, and the pipeline's are all set by both.
LEMMA KeysOfType ==
    \A e \in Event : \A by \in Writer :
        /\ Values(e) \subseteq Key
        /\ KeysOf(e, by) \subseteq Values(e)
        /\ KeysOf(e, "pipeline") \subseteq KeysOf(e, by)
<1>1. \A e \in Event : Values(e) \subseteq Key
  BY ValueAssumption DEF Values, Key
<1>2. \A e \in Event : \A by \in Writer : KeysOf(e, by) \subseteq Values(e)
  BY DEF KeysOf, Values
<1>3. \A by \in Writer : LeftOut(by) \subseteq LeftOut("pipeline")
  BY DEF LeftOut, Writer
<1>4. \A e \in Event : \A by \in Writer : KeysOf(e, "pipeline") \subseteq KeysOf(e, by)
  BY <1>3 DEF KeysOf
<1> QED
  BY <1>1, <1>2, <1>4

LEMMA RestingType == Resting \in Progress
  BY DEF Resting, Progress, Place

----------------------------------------------------------------------------
LEMMA TypeInit == Init => TypeOK
<1> SUFFICES ASSUME Init PROVE TypeOK
  OBVIOUS
<1>1. search \in [Searcher -> Progress]
  BY RestingType DEF Init
<1>2. bits \in [Key -> SUBSET (1..counter)]
  BY DEF Init, NoBits
<1>3. DOMAIN idx = {} /\ idx \in [DOMAIN idx -> Event] /\ untitled = {}
  BY DEF Init
<1> QED
  BY <1>1, <1>2, <1>3, BoundAssumption DEF Init, TypeOK

LEMMA PublishType ==
    ASSUME TypeOK, NEW e \in Event, NEW by \in Writer, Publish(e, by)
    PROVE  /\ TypeOK'
           /\ counter' = counter + 1 /\ counter \in Nat
           /\ DOMAIN idx' = DOMAIN idx \cup {counter'}
           /\ \A n \in DOMAIN idx : idx'[n] = idx[n] /\ n # counter'
           /\ idx'[counter'] = e
           /\ \A k \in Key : bits'[k] = IF k \in KeysOf(e, by) THEN bits[k] \cup {counter'}
                                                              ELSE bits[k]
           /\ UNCHANGED <<scratch, author, search, faults>>
<1>1. counter' = counter + 1 /\ counter \in Nat /\ DOMAIN idx \subseteq 1..counter
  BY DEF Publish, TypeOK
<1>2. idx' = [n \in DOMAIN idx \cup {counter'} |-> IF n = counter' THEN e ELSE idx[n]]
  BY DEF Publish
<1>3. \A n \in DOMAIN idx : idx'[n] = idx[n] /\ n # counter'
  BY <1>1, <1>2
<1>4. DOMAIN idx' = DOMAIN idx \cup {counter'} /\ idx'[counter'] = e
  BY <1>2
<1>5. \A n \in DOMAIN idx' : idx'[n] \in Event
  BY <1>3, <1>4 DEF TypeOK
<1>6. idx' \in [DOMAIN idx' -> Event] /\ DOMAIN idx' \subseteq 1..counter'
  BY <1>1, <1>2, <1>4, <1>5
<1>7. \A k \in Key : bits'[k] = IF k \in KeysOf(e, by) THEN bits[k] \cup {counter'} ELSE bits[k]
  BY DEF Publish
<1>8. bits' \in [Key -> SUBSET (1..counter')]
  <2>1. \A k \in Key : bits[k] \subseteq 1..counter
    BY DEF TypeOK
  <2>2. counter' \in 1..counter' /\ 1..counter \subseteq 1..counter'
    BY <1>1
  <2>3. \A k \in Key : bits'[k] \subseteq 1..counter'
    BY <1>7, <2>1, <2>2
  <2> QED
    BY <2>3 DEF Publish
<1>9. UNCHANGED <<scratch, author, search, faults>>
  BY DEF Publish
<1>10. untitled' \subseteq DOMAIN idx'
  BY <1>4 DEF Publish, TypeOK
<1> QED
  BY <1>1, <1>3, <1>4, <1>6, <1>7, <1>8, <1>9, <1>10 DEF TypeOK

\* Every kind of step of a search gives its record a value of the type.
LEMMA SearchType ==
    ASSUME TypeOK, NEW s \in Searcher, NEW t \in Progress,
           search' = [search EXCEPT ![s] = t],
           UNCHANGED <<indexVars, scratch, author>>, faults' \in 0..MaxFaults
    PROVE  TypeOK'
  BY DEF TypeOK, indexVars

LEMMA GotoType ==
    ASSUME TypeOK, NEW s \in Searcher, NEW p \in Place
    PROVE  [search[s] EXCEPT !.pc = p] \in Progress
  BY DEF TypeOK, Progress

LEMMA ScanPart == \A S, limit : Scan(S, limit) \subseteq S
  BY DEF Scan

LEMMA TypeNext == TypeOK /\ [Next]_vars => TypeOK'
<1> SUFFICES ASSUME TypeOK, [Next]_vars PROVE TypeOK'
  OBVIOUS
<1>1. ASSUME NEW e \in Event, NEW by \in Writer, Publish(e, by)
      PROVE  TypeOK'
  BY <1>1, PublishType
<1>2. CASE RedisLoss
  <2>1. ASSUME NEW s \in Searcher
        PROVE  search'[s] \in Progress
    <3>1. search[s] \in Progress
      BY DEF TypeOK
    <3>2. [search[s] EXCEPT !.disturbed = @ \cup {"loss"}] \in Progress
      BY <3>1 DEF Progress
    <3> QED
      BY <1>2, <3>1, <3>2 DEF RedisLoss
  <2>2. search' \in [Searcher -> Progress]
    BY <1>2, <2>1 DEF RedisLoss
  <2>3. bits' \in [Key -> SUBSET (1..counter')]
    BY <1>2 DEF RedisLoss, NoBits
  <2>4. DOMAIN idx' = {} /\ idx' \in [DOMAIN idx' -> Event] /\ untitled' = {}
    BY <1>2 DEF RedisLoss
  <2> QED
    BY <1>2, <2>2, <2>3, <2>4, BoundAssumption DEF RedisLoss, TypeOK
<1>3. ASSUME NEW s \in Searcher, Begin(s)
      PROVE  TypeOK'
  <2>1. PICK r \in Request :
          search' = [search EXCEPT ![s] =
                       [@ EXCEPT !.request = r,
                                 !.pc = CASE KeyCount(r) = 0 -> "sql"
                                          [] KeyCount(r) = 1 -> "count"
                                          [] OTHER -> "bitop",
                                 !.owed = {e \in {idx[n] : n \in DOMAIN idx} : Promised(e, r)}]]
    BY <1>3 DEF Begin
  <2> DEFINE place == CASE KeyCount(r) = 0 -> "sql"
                        [] KeyCount(r) = 1 -> "count"
                        [] OTHER -> "bitop"
             owed == {e \in {idx[n] : n \in DOMAIN idx} : Promised(e, r)}
  <2>2. place \in Place
    BY DEF Place
  <2>3. owed \in SUBSET Event
    BY DEF TypeOK
  <2>6. search[s] \in Progress
    BY DEF TypeOK
  <2> HIDE DEF place, owed
  <2>4. [search[s] EXCEPT !.request = r, !.pc = place, !.owed = owed] \in Progress
    BY <2>2, <2>3, <2>6 DEF Progress
  <2>5. search' = [search EXCEPT ![s] =
                     [search[s] EXCEPT !.request = r, !.pc = place, !.owed = owed]]
    BY <2>1 DEF place, owed, TypeOK
  <2> QED
    BY <1>3, <2>4, <2>5, SearchType DEF Begin, TypeOK
<1>4. ASSUME NEW s \in Searcher, BitOp(s)
      PROVE  TypeOK'
  <2>1. ASSUME NEW t \in Searcher
        PROVE  search'[t] \in Progress
    <3>1. search[t] \in Progress
      BY DEF TypeOK
    <3>2. [search[t] EXCEPT !.disturbed = @ \cup {"search"}] \in Progress
      BY <3>1 DEF Progress
    <3>3. [search[t] EXCEPT !.pc = "count"] \in Progress
      BY <3>1 DEF Progress, Place
    <3> QED
      BY <1>4, <3>1, <3>2, <3>3 DEF BitOp
  <2>2. search' \in [Searcher -> Progress]
    BY <1>4, <2>1 DEF BitOp
  <2>3. Asked(s) \in Asking /\ Anded(Asked(s)) \subseteq Nat
    BY DEF TypeOK, Progress, Asked, Asking, Anded
  <2> QED
    BY <1>4, <2>2, <2>3 DEF BitOp, TypeOK, Asking, indexVars
<1>5. ASSUME NEW s \in Searcher, BitCount(s) \/ Backfill(s)
      PROVE  TypeOK'
  <2>1. PICK p \in Place : Goto(s, p)
    BY <1>5 DEF BitCount, Backfill, Place
  <2>2. search' = [search EXCEPT ![s] = [search[s] EXCEPT !.pc = p]]
    BY <2>1 DEF Goto, TypeOK
  <2> QED
    BY <1>5, <2>2, GotoType, SearchType DEF BitCount, Backfill, TypeOK
<1>6. ASSUME NEW s \in Searcher, Get(s)
      PROVE  TypeOK'
  <2> DEFINE place == IF ResultBits(s) = {} THEN "sql" ELSE "fetch"
             own == Scan(ResultBits(s), Asked(s).limit)
             from == ResultAuthor(s)
  <2>1. ResultBits(s) \subseteq Nat
    BY DEF TypeOK, ResultBits, Anded
  <2>2. own \subseteq Nat
    BY <2>1, ScanPart
  <2>3. from \in Asking /\ place \in Place
    BY DEF TypeOK, Progress, ResultAuthor, Asked, Asking, Place
  <2>4. search' = [search EXCEPT ![s] =
                     [search[s] EXCEPT !.pc = place, !.own = own, !.from = from]]
    BY <1>6 DEF Get, TypeOK
  <2> HIDE DEF place, own, from
  <2>5. [search[s] EXCEPT !.pc = place, !.own = own, !.from = from] \in Progress
    BY <2>2, <2>3 DEF TypeOK, Progress, Asking
  <2> QED
    BY <1>6, <2>4, <2>5, SearchType DEF Get, TypeOK
<1>7. ASSUME NEW s \in Searcher, Fetch(s)
      PROVE  TypeOK'
  <2> DEFINE own == search[s].own \cap DOMAIN idx
             found == {idx[n] : n \in own}
             place == IF found = {} THEN "sql"
                      ELSE IF own \cap untitled # {} THEN "backfill" ELSE "done"
  <2>1. found \in SUBSET Event
    BY DEF TypeOK
  <2>2. place \in Place
    BY DEF Place
  <2>3. search' = [search EXCEPT ![s] =
                     [search[s] EXCEPT !.answer = found, !.own = {}, !.pc = place]]
    BY <1>7 DEF Fetch, TypeOK
  <2>5. search[s] \in Progress
    BY DEF TypeOK
  <2> HIDE DEF place, found
  <2>4. [search[s] EXCEPT !.answer = found, !.own = {}, !.pc = place] \in Progress
    BY <2>1, <2>2, <2>5 DEF Progress
  <2> QED
    BY <1>7, <2>3, <2>4, SearchType DEF Fetch, TypeOK
<1>8. ASSUME NEW s \in Searcher, CallFails(s)
      PROVE  TypeOK'
  <2> DEFINE aborted == At(s, "backfill")
             disturbed == search[s].disturbed \cup {"failure"}
  <2>1. search' = [search EXCEPT ![s] =
                     [search[s] EXCEPT !.pc = "sql", !.answer = {}, !.aborted = aborted,
                                       !.disturbed = disturbed]]
    BY <1>8 DEF CallFails, TypeOK
  <2>2. aborted \in BOOLEAN
    BY DEF At
  <2>3. disturbed \in SUBSET {"search", "loss", "failure"}
    BY DEF TypeOK, Progress
  <2>6. search[s] \in Progress
    BY DEF TypeOK
  <2> HIDE DEF aborted, disturbed
  <2>4. [search[s] EXCEPT !.pc = "sql", !.answer = {}, !.aborted = aborted,
                          !.disturbed = disturbed] \in Progress
    BY <2>2, <2>3, <2>6 DEF Progress, Place
  <2>5. faults' \in 0..MaxFaults
    BY <1>8, BoundAssumption DEF CallFails, TypeOK
  <2> QED
    BY <1>8, <2>1, <2>4, <2>5, SearchType DEF CallFails
<1>9. ASSUME NEW s \in Searcher, Sql(s)
      PROVE  TypeOK'
  <2>1. CASE search[s].aborted
    <3>1. search' = [search EXCEPT ![s] = [search[s] EXCEPT !.pc = "error"]] /\ "error" \in Place
      BY <1>9, <2>1 DEF Sql, Goto, TypeOK, Place
    <3> QED
      BY <1>9, <3>1, GotoType, SearchType DEF Sql, TypeOK
  <2>2. CASE ~search[s].aborted
    <3>1. PICK found \in SUBSET SqlRows(Asked(s)) :
            search' = [search EXCEPT ![s] =
                         [@ EXCEPT !.pc = "done", !.answer = found,
                                   !.method = "postgres_btree"]]
      BY <1>9, <2>2 DEF Sql
    <3>2. found \in SUBSET Event
      BY DEF SqlRows
    <3>3. [search[s] EXCEPT !.pc = "done", !.answer = found, !.method = "postgres_btree"]
             \in Progress
      <4>1. search[s] \in Progress
        BY DEF TypeOK
      <4> QED
        BY <3>2, <4>1 DEF Progress, Place
    <3>4. search' = [search EXCEPT ![s] =
                       [search[s] EXCEPT !.pc = "done", !.answer = found,
                                         !.method = "postgres_btree"]]
      BY <3>1 DEF TypeOK
    <3> QED
      BY <1>9, <3>3, <3>4, SearchType DEF Sql, TypeOK
  <2> QED
    BY <2>1, <2>2
<1>10. ASSUME NEW s \in Searcher, Respond(s)
       PROVE  TypeOK'
  BY <1>10, RestingType, SearchType DEF Respond, TypeOK
<1>11. CASE UNCHANGED vars
  BY <1>11 DEF vars, indexVars, TypeOK
<1> QED
  BY <1>1, <1>2, <1>3, <1>4, <1>5, <1>6, <1>7, <1>8, <1>9, <1>10, <1>11 DEF Next, SearchStep

\* Type correctness: numbers, answers and places of every search, with any interleaving.
THEOREM TypeCorrect == Spec => []TypeOK
BY TypeInit, TypeNext, PTL DEF Spec

----------------------------------------------------------------------------
\* A number stands in the bits of a key only if the row behind it has the value, and all
\* numbers of bm:_result answer the request that wrote it.
IndexInv ==
    /\ \A n \in DOMAIN idx : \A k \in Key : n \in bits[k] => k \in Values(idx[n])
    /\ scratch \subseteq 1..counter
    /\ \A n \in scratch \cap DOMAIN idx : Matches(idx[n], author)

Kept(t) == "loss" \notin t.disturbed
Undisturbed(t) == t.disturbed \cap {"search", "loss"} = {}
Answering(t) == t.pc \in {"fetch", "backfill", "done"} /\ t.method = "redis_bitmap"

\* What a search t knows.  Its request and its place:
PlaceInv(t) ==
    /\ t.pc # "idle" => t.request \in Request
    /\ t.pc \in {"bitop", "count", "get"} => KeyCount(t.request) # 0
    /\ t.method = "postgres_btree" => t.pc = "done"
\* what it may read is its own, unless it was overtaken;
AuthorInv(t) ==
    /\ t.pc \in {"count", "get"} /\ KeyCount(t.request) > 1 /\ "search" \notin t.disturbed
          => author = t.request
    /\ Answering(t) /\ Undisturbed(t) => t.from = t.request
\* and what it has read answers one request, in numbers and then in rows.
AnswerInv(t) ==
    /\ t.pc = "fetch" /\ Kept(t) =>
          /\ t.own \subseteq 1..counter
          /\ \A n \in t.own \cap DOMAIN idx : Matches(idx[n], t.from)
    /\ t.pc \in {"backfill", "done"} /\ t.method = "redis_bitmap" /\ Kept(t) =>
          \A e \in t.answer : Matches(e, t.from)
SqlInv(t) ==
    t.pc = "done" /\ t.method = "postgres_btree" =>
        /\ t.answer \subseteq SqlRows(t.request)
        /\ SqlRows(t.request) \subseteq t.answer \/ Cardinality(t.answer) = t.request.limit

SearchInv ==
    \A s \in Searcher : /\ PlaceInv(search[s]) /\ AuthorInv(search[s])
                        /\ AnswerInv(search[s]) /\ SqlInv(search[s])
IInv == TypeOK /\ IndexInv /\ SearchInv

LEMMA AndedMatches ==
    ASSUME IInv, NEW r \in Request, NEW n \in Anded(r) \cap DOMAIN idx
    PROVE  Matches(idx[n], r)
<1>1. Keys(r) \subseteq Key
  BY RequestFacts
<1> QED
  BY <1>1 DEF IInv, IndexInv, Anded, Matches

LEMMA InvInit == Init => IInv
<1> SUFFICES ASSUME Init PROVE IInv
  OBVIOUS
<1>1. \A s \in Searcher : search[s] = Resting
  BY DEF Init
<1>2. SearchInv
  BY <1>1 DEF SearchInv, PlaceInv, AuthorInv, AnswerInv, SqlInv, Answering, Resting
<1>3. IndexInv
  BY DEF Init, IndexInv
<1> QED
  BY <1>2, <1>3, TypeInit DEF IInv

LEMMA PublishInv ==
    ASSUME IInv, NEW e \in Event, NEW by \in Writer, Publish(e, by)
    PROVE  IndexInv' /\ SearchInv'
<1>1. /\ counter' = counter + 1 /\ counter \in Nat
      /\ DOMAIN idx' = DOMAIN idx \cup {counter'}
      /\ \A n \in DOMAIN idx : idx'[n] = idx[n] /\ n # counter'
      /\ idx'[counter'] = e
      /\ \A k \in Key : bits'[k] = IF k \in KeysOf(e, by) THEN bits[k] \cup {counter'} ELSE bits[k]
      /\ UNCHANGED <<scratch, author, search>>
  BY PublishType DEF IInv
<1>2. \A n \in 1..counter : n # counter' /\ n \in 1..counter'
  BY <1>1
<1>3. \A k \in Key : counter' \notin bits[k]
  BY <1>2 DEF IInv, TypeOK
<1>4. ASSUME NEW n \in DOMAIN idx', NEW k \in Key, n \in bits'[k]
      PROVE  k \in Values(idx'[n])
  <2>1. CASE n = counter'
    BY <1>1, <1>3, <1>4, <2>1, KeysOfType
  <2>2. CASE n # counter'
    <3>1. n \in DOMAIN idx /\ n \in bits[k]
      BY <1>1, <1>4, <2>2
    <3> QED
      BY <1>1, <3>1 DEF IInv, IndexInv
  <2> QED
    BY <2>1, <2>2
<1>5. scratch' \subseteq 1..counter'
  BY <1>1, <1>2 DEF IInv, IndexInv
<1>6. \A n \in 1..counter : n \in DOMAIN idx' => n \in DOMAIN idx /\ idx'[n] = idx[n]
  BY <1>1, <1>2
<1>7. \A n \in scratch' \cap DOMAIN idx' : Matches(idx'[n], author')
  BY <1>1, <1>6 DEF IInv, IndexInv
<1>8. ASSUME NEW s \in Searcher
      PROVE  AnswerInv(search[s])'
  <2>1. AnswerInv(search[s])
    BY DEF IInv, SearchInv
  <2> QED
    BY <1>1, <1>2, <1>6, <2>1 DEF AnswerInv, Kept
<1>9. SearchInv'
  BY <1>1, <1>8 DEF IInv, SearchInv, PlaceInv, AuthorInv, SqlInv, Answering, Undisturbed
<1> QED
  BY <1>4, <1>5, <1>7, <1>9 DEF IndexInv

LEMMA LossInv ==
    ASSUME IInv, RedisLoss
    PROVE  IndexInv' /\ SearchInv'
<1>1. DOMAIN idx' = {} /\ scratch' = {} /\ author' = author
  BY DEF RedisLoss
<1>2. IndexInv'
  BY <1>1 DEF IndexInv
<1>3. ASSUME NEW s \in Searcher
      PROVE  /\ PlaceInv(search'[s]) /\ AuthorInv(search[s])' /\ AnswerInv(search[s])'
             /\ SqlInv(search'[s])
  <2>0. /\ search[s] \in Progress /\ PlaceInv(search[s]) /\ AuthorInv(search[s])
        /\ SqlInv(search[s])
    BY DEF IInv, SearchInv, TypeOK
  <2>1. CASE search[s].pc = "idle"
    <3>1. search'[s] = search[s]
      BY <2>1 DEF RedisLoss
    <3> QED
      BY <2>0, <2>1, <3>1 DEF PlaceInv, AuthorInv, AnswerInv, SqlInv, Answering
  <2>2. CASE search[s].pc # "idle"
    <3>1. search'[s] = [search[s] EXCEPT !.disturbed = @ \cup {"loss"}]
      BY <2>2 DEF RedisLoss
    <3>2. /\ search'[s].pc = search[s].pc /\ search'[s].request = search[s].request
          /\ search'[s].method = search[s].method /\ search'[s].answer = search[s].answer
          /\ search'[s].disturbed = search[s].disturbed \cup {"loss"}
      BY <2>0, <3>1 DEF Progress
    <3> QED
      BY <1>1, <2>0, <3>2 DEF PlaceInv, AuthorInv, AnswerInv, SqlInv, Answering, Kept,
         Undisturbed
  <2> QED
    BY <2>1, <2>2
<1>4. SearchInv'
  BY <1>3 DEF SearchInv, PlaceInv, SqlInv
<1> QED
  BY <1>2, <1>4

\* A step of search s that leaves the index and bm:_result alone changes nothing for the
\* other searches.
LEMMA OwnStep ==
    ASSUME IInv, NEW s \in Searcher, UNCHANGED <<indexVars, scratch, author>>,
           \A u \in Searcher \ {s} : search'[u] = search[u],
           PlaceInv(search'[s]), AuthorInv(search[s])', AnswerInv(search[s])', SqlInv(search'[s])
    PROVE  IndexInv' /\ SearchInv'
<1>1. IndexInv'
  BY DEF IInv, IndexInv, indexVars, Matches
<1>2. ASSUME NEW u \in Searcher \ {s}
      PROVE  /\ PlaceInv(search'[u]) /\ AuthorInv(search[u])' /\ AnswerInv(search[u])'
             /\ SqlInv(search'[u])
  BY <1>2 DEF IInv, SearchInv, PlaceInv, AuthorInv, AnswerInv, SqlInv, indexVars, Matches,
     Answering, Undisturbed, Kept
<1>3. SearchInv'
  BY <1>2 DEF SearchInv, PlaceInv, SqlInv
<1> QED
  BY <1>1, <1>3

\* The record of a search after its own step.
LEMMA Stepped ==
    ASSUME IInv, NEW s \in Searcher, NEW t, search' = [search EXCEPT ![s] = t]
    PROVE  search'[s] = t /\ \A u \in Searcher \ {s} : search'[u] = search[u]
  BY DEF IInv, TypeOK

LEMMA OwnInv ==
    ASSUME IInv, NEW s \in Searcher
    PROVE  /\ search[s] \in Progress /\ PlaceInv(search[s]) /\ AuthorInv(search[s])
           /\ AnswerInv(search[s]) /\ SqlInv(search[s])
           /\ search = [search EXCEPT ![s] = search[s]]
  BY DEF IInv, SearchInv, TypeOK

LEMMA BeginInv ==
    ASSUME IInv, NEW s \in Searcher, Begin(s)
    PROVE  IndexInv' /\ SearchInv'
<1>1. PICK r \in Request :
        search' = [search EXCEPT ![s] =
                     [@ EXCEPT !.request = r,
                               !.pc = CASE KeyCount(r) = 0 -> "sql"
                                        [] KeyCount(r) = 1 -> "count"
                                        [] OTHER -> "bitop",
                               !.owed = {e \in {idx[n] : n \in DOMAIN idx} : Promised(e, r)}]]
  BY DEF Begin
<1>2. KeyCount(r) \in Nat
  BY RequestFacts
<1>3. /\ search'[s].request = r /\ search'[s].method = search[s].method
      /\ search'[s].pc = CASE KeyCount(r) = 0 -> "sql"
                           [] KeyCount(r) = 1 -> "count"
                           [] OTHER -> "bitop"
      /\ \A u \in Searcher \ {s} : search'[u] = search[u]
  BY <1>1, OwnInv DEF IInv, TypeOK, Progress
<1>4. /\ search'[s].pc \in {"sql", "count", "bitop"}
      /\ search'[s].pc # "sql" => KeyCount(r) # 0
      /\ search'[s].pc = "count" => KeyCount(r) = 1
  BY <1>2, <1>3
<1>5. search[s].pc = "idle" /\ UNCHANGED <<indexVars, scratch, author>>
  BY DEF Begin, At
<1>6. search[s].method # "postgres_btree"
  BY <1>5, OwnInv DEF PlaceInv
<1>7. PlaceInv(search'[s]) /\ AuthorInv(search[s])' /\ AnswerInv(search[s])' /\ SqlInv(search'[s])
  BY <1>3, <1>4, <1>6 DEF PlaceInv, AuthorInv, AnswerInv, SqlInv, Answering
<1> QED
  BY <1>3, <1>5, <1>7, OwnStep

LEMMA BitOpInv ==
    ASSUME IInv, NEW s \in Searcher, BitOp(s)
    PROVE  IndexInv' /\ SearchInv'
<1> DEFINE r == Asked(s)
<1>1. search[s].pc = "bitop" /\ r = search[s].request /\ r \in Request
  BY OwnInv DEF BitOp, At, Asked, PlaceInv
<1>2. scratch' = Anded(r) /\ author' = r /\ UNCHANGED indexVars
  BY DEF BitOp
<1>3. \A n \in Anded(r) \cap DOMAIN idx : Matches(idx[n], r)
  BY <1>1, AndedMatches
<1>4. IndexInv'
  BY <1>2, <1>3 DEF IInv, IndexInv, Anded, indexVars, Matches
<1>5. ASSUME NEW u \in Searcher
      PROVE  /\ PlaceInv(search'[u]) /\ AuthorInv(search[u])' /\ AnswerInv(search[u])'
             /\ SqlInv(search'[u])
  <2>0. /\ search[u] \in Progress /\ PlaceInv(search[u]) /\ AuthorInv(search[u])
        /\ AnswerInv(search[u]) /\ SqlInv(search[u])
    BY OwnInv
  <2>1. CASE u = s
    <3>1. /\ search'[s].pc = "count" /\ search'[s].request = r
          /\ search'[s].method = search[s].method
      BY <1>1, <2>0, <2>1 DEF BitOp, Progress
    <3> QED
      BY <1>1, <1>2, <2>0, <2>1, <3>1 DEF PlaceInv, AuthorInv, AnswerInv, SqlInv, Answering
  <2>2. CASE u # s /\ Exposed(u)
    <3>1. search'[u] = [search[u] EXCEPT !.disturbed = @ \cup {"search"}]
      BY <2>2 DEF BitOp
    <3>2. /\ search'[u].pc = search[u].pc /\ search'[u].request = search[u].request
          /\ search'[u].method = search[u].method /\ "search" \in search'[u].disturbed
      BY <2>0, <3>1 DEF Progress
    <3>3. search[u].pc \in {"count", "get"}
      BY <2>2 DEF Exposed
    <3> QED
      BY <2>0, <3>2, <3>3 DEF PlaceInv, AuthorInv, AnswerInv, SqlInv, Answering
  <2>3. CASE u # s /\ ~Exposed(u)
    <3>1. search'[u] = search[u]
      BY <2>3 DEF BitOp
    <3>2. AuthorInv(search[u])'
      BY <2>0, <2>3, <3>1 DEF AuthorInv, Exposed, Asked, Answering, Undisturbed
    <3>3. AnswerInv(search[u])'
      BY <1>2, <2>0, <3>1 DEF AnswerInv, indexVars, Matches, Kept
    <3> QED
      BY <2>0, <3>1, <3>2, <3>3
  <2> QED
    BY <2>1, <2>2, <2>3
<1>6. SearchInv'
  BY <1>5 DEF SearchInv, PlaceInv, SqlInv
<1> QED
  BY <1>4, <1>6

\* BITCOUNT and the backfill only move on.
LEMMA GotoInv ==
    ASSUME IInv, NEW s \in Searcher, BitCount(s) \/ Backfill(s)
    PROVE  IndexInv' /\ SearchInv'
<1>1. \/ search[s].pc = "count" /\ Goto(s, "sql")
      \/ search[s].pc = "count" /\ Goto(s, "get")
      \/ search[s].pc = "backfill" /\ Goto(s, "done")
  BY DEF BitCount, Backfill, At
<1>2. PICK p \in {"sql", "get", "done"} :
         /\ Goto(s, p)
         /\ p = "done" => search[s].pc = "backfill"
         /\ p # "done" => search[s].pc = "count"
  BY <1>1
<1>3. search'[s] = [search[s] EXCEPT !.pc = p] /\ \A u \in Searcher \ {s} : search'[u] = search[u]
  BY <1>2 DEF Goto, IInv, TypeOK
<1>4. /\ search'[s].pc = p /\ search'[s].request = search[s].request
      /\ search'[s].method = search[s].method /\ search'[s].answer = search[s].answer
      /\ search'[s].disturbed = search[s].disturbed /\ search'[s].from = search[s].from
  BY <1>3, OwnInv DEF Progress
<1>5. UNCHANGED <<indexVars, scratch, author>>
  BY DEF BitCount, Backfill
<1>6. PlaceInv(search'[s])
  BY <1>2, <1>4, OwnInv DEF PlaceInv
<1>7. AuthorInv(search[s])'
  BY <1>2, <1>4, <1>5, OwnInv DEF AuthorInv, Answering, Undisturbed
<1>8. AnswerInv(search[s])'
  BY <1>2, <1>4, <1>5, OwnInv DEF AnswerInv, Kept, Matches
<1>9. SqlInv(search'[s])
  BY <1>2, <1>4, OwnInv DEF SqlInv, PlaceInv
<1> QED
  BY <1>3, <1>5, <1>6, <1>7, <1>8, <1>9, OwnStep

LEMMA GetInv ==
    ASSUME IInv, NEW s \in Searcher, Get(s)
    PROVE  IndexInv' /\ SearchInv'
<1> DEFINE own == Scan(ResultBits(s), Asked(s).limit)
<1>1. search[s].pc = "get" /\ UNCHANGED <<indexVars, scratch, author>>
  BY DEF Get, At
<1>2. /\ search'[s] = [search[s] EXCEPT !.pc = IF ResultBits(s) = {} THEN "sql" ELSE "fetch",
                                        !.own = own, !.from = ResultAuthor(s)]
      /\ \A u \in Searcher \ {s} : search'[u] = search[u]
  BY DEF Get, IInv, TypeOK
<1>3. Asked(s) = search[s].request /\ Asked(s) \in Request /\ KeyCount(Asked(s)) # 0
  BY <1>1, OwnInv DEF PlaceInv, Asked
<1>4. KeyCount(Asked(s)) \in Nat
  BY <1>3, RequestFacts
\* What is read answers the request whose bits they are.
<1>5. /\ ResultBits(s) \subseteq 1..counter
      /\ \A n \in ResultBits(s) \cap DOMAIN idx : Matches(idx[n], ResultAuthor(s))
  <2>1. CASE KeyCount(Asked(s)) = 1
    BY <1>3, <2>1, AndedMatches DEF ResultBits, ResultAuthor, Anded
  <2>2. CASE KeyCount(Asked(s)) # 1
    BY <2>2 DEF ResultBits, ResultAuthor, IInv, IndexInv
  <2> QED
    BY <2>1, <2>2
<1>6. own \subseteq ResultBits(s)
  BY ScanPart
<1>7. "search" \notin search[s].disturbed => ResultAuthor(s) = Asked(s)
  BY <1>1, <1>3, <1>4, OwnInv DEF AuthorInv, ResultAuthor
<1> HIDE DEF own
<1>8. /\ search'[s].pc \in {"sql", "fetch"} /\ search'[s].request = Asked(s)
      /\ search'[s].own = own /\ search'[s].from = ResultAuthor(s)
      /\ search'[s].method = search[s].method /\ search'[s].disturbed = search[s].disturbed
  BY <1>2, <1>3, OwnInv DEF Progress
<1>9. PlaceInv(search'[s]) /\ SqlInv(search'[s])
  BY <1>1, <1>3, <1>8, OwnInv DEF PlaceInv, SqlInv
<1>10. AuthorInv(search[s])'
  BY <1>7, <1>8 DEF AuthorInv, Answering, Undisturbed
<1>11. AnswerInv(search[s])'
  BY <1>1, <1>5, <1>6, <1>8 DEF AnswerInv, indexVars, Matches
<1> QED
  BY <1>1, <1>2, <1>9, <1>10, <1>11, OwnStep

LEMMA FetchInv ==
    ASSUME IInv, NEW s \in Searcher, Fetch(s)
    PROVE  IndexInv' /\ SearchInv'
<1> DEFINE own == search[s].own \cap DOMAIN idx
           found == {idx[n] : n \in own}
<1>1. search[s].pc = "fetch" /\ UNCHANGED <<indexVars, scratch, author>>
  BY DEF Fetch, At
<1>2. /\ search'[s] = [search[s] EXCEPT !.answer = found, !.own = {},
                         !.pc = IF found = {} THEN "sql"
                                ELSE IF own \cap untitled # {} THEN "backfill" ELSE "done"]
      /\ \A u \in Searcher \ {s} : search'[u] = search[u]
  BY DEF Fetch, IInv, TypeOK
<1>3. "loss" \notin search[s].disturbed => \A e \in found : Matches(e, search[s].from)
  BY <1>1, OwnInv DEF AnswerInv, Kept
<1> HIDE DEF found
<1>4. /\ search'[s].pc \in {"sql", "backfill", "done"} /\ search'[s].answer = found
      /\ search'[s].request = search[s].request /\ search'[s].from = search[s].from
      /\ search'[s].method = search[s].method /\ search'[s].disturbed = search[s].disturbed
  BY <1>2, OwnInv DEF Progress
<1>5. PlaceInv(search'[s]) /\ SqlInv(search'[s])
  BY <1>1, <1>4, OwnInv DEF PlaceInv, SqlInv
<1>6. AuthorInv(search[s])'
  BY <1>1, <1>4, OwnInv DEF AuthorInv, Answering, Undisturbed
<1>7. AnswerInv(search[s])'
  BY <1>3, <1>4 DEF AnswerInv, Kept, Matches
<1> QED
  BY <1>1, <1>2, <1>5, <1>6, <1>7, OwnStep

LEMMA FailInv ==
    ASSUME IInv, NEW s \in Searcher, CallFails(s)
    PROVE  IndexInv' /\ SearchInv'
<1>1. /\ search[s].pc \in {"bitop", "count", "get", "fetch", "backfill"}
      /\ UNCHANGED <<indexVars, scratch, author>>
  BY DEF CallFails
<1>2. /\ search'[s].pc = "sql" /\ search'[s].request = search[s].request
      /\ search'[s].method = search[s].method
      /\ \A u \in Searcher \ {s} : search'[u] = search[u]
  BY OwnInv DEF CallFails, IInv, TypeOK, Progress
<1>3. PlaceInv(search'[s]) /\ AuthorInv(search[s])' /\ AnswerInv(search[s])' /\ SqlInv(search'[s])
  BY <1>1, <1>2, OwnInv DEF PlaceInv, AuthorInv, AnswerInv, SqlInv, Answering
<1> QED
  BY <1>1, <1>2, <1>3, OwnStep

LEMMA SqlStep ==
    ASSUME IInv, NEW s \in Searcher, Sql(s)
    PROVE  IndexInv' /\ SearchInv'
<1>1. search[s].pc = "sql" /\ UNCHANGED <<indexVars, scratch, author>>
  BY DEF Sql, At
<1>2. CASE search[s].aborted
  <2>1. /\ search'[s].pc = "error" /\ search'[s].request = search[s].request
        /\ search'[s].method = search[s].method
        /\ \A u \in Searcher \ {s} : search'[u] = search[u]
    BY <1>2, OwnInv DEF Sql, Goto, IInv, TypeOK, Progress
  <2>2. PlaceInv(search'[s]) /\ AuthorInv(search[s])' /\ AnswerInv(search[s])' /\ SqlInv(search'[s])
    BY <1>1, <2>1, OwnInv DEF PlaceInv, AuthorInv, AnswerInv, SqlInv, Answering
  <2> QED
    BY <1>1, <2>1, <2>2, OwnStep
<1>3. CASE ~search[s].aborted
  <2>1. PICK found \in SUBSET SqlRows(Asked(s)) :
          /\ \/ found = SqlRows(Asked(s)) /\ Cardinality(found) <= Asked(s).limit
             \/ Cardinality(found) = Asked(s).limit
          /\ search' = [search EXCEPT ![s] = [@ EXCEPT !.pc = "done", !.answer = found,
                                                       !.method = "postgres_btree"]]
    BY <1>3 DEF Sql
  <2>2. /\ search'[s].pc = "done" /\ search'[s].request = search[s].request
        /\ search'[s].method = "postgres_btree" /\ search'[s].answer = found
        /\ \A u \in Searcher \ {s} : search'[u] = search[u]
    BY <2>1, OwnInv DEF IInv, TypeOK, Progress
  <2>3. SqlInv(search'[s])
    BY <2>1, <2>2 DEF SqlInv, Asked
  <2>4. PlaceInv(search'[s]) /\ AuthorInv(search[s])' /\ AnswerInv(search[s])'
    BY <1>1, <2>2, OwnInv DEF PlaceInv, AuthorInv, AnswerInv, Answering
  <2> QED
    BY <1>1, <2>2, <2>3, <2>4, OwnStep
<1> QED
  BY <1>2, <1>3

LEMMA RespondInv ==
    ASSUME IInv, NEW s \in Searcher, Respond(s)
    PROVE  IndexInv' /\ SearchInv'
<1>1. UNCHANGED <<indexVars, scratch, author>>
  BY DEF Respond
<1>2. search'[s] = Resting /\ \A u \in Searcher \ {s} : search'[u] = search[u]
  BY DEF Respond, IInv, TypeOK
<1>3. PlaceInv(search'[s]) /\ AuthorInv(search[s])' /\ AnswerInv(search[s])' /\ SqlInv(search'[s])
  BY <1>2 DEF PlaceInv, AuthorInv, AnswerInv, SqlInv, Answering, Resting
<1> QED
  BY <1>1, <1>2, <1>3, OwnStep

LEMMA InvNext == IInv /\ [Next]_vars => IInv'
<1> SUFFICES ASSUME IInv, [Next]_vars PROVE IndexInv' /\ SearchInv'
  BY TypeNext DEF IInv
<1>1. CASE UNCHANGED vars
  BY <1>1 DEF vars, indexVars, IInv, IndexInv, SearchInv, PlaceInv, AuthorInv, AnswerInv, SqlInv,
     Answering, Kept, Undisturbed, Matches
<1> QED
  BY <1>1, PublishInv, LossInv, BeginInv, BitOpInv, GotoInv, GetInv, FetchInv, FailInv, SqlStep,
     RespondInv DEF Next, SearchStep

LEMMA Invariance == Spec => []IInv
  BY InvInit, InvNext, PTL DEF Spec

\* However searches overwrite each other's bm:_result, an answer of the index is that of
\* one request.
THEOREM AnswerOfOneSearchCorrect == Spec => []AnswerOfOneSearch
<1>1. IInv => AnswerOfOneSearch
  BY DEF IInv, SearchInv, AnswerInv, Kept, AnswerOfOneSearch, ByIndex, At
<1> QED
  BY <1>1, Invariance, PTL

\* A search that was not overtaken answers its own request.
THEOREM UndisturbedAnswersMatchCorrect == Spec => []UndisturbedAnswersMatch
<1>1. IInv => UndisturbedAnswersMatch
  <2> SUFFICES ASSUME IInv, NEW s \in Searcher, ByIndex(s), Undisturbed(search[s]),
                      NEW e \in search[s].answer
               PROVE  Matches(e, Asked(s))
    BY DEF UndisturbedAnswersMatch, Undisturbed
  <2>1. search[s].pc = "done" /\ search[s].method = "redis_bitmap" /\ Kept(search[s])
    BY DEF ByIndex, At, Undisturbed, Kept
  <2> QED
    BY <2>1, OwnInv DEF AuthorInv, AnswerInv, Answering, Asked
<1> QED
  BY <1>1, Invariance, PTL

\* A row that the SQL query counts as many skills for as were asked has them all.
LEMMA JoinedAll ==
    ASSUME NEW r \in Request, NEW e \in Event, Cardinality(Joined(e, r)) = Len(r.skills),
           r.skills # <<>>, NEW i \in DOMAIN r.skills
    PROVE  Lower[r.skills[i]] \in SkillsOf(e)
<1> DEFINE L == {Lower[r.skills[j]] : j \in DOMAIN r.skills}
           N == 1..Len(r.skills)
           f == [j \in N |-> Lower[r.skills[j]]]
<1>1. DOMAIN r.skills = N /\ Len(r.skills) \in Nat
  BY RequestFacts
<1>2. f \in [N -> L] /\ \A l \in L : \E j \in N : f[j] = l
  BY <1>1
<1>3. f \in Surjection(N, L)
  BY <1>2 DEF Surjection
<1>4. IsFiniteSet(N) /\ Cardinality(N) = Len(r.skills)
  BY <1>1, FS_Interval
<1>5. IsFiniteSet(L) /\ Cardinality(L) <= Len(r.skills)
  BY <1>3, <1>4, FS_Surjection
<1>6. Joined(e, r) \in SUBSET L
  BY DEF Joined
<1>7. Lower[r.skills[i]] \in L
  OBVIOUS
<1> HIDE DEF L, N, f
<1>8. /\ Cardinality(Joined(e, r)) <= Cardinality(L)
      /\ Cardinality(L) = Cardinality(Joined(e, r)) => L = Joined(e, r)
      /\ Cardinality(L) \in Nat
  BY <1>5, <1>6, FS_Subset, FS_CardinalityType
<1>9. L = Joined(e, r)
  BY <1>1, <1>5, <1>8
<1> QED
  BY <1>7, <1>9 DEF Joined

\* The join and its count select by what is stored: as many skills left as were asked for
\* are all of them, and each for one request skill only.
LEMMA JoinedOnce ==
    ASSUME NEW r \in Request, NEW e \in Event, Cardinality(Joined(e, r)) = Len(r.skills),
           r.skills # <<>>
    PROVE  \A i, j \in DOMAIN r.skills : Lower[r.skills[i]] = Lower[r.skills[j]] => i = j
<1> DEFINE N == 1..Len(r.skills)
           J == Joined(e, r)
           f == [j \in N |-> Lower[r.skills[j]]]
<1>1. DOMAIN r.skills = N /\ Len(r.skills) \in Nat
  BY RequestFacts
<1>2. \A i \in N : f[i] \in J
  BY <1>1, JoinedAll DEF Joined
<1>3. \A l \in J : \E i \in N : f[i] = l
  BY <1>1 DEF Joined
<1>4. f \in Surjection(N, J)
  BY <1>2, <1>3 DEF Surjection
<1>5. IsFiniteSet(N) /\ Cardinality(N) = Len(r.skills)
  BY <1>1, FS_Interval
<1>6. IsFiniteSet(J)
  BY <1>4, <1>5, FS_Surjection
<1>7. Cardinality(N) = Cardinality(J)
  BY <1>5
<1> HIDE DEF N, J, f
<1>8. f \in Injection(N, J)
  BY <1>4, <1>5, <1>6, <1>7, FS_SurjSameCardinalityImpliesInj
<1>9. \A i, j \in N : f[i] = f[j] => i = j
  BY <1>8 DEF Injection, IsInjective
<1> QED
  BY <1>1, <1>9 DEF f, N

\* Distinct stored skills are counted as often as they were asked for.
LEMMA JoinedCount ==
    ASSUME NEW r \in Request, NEW e \in Stored(r)
    PROVE  Joined(e, r) # {} /\ Cardinality(Joined(e, r)) = Len(r.skills)
<1> DEFINE N == 1..Len(r.skills)
           J == Joined(e, r)
           f == [j \in N |-> Lower[r.skills[j]]]
<1>1. DOMAIN r.skills = N /\ Len(r.skills) \in Nat /\ r.skills # <<>> /\ r.skills \in Seq(Value)
  BY RequestFacts DEF Stored
<1>2. ASSUME NEW i \in N
      PROVE  f[i] \in SkillsOf(e)
  <2>1. <<"skill", Lower[r.skills[i]]>> \in Tags[e]
    BY <1>1 DEF Stored
  <2>2. <<"skill", Lower[r.skills[i]]>> \in {u \in Tags[e] : u[1] = "skill"}
    BY <2>1
  <2> QED
    BY <2>2 DEF SkillsOf
<1>3. f \in [N -> J] /\ \A l \in J : \E i \in N : f[i] = l
  BY <1>1, <1>2 DEF Joined
<1>4. \A i, j \in N : f[i] = f[j] => i = j
  BY <1>1 DEF Stored
<1>5. f \in Bijection(N, J)
  <2> HIDE DEF N, J
  <2>1. DOMAIN f = N
    OBVIOUS
  <2> HIDE DEF f
  <2> QED
    BY <1>3, <1>4, <2>1 DEF Bijection, Injection, Surjection, IsInjective
<1>6. IsFiniteSet(N) /\ Cardinality(N) = Len(r.skills)
  BY <1>1, FS_Interval
<1>7. Cardinality(J) = Cardinality(N)
  <2> HIDE DEF N, J, f
  <2> QED
    BY <1>5, <1>6, FS_Bijection DEF ExistsBijection
<1>8. 1 \in N
  BY <1>1
<1>9. J # {}
  BY <1>3, <1>8
<1> QED
  BY <1>6, <1>7, <1>9

\* The filters that the query looks up are those by country.
LEMMA CountryFilters ==
    ASSUME NEW r \in Request
    PROVE  SqlFilters(r) = {f \in r.filters : f[1] = "country"}
<1>1. \A f \in r.filters : f = <<f[1], f[2]>> /\ f[1] \in Parameter
  BY RequestFacts
<1>2. \A p \in Parameter : RequestName[p] \in Parameter <=> p = "country"
  BY DEF Parameter, RequestName
<1>3. RequestName["country"] = "country"
  BY DEF RequestName
<1>4. \A f \in r.filters : f[1] = "country" => <<RequestName[f[1]], f[2]>> = f
  BY <1>1, <1>3
<1> QED
  BY <1>1, <1>2, <1>4 DEF SqlFilters, Filters

\* A row has finitely many skills, so their number is 0 only if there are none.
LEMMA SkillsFinite ==
    ASSUME NEW e \in Event
    PROVE  IsFiniteSet(SkillsOf(e))
<1> DEFINE U == {u \in Tags[e] : u[1] = "skill"}
           f == [u \in U |-> u[2]]
<1>1. IsFiniteSet(U)
  BY ValueAssumption, FS_Subset
<1>2. f \in Surjection(U, SkillsOf(e))
  BY DEF SkillsOf, Surjection
<1> HIDE DEF U, f
<1> QED
  BY <1>1, <1>2, FS_Surjection

LEMMA SqlStored ==
    ASSUME NEW r \in Request
    PROVE  SqlRows(r) = Stored(r)
<1>1. ASSUME NEW e \in SqlRows(r)
      PROVE  e \in Stored(r)
  <2>1. /\ e \in Event /\ SqlFilters(r) \subseteq Tags[e] /\ Joined(e, r) # {}
        /\ Cardinality(Joined(e, r)) = Len(r.skills)
    BY DEF SqlRows
  <2>2. r.skills # <<>>
    <3>1. ASSUME r.skills = <<>>
          PROVE  FALSE
      <4>1. Cardinality(SkillsOf(e)) = 0 /\ SkillsOf(e) # {}
        BY <2>1, <3>1 DEF Joined
      <4>2. IsFiniteSet(SkillsOf(e))
        BY <2>1, SkillsFinite
      <4> QED
        BY <4>1, <4>2, FS_EmptySet
    <3> QED
      BY <3>1
  <2>3. ASSUME NEW i \in DOMAIN r.skills
        PROVE  <<"skill", Lower[r.skills[i]]>> \in Tags[e]
    <3>1. PICK t \in Tags[e] : t[1] = "skill" /\ t[2] = Lower[r.skills[i]]
      BY <2>1, <2>2, JoinedAll DEF SkillsOf
    <3>2. t = <<t[1], t[2]>>
      BY <2>1, ValueAssumption
    <3> QED
      BY <3>1, <3>2
  <2> QED
    BY <2>1, <2>2, <2>3, JoinedOnce, CountryFilters DEF Stored
<1>2. ASSUME NEW e \in Stored(r)
      PROVE  e \in SqlRows(r)
  BY <1>2, JoinedCount, CountryFilters DEF Stored, SqlRows
<1> QED
  BY <1>1, <1>2

\* For a Spelt request these are the rows that have all that is asked for.
LEMMA SpeltMatches ==
    ASSUME NEW r \in Request, Spelt(r)
    PROVE  Stored(r) = {e \in Event : Matches(e, r)}
<1>1. /\ Lower \in [Value -> Value] /\ \A v \in Value : Lower[Lower[v]] = Lower[v]
      /\ \A e \in Event : \A t \in Tags[e] : t = <<t[1], t[2]>> /\ t[2] \in Value
      /\ \A i \in DOMAIN r.skills : r.skills[i] \in Value
      /\ \A f \in r.filters : f = <<f[1], f[2]>> /\ f[1] = "country"
  BY ValueAssumption, RequestFacts DEF Spelt
<1>2. Filters(r) = r.filters
  <2>1. RequestName["country"] = "country"
    BY DEF RequestName
  <2>2. \A f \in r.filters : <<RequestName[f[1]], f[2]>> = f
    BY <1>1, <2>1
  <2> QED
    BY <2>2 DEF Filters
<1>3. ASSUME NEW e \in Stored(r)
      PROVE  Matches(e, r)
  <2>1. ASSUME NEW f \in r.filters
        PROVE  <<f[1], Lower[f[2]]>> \in Values(e)
    BY <1>1, <2>1 DEF Stored, Values
  <2>2. ASSUME NEW i \in DOMAIN r.skills
        PROVE  <<"skill", Lower[r.skills[i]]>> \in Values(e)
    <3> DEFINE t == <<"skill", Lower[r.skills[i]]>>
    <3>1. t \in Tags[e]
      BY DEF Stored
    <3>2. <<t[1], Lower[t[2]]>> \in Values(e)
      BY <3>1 DEF Values
    <3>3. Lower[t[2]] = t[2]
      BY <1>1
    <3> QED
      BY <3>2, <3>3
  <2> QED
    BY <1>2, <2>1, <2>2 DEF Matches, Keys
<1>4. ASSUME NEW e \in Event, Matches(e, r)
      PROVE  e \in Stored(r)
  <2>1. ASSUME NEW f \in r.filters
        PROVE  f \in Tags[e]
    <3>1. <<f[1], Lower[f[2]]>> \in Values(e)
      BY <1>2, <1>4 DEF Matches, Keys
    <3>2. PICK t \in Tags[e] : <<t[1], Lower[t[2]]>> = <<f[1], Lower[f[2]]>>
      BY <3>1 DEF Values
    <3>3. t[1] = f[1] /\ Lower[t[2]] = Lower[f[2]]
      BY <3>2
    <3> QED
      BY <3>3 DEF Spelt
  <2>2. ASSUME NEW i \in DOMAIN r.skills
        PROVE  <<"skill", Lower[r.skills[i]]>> \in Tags[e]
    <3>1. <<"skill", Lower[r.skills[i]]>> \in Values(e)
      BY <1>4 DEF Matches, Keys
    <3>2. PICK t \in Tags[e] : <<t[1], Lower[t[2]]>> = <<"skill", Lower[r.skills[i]]>>
      BY <3>1 DEF Values
    <3>3. t[1] = "skill" /\ Lower[t[2]] = Lower[r.skills[i]]
      BY <3>2
    <3>4. t[2] = Lower[t[2]]
      BY <3>3 DEF Spelt
    <3> QED
      BY <1>1, <3>3, <3>4
  <2> QED
    BY <2>1, <2>2 DEF Stored, Spelt
<1> QED
  BY <1>3, <1>4 DEF Stored

\* The SQL fallback answers with exactly the rows that store what it compares, or as many
\* as the limit allows; for a request in the stored spelling these are the rows asked for.
THEOREM FallbackAnswersCorrect == Spec => []FallbackAnswers
<1>1. IInv => FallbackAnswers
  <2> SUFFICES ASSUME IInv, NEW s \in Searcher, At(s, "done"),
                      search[s].method = "postgres_btree"
               PROVE  LET r == Asked(s)
                          answer == search[s].answer
                      IN  /\ answer \subseteq Stored(r)
                          /\ Stored(r) \subseteq answer \/ Cardinality(answer) = r.limit
                          /\ Spelt(r) => Stored(r) = {e \in Event : Matches(e, r)}
    BY DEF FallbackAnswers
  <2>1. Asked(s) \in Request /\ SqlInv(search[s])
    BY OwnInv DEF PlaceInv, At, Asked
  <2> QED
    BY <2>1, SqlStored, SpeltMatches DEF SqlInv, At, Asked
<1> QED
  BY <1>1, Invariance, PTL

----------------------------------------------------------------------------
\* What the scan of the bytes gives: all of the bits, or as many as were asked for.

\* The numbers below one that the scan leaves out fill the limit.
LEMMA ScanComplete ==
    ASSUME NEW c \in Nat, NEW S \in SUBSET (1..c), NEW limit \in Nat
    PROVE  Scan(S, limit) = S \/ Cardinality(Scan(S, limit)) >= limit
<1> DEFINE Out == S \ Scan(S, limit)
<1>1. IsFiniteSet(1..c)
  BY FS_Interval
<1>2. \A U \in SUBSET (1..c) : IsFiniteSet(U) /\ Cardinality(U) \in Nat
  BY <1>1, FS_Subset, FS_CardinalityType
<1>3. Scan(S, limit) \subseteq S
  BY ScanPart
<1> SUFFICES ASSUME Out # {} PROVE Cardinality(Scan(S, limit)) >= limit
  BY <1>3
<1>4. PICK x \in Out : \A y \in Out : x <= y
  <2>1. 1..c \subseteq Nat
    OBVIOUS
  <2>2. Out \in SUBSET Nat
    BY <2>1
  <2> QED
    BY <2>2, Least
<1>5. S \subseteq Nat /\ x \in Nat /\ x \in S /\ x \notin Scan(S, limit)
  BY <1>4
<1> DEFINE below == {m \in S : m < x}
<1>6. ~(Cardinality({m \in S : m <= x}) <= limit) /\ x \in S
  BY <1>4 DEF Scan
<1>7. ASSUME NEW m \in below
      PROVE  m \in Scan(S, limit)
  <2>1. m \in S /\ m \in Nat /\ ~(x <= m)
    BY <1>5
  <2> QED
    BY <1>4, <2>1
<1>8. {m \in S : m <= x} = below \cup {x} /\ x \notin below
  <2>1. \A m \in S : m <= x <=> m < x \/ m = x
    BY <1>5
  <2>2. ~(x < x)
    BY <1>5
  <2> QED
    BY <1>5, <2>1, <2>2
<1>9. below \in SUBSET (1..c) /\ Scan(S, limit) \in SUBSET (1..c)
  BY <1>3
<1> HIDE DEF below
<1>10. Cardinality(below \cup {x}) = Cardinality(below) + 1
  BY <1>2, <1>8, <1>9, FS_AddElement
<1>11. Cardinality(below) <= Cardinality(Scan(S, limit))
  BY <1>2, <1>7, <1>9, FS_Subset
<1> QED
  BY <1>2, <1>6, <1>8, <1>9, <1>10, <1>11

\* The first number of a bitstring is the first of its byte: no limit leaves it out.
LEMMA ScanFinds ==
    ASSUME NEW c \in Nat, NEW S \in SUBSET (1..c), S # {}, NEW limit \in Nat
    PROVE  Scan(S, limit) # {}
<1>1. PICK n \in S : \A m \in S : n <= m
  <2>1. S \in SUBSET Nat
    OBVIOUS
  <2> QED
    BY <2>1, Least
<1>2. \A m \in S : ~(m < n)
  BY <1>1
<1> QED
  BY <1>2 DEF Scan

----------------------------------------------------------------------------
\* The loops of the scan, for every limit and any number of bytes.

LoopsThrough(P, c, S, limit) ==
    /\ P[0] = {}
    /\ \A n \in 1..c : P[n] = IF n \in S /\ ~Left(P[n - 1], n, limit)
                              THEN P[n - 1] \cup {n} ELSE P[n - 1]

LEMMA LoopRecursion ==
    ASSUME NEW c \in Nat, NEW S \in SUBSET (1..c), NEW limit \in Nat
    PROVE  \E P \in [0..c -> SUBSET (1..c)] :
              ScanLoop(c, S, limit) = P[c] /\ LoopsThrough(P, c, S, limit)
<1> DEFINE V == SUBSET (1..c)
           Add(n, t) == IF n \in S /\ ~Left(t, n, limit) THEN t \cup {n} ELSE t
           Body(g) == [n \in 0..c |-> IF n = 0 THEN {} ELSE Add(n, g[n - 1])]
           step == [x \in (1..c) \X V |-> Add(x[1], x[2])]
           P == CHOOSE g : g = Body(g)
<1>1. {} \in V /\ \A n \in 1..c, t \in V : Add(n, t) \in V
  OBVIOUS
<1>2. ScanLoop(c, S, limit) = P[c]
  BY DEF ScanLoop
<1> HIDE DEF V, P, Add
<1>3. step \in [(1..c) \X V -> V]
  BY <1>1
<1>4. PICK g \in [0..c -> V] : Recursive(g, c, {}, step)
  <2> HIDE DEF step
  <2> QED
    BY <1>1, <1>3, Recursion
<1>5. \A n \in 1..c : g[n] = Add(n, g[n - 1])
  <2>1. \A n \in 1..c : g[n - 1] \in V
    OBVIOUS
  <2> QED
    BY <1>4, <2>1 DEF Recursive
<1>6. g = Body(g)
  <2>1. \A n \in 0..c : n = 0 \/ n \in 1..c
    OBVIOUS
  <2>2. \A n \in 0..c : g[n] = Body(g)[n]
    BY <1>4, <1>5, <2>1 DEF Recursive
  <2> QED
    BY <2>2
<1>7. P = Body(P)
  <2> HIDE DEF Body
  <2> QED
    BY <1>6 DEF P
<1>8. DOMAIN P = 0..c /\ P[0] = {} /\ \A n \in 1..c : P[n] = Add(n, P[n - 1])
  <2>1. \A n \in 0..c : P[n] = IF n = 0 THEN {} ELSE Add(n, P[n - 1])
    BY <1>7
  <2>2. 0 \in 0..c /\ \A n \in 1..c : n \in 0..c /\ n # 0
    OBVIOUS
  <2>3. DOMAIN P = 0..c
    BY <1>7
  <2> QED
    BY <2>1, <2>2, <2>3
<1>9. \A n \in 0..c : P[n] \in V
  <2> DEFINE T == {n \in Nat : n <= c => P[n] \in V}
  <2>1. 0 \in T
    BY <1>1, <1>8
  <2>2. ASSUME NEW n \in Nat, n \in T
        PROVE  n + 1 \in T
    <3> SUFFICES ASSUME n + 1 <= c PROVE P[n + 1] \in V
      OBVIOUS
    <3>1. P[n] \in V /\ n + 1 \in 1..c /\ (n + 1) - 1 = n
      BY <2>2
    <3>2. P[n + 1] = Add(n + 1, P[n])
      BY <1>8, <3>1
    <3> QED
      BY <1>1, <3>1, <3>2
  <2>3. Nat \subseteq T
    <3> HIDE DEF T
    <3> QED
      BY <2>1, <2>2, Induction
  <2> QED
    BY <2>3
<1>10. P \in [0..c -> V]
  BY <1>7, <1>8, <1>9
<1>11. LoopsThrough(P, c, S, limit)
  BY <1>8 DEF LoopsThrough, Add
<1> QED
  BY <1>2, <1>10, <1>11 DEF V

\* Whether a number is taken depends on the numbers up to it.
Below(S, n) == {m \in S : m <= n}

LEMMA ScanBelow ==
    ASSUME NEW c \in Nat, NEW S \in SUBSET (1..c), NEW limit \in Nat, NEW n \in Nat
    PROVE  Scan(Below(S, n), limit) = Below(Scan(S, limit), n)
<1>1. S \subseteq Nat
  OBVIOUS
<1>2. ASSUME NEW x \in S, x <= n
      PROVE  /\ {m \in Below(S, n) : m <= x} = {m \in S : m <= x}
             /\ (\A m \in Below(S, n) : m < x => m \div ByteBits # x \div ByteBits)
                   <=> (\A m \in S : m < x => m \div ByteBits # x \div ByteBits)
  <2>1. \A m \in S : m <= x => m <= n
    BY <1>1, <1>2
  <2>2. \A m \in S : m < x => m <= n
    BY <1>1, <1>2
  <2> QED
    BY <2>1, <2>2 DEF Below
<1> QED
  BY <1>2 DEF Scan, Below

\* A number that the scan passes over finds the loop of its byte left, and no other does.
LEMMA ScanSteps ==
    ASSUME NEW c \in Nat, NEW S \in SUBSET (1..c), NEW limit \in Nat,
           NEW n \in Nat, n + 1 \in S
    PROVE  n + 1 \in Scan(S, limit) <=> ~Left(Below(Scan(S, limit), n), n + 1, limit)
<1> DEFINE taken == Below(Scan(S, limit), n)
           before == Below(S, n)
<1>1. S \subseteq Nat /\ Scan(S, limit) \subseteq S
  BY ScanPart
<1>2. \A U \in SUBSET S : IsFiniteSet(U) /\ Cardinality(U) \in Nat
  <2>1. IsFiniteSet(1..c) /\ \A U \in SUBSET S : U \in SUBSET (1..c)
    BY FS_Interval
  <2> QED
    BY <2>1, FS_Subset, FS_CardinalityType
<1>3. taken \in SUBSET S /\ before \in SUBSET S /\ taken \subseteq before
  BY <1>1 DEF Below
<1>4. Cardinality({m \in S : m <= n + 1}) = Cardinality(before) + 1
  <2>1. \A m \in S : m <= n + 1 <=> m <= n \/ m = n + 1
    BY <1>1
  <2>2. {m \in S : m <= n + 1} = before \cup {n + 1} /\ n + 1 \notin before
    <3>1. ~(n + 1 <= n)
      OBVIOUS
    <3> QED
      BY <2>1, <3>1 DEF Below
  <2> HIDE DEF before
  <2> QED
    BY <1>2, <1>3, <2>2, FS_AddElement
<1>5. \A m \in S : m < n + 1 <=> m \in before
  BY <1>1 DEF Below
<1>6. ASSUME n + 1 \in Scan(S, limit)
      PROVE  ~Left(taken, n + 1, limit)
  <2>1. CASE Cardinality({m \in S : m <= n + 1}) <= limit
    <3>1. Cardinality(taken) <= Cardinality(before)
      BY <1>2, <1>3, FS_Subset
    <3>2. ~(Cardinality(taken) >= limit)
      BY <1>2, <1>3, <1>4, <2>1, <3>1
    <3> QED
      BY <3>2 DEF Left
  <2>2. CASE \A m \in S : m < n + 1 => m \div ByteBits # (n + 1) \div ByteBits
    BY <1>3, <1>5, <2>2 DEF Left
  <2> QED
    BY <1>6, <2>1, <2>2 DEF Scan
<1>7. ASSUME n + 1 \notin Scan(S, limit)
      PROVE  Left(taken, n + 1, limit)
  <2>1. /\ ~(Cardinality({m \in S : m <= n + 1}) <= limit)
        /\ \E m \in S : m < n + 1 /\ m \div ByteBits = (n + 1) \div ByteBits
    BY <1>7 DEF Scan
  <2>2. Cardinality(before) >= limit
    BY <1>2, <1>3, <1>4, <2>1
  <2>3. Cardinality(taken) >= limit
    <3>1. taken = Scan(before, limit)
      BY ScanBelow
    <3>2. before \in SUBSET (1..c)
      BY <1>3
    <3> HIDE DEF before, taken
    <3>3. Scan(before, limit) = before \/ Cardinality(Scan(before, limit)) >= limit
      BY <3>2, ScanComplete
    <3> QED
      BY <2>2, <3>1, <3>3
  <2> DEFINE byte == {m \in before : m \div ByteBits = (n + 1) \div ByteBits}
  <2>4. PICK x \in byte : \A m \in byte : x <= m
    <3>1. byte # {} /\ byte \in SUBSET Nat
      BY <1>1, <1>3, <1>5, <2>1
    <3> HIDE DEF byte
    <3> QED
      BY <3>1, Least
  <2>5. \A m \in S : m < x => m \div ByteBits # x \div ByteBits
    <3> SUFFICES ASSUME NEW m \in S, m < x, m \div ByteBits = x \div ByteBits
                 PROVE  FALSE
      OBVIOUS
    <3>1. x \in S /\ x <= n /\ x \div ByteBits = (n + 1) \div ByteBits
      BY DEF Below
    <3>2. m \in Nat /\ x \in Nat /\ m <= n
      BY <1>1, <3>1
    <3>3. m \in byte
      BY <3>1, <3>2 DEF Below
    <3> QED
      BY <2>4, <3>2, <3>3
  <2>6. x \in taken
    BY <2>5 DEF Below, Scan
  <2> QED
    BY <2>3, <2>6 DEF Left
<1> QED
  BY <1>6, <1>7

\* The loops take exactly what Scan says.
LEMMA ScanIsLoop ==
    ASSUME NEW c \in Nat, NEW S \in SUBSET (1..c), NEW limit \in Nat
    PROVE  Scan(S, limit) = ScanLoop(c, S, limit)
<1>1. PICK P \in [0..c -> SUBSET (1..c)] :
         ScanLoop(c, S, limit) = P[c] /\ LoopsThrough(P, c, S, limit)
  BY LoopRecursion
<1> DEFINE T == {n \in Nat : n <= c => P[n] = Below(Scan(S, limit), n)}
<1>2. \A m \in Scan(S, limit) : m \in S /\ m \in Nat /\ m <= c /\ ~(m <= 0)
  <2>1. \A m \in 1..c : m \in Nat /\ m <= c /\ ~(m <= 0)
    OBVIOUS
  <2> QED
    BY <2>1, ScanPart
<1>3. 0 \in T
  BY <1>1, <1>2 DEF Below, LoopsThrough
<1>4. ASSUME NEW n \in Nat, n \in T
      PROVE  n + 1 \in T
  <2> SUFFICES ASSUME n + 1 <= c PROVE P[n + 1] = Below(Scan(S, limit), n + 1)
    OBVIOUS
  <2>1. P[n] = Below(Scan(S, limit), n) /\ n + 1 \in 1..c /\ (n + 1) - 1 = n
    BY <1>4
  <2>2. P[n + 1] = IF n + 1 \in S /\ ~Left(P[n], n + 1, limit) THEN P[n] \cup {n + 1} ELSE P[n]
    BY <1>1, <2>1 DEF LoopsThrough
  <2>3. n + 1 \in Scan(S, limit) <=> n + 1 \in S /\ ~Left(P[n], n + 1, limit)
    BY <1>2, <2>1, ScanSteps
  <2>4. \A m \in Scan(S, limit) : m <= n + 1 <=> m <= n \/ m = n + 1
    BY <1>2
  <2> QED
    BY <2>1, <2>2, <2>3, <2>4 DEF Below
<1>5. Nat \subseteq T
  <2> HIDE DEF T
  <2> QED
    BY <1>3, <1>4, Induction
<1>6. P[c] = Below(Scan(S, limit), c)
  BY <1>5
<1> QED
  BY <1>1, <1>2, <1>6 DEF Below

\* Scan, by which the model reads a bitstring, is what the loops compute.
THEOREM ScanMeetsLoopCorrect == Spec => []ScanMeetsLoop
<1>1. ScanMeetsLoop
  <2>1. MaxScan \in Nat
    BY BoundAssumption
  <2> QED
    BY <2>1, ScanIsLoop DEF ScanMeetsLoop
<1> QED
  BY <1>1, PTL

----------------------------------------------------------------------------
\* Completeness.  The index numbers its rows without gaps, each row once, and has set
\* the bits of a row that either writer sets;
NumbersInv ==
    /\ DOMAIN idx = 1..counter
    /\ \A m, n \in DOMAIN idx : idx[m] = idx[n] => m = n
    /\ \A n \in DOMAIN idx : \A k \in KeysOf(idx[n], "pipeline") : n \in bits[k]

\* an undisturbed search has the rows that it owes, by their numbers, wherever it is.
OwedNumbers(t) == {n \in DOMAIN idx : idx[n] \in t.owed}

OwedInv(t) ==
    t.disturbed = {} =>
        /\ \A e \in t.owed : Promised(e, t.request) /\ \E n \in DOMAIN idx : idx[n] = e
        /\ t.pc \in {"count", "get"} /\ KeyCount(t.request) > 1
              => OwedNumbers(t) \subseteq scratch
        /\ t.pc = "fetch" =>
              /\ t.own # {} /\ t.own \subseteq DOMAIN idx
              /\ OwedNumbers(t) \subseteq t.own \/ Cardinality(t.own) >= t.request.limit
        /\ t.pc \in {"backfill", "done"} /\ t.method = "redis_bitmap" =>
              t.owed \subseteq t.answer \/ Cardinality(t.answer) >= t.request.limit
        /\ t.pc \in {"idle", "sql"} => t.owed = {}
        /\ t.pc = "done" /\ t.method = "postgres_btree" => t.owed = {}

CompleteInv == NumbersInv /\ \A s \in Searcher : OwedInv(search[s])

LEMMA CompleteInit == Init => CompleteInv
<1> SUFFICES ASSUME Init PROVE CompleteInv
  OBVIOUS
<1>1. NumbersInv
  BY DEF Init, NumbersInv
<1>2. \A s \in Searcher : search[s] = Resting
  BY DEF Init
<1>3. \A s \in Searcher : OwedInv(search[s])
  BY <1>2 DEF OwedInv, Resting
<1> QED
  BY <1>1, <1>3 DEF CompleteInv

\* A row gets a number once, so the new one is not among those that a search owes.
LEMMA PublishComplete ==
    ASSUME IInv, CompleteInv, NEW e \in Event, NEW by \in Writer, Publish(e, by)
    PROVE  CompleteInv'
<1>1. /\ counter' = counter + 1 /\ counter \in Nat
      /\ DOMAIN idx' = DOMAIN idx \cup {counter'}
      /\ \A n \in DOMAIN idx : idx'[n] = idx[n] /\ n # counter'
      /\ idx'[counter'] = e
      /\ \A k \in Key : bits'[k] = IF k \in KeysOf(e, by) THEN bits[k] \cup {counter'} ELSE bits[k]
      /\ UNCHANGED <<scratch, search>>
  BY PublishType DEF IInv
<1>2. \A n \in DOMAIN idx : idx[n] # e
  BY DEF Publish
<1>3. NumbersInv
  BY DEF CompleteInv
<1>4. DOMAIN idx' = 1..counter'
  <2>1. 1..(counter + 1) = (1..counter) \cup {counter + 1}
    BY <1>1
  <2> QED
    BY <1>1, <1>3, <2>1 DEF NumbersInv
<1>5. \A m, n \in DOMAIN idx' : idx'[m] = idx'[n] => m = n
  BY <1>1, <1>2, <1>3 DEF NumbersInv
<1>6. ASSUME NEW n \in DOMAIN idx', NEW k \in KeysOf(idx'[n], "pipeline")
      PROVE  n \in bits'[k]
  <2>1. CASE n = counter'
    BY <1>1, <1>6, <2>1, KeysOfType
  <2>2. CASE n # counter'
    <3>1. n \in DOMAIN idx /\ idx'[n] = idx[n]
      BY <1>1, <2>2
    <3>2. k \in Key /\ n \in bits[k]
      BY <1>3, <1>6, <3>1, KeysOfType DEF NumbersInv, IInv, TypeOK, Writer
    <3> QED
      BY <1>1, <3>2
  <2> QED
    BY <2>1, <2>2
<1>7. ASSUME NEW s \in Searcher
      PROVE  OwedInv(search[s])'
  <2> SUFFICES ASSUME search[s].disturbed = {}
               PROVE  OwedInv(search[s])'
    BY <1>1 DEF OwedInv
  <2>1. OwedInv(search[s])
    BY DEF CompleteInv
  <2>2. e \notin search[s].owed
    BY <1>2, <2>1 DEF OwedInv
  <2>3. OwedNumbers(search[s])' = OwedNumbers(search[s])
    BY <1>1, <2>2 DEF OwedNumbers
  <2> QED
    BY <1>1, <2>1, <2>3 DEF OwedInv, Promised
<1> QED
  BY <1>4, <1>5, <1>6, <1>7 DEF CompleteInv, NumbersInv

\* Whoever was not idle is disturbed, and an idle searcher owes nothing.
LEMMA LossComplete ==
    ASSUME IInv, CompleteInv, RedisLoss
    PROVE  CompleteInv'
<1>1. counter' = 0 /\ DOMAIN idx' = {}
  BY DEF RedisLoss
<1>2. NumbersInv'
  BY <1>1 DEF NumbersInv
<1>3. ASSUME NEW s \in Searcher
      PROVE  OwedInv(search[s])'
  <2>1. OwedInv(search[s]) /\ search[s] \in Progress
    BY OwnInv DEF CompleteInv
  <2>2. CASE search[s].pc = "idle"
    <3>1. search'[s] = search[s]
      BY <2>2 DEF RedisLoss
    <3> QED
      BY <2>1, <2>2, <3>1 DEF OwedInv
  <2>3. CASE search[s].pc # "idle"
    <3>1. search'[s] = [search[s] EXCEPT !.disturbed = @ \cup {"loss"}]
      BY <2>3 DEF RedisLoss
    <3>2. "loss" \in search'[s].disturbed
      BY <2>1, <3>1 DEF Progress
    <3> QED
      BY <3>2 DEF OwedInv
  <2> QED
    BY <2>2, <2>3
<1> QED
  BY <1>2, <1>3 DEF CompleteInv

\* A step of search s that leaves the index and bm:_result alone costs no other search
\* a row.
LEMMA OwnComplete ==
    ASSUME CompleteInv, NEW s \in Searcher, UNCHANGED <<indexVars, scratch>>,
           \A u \in Searcher \ {s} : search'[u] = search[u], OwedInv(search[s])'
    PROVE  CompleteInv'
<1>1. NumbersInv'
  BY DEF CompleteInv, NumbersInv, indexVars
<1>2. ASSUME NEW u \in Searcher \ {s}
      PROVE  OwedInv(search[u])'
  BY <1>2 DEF CompleteInv, OwedInv, OwedNumbers, indexVars, Promised
<1> QED
  BY <1>1, <1>2 DEF CompleteInv

LEMMA BeginComplete ==
    ASSUME IInv, CompleteInv, NEW s \in Searcher, Begin(s)
    PROVE  CompleteInv'
<1>1. PICK r \in Request :
        search' = [search EXCEPT ![s] =
                     [@ EXCEPT !.request = r,
                               !.pc = CASE KeyCount(r) = 0 -> "sql"
                                        [] KeyCount(r) = 1 -> "count"
                                        [] OTHER -> "bitop",
                               !.owed = {e \in {idx[n] : n \in DOMAIN idx} : Promised(e, r)}]]
  BY DEF Begin
<1>2. KeyCount(r) \in Nat
  BY RequestFacts
<1> DEFINE owed == {e \in {idx[n] : n \in DOMAIN idx} : Promised(e, r)}
<1>3. /\ search'[s].request = r /\ search'[s].owed = owed
      /\ search'[s].pc = CASE KeyCount(r) = 0 -> "sql"
                           [] KeyCount(r) = 1 -> "count"
                           [] OTHER -> "bitop"
      /\ \A u \in Searcher \ {s} : search'[u] = search[u]
  BY <1>1, OwnInv DEF IInv, TypeOK, Progress
<1>4. /\ search'[s].pc \in {"sql", "count", "bitop"}
      /\ search'[s].pc = "sql" => KeyCount(r) = 0
      /\ search'[s].pc = "count" => KeyCount(r) = 1
  BY <1>2, <1>3
<1>5. UNCHANGED <<indexVars, scratch>> /\ idx' = idx
  BY DEF Begin, indexVars
<1>6. search'[s].pc = "sql" => owed = {}
  BY <1>4 DEF Promised
<1>7. \A e \in owed : Promised(e, r) /\ \E n \in DOMAIN idx : idx[n] = e
  OBVIOUS
<1> HIDE DEF owed
<1>8. OwedInv(search[s])'
  BY <1>2, <1>3, <1>4, <1>5, <1>6, <1>7 DEF OwedInv, Promised
<1> QED
  BY <1>3, <1>5, <1>8, OwnComplete

\* The rows that are owed have all bits of the request set.
LEMMA OwedAnded ==
    ASSUME IInv, CompleteInv, NEW s \in Searcher, search[s].disturbed = {}
    PROVE  OwedNumbers(search[s]) \subseteq Anded(search[s].request)
<1>1. NumbersInv /\ OwedInv(search[s])
  BY DEF CompleteInv
<1> SUFFICES ASSUME NEW n \in OwedNumbers(search[s]), NEW k \in Keys(search[s].request)
             PROVE  n \in 1..counter /\ n \in bits[k]
  BY <1>1 DEF Anded, OwedNumbers, NumbersInv
<1>2. n \in DOMAIN idx /\ idx[n] \in search[s].owed
  BY DEF OwedNumbers
<1>3. k \in KeysOf(idx[n], "pipeline")
  BY <1>1, <1>2 DEF OwedInv, Promised
<1> QED
  BY <1>1, <1>2, <1>3 DEF NumbersInv

LEMMA BitOpComplete ==
    ASSUME IInv, CompleteInv, NEW s \in Searcher, BitOp(s)
    PROVE  CompleteInv'
<1>1. scratch' = Anded(search[s].request) /\ UNCHANGED indexVars
  BY DEF BitOp, Asked
<1>2. NumbersInv'
  BY <1>1 DEF CompleteInv, NumbersInv, indexVars
<1>3. ASSUME NEW u \in Searcher
      PROVE  OwedInv(search[u])'
  <2>1. OwedInv(search[u]) /\ search[u] \in Progress
    BY OwnInv DEF CompleteInv
  <2>2. CASE u = s
    <3>1. search'[s] = [search[s] EXCEPT !.pc = "count"]
      BY DEF BitOp
    <3>2. /\ search'[s].pc = "count" /\ search'[s].request = search[s].request
          /\ search'[s].owed = search[s].owed /\ search'[s].disturbed = search[s].disturbed
      BY <2>1, <2>2, <3>1 DEF Progress
    <3>3. search[s].disturbed = {} => OwedNumbers(search[s]) \subseteq scratch'
      BY <1>1, OwedAnded
    <3> QED
      BY <1>1, <2>1, <2>2, <3>2, <3>3 DEF OwedInv, OwedNumbers, Promised, indexVars
  <2>3. CASE u # s /\ Exposed(u)
    <3>1. search'[u] = [search[u] EXCEPT !.disturbed = @ \cup {"search"}]
      BY <2>3 DEF BitOp
    <3>2. "search" \in search'[u].disturbed
      BY <2>1, <3>1 DEF Progress
    <3> QED
      BY <3>2 DEF OwedInv
  <2>4. CASE u # s /\ ~Exposed(u)
    <3>1. search'[u] = search[u]
      BY <2>4 DEF BitOp
    <3> QED
      BY <1>1, <2>1, <2>4, <3>1 DEF OwedInv, OwedNumbers, Promised, indexVars, Exposed, Asked
  <2> QED
    BY <2>2, <2>3, <2>4
<1> QED
  BY <1>2, <1>3 DEF CompleteInv

\* What an undisturbed search is about to read holds the rows that it owes.
LEMMA OwedRead ==
    ASSUME IInv, CompleteInv, NEW s \in Searcher, search[s].pc \in {"count", "get"},
           search[s].disturbed = {}
    PROVE  /\ OwedNumbers(search[s]) \subseteq ResultBits(s)
           /\ ResultBits(s) = {} => search[s].owed = {}
<1>1. search[s].request \in Request /\ KeyCount(search[s].request) # 0
  BY OwnInv DEF PlaceInv
<1>2. KeyCount(search[s].request) \in Nat
  BY <1>1, RequestFacts
<1>3. OwedInv(search[s])
  BY DEF CompleteInv
<1>4. OwedNumbers(search[s]) \subseteq ResultBits(s)
  <2>1. CASE KeyCount(search[s].request) = 1
    BY <2>1, OwedAnded DEF ResultBits, Asked
  <2>2. CASE KeyCount(search[s].request) # 1
    <3>1. KeyCount(search[s].request) > 1
      BY <1>1, <1>2, <2>2
    <3> QED
      BY <1>3, <2>2, <3>1 DEF OwedInv, ResultBits, Asked
  <2> QED
    BY <2>1, <2>2
<1>5. ASSUME NEW e \in search[s].owed
      PROVE  ResultBits(s) # {}
  <2>1. PICK n \in DOMAIN idx : idx[n] = e
    BY <1>3 DEF OwedInv
  <2>2. n \in OwedNumbers(search[s])
    BY <2>1 DEF OwedNumbers
  <2> QED
    BY <1>4, <2>2
<1> QED
  BY <1>4, <1>5

\* An empty bitstring and a backfill lose nothing.
LEMMA GotoComplete ==
    ASSUME IInv, CompleteInv, NEW s \in Searcher, BitCount(s) \/ Backfill(s)
    PROVE  CompleteInv'
<1>1. PICK p \in {"sql", "get", "done"} :
         /\ Goto(s, p)
         /\ p = "done" => search[s].pc = "backfill"
         /\ p # "done" => search[s].pc = "count"
         /\ p = "sql" => ResultBits(s) = {}
  BY DEF BitCount, Backfill, At
<1>2. /\ search'[s] = [search[s] EXCEPT !.pc = p]
      /\ \A u \in Searcher \ {s} : search'[u] = search[u]
  BY <1>1 DEF Goto, IInv, TypeOK
<1>3. /\ search'[s].pc = p /\ search'[s].request = search[s].request
      /\ search'[s].method = search[s].method /\ search'[s].answer = search[s].answer
      /\ search'[s].disturbed = search[s].disturbed /\ search'[s].owed = search[s].owed
  BY <1>2, OwnInv DEF Progress
<1>4. UNCHANGED <<indexVars, scratch>> /\ idx' = idx
  BY DEF BitCount, Backfill, indexVars
<1>5. OwedInv(search[s]) /\ PlaceInv(search[s])
  BY OwnInv DEF CompleteInv
<1>6. search[s].disturbed = {} /\ p = "sql" => search[s].owed = {}
  BY <1>1, OwedRead
<1>7. OwedInv(search[s])'
  BY <1>1, <1>3, <1>4, <1>5, <1>6 DEF OwedInv, OwedNumbers, Promised, PlaceInv
<1> QED
  BY <1>2, <1>4, <1>7, OwnComplete

\* The scan keeps what is owed, or fills the limit, and finds something in a bitstring
\* that is not empty.
LEMMA GetComplete ==
    ASSUME IInv, CompleteInv, NEW s \in Searcher, Get(s)
    PROVE  CompleteInv'
<1> DEFINE r == search[s].request
           own == Scan(ResultBits(s), r.limit)
<1>1. search[s].pc = "get" /\ UNCHANGED <<indexVars, scratch>> /\ idx' = idx
  BY DEF Get, At, indexVars
<1>2. /\ search'[s] = [search[s] EXCEPT !.pc = IF ResultBits(s) = {} THEN "sql" ELSE "fetch",
                                        !.own = own, !.from = ResultAuthor(s)]
      /\ \A u \in Searcher \ {s} : search'[u] = search[u]
  BY DEF Get, Asked, IInv, TypeOK
<1>3. r \in Request /\ r.limit \in Nat /\ counter \in Nat
  BY <1>1, OwnInv, RequestFacts DEF PlaceInv, IInv, TypeOK
<1>4. ResultBits(s) \subseteq 1..counter
  BY DEF ResultBits, Anded, IInv, IndexInv
<1>5. /\ own = ResultBits(s) \/ Cardinality(own) >= r.limit
      /\ ResultBits(s) # {} => own # {}
      /\ own \subseteq ResultBits(s)
  BY <1>3, <1>4, ScanComplete, ScanFinds, ScanPart
<1>6. own \subseteq DOMAIN idx
  BY <1>4, <1>5 DEF CompleteInv, NumbersInv
<1> HIDE DEF own
<1>7. /\ search'[s].pc = IF ResultBits(s) = {} THEN "sql" ELSE "fetch"
      /\ search'[s].own = own /\ search'[s].request = r
      /\ search'[s].disturbed = search[s].disturbed /\ search'[s].owed = search[s].owed
  BY <1>2, OwnInv DEF Progress
<1>8. OwedInv(search[s])
  BY DEF CompleteInv
<1>9. ASSUME search[s].disturbed = {}
      PROVE  /\ OwedNumbers(search[s]) \subseteq ResultBits(s)
             /\ ResultBits(s) = {} => search[s].owed = {}
  BY <1>1, <1>9, OwedRead
<1>10. OwedInv(search[s])'
  BY <1>1, <1>5, <1>6, <1>7, <1>8, <1>9 DEF OwedInv, OwedNumbers, Promised
<1> QED
  BY <1>1, <1>2, <1>10, OwnComplete

\* Each number has a row of its own: no row is lost between numbers and rows.
LEMMA FetchComplete ==
    ASSUME IInv, CompleteInv, NEW s \in Searcher, Fetch(s)
    PROVE  CompleteInv'
<1> DEFINE own == search[s].own
           found == {idx[n] : n \in own \cap DOMAIN idx}
<1>1. search[s].pc = "fetch" /\ UNCHANGED <<indexVars, scratch>> /\ idx' = idx
  BY DEF Fetch, At, indexVars
<1>2. /\ search'[s] = [search[s] EXCEPT !.answer = found, !.own = {},
                         !.pc = IF found = {} THEN "sql"
                                ELSE IF own \cap untitled # {} THEN "backfill" ELSE "done"]
      /\ \A u \in Searcher \ {s} : search'[u] = search[u]
  BY DEF Fetch, IInv, TypeOK
<1>3. OwedInv(search[s]) /\ NumbersInv /\ PlaceInv(search[s])
  BY OwnInv DEF CompleteInv
<1>4. ASSUME own \subseteq DOMAIN idx
      PROVE  Cardinality(found) = Cardinality(own)
  <2> DEFINE f == [n \in own |-> idx[n]]
  <2>1. f \in [own -> found] /\ \A e \in found : \E n \in own : f[n] = e
    BY <1>4
  <2>2. \A m, n \in own : f[m] = f[n] => m = n
    BY <1>3, <1>4 DEF NumbersInv
  <2>3. f \in Bijection(own, found)
    <3> HIDE DEF own, found, f
    <3> QED
      BY <2>1, <2>2 DEF Bijection, Injection, Surjection, IsInjective
  <2>4. IsFiniteSet(1..counter) /\ own \in SUBSET (1..counter)
    BY <1>3, <1>4, FS_Interval DEF NumbersInv, IInv, TypeOK
  <2>5. IsFiniteSet(own)
    BY <2>4, FS_Subset
  <2> QED
    BY <2>3, <2>5, FS_Bijection DEF ExistsBijection
<1>5. ASSUME search[s].disturbed = {}
      PROVE  /\ found # {}
             /\ \/ search[s].owed \subseteq found
                \/ Cardinality(found) >= search[s].request.limit
  <2>1. /\ own # {} /\ own \subseteq DOMAIN idx
        /\ OwedNumbers(search[s]) \subseteq own \/ Cardinality(own) >= search[s].request.limit
    BY <1>1, <1>3, <1>5 DEF OwedInv
  <2>2. OwedNumbers(search[s]) \subseteq own => search[s].owed \subseteq found
    BY <1>3, <1>5 DEF OwedInv, OwedNumbers
  <2>3. Cardinality(found) = Cardinality(own)
    BY <1>4, <2>1
  <2>4. found # {}
    BY <2>1
  <2> HIDE DEF own, found
  <2> QED
    BY <2>1, <2>2, <2>3, <2>4
<1> HIDE DEF found
<1>6. /\ search'[s].pc \in {"sql", "backfill", "done"} /\ search'[s].answer = found
      /\ search'[s].pc = "sql" => found = {}
      /\ search'[s].request = search[s].request /\ search'[s].owed = search[s].owed
      /\ search'[s].method = search[s].method /\ search'[s].disturbed = search[s].disturbed
  BY <1>2, OwnInv DEF Progress
<1>7. OwedInv(search[s])'
  BY <1>1, <1>3, <1>5, <1>6 DEF OwedInv, OwedNumbers, Promised, PlaceInv
<1> QED
  BY <1>1, <1>2, <1>7, OwnComplete

LEMMA FailComplete ==
    ASSUME IInv, CompleteInv, NEW s \in Searcher, CallFails(s)
    PROVE  CompleteInv'
<1>1. /\ "failure" \in search'[s].disturbed
      /\ \A u \in Searcher \ {s} : search'[u] = search[u]
      /\ UNCHANGED <<indexVars, scratch>>
  BY OwnInv DEF CallFails, IInv, TypeOK, Progress
<1>2. OwedInv(search[s])'
  BY <1>1 DEF OwedInv
<1> QED
  BY <1>1, <1>2, OwnComplete

\* SQL is asked by a search that owes nothing.
LEMMA SqlComplete ==
    ASSUME IInv, CompleteInv, NEW s \in Searcher, Sql(s)
    PROVE  CompleteInv'
<1>1. search[s].pc = "sql" /\ UNCHANGED <<indexVars, scratch>> /\ idx' = idx
  BY DEF Sql, At, indexVars
<1>2. /\ \/ search'[s].pc = "error"
         \/ search'[s].pc = "done" /\ search'[s].method = "postgres_btree"
      /\ search'[s].request = search[s].request /\ search'[s].owed = search[s].owed
      /\ search'[s].disturbed = search[s].disturbed
      /\ \A u \in Searcher \ {s} : search'[u] = search[u]
  <2>1. CASE search[s].aborted
    BY <2>1, OwnInv DEF Sql, Goto, IInv, TypeOK, Progress
  <2>2. CASE ~search[s].aborted
    <3>1. PICK found \in SUBSET SqlRows(Asked(s)) :
            search' = [search EXCEPT ![s] = [@ EXCEPT !.pc = "done", !.answer = found,
                                                      !.method = "postgres_btree"]]
      BY <2>2 DEF Sql
    <3> QED
      BY <3>1, OwnInv DEF IInv, TypeOK, Progress
  <2> QED
    BY <2>1, <2>2
<1>3. OwedInv(search[s])
  BY DEF CompleteInv
<1>4. OwedInv(search[s])'
  BY <1>1, <1>2, <1>3 DEF OwedInv
<1> QED
  BY <1>1, <1>2, <1>4, OwnComplete

LEMMA RespondComplete ==
    ASSUME IInv, CompleteInv, NEW s \in Searcher, Respond(s)
    PROVE  CompleteInv'
<1>1. UNCHANGED <<indexVars, scratch>>
  BY DEF Respond
<1>2. search'[s] = Resting /\ \A u \in Searcher \ {s} : search'[u] = search[u]
  BY DEF Respond, IInv, TypeOK
<1>3. OwedInv(search[s])'
  BY <1>2 DEF OwedInv, Resting
<1> QED
  BY <1>1, <1>2, <1>3, OwnComplete

LEMMA CompleteNext == IInv /\ CompleteInv /\ [Next]_vars => CompleteInv'
<1> SUFFICES ASSUME IInv, CompleteInv, [Next]_vars PROVE CompleteInv'
  OBVIOUS
<1>1. CASE UNCHANGED vars
  BY <1>1 DEF vars, indexVars, CompleteInv, NumbersInv, OwedInv, OwedNumbers, Promised
<1> QED
  BY <1>1, PublishComplete, LossComplete, BeginComplete, BitOpComplete, GotoComplete,
     GetComplete, FetchComplete, FailComplete, SqlComplete, RespondComplete
  DEF Next, SearchStep

\* An undisturbed search finds every row that was indexed when it began and that every
\* writer sets all keys of the request for, up to its limit, whatever other searches and
\* writers do meanwhile, and asks SQL only when there was none.
THEOREM UndisturbedSearchCompleteCorrect == Spec => []UndisturbedSearchComplete
<1>1. IInv /\ CompleteInv => UndisturbedSearchComplete
  <2> SUFFICES ASSUME IInv, CompleteInv, NEW s \in Searcher, At(s, "done"),
                      search[s].disturbed = {}
               PROVE  IF search[s].method = "redis_bitmap"
                      THEN \/ search[s].owed \subseteq search[s].answer
                           \/ Cardinality(search[s].answer) >= Asked(s).limit
                      ELSE search[s].owed = {}
    BY DEF UndisturbedSearchComplete
  <2>1. OwedInv(search[s]) /\ search[s].method \in {"redis_bitmap", "postgres_btree"}
    BY OwnInv DEF CompleteInv, Progress
  <2> QED
    BY <2>1 DEF OwedInv, At, Asked
<1> QED
  BY <1>1, Invariance, CompleteInit, CompleteNext, PTL DEF Spec

----------------------------------------------------------------------------
(***************************************************************************)
(* The index that the searches read is the one that BitmapIndex implements *)
(* while it is undisturbed: the rows with a number are the rows known, and *)
(* a key finds the rows in whose bits their number is set.  A row must be  *)
(* found by the keys of the pipeline and may be by those of POST /ingest.  *)
(***************************************************************************)
Indexed == {idx[n] : n \in DOMAIN idx}
Selected == [k \in Key |-> {idx[n] : n \in {m \in DOMAIN idx : m \in bits[k]}}]
KeysBy(by) == [e \in Event |-> KeysOf(e, by)]

PI == INSTANCE PostingIndex
        WITH Posting <- Event, Must <- KeysBy("pipeline"), May <- KeysBy("ingest"),
             stored <- Event, known <- Indexed, found <- Selected, trusted <- TRUE

LEMMA IndexUntouched ==
    ASSUME UNCHANGED <<idx, bits>>
    PROVE  UNCHANGED PI!vars
BY DEF PI!vars, Indexed, Selected

\* An index without numbers is the empty one.
LEMMA IndexEmpty ==
    ASSUME idx = [n \in {} |-> 0]
    PROVE  Indexed = {} /\ Selected = PI!Nothing
BY DEF Indexed, Selected, PI!Nothing

LEMMA PublishShown ==
    ASSUME TypeOK, NEW e \in Event, NEW by \in Writer, Publish(e, by)
    PROVE  PI!Publish
<1> DEFINE new == counter'
<1>1. /\ new \notin DOMAIN idx /\ DOMAIN idx' = DOMAIN idx \cup {new} /\ idx'[new] = e
      /\ \A n \in DOMAIN idx : idx'[n] = idx[n] /\ n # new
      /\ \A k \in Key : bits'[k] = IF k \in KeysOf(e, by) THEN bits[k] \cup {new} ELSE bits[k]
  BY PublishType
<1>2. \A k \in Key : new \notin bits[k]
  <2>1. \A k \in Key : bits[k] \subseteq 1..counter
    BY DEF TypeOK
  <2> QED
    BY <2>1, PublishType
<1>3. e \notin Indexed
  BY DEF Publish, Indexed
<1>4. Indexed' = Indexed \cup {e}
  BY <1>1 DEF Indexed
<1> HIDE DEF new
<1>5. ASSUME NEW k \in Key
      PROVE  Selected'[k] = Selected[k] \cup {x \in {e} : k \in KeysBy(by)[x]}
  <2>1. /\ Selected[k] = {idx[n] : n \in {m \in DOMAIN idx : m \in bits[k]}}
        /\ Selected'[k] = {idx'[n] : n \in {m \in DOMAIN idx' : m \in bits'[k]}}
    BY DEF Selected
  <2>2. CASE k \in KeysOf(e, by)
    <3>1. {m \in DOMAIN idx' : m \in bits'[k]} = {m \in DOMAIN idx : m \in bits[k]} \cup {new}
      BY <1>1, <2>2
    <3>2. Selected'[k] = Selected[k] \cup {e}
      BY <1>1, <2>1, <3>1
    <3> QED
      BY <2>2, <3>2 DEF KeysBy
  <2>3. CASE k \notin KeysOf(e, by)
    <3>1. {m \in DOMAIN idx' : m \in bits'[k]} = {m \in DOMAIN idx : m \in bits[k]}
      BY <1>1, <1>2, <2>3
    <3>2. Selected'[k] = Selected[k]
      BY <1>1, <2>1, <3>1
    <3> QED
      BY <2>3, <3>2 DEF KeysBy
  <2> QED
    BY <2>2, <2>3
<1>6. Selected' = [k \in Key |-> Selected[k] \cup {x \in {e} : k \in KeysBy(by)[x]}]
  BY <1>5 DEF Selected
<1>7. {e} \in SUBSET (Event \ Indexed)
  BY <1>3
<1>8. KeysBy(by) \in {KeysBy("pipeline"), KeysBy("ingest")}
  BY DEF Writer
<1> QED
  BY <1>4, <1>6, <1>7, <1>8 DEF PI!Publish

\* Whatever searches do, the index that they read is one of the abstract index's
\* undisturbed behaviours: whole rows appear in one step, under all the keys of the one or
\* of the other writer, or everything is gone.
THEOREM SearchedIndexIsAbstract == Spec => PI!Spec
<1>1. Init => PI!Init
  BY IndexEmpty DEF Init, PI!Init
<1>2. TypeOK /\ [Next]_vars => [PI!Next]_(PI!vars)
  <2> SUFFICES ASSUME TypeOK, [Next]_vars
               PROVE  PI!Next \/ UNCHANGED PI!vars
    OBVIOUS
  <2>1. CASE \E e \in Event, by \in Writer : Publish(e, by)
    BY <2>1, PublishShown DEF PI!Next
  <2>2. CASE RedisLoss
    <3>1. Indexed' = {} /\ Selected' = PI!Nothing
      BY <2>2 DEF RedisLoss, Indexed, Selected, PI!Nothing
    <3> QED
      BY <3>1 DEF PI!Empty, PI!Next
  <2>3. CASE \E s \in Searcher : Begin(s) \/ SearchStep(s) \/ CallFails(s) \/ Respond(s)
    <3>1. UNCHANGED <<idx, bits>>
      BY <2>3 DEF SearchStep, Begin, BitOp, BitCount, Get, Fetch, Backfill, Sql, CallFails,
                  Respond, Goto, indexVars
    <3> QED
      BY <3>1, IndexUntouched
  <2>4. CASE UNCHANGED vars
    BY <2>4, IndexUntouched DEF vars, indexVars
  <2> QED
    BY <2>1, <2>2, <2>3, <2>4 DEF Next
<1> QED
  BY <1>1, <1>2, TypeCorrect, PTL DEF Spec, PI!Spec

=============================================================================
