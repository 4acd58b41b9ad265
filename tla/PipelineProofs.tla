--------------------------- MODULE PipelineProofs ---------------------------
(***************************************************************************)
(* Theorems about Pipeline for every set of postings, every answer of the  *)
(* sources, every page and commit size and any number of faults.           *)
(***************************************************************************)
EXTENDS Pipeline, FiniteSetTheorems, NaturalLemmas, TLAPS

Place == {"begin", "fetch", "ingest", "commit", "flush", "last_commit", "last_flush",
          "record", "end", "refresh", "asleep"}
Outcome == {"running", "returned", "failed", "killed"}

LEMMA TypeParts ==
    TypeOK <=> /\ pc \in Place /\ primed \in BOOLEAN
               /\ at \in DOMAIN Sources
               /\ page \in Nat \ {0} /\ tries \in 0..3
               /\ postings \in Seq(Posting) /\ error \in BOOLEAN
               /\ handled \in 0..Len(postings) /\ inserted \in 0..handled
               /\ own \subseteq Posting /\ pending \subseteq Posting
               /\ added \subseteq Row /\ records \subseteq Row
               /\ copies \in [Posting -> 0..2]
               /\ credit \in [Name -> Nat]
               /\ outcome \in Outcome /\ faults \in 0..MaxFaults
  BY DEF TypeOK, Place, Outcome

\* The five sources have five names.
LEMMA SourcesFacts ==
    /\ DOMAIN Sources = 1..5 /\ Len(Sources) = 5
    /\ \A i, j \in 1..5 : Sources[i].name = Sources[j].name => i = j
    /\ \A i \in 1..5 : Sources[i].limit \in Nat /\ Sources[i].name \in Name
    /\ \A i \in 1..5 : Sources[i].pages \in Nat \ {0}
<1>1. DOMAIN Sources = 1..5 /\ Len(Sources) = 5
  BY DEF Sources
<1>2. /\ Sources[1].name = "remotive" /\ Sources[2].name = "arbeitnow"
      /\ Sources[3].name = "hackernews" /\ Sources[4].name = "adzuna"
      /\ Sources[5].name = "naukri"
  BY DEF Sources, Remotive, Arbeitnow, HackerNews, Adzuna, Naukri
<1>3. \A i \in 1..5 : i = 1 \/ i = 2 \/ i = 3 \/ i = 4 \/ i = 5
  OBVIOUS
<1>4. \A i, j \in 1..5 : Sources[i].name = Sources[j].name => i = j
  BY <1>2, <1>3
<1>5. /\ Sources[1].limit = 0 /\ Sources[2].limit = 0 /\ Sources[3].limit = HackerLimit
      /\ Sources[4].limit = 0 /\ Sources[5].limit = 0
  BY DEF Sources, Remotive, Arbeitnow, HackerNews, Adzuna, Naukri
<1>6. \A i \in 1..5 : Sources[i].limit \in Nat
  BY <1>3, <1>5, BoundAssumption
<1>7. /\ Sources[1].pages = 1 /\ Sources[2].pages = 1
      /\ Sources[3].pages = HackerLimit \div PageSize + 1
      /\ Sources[4].pages = 1 /\ Sources[5].pages = 1
  BY DEF Sources, Remotive, Arbeitnow, HackerNews, Adzuna, Naukri
<1>8. HackerLimit \div PageSize \in Nat
  BY BoundAssumption
<1>9. \A i \in 1..5 : Sources[i].pages \in Nat \ {0}
  BY <1>3, <1>7, <1>8
<1> QED
  BY <1>1, <1>4, <1>6, <1>9 DEF Name

LEMMA NameFacts ==
    /\ \A n \in Name : \E i \in 1..5 : n = Sources[i].name
    /\ at \in DOMAIN Sources => Source.name \in Name /\ Source.limit \in Nat
  BY SourcesFacts DEF Name, Source

LEMMA PageType ==
    ASSUME NEW i \in 1..5, NEW n \in Nat \ {0}
    PROVE  PageOf(Sources[i], n).postings \in Seq(Posting)
<1>1. Offers[Sources[i].name] \in Seq(Page)
  BY SourcesFacts, SourceAssumption
<1>2. CASE n <= Len(Offers[Sources[i].name])
  <2>1. Offers[Sources[i].name][n] \in Page
    BY <1>1, <1>2
  <2> QED
    BY <1>2, <2>1 DEF PageOf, Page
<1>3. CASE ~(n <= Len(Offers[Sources[i].name]))
  BY <1>3 DEF PageOf, NoHits
<1> QED
  BY <1>2, <1>3

LEMMA CutType ==
    ASSUME at \in DOMAIN Sources, NEW ps \in Seq(Posting)
    PROVE  Cut(Source, ps) \in Seq(Posting)
<1>1. Source.limit \in Nat
  BY NameFacts
<1>2. ASSUME Len(ps) > Source.limit
      PROVE  SubSeq(ps, 1, Source.limit) \in Seq(Posting)
  BY <1>1, <1>2
<1> QED
  BY <1>1, <1>2 DEF Cut

----------------------------------------------------------------------------
\* What holds of the variables of the run that type correctness rests on: a fetch starts
\* with nothing handled, and a row is inserted only where no other was seen.
FetchInv ==
    /\ pc = "fetch" => handled = 0 /\ inserted = 0 /\ tries < 3 /\ ~error
    /\ error => postings = <<>>
RowsInv ==
    /\ IsFiniteSet(own) /\ \A p \in own : copies[p] < 2
    /\ pc \in {"begin", "asleep"} => own = {} /\ added = {}

TypeInv == TypeOK /\ FetchInv /\ RowsInv

LEMMA EmptySeq == <<>> \in Seq(Posting) /\ Len(<<>>) = 0
  OBVIOUS

LEMMA NextSourceType ==
    ASSUME NEW i \in DOMAIN Sources, NextSource(i)
    PROVE  /\ at' \in DOMAIN Sources /\ page' \in Nat \ {0} /\ tries' \in 0..3
           /\ error' \in BOOLEAN /\ postings' \in Seq(Posting)
           /\ handled' \in 0..Len(postings') /\ inserted' \in 0..handled'
<1>1. at' = i /\ page' = 1 /\ tries' = 0 /\ handled' = 0 /\ inserted' = 0
  BY DEF NextSource
<1>2. error' \in BOOLEAN
  BY ZenonT(20) DEF NextSource
<1>3. postings' \in Seq(Posting) /\ Len(postings') = 0
  BY EmptySeq DEF NextSource
<1>4. page' \in Nat \ {0} /\ tries' \in 0..3 /\ 0 \in 0..0
  BY <1>1
<1> QED
  BY <1>1, <1>2, <1>3, <1>4

LEMMA TypeInit == Init => TypeInv
<1> SUFFICES ASSUME Init PROVE TypeInv
  OBVIOUS
<1>1. postings \in Seq(Posting) /\ handled \in 0..Len(postings) /\ inserted \in 0..handled
  BY EmptySeq DEF Init
<1>2. copies \in [Posting -> 0..2] /\ credit \in [Name -> Nat] /\ faults \in 0..MaxFaults
  BY BoundAssumption DEF Init
<1>3. at \in DOMAIN Sources /\ page \in Nat \ {0} /\ tries \in 0..3
  BY SourcesFacts DEF Init
<1>4. TypeOK
  BY <1>1, <1>2, <1>3 DEF Init, TypeOK
<1> QED
  BY <1>4, FS_EmptySet DEF Init, TypeInv, FetchInv, RowsInv

LEMMA TypeEndRun ==
    ASSUME TypeInv, NEW how \in Outcome, EndRun(how),
           UNCHANGED <<at, fetchVars, countVars, copies, records, credit>>,
           faults' \in 0..MaxFaults
    PROVE  TypeInv'
<1>1. pc' \in {"begin", "asleep"} /\ primed' \in BOOLEAN
  BY DEF EndRun
<1>2. TypeOK'
  BY <1>1, TypeParts DEF TypeInv, TypeOK, EndRun, fetchVars, countVars, Outcome
<1> QED
  BY <1>1, <1>2, FS_EmptySet DEF TypeInv, FetchInv, RowsInv, EndRun, fetchVars, countVars

LEMMA TypeNext == TypeInv /\ [Next]_vars => TypeInv'
<1> SUFFICES ASSUME TypeInv, [Next]_vars
             PROVE  TypeInv'
  OBVIOUS
<1> USE DEF TypeInv
<1>1. CASE Wake
  BY <1>1 DEF Wake, TypeOK, FetchInv, RowsInv, fetchVars, countVars, txVars
<1>2. CASE Begin
  <2>1. NextSource(1) /\ 1 \in DOMAIN Sources
    BY <1>2, SourcesFacts DEF Begin
  <2>2. credit' \in [Name -> Nat]
    BY <1>2 DEF Begin
  <2>3. TypeOK'
    BY <1>2, <2>1, <2>2, NextSourceType DEF Begin, TypeOK, txVars
  <2> QED
    BY <1>2, <2>3 DEF Begin, NextSource, FetchInv, RowsInv, txVars
<1>3. CASE SkipSource
  BY <1>3 DEF SkipSource, TypeOK, FetchInv, RowsInv, fetchVars, countVars, txVars
<1>4. CASE Answered
  <2> DEFINE all == postings \o PageOf(Source, page).postings
  <2>1. PageOf(Source, page).postings \in Seq(Posting)
    BY PageType, SourcesFacts DEF TypeOK, Source
  <2>2. all \in Seq(Posting)
    BY <2>1 DEF TypeOK
  <2>3. Cut(Source, all) \in Seq(Posting)
    BY <2>2, CutType DEF TypeOK
  <2>4. pc = "fetch" /\ handled = 0 /\ inserted = 0 /\ ~error
    BY <1>4 DEF Answered, Asking, FetchInv
  <2>5. postings' = Cut(Source, all) /\ pc' \in {"ingest", "fetch"}
    BY <1>4 DEF Answered
  <2> HIDE DEF all
  <2>6. postings' \in Seq(Posting) /\ handled' \in 0..Len(postings')
    BY <1>4, <2>3, <2>4, <2>5 DEF Answered, countVars
  <2>7. page' \in Nat \ {0} /\ tries' = 0
    BY <1>4 DEF Answered, TypeOK
  <2>8. TypeOK'
    BY <1>4, <2>4, <2>5, <2>6, <2>7 DEF Answered, TypeOK, countVars, txVars
  <2> QED
    BY <1>4, <2>4, <2>5, <2>7, <2>8 DEF Answered, FetchInv, RowsInv, countVars, txVars
<1>5. CASE Garbled
  <2>1. faults' \in 0..MaxFaults
    BY <1>5, BoundAssumption DEF Garbled, TypeOK
  <2> QED
    BY <1>5, <2>1 DEF Garbled, SourceFails, Asking, TypeOK, FetchInv, RowsInv, countVars, txVars
<1>6. CASE RequestFails
  <2>1. faults' \in 0..MaxFaults
    BY <1>6, BoundAssumption DEF RequestFails, TypeOK
  <2>2. tries' \in 0..3 /\ pc = "fetch" /\ handled = 0 /\ inserted = 0 /\ ~error
    BY <1>6 DEF RequestFails, Asking, FetchInv, TypeOK
  <2>3. CASE tries' = 3
    <3>1. postings' = <<>> /\ error' = TRUE /\ pc' = "ingest"
      BY <1>6, <2>3 DEF RequestFails, SourceFails
    <3>2. postings' \in Seq(Posting) /\ handled' \in 0..Len(postings') /\ inserted' \in 0..handled'
      BY <1>6, <2>2, <3>1, EmptySeq DEF RequestFails, countVars
    <3>3. TypeOK'
      BY <1>6, <2>1, <2>2, <3>1, <3>2 DEF RequestFails, TypeOK, countVars, txVars
    <3> QED
      BY <1>6, <3>1, <3>3 DEF RequestFails, FetchInv, RowsInv, txVars
  <2>4. CASE tries' # 3
    BY <1>6, <2>1, <2>2, <2>4 DEF RequestFails, TypeOK, FetchInv, RowsInv, countVars, txVars
  <2> QED
    BY <2>3, <2>4
<1>7. CASE IngestRaises
  <2>1. "failed" \in Outcome
    BY DEF Outcome
  <2> QED
    BY <1>7, <2>1, TypeEndRun DEF IngestRaises, TypeOK
<1>8. CASE IngestNext
  <2> DEFINE p == postings[handled + 1]
             new == IF Found(p) = 0 THEN {p} \ Bare ELSE {}
  <2>1. p \in Posting /\ handled \in Nat /\ handled + 1 \in 0..Len(postings)
    BY <1>8 DEF IngestNext, TypeOK
  <2>2. own' = own \cup new /\ pending' = pending \cup new
        /\ inserted' = IF new = {} THEN inserted ELSE inserted + 1
    BY <1>8 DEF IngestNext
  <2>3. new \subseteq Posting /\ \A q \in new : q \in Posting /\ copies[q] = 0
    BY <2>1 DEF Found, TypeOK
  <2> HIDE DEF new, p
  <2>4. inserted' \in 0..(handled + 1)
    BY <2>1, <2>2 DEF TypeOK
  <2>5. pc' \in {"commit", "ingest"} /\ pc = "ingest"
    BY <1>8 DEF IngestNext
  <2>6. TypeOK'
    BY <1>8, <2>1, <2>2, <2>3, <2>4, <2>5 DEF IngestNext, TypeOK, fetchVars
  <2>7. \A q \in own' : copies'[q] < 2
    BY <1>8, <2>2, <2>3 DEF IngestNext, RowsInv
  <2>8. IsFiniteSet(own')
    <3>1. IsFiniteSet(own \cup {p})
      BY FS_AddElement DEF RowsInv
    <3> QED
      BY <2>2, <3>1 DEF new, RowsInv
  <2> QED
    BY <1>8, <2>5, <2>6, <2>7, <2>8 DEF IngestNext, FetchInv, RowsInv, fetchVars
<1>9. CASE IngestDone
  BY <1>9 DEF IngestDone, TypeOK, FetchInv, RowsInv, fetchVars, countVars, txVars
<1>10. ASSUME NEW from \in {"commit", "last_commit", "end"},
              NEW to \in {"flush", "last_flush", "refresh"}, Commit(from, to)
       PROVE  TypeInv'
  <2>1. copies' \in [Posting -> 0..2]
    <3>1. \A p \in Posting : copies[p] + (IF p \in own THEN 1 ELSE 0) \in 0..2
      BY DEF TypeOK, RowsInv
    <3> QED
      BY <1>10, <3>1 DEF Commit
  <2>2. credit' \in [Name -> Nat]
    <3>1. Cardinality(own) \in Nat /\ Source.name \in Name
      BY FS_CardinalityType, NameFacts DEF RowsInv, TypeOK
    <3> QED
      BY <1>10, <3>1 DEF Commit, TypeOK
  <2>3. pc = from /\ pc' = to
    BY <1>10 DEF Commit
  <2>4. TypeOK'
    BY <1>10, <2>1, <2>2, <2>3 DEF Commit, TypeOK, fetchVars, countVars
  <2> QED
    BY <1>10, <2>3, <2>4, FS_EmptySet DEF Commit, FetchInv, RowsInv, fetchVars, countVars
<1>11. ASSUME NEW from \in {"flush", "last_flush"}, NEW to \in {"ingest", "record"}, Flush(from, to)
       PROVE  TypeInv'
  BY <1>11 DEF Flush, TypeOK, FetchInv, RowsInv, fetchVars, countVars
<1>12. CASE CallFails
  <2>1. "failed" \in Outcome /\ faults' \in 0..MaxFaults
    BY <1>12, BoundAssumption DEF CallFails, TypeOK, Outcome
  <2> QED
    BY <1>12, <2>1, TypeEndRun DEF CallFails
<1>13. CASE Record
  <2> DEFINE row == [source |-> Source.name, fetched |-> Len(postings),
                     inserted |-> inserted, skipped |-> handled - inserted, error |-> error]
  <2>1. row \in Row
    BY NameFacts DEF TypeOK, Row
  <2>2. added' = added \cup {row}
    BY <1>13 DEF Record
  <2> HIDE DEF row
  <2>3. added' \subseteq Row
    BY <2>1, <2>2 DEF TypeOK
  <2>4. CASE at < Len(Sources)
    <3>1. NextSource(at + 1) /\ pc' = "fetch" /\ at + 1 \in DOMAIN Sources
      <4>1. at \in 1..5 /\ at < 5
        BY <2>4, SourcesFacts DEF TypeOK
      <4> QED
        BY <1>13, <2>4, <4>1, SourcesFacts DEF Record
    <3>2. TypeOK'
      BY <1>13, <2>3, <3>1, NextSourceType DEF Record, TypeOK
    <3> QED
      BY <1>13, <3>1, <3>2 DEF Record, NextSource, FetchInv, RowsInv
  <2>5. CASE ~(at < Len(Sources))
    BY <1>13, <2>3, <2>5 DEF Record, TypeOK, FetchInv, RowsInv, fetchVars, countVars
  <2> QED
    BY <2>4, <2>5
<1>14. CASE Refresh
  <2>1. "returned" \in Outcome
    BY DEF Outcome
  <2> QED
    BY <1>14, <2>1, TypeEndRun DEF Refresh, TypeOK
<1>15. CASE Killed
  <2>1. faults' \in 0..MaxFaults
    BY <1>15, BoundAssumption DEF Killed, TypeOK
  <2> QED
    BY <1>15, <2>1, FS_EmptySet DEF Killed, TypeOK, FetchInv, RowsInv, fetchVars, countVars
<1>16. CASE \E p \in Posting : OtherStores(p)
  <2>1. PICK p \in Posting : OtherStores(p)
    BY <1>16
  <2>2. copies' \in [Posting -> 0..2] /\ \A q \in own : copies'[q] < 2
    BY <2>1 DEF OtherStores, TypeOK, RowsInv
  <2> QED
    BY <2>1, <2>2 DEF OtherStores, TypeOK, FetchInv, RowsInv, place, fetchVars, countVars, txVars
<1>17. CASE UNCHANGED vars
  BY <1>17 DEF vars, place, TypeOK, FetchInv, RowsInv, fetchVars, countVars, txVars
<1> QED
  BY <1>1, <1>2, <1>3, <1>4, <1>5, <1>6, <1>7, <1>8, <1>9, <1>10, <1>11, <1>12, <1>13, <1>14,
     <1>15, <1>16, <1>17 DEF Next, Work

\* Type correctness: counts stay within what was fetched, at most two rows per posting,
\* whatever the sources answer and wherever a run is cut off.
THEOREM TypeCorrect == Spec => []TypeOK
<1>1. TypeInv => TypeOK
  BY DEF TypeInv
<1> QED
  BY <1>1, TypeInit, TypeNext, PTL DEF Spec

----------------------------------------------------------------------------
\* The sources of a run that have a record, committed or not, are the first ones.
LastRun == IF pc \in {"end", "refresh"} THEN at ELSE at - 1
Logged == records \cup added
Truthful(r) == r.inserted = credit[r.source] /\ (r.error => r.inserted = 0)

LoggedInv ==
    /\ \A r \in Logged : \E j \in 1..LastRun : r.source = Sources[j].name
    /\ \A j \in 1..LastRun : \E r \in Logged : r.source = Sources[j].name
\* A record waits for one commit.
AddedInv ==
    /\ \A r \in added : r.source = Sources[LastRun].name /\ Truthful(r)
    /\ pc \in {"flush", "last_flush", "record", "refresh"} => added = {}
\* The count of a source is what it committed and what its transaction holds.
CountInv ==
    /\ \A j \in 1..5 : j > at => credit[Sources[j].name] = 0
    /\ pc \notin {"end", "refresh"} => inserted = credit[Source.name] + Cardinality(own)
    /\ pc \in {"last_flush", "record", "end", "refresh"} => own = {}

Between == pc \in {"begin", "asleep"}
RunInv == LoggedInv /\ AddedInv /\ CountInv
RecordInv ==
    /\ RecordsTruthful
    /\ ~Between => RunInv
    /\ Between => OnlyLastRecordsMissing
IInv == TypeInv /\ RecordInv

\* Within a run only the last record can be missing, the one that waits.
LEMMA MissingRecords == IInv => OnlyLastRecordsMissing
<1> SUFFICES ASSUME IInv, ~Between, NEW n \in Name, credit[n] > 0, n \notin Recorded
             PROVE  n = Source.name \/ (at > 1 /\ n = Sources[at - 1].name)
  BY DEF IInv, RecordInv, OnlyLastRecordsMissing
<1>1. RunInv /\ at \in 1..5
  BY SourcesFacts DEF IInv, RecordInv, TypeInv, TypeOK
<1>2. PICK i \in 1..5 : n = Sources[i].name
  BY NameFacts
<1>3. i <= at
  <2>1. ~(i > at)
    BY <1>1, <1>2 DEF RunInv, CountInv
  <2> QED
    BY <1>1, <2>1
<1>4. CASE i \in 1..LastRun
  <2>1. PICK r \in Logged : r.source = n
    BY <1>1, <1>2, <1>4 DEF RunInv, LoggedInv
  <2>2. r \in added
    BY <2>1 DEF Logged, Recorded
  <2>3. n = Sources[LastRun].name /\ LastRun \in 1..5
    BY <1>1, <1>4, <2>1, <2>2 DEF RunInv, AddedInv, LastRun
  <2>4. i = LastRun
    BY <1>2, <2>3, SourcesFacts
  <2> QED
    BY <1>1, <1>2, <1>4, <2>4 DEF LastRun, Source
<1>5. CASE i \notin 1..LastRun
  <2>1. i = at
    BY <1>1, <1>3, <1>5 DEF LastRun
  <2> QED
    BY <1>2, <2>1 DEF Source
<1> QED
  BY <1>4, <1>5

LEMMA RecordInit == Init => RecordInv
<1> SUFFICES ASSUME Init PROVE RecordInv
  OBVIOUS
<1>1. \A n \in Name : credit[n] = 0
  BY DEF Init
<1> QED
  BY <1>1 DEF Init, RecordInv, RecordsTruthful, OnlyLastRecordsMissing, Between

\* A step that leaves the counts, the records and the transaction alone.
LEMMA QuietStep ==
    ASSUME IInv, ~Between, UNCHANGED <<at, own, added, records, credit, inserted>>,
           \/ pc' = pc
           \/ pc \in {"fetch", "ingest", "flush"} /\ pc' \in {"fetch", "ingest", "last_commit"}
           \/ pc = "last_flush" /\ pc' = "record"
    PROVE  RecordInv'
<1>1. RunInv /\ ~Between'
  BY DEF IInv, RecordInv, Between
<1>2. LastRun' = LastRun
  BY DEF LastRun
<1>3. LoggedInv'
  BY <1>1, <1>2 DEF RunInv, LoggedInv, Logged
<1>4. AddedInv'
  BY <1>1, <1>2 DEF RunInv, AddedInv, Truthful
<1>5. CountInv'
  BY <1>1 DEF RunInv, CountInv, Source
<1> QED
  BY <1>1, <1>3, <1>4, <1>5 DEF IInv, RecordInv, RunInv, RecordsTruthful

\* The end of a run, however it comes, leaves what was committed.
LEMMA Ends ==
    ASSUME IInv, UNCHANGED <<at, records, credit>>, pc' \in {"begin", "asleep"}
    PROVE  RecordInv'
<1>1. OnlyLastRecordsMissing
  BY MissingRecords
<1>2. OnlyLastRecordsMissing'
  BY <1>1 DEF OnlyLastRecordsMissing, Recorded, Source
<1> QED
  BY <1>2 DEF IInv, RecordInv, RecordsTruthful, Between

LEMMA BeginStep ==
    ASSUME IInv, Begin
    PROVE  RecordInv'
<1>1. pc' = "fetch" /\ at' = 1 /\ records' = {} /\ inserted' = 0 /\ ~Between'
  BY DEF Begin, NextSource, Between
<1>2. own' = {} /\ added' = {}
  BY DEF IInv, TypeInv, RowsInv, Begin, txVars
<1>3. \A n \in Name : credit'[n] = 0
  BY DEF Begin
<1>4. LoggedInv' /\ AddedInv'
  BY <1>1, <1>2 DEF LoggedInv, AddedInv, Logged, LastRun
<1>5. CountInv'
  <2>1. Sources[1].name \in Name /\ Source' = Sources[1] /\ Cardinality(own') = 0
    BY <1>1, <1>2, SourcesFacts, FS_EmptySet DEF Source
  <2>2. \A j \in 1..5 : credit'[Sources[j].name] = 0
    BY <1>3, SourcesFacts
  <2> QED
    BY <1>1, <1>2, <1>3, <2>1, <2>2 DEF CountInv
<1> QED
  BY <1>1, <1>4, <1>5 DEF RecordInv, RunInv, RecordsTruthful

LEMMA IngestStep ==
    ASSUME IInv, IngestNext
    PROVE  RecordInv'
<1> DEFINE p == postings[handled + 1]
           new == IF Found(p) = 0 THEN {p} \ Bare ELSE {}
<1>1. pc = "ingest" /\ pc' \in {"commit", "ingest"} /\ RunInv /\ ~Between'
  BY DEF IngestNext, IInv, RecordInv, Between
<1>2. own' = own \cup new /\ inserted' = IF new = {} THEN inserted ELSE inserted + 1
  BY DEF IngestNext
<1>3. Cardinality(own') = Cardinality(own) + (inserted' - inserted)
  <2>0. inserted \in Nat /\ Cardinality(own) \in Nat
    BY FS_CardinalityType DEF IInv, TypeInv, TypeOK, RowsInv
  <2>1. CASE new = {}
    <3>1. own' = own /\ inserted' = inserted
      BY <1>2, <2>1
    <3> QED
      BY <2>0, <3>1
  <2>2. CASE new # {}
    <3>1. new = {p} /\ p \notin own
      <4>1. new = {p} /\ Found(p) = 0 /\ p \in Posting
        BY <2>2 DEF IngestNext, IInv, TypeInv, TypeOK
      <4>2. copies[p] \in 0..2
        BY <4>1 DEF IInv, TypeInv, TypeOK
      <4> QED
        BY <4>1, <4>2 DEF Found
    <3>2. Cardinality(own \cup {p}) = Cardinality(own) + 1
      BY <3>1, FS_AddElement DEF IInv, TypeInv, RowsInv
    <3> QED
      BY <1>2, <2>0, <2>2, <3>1, <3>2
  <2> QED
    BY <2>1, <2>2
<1> HIDE DEF new, p
<1>4. UNCHANGED <<at, added, records, credit>> /\ LastRun' = LastRun /\ Source' = Source
  BY <1>1 DEF IngestNext, LastRun, Source
<1>5. LoggedInv' /\ AddedInv'
  BY <1>1, <1>4 DEF RunInv, LoggedInv, AddedInv, Logged, Truthful
<1>6. CountInv'
  <2>1. inserted \in Nat /\ Cardinality(own) \in Nat /\ credit[Source.name] \in Nat
    BY FS_CardinalityType, NameFacts DEF IInv, TypeInv, TypeOK, RowsInv
  <2>2. inserted' \in Nat
    BY <1>2, <2>1
  <2>3. inserted = credit[Source.name] + Cardinality(own)
    BY <1>1 DEF RunInv, CountInv
  <2>4. inserted' = credit[Source.name] + Cardinality(own')
    BY <1>3, <2>1, <2>2, <2>3
  <2> QED
    BY <1>1, <1>4, <2>4 DEF RunInv, CountInv
<1> QED
  BY <1>1, <1>4, <1>5, <1>6 DEF IInv, RecordInv, RunInv, RecordsTruthful

LEMMA CommitStep ==
    ASSUME IInv, NEW from, NEW to, Commit(from, to),
           \/ from = "commit" /\ to = "flush"
           \/ from = "last_commit" /\ to = "last_flush"
           \/ from = "end" /\ to = "refresh"
    PROVE  RecordInv'
<1>1. pc = from /\ pc' = to /\ UNCHANGED <<at, inserted>> /\ RunInv /\ ~Between'
  BY DEF Commit, IInv, RecordInv, Between, countVars
<1>2. own' = {} /\ added' = {} /\ records' = Logged /\ Logged' = Logged /\ LastRun' = LastRun
  BY <1>1 DEF Commit, Logged, LastRun
<1>3. credit' = [credit EXCEPT ![Source.name] = @ + Cardinality(own)]
  BY DEF Commit
<1>4. /\ at \in 1..5 /\ LastRun \in 0..at /\ Source.name \in Name /\ Source.name = Sources[at].name
      /\ credit \in [Name -> Nat] /\ Cardinality(own) \in Nat
      /\ Logged \subseteq Row
  <2>1. at \in 1..5
    BY SourcesFacts DEF IInv, TypeInv, TypeOK
  <2>2. Cardinality(own) \in Nat
    BY FS_CardinalityType DEF IInv, TypeInv, RowsInv
  <2>3. Source.name \in Name
    BY NameFacts DEF IInv, TypeInv, TypeOK
  <2> QED
    BY <2>1, <2>2, <2>3 DEF IInv, TypeInv, TypeOK, LastRun, Source, Logged
\* A record is of an earlier source, or nothing is left to commit.
<1>5. \A r \in Logged : credit'[r.source] = credit[r.source]
  <2>1. CASE from = "end"
    <3>1. Cardinality(own) = 0
      BY <1>1, <2>1, FS_EmptySet DEF RunInv, CountInv
    <3>2. credit' = credit
      BY <1>3, <1>4, <3>1
    <3> QED
      BY <3>2
  <2>2. CASE from # "end"
    <3>1. LastRun = at - 1
      BY <1>1, <2>2 DEF LastRun
    <3>2. \A r \in Logged : r.source # Source.name
      BY <1>1, <1>4, <3>1, SourcesFacts DEF RunInv, LoggedInv
    <3> QED
      BY <1>3, <1>4, <3>2 DEF Row
  <2> QED
    BY <2>1, <2>2
<1>6. RecordsTruthful'
  <2>1. \A r \in Logged : Truthful(r)
    BY <1>1 DEF IInv, RecordInv, RecordsTruthful, RunInv, AddedInv, Logged, Truthful
  <2> QED
    BY <1>2, <1>5, <2>1 DEF RecordsTruthful, Truthful
<1>7. LoggedInv' /\ AddedInv'
  BY <1>1, <1>2 DEF RunInv, LoggedInv, AddedInv
<1>8. CountInv'
  <2>1. \A j \in 1..5 : j > at => credit'[Sources[j].name] = credit[Sources[j].name]
    BY <1>3, <1>4, SourcesFacts
  <2>2. from # "end" => inserted' = credit'[Source.name] + Cardinality(own')
    <3>1. Cardinality(own') = 0
      BY <1>2, FS_EmptySet
    <3>2. from # "end" => inserted = credit[Source.name] + Cardinality(own)
      BY <1>1 DEF RunInv, CountInv
    <3>3. credit'[Source.name] = credit[Source.name] + Cardinality(own)
      BY <1>3, <1>4
    <3> QED
      BY <1>1, <1>4, <3>1, <3>2, <3>3
  <2>3. Source' = Source
    BY <1>1 DEF Source
  <2> QED
    BY <1>1, <1>2, <2>1, <2>2, <2>3 DEF RunInv, CountInv
<1> QED
  BY <1>1, <1>6, <1>7, <1>8 DEF RecordInv, RunInv

LEMMA RecordStep ==
    ASSUME IInv, Record
    PROVE  RecordInv'
<1> DEFINE row == [source |-> Source.name, fetched |-> Len(postings),
                   inserted |-> inserted, skipped |-> handled - inserted, error |-> error]
<1>1. pc = "record" /\ RunInv /\ LastRun = at - 1 /\ added = {} /\ own = {} /\ at \in 1..5
  BY SourcesFacts DEF Record, IInv, RecordInv, RunInv, AddedInv, CountInv, Between, LastRun,
     TypeInv, TypeOK
<1>2. added' = {row} /\ UNCHANGED <<own, records, credit>>
  BY <1>1 DEF Record
<1>3. row.source = Source.name /\ row.inserted = inserted /\ row.error = error
  OBVIOUS
<1> HIDE DEF row
<1>4. Source.name = Sources[at].name
  BY DEF Source
<1>5. pc' \in {"fetch", "end"} /\ LastRun' = at /\ ~Between'
  <2>1. CASE at < Len(Sources)
    BY <1>1, <2>1 DEF Record, NextSource, LastRun, Between
  <2>2. CASE ~(at < Len(Sources))
    BY <1>1, <2>2 DEF Record, LastRun, Between
  <2> QED
    BY <2>1, <2>2
<1>6. row.inserted = credit'[row.source] /\ (row.error => row.inserted = 0)
  <2>1. inserted = credit[Source.name]
    <3>1. inserted = credit[Source.name] + Cardinality(own) /\ Cardinality(own) = 0
      BY <1>1, FS_EmptySet DEF RunInv, CountInv
    <3>2. credit[Source.name] \in Nat
      BY NameFacts DEF IInv, TypeInv, TypeOK
    <3> QED
      BY <3>1, <3>2
  <2>2. error => inserted = 0
    BY EmptySeq DEF IInv, TypeInv, TypeOK, FetchInv
  <2> QED
    BY <1>2, <1>3, <2>1, <2>2
<1>7. LoggedInv'
  <2>1. Logged' = Logged \cup {row}
    BY <1>1, <1>2 DEF Logged
  <2>2. /\ \A r \in Logged : \E j \in 1..(at - 1) : r.source = Sources[j].name
        /\ \A j \in 1..(at - 1) : \E r \in Logged : r.source = Sources[j].name
    BY <1>1 DEF RunInv, LoggedInv
  <2> QED
    BY <1>1, <1>3, <1>4, <1>5, <2>1, <2>2 DEF LoggedInv
<1>8. AddedInv'
  <2>1. Sources'[LastRun'] = Sources[at]
    BY <1>5
  <2> QED
    BY <1>2, <1>3, <1>4, <1>5, <1>6, <2>1 DEF AddedInv, Truthful
<1>9. CountInv'
  <2>1. CASE at < Len(Sources)
    <3>1. at' = at + 1 /\ pc' = "fetch" /\ inserted' = 0 /\ at + 1 \in 1..5
      BY <1>1, <2>1, SourcesFacts DEF Record, NextSource
    <3>2. credit[Sources[at + 1].name] = 0 /\ Source' = Sources[at + 1]
      BY <1>1, <3>1 DEF RunInv, CountInv, Source
    <3>3. Cardinality(own') = 0
      BY <1>1, <1>2, FS_EmptySet
    <3>4. \A j \in 1..5 : j > at' => credit'[Sources[j].name] = 0
      BY <1>1, <1>2, <3>1 DEF RunInv, CountInv
    <3> QED
      BY <1>2, <3>1, <3>2, <3>3, <3>4 DEF CountInv
  <2>2. CASE ~(at < Len(Sources))
    <3>1. at' = at /\ pc' = "end"
      BY <2>2 DEF Record
    <3> QED
      BY <1>1, <1>2, <3>1 DEF RunInv, CountInv
  <2> QED
    BY <2>1, <2>2
<1>10. RecordsTruthful'
  BY <1>2 DEF IInv, RecordInv, RecordsTruthful
<1> QED
  BY <1>5, <1>7, <1>8, <1>9, <1>10 DEF RecordInv, RunInv

LEMMA RecordNext == IInv /\ [Next]_vars => IInv'
<1> SUFFICES ASSUME IInv, [Next]_vars
             PROVE  RecordInv'
  BY TypeNext DEF IInv
<1>1. CASE Wake \/ IngestRaises \/ CallFails \/ Refresh \/ Killed
  <2>1. UNCHANGED <<at, records, credit>> /\ pc' \in {"begin", "asleep"}
    BY <1>1 DEF Wake, IngestRaises, CallFails, Refresh, Killed, EndRun
  <2> QED
    BY <2>1, Ends
<1>2. CASE Begin
  BY <1>2, BeginStep
<1>3. CASE SkipSource \/ Answered \/ Garbled \/ RequestFails \/ IngestDone
  <2>1. CASE SkipSource
    BY <2>1, QuietStep DEF SkipSource, Between, txVars, countVars
  <2>2. CASE Answered
    BY <2>2, QuietStep DEF Answered, Asking, Between, txVars, countVars
  <2>3. CASE Garbled
    BY <2>3, QuietStep DEF Garbled, SourceFails, Asking, Between, txVars, countVars
  <2>4. CASE RequestFails
    BY <2>4, QuietStep DEF RequestFails, SourceFails, Asking, Between, txVars, countVars
  <2>5. CASE IngestDone
    BY <2>5, QuietStep DEF IngestDone, Between, txVars, countVars
  <2> QED
    BY <1>3, <2>1, <2>2, <2>3, <2>4, <2>5
<1>4. CASE IngestNext
  BY <1>4, IngestStep
<1>5. ASSUME NEW from, NEW to, Commit(from, to),
             \/ from = "commit" /\ to = "flush"
             \/ from = "last_commit" /\ to = "last_flush"
             \/ from = "end" /\ to = "refresh"
      PROVE  RecordInv'
  BY <1>5, CommitStep
<1>6. CASE Flush("flush", "ingest") \/ Flush("last_flush", "record")
  BY <1>6, QuietStep DEF Flush, Between, countVars
<1>7. CASE Record
  BY <1>7, RecordStep
<1>8. CASE (\E p \in Posting : OtherStores(p)) \/ UNCHANGED vars
  <2>1. UNCHANGED <<pc, at, own, added, records, credit, inserted>>
    BY <1>8 DEF OtherStores, vars, place, txVars, countVars
  <2>2. CASE Between
    BY <2>1, <2>2, Ends DEF Between
  <2>3. CASE ~Between
    BY <2>1, <2>3, QuietStep
  <2> QED
    BY <2>2, <2>3
<1> QED
  BY <1>1, <1>2, <1>3, <1>4, <1>5, <1>6, <1>7, <1>8 DEF Next, Work

LEMMA Invariance == Spec => []IInv
<1>1. Init => IInv
  BY TypeInit, RecordInit DEF IInv
<1> QED
  BY <1>1, RecordNext, PTL DEF Spec

\* A committed run record says how many rows its run committed for that source, and none
\* for a source whose fetch failed, wherever the run was cut off since.
THEOREM RecordsTruthfulCorrect == Spec => []RecordsTruthful
<1>1. IInv => RecordsTruthful
  BY DEF IInv, RecordInv
<1> QED
  BY <1>1, Invariance, PTL

\* Rows without a run record are those of the two sources reached last.
THEOREM OnlyLastRecordsMissingCorrect == Spec => []OnlyLastRecordsMissing
BY Invariance, MissingRecords, PTL

----------------------------------------------------------------------------
\* What a source offers, page by page.

LEMMA PagesRecursion ==
    ASSUME NEW i \in 1..5
    PROVE  /\ Pages(Sources[i]) \in [0..Sources[i].pages -> Seq(Posting)]
           /\ Pages(Sources[i])[0] = <<>>
           /\ \A n \in 1..Sources[i].pages :
                 Pages(Sources[i])[n] =
                    IF n \in Reached(Sources[i])
                    THEN Pages(Sources[i])[n - 1] \o PageOf(Sources[i], n).postings
                    ELSE Pages(Sources[i])[n - 1]
<1> DEFINE f == Sources[i]
           N == f.pages
           V == Seq(Posting)
           Nil == <<>>
           Next1(n, t) == IF n \in Reached(f) THEN t \o PageOf(f, n).postings ELSE t
           Body(g) == [n \in 0..N |-> IF n = 0 THEN Nil ELSE Next1(n, g[n - 1])]
           step == [x \in (1..N) \X V |-> Next1(x[1], x[2])]
           P == Pages(f)
<1>1. N \in Nat /\ Nil \in V
  BY SourcesFacts
<1>2. \A n \in 1..N, t \in V : Next1(n, t) \in V
  <2> SUFFICES ASSUME NEW n \in 1..N, NEW t \in V
               PROVE  Next1(n, t) \in V
    OBVIOUS
  <2>1. PageOf(f, n).postings \in V
    BY <1>1, PageType
  <2> QED
    BY <2>1
<1>3. P = CHOOSE g : g = Body(g)
  BY DEF Pages
<1> HIDE DEF N, V, Nil, P, Next1
<1>4. step \in [(1..N) \X V -> V]
  BY <1>2
<1>5. PICK g \in [0..N -> V] : Recursive(g, N, Nil, step)
  <2> HIDE DEF step
  <2> QED
    BY <1>1, <1>4, Recursion
<1>6. \A n \in 1..N : g[n] = Next1(n, g[n - 1])
  <2>1. \A n \in 1..N : g[n - 1] \in V
    BY <1>1
  <2> QED
    BY <1>5, <2>1 DEF Recursive
<1>7. g = Body(g)
  <2>1. \A n \in 0..N : n = 0 \/ n \in 1..N
    BY <1>1
  <2>2. \A n \in 0..N : g[n] = Body(g)[n]
    BY <1>5, <1>6, <2>1 DEF Recursive
  <2> QED
    BY <2>2
<1>8. P = Body(P)
  <2> HIDE DEF Body
  <2> QED
    BY <1>3, <1>7
<1>9. DOMAIN P = 0..N /\ P[0] = Nil /\ \A n \in 1..N : P[n] = Next1(n, P[n - 1])
  <2>1. \A n \in 0..N : P[n] = IF n = 0 THEN Nil ELSE Next1(n, P[n - 1])
    BY <1>8
  <2>2. 0 \in 0..N /\ \A n \in 1..N : n \in 0..N /\ n # 0
    BY <1>1
  <2>3. DOMAIN P = 0..N
    BY <1>8
  <2> QED
    BY <2>1, <2>2, <2>3
<1>10. \A n \in 0..N : P[n] \in V
  <2> DEFINE S == {n \in Nat : n <= N => P[n] \in V}
  <2>1. 0 \in S
    BY <1>1, <1>9
  <2>2. ASSUME NEW n \in Nat, n \in S
        PROVE  n + 1 \in S
    <3> SUFFICES ASSUME n + 1 <= N PROVE P[n + 1] \in V
      OBVIOUS
    <3>1. P[n] \in V /\ n + 1 \in 1..N /\ (n + 1) - 1 = n
      BY <1>1, <2>2
    <3>2. P[n + 1] = Next1(n + 1, P[n])
      BY <1>9, <3>1
    <3> QED
      BY <1>2, <3>1, <3>2
  <2>3. Nat \subseteq S
    <3> HIDE DEF S
    <3> QED
      BY <2>1, <2>2, Induction
  <2> QED
    BY <1>1, <2>3
<1>11. P \in [0..N -> V]
  BY <1>8, <1>9, <1>10
<1> QED
  BY <1>9, <1>11 DEF N, V, Nil, P, Next1

\* More pages only add postings at the end,
Begins(t, s) == Len(s) <= Len(t) /\ \A j \in 1..Len(s) : t[j] = s[j]

LEMMA PagesBegin ==
    ASSUME NEW i \in 1..5, NEW k \in 0..Sources[i].pages, NEW m \in k..Sources[i].pages
    PROVE  Begins(Pages(Sources[i])[m], Pages(Sources[i])[k])
<1> DEFINE f == Sources[i]
           N == f.pages
           P == Pages(f)
           S == {d \in Nat : k + d <= N => Begins(P[k + d], P[k])}
<1>1. N \in Nat /\ k \in Nat
  BY SourcesFacts
<1>2. P \in [0..N -> Seq(Posting)]
  BY PagesRecursion
<1>3. \A n \in 1..N :
         P[n] = P[n - 1] \/ \E s \in Seq(Posting) : P[n] = P[n - 1] \o s
  <2> SUFFICES ASSUME NEW n \in 1..N
               PROVE  P[n] = P[n - 1] \/ \E s \in Seq(Posting) : P[n] = P[n - 1] \o s
    OBVIOUS
  <2>1. PageOf(f, n).postings \in Seq(Posting)
    BY <1>1, PageType
  <2> QED
    BY <2>1, PagesRecursion
<1> HIDE DEF N, P
<1>4. 0 \in S
  BY <1>1, <1>2 DEF Begins
<1>5. ASSUME NEW d \in Nat, d \in S
      PROVE  d + 1 \in S
  <2> SUFFICES ASSUME k + (d + 1) <= N PROVE Begins(P[k + (d + 1)], P[k])
    OBVIOUS
  <2>1. k + d \in 0..N /\ k + (d + 1) \in 1..N /\ (k + (d + 1)) - 1 = k + d /\ k \in 0..N
    BY <1>1
  <2>2. Begins(P[k + d], P[k])
    BY <1>1, <1>5
  <2>3. P[k] \in Seq(Posting) /\ P[k + d] \in Seq(Posting)
    BY <1>2, <2>1
  <2>4. CASE P[k + (d + 1)] = P[k + d]
    BY <2>2, <2>4
  <2>5. CASE \E s \in Seq(Posting) : P[k + (d + 1)] = P[k + d] \o s
    BY <2>2, <2>3, <2>5 DEF Begins
  <2> QED
    BY <1>3, <2>1, <2>4, <2>5
<1>6. Nat \subseteq S
  <2> HIDE DEF S
  <2> QED
    BY <1>4, <1>5, Induction
<1>7. m - k \in Nat /\ k + (m - k) = m /\ m <= N
  BY <1>1 DEF N
<1>8. Begins(P[m], P[k])
  BY <1>6, <1>7
<1> QED
  BY <1>8 DEF P

\* and nothing after the first empty one.
LEMMA PagesEnd ==
    ASSUME NEW i \in 1..5, NEW k \in 1..Sources[i].pages, PageOf(Sources[i], k) = NoHits
    PROVE  Pages(Sources[i])[Sources[i].pages] = Pages(Sources[i])[k - 1]
<1> DEFINE f == Sources[i]
           N == f.pages
           P == Pages(f)
           S == {d \in Nat : (k - 1) + d <= N => P[(k - 1) + d] = P[k - 1]}
<1>1. N \in Nat /\ k \in Nat /\ k - 1 \in Nat
  BY SourcesFacts
<1>2. \A n \in k..N : P[n] = P[n - 1]
  <2> SUFFICES ASSUME NEW n \in k..N
               PROVE  P[n] = P[n - 1]
    OBVIOUS
  <2>1. n \in 1..N /\ k \in 1..n
    BY <1>1
  <2>2. n \notin Reached(f)
    BY <2>1 DEF Reached
  <2> QED
    BY <2>1, <2>2, PagesRecursion
<1> HIDE DEF N, P
<1>3. 0 \in S
  BY <1>1
<1>4. ASSUME NEW d \in Nat, d \in S
      PROVE  d + 1 \in S
  <2> SUFFICES ASSUME (k - 1) + (d + 1) <= N PROVE P[(k - 1) + (d + 1)] = P[k - 1]
    OBVIOUS
  <2>1. (k - 1) + (d + 1) \in k..N /\ ((k - 1) + (d + 1)) - 1 = (k - 1) + d
    BY <1>1
  <2>2. P[(k - 1) + d] = P[k - 1]
    BY <1>1, <1>4
  <2> QED
    BY <1>2, <2>1, <2>2
<1>5. Nat \subseteq S
  <2> HIDE DEF S
  <2> QED
    BY <1>3, <1>4, Induction
<1>6. N - (k - 1) \in Nat /\ (k - 1) + (N - (k - 1)) = N
  BY <1>1 DEF N
<1>7. P[N] = P[k - 1]
  BY <1>5, <1>6
<1> QED
  BY <1>7 DEF P, N

\* What the limit leaves.
LEMMA CutSet ==
    ASSUME NEW i \in 1..5, NEW ps \in Seq(Posting)
    PROVE  ToSet(Cut(Sources[i], ps)) =
              {ps[j] : j \in {k \in 1..Len(ps) : Sources[i].limit > 0 => k <= Sources[i].limit}}
<1> DEFINE l == Sources[i].limit
<1>1. l \in Nat
  BY SourcesFacts
<1>2. CASE l > 0 /\ Len(ps) > l
  <2>1. Cut(Sources[i], ps) = SubSeq(ps, 1, l)
    BY <1>2 DEF Cut
  <2>2. DOMAIN SubSeq(ps, 1, l) = 1..l /\ \A j \in 1..l : SubSeq(ps, 1, l)[j] = ps[j]
    BY <1>1, <1>2
  <2>3. {k \in 1..Len(ps) : l > 0 => k <= l} = 1..l
    BY <1>1, <1>2
  <2> QED
    BY <2>1, <2>2, <2>3 DEF ToSet
<1>3. CASE ~(l > 0 /\ Len(ps) > l)
  <2>1. Cut(Sources[i], ps) = ps
    BY <1>3 DEF Cut
  <2>2. {k \in 1..Len(ps) : l > 0 => k <= l} = DOMAIN ps
    <3>1. Len(ps) \in Nat /\ DOMAIN ps = 1..Len(ps)
      OBVIOUS
    <3>2. \A k \in 1..Len(ps) : l > 0 => k <= l
      BY <1>1, <1>3, <3>1
    <3> QED
      BY <3>1, <3>2
  <2> QED
    BY <2>1, <2>2 DEF ToSet
<1> QED
  BY <1>2, <1>3

\* Whenever the fetch goes on, it has the pages so far, and stays below the limit;
LEMMA FetchGoesOn ==
    ASSUME NEW i \in 1..5, NEW n \in 1..Sources[i].pages,
           \A m \in 1..(n - 1) : PageOf(Sources[i], m) # NoHits,
           NEW all, all = Pages(Sources[i])[n - 1] \o PageOf(Sources[i], n).postings
    PROVE  /\ all = Pages(Sources[i])[n] /\ all \in Seq(Posting)
           /\ ~Enough(Sources[i], n, all) =>
                 /\ n + 1 <= Sources[i].pages /\ PageOf(Sources[i], n) # NoHits
                 /\ Sources[i].limit > 0 => Len(all) < Sources[i].limit
                 /\ Cut(Sources[i], all) = all
<1> DEFINE f == Sources[i]
<1>1. f.pages \in Nat /\ f.limit \in Nat
  BY SourcesFacts
<1>2. Pages(f)[n - 1] \in Seq(Posting) /\ Pages(f)[n] \in Seq(Posting)
  <2>1. n - 1 \in 0..f.pages /\ n \in 0..f.pages
    BY <1>1
  <2> QED
    BY <2>1, PagesRecursion
<1>3. all = Pages(f)[n]
  <2>1. CASE PageOf(f, n) = NoHits
    <3>1. n \notin Reached(f)
      BY <2>1 DEF Reached
    <3>2. PageOf(f, n).postings = <<>>
      BY <2>1 DEF NoHits
    <3>3. all = Pages(f)[n - 1]
      BY <1>2, <3>2
    <3> QED
      BY <3>1, <3>3, PagesRecursion
  <2>2. CASE PageOf(f, n) # NoHits
    <3>1. \A m \in 1..n : m = n \/ m \in 1..(n - 1)
      BY <1>1
    <3>2. n \in Reached(f)
      BY <2>2, <3>1 DEF Reached
    <3> QED
      BY <3>2, PagesRecursion
  <2> QED
    BY <2>1, <2>2
<1>4. Len(all) \in Nat
  BY <1>2, <1>3
<1> QED
  BY <1>1, <1>2, <1>3, <1>4 DEF Enough, Cut

\* whenever it is over, it has all that the source offers.
LEMMA FetchIsOver ==
    ASSUME NEW i \in 1..5, NEW n \in 1..Sources[i].pages,
           \A m \in 1..(n - 1) : PageOf(Sources[i], m) # NoHits,
           NEW all, all = Pages(Sources[i])[n - 1] \o PageOf(Sources[i], n).postings,
           Enough(Sources[i], n, all)
    PROVE  Offered(Sources[i]) \subseteq ToSet(Cut(Sources[i], all))
<1> DEFINE f == Sources[i]
           whole == Pages(f)[f.pages]
<1>1. f.pages \in Nat /\ f.limit \in Nat
  BY SourcesFacts
<1>2. all = Pages(f)[n] /\ all \in Seq(Posting)
  BY FetchGoesOn
<1>3. whole \in Seq(Posting)
  BY <1>1, PagesRecursion
<1>4. CASE f.limit > 0 /\ Len(all) >= f.limit
  <2>1. Begins(whole, all)
    BY <1>1, <1>2, PagesBegin
  <2>2. Len(all) \in Nat /\ Len(whole) \in Nat
    BY <1>2, <1>3
  <2>3. ASSUME NEW j \in 1..Len(whole), j <= f.limit
        PROVE  j \in 1..Len(all) /\ whole[j] = all[j]
    <3> HIDE DEF whole
    <3>1. f.limit \in Nat /\ j \in Nat /\ j >= 1
      BY <1>1, <2>2
    <3>2. j <= f.limit /\ f.limit <= Len(all)
      BY <1>1, <1>4, <2>2, <2>3
    <3>3. j \in 1..Len(all)
      <4> DEFINE l == f.limit
                 c == Len(all)
      <4>1. l \in Nat /\ c \in Nat /\ j \in Nat /\ j >= 1 /\ j <= l /\ l <= c
        BY <2>2, <3>1, <3>2
      <4> HIDE DEF l, c
      <4>2. j \in 1..c
        BY <4>1
      <4> QED
        BY <4>2 DEF c
    <3> QED
      BY <2>1, <3>3 DEF Begins
  <2>4. ToSet(Cut(f, whole)) \subseteq ToSet(Cut(f, all))
    <3> HIDE DEF whole
    <3>1. ToSet(Cut(f, all)) =
             {all[j] : j \in {k \in 1..Len(all) : f.limit > 0 => k <= f.limit}}
      BY <1>2, CutSet
    <3>2. ToSet(Cut(f, whole)) =
             {whole[j] : j \in {k \in 1..Len(whole) : f.limit > 0 => k <= f.limit}}
      BY <1>3, CutSet
    <3> QED
      BY <1>4, <2>3, <3>1, <3>2
  <2> QED
    BY <2>4 DEF Offered, whole
<1>5. CASE PageOf(f, n) = NoHits
  <2>1. whole = Pages(f)[n - 1]
    BY <1>5, PagesEnd
  <2>2. Pages(f)[n] = Pages(f)[n - 1]
    <3>1. n \notin Reached(f)
      BY <1>5 DEF Reached
    <3> QED
      BY <3>1, PagesRecursion
  <2> QED
    BY <1>2, <2>1, <2>2 DEF Offered
<1>6. CASE n = f.pages
  BY <1>2, <1>6 DEF Offered
<1> QED
  BY <1>4, <1>5, <1>6 DEF Enough

----------------------------------------------------------------------------
\* What a run has stored.  Page by page, the fetch has what the pages before hold;
PagesInv ==
    pc = "fetch" =>
        /\ page <= Source.pages
        /\ postings = Pages(Source)[page - 1]
        /\ \A m \in 1..(page - 1) : PageOf(Source, m) # NoHits
        /\ Source.limit > 0 => Len(postings) < Source.limit
\* after it, all that is on offer is there, or it failed; what was handled is in the
\* table, in the transaction, or not worth a row;
Ingesting == pc \in {"ingest", "commit", "flush", "last_commit", "last_flush", "record"}
KeptInv ==
    Ingesting =>
        /\ error \/ Offered(Source) \subseteq ToSet(postings)
        /\ \A i \in 1..handled : postings[i] \in Stored \cup Bare \cup own
        /\ pc \in {"last_commit", "last_flush", "record"} => handled = Len(postings)
\* a record without an error, committed or not, is of a source that is stored;
StoredInv ==
    \A r \in Logged : \A i \in 1..5 :
        Sources[i].name = r.source /\ ~r.error => Offered(Sources[i]) \subseteq Stored \cup Bare
\* and a run ends after its last source.
ReturnInv ==
    /\ pc \in {"end", "refresh"} => at = 5
    /\ outcome = "returned" => Between /\ Recorded = Name
StoreInv == PagesInv /\ KeptInv /\ StoredInv /\ ReturnInv

LEMMA StoreInit == Init => StoreInv
  BY DEF Init, StoreInv, PagesInv, KeptInv, Ingesting, StoredInv, Logged, ReturnInv

\* No step removes a row.
LEMMA StoredGrows ==
    ASSUME IInv, [Next]_vars
    PROVE  Stored \subseteq Stored'
<1>1. \A p \in Posting : copies[p] \in 0..2
  BY DEF IInv, TypeInv, TypeOK
<1>2. CASE UNCHANGED copies
  BY <1>2 DEF Stored
<1>3. ASSUME NEW from, NEW to, Commit(from, to)
      PROVE  Stored \subseteq Stored'
  BY <1>1, <1>3 DEF Commit, Stored
<1>4. CASE \E p \in Posting : OtherStores(p)
  BY <1>1, <1>4 DEF OtherStores, Stored, IInv, TypeInv, TypeOK
<1> QED
  BY <1>2, <1>3, <1>4 DEF Next, Work, Wake, Begin, SkipSource, Answered, Garbled, RequestFails,
     IngestRaises, IngestNext, IngestDone, Flush, CallFails, Record, Refresh, Killed, vars

LEMMA RecordsKept ==
    ASSUME IInv, StoredInv, [Next]_vars, Logged' \subseteq Logged
    PROVE  StoredInv'
<1>1. Stored \subseteq Stored'
  BY StoredGrows
<1> QED
  BY <1>1 DEF StoredInv

\* The fetch of a source starts with its first page.
LEMMA PagesStart ==
    ASSUME NEW i \in 1..5, NextSource(i)
    PROVE  PagesInv'
<1>1. at' = i /\ page' = 1 /\ postings' = <<>> /\ Source' = Sources[i]
  BY DEF NextSource, Source
<1>2. Sources[i].pages \in Nat \ {0} /\ Sources[i].limit \in Nat
  BY SourcesFacts
<1>3. Pages(Sources[i])[0] = <<>>
  BY PagesRecursion
<1>4. 1 - 1 = 0 /\ 1..0 = {} /\ Len(<<>>) = 0
  OBVIOUS
<1> QED
  BY <1>1, <1>2, <1>3, <1>4 DEF PagesInv

\* The end of a run that does not return.
LEMMA StoreEnds ==
    ASSUME IInv, StoreInv, [Next]_vars, pc' \in {"begin", "asleep"}, records' = records,
           added' = {}, outcome' # "returned"
    PROVE  StoreInv'
<1>1. StoredInv'
  BY RecordsKept DEF StoreInv, Logged
<1> QED
  BY <1>1 DEF StoreInv, PagesInv, KeptInv, Ingesting, ReturnInv

LEMMA StoreWake ==
    ASSUME IInv, StoreInv, Wake
    PROVE  StoreInv'
<1>1. StoredInv'
  BY RecordsKept DEF Wake, StoreInv, Logged, txVars, Next, Work
<1> QED
  BY <1>1 DEF Wake, StoreInv, PagesInv, KeptInv, Ingesting, ReturnInv, Between, Recorded

LEMMA StoreBegin ==
    ASSUME IInv, Begin
    PROVE  StoreInv'
<1>1. pc' = "fetch" /\ NextSource(1) /\ records' = {} /\ outcome' = "running"
  BY DEF Begin
<1>2. added' = {}
  BY DEF Begin, IInv, TypeInv, RowsInv, txVars
<1>3. PagesInv'
  BY <1>1, PagesStart
<1> QED
  BY <1>1, <1>2, <1>3 DEF StoreInv, KeptInv, Ingesting, StoredInv, Logged, ReturnInv

\* In the midst of a run.
LEMMA Running ==
    ASSUME IInv, StoreInv, ~Between
    PROVE  /\ at \in 1..5 /\ Source = Sources[at] /\ outcome # "returned" /\ RunInv
           /\ handled \in Nat /\ page \in Nat \ {0}
           /\ pc = "fetch" => handled = 0 /\ ~error
  BY SourcesFacts DEF IInv, TypeInv, TypeOK, FetchInv, StoreInv, ReturnInv, Source, RecordInv

\* A step that ends the fetch.
LEMMA FetchEnds ==
    ASSUME IInv, StoreInv, [Next]_vars, pc = "fetch", pc' = "ingest",
           UNCHANGED <<at, handled, added, records, outcome>>,
           error' \/ Offered(Source) \subseteq ToSet(postings')
    PROVE  StoreInv'
<1>1. handled = 0 /\ outcome # "returned"
  BY Running DEF Between
<1>2. StoredInv'
  BY RecordsKept DEF StoreInv, Logged
<1>3. Source' = Source
  BY DEF Source
<1>4. KeptInv'
  BY <1>1, <1>3 DEF KeptInv
<1> QED
  BY <1>1, <1>2, <1>4 DEF StoreInv, PagesInv, ReturnInv

LEMMA StoreSkip ==
    ASSUME IInv, StoreInv, SkipSource
    PROVE  StoreInv'
<1>1. Offered(Source) = {}
  BY DEF SkipSource, Offered
<1>2. /\ pc = "fetch" /\ pc' = "ingest" /\ UNCHANGED <<at, handled, added, records, outcome>>
      /\ [Next]_vars
  BY DEF SkipSource, countVars, txVars, Next, Work
<1> QED
  BY <1>1, <1>2, FetchEnds

LEMMA StoreAnswered ==
    ASSUME IInv, StoreInv, Answered
    PROVE  StoreInv'
<1> DEFINE all == postings \o PageOf(Source, page).postings
<1>1. /\ pc = "fetch" /\ postings' = Cut(Source, all) /\ page' = page + 1
      /\ pc' = IF Enough(Source, page, all) THEN "ingest" ELSE "fetch"
      /\ UNCHANGED <<at, handled, added, records, outcome>> /\ [Next]_vars
  BY DEF Answered, Asking, countVars, txVars, Next, Work
<1>2. at \in 1..5 /\ Source = Sources[at] /\ page \in Nat \ {0} /\ outcome # "returned"
  BY <1>1, Running DEF Between
<1>3. /\ page <= Source.pages /\ Source.pages \in Nat
      /\ all = Pages(Source)[page - 1] \o PageOf(Source, page).postings
      /\ \A m \in 1..(page - 1) : PageOf(Source, m) # NoHits
  BY <1>1, <1>2, SourcesFacts DEF StoreInv, PagesInv
<1>4. page \in 1..Source.pages
  BY <1>2, <1>3
<1> HIDE DEF all
<1>5. /\ all = Pages(Source)[page] /\ all \in Seq(Posting)
      /\ ~Enough(Source, page, all) =>
            /\ page + 1 <= Source.pages /\ PageOf(Source, page) # NoHits
            /\ Source.limit > 0 => Len(all) < Source.limit
            /\ Cut(Source, all) = all
  BY <1>2, <1>3, <1>4, FetchGoesOn
<1>6. CASE Enough(Source, page, all)
  <2>1. Offered(Source) \subseteq ToSet(postings')
    BY <1>1, <1>2, <1>3, <1>4, <1>6, FetchIsOver
  <2> QED
    BY <1>1, <1>6, <2>1, FetchEnds
<1>7. CASE ~Enough(Source, page, all)
  <2>1. pc' = "fetch" /\ postings' = all /\ Source' = Source
    BY <1>1, <1>5, <1>7 DEF Source
  <2>2. page' - 1 = page
    BY <1>1, <1>2
  <2>3. \A m \in 1..page : PageOf(Source, m) # NoHits
    <3>1. \A m \in 1..page : m = page \/ m \in 1..(page - 1)
      BY <1>2
    <3> QED
      BY <1>3, <1>5, <1>7, <3>1
  <2>4. PagesInv'
    BY <1>1, <1>5, <1>7, <2>1, <2>2, <2>3 DEF PagesInv
  <2>5. StoredInv'
    BY <1>1, RecordsKept DEF StoreInv, Logged
  <2> QED
    BY <1>1, <1>2, <2>1, <2>4, <2>5 DEF StoreInv, KeptInv, Ingesting, ReturnInv
<1> QED
  BY <1>6, <1>7

\* A step that changes nothing of what the invariant speaks of.
LEMMA StoreQuiet ==
    ASSUME IInv, StoreInv, [Next]_vars,
           UNCHANGED <<pc, at, page, postings, error, handled, own, added, records, outcome>>
    PROVE  StoreInv'
<1>1. StoredInv' /\ Stored \subseteq Stored'
  BY RecordsKept, StoredGrows DEF StoreInv, Logged
<1>2. PagesInv'
  BY DEF StoreInv, PagesInv, Source
<1>3. KeptInv'
  BY <1>1 DEF StoreInv, KeptInv, Ingesting, Source
<1> QED
  BY <1>1, <1>2, <1>3 DEF StoreInv, ReturnInv, Between, Recorded

\* A fetch that fails offers nothing to ingest.
LEMMA StoreFails ==
    ASSUME IInv, StoreInv, Garbled \/ RequestFails
    PROVE  StoreInv'
<1>1. /\ pc = "fetch" /\ UNCHANGED <<at, handled, own, added, records, outcome>>
      /\ [Next]_vars
  BY DEF Garbled, RequestFails, Asking, countVars, txVars, Next
<1>2. CASE SourceFails
  BY <1>1, <1>2, FetchEnds DEF SourceFails
<1>3. CASE ~SourceFails
  <2>1. UNCHANGED <<pc, page, postings, error>>
    BY <1>3 DEF Garbled, RequestFails
  <2> QED
    BY <1>1, <2>1, StoreQuiet
<1> QED
  BY <1>2, <1>3

\* A step of the loop over the postings, or of a commit or flush in it.
LEMMA StoreIngest ==
    ASSUME IInv, StoreInv, IngestNext
    PROVE  StoreInv'
<1> DEFINE p == postings[handled + 1]
           new == IF Found(p) = 0 THEN {p} \ Bare ELSE {}
<1>1. /\ pc = "ingest" /\ pc' \in {"commit", "ingest"} /\ handled < Len(postings)
      /\ Found(p) < 2 /\ own' = own \cup new /\ handled' = handled + 1
      /\ UNCHANGED <<at, postings, error, added, records, outcome, copies>> /\ [Next]_vars
  BY DEF IngestNext, fetchVars, Next, Work
<1>2. handled \in Nat /\ outcome # "returned" /\ p \in Posting
  BY <1>1, Running DEF Between, IInv, TypeInv, TypeOK
<1>3. p \in Stored \cup Bare \cup own'
  <2>1. copies[p] \in 0..2
    BY <1>2 DEF IInv, TypeInv, TypeOK
  <2>2. CASE Found(p) = 0
    BY <1>1, <2>2
  <2>3. CASE Found(p) # 0
    <3>1. copies[p] > 0 \/ p \in own
      BY <2>1, <2>3 DEF Found
    <3> QED
      BY <1>1, <1>2, <3>1 DEF Stored
  <2> QED
    BY <2>2, <2>3
<1> HIDE DEF p, new
<1>4. ASSUME NEW i \in 1..(handled + 1)
      PROVE  postings[i] \in Stored \cup Bare \cup own'
  <2>1. CASE i = handled + 1
    BY <1>3, <2>1 DEF p
  <2>2. CASE i # handled + 1
    <3>1. i \in 1..handled
      BY <1>2, <2>2
    <3> QED
      BY <1>1, <3>1 DEF StoreInv, KeptInv, Ingesting
  <2> QED
    BY <2>1, <2>2
<1>5. Stored' = Stored /\ Source' = Source
  BY <1>1 DEF Stored, Source
<1>6. KeptInv'
  BY <1>1, <1>4, <1>5 DEF StoreInv, KeptInv, Ingesting
<1>7. StoredInv'
  BY <1>1, RecordsKept DEF StoreInv, Logged
<1> QED
  BY <1>1, <1>2, <1>6, <1>7 DEF StoreInv, PagesInv, ReturnInv

LEMMA StoreMoves ==
    ASSUME IInv, StoreInv,
           \/ IngestDone
           \/ Flush("flush", "ingest")
           \/ Flush("last_flush", "record")
    PROVE  StoreInv'
<1>1. /\ UNCHANGED <<at, postings, error, handled, own, added, records, outcome, copies>>
      /\ Ingesting /\ Ingesting' /\ [Next]_vars
  BY DEF IngestDone, Flush, Ingesting, fetchVars, countVars, txVars, Next, Work
<1>2. pc' \in {"last_commit", "last_flush", "record"} =>
         \/ pc \in {"last_commit", "last_flush", "record"}
         \/ handled = Len(postings)
  BY DEF IngestDone, Flush
<1>3. Stored' = Stored /\ Source' = Source
  BY <1>1 DEF Stored, Source
<1>4. KeptInv'
  BY <1>1, <1>2, <1>3 DEF StoreInv, KeptInv
<1>5. StoredInv'
  BY <1>1, RecordsKept DEF StoreInv, Logged
<1>6. outcome # "returned"
  BY <1>1, Running DEF Between, Ingesting
<1> QED
  BY <1>1, <1>4, <1>5, <1>6 DEF StoreInv, PagesInv, ReturnInv, Ingesting

\* A commit makes rows of what the transaction holds.
LEMMA StoreCommit ==
    ASSUME IInv, StoreInv, [Next]_vars, NEW from, NEW to, Commit(from, to),
           \/ from = "commit" /\ to = "flush"
           \/ from = "last_commit" /\ to = "last_flush"
           \/ from = "end" /\ to = "refresh"
    PROVE  StoreInv'
<1>1. /\ pc = from /\ pc' = to /\ own' = {} /\ Logged' = Logged
      /\ UNCHANGED <<at, postings, error, handled, outcome>>
  BY DEF Commit, Logged, fetchVars, countVars
<1>2. own \subseteq Stored' /\ Stored \subseteq Stored'
  <2>1. \A p \in Posting : copies[p] \in 0..2
    BY DEF IInv, TypeInv, TypeOK
  <2>2. own \subseteq Posting /\ \A p \in own : copies'[p] = copies[p] + 1
    BY DEF Commit, IInv, TypeInv, TypeOK
  <2>3. own \subseteq Stored'
    BY <2>1, <2>2 DEF Stored
  <2> QED
    BY <2>3, StoredGrows
<1>3. StoredInv'
  BY <1>1, RecordsKept DEF StoreInv
<1>4. KeptInv'
  <2>1. Source' = Source
    BY <1>1 DEF Source
  <2> QED
    BY <1>1, <1>2, <2>1 DEF StoreInv, KeptInv, Ingesting
<1>5. outcome # "returned"
  BY <1>1, Running DEF Between
<1> QED
  BY <1>1, <1>3, <1>4, <1>5 DEF StoreInv, PagesInv, ReturnInv

\* The record is written when all of the source is committed.
LEMMA StoreRecord ==
    ASSUME IInv, StoreInv, Record
    PROVE  StoreInv'
<1> DEFINE row == [source |-> Source.name, fetched |-> Len(postings),
                   inserted |-> inserted, skipped |-> handled - inserted, error |-> error]
<1>1. /\ pc = "record" /\ added' = added \cup {row}
      /\ UNCHANGED <<records, copies, outcome>> /\ [Next]_vars
  BY DEF Record, Next, Work
<1>2. at \in 1..5 /\ Source = Sources[at] /\ outcome # "returned" /\ own = {}
  BY <1>1, Running DEF Between, RunInv, CountInv
<1>3. row.source = Source.name /\ row.error = error
  OBVIOUS
<1> HIDE DEF row
<1>4. ~error => Offered(Source) \subseteq Stored \cup Bare
  <2>1. /\ error \/ Offered(Source) \subseteq ToSet(postings)
        /\ \A i \in 1..handled : postings[i] \in Stored \cup Bare
        /\ handled = Len(postings)
    BY <1>1, <1>2 DEF StoreInv, KeptInv, Ingesting
  <2>2. DOMAIN postings = 1..Len(postings)
    BY DEF IInv, TypeInv, TypeOK
  <2> QED
    BY <2>1, <2>2 DEF ToSet
<1>5. StoredInv'
  <2>1. Logged' = Logged \cup {row} /\ Stored' = Stored
    BY <1>1 DEF Logged, Stored
  <2>2. \A i \in 1..5 : Sources[i].name = Source.name => i = at
    BY <1>2, SourcesFacts
  <2> QED
    BY <1>2, <1>3, <1>4, <2>1, <2>2 DEF StoreInv, StoredInv
<1>6. CASE at < Len(Sources)
  <2>1. NextSource(at + 1) /\ pc' = "fetch" /\ at + 1 \in 1..5
    BY <1>2, <1>6, SourcesFacts DEF Record
  <2>2. PagesInv'
    BY <2>1, PagesStart
  <2> QED
    BY <1>1, <1>2, <1>5, <2>1, <2>2 DEF StoreInv, KeptInv, Ingesting, ReturnInv
<1>7. CASE ~(at < Len(Sources))
  <2>1. pc' = "end" /\ at' = at /\ at = 5
    BY <1>2, <1>7, SourcesFacts DEF Record
  <2> QED
    BY <1>1, <1>2, <1>5, <2>1 DEF StoreInv, PagesInv, KeptInv, Ingesting, ReturnInv
<1> QED
  BY <1>6, <1>7

\* A run that comes to its refresh has committed the records of all sources.
LEMMA StoreReturns ==
    ASSUME IInv, StoreInv, Refresh
    PROVE  StoreInv'
<1>1. /\ pc = "refresh" /\ pc' \in {"begin", "asleep"} /\ added' = {} /\ records' = records
      /\ [Next]_vars
  BY DEF Refresh, EndRun, Next, Work
<1>2. at = 5 /\ added = {} /\ LoggedInv /\ records \subseteq Row
  BY <1>1, Running DEF Between, RunInv, AddedInv, StoreInv, ReturnInv, IInv, TypeInv, TypeOK
<1>3. \A j \in 1..5 : \E r \in records : r.source = Sources[j].name
  BY <1>1, <1>2 DEF LoggedInv, LastRun, Logged
<1>4. Recorded = Name
  <2>1. Recorded \subseteq Name
    BY <1>2 DEF Recorded, Row
  <2>2. \A n \in Name : n \in Recorded
    BY <1>3, NameFacts DEF Recorded
  <2> QED
    BY <2>1, <2>2
<1>5. StoredInv'
  BY <1>1, RecordsKept DEF StoreInv, Logged
<1> QED
  BY <1>1, <1>4, <1>5 DEF StoreInv, PagesInv, KeptInv, Ingesting, ReturnInv, Between, Recorded

LEMMA StoreNext == IInv /\ StoreInv /\ [Next]_vars => StoreInv'
<1> SUFFICES ASSUME IInv, StoreInv, [Next]_vars PROVE StoreInv'
  OBVIOUS
<1>1. CASE IngestRaises \/ CallFails \/ Killed
  <2>1. /\ pc' \in {"begin", "asleep"} /\ records' = records /\ added' = {}
        /\ outcome' # "returned"
    BY <1>1 DEF IngestRaises, CallFails, Killed, EndRun
  <2> QED
    BY <2>1, StoreEnds
<1>2. CASE (\E p \in Posting : OtherStores(p)) \/ UNCHANGED vars
  <2>1. UNCHANGED <<pc, at, page, postings, error, handled, own, added, records, outcome>>
    BY <1>2 DEF OtherStores, vars, place, fetchVars, countVars, txVars
  <2> QED
    BY <2>1, StoreQuiet
<1>3. ASSUME NEW from, NEW to, Commit(from, to),
             \/ from = "commit" /\ to = "flush"
             \/ from = "last_commit" /\ to = "last_flush"
             \/ from = "end" /\ to = "refresh"
      PROVE  StoreInv'
  BY <1>3, StoreCommit
<1> QED
  BY <1>1, <1>2, <1>3, StoreWake, StoreBegin, StoreSkip, StoreAnswered, StoreFails, StoreIngest,
     StoreMoves, StoreRecord, StoreReturns DEF Next, Work

\* A run that returns has a record of every source, and every posting that a source
\* without an error offered, up to its limit and its first empty page, is stored (or
\* has neither a skill nor a tag), whatever failed on the way.
THEOREM ReturnedRunCompleteCorrect == Spec => []ReturnedRunComplete
<1>1. StoreInv => ReturnedRunComplete
  BY SourcesFacts DEF StoreInv, StoredInv, ReturnInv, Logged, ReturnedRunComplete
<1> QED
  BY <1>1, Invariance, StoreInit, StoreNext, PTL DEF Spec

----------------------------------------------------------------------------
(***************************************************************************)
(* What BitmapIndex takes for granted of a session: the rows that a        *)
(* transaction has inserted are all in its pending list, and when the list *)
(* is written to the index, all of it has been committed.                  *)
(***************************************************************************)
PendingCommitted ==
    /\ own \subseteq pending
    /\ pending \subseteq Stored \cup own
    /\ pc \in {"flush", "last_flush"} => own = {} /\ pending \subseteq Stored

\* In mid-source the list holds what the transaction inserted, outside it nothing.
PendingInv ==
    /\ PendingCommitted
    /\ pc \notin {"ingest", "commit", "last_commit", "flush", "last_flush"} => pending = {}

LEMMA PendingNext == IInv /\ PendingInv /\ [Next]_vars => PendingInv'
<1> SUFFICES ASSUME IInv, PendingInv, [Next]_vars PROVE PendingInv'
  OBVIOUS
<1>0. Stored \subseteq Stored' /\ own \subseteq Posting
  BY StoredGrows DEF IInv, TypeInv, TypeOK
<1>1. CASE IngestRaises \/ CallFails \/ Killed \/ Refresh
  <2>1. own' = {} /\ pending' = {} /\ pc' \in {"begin", "asleep"}
    BY <1>1 DEF IngestRaises, CallFails, Killed, Refresh, EndRun
  <2> QED
    BY <2>1 DEF PendingInv, PendingCommitted
<1>2. CASE UNCHANGED <<own, pending, pc>>
  BY <1>0, <1>2 DEF PendingInv, PendingCommitted
<1>3. CASE Wake \/ Begin \/ SkipSource \/ Answered \/ Garbled \/ RequestFails
  <2>1. /\ UNCHANGED <<own, pending>>
        /\ pc \in {"asleep", "begin", "fetch"}
        /\ pc' \notin {"flush", "last_flush"}
    BY <1>3 DEF Wake, Begin, SkipSource, Answered, Garbled, RequestFails, SourceFails, Asking,
                txVars
  <2> QED
    BY <1>0, <2>1 DEF PendingInv, PendingCommitted
<1>4. CASE IngestNext \/ IngestDone
  <2>1. pc = "ingest" /\ pc' \in {"ingest", "commit", "last_commit"}
    BY <1>4 DEF IngestNext, IngestDone
  <2>2. \E new : own' = own \cup new /\ pending' = pending \cup new
    <3>1. CASE IngestNext
      BY <3>1 DEF IngestNext
    <3>2. CASE IngestDone
      <4>1. own' = own \cup {} /\ pending' = pending \cup {}
        BY <3>2 DEF IngestDone, txVars
      <4> QED
        BY <4>1
    <3> QED
      BY <1>4, <3>1, <3>2
  <2> QED
    BY <1>0, <2>1, <2>2 DEF PendingInv, PendingCommitted
<1>5. ASSUME NEW from, NEW to, Commit(from, to),
             \/ from = "commit" /\ to = "flush"
             \/ from = "last_commit" /\ to = "last_flush"
             \/ from = "end" /\ to = "refresh"
      PROVE  PendingInv'
  <2>1. pc = from /\ pc' = to /\ own' = {} /\ pending' = pending
    BY <1>5 DEF Commit
  <2>2. own \subseteq Stored'
    <3>1. \A p \in Posting : copies[p] \in 0..2
      BY DEF IInv, TypeInv, TypeOK
    <3>2. \A p \in own : copies'[p] = copies[p] + 1
      BY <1>0, <1>5 DEF Commit
    <3> QED
      BY <1>0, <3>1, <3>2 DEF Stored
  <2>3. pending' \subseteq Stored'
    BY <1>0, <2>1, <2>2 DEF PendingInv, PendingCommitted
  <2>4. to = "refresh" => pending' = {}
    BY <1>5, <2>1 DEF PendingInv
  <2> QED
    BY <1>5, <2>1, <2>3, <2>4 DEF PendingInv, PendingCommitted
<1>6. ASSUME NEW from, NEW to, Flush(from, to), from \in {"flush", "last_flush"},
             to \in {"ingest", "record"}
      PROVE  PendingInv'
  BY <1>6 DEF Flush, PendingInv, PendingCommitted
<1>7. CASE Record
  <2>1. UNCHANGED <<own, pending>> /\ pc = "record" /\ pc' \in {"fetch", "end"}
    BY <1>7 DEF Record
  <2> QED
    BY <1>0, <2>1 DEF PendingInv, PendingCommitted
<1>8. CASE (\E p \in Posting : OtherStores(p)) \/ UNCHANGED vars
  BY <1>2, <1>8 DEF OtherStores, vars, place, txVars
<1> QED
  BY <1>1, <1>3, <1>4, <1>5, <1>6, <1>7, <1>8 DEF Next, Work

\* A run writes to the index only rows that are committed, and all that its transactions
\* inserted are on the list it writes, wherever the commits fall in a source: the
\* worker keeps the order of commit and flush that BitmapIndex builds on.
THEOREM PendingCommittedCorrect == Spec => []PendingCommitted
<1>1. Init => PendingInv
  BY DEF Init, PendingInv, PendingCommitted
<1>2. PendingInv => PendingCommitted
  BY DEF PendingInv
<1> QED
  BY <1>1, <1>2, Invariance, PendingNext, PTL DEF Spec

=============================================================================
