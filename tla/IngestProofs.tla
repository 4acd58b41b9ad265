---------------------------- MODULE IngestProofs ----------------------------
(***************************************************************************)
(* Theorems about Ingest for every set of sessions, postings and feeds.    *)
(*                                                                         *)
(* All steps but Commit change one session's record only, so the invariant *)
(* is stated once more per record (InOrder): a step preserves it as soon   *)
(* as the new record is in order and its employers are new.                *)
(***************************************************************************)
EXTENDS Ingest, SequenceTheorems, FiniteSetTheorems, TLAPS

Wanting == {"employer", "new_employer", "event"}

\* What IngestInv says of one session s whose record is t.
InOrder(t, s) ==
    /\ t \in Tx
    /\ s \notin ApiSession => t.done <= CommitEvery
    /\ t.pc \in Wanting \cup {"check", "token", "write_token"} => t.todo # <<>>
    /\ t.pc \in {"token", "write_token"} => t.tokens # <<>>
    /\ t.pc # "commit" /\ s \notin ApiSession => t.done < CommitEvery
    /\ \A r \in t.rows : Company[r.posting] \in employers \cup t.employers
    /\ t.pc = "event" => Company[Head(t.todo)] \in employers \cup t.employers
    /\ t.begun \subseteq rows
    /\ t.pc \in Wanting =>
          \A q \in t.begun \cup t.rows :
              Fingerprint[q.posting] # Fingerprint[Head(t.todo)]
    /\ \A r \in t.rows : \A q \in t.begun \cup t.rows :
          q # r => Fingerprint[q.posting] # Fingerprint[r.posting]
    /\ \A r \in t.rows : r.session = s
    /\ IF t.pc = "idle"
       THEN t.rows = {}
       ELSE \A q \in rows : q.session = s => q \in t.begun

LEMMA InvInOrder ==
    ASSUME IngestInv, NEW s \in Session
    PROVE  InOrder(tx[s], s)
<1>1. tx[s] \in Tx
  BY DEF IngestInv, TypeOK
<1> QED
  BY <1>1 DEF IngestInv, TypeOK, InOrder, Wanting, WorkLeft, EventsEmployed, CheckedOnce,
     DuplicatesNeedOverlap, OwnRowsKnown, Posted

\* A step of one session: its record stays in order, its employers stay its own.
LEMMA OneRecord ==
    ASSUME IngestInv, NEW s \in Session, NEW t,
           tx' = [tx EXCEPT ![s] = t], UNCHANGED dbVars, batches' \in 0..MaxBatches,
           InOrder(t, s),
           t.employers \cap employers = {},
           \A u \in Session \ {s} : t.employers \cap tx[u].employers = {}
    PROVE  IngestInv'
<1>1. \A u \in Session : InOrder(tx[u], u)
  BY InvInOrder
<1>2. tx \in [Session -> Tx]
  BY DEF IngestInv, TypeOK
<1>3. tx' \in [Session -> Tx]
  BY <1>2 DEF InOrder
<1>4. \A u \in Session : tx'[u] = IF u = s THEN t ELSE tx[u]
  BY <1>2
<1>5. \A u \in Session : InOrder(tx'[u], u)
  BY <1>1, <1>4
<1>6. rows' = rows /\ employers' = employers /\ counts' = counts
  BY DEF dbVars
<1>7. TypeOK'
  <2>1. \A u \in Session \ ApiSession : tx'[u].done <= CommitEvery
    BY <1>5 DEF InOrder
  <2> QED
    BY <2>1, <1>3, <1>6 DEF IngestInv, TypeOK
<1>8. EmployersConsistent'
  <2>1. EmployersConsistent
    BY DEF IngestInv
  <2>2. \A u \in Session : tx'[u].employers \cap employers = {}
    BY <2>1, <1>4 DEF EmployersConsistent
  <2>3. ASSUME NEW u \in Session, NEW v \in Session, u # v
        PROVE  tx'[u].employers \cap tx'[v].employers = {}
    <3>1. CASE u = s
      BY <3>1, <2>3, <1>4
    <3>2. CASE v = s
      BY <3>2, <2>3, <1>4
    <3>3. CASE u # s /\ v # s
      BY <3>3, <2>3, <1>4, <2>1 DEF EmployersConsistent
    <3> QED
      BY <3>1, <3>2, <3>3
  <2> QED
    BY <2>1, <2>2, <2>3, <1>6 DEF EmployersConsistent
<1>9. WorkLeft' /\ EventsEmployed' /\ CheckedOnce' /\ DuplicatesNeedOverlap' /\ OwnRowsKnown'
  BY <1>5, <1>6 DEF InOrder, Wanting, WorkLeft, EventsEmployed, CheckedOnce,
     DuplicatesNeedOverlap, OwnRowsKnown, Posted
<1>10. OneCopyPerSession'
  BY <1>6 DEF IngestInv, OneCopyPerSession
<1> QED
  BY <1>7, <1>8, <1>9, <1>10 DEF IngestInv

----------------------------------------------------------------------------
\* The operators that move a session on.

\* What the session is done with is dropped, its transaction stays.
LEMMA AdvanceMoves ==
    ASSUME NEW s \in Session, NEW t \in Tx, t.todo # <<>>,
           s \notin ApiSession => t.done < CommitEvery
    PROVE  LET u == Advance(t, s)
           IN  /\ u \in Tx
               /\ u.pc \in {"commit", "check"}
               /\ u.pc = "check" => u.todo # <<>>
               /\ s \notin ApiSession => u.done <= CommitEvery
               /\ u.pc # "commit" /\ s \notin ApiSession => u.done < CommitEvery
               /\ u.rows = t.rows /\ u.employers = t.employers /\ u.begun = t.begun
<1>1. t.todo \in Seq(Posting) /\ t.done \in Nat
  BY DEF Tx
<1>2. Tail(t.todo) \in Seq(Posting)
  BY <1>1, HeadTailProperties
<1>3. <<>> \in Seq(Token) /\ t.done + 1 \in Nat
  BY <1>1
<1>4. Advance(t, s) \in Tx
  BY <1>2, <1>3 DEF Advance, Tx, Step
<1> DEFINE u == Advance(t, s)
<1>5. u.rows = t.rows /\ u.employers = t.employers /\ u.begun = t.begun
  BY DEF Advance, Tx
<1>6. u.todo = Tail(t.todo) /\ u.done = t.done + 1
  BY DEF Advance, Tx
<1>7. u.pc = IF Tail(t.todo) = <<>> \/ (s \notin ApiSession /\ Due(t.done + 1))
             THEN "commit" ELSE "check"
  BY DEF Advance, Tx
<1>8. u.pc # "commit" /\ s \notin ApiSession => u.done < CommitEvery
  BY <1>1, <1>6, <1>7, BoundAssumption DEF Due
<1>9. s \notin ApiSession => u.done <= CommitEvery
  BY <1>1, <1>6, BoundAssumption
<1> QED
  BY <1>4, <1>5, <1>6, <1>7, <1>8, <1>9

LEMMA AfterEmployerMoves ==
    ASSUME NEW s \in Session, NEW t \in Tx, t.todo # <<>>,
           s \notin ApiSession => t.done < CommitEvery
    PROVE  LET u == AfterEmployer(t, s)
           IN  /\ u \in Tx
               /\ u.pc \in {"commit", "check", "event"}
               /\ u.pc # "commit" => u.todo # <<>>
               /\ u.pc = "event" => u.todo = t.todo
               /\ s \notin ApiSession => u.done <= CommitEvery
               /\ u.pc # "commit" /\ s \notin ApiSession => u.done < CommitEvery
               /\ u.rows = t.rows /\ u.employers = t.employers /\ u.begun = t.begun
<1>1. CASE s \in ApiSession \/ Head(t.todo) \in Skilled
  <2>1. AfterEmployer(t, s) = [t EXCEPT !.pc = "event"]
    BY <1>1 DEF AfterEmployer
  <2>2. [t EXCEPT !.pc = "event"] \in Tx
    BY DEF Tx, Step
  <2> DEFINE u == [t EXCEPT !.pc = "event"]
  <2>3. /\ u.pc = "event" /\ u.todo = t.todo /\ u.done = t.done
        /\ u.rows = t.rows /\ u.employers = t.employers /\ u.begun = t.begun
    BY DEF Tx
  <2>4. t.done \in Nat
    BY DEF Tx
  <2> QED
    BY <2>1, <2>2, <2>3, <2>4, BoundAssumption
<1>2. CASE ~(s \in ApiSession \/ Head(t.todo) \in Skilled)
  BY <1>2, AdvanceMoves DEF AfterEmployer
<1> QED
  BY <1>1, <1>2

LEMMA AfterTokenMoves ==
    ASSUME NEW s \in Session, NEW t \in Tx, t.todo # <<>>, t.tokens # <<>>,
           s \notin ApiSession => t.done < CommitEvery
    PROVE  LET u == AfterToken(t, s)
           IN  /\ u \in Tx
               /\ u.pc \in {"commit", "check", "token"}
               /\ u.pc # "commit" => u.todo # <<>>
               /\ u.pc = "token" => u.tokens # <<>>
               /\ s \notin ApiSession => u.done <= CommitEvery
               /\ u.pc # "commit" /\ s \notin ApiSession => u.done < CommitEvery
               /\ u.rows = t.rows /\ u.employers = t.employers /\ u.begun = t.begun
<1>1. CASE Tail(t.tokens) # <<>>
  <2>1. AfterToken(t, s) = [t EXCEPT !.pc = "token", !.tokens = Tail(t.tokens)]
    BY <1>1 DEF AfterToken
  <2>2. Tail(t.tokens) \in Seq(Token)
    BY HeadTailProperties DEF Tx
  <2>3. [t EXCEPT !.pc = "token", !.tokens = Tail(t.tokens)] \in Tx
    BY <2>2 DEF Tx, Step
  <2> DEFINE u == [t EXCEPT !.pc = "token", !.tokens = Tail(t.tokens)]
  <2>4. /\ u.pc = "token" /\ u.todo = t.todo /\ u.tokens = Tail(t.tokens)
        /\ u.done = t.done
        /\ u.rows = t.rows /\ u.employers = t.employers /\ u.begun = t.begun
    BY DEF Tx
  <2>5. t.done \in Nat
    BY DEF Tx
  <2> QED
    BY <1>1, <2>1, <2>3, <2>4, <2>5, BoundAssumption
<1>2. CASE Tail(t.tokens) = <<>>
  BY <1>2, AdvanceMoves DEF AfterToken
<1> QED
  BY <1>1, <1>2

\* A session with nothing open is in order.
LEMMA IdleInOrder ==
    ASSUME NEW s \in Session, NEW n \in Nat
    PROVE  InOrder(Idle(n), s) /\ Idle(n).employers = {}
<1>1. <<>> \in Seq(Posting) /\ <<>> \in Seq(Token) /\ NoCounts \in [Token -> Nat]
  BY DEF NoCounts
<1>2. Idle(n) \in Tx
  BY <1>1 DEF Idle, Tx, Step
<1> QED
  BY <1>2, BoundAssumption DEF Idle, InOrder, Wanting

\* A rollback, for whatever reason.
LEMMA UndoInv ==
    ASSUME IngestInv, NEW s \in Session, Undo(s), UNCHANGED <<dbVars, batches>>
    PROVE  IngestInv'
<1> DEFINE t == Idle(tx[s].serial)
<1>1. tx[s].serial \in Nat
  BY InvInOrder DEF InOrder, Tx
<1>2. batches' \in 0..MaxBatches /\ UNCHANGED dbVars
  BY DEF IngestInv, TypeOK
<1>3. tx' = [tx EXCEPT ![s] = t]
  BY DEF Undo
<1>4. InOrder(t, s) /\ t.employers = {}
  BY <1>1, IdleInOrder
<1> HIDE DEF t
<1>5. t.employers \cap employers = {} /\ \A u \in Session \ {s} : t.employers \cap tx[u].employers = {}
  BY <1>4
<1> QED
  BY <1>2, <1>3, <1>4, <1>5, OneRecord

\* A step that leaves the transaction as it is and does not look at a posting's
\* employer or insert.
LEMMA MovedInOrder ==
    ASSUME NEW s \in Session, NEW t, InOrder(t, s), t.pc # "idle",
           NEW u \in Tx, u.pc \in {"check", "commit", "token", "write_token", "broken"},
           u.pc \in {"check", "token", "write_token"} => u.todo # <<>>,
           u.pc \in {"token", "write_token"} => u.tokens # <<>>,
           s \notin ApiSession => u.done <= CommitEvery,
           u.pc # "commit" /\ s \notin ApiSession => u.done < CommitEvery,
           u.rows = t.rows, u.employers = t.employers, u.begun = t.begun
    PROVE  InOrder(u, s)
BY DEF InOrder, Wanting

LEMMA Moves ==
    ASSUME IngestInv, NEW s \in Session, NEW t, InOrder(t, s),
           tx' = [tx EXCEPT ![s] = t], UNCHANGED <<dbVars, batches>>,
           t.employers = tx[s].employers
    PROVE  IngestInv'
<1>1. batches' \in 0..MaxBatches
  BY DEF IngestInv, TypeOK
<1>2. \A u \in Session \ {s} : t.employers \cap tx[u].employers = {}
  BY DEF IngestInv, EmployersConsistent
<1>3. t.employers \cap employers = {}
  BY DEF IngestInv, EmployersConsistent
<1> QED
  BY <1>1, <1>2, <1>3, OneRecord

----------------------------------------------------------------------------
\* The statements.

LEMMA BeginInv ==
    ASSUME IngestInv, NEW s \in Session, Begin(s)
    PROVE  IngestInv'
<1>1. PICK feed \in Feed :
        tx' = [tx EXCEPT ![s] = [@ EXCEPT !.pc = "check", !.todo = feed, !.begun = rows]]
  BY DEF Begin
<1> DEFINE t == [tx[s] EXCEPT !.pc = "check", !.todo = feed, !.begun = rows]
<1>2. feed \in Seq(Posting) /\ feed # <<>>
  BY FeedAssumption
<1>3. tx[s] \in Tx /\ InOrder(tx[s], s) /\ tx[s].pc = "idle"
  BY InvInOrder DEF InOrder, Begin
<1>4. rows \subseteq Row
  BY DEF IngestInv, TypeOK
<1>5. [tx[s] EXCEPT !.pc = "check", !.todo = feed, !.begun = rows] \in Tx
  BY <1>2, <1>3, <1>4 DEF Tx, Step
<1>6. /\ t.pc = "check" /\ t.todo = feed /\ t.begun = rows /\ t.rows = tx[s].rows
      /\ t.employers = tx[s].employers /\ t.done = tx[s].done
  BY <1>3 DEF Tx
<1>7. tx[s].rows = {}
  BY <1>3 DEF InOrder
<1>8. InOrder(t, s)
  BY <1>2, <1>3, <1>5, <1>6, <1>7 DEF InOrder, Wanting
<1>9. batches' \in 0..MaxBatches
  BY BoundAssumption DEF Begin, IngestInv, TypeOK
<1>10. tx' = [tx EXCEPT ![s] = t] /\ UNCHANGED dbVars
  BY <1>1 DEF Begin
<1>11. t.employers \cap employers = {}
  BY <1>6 DEF IngestInv, EmployersConsistent
<1>12. \A u \in Session \ {s} : t.employers \cap tx[u].employers = {}
  BY <1>6 DEF IngestInv, EmployersConsistent
<1> HIDE DEF t
<1> QED
  BY <1>8, <1>9, <1>10, <1>11, <1>12, OneRecord

LEMMA CheckFingerprintInv ==
    ASSUME IngestInv, NEW s \in Session, CheckFingerprint(s)
    PROVE  IngestInv'
<1> DEFINE copies == Copies(VisibleRows(s), Fingerprint[Posted(s)])
<1>1. tx[s] \in Tx /\ InOrder(tx[s], s) /\ tx[s].pc = "check"
  BY InvInOrder DEF InOrder, CheckFingerprint
<1>2. CASE copies = {}
  <2> DEFINE t == [tx[s] EXCEPT !.pc = "employer"]
  <2>1. tx' = [tx EXCEPT ![s] = t] /\ UNCHANGED <<dbVars, batches>>
    BY <1>2 DEF CheckFingerprint
  <2>2. [tx[s] EXCEPT !.pc = "employer"] \in Tx
    BY <1>1 DEF Tx, Step
  <2>3. /\ t.pc = "employer" /\ t.todo = tx[s].todo /\ t.done = tx[s].done
        /\ t.begun = tx[s].begun /\ t.rows = tx[s].rows
        /\ t.employers = tx[s].employers
    BY <1>1 DEF Tx
  <2>4. \A q \in tx[s].begun \cup tx[s].rows :
            Fingerprint[q.posting] # Fingerprint[Head(tx[s].todo)]
    BY <1>1, <1>2 DEF Copies, VisibleRows, Posted, InOrder
  <2>5. InOrder(t, s)
    BY <1>1, <2>2, <2>3, <2>4 DEF InOrder, Wanting
  <2> HIDE DEF t
  <2> QED
    BY <2>1, <2>3, <2>5, Moves
<1>3. CASE copies # {}
  <2> DEFINE t == Advance(tx[s], s)
  <2>1. tx' = [tx EXCEPT ![s] = t] /\ UNCHANGED <<dbVars, batches>>
    BY <1>3 DEF CheckFingerprint
  <2>2. tx[s].todo # <<>> /\ (s \notin ApiSession => tx[s].done < CommitEvery)
    BY <1>1 DEF InOrder
  <2> HIDE DEF t
  <2>3. /\ t \in Tx
        /\ t.pc \in {"commit", "check"}
        /\ t.pc = "check" => t.todo # <<>>
        /\ s \notin ApiSession => t.done <= CommitEvery
        /\ t.pc # "commit" /\ s \notin ApiSession => t.done < CommitEvery
        /\ t.rows = tx[s].rows /\ t.employers = tx[s].employers /\ t.begun = tx[s].begun
    BY <1>1, <2>2, AdvanceMoves DEF t
  <2>4. InOrder(t, s)
    BY <1>1, <2>3, MovedInOrder
  <2> QED
    BY <2>1, <2>3, <2>4, Moves
<1> QED
  BY <1>2, <1>3

\* ensure_employer has returned.
LEMMA AfterEmployerInOrder ==
    ASSUME NEW s \in Session, NEW t \in Tx, InOrder(t, s),
           t.pc \in {"employer", "new_employer"},
           Company[Head(t.todo)] \in employers \cup t.employers
    PROVE  InOrder(AfterEmployer(t, s), s) /\ AfterEmployer(t, s).employers = t.employers
<1> DEFINE u == AfterEmployer(t, s)
<1>1. t.todo # <<>> /\ (s \notin ApiSession => t.done < CommitEvery)
  BY DEF InOrder, Wanting
<1> HIDE DEF u
<1>2. /\ u \in Tx
      /\ u.pc \in {"commit", "check", "event"}
      /\ u.pc # "commit" => u.todo # <<>>
      /\ u.pc = "event" => u.todo = t.todo
      /\ s \notin ApiSession => u.done <= CommitEvery
      /\ u.pc # "commit" /\ s \notin ApiSession => u.done < CommitEvery
      /\ u.rows = t.rows /\ u.employers = t.employers /\ u.begun = t.begun
  BY <1>1, AfterEmployerMoves DEF u
<1>3. u.pc = "event" => InOrder(u, s)
  BY <1>2 DEF InOrder, Wanting
<1>4. u.pc # "event" => InOrder(u, s)
  BY <1>2, MovedInOrder
<1> QED
  BY <1>2, <1>3, <1>4 DEF u

LEMMA SelectEmployerInv ==
    ASSUME IngestInv, NEW s \in Session, SelectEmployer(s)
    PROVE  IngestInv'
<1>1. tx[s] \in Tx /\ InOrder(tx[s], s) /\ tx[s].pc = "employer"
  BY InvInOrder DEF InOrder, SelectEmployer
<1>2. UNCHANGED <<dbVars, batches>>
  BY DEF SelectEmployer
<1>3. CASE Company[Posted(s)] \in employers \cup tx[s].employers
  <2>1. tx' = [tx EXCEPT ![s] = AfterEmployer(tx[s], s)]
    BY <1>3 DEF SelectEmployer
  <2> QED
    BY <1>1, <1>2, <1>3, <2>1, AfterEmployerInOrder, Moves DEF Posted
<1>4. CASE Company[Posted(s)] \notin employers \cup tx[s].employers
  <2> DEFINE t == [tx[s] EXCEPT !.pc = "new_employer"]
  <2>1. tx' = [tx EXCEPT ![s] = t]
    BY <1>4 DEF SelectEmployer
  <2>2. [tx[s] EXCEPT !.pc = "new_employer"] \in Tx
    BY <1>1 DEF Tx, Step
  <2>3. /\ t.pc = "new_employer" /\ t.todo = tx[s].todo /\ t.done = tx[s].done
        /\ t.begun = tx[s].begun /\ t.rows = tx[s].rows
        /\ t.employers = tx[s].employers
    BY <1>1 DEF Tx
  <2>4. InOrder(t, s)
    BY <1>1, <2>2, <2>3 DEF InOrder, Wanting
  <2> HIDE DEF t
  <2> QED
    BY <1>2, <2>1, <2>3, <2>4, Moves
<1> QED
  BY <1>3, <1>4

LEMMA InsertEmployerInv ==
    ASSUME IngestInv, NEW s \in Session, InsertEmployer(s)
    PROVE  IngestInv'
<1>1. tx[s] \in Tx /\ InOrder(tx[s], s) /\ tx[s].pc = "new_employer"
  BY InvInOrder DEF InOrder, InsertEmployer
<1>2. UNCHANGED <<dbVars, batches>>
  BY DEF InsertEmployer
<1>3. CASE Company[Posted(s)] \in employers
  BY <1>2, <1>3, UndoInv DEF InsertEmployer
<1>4. CASE Company[Posted(s)] \notin employers
  <2> DEFINE name == Company[Posted(s)]
             t == [tx[s] EXCEPT !.employers = @ \cup {Company[Posted(s)]}]
             u == AfterEmployer(t, s)
  <2>1. tx' = [tx EXCEPT ![s] = u]
    BY <1>4 DEF InsertEmployer
  <2>2. tx[s].todo # <<>> /\ tx[s].todo \in Seq(Posting)
    BY <1>1 DEF InOrder, Wanting, Tx
  <2>3. Posted(s) \in Posting
    BY <2>2, HeadTailProperties DEF Posted
  <2>4. name \in Name
    BY <2>3 DEF Name
  <2>5. [tx[s] EXCEPT !.employers = @ \cup {Company[Posted(s)]}] \in Tx
    BY <1>1, <2>4 DEF Tx
  <2>6. /\ t.pc = "new_employer" /\ t.todo = tx[s].todo /\ t.done = tx[s].done
        /\ t.begun = tx[s].begun /\ t.rows = tx[s].rows
        /\ t.employers = tx[s].employers \cup {name}
    BY <1>1 DEF Tx
  <2> HIDE DEF t
  <2>7. InOrder(t, s)
    BY <1>1, <2>5, <2>6 DEF InOrder, Wanting, t
  <2>8. InOrder(u, s) /\ u.employers = tx[s].employers \cup {name}
    BY <2>5, <2>6, <2>7, AfterEmployerInOrder DEF Posted, t
  <2>9. \A v \in Session \ {s} : name \notin tx[v].employers
    BY <1>1 DEF InsertEmployer, Blocks
  <2>10. \A v \in Session \ {s} : u.employers \cap tx[v].employers = {}
    BY <2>8, <2>9 DEF IngestInv, EmployersConsistent
  <2>11. u.employers \cap employers = {}
    BY <1>4, <2>8 DEF IngestInv, EmployersConsistent
  <2>12. batches' \in 0..MaxBatches /\ UNCHANGED dbVars
    BY <1>2 DEF IngestInv, TypeOK
  <2> HIDE DEF u
  <2> QED
    BY <2>1, <2>8, <2>10, <2>11, <2>12, OneRecord
<1> QED
  BY <1>3, <1>4

LEMMA InsertEventInv ==
    ASSUME IngestInv, NEW s \in Session, InsertEvent(s)
    PROVE  IngestInv'
<1> DEFINE p == Posted(s)
           row == [posting |-> p, session |-> s, serial |-> tx[s].serial]
           t == [tx[s] EXCEPT !.rows = @ \cup {row}, !.serial = @ + 1]
<1>1. tx[s] \in Tx /\ InOrder(tx[s], s) /\ tx[s].pc = "event"
  BY InvInOrder DEF InOrder, InsertEvent
<1>2. UNCHANGED <<dbVars, batches>>
  BY DEF InsertEvent
<1>3. tx[s].todo # <<>> /\ tx[s].todo \in Seq(Posting)
  BY <1>1 DEF InOrder, Wanting, Tx
<1>4. p \in Posting /\ p = Head(tx[s].todo)
  BY <1>3, HeadTailProperties DEF Posted
<1>5. row \in Row /\ tx[s].serial + 1 \in Nat
  BY <1>1, <1>4 DEF Row, Tx
<1> HIDE DEF row
<1>6. [tx[s] EXCEPT !.rows = @ \cup {row}, !.serial = @ + 1] \in Tx
  BY <1>1, <1>5 DEF Tx
<1>7. /\ t.pc = "event" /\ t.todo = tx[s].todo /\ t.done = tx[s].done
      /\ t.begun = tx[s].begun /\ t.rows = tx[s].rows \cup {row}
      /\ t.employers = tx[s].employers /\ t.tokens = tx[s].tokens
  BY <1>1 DEF Tx
<1>8. tx' = [tx EXCEPT ![s] =
                IF p \in Broken THEN [t EXCEPT !.pc = "broken"]
                ELSE IF s \in ApiSession \/ Tokens[p] = <<>> THEN Advance(t, s)
                ELSE [t EXCEPT !.pc = "token", !.tokens = Tokens[p]]]
  BY DEF InsertEvent, row
<1> HIDE DEF t
<1>9. t \in Tx
  BY <1>6 DEF t
<1>10. row.posting = p /\ row.session = s
  BY DEF row
\* The new row, against the rows that CheckFingerprint has looked at.
<1>11. \A r \in t.rows : \A q \in t.begun \cup t.rows :
          q # r => Fingerprint[q.posting] # Fingerprint[r.posting]
  <2>1. \A q \in tx[s].begun \cup tx[s].rows : Fingerprint[q.posting] # Fingerprint[p]
    BY <1>1, <1>4 DEF InOrder, Wanting
  <2> QED
    BY <1>1, <1>7, <1>10, <2>1 DEF InOrder
<1>12. \A u \in Tx :
         /\ u.pc \in {"check", "commit", "token", "broken"}
         /\ u.pc \in {"check", "token"} => u.todo # <<>>
         /\ u.pc = "token" => u.tokens # <<>>
         /\ s \notin ApiSession => u.done <= CommitEvery
         /\ u.pc # "commit" /\ s \notin ApiSession => u.done < CommitEvery
         /\ u.rows = t.rows /\ u.employers = t.employers /\ u.begun = t.begun
         => InOrder(u, s)
  BY <1>1, <1>4, <1>7, <1>10, <1>11 DEF InOrder, Wanting
<1>13. /\ t.todo # <<>> /\ t.done \in Nat
       /\ s \notin ApiSession => t.done < CommitEvery
  BY <1>1, <1>7, <1>3 DEF InOrder, Tx
<1>14. CASE p \in Broken
  <2> DEFINE u == [t EXCEPT !.pc = "broken"]
  <2>1. tx' = [tx EXCEPT ![s] = u]
    BY <1>8, <1>14
  <2>2. [t EXCEPT !.pc = "broken"] \in Tx
    BY <1>9 DEF Tx, Step
  <2>3. /\ u.pc = "broken" /\ u.done = t.done
        /\ u.rows = t.rows /\ u.employers = t.employers /\ u.begun = t.begun
    BY <1>9 DEF Tx
  <2> HIDE DEF u
  <2>4. u \in Tx
    BY <2>2 DEF u
  <2>5. InOrder(u, s)
    BY <1>12, <1>13, <2>3, <2>4, BoundAssumption
  <2> QED
    BY <1>2, <1>7, <2>1, <2>3, <2>5, Moves
<1>15. CASE p \notin Broken /\ (s \in ApiSession \/ Tokens[p] = <<>>)
  <2> DEFINE u == Advance(t, s)
  <2>1. tx' = [tx EXCEPT ![s] = u]
    BY <1>8, <1>15
  <2> HIDE DEF u
  <2>2. /\ u \in Tx
        /\ u.pc \in {"commit", "check"}
        /\ u.pc = "check" => u.todo # <<>>
        /\ s \notin ApiSession => u.done <= CommitEvery
        /\ u.pc # "commit" /\ s \notin ApiSession => u.done < CommitEvery
        /\ u.rows = t.rows /\ u.employers = t.employers /\ u.begun = t.begun
    BY <1>9, <1>13, AdvanceMoves DEF u
  <2>3. InOrder(u, s)
    BY <1>12, <2>2
  <2> QED
    BY <1>2, <1>7, <2>1, <2>2, <2>3, Moves
<1>16. CASE p \notin Broken /\ ~(s \in ApiSession \/ Tokens[p] = <<>>)
  <2> DEFINE u == [t EXCEPT !.pc = "token", !.tokens = Tokens[p]]
  <2>1. tx' = [tx EXCEPT ![s] = u]
    BY <1>8, <1>16
  <2>2. Tokens[p] \in Seq(Token)
    BY <1>4, PostingAssumption
  <2>3. [t EXCEPT !.pc = "token", !.tokens = Tokens[p]] \in Tx
    BY <1>9, <2>2 DEF Tx, Step
  <2>4. /\ u.pc = "token" /\ u.done = t.done /\ u.todo = t.todo /\ u.tokens = Tokens[p]
        /\ u.rows = t.rows /\ u.employers = t.employers /\ u.begun = t.begun
    BY <1>9 DEF Tx
  <2> HIDE DEF u
  <2>5. u \in Tx
    BY <2>3 DEF u
  <2>6. InOrder(u, s)
    BY <1>12, <1>13, <1>16, <2>4, <2>5, BoundAssumption
  <2> QED
    BY <1>2, <1>7, <2>1, <2>4, <2>6, Moves
<1> QED
  BY <1>14, <1>15, <1>16

LEMMA SelectTokenInv ==
    ASSUME IngestInv, NEW s \in Session, SelectToken(s)
    PROVE  IngestInv'
<1> DEFINE n == Seen(s)[Head(tx[s].tokens)]
           t == [tx[s] EXCEPT !.pc = "write_token", !.read = n]
<1>1. tx[s] \in Tx /\ InOrder(tx[s], s) /\ tx[s].pc = "token"
  BY InvInOrder DEF InOrder, SelectToken
<1>2. tx' = [tx EXCEPT ![s] = t] /\ UNCHANGED <<dbVars, batches>>
  BY DEF SelectToken
<1>3. tx[s].tokens # <<>> /\ tx[s].tokens \in Seq(Token)
  BY <1>1 DEF InOrder, Tx
<1>4. Head(tx[s].tokens) \in Token
  BY <1>3, HeadTailProperties
<1>5. counts \in [Token -> Nat] /\ tx[s].counts \in [Token -> Nat]
  BY <1>1 DEF IngestInv, TypeOK, Tx
<1>6. n \in Nat
  BY <1>4, <1>5 DEF Seen, CountsOver
<1> HIDE DEF n
<1>7. [tx[s] EXCEPT !.pc = "write_token", !.read = n] \in Tx
  BY <1>1, <1>6 DEF Tx, Step
<1>8. /\ t.pc = "write_token" /\ t.todo = tx[s].todo /\ t.tokens = tx[s].tokens
      /\ t.done = tx[s].done /\ t.begun = tx[s].begun /\ t.rows = tx[s].rows
      /\ t.employers = tx[s].employers
  BY <1>1 DEF Tx
<1>9. InOrder(t, s)
  BY <1>1, <1>7, <1>8 DEF InOrder, Wanting
<1> HIDE DEF t
<1> QED
  BY <1>2, <1>8, <1>9, Moves

LEMMA WriteTokenInv ==
    ASSUME IngestInv, NEW s \in Session, WriteToken(s)
    PROVE  IngestInv'
<1> DEFINE token == Head(tx[s].tokens)
           t == [tx[s] EXCEPT !.counts[token] = Incremented(tx[s].read)]
           u == AfterToken(t, s)
<1>1. tx[s] \in Tx /\ InOrder(tx[s], s) /\ tx[s].pc = "write_token"
  BY InvInOrder DEF InOrder, WriteToken
<1>2. UNCHANGED <<dbVars, batches>>
  BY DEF WriteToken
<1>3. CASE tx[s].read = 0 /\ counts[token] # 0
  BY <1>2, <1>3, UndoInv DEF WriteToken
<1>4. CASE ~(tx[s].read = 0 /\ counts[token] # 0)
  <2>1. tx' = [tx EXCEPT ![s] = u]
    BY <1>4 DEF WriteToken
  <2>2. /\ tx[s].tokens # <<>> /\ tx[s].todo # <<>>
        /\ s \notin ApiSession => tx[s].done < CommitEvery
    BY <1>1 DEF InOrder
  <2>3. Incremented(tx[s].read) \in Nat
    BY <1>1 DEF Tx, Incremented
  <2>4. [tx[s].counts EXCEPT ![token] = Incremented(tx[s].read)] \in [Token -> Nat]
    BY <1>1, <2>3 DEF Tx
  <2>5. t = [tx[s] EXCEPT !.counts =
                 [tx[s].counts EXCEPT ![token] = Incremented(tx[s].read)]]
    OBVIOUS
  <2>6. t \in Tx
    BY <1>1, <2>4, <2>5 DEF Tx
  <2>7. /\ t.pc = "write_token" /\ t.todo = tx[s].todo /\ t.tokens = tx[s].tokens
        /\ t.done = tx[s].done /\ t.begun = tx[s].begun /\ t.rows = tx[s].rows
        /\ t.employers = tx[s].employers
    BY <1>1, <2>5 DEF Tx
  <2> HIDE DEF t
  <2>8. /\ u \in Tx
        /\ u.pc \in {"commit", "check", "token"}
        /\ u.pc # "commit" => u.todo # <<>>
        /\ u.pc = "token" => u.tokens # <<>>
        /\ s \notin ApiSession => u.done <= CommitEvery
        /\ u.pc # "commit" /\ s \notin ApiSession => u.done < CommitEvery
        /\ u.rows = t.rows /\ u.employers = t.employers /\ u.begun = t.begun
    BY <2>2, <2>6, <2>7, AfterTokenMoves
  <2> HIDE DEF u
  <2>9. InOrder(u, s)
    BY <1>1, <2>7, <2>8, MovedInOrder
  <2> QED
    BY <1>2, <2>1, <2>7, <2>8, <2>9, Moves
<1> QED
  BY <1>3, <1>4

\* What a commit adds was checked against every committed row of its session.
LEMMA CommitInv ==
    ASSUME IngestInv, NEW s \in Session, Commit(s)
    PROVE  IngestInv'
<1> DEFINE next == [Idle(tx[s].serial) EXCEPT !.pc = "check", !.todo = tx[s].todo,
                                              !.begun = rows']
           t == IF tx[s].todo = <<>> THEN Idle(tx[s].serial) ELSE next
<1>1. \A u \in Session : tx[u] \in Tx /\ InOrder(tx[u], u)
  BY InvInOrder DEF InOrder
<1>2. /\ rows' = rows \cup tx[s].rows
      /\ employers' = employers \cup tx[s].employers
      /\ counts' = CountsOver(counts, tx[s].counts)
      /\ tx' = [tx EXCEPT ![s] = t]
      /\ batches' = batches
      /\ tx[s].pc = "commit"
  BY DEF Commit
<1>3. tx \in [Session -> Tx] /\ rows \subseteq Row /\ employers \subseteq Name
      /\ counts \in [Token -> Nat] /\ batches \in 0..MaxBatches
  BY DEF IngestInv, TypeOK
<1>4. rows' \subseteq Row /\ employers' \subseteq Name
  BY <1>1, <1>2, <1>3 DEF Tx
<1>5. counts' \in [Token -> Nat]
  <2>1. tx[s].counts \in [Token -> Nat]
    BY <1>1 DEF Tx
  <2> QED
    BY <1>2, <1>3, <2>1 DEF CountsOver
<1>6. tx[s].serial \in Nat /\ tx[s].todo \in Seq(Posting)
  BY <1>1 DEF Tx
<1>7. Idle(tx[s].serial) \in Tx
  BY <1>6, IdleInOrder DEF InOrder
<1>8. next \in Tx
  BY <1>4, <1>6, <1>7 DEF Tx, Step
<1>9. /\ t \in Tx /\ t.rows = {} /\ t.employers = {} /\ t.done = 0
      /\ t.pc = "idle" \/ (t.pc = "check" /\ t.todo # <<>> /\ t.begun = rows')
      /\ t.begun \subseteq rows'
  <2>1. CASE tx[s].todo = <<>>
    BY <1>7, <2>1 DEF Idle
  <2>2. CASE tx[s].todo # <<>>
    BY <1>8, <2>2 DEF Idle
  <2> QED
    BY <2>1, <2>2
<1> HIDE DEF t
<1>10. tx' \in [Session -> Tx] /\ \A u \in Session : tx'[u] = IF u = s THEN t ELSE tx[u]
  BY <1>2, <1>3, <1>9
<1>11. TypeOK'
  <2>1. \A u \in Session \ ApiSession : tx'[u].done <= CommitEvery
    BY <1>1, <1>9, <1>10, BoundAssumption DEF InOrder
  <2> QED
    BY <1>2, <1>3, <1>4, <1>5, <1>10, <2>1 DEF TypeOK
<1>12. WorkLeft'
  <2>1. ASSUME NEW u \in Session
        PROVE  /\ tx'[u].pc \in {"check", "employer", "new_employer", "event", "token",
                                 "write_token"} => tx'[u].todo # <<>>
               /\ tx'[u].pc \in {"token", "write_token"} => tx'[u].tokens # <<>>
               /\ tx'[u].pc # "commit" /\ u \notin ApiSession => tx'[u].done < CommitEvery
    <3>1. CASE u = s
      BY <3>1, <1>9, <1>10, BoundAssumption
    <3>2. CASE u # s
      BY <3>2, <1>1, <1>10 DEF InOrder, Wanting
    <3> QED
      BY <3>1, <3>2
  <2> QED
    BY <2>1 DEF WorkLeft
<1>13. EventsEmployed'
  BY <1>1, <1>2, <1>9, <1>10 DEF InOrder, EventsEmployed, Posted
<1>14. EmployersConsistent'
  <2>1. EmployersConsistent
    BY DEF IngestInv
  <2>2. \A r \in rows' : Company[r.posting] \in employers'
    BY <1>1, <1>2, <2>1 DEF EmployersConsistent, InOrder
  <2>3. \A u \in Session : tx'[u].employers \cap employers' = {}
    BY <1>2, <1>9, <1>10, <2>1 DEF EmployersConsistent
  <2>4. \A u, v \in Session : u # v => tx'[u].employers \cap tx'[v].employers = {}
    BY <1>9, <1>10, <2>1 DEF EmployersConsistent
  <2> QED
    BY <2>2, <2>3, <2>4 DEF EmployersConsistent
<1>15. CheckedOnce' /\ DuplicatesNeedOverlap'
  <2>1. CheckedOnce'
    BY <1>1, <1>2, <1>9, <1>10 DEF InOrder, Wanting, CheckedOnce, Posted
  <2>2. DuplicatesNeedOverlap'
    BY <1>1, <1>9, <1>10 DEF InOrder, DuplicatesNeedOverlap
  <2> QED
    BY <2>1, <2>2
<1>16. OwnRowsKnown'
  <2>1. ASSUME NEW u \in Session
        PROVE  /\ \A r \in tx'[u].rows : r.session = u
               /\ IF tx'[u].pc = "idle"
                  THEN tx'[u].rows = {}
                  ELSE \A q \in rows' : q.session = u => q \in tx'[u].begun
    <3>1. CASE u = s
      BY <3>1, <1>9, <1>10
    <3>2. CASE u # s
      <4>1. \A q \in tx[s].rows : q.session # u
        BY <1>1, <3>2 DEF InOrder
      <4> QED
        BY <3>2, <4>1, <1>1, <1>2, <1>10 DEF InOrder
    <3> QED
      BY <3>1, <3>2
  <2> QED
    BY <2>1 DEF OwnRowsKnown
<1>17. OneCopyPerSession'
  <2>1. ASSUME NEW q \in rows', NEW r \in rows', q.session = r.session,
               Fingerprint[q.posting] = Fingerprint[r.posting]
        PROVE  q = r
    <3>1. InOrder(tx[s], s) /\ tx[s].pc # "idle"
      BY <1>1, <1>2
    <3>2. CASE q \in rows /\ r \in rows
      BY <2>1, <3>2 DEF IngestInv, OneCopyPerSession
    <3>3. CASE r \in tx[s].rows
      BY <2>1, <3>1, <3>3, <1>2 DEF InOrder
    <3>4. CASE q \in tx[s].rows
      BY <2>1, <3>1, <3>4, <1>2 DEF InOrder
    <3> QED
      BY <1>2, <3>2, <3>3, <3>4
  <2> QED
    BY <2>1 DEF OneCopyPerSession
<1> QED
  BY <1>11, <1>12, <1>13, <1>14, <1>15, <1>16, <1>17 DEF IngestInv

----------------------------------------------------------------------------
\* The specification.

LEMMA InvInit == Init => IngestInv
<1> SUFFICES ASSUME Init PROVE IngestInv
  OBVIOUS
<1>1. \A s \in Session : tx[s] = Idle(0)
  BY DEF Init
<1>2. \A s \in Session : tx[s] \in Tx /\ InOrder(tx[s], s) /\ tx[s].employers = {}
  BY <1>1, IdleInOrder DEF InOrder
<1>3. tx \in [Session -> Tx]
  BY <1>2 DEF Init
<1>4. TypeOK
  BY <1>2, <1>3, BoundAssumption DEF Init, TypeOK, NoCounts, InOrder
<1>5. EmployersConsistent /\ OneCopyPerSession
  BY <1>2 DEF Init, EmployersConsistent, OneCopyPerSession
<1>6. WorkLeft /\ EventsEmployed /\ CheckedOnce /\ DuplicatesNeedOverlap /\ OwnRowsKnown
  BY <1>2 DEF InOrder, Wanting, WorkLeft, EventsEmployed, CheckedOnce,
     DuplicatesNeedOverlap, OwnRowsKnown, Posted
<1> QED
  BY <1>4, <1>5, <1>6 DEF IngestInv

LEMMA InvStep == IngestInv /\ [Next]_vars => IngestInv'
<1> SUFFICES ASSUME IngestInv, [Next]_vars PROVE IngestInv'
  OBVIOUS
<1>1. CASE UNCHANGED vars
  BY <1>1 DEF vars, IngestInv, TypeOK, WorkLeft, EventsEmployed, EmployersConsistent,
     CheckedOnce, DuplicatesNeedOverlap, OwnRowsKnown, OneCopyPerSession, Posted
<1>2. ASSUME NEW s \in Session, Begin(s) \/ Progress(s) \/ Disconnect(s)
      PROVE  IngestInv'
  <2>1. CASE CheckRaises(s) \/ SkillsRaise(s) \/ DeadlockVictim(s) \/ Disconnect(s)
    <3>1. Undo(s) /\ UNCHANGED <<dbVars, batches>>
      BY <2>1 DEF CheckRaises, SkillsRaise, DeadlockVictim, Disconnect
    <3> QED
      BY <3>1, UndoInv
  <2>2. CASE Begin(s)
    BY <2>2, BeginInv
  <2>3. CASE CheckFingerprint(s)
    BY <2>3, CheckFingerprintInv
  <2>4. CASE SelectEmployer(s)
    BY <2>4, SelectEmployerInv
  <2>5. CASE InsertEmployer(s)
    BY <2>5, InsertEmployerInv
  <2>6. CASE InsertEvent(s)
    BY <2>6, InsertEventInv
  <2>7. CASE SelectToken(s)
    BY <2>7, SelectTokenInv
  <2>8. CASE WriteToken(s)
    BY <2>8, WriteTokenInv
  <2>9. CASE Commit(s)
    BY <2>9, CommitInv
  <2> QED
    BY <1>2, <2>1, <2>2, <2>3, <2>4, <2>5, <2>6, <2>7, <2>8, <2>9 DEF Progress
<1> QED
  BY <1>1, <1>2 DEF Next

\* Every statement of every session preserves the invariant.
THEOREM InvCorrect == Spec => []IngestInv
BY InvInit, InvStep, PTL DEF Spec

\* Every reachable state is well typed, and no pipeline transaction goes on beyond
\* CommitEvery postings.
THEOREM TypeCorrect == Spec => []TypeOK
<1>1. IngestInv => TypeOK
  BY DEF IngestInv
<1> QED
  BY <1>1, InvCorrect, PTL

\* The check before the insert is exact against what was committed before the
\* transaction began and what it has inserted, in both handlers.
THEOREM DuplicatesNeedOverlapCorrect == Spec => []DuplicatesNeedOverlap
<1>1. IngestInv => DuplicatesNeedOverlap
  BY DEF IngestInv
<1> QED
  BY <1>1, InvCorrect, PTL

\* However the sessions overlap, each stores a posting at most once.
THEOREM OneCopyPerSessionCorrect == Spec => []OneCopyPerSession
<1>1. IngestInv => OneCopyPerSession
  BY DEF IngestInv
<1> QED
  BY <1>1, InvCorrect, PTL

\* ensure_employer never creates a name twice and no event is without its employer.
THEOREM EmployersConsistentCorrect == Spec => []EmployersConsistent
<1>1. IngestInv => EmployersConsistent
  BY DEF IngestInv
<1> QED
  BY <1>1, InvCorrect, PTL

\* The deduplication in the application is enough where only one session ingests:
\* one scheduler, and nobody calling POST /ingest or POST /pipeline/run.
THEOREM LoneSessionNeverDuplicates ==
    ASSUME \A s, t \in Session : s = t
    PROVE  Spec => []NoDuplicateFingerprints
<1>1. IngestInv => NoDuplicateFingerprints
  <2>1. IngestInv => \A r \in rows : r.session \in Session
    BY DEF IngestInv, TypeOK, Row
  <2> QED
    BY <2>1 DEF IngestInv, OneCopyPerSession, NoDuplicateFingerprints
<1> QED
  BY <1>1, InvCorrect, PTL

----------------------------------------------------------------------------
\* Counts.

Mentions(p, w) == \E i \in DOMAIN Tokens[p] : Tokens[p][i] = w
Mentioning(R, w) == {r \in R : Mentions(r.posting, w)}

\* The rows behind a count that the record t is about to commit.
Backing(t, w) == Cardinality(Mentioning(rows \cup t.rows, w))

Counting == {"token", "write_token"}
Owes(t, w) == t.pc \in Counting /\ \E i \in DOMAIN t.tokens : t.tokens[i] = w

\* A session s whose record is t has a row of its own, not committed yet, for each
\* count it adds: the row of the posting whose tokens it is counting.
RowsBehind(t, s) ==
    /\ IsFiniteSet(t.rows)
    /\ t.rows \cap rows = {}
    /\ \A r \in t.rows : r.serial < t.serial
    /\ \A r \in rows : r.session = s => r.serial < t.serial
    /\ t.pc \in Counting =>
          /\ \E r \in t.rows : r.posting = Head(t.todo)
          /\ \A i, j \in DOMAIN t.tokens : t.tokens[i] = t.tokens[j] => i = j
          /\ \A i \in DOMAIN t.tokens : Mentions(Head(t.todo), t.tokens[i])
    /\ \A w \in Token : t.counts[w] <= Backing(t, w)
    /\ \A w \in Token : Owes(t, w) => t.counts[w] < Backing(t, w)
    /\ t.pc = "write_token" => t.read < Backing(t, Head(t.tokens))

CountsInv ==
    /\ IsFiniteSet(rows)
    /\ CountsBacked
    /\ \A s \in Session : RowsBehind(tx[s], s)

LEMMA MentioningGrows ==
    ASSUME NEW R, NEW S, IsFiniteSet(S), R \subseteq S, NEW w
    PROVE  /\ Cardinality(Mentioning(R, w)) \in Nat
           /\ Cardinality(Mentioning(S, w)) \in Nat
           /\ Cardinality(Mentioning(R, w)) <= Cardinality(Mentioning(S, w))
           /\ \A r \in S \ R : Mentions(r.posting, w) =>
                 Cardinality(Mentioning(R, w)) < Cardinality(Mentioning(S, w))
<1>1. Mentioning(S, w) \in SUBSET S /\ Mentioning(R, w) \in SUBSET Mentioning(S, w)
  BY DEF Mentioning
<1>2. IsFiniteSet(Mentioning(S, w))
  BY <1>1, FS_Subset
<1>3. /\ IsFiniteSet(Mentioning(R, w))
      /\ Cardinality(Mentioning(R, w)) <= Cardinality(Mentioning(S, w))
      /\ Cardinality(Mentioning(S, w)) = Cardinality(Mentioning(R, w)) =>
            Mentioning(S, w) = Mentioning(R, w)
  BY <1>1, <1>2, FS_Subset
<1>4. Cardinality(Mentioning(R, w)) \in Nat /\ Cardinality(Mentioning(S, w)) \in Nat
  BY <1>2, <1>3, FS_CardinalityType
<1>5. ASSUME NEW r \in S \ R, Mentions(r.posting, w)
      PROVE  Mentioning(S, w) # Mentioning(R, w)
  BY <1>5 DEF Mentioning
<1> QED
  BY <1>3, <1>4, <1>5

\* What Backing is, and that it only grows.
LEMMA BackingGrows ==
    ASSUME IsFiniteSet(rows), NEW t, IsFiniteSet(t.rows), NEW w
    PROVE  /\ Backing(t, w) \in Nat
           /\ Cardinality(Mentioning(rows, w)) \in Nat
           /\ Cardinality(Mentioning(rows, w)) <= Backing(t, w)
           /\ \A r \in t.rows : r \notin rows /\ Mentions(r.posting, w) =>
                 Cardinality(Mentioning(rows, w)) < Backing(t, w)
<1>1. IsFiniteSet(rows \cup t.rows)
  BY FS_Union
<1>2. rows \subseteq rows \cup t.rows
  OBVIOUS
<1>3. \A r \in t.rows : r \notin rows => r \in (rows \cup t.rows) \ rows
  OBVIOUS
<1> HIDE DEF Mentions
<1> QED
  BY <1>1, <1>2, <1>3, MentioningGrows DEF Backing

LEMMA CommittedCounts ==
    CountsBacked <=> \A w \in Token : counts[w] <= Cardinality(Mentioning(rows, w))
BY DEF CountsBacked, Mentioning, Mentions

\* A step of one session that commits nothing.
LEMMA OneRecordCounts ==
    ASSUME TypeOK, CountsInv, NEW s \in Session, NEW t,
           tx' = [tx EXCEPT ![s] = t], UNCHANGED dbVars, RowsBehind(t, s)
    PROVE  CountsInv'
<1>1. \A u \in Session : tx'[u] = IF u = s THEN t ELSE tx[u]
  BY DEF TypeOK
<1>2. \A u \in Session : RowsBehind(tx'[u], u)
  BY <1>1 DEF CountsInv
<1>3. rows' = rows /\ counts' = counts
  BY DEF dbVars
<1>4. IsFiniteSet(rows)' /\ CountsBacked'
  BY <1>3 DEF CountsInv, CountsBacked
<1> QED
  BY <1>2, <1>3, <1>4 DEF CountsInv, RowsBehind, Backing

\* A record that is not counting, with the same rows and counts as one in order.
LEMMA NotCounting ==
    ASSUME NEW s \in Session, NEW t, NEW u, RowsBehind(t, s), u.pc \notin Counting,
           u.rows = t.rows, u.counts = t.counts, u.serial = t.serial
    PROVE  RowsBehind(u, s)
<1>1. \A w : Backing(u, w) = Backing(t, w)
  BY DEF Backing
<1> QED
  BY <1>1 DEF RowsBehind, Owes, Counting

LEMMA IdleCounts ==
    ASSUME TypeOK, CountsInv, NEW s \in Session, NEW u,
           u.pc \notin Counting, u.rows = {}, u.counts = NoCounts, u.serial = tx[s].serial
    PROVE  RowsBehind(u, s)
<1>1. IsFiniteSet(u.rows) /\ IsFiniteSet(rows)
  BY FS_EmptySet DEF CountsInv
<1>2. \A w \in Token : u.counts[w] = 0 /\ Backing(u, w) \in Nat
  BY <1>1, BackingGrows DEF NoCounts
<1>3. \A r \in rows : r.session = s => r.serial < u.serial
  BY DEF CountsInv, RowsBehind
<1> QED
  BY <1>1, <1>2, <1>3 DEF RowsBehind, Owes, Counting

LEMMA AdvanceKeeps ==
    ASSUME NEW s, NEW t \in Tx
    PROVE  LET u == Advance(t, s)
           IN  /\ u.pc \notin Counting
               /\ u.rows = t.rows /\ u.counts = t.counts /\ u.serial = t.serial
BY DEF Advance, Tx, Counting

\* Every step but InsertEvent, the counting of a token and Commit.
LEMMA OtherCounts ==
    ASSUME IngestInv, CountsInv, NEW s \in Session,
           \/ Begin(s) \/ CheckFingerprint(s) \/ CheckRaises(s) \/ SelectEmployer(s)
           \/ InsertEmployer(s) \/ SkillsRaise(s) \/ DeadlockVictim(s) \/ Disconnect(s)
    PROVE  CountsInv'
<1>1. tx[s] \in Tx /\ RowsBehind(tx[s], s) /\ TypeOK
  BY DEF IngestInv, TypeOK, CountsInv
<1>2. UNCHANGED dbVars
  BY DEF Begin, CheckFingerprint, CheckRaises, SelectEmployer, InsertEmployer,
         SkillsRaise, DeadlockVictim, Disconnect, Undo
<1>3. ASSUME NEW u, tx' = [tx EXCEPT ![s] = u], u.pc \notin Counting,
             u.rows = tx[s].rows, u.counts = tx[s].counts, u.serial = tx[s].serial
      PROVE  CountsInv'
  BY <1>1, <1>2, <1>3, NotCounting, OneRecordCounts
<1>4. CASE Undo(s)
  <2> DEFINE u == Idle(tx[s].serial)
  <2>1. u.pc \notin Counting /\ u.rows = {} /\ u.counts = NoCounts /\ u.serial = tx[s].serial
    BY DEF Idle, Counting
  <2>2. tx' = [tx EXCEPT ![s] = u]
    BY <1>4 DEF Undo
  <2> HIDE DEF u
  <2>3. RowsBehind(u, s)
    BY <1>1, <2>1, IdleCounts
  <2> QED
    BY <1>1, <1>2, <2>2, <2>3, OneRecordCounts
<1>5. CASE Begin(s)
  <2>1. PICK feed \in Feed :
          tx' = [tx EXCEPT ![s] = [tx[s] EXCEPT !.pc = "check", !.todo = feed, !.begun = rows]]
    BY <1>5 DEF Begin
  <2> DEFINE u == [tx[s] EXCEPT !.pc = "check", !.todo = feed, !.begun = rows]
  <2>2. /\ u.pc \notin Counting
        /\ u.rows = tx[s].rows /\ u.counts = tx[s].counts /\ u.serial = tx[s].serial
    BY <1>1 DEF Tx, Counting
  <2> QED
    BY <1>3, <2>1, <2>2
<1>6. CASE CheckFingerprint(s)
  <2>1. \/ tx' = [tx EXCEPT ![s] = [tx[s] EXCEPT !.pc = "employer"]]
        \/ tx' = [tx EXCEPT ![s] = Advance(tx[s], s)]
    BY <1>6 DEF CheckFingerprint
  <2>2. LET u == [tx[s] EXCEPT !.pc = "employer"]
        IN  /\ u.pc \notin Counting
            /\ u.rows = tx[s].rows /\ u.counts = tx[s].counts /\ u.serial = tx[s].serial
    BY <1>1 DEF Tx, Counting
  <2> QED
    BY <1>1, <1>3, <2>1, <2>2, AdvanceKeeps
<1>7. ASSUME NEW t \in Tx, t.rows = tx[s].rows, t.counts = tx[s].counts,
             t.serial = tx[s].serial, tx' = [tx EXCEPT ![s] = AfterEmployer(t, s)]
      PROVE  CountsInv'
  <2>1. LET u == [t EXCEPT !.pc = "event"]
        IN  /\ u.pc \notin Counting
            /\ u.rows = t.rows /\ u.counts = t.counts /\ u.serial = t.serial
    BY DEF Tx, Counting
  <2>2. AfterEmployer(t, s) \in {[t EXCEPT !.pc = "event"], Advance(t, s)}
    BY DEF AfterEmployer
  <2> QED
    BY <1>3, <1>7, <2>1, <2>2, AdvanceKeeps
<1>8. CASE SelectEmployer(s)
  <2>1. \/ tx' = [tx EXCEPT ![s] = AfterEmployer(tx[s], s)]
        \/ tx' = [tx EXCEPT ![s] = [tx[s] EXCEPT !.pc = "new_employer"]]
    BY <1>8 DEF SelectEmployer
  <2>2. LET u == [tx[s] EXCEPT !.pc = "new_employer"]
        IN  /\ u.pc \notin Counting
            /\ u.rows = tx[s].rows /\ u.counts = tx[s].counts /\ u.serial = tx[s].serial
    BY <1>1 DEF Tx, Counting
  <2> QED
    BY <1>1, <1>3, <1>7, <2>1, <2>2
<1>9. CASE InsertEmployer(s) /\ ~Undo(s)
  <2> DEFINE t == [tx[s] EXCEPT !.employers = @ \cup {Company[Posted(s)]}]
  <2>1. tx' = [tx EXCEPT ![s] = AfterEmployer(t, s)]
    BY <1>9 DEF InsertEmployer
  <2>2. tx[s].pc = "new_employer" /\ InOrder(tx[s], s)
    BY <1>9, InvInOrder DEF InsertEmployer
  <2>3. Posted(s) \in Posting
    BY <1>1, <2>2, HeadTailProperties DEF Posted, InOrder, Wanting, Tx
  <2>4. [tx[s] EXCEPT !.employers = @ \cup {Company[Posted(s)]}] \in Tx
    BY <1>1, <2>3 DEF Tx, Name
  <2>5. t.rows = tx[s].rows /\ t.counts = tx[s].counts /\ t.serial = tx[s].serial
    BY <1>1 DEF Tx
  <2> QED
    BY <1>7, <2>1, <2>4, <2>5
<1> QED
  BY <1>4, <1>5, <1>6, <1>8, <1>9 DEF CheckRaises, SkillsRaise, DeadlockVictim, Disconnect

\* The new row is what the counts of its tokens will rest on.
LEMMA InsertEventCounts ==
    ASSUME IngestInv, CountsInv, NEW s \in Session, InsertEvent(s)
    PROVE  CountsInv'
<1> DEFINE p == Posted(s)
           row == [posting |-> p, session |-> s, serial |-> tx[s].serial]
           t == [tx[s] EXCEPT !.rows = @ \cup {row}, !.serial = @ + 1]
<1>1. tx[s] \in Tx /\ RowsBehind(tx[s], s) /\ TypeOK /\ tx[s].pc = "event" /\ InOrder(tx[s], s)
  BY InvInOrder DEF IngestInv, TypeOK, CountsInv, InsertEvent
<1>2. UNCHANGED dbVars
  BY DEF InsertEvent
<1>3. p \in Posting /\ p = Head(tx[s].todo)
  BY <1>1, HeadTailProperties DEF Posted, InOrder, Wanting, Tx
<1>4. row \in Row /\ tx[s].serial \in Nat /\ tx[s].serial + 1 \in Nat
  BY <1>1, <1>3 DEF Row, Tx
<1>5. row.posting = p /\ row.session = s /\ row.serial = tx[s].serial
  OBVIOUS
<1>6. tx' = [tx EXCEPT ![s] =
                IF p \in Broken THEN [t EXCEPT !.pc = "broken"]
                ELSE IF s \in ApiSession \/ Tokens[p] = <<>> THEN Advance(t, s)
                ELSE [t EXCEPT !.pc = "token", !.tokens = Tokens[p]]]
  BY DEF InsertEvent
<1> HIDE DEF row
<1>7. [tx[s] EXCEPT !.rows = @ \cup {row}, !.serial = @ + 1] \in Tx
  BY <1>1, <1>4 DEF Tx
<1>8. /\ t.pc = "event" /\ t.todo = tx[s].todo /\ t.rows = tx[s].rows \cup {row}
      /\ t.counts = tx[s].counts /\ t.serial = tx[s].serial + 1
  BY <1>1 DEF Tx
<1> HIDE DEF t
<1>9. t \in Tx
  BY <1>7 DEF t
<1>10. row \notin rows \cup tx[s].rows
  BY <1>1, <1>4, <1>5 DEF RowsBehind
<1>11. IsFiniteSet(rows) /\ IsFiniteSet(tx[s].rows) /\ IsFiniteSet(t.rows)
  <2>1. IsFiniteSet(rows) /\ IsFiniteSet(tx[s].rows)
    BY <1>1 DEF RowsBehind, CountsInv
  <2> QED
    BY <1>8, <2>1, FS_AddElement
<1>12. \A w \in Token : /\ t.counts[w] \in Nat /\ Backing(t, w) \in Nat
                        /\ t.counts[w] <= Backing(t, w)
                        /\ Mentions(p, w) => t.counts[w] < Backing(t, w)
  <2> SUFFICES ASSUME NEW w \in Token
               PROVE  /\ t.counts[w] \in Nat /\ Backing(t, w) \in Nat
                      /\ t.counts[w] <= Backing(t, w)
                      /\ Mentions(p, w) => t.counts[w] < Backing(t, w)
    OBVIOUS
  <2>1. IsFiniteSet(rows \cup t.rows) /\ rows \cup tx[s].rows \subseteq rows \cup t.rows
        /\ row \in (rows \cup t.rows) \ (rows \cup tx[s].rows)
    BY <1>8, <1>10, <1>11, FS_Union
  <2>2. /\ Backing(tx[s], w) \in Nat /\ Backing(t, w) \in Nat
        /\ Backing(tx[s], w) <= Backing(t, w)
        /\ Mentions(p, w) => Backing(tx[s], w) < Backing(t, w)
    BY <1>5, <2>1, MentioningGrows DEF Backing
  <2>3. tx[s].counts[w] \in Nat /\ tx[s].counts[w] <= Backing(tx[s], w)
    BY <1>1 DEF Tx, RowsBehind
  <2> QED
    BY <1>8, <2>2, <2>3
<1>13. /\ t.rows \cap rows = {}
       /\ \A r \in t.rows : r.serial < t.serial
       /\ \A r \in rows : r.session = s => r.serial < t.serial
  <2>1. \A r \in tx[s].rows : r.serial \in Nat /\ r.serial < tx[s].serial
    BY <1>1 DEF RowsBehind, Tx, Row
  <2>2. \A r \in rows : r.serial \in Nat /\ (r.session = s => r.serial < tx[s].serial)
    BY <1>1 DEF RowsBehind, TypeOK, Row
  <2> QED
    BY <1>1, <1>4, <1>5, <1>8, <1>10, <2>1, <2>2 DEF RowsBehind
<1>14. RowsBehind(t, s)
  BY <1>8, <1>11, <1>12, <1>13 DEF RowsBehind, Owes, Counting
<1>15. CASE p \in Broken
  <2> DEFINE u == [t EXCEPT !.pc = "broken"]
  <2>1. /\ u.pc \notin Counting
        /\ u.rows = t.rows /\ u.counts = t.counts /\ u.serial = t.serial
    BY <1>9 DEF Tx, Counting
  <2>2. tx' = [tx EXCEPT ![s] = u]
    BY <1>6, <1>15
  <2> HIDE DEF u
  <2> QED
    BY <1>1, <1>2, <1>14, <2>1, <2>2, NotCounting, OneRecordCounts
<1>16. CASE p \notin Broken /\ (s \in ApiSession \/ Tokens[p] = <<>>)
  <2> DEFINE u == Advance(t, s)
  <2>1. tx' = [tx EXCEPT ![s] = u]
    BY <1>6, <1>16
  <2>2. /\ u.pc \notin Counting
        /\ u.rows = t.rows /\ u.counts = t.counts /\ u.serial = t.serial
    BY <1>9, AdvanceKeeps
  <2> HIDE DEF u
  <2>3. RowsBehind(u, s)
    BY <1>14, <2>2, NotCounting
  <2> QED
    BY <1>1, <1>2, <2>1, <2>3, OneRecordCounts
<1>17. CASE p \notin Broken /\ ~(s \in ApiSession \/ Tokens[p] = <<>>)
  <2> DEFINE u == [t EXCEPT !.pc = "token", !.tokens = Tokens[p]]
  <2>1. tx' = [tx EXCEPT ![s] = u]
    BY <1>6, <1>17
  <2>2. /\ u.pc = "token" /\ u.todo = t.todo /\ u.tokens = Tokens[p]
        /\ u.rows = t.rows /\ u.counts = t.counts /\ u.serial = t.serial
    BY <1>9 DEF Tx
  <2> HIDE DEF u
  <2>3. \A i, j \in DOMAIN u.tokens : u.tokens[i] = u.tokens[j] => i = j
    BY <1>3, <2>2, PostingAssumption
  <2>4. \A i \in DOMAIN u.tokens : Mentions(p, u.tokens[i])
    BY <2>2 DEF Mentions
  <2>5. \E r \in u.rows : r.posting = Head(u.todo)
    BY <1>3, <1>5, <1>8, <2>2
  <2>6. \A w : Backing(u, w) = Backing(t, w)
    BY <2>2 DEF Backing
  <2>7. \A w \in Token : Owes(u, w) => Mentions(p, w)
    BY <2>4 DEF Owes
  <2>8. RowsBehind(u, s)
    BY <1>3, <1>8, <1>11, <1>12, <1>13, <2>2, <2>3, <2>4, <2>5, <2>6, <2>7 DEF RowsBehind
  <2> QED
    BY <1>1, <1>2, <2>1, <2>8, OneRecordCounts
<1> QED
  BY <1>15, <1>16, <1>17

\* The count that is read leaves room for the row of the posting.
LEMMA SelectTokenCounts ==
    ASSUME IngestInv, CountsInv, NEW s \in Session, SelectToken(s)
    PROVE  CountsInv'
<1> DEFINE w == Head(tx[s].tokens)
           n == Seen(s)[w]
           t == [tx[s] EXCEPT !.pc = "write_token", !.read = n]
<1>1. tx[s] \in Tx /\ RowsBehind(tx[s], s) /\ TypeOK /\ tx[s].pc = "token" /\ InOrder(tx[s], s)
  BY InvInOrder DEF IngestInv, TypeOK, CountsInv, SelectToken
<1>2. tx' = [tx EXCEPT ![s] = t] /\ UNCHANGED dbVars
  BY DEF SelectToken
<1>3. /\ tx[s].tokens \in Seq(Token) /\ tx[s].tokens # <<>> /\ w \in Token
      /\ 1 \in DOMAIN tx[s].tokens /\ w = tx[s].tokens[1]
  <2>1. tx[s].tokens \in Seq(Token) /\ tx[s].tokens # <<>>
    BY <1>1 DEF InOrder, Tx
  <2> QED
    BY <2>1, HeadTailProperties, EmptySeq
<1>4. Owes(tx[s], w) /\ Mentions(Head(tx[s].todo), w)
  BY <1>1, <1>3 DEF Owes, Counting, RowsBehind
<1>5. IsFiniteSet(rows) /\ IsFiniteSet(tx[s].rows)
  BY <1>1 DEF RowsBehind, CountsInv
<1>6. n < Backing(tx[s], w)
  <2>1. CASE tx[s].counts[w] # 0
    BY <1>1, <1>3, <1>4, <2>1 DEF Seen, CountsOver, RowsBehind
  <2>2. CASE tx[s].counts[w] = 0
    <3>1. n = counts[w] /\ counts[w] \in Nat
      BY <1>1, <1>3, <2>2 DEF Seen, CountsOver, TypeOK
    <3>2. counts[w] <= Cardinality(Mentioning(rows, w))
      BY <1>3, CommittedCounts DEF CountsInv
    <3>3. PICK r \in tx[s].rows : r.posting = Head(tx[s].todo) /\ r \notin rows
      BY <1>1 DEF RowsBehind, Counting
    <3>4. /\ Cardinality(Mentioning(rows, w)) < Backing(tx[s], w)
          /\ Cardinality(Mentioning(rows, w)) \in Nat /\ Backing(tx[s], w) \in Nat
      BY <1>4, <1>5, <3>3, BackingGrows
    <3> QED
      BY <3>1, <3>2, <3>4
  <2> QED
    BY <2>1, <2>2
<1> HIDE DEF n
<1>7. /\ t.pc = "write_token" /\ t.todo = tx[s].todo /\ t.tokens = tx[s].tokens /\ t.read = n
      /\ t.rows = tx[s].rows /\ t.counts = tx[s].counts /\ t.serial = tx[s].serial
  BY <1>1 DEF Tx
<1> HIDE DEF t
<1>8. \A v : Backing(t, v) = Backing(tx[s], v) /\ (Owes(t, v) <=> Owes(tx[s], v))
  BY <1>1, <1>7 DEF Backing, Owes, Counting
<1>9. RowsBehind(t, s)
  BY <1>1, <1>6, <1>7, <1>8 DEF RowsBehind, Counting
<1> QED
  BY <1>1, <1>2, <1>9, OneRecordCounts

\* The value written is one more than the one read, and its token is done with.
LEMMA WriteTokenCounts ==
    ASSUME IngestInv, CountsInv, NEW s \in Session, WriteToken(s)
    PROVE  CountsInv'
<1> DEFINE w == Head(tx[s].tokens)
           c == [tx[s].counts EXCEPT ![w] = tx[s].read + 1]
           t == [tx[s] EXCEPT !.counts = c]
           u == AfterToken(t, s)
<1>1. /\ tx[s] \in Tx /\ RowsBehind(tx[s], s) /\ TypeOK /\ tx[s].pc = "write_token"
      /\ InOrder(tx[s], s)
  BY InvInOrder DEF IngestInv, TypeOK, CountsInv, WriteToken
<1>2. UNCHANGED dbVars
  BY DEF WriteToken
<1>3. CASE Undo(s)
  <2>1. Disconnect(s)
    BY <1>1, <1>3 DEF Disconnect, WriteToken
  <2> QED
    BY <2>1, OtherCounts
<1>4. CASE ~Undo(s)
  <2>1. tx' = [tx EXCEPT ![s] = u]
    BY <1>4 DEF WriteToken, Incremented
  <2>2. /\ tx[s].tokens \in Seq(Token) /\ tx[s].tokens # <<>> /\ w \in Token
        /\ Tail(tx[s].tokens) \in Seq(Token)
        /\ \A i \in DOMAIN Tail(tx[s].tokens) :
              i + 1 \in DOMAIN tx[s].tokens /\ i + 1 # 1
              /\ Tail(tx[s].tokens)[i] = tx[s].tokens[i + 1]
        /\ 1 \in DOMAIN tx[s].tokens /\ w = tx[s].tokens[1]
    <3>1. tx[s].tokens \in Seq(Token) /\ tx[s].tokens # <<>>
      BY <1>1 DEF InOrder, Tx
    <3> QED
      BY <3>1, HeadTailProperties, EmptySeq
  <2>3. tx[s].read \in Nat /\ tx[s].counts \in [Token -> Nat]
    BY <1>1 DEF Tx
  <2>4. c \in [Token -> Nat] /\ \A v \in Token : c[v] = IF v = w THEN tx[s].read + 1
                                                           ELSE tx[s].counts[v]
    BY <2>2, <2>3
  <2> HIDE DEF c
  <2>5. [tx[s] EXCEPT !.counts = c] \in Tx
    BY <1>1, <2>4 DEF Tx
  <2>6. /\ t.pc = "write_token" /\ t.todo = tx[s].todo /\ t.tokens = tx[s].tokens
        /\ t.rows = tx[s].rows /\ t.counts = c /\ t.serial = tx[s].serial
    BY <1>1 DEF Tx
  <2> HIDE DEF t
  <2>7. t \in Tx
    BY <2>5 DEF t
  <2>8. IsFiniteSet(rows) /\ IsFiniteSet(tx[s].rows)
    BY <1>1 DEF RowsBehind, CountsInv
  <2>9. \A v \in Token : Backing(tx[s], v) \in Nat
    BY <2>8, BackingGrows
  <2>10. \A v \in Token : c[v] <= Backing(tx[s], v)
    <3>1. tx[s].read < Backing(tx[s], w)
      BY <1>1 DEF RowsBehind
    <3>2. \A v \in Token : tx[s].counts[v] <= Backing(tx[s], v)
      BY <1>1 DEF RowsBehind
    <3>3. tx[s].read + 1 <= Backing(tx[s], w)
      BY <2>2, <2>3, <2>9, <3>1
    <3> QED
      BY <2>4, <3>2, <3>3
  <2>11. CASE Tail(t.tokens) = <<>>
    <3>1. u = Advance(t, s)
      BY <2>11 DEF AfterToken
    <3>2. /\ u.pc \notin Counting
          /\ u.rows = tx[s].rows /\ u.counts = c /\ u.serial = tx[s].serial
      BY <2>6, <2>7, <3>1, AdvanceKeeps
    <3> HIDE DEF u
    <3>3. \A v : Backing(u, v) = Backing(tx[s], v)
      BY <3>2 DEF Backing
    <3>4. RowsBehind(u, s)
      BY <1>1, <2>10, <3>2, <3>3 DEF RowsBehind, Owes, Counting
    <3> QED
      BY <1>1, <1>2, <2>1, <3>4, OneRecordCounts
  <2>12. CASE Tail(t.tokens) # <<>>
    <3>1. u = [t EXCEPT !.pc = "token", !.tokens = Tail(t.tokens)]
      BY <2>12 DEF AfterToken
    <3>2. /\ u.pc = "token" /\ u.todo = tx[s].todo /\ u.tokens = Tail(tx[s].tokens)
          /\ u.rows = tx[s].rows /\ u.counts = c /\ u.serial = tx[s].serial
      BY <2>6, <2>7, <3>1 DEF Tx
    <3> HIDE DEF u
    <3>3. \A v : Backing(u, v) = Backing(tx[s], v)
      BY <3>2 DEF Backing
    <3>4. \A i, j \in DOMAIN tx[s].tokens : tx[s].tokens[i] = tx[s].tokens[j] => i = j
      BY <1>1 DEF RowsBehind, Counting
    <3>5. \A i \in DOMAIN u.tokens : Mentions(Head(u.todo), u.tokens[i])
      BY <1>1, <2>2, <3>2 DEF RowsBehind, Counting
    <3>6. \A i, j \in DOMAIN u.tokens : u.tokens[i] = u.tokens[j] => i = j
      <4> SUFFICES ASSUME NEW i \in DOMAIN u.tokens, NEW j \in DOMAIN u.tokens,
                          u.tokens[i] = u.tokens[j]
                   PROVE  i = j
        OBVIOUS
      <4>1. i + 1 = j + 1
        BY <2>2, <3>2, <3>4
      <4>2. i \in Nat /\ j \in Nat
        BY <2>2, <3>2
      <4> QED
        BY <4>1, <4>2
    <3>7. \A v \in Token : Owes(u, v) => v # w /\ Owes(tx[s], v)
      BY <1>1, <2>2, <3>2, <3>4 DEF Owes, Counting
    <3>8. \A v \in Token : Owes(u, v) => c[v] < Backing(tx[s], v)
      BY <1>1, <2>4, <3>7 DEF RowsBehind
    <3>9. \E r \in u.rows : r.posting = Head(u.todo)
      BY <1>1, <3>2 DEF RowsBehind, Counting
    <3>10. RowsBehind(u, s)
      BY <1>1, <2>10, <3>2, <3>3, <3>5, <3>6, <3>8, <3>9 DEF RowsBehind, Counting
    <3> QED
      BY <1>1, <1>2, <2>1, <3>10, OneRecordCounts
  <2> QED
    BY <2>11, <2>12
<1> QED
  BY <1>3, <1>4

\* A commit moves rows and counts together; for the other sessions the committed rows
\* only become more.
LEMMA CommitCounts ==
    ASSUME IngestInv, CountsInv, NEW s \in Session, Commit(s)
    PROVE  CountsInv'
<1> DEFINE t == tx'[s]
<1>1. /\ TypeOK /\ TypeOK'
      /\ \A u \in Session : tx[u] \in Tx /\ RowsBehind(tx[u], u) /\ InOrder(tx[u], u)
  BY InvInOrder, CommitInv DEF IngestInv, TypeOK, CountsInv
<1>2. rows' = rows \cup tx[s].rows /\ counts' = CountsOver(counts, tx[s].counts)
  BY DEF Commit
<1>3. \A u \in Session \ {s} : tx'[u] = tx[u]
  BY <1>1 DEF Commit, TypeOK
<1>4. t.pc \notin Counting /\ t.rows = {} /\ t.counts = NoCounts /\ t.serial = tx[s].serial
  BY <1>1 DEF Commit, TypeOK, Idle, Counting
<1>5. IsFiniteSet(rows')
  BY <1>1, <1>2, FS_Union DEF RowsBehind, CountsInv
<1>6. CountsBacked'
  <2>1. \A w \in Token : counts'[w] <= Cardinality(Mentioning(rows', w))
    <3> SUFFICES ASSUME NEW w \in Token
                 PROVE  counts'[w] <= Cardinality(Mentioning(rows', w))
      OBVIOUS
    <3>1. tx[s].counts[w] \in Nat /\ counts[w] \in Nat
      BY <1>1 DEF Tx, TypeOK
    <3>2. counts'[w] = IF tx[s].counts[w] = 0 THEN counts[w] ELSE tx[s].counts[w]
      BY <1>2 DEF CountsOver
    <3>3. tx[s].counts[w] <= Cardinality(Mentioning(rows', w))
      BY <1>1, <1>2 DEF RowsBehind, Backing
    <3>4. /\ Cardinality(Mentioning(rows, w)) <= Cardinality(Mentioning(rows', w))
          /\ Cardinality(Mentioning(rows, w)) \in Nat
          /\ Cardinality(Mentioning(rows', w)) \in Nat
      BY <1>2, <1>5, MentioningGrows
    <3>5. counts[w] <= Cardinality(Mentioning(rows, w))
      BY CommittedCounts DEF CountsInv
    <3> QED
      BY <3>1, <3>2, <3>3, <3>4, <3>5
  <2> QED
    BY <2>1 DEF CountsBacked, Mentioning, Mentions
<1>7. ASSUME NEW u \in Session \ {s}
      PROVE  RowsBehind(tx[u], u)'
  <2>1. tx'[u] = tx[u] /\ tx[u] \in Tx /\ RowsBehind(tx[u], u)
    BY <1>1, <1>3
  <2>2. \A r \in tx[s].rows : r.session = s
    BY <1>1 DEF InOrder
  <2>3. \A r \in tx[u].rows : r.session = u
    BY <1>1 DEF InOrder
  <2>4. \A w \in Token : /\ Backing(tx[u], w) \in Nat /\ Backing(tx[u], w)' \in Nat
                         /\ Backing(tx[u], w) <= Backing(tx[u], w)'
    <3>1. IsFiniteSet(rows' \cup tx[u].rows) /\ rows \cup tx[u].rows \subseteq rows' \cup tx[u].rows
      BY <1>2, <1>5, <2>1, FS_Union DEF RowsBehind
    <3> QED
      BY <2>1, <3>1, MentioningGrows DEF Backing
  <2>5. tx[u].rows \cap rows' = {}
    BY <1>2, <2>1, <2>2, <2>3 DEF RowsBehind
  <2>6. \A r \in rows' : r.session = u => r.serial < tx[u].serial
    BY <1>2, <2>1, <2>2 DEF RowsBehind
  <2>7. /\ \A w \in Token : tx[u].counts[w] <= Backing(tx[u], w)'
        /\ \A w \in Token : Owes(tx[u], w) => tx[u].counts[w] < Backing(tx[u], w)'
    BY <2>1, <2>4 DEF RowsBehind, Tx
  <2>8. tx[u].pc = "write_token" => tx[u].read < Backing(tx[u], Head(tx[u].tokens))'
    <3> SUFFICES ASSUME tx[u].pc = "write_token"
                 PROVE  tx[u].read < Backing(tx[u], Head(tx[u].tokens))'
      OBVIOUS
    <3>1. Head(tx[u].tokens) \in Token
      BY <1>1, HeadTailProperties DEF InOrder, Tx
    <3>2. tx[u].read \in Nat /\ tx[u].read < Backing(tx[u], Head(tx[u].tokens))
      BY <2>1 DEF RowsBehind, Tx
    <3> QED
      BY <2>1, <2>4, <3>1, <3>2
  <2> QED
    BY <2>1, <2>5, <2>6, <2>7, <2>8 DEF RowsBehind, Owes
<1>8. RowsBehind(tx[s], s)'
  <2>1. IsFiniteSet(t.rows)
    BY <1>4, FS_EmptySet
  <2>2. \A w \in Token : t.counts[w] = 0 /\ Backing(tx[s], w)' \in Nat
    <3>1. IsFiniteSet(rows' \cup t.rows)
      BY <1>5, <2>1, FS_Union
    <3> QED
      BY <1>4, <3>1, MentioningGrows DEF Backing, NoCounts
  <2>3. \A r \in rows' : r.session = s => r.serial < t.serial
    BY <1>1, <1>2, <1>4 DEF RowsBehind
  <2> QED
    BY <1>4, <2>1, <2>2, <2>3 DEF RowsBehind, Owes, Counting
<1> QED
  BY <1>5, <1>6, <1>7, <1>8 DEF CountsInv

LEMMA CountsInit == Init => CountsInv
<1> SUFFICES ASSUME Init PROVE CountsInv
  OBVIOUS
<1>1. IsFiniteSet(rows) /\ \A w \in Token : counts[w] = 0
  BY FS_EmptySet DEF Init, NoCounts
<1>2. CountsBacked
  <2>1. \A w \in Token : Cardinality(Mentioning(rows, w)) \in Nat
    BY <1>1, MentioningGrows
  <2> QED
    BY <1>1, <2>1, CommittedCounts
<1>3. ASSUME NEW s \in Session
      PROVE  RowsBehind(tx[s], s)
  <2>1. /\ tx[s].pc \notin Counting /\ tx[s].rows = {} /\ tx[s].counts = NoCounts
        /\ tx[s].serial = 0 /\ rows = {}
    BY DEF Init, Idle, Counting
  <2>2. IsFiniteSet(tx[s].rows)
    BY <2>1, FS_EmptySet
  <2>3. \A w \in Token : tx[s].counts[w] = 0 /\ Backing(tx[s], w) \in Nat
    BY <1>1, <2>1, <2>2, BackingGrows DEF NoCounts
  <2> QED
    BY <2>1, <2>2, <2>3 DEF RowsBehind, Owes, Counting
<1> QED
  BY <1>1, <1>2, <1>3 DEF CountsInv

LEMMA CountsStep == IngestInv /\ CountsInv /\ [Next]_vars => CountsInv'
<1> SUFFICES ASSUME IngestInv, CountsInv, [Next]_vars PROVE CountsInv'
  OBVIOUS
<1>1. CASE UNCHANGED vars
  BY <1>1 DEF vars, CountsInv, CountsBacked, RowsBehind, Backing, Owes
<1> QED
  BY <1>1, OtherCounts, InsertEventCounts, SelectTokenCounts, WriteTokenCounts,
     CommitCounts DEF Next, Progress

\* However many runs read, add one and write at a time, a candidate's committed count
\* is never above the number of committed postings that mention it.
THEOREM CountsBackedCorrect == Spec => []CountsBacked
<1>1. CountsInv => CountsBacked
  BY DEF CountsInv
<1> QED
  BY <1>1, CountsInit, CountsStep, InvCorrect, PTL DEF Spec

=============================================================================
