------------------------- MODULE BitmapIndexProofs -------------------------
(***************************************************************************)
(* Theorems about BitmapIndex for every set of rows, sessions and keys,    *)
(* every batch size and any number of faults; last, that it implements     *)
(* PostingIndex.                                                           *)
(***************************************************************************)
EXTENDS BitmapIndex, TLAPS

----------------------------------------------------------------------------
\* Publish.

\* What one Redis transaction leaves: the new entries over the old ones.
LEMMA PublishType ==
    ASSUME TypeOK,
           NEW F \in SUBSET (Nat \ {0}), NEW g \in [F -> Event], NEW keysOf,
           Publish(g, keysOf)
    PROVE  /\ DOMAIN idx' \subseteq Nat \ {0}
           /\ idx' \in [DOMAIN idx' -> Event]
           /\ bits' \in [Key -> SUBSET (Nat \ {0})]
<1>1. idx \in [DOMAIN idx -> Event] /\ DOMAIN idx \subseteq Nat \ {0}
  BY DEF TypeOK
<1>2. DOMAIN idx' = DOMAIN idx \cup F /\ idx' \in [DOMAIN idx \cup F -> Event]
  BY <1>1 DEF Publish, Overlay
<1>3. bits' \in [Key -> SUBSET (Nat \ {0})]
  BY DEF Publish, TypeOK
<1> QED
  BY <1>1, <1>2, <1>3

----------------------------------------------------------------------------
\* Type correctness.

LEMMA TypeInit == Init => TypeOK
<1> SUFFICES ASSUME Init PROVE TypeOK
  OBVIOUS
<1>1. DOMAIN idx \subseteq Nat \ {0} /\ idx \in [DOMAIN idx -> Event]
  BY DEF Init, NoEntry
<1>2. /\ counter \in Nat \cup {NoCounter}
      /\ bits \in [Key -> SUBSET (Nat \ {0})]
      /\ listed \in [bm : SUBSET Key, idx : SUBSET Nat, counter : SUBSET Nat]
  BY DEF Init, NoBits, NothingListed
<1>3. faults \in 0..MaxFaults
  BY BoundAssumption DEF Init
<1> QED
  BY <1>1, <1>2, <1>3 DEF Init, TypeOK, Stage

LEMMA TypeWriter ==
    ASSUME TypeOK, NEW w \in Writer, WriterStep(w)
    PROVE  TypeOK'
<1> USE KeysAssumption DEF TypeOK
<1>1. CASE Insert(w)
  BY <1>1 DEF Insert, Fresh, redisVars, backendVars
<1>2. CASE Commit(w)
  BY <1>2 DEF Commit, redisVars, backendVars
<1>3. CASE Rollback(w)
  BY <1>3 DEF Rollback, redisVars, backendVars
<1>4. CASE NextIndex(w)
  <2>1. counter' \in Nat
    BY <1>4 DEF NextIndex, NoCounter
  <2> QED
    BY <1>4, <2>1 DEF NextIndex, backendVars
<1>5. CASE AddPosting(w)
  <2>1. PICK e \in pending[w] :
           Publish([n \in {num[w]} |-> e], KeysWritten(w))
    BY <1>5 DEF AddPosting
  <2>2. /\ DOMAIN idx' \subseteq Nat \ {0}
        /\ idx' \in [DOMAIN idx' -> Event]
        /\ bits' \in [Key -> SUBSET (Nat \ {0})]
    <3>1. {num[w]} \in SUBSET (Nat \ {0})
      BY <1>5 DEF AddPosting, Holds
    <3>2. [n \in {num[w]} |-> e] \in [{num[w]} -> Event]
      BY <2>1
    <3> QED
      BY <2>1, <3>1, <3>2, PublishType
  <2>3. pc' \in [Writer -> {"idle", "txn", "flush"}]
        /\ pending' \in [Writer -> SUBSET Event]
    BY <1>5 DEF AddPosting
  <2> QED
    BY <1>5, <2>2, <2>3 DEF AddPosting, backendVars
<1>6. CASE Fail(w)
  <2>1. faults' \in 0..MaxFaults
    BY <1>6, BoundAssumption DEF Fail
  <2> QED
    BY <1>6, <2>1 DEF Fail, redisVars, backendVars
<1> QED
  BY <1>1, <1>2, <1>3, <1>4, <1>5, <1>6 DEF WriterStep

LEMMA TypeBackend ==
    ASSUME TypeOK, BackendStep
    PROVE  TypeOK'
<1> USE KeysAssumption, BoundAssumption DEF TypeOK, GoTo, Stage
<1>1. CASE Boot
  BY <1>1 DEF Boot, redisVars, writerVars
<1>2. CASE CountRows
  BY <1>2 DEF CountRows, redisVars, writerVars
<1>3. CASE CheckCounter
  BY <1>3 DEF CheckCounter, redisVars, writerVars
<1>4. CASE ListKeys
  BY <1>4 DEF ListKeys, redisVars, writerVars, NoCounter
<1>5. CASE DeleteKeys
  <2>1. CASE backend = "delete_bm"
    BY <1>5, <2>1 DEF DeleteKeys, writerVars
  <2>2. CASE backend = "delete_idx"
    BY <1>5, <2>2 DEF DeleteKeys, writerVars
  <2>3. CASE backend = "delete_counter"
    BY <1>5, <2>3 DEF DeleteKeys, writerVars
  <2> QED
    BY <1>5, <2>1, <2>2, <2>3 DEF DeleteKeys
<1>6. CASE SelectRows
  BY <1>6 DEF SelectRows, redisVars, writerVars
<1>7. CASE WriteBatch
  <2>1. PICK size \in 1..BatchSize :
          \E f \in [count + 1 .. count + size -> rows] :
            /\ Publish(f, PipelineKeys)
            /\ rows' = rows \ {f[n] : n \in DOMAIN f}
            /\ count' = count + size
    BY <1>7 DEF WriteBatch, BatchNumbers
  <2>2. PICK f \in [count + 1 .. count + size -> rows] :
            /\ Publish(f, PipelineKeys)
            /\ rows' = rows \ {f[n] : n \in DOMAIN f}
            /\ count' = count + size
    BY <2>1
  <2>3. count + 1 .. count + size \in SUBSET (Nat \ {0})
    OBVIOUS
  <2>4. f \in [count + 1 .. count + size -> Event]
    OBVIOUS
  <2>5. /\ DOMAIN idx' \subseteq Nat \ {0}
        /\ idx' \in [DOMAIN idx' -> Event]
        /\ bits' \in [Key -> SUBSET (Nat \ {0})]
    BY <2>2, <2>3, <2>4, PublishType
  <2> QED
    BY <1>7, <2>2, <2>5 DEF WriteBatch, writerVars
<1>8. CASE BatchesDone
  BY <1>8 DEF BatchesDone, redisVars, writerVars
<1>9. CASE SetCounter
  BY <1>9 DEF SetCounter, writerVars
<1> QED
  BY <1>1, <1>2, <1>3, <1>4, <1>5, <1>6, <1>7, <1>8, <1>9 DEF BackendStep

LEMMA TypeFault ==
    ASSUME TypeOK, StartupFails \/ BackendCrash \/ RedisLoss
    PROVE  TypeOK'
<1> USE KeysAssumption, BoundAssumption DEF TypeOK, GoTo, Stage, NothingListed
<1>1. CASE StartupFails
  BY <1>1 DEF StartupFails, Interrupted, redisVars, writerVars
<1>2. CASE BackendCrash
  BY <1>2 DEF BackendCrash, Interrupted, redisVars
<1>3. CASE RedisLoss
  BY <1>3 DEF RedisLoss, NoCounter, NoEntry, NoBits, writerVars, backendVars
<1> QED
  BY <1>1, <1>2, <1>3

LEMMA TypeStep == TypeOK /\ [Next]_vars => TypeOK'
<1> SUFFICES ASSUME TypeOK, [Next]_vars PROVE TypeOK'
  OBVIOUS
<1>1. CASE Next
  BY <1>1, TypeWriter, TypeBackend, TypeFault DEF Next
<1>2. CASE UNCHANGED vars
  BY <1>2 DEF vars, redisVars, writerVars, backendVars, TypeOK
<1> QED
  BY <1>1, <1>2

\* Every reachable state is well typed; in particular no posting number is 0,
\* the bit that search skips, and the counter never goes below its absence.
THEOREM TypeCorrect == Spec => []TypeOK
  BY TypeInit, TypeStep, PTL DEF Spec

----------------------------------------------------------------------------
\* The inductive invariant, one lemma per group of actions.

LEMMA InvInit == Init => IndexInv
<1> SUFFICES ASSUME Init PROVE IndexInv
  OBVIOUS
<1>1. TypeOK
  BY TypeInit
<1>2. SessionsApart /\ RebuildLocal
  BY DEF Init, SessionsApart, RebuildLocal, Holds
<1>3. idx = NoEntry /\ DOMAIN idx = {} /\ bits = NoBits
  BY DEF Init, NoEntry
<1>4. IndexedRowsCommitted /\ RowsNumberedOnce
  BY <1>3 DEF IndexedRowsCommitted, RowsNumberedOnce
<1>5. FiltersExact
  BY <1>3 DEF FiltersExact, BitsMatchRows, NoBits
<1>6. NumbersBelow /\ PublishedOnce
  BY <1>3 DEF Init, NumbersBelow, PublishedOnce, Rebuilding, RebuildStage, Holds,
              Owed
<1> QED
  BY <1>1, <1>2, <1>4, <1>5, <1>6 DEF IndexInv

\* The clauses about the index alone survive every step that leaves it alone.
LEMMA IndexUntouched ==
    ASSUME IndexInv, UNCHANGED <<idx, bits>>, clean' => clean,
           committed \subseteq committed'
    PROVE  IndexedRowsCommitted' /\ RowsNumberedOnce' /\ FiltersExact'
<1>1. IndexedRowsCommitted'
  BY DEF IndexInv, IndexedRowsCommitted
<1>2. RowsNumberedOnce'
  BY DEF IndexInv, RowsNumberedOnce
<1>3. FiltersExact'
  BY DEF IndexInv, FiltersExact, BitsMatchRows
<1> QED
  BY <1>1, <1>2, <1>3

\* The transaction of a session: no row moves into the index yet.
LEMMA InvTransaction ==
    ASSUME IndexInv, NEW w \in Writer, Insert(w) \/ Commit(w) \/ Rollback(w)
    PROVE  IndexInv'
<1>1. TypeOK'
  BY TypeWriter DEF IndexInv, WriterStep
<1>2. IndexedRowsCommitted' /\ RowsNumberedOnce' /\ FiltersExact'
  BY IndexUntouched DEF IndexInv, Insert, Commit, Rollback, redisVars
<1> USE DEF IndexInv, TypeOK, Holds, Owed, Rebuilding, redisVars, backendVars
<1>3. CASE Insert(w)
  <2>1. SessionsApart'
    BY <1>3 DEF Insert, Fresh, SessionsApart
  <2>2. RebuildLocal'
    BY <1>3 DEF Insert, RebuildLocal
  <2>3. NumbersBelow'
    BY <1>3 DEF Insert, NumbersBelow
  <2>4. PublishedOnce'
    BY <1>3 DEF Insert, PublishedOnce
  <2> QED
    BY <1>1, <1>2, <2>1, <2>2, <2>3, <2>4
<1>4. CASE Commit(w)
  <2>1. SessionsApart'
    BY <1>4 DEF Commit, SessionsApart
  <2>2. RebuildLocal'
    BY <1>4 DEF Commit, RebuildLocal
  <2>3. NumbersBelow'
    BY <1>4 DEF Commit, NumbersBelow
  <2>4. PublishedOnce'
    BY <1>4 DEF Commit, PublishedOnce, SessionsApart, RebuildLocal,
                IndexedRowsCommitted
  <2> QED
    BY <1>1, <1>2, <2>1, <2>2, <2>3, <2>4
<1>5. CASE Rollback(w)
  <2>1. SessionsApart'
    BY <1>5 DEF Rollback, SessionsApart
  <2>2. RebuildLocal'
    BY <1>5 DEF Rollback, RebuildLocal
  <2>3. NumbersBelow'
    BY <1>5 DEF Rollback, NumbersBelow
  <2>4. PublishedOnce'
    BY <1>5 DEF Rollback, PublishedOnce
  <2> QED
    BY <1>1, <1>2, <2>1, <2>2, <2>3, <2>4
<1> QED
  BY <1>3, <1>4, <1>5

\* INCR hands out a number above every number in use and every number held.
LEMMA InvNextIndex ==
    ASSUME IndexInv, NEW w \in Writer, NextIndex(w)
    PROVE  IndexInv'
<1>1. TypeOK'
  BY TypeWriter DEF IndexInv, WriterStep
<1>2. IndexedRowsCommitted' /\ RowsNumberedOnce' /\ FiltersExact'
  BY IndexUntouched DEF IndexInv, NextIndex
<1> USE DEF IndexInv, TypeOK, Holds, Owed, backendVars
<1>3. SessionsApart'
  BY DEF NextIndex, SessionsApart
<1>4. RebuildLocal'
  BY DEF NextIndex, RebuildLocal
<1>5. NumbersBelow'
  <2> SUFFICES ASSUME clean' PROVE NumbersBelow'
    BY DEF NumbersBelow
  <2>1. clean /\ ~Rebuilding /\ ~Rebuilding'
    BY DEF NextIndex, Rebuilding
  <2>2. counter' \in Nat /\ counter' > counter
    BY DEF NextIndex, NoCounter
  <2>3. \A n \in DOMAIN idx : n \in Nat /\ n < counter'
    BY <2>1, <2>2 DEF NumbersBelow, NoCounter
  <2>4. \A v \in Writer : Holds(v) => num[v] < counter'
    BY <2>1, <2>2 DEF NumbersBelow, NoCounter
  <2>5. \A v \in Writer : num'[v] = IF v = w THEN counter' ELSE num[v]
    BY DEF NextIndex
  <2>6. idx' = idx
    BY DEF NextIndex
  <2>7. \A v \in Writer : Holds(v)' => num'[v] <= counter' /\ num'[v] \notin DOMAIN idx
    BY <2>1, <2>2, <2>3, <2>4, <2>5 DEF NumbersBelow
  <2>8. \A u, v \in Writer : u # v /\ Holds(u)' => num'[u] # num'[v]
    BY <2>1, <2>2, <2>4, <2>5 DEF NumbersBelow
  <2> QED
    BY <2>1, <2>2, <2>3, <2>6, <2>7, <2>8 DEF NumbersBelow
<1>6. PublishedOnce'
  BY DEF NextIndex, PublishedOnce
<1> QED
  BY <1>1, <1>2, <1>3, <1>4, <1>5, <1>6

\* One MULTI/EXEC: a fresh number, a row nobody else publishes, all its bits.
LEMMA InvAddPosting ==
    ASSUME IndexInv, NEW w \in Writer, AddPosting(w)
    PROVE  IndexInv'
<1>1. TypeOK'
  BY TypeWriter DEF IndexInv, WriterStep
<1> USE DEF IndexInv, TypeOK, Holds, Owed, backendVars
<1>2. PICK e \in pending[w] :
         /\ Publish([n \in {num[w]} |-> e], KeysWritten(w))
         /\ pending' = [pending EXCEPT ![w] = @ \ {e}]
         /\ pc' = [pc EXCEPT ![w] = IF pending[w] = {e} THEN "idle" ELSE "flush"]
  BY DEF AddPosting
<1>3. /\ DOMAIN idx' = DOMAIN idx \cup {num[w]}
      /\ \A n \in DOMAIN idx' : idx'[n] = IF n = num[w] THEN e ELSE idx[n]
      /\ \A k \in Key : bits'[k] = bits[k] \cup
                          {n \in {num[w]} : k \in KeysWritten(w)[e]}
  BY <1>2 DEF Publish, Overlay
<1>4. /\ pc[w] = "flush" /\ num[w] # 0 /\ num' = [num EXCEPT ![w] = 0]
      /\ UNCHANGED <<committed, counter, backend, rows, count, clean>>
  BY DEF AddPosting
<1>5. e \in committed /\ e \in Event /\ e \in Owed
  BY <1>4 DEF SessionsApart
<1>6. SessionsApart'
  BY <1>2, <1>4 DEF SessionsApart
<1>7. RebuildLocal'
  BY <1>4 DEF RebuildLocal
<1>8. IndexedRowsCommitted'
  BY <1>3, <1>4, <1>5 DEF IndexedRowsCommitted
<1>9. NumbersBelow'
  <2> SUFFICES ASSUME clean' PROVE NumbersBelow'
    BY DEF NumbersBelow
  <2>1. clean /\ ~Rebuilding /\ ~Rebuilding'
    BY <1>4 DEF NumbersBelow, NoCounter, Rebuilding
  <2> QED
    BY <1>3, <1>4, <2>1 DEF NumbersBelow
<1>10. Owed' \subseteq Owed /\ (e \notin Owed')
  <2>1. Owed' \subseteq Owed
    BY <1>2, <1>4
  <2>2. \A v \in Writer : e \notin pending'[v]
    BY <1>2, <1>4 DEF SessionsApart
  <2> QED
    BY <2>1, <2>2
<1>11. PublishedOnce'
  BY <1>3, <1>4, <1>5, <1>10 DEF PublishedOnce
<1>12. RowsNumberedOnce'
  BY <1>3, <1>4, <1>5 DEF RowsNumberedOnce, PublishedOnce
<1>13. FiltersExact'
  <2> SUFFICES ASSUME clean' PROVE BitsMatchRows'
    BY DEF FiltersExact
  <2>1. clean /\ num[w] \notin DOMAIN idx
    BY <1>4 DEF NumbersBelow
  <2>2. /\ KeysWritten(w)[e] \subseteq Keys[e]
        /\ PipelineKeys[e] \subseteq KeysWritten(w)[e]
    BY <1>5, KeysAssumption DEF KeysWritten, PipelineKeys
  <2>3. \A k \in Key : num[w] \notin bits[k]
    BY <2>1 DEF FiltersExact, BitsMatchRows
  <2>4. ASSUME NEW k \in Key, NEW n \in bits'[k]
        PROVE  n \in DOMAIN idx' /\ k \in Keys[idx'[n]]
    BY <1>3, <2>1, <2>2, <2>3, <2>4 DEF FiltersExact, BitsMatchRows
  <2>5. ASSUME NEW n \in DOMAIN idx', NEW k \in PipelineKeys[idx'[n]]
        PROVE  n \in bits'[k]
    <3>1. k \in Key
      BY <1>1, <2>5, KeysAssumption DEF PipelineKeys
    <3> QED
      BY <1>3, <2>1, <2>2, <2>5, <3>1 DEF FiltersExact, BitsMatchRows
  <2> QED
    BY <2>4, <2>5 DEF BitsMatchRows
<1> QED
  BY <1>1, <1>6, <1>7, <1>8, <1>9, <1>11, <1>12, <1>13

\* A failed flush: its numbers are never used, its rows belong to nobody.
LEMMA InvFail ==
    ASSUME IndexInv, NEW w \in Writer, Fail(w)
    PROVE  IndexInv'
<1>1. TypeOK'
  BY TypeWriter DEF IndexInv, WriterStep
<1>2. IndexedRowsCommitted' /\ RowsNumberedOnce' /\ FiltersExact'
  BY IndexUntouched DEF IndexInv, Fail, redisVars
<1> USE DEF IndexInv, TypeOK, Holds, Owed, Rebuilding, redisVars, backendVars
<1>3. SessionsApart'
  BY DEF Fail, SessionsApart
<1>4. RebuildLocal'
  BY DEF Fail, RebuildLocal
<1>5. NumbersBelow'
  BY DEF Fail, NumbersBelow
<1>6. PublishedOnce'
  BY DEF Fail, PublishedOnce
<1> QED
  BY <1>1, <1>2, <1>3, <1>4, <1>5, <1>6

\* Nothing is numbered when a rebuild starts in an undisturbed index.
LEMMA EmptyAtStart ==
    ASSUME IndexInv, clean,
           IF Rebuilding THEN count = 0 ELSE counter = NoCounter
    PROVE  /\ DOMAIN idx = {}
           /\ \A k \in Key : bits[k] = {}
<1>1. ASSUME NEW n \in DOMAIN idx PROVE FALSE
  <2>1. n \in Nat /\ n > 0
    BY DEF IndexInv, TypeOK
  <2>2. n <= IF Rebuilding THEN count ELSE counter
    BY DEF IndexInv, NumbersBelow
  <2> QED
    BY <2>1, <2>2 DEF NoCounter
<1> QED
  BY <1>1 DEF IndexInv, FiltersExact, BitsMatchRows

\* The hook's readings and the rebuild's KEYS calls move only the stage.
LEMMA InvReads ==
    ASSUME IndexInv, Boot \/ CountRows \/ CheckCounter \/ ListKeys \/ BatchesDone
    PROVE  IndexInv'
<1>1. TypeOK'
  BY TypeBackend DEF IndexInv, BackendStep
<1>2. /\ UNCHANGED <<idx, bits, counter, pc, pending, num, committed, rows, count>>
      /\ clean' = clean
  BY DEF Boot, CountRows, CheckCounter, ListKeys, BatchesDone, redisVars,
         writerVars
<1>3. IndexedRowsCommitted' /\ RowsNumberedOnce' /\ FiltersExact'
  BY <1>2, IndexUntouched
<1>4. SessionsApart'
  BY <1>2 DEF IndexInv, SessionsApart, Holds
<1>5. RebuildLocal'
  BY <1>2 DEF IndexInv, RebuildLocal, Boot, CountRows, CheckCounter, ListKeys,
              BatchesDone, GoTo
<1>6. NumbersBelow'
  <2>1. CASE CheckCounter
    <3>1. ~Rebuilding
      BY <2>1 DEF CheckCounter, Rebuilding, RebuildStage
    <3>2. Rebuilding' => counter = NoCounter
      BY <2>1 DEF CheckCounter, GoTo, Rebuilding, RebuildStage
    <3>3. clean /\ counter = NoCounter => DOMAIN idx = {}
      BY <3>1, EmptyAtStart DEF IndexInv
    <3> QED
      BY <1>2, <3>1, <3>2, <3>3 DEF IndexInv, NumbersBelow, Holds
  <2>2. CASE Boot \/ CountRows \/ ListKeys \/ BatchesDone
    <3>1. Rebuilding' = Rebuilding
      BY <2>2 DEF Boot, CountRows, ListKeys, BatchesDone, GoTo, Rebuilding,
                  RebuildStage, Stage
    <3> QED
      BY <1>2, <3>1 DEF IndexInv, NumbersBelow, Holds
  <2> QED
    BY <2>1, <2>2
<1>7. PublishedOnce'
  BY <1>2 DEF IndexInv, PublishedOnce, Owed
<1> QED
  BY <1>1, <1>3, <1>4, <1>5, <1>6, <1>7 DEF IndexInv

\* The rebuild's deletions: in an undisturbed index there is nothing to delete,
\* and an index they leave empty, with no number outstanding, is undisturbed.
LEMMA InvDeleteKeys ==
    ASSUME IndexInv, DeleteKeys
    PROVE  IndexInv'
<1>1. TypeOK'
  BY TypeBackend DEF IndexInv, BackendStep
<1>2. /\ UNCHANGED <<pc, pending, num, committed, rows, count>>
      /\ Rebuilding /\ Rebuilding' /\ backend' # "write" /\ rows = {} /\ count = 0
  BY DEF DeleteKeys, writerVars, GoTo, Rebuilding, RebuildStage, Stage, IndexInv,
         RebuildLocal
<1>3. SessionsApart'
  BY <1>2 DEF IndexInv, SessionsApart, Holds
<1>4. RebuildLocal'
  BY <1>2 DEF RebuildLocal
<1>5. /\ DOMAIN idx' \subseteq DOMAIN idx
      /\ \A n \in DOMAIN idx' : idx'[n] = idx[n]
  BY DEF DeleteKeys
<1>6. IndexedRowsCommitted'
  BY <1>2, <1>5 DEF IndexInv, IndexedRowsCommitted
<1>7. ASSUME clean'
      PROVE  /\ DOMAIN idx' = {} /\ counter' = NoCounter
             /\ \A k \in Key : bits'[k] = {}
             /\ \A w \in Writer : num[w] = 0
  <2>1. CASE clean
    <3>1. DOMAIN idx = {} /\ \A k \in Key : bits[k] = {}
      BY <1>2, <2>1, EmptyAtStart
    <3>2. counter = NoCounter
      BY <1>2, <2>1 DEF IndexInv, NumbersBelow
    <3>3. \A w \in Writer : num[w] = 0
      BY <2>1, <3>2 DEF IndexInv, TypeOK, NumbersBelow, Holds, NoCounter
    <3>4. counter' = NoCounter /\ \A k \in Key : bits'[k] = {}
      BY <3>1, <3>2 DEF DeleteKeys
    <3> QED
      BY <1>5, <3>1, <3>3, <3>4
  <2>2. CASE ~clean
    <3>1. /\ idx' = NoEntry /\ bits' = NoBits
          /\ counter' = NoCounter /\ NoHolder
      BY <1>7, <2>2 DEF DeleteKeys
    <3>2. NoEntry = [n \in {} |-> 0] /\ NoBits = [k \in Key |-> {}]
      BY DEF NoEntry, NoBits
    <3> QED
      BY <3>1, <3>2 DEF NoHolder, Holds
  <2> QED
    BY <2>1, <2>2 DEF IndexInv, TypeOK
<1>8. NumbersBelow'
  BY <1>2, <1>7 DEF NumbersBelow, Holds
<1>9. PublishedOnce'
  BY <1>2, <1>7 DEF PublishedOnce
<1>10. RowsNumberedOnce' /\ FiltersExact'
  BY <1>7 DEF RowsNumberedOnce, FiltersExact, BitsMatchRows
<1> QED
  BY <1>1, <1>3, <1>4, <1>6, <1>8, <1>9, <1>10 DEF IndexInv

\* The SELECT: nothing has a number yet, and nobody else will number its rows.
LEMMA InvSelectRows ==
    ASSUME IndexInv, SelectRows
    PROVE  IndexInv'
<1>1. TypeOK'
  BY TypeBackend DEF IndexInv, BackendStep
<1>2. /\ UNCHANGED <<idx, bits, counter, pc, pending, num, committed, count>>
      /\ backend = "select" /\ backend' = "write"
      /\ rows' \subseteq committed
      /\ clean' => clean /\ rows' \cap Owed = {}
  BY DEF SelectRows, redisVars, writerVars, GoTo
<1>3. IndexedRowsCommitted' /\ RowsNumberedOnce' /\ FiltersExact'
  BY <1>2, IndexUntouched
<1>4. SessionsApart'
  BY <1>2 DEF IndexInv, SessionsApart, Holds
<1>5. RebuildLocal'
  BY <1>2 DEF IndexInv, RebuildLocal
<1>6. Rebuilding /\ Rebuilding' /\ count = 0
  BY <1>2 DEF Rebuilding, RebuildStage, Stage, IndexInv, RebuildLocal
<1>7. NumbersBelow'
  BY <1>2, <1>6 DEF IndexInv, NumbersBelow, Holds
<1>8. clean' => DOMAIN idx = {}
  BY <1>2, <1>6, EmptyAtStart
<1>9. PublishedOnce'
  <2>1. Owed' = Owed
    BY <1>2 DEF Owed
  <2> QED
    BY <1>2, <1>8, <2>1 DEF PublishedOnce
<1> QED
  BY <1>1, <1>3, <1>4, <1>5, <1>7, <1>9 DEF IndexInv

\* One batch of the rebuild: numbers just above count, each for a row of its own.
LEMMA InvWriteBatch ==
    ASSUME IndexInv, WriteBatch
    PROVE  IndexInv'
<1>1. TypeOK'
  BY TypeBackend DEF IndexInv, BackendStep
<1> USE DEF IndexInv
<1>2. /\ UNCHANGED <<committed, counter, pc, pending, num, backend, clean>>
      /\ backend = "write" /\ Rebuilding /\ Rebuilding'
  BY DEF WriteBatch, BatchNumbers, writerVars, Rebuilding, RebuildStage, Stage
<1>3. PICK size \in 1..BatchSize :
        \E f \in [count + 1 .. count + size -> rows] :
           /\ \A m, n \in DOMAIN f : f[m] = f[n] => m = n
           /\ Publish(f, PipelineKeys)
           /\ rows' = rows \ {f[n] : n \in DOMAIN f}
           /\ count' = count + size
  BY DEF WriteBatch, BatchNumbers
<1> DEFINE New == count + 1 .. count + size
<1>4. PICK f \in [New -> rows] :
           /\ \A m, n \in New : f[m] = f[n] => m = n
           /\ Publish(f, PipelineKeys)
           /\ rows' = rows \ {f[n] : n \in New}
           /\ count' = count + size
  BY <1>3
<1>5. /\ DOMAIN idx' = DOMAIN idx \cup New
      /\ \A n \in DOMAIN idx' : idx'[n] = IF n \in New THEN f[n] ELSE idx[n]
      /\ \A k \in Key : bits'[k] = bits[k] \cup {n \in New : k \in PipelineKeys[f[n]]}
  BY <1>4 DEF Publish, Overlay
<1>6. count \in Nat /\ size \in Nat /\ New \subseteq Nat
  BY BoundAssumption DEF TypeOK
<1>7. /\ rows' \subseteq rows
      /\ \A n \in New : f[n] \in rows /\ f[n] \in committed /\ f[n] \in Event
                      /\ f[n] \notin rows'
  BY <1>4 DEF RebuildLocal, TypeOK
<1>8. clean => \A n \in DOMAIN idx : n <= count /\ n \notin New
  BY <1>2, <1>6 DEF NumbersBelow, TypeOK
<1>9. SessionsApart'
  BY <1>2 DEF SessionsApart, Holds
<1>10. RebuildLocal'
  BY <1>2, <1>7 DEF RebuildLocal
<1>11. IndexedRowsCommitted'
  BY <1>2, <1>5, <1>7 DEF IndexedRowsCommitted
<1>12. NumbersBelow'
  <2> SUFFICES ASSUME clean' PROVE NumbersBelow'
    BY DEF NumbersBelow
  <2>1. \A n \in DOMAIN idx' : n <= count'
    BY <1>2, <1>4, <1>5, <1>6, <1>8 DEF TypeOK
  <2>2. \A w \in Writer : num[w] = 0
    BY <1>2 DEF NumbersBelow, Holds, NoCounter, TypeOK
  <2> QED
    BY <1>2, <2>1, <2>2 DEF NumbersBelow, Holds
<1>13. PublishedOnce'
  <2>1. Owed' = Owed
    BY <1>2 DEF Owed
  <2> QED
    BY <1>2, <1>5, <1>7, <2>1 DEF PublishedOnce
<1>14. RowsNumberedOnce'
  BY <1>2, <1>4, <1>5, <1>7 DEF RowsNumberedOnce, PublishedOnce
<1>15. FiltersExact'
  <2> SUFFICES ASSUME clean' PROVE BitsMatchRows'
    BY DEF FiltersExact
  <2>1. \A k \in Key : \A n \in New : n \notin bits[k]
    BY <1>2, <1>8 DEF FiltersExact, BitsMatchRows
  <2>2. ASSUME NEW k \in Key, NEW n \in bits'[k]
        PROVE  n \in DOMAIN idx' /\ k \in Keys[idx'[n]]
    <3>1. CASE n \in New
      <4>1. k \in PipelineKeys[f[n]]
        BY <1>5, <2>1, <2>2, <3>1
      <4>2. f[n] \in Event /\ idx'[n] = f[n] /\ n \in DOMAIN idx'
        BY <1>5, <1>7, <3>1
      <4> QED
        BY <4>1, <4>2 DEF PipelineKeys
    <3>2. CASE n \notin New
      <4>1. n \in bits[k]
        BY <1>5, <2>2, <3>2
      <4>2. n \in DOMAIN idx /\ k \in Keys[idx[n]]
        BY <1>2, <4>1 DEF FiltersExact, BitsMatchRows
      <4> QED
        BY <1>5, <3>2, <4>2
    <3> QED
      BY <3>1, <3>2
  <2>3. ASSUME NEW n \in DOMAIN idx', NEW k \in PipelineKeys[idx'[n]]
        PROVE  n \in bits'[k]
    <3>1. k \in Key
      BY <1>1, <2>3, KeysAssumption DEF PipelineKeys, TypeOK
    <3> QED
      BY <1>2, <1>5, <1>8, <2>3, <3>1 DEF FiltersExact, BitsMatchRows
  <2> QED
    BY <2>2, <2>3 DEF BitsMatchRows
<1> QED
  BY <1>1, <1>9, <1>10, <1>11, <1>12, <1>13, <1>14, <1>15

\* The counter takes over from the rebuild's count.
LEMMA InvSetCounter ==
    ASSUME IndexInv, SetCounter
    PROVE  IndexInv'
<1>1. TypeOK'
  BY TypeBackend DEF IndexInv, BackendStep
<1>2. /\ UNCHANGED <<committed, idx, bits, pc, pending, num, rows, clean>>
      /\ backend = "set" /\ backend' = "up" /\ counter' = count /\ count' = 0
  BY DEF SetCounter, writerVars, GoTo
<1>3. Rebuilding /\ ~Rebuilding' /\ rows = {}
  BY <1>2 DEF Rebuilding, RebuildStage, Stage, IndexInv, RebuildLocal
<1>4. IndexedRowsCommitted' /\ RowsNumberedOnce' /\ FiltersExact'
  BY <1>2, IndexUntouched
<1>5. SessionsApart'
  BY <1>2 DEF IndexInv, SessionsApart, Holds
<1>6. RebuildLocal'
  BY <1>2, <1>3 DEF RebuildLocal
<1>7. NumbersBelow'
  <2>1. clean => \A w \in Writer : num[w] = 0
    BY <1>3 DEF IndexInv, TypeOK, NumbersBelow, Holds, NoCounter
  <2> QED
    BY <1>2, <1>3, <2>1 DEF IndexInv, NumbersBelow, Holds
<1>8. PublishedOnce'
  BY <1>2 DEF IndexInv, PublishedOnce, Owed
<1> QED
  BY <1>1, <1>4, <1>5, <1>6, <1>7, <1>8 DEF IndexInv

\* A hook that gives up: only a rebuild that has written nothing leaves the
\* index undisturbed.
LEMMA InvInterrupted ==
    ASSUME IndexInv, StartupFails \/ BackendCrash
    PROVE  IndexInv'
<1>1. TypeOK'
  BY TypeFault DEF IndexInv
<1> USE DEF IndexInv
<1>2. /\ UNCHANGED <<idx, bits, counter, committed>>
      /\ rows' = {} /\ count' = 0 /\ clean' = (clean /\ (Rebuilding => idx = NoEntry))
      /\ ~Rebuilding'
  BY DEF StartupFails, BackendCrash, Interrupted, redisVars, GoTo, Rebuilding,
         RebuildStage
<1>3. \A w \in Writer :
         \/ pc'[w] = pc[w] /\ pending'[w] = pending[w] /\ num'[w] = num[w]
         \/ pc'[w] = "idle" /\ pending'[w] = {} /\ num'[w] = 0
  BY DEF StartupFails, BackendCrash, writerVars, TypeOK
<1>4. IndexedRowsCommitted' /\ RowsNumberedOnce' /\ FiltersExact'
  BY <1>2, IndexUntouched
<1>5. SessionsApart'
  BY <1>2, <1>3 DEF SessionsApart, Holds
<1>6. RebuildLocal'
  BY <1>2 DEF RebuildLocal
<1>7. clean' /\ Rebuilding => DOMAIN idx = {}
  BY <1>2 DEF NoEntry
<1>8. NumbersBelow'
  <2> SUFFICES ASSUME clean' PROVE NumbersBelow'
    BY DEF NumbersBelow
  <2>1. \A n \in DOMAIN idx : n <= counter
    BY <1>2, <1>7 DEF NumbersBelow
  <2> QED
    BY <1>2, <1>3, <2>1 DEF NumbersBelow, Holds
<1>9. PublishedOnce'
  <2>1. Owed' \subseteq Owed
    BY <1>3 DEF Owed
  <2> QED
    BY <1>2, <2>1 DEF PublishedOnce
<1> QED
  BY <1>1, <1>4, <1>5, <1>6, <1>8, <1>9

LEMMA InvRedisLoss ==
    ASSUME IndexInv, RedisLoss
    PROVE  IndexInv'
<1>1. TypeOK'
  BY TypeFault DEF IndexInv
<1> USE DEF IndexInv
<1>2. /\ UNCHANGED <<committed, pc, pending, num, backend, rows, count>>
      /\ DOMAIN idx' = {} /\ counter' = NoCounter
      /\ \A k \in Key : bits'[k] = {}
      /\ clean' = (NoHolder /\ rows \cap Owed = {})
  BY DEF RedisLoss, NoEntry, NoBits, writerVars, backendVars
<1>3. SessionsApart'
  BY <1>2 DEF SessionsApart, Holds
<1>4. RebuildLocal'
  BY <1>2 DEF RebuildLocal
<1>5. IndexedRowsCommitted' /\ RowsNumberedOnce' /\ FiltersExact'
  BY <1>2 DEF IndexedRowsCommitted, RowsNumberedOnce, FiltersExact, BitsMatchRows
<1>6. NumbersBelow'
  BY <1>2 DEF NumbersBelow, NoHolder, Holds
<1>7. PublishedOnce'
  BY <1>2 DEF PublishedOnce, Owed
<1> QED
  BY <1>1, <1>3, <1>4, <1>5, <1>6, <1>7

LEMMA InvStep == IndexInv /\ [Next]_vars => IndexInv'
<1> SUFFICES ASSUME IndexInv, [Next]_vars PROVE IndexInv'
  OBVIOUS
<1>1. ASSUME NEW w \in Writer, WriterStep(w) PROVE IndexInv'
  BY <1>1, InvTransaction, InvNextIndex, InvAddPosting, InvFail DEF WriterStep
<1>2. CASE BackendStep
  BY <1>2, InvReads, InvDeleteKeys, InvSelectRows, InvWriteBatch, InvSetCounter
     DEF BackendStep
<1>3. CASE StartupFails \/ BackendCrash \/ RedisLoss
  BY <1>3, InvInterrupted, InvRedisLoss
<1>4. CASE UNCHANGED vars
  <2>1. TypeOK'
    BY <1>4, TypeStep DEF IndexInv
  <2>2. UNCHANGED <<committed, counter, idx, bits, pc, pending, num, backend, rows,
                    count, clean>>
    BY <1>4 DEF vars, redisVars, writerVars, backendVars
  <2>3. IndexedRowsCommitted' /\ RowsNumberedOnce' /\ FiltersExact'
    BY <2>2, IndexUntouched
  <2>4. SessionsApart' /\ RebuildLocal' /\ NumbersBelow' /\ PublishedOnce'
    BY <2>2 DEF IndexInv, SessionsApart, RebuildLocal, NumbersBelow, PublishedOnce,
                Owed, Holds, Rebuilding
  <2> QED
    BY <2>1, <2>3, <2>4 DEF IndexInv
<1> QED
  BY <1>1, <1>2, <1>3, <1>4 DEF Next

\* The invariant holds of every reachable state.
THEOREM InvCorrect == Spec => []IndexInv
  BY InvInit, InvStep, PTL DEF Spec

\* No failure, restart or interleaving makes the index name a row that Postgres
\* does not have: publication follows the commit in every session.
THEOREM IndexedRowsCommittedCorrect == Spec => []IndexedRowsCommitted
<1>1. IndexInv => IndexedRowsCommitted
  BY DEF IndexInv
<1> QED
  BY <1>1, InvCorrect, PTL

\* While posting numbers are handed out once, every filter selects exactly the
\* rows that have its value.
THEOREM FiltersExactCorrect == Spec => []FiltersExact
<1>1. IndexInv => FiltersExact
  BY DEF IndexInv
<1> QED
  BY <1>1, InvCorrect, PTL

\* While posting numbers are handed out once, a row has one of them.
THEOREM RowsNumberedOnceCorrect == Spec => []RowsNumberedOnce
<1>1. IndexInv => RowsNumberedOnce
  BY DEF IndexInv
<1> QED
  BY <1>1, InvCorrect, PTL

\* Of the steps that touch idx, only RedisLoss takes an entry of an undisturbed
\* index away; the others write at numbers that are not in use.
LEMMA StableStep ==
    ASSUME IndexInv, [Next]_vars, clean, clean'
    PROVE  \/ idx' = NoEntry
           \/ \A n \in DOMAIN idx : n \in DOMAIN idx' /\ idx'[n] = idx[n]
<1>1. ASSUME NEW w \in Writer, AddPosting(w)
      PROVE  \A n \in DOMAIN idx : n \in DOMAIN idx' /\ idx'[n] = idx[n]
  <2>1. num[w] \notin DOMAIN idx
    BY <1>1 DEF IndexInv, NumbersBelow, AddPosting
  <2>2. \E e \in pending[w] : idx' = Overlay(idx, [n \in {num[w]} |-> e])
    BY <1>1 DEF AddPosting, Publish
  <2> QED
    BY <2>1, <2>2 DEF Overlay
<1>2. ASSUME DeleteKeys
      PROVE  DOMAIN idx = {}
  <2>1. Rebuilding /\ count = 0
    BY <1>2 DEF DeleteKeys, Rebuilding, RebuildStage, Stage, IndexInv, RebuildLocal
  <2> QED
    BY <2>1, EmptyAtStart
<1>3. ASSUME WriteBatch
      PROVE  \A n \in DOMAIN idx : n \in DOMAIN idx' /\ idx'[n] = idx[n]
  <2>1. PICK size \in 1..BatchSize :
          \E f \in [count + 1 .. count + size -> rows] : idx' = Overlay(idx, f)
    BY <1>3 DEF WriteBatch, BatchNumbers, Publish
  <2>2. \A n \in DOMAIN idx : n \notin count + 1 .. count + size
    BY <1>3 DEF WriteBatch, IndexInv, TypeOK, NumbersBelow, Rebuilding, RebuildStage,
                Stage
  <2> QED
    BY <2>1, <2>2 DEF Overlay
<1>4. CASE RedisLoss
  BY <1>4 DEF RedisLoss
<1>5. CASE UNCHANGED idx
  BY <1>5
<1>6. ASSUME NEW w \in Writer, WriterStep(w), ~AddPosting(w)
      PROVE  UNCHANGED idx
  BY <1>6 DEF WriterStep, Insert, Commit, Rollback, NextIndex, Fail, redisVars
<1>7. ASSUME BackendStep, ~DeleteKeys, ~WriteBatch
      PROVE  UNCHANGED idx
  BY <1>7 DEF BackendStep, Boot, CountRows, CheckCounter, ListKeys, SelectRows,
              BatchesDone, SetCounter, redisVars
<1>8. ASSUME StartupFails \/ BackendCrash
      PROVE  UNCHANGED idx
  BY <1>8 DEF StartupFails, BackendCrash, redisVars
<1>9. UNCHANGED vars => UNCHANGED idx
  BY DEF vars, redisVars
<1> QED
  BY <1>1, <1>2, <1>3, <1>4, <1>5, <1>6, <1>7, <1>8, <1>9 DEF Next

\* In an undisturbed index no step of anyone gives a number in use to another
\* row: the INCR of concurrent flushes and the rebuild's counting do not collide.
THEOREM EntriesStableCorrect == Spec => EntriesStable
<1>1. IndexInv /\ [Next]_vars =>
        [clean /\ clean' => \/ idx' = NoEntry
                           \/ \A n \in DOMAIN idx :
                                 n \in DOMAIN idx' /\ idx'[n] = idx[n]]_vars
  BY StableStep
<1> QED
  BY <1>1, InvCorrect, PTL DEF Spec, EntriesStable

----------------------------------------------------------------------------
\* Start-up without a scheduler and without faults.

\* What the lifespan hook relies on between its round trips: nobody ingests while
\* it runs, so Redis stays as empty as it found it until the rebuild fills it.
BootInv ==
    faults = 0 =>
      /\ clean
      /\ backend # "up" => \A w \in Writer : pc[w] = "idle"
      /\ backend \notin {"write", "set", "up"} =>
            DOMAIN idx = {} /\ counter = NoCounter
      /\ backend = "check" => populated = (committed # {})
      /\ backend \in {"write", "set"} =>
            \A e \in committed \cap Skilled : e \in rows \/ Indexed(e)
      /\ UpMeansIndexed

LEMMA BootInit == Init => BootInv
  BY DEF Init, BootInv, UpMeansIndexed, NoEntry

\* Only a serving backend has sessions, and a session keeps its rows in Owed
\* until they are in the index.
LEMMA BootSession ==
    ASSUME Hosted = Writer, IndexInv, BootInv, faults' = 0,
           NEW w \in Writer, WriterStep(w)
    PROVE  BootInv'
<1>1. faults = 0 /\ clean
  BY DEF BootInv, WriterStep, Insert, Commit, Rollback, NextIndex, AddPosting, Fail,
         IndexInv, TypeOK
<1>2. backend = "up" /\ backend' = "up"
  BY <1>1 DEF BootInv, WriterStep, Insert, Commit, Rollback, NextIndex, AddPosting,
              Fail, backendVars
<1>3. clean'
  BY <1>1, <1>2 DEF WriterStep, Insert, Commit, Rollback, NextIndex, AddPosting,
                    Fail, Rebuilding, RebuildStage, Stage
<1>4. \A e \in committed \cap Skilled : Indexed(e) \/ e \in Owed
  BY <1>1, <1>2 DEF BootInv, UpMeansIndexed
<1>5. \A e \in committed' \cap Skilled : Indexed(e)' \/ e \in Owed'
  <2> USE DEF IndexInv, TypeOK
  <2>1. CASE Insert(w) \/ Rollback(w) \/ NextIndex(w)
    BY <1>4, <2>1 DEF Insert, Rollback, NextIndex, Indexed, Owed, redisVars
  <2>2. CASE Commit(w)
    <3>1. \A e \in Owed : e \in Owed'
      BY <2>2 DEF Commit, Owed
    <3>2. \A e \in Event : e \in pending[w] => e \in Owed'
      BY <2>2 DEF Commit, Owed
    <3> QED
      BY <1>4, <2>2, <3>1, <3>2 DEF Commit, Indexed, redisVars
  <2>3. CASE AddPosting(w)
    <3>1. PICK a \in pending[w] :
             /\ idx' = Overlay(idx, [n \in {num[w]} |-> a])
             /\ pending' = [pending EXCEPT ![w] = @ \ {a}]
             /\ pc' = [pc EXCEPT ![w] = IF pending[w] = {a} THEN "idle" ELSE "flush"]
      BY <2>3 DEF AddPosting, Publish
    <3>2. Indexed(a)'
      BY <3>1 DEF Indexed, Overlay
    <3>3. num[w] \notin DOMAIN idx
      BY <1>1, <2>3 DEF AddPosting, NumbersBelow
    <3>4. \A e : Indexed(e) => Indexed(e)'
      BY <3>1, <3>3 DEF Indexed, Overlay
    <3>5. \A e \in Owed : e = a \/ e \in Owed'
      BY <2>3, <3>1 DEF Owed, AddPosting
    <3> QED
      BY <1>4, <2>3, <3>2, <3>4, <3>5 DEF AddPosting
  <2>4. CASE Fail(w)
    BY <1>1, <2>4 DEF Fail
  <2> QED
    BY <2>1, <2>2, <2>3, <2>4 DEF WriterStep
<1> QED
  BY <1>2, <1>3, <1>5 DEF BootInv, UpMeansIndexed

\* The hook: what it skips is nothing, and what it selects it writes.
LEMMA BootHook ==
    ASSUME Hosted = Writer, IndexInv, BootInv, faults' = 0, BackendStep
    PROVE  BootInv'
<1>1. faults = 0 /\ clean
  BY DEF BootInv, BackendStep, Boot, CountRows, CheckCounter, ListKeys, DeleteKeys,
         SelectRows, WriteBatch, BatchesDone, SetCounter
<1>2. UNCHANGED <<committed, writerVars>>
  BY DEF BackendStep, Boot, CountRows, CheckCounter, ListKeys, DeleteKeys,
         SelectRows, WriteBatch, BatchesDone, SetCounter
<1>3. backend # "up" /\ \A w \in Writer : pc[w] = "idle" /\ pc'[w] = "idle"
  BY <1>1, <1>2 DEF BootInv, BackendStep, Boot, CountRows, CheckCounter, ListKeys,
                    DeleteKeys, SelectRows, WriteBatch, BatchesDone, SetCounter,
                    writerVars
<1>4. Owed = {}
  BY <1>3 DEF Owed
<1> USE <1>1, <1>2, <1>3, <1>4
<1>5. CASE Boot \/ CountRows
  BY <1>5 DEF Boot, CountRows, GoTo, BootInv, UpMeansIndexed, redisVars
<1>6. CASE CheckCounter
  <2>1. clean' /\ UNCHANGED <<idx, counter>> /\ DOMAIN idx = {} /\ counter = NoCounter
    BY <1>6 DEF CheckCounter, BootInv, redisVars
  <2>2. backend' = IF committed # {} THEN "list_bm" ELSE "up"
    BY <1>6, <2>1 DEF CheckCounter, GoTo, BootInv
  <2> QED
    BY <2>1, <2>2 DEF BootInv, UpMeansIndexed
<1>7. CASE ListKeys
  BY <1>7 DEF ListKeys, GoTo, BootInv, UpMeansIndexed, redisVars
<1>8. CASE DeleteKeys
  <2>1. backend \in {"delete_bm", "delete_idx", "delete_counter"}
    BY <1>8 DEF DeleteKeys
  <2>2. DOMAIN idx = {} /\ counter = NoCounter
    BY <2>1 DEF BootInv
  <2>3. clean' /\ counter' = NoCounter
    BY <1>8, <2>2 DEF DeleteKeys
  <2>4. DOMAIN idx' = {}
    BY <1>8, <2>2 DEF DeleteKeys
  <2>5. backend' \in {"list_idx", "list_counter", "select"}
    BY <1>8 DEF DeleteKeys, GoTo
  <2> QED
    BY <2>3, <2>4, <2>5 DEF BootInv, UpMeansIndexed
<1>9. CASE SelectRows
  BY <1>9 DEF SelectRows, GoTo, BootInv, UpMeansIndexed
<1>10. CASE WriteBatch
  <2>1. PICK size \in 1..BatchSize :
          \E f \in [count + 1 .. count + size -> rows] :
            /\ idx' = Overlay(idx, f)
            /\ rows' = rows \ {f[n] : n \in DOMAIN f}
    BY <1>10 DEF WriteBatch, BatchNumbers, Publish
  <2>2. PICK f \in [count + 1 .. count + size -> rows] :
            /\ idx' = Overlay(idx, f)
            /\ rows' = rows \ {f[n] : n \in DOMAIN f}
    BY <2>1
  <2>3. \A e \in rows : e \in rows' \/ Indexed(e)'
    BY <2>2 DEF Indexed, Overlay
  <2>4. \A n \in DOMAIN idx : n \notin count + 1 .. count + size
    BY <1>10 DEF WriteBatch, IndexInv, TypeOK, NumbersBelow, Rebuilding, RebuildStage,
                 Stage
  <2>5. \A e : Indexed(e) => Indexed(e)'
    BY <2>2, <2>4 DEF Indexed, Overlay
  <2>6. backend = "write" /\ backend' = "write" /\ clean'
    BY <1>10 DEF WriteBatch
  <2> QED
    BY <2>3, <2>5, <2>6 DEF BootInv, UpMeansIndexed
<1>11. CASE BatchesDone
  BY <1>11 DEF BatchesDone, GoTo, BootInv, UpMeansIndexed, redisVars, Indexed
<1>12. CASE SetCounter
  <2>1. rows = {} /\ UNCHANGED <<idx, clean>> /\ backend = "set" /\ backend' = "up"
    BY <1>12 DEF SetCounter, GoTo, IndexInv, RebuildLocal
  <2> QED
    BY <2>1 DEF BootInv, UpMeansIndexed, Indexed
<1> QED
  BY <1>5, <1>6, <1>7, <1>8, <1>9, <1>10, <1>11, <1>12 DEF BackendStep

LEMMA BootStep == Hosted = Writer /\ IndexInv /\ BootInv /\ [Next]_vars => BootInv'
<1> SUFFICES ASSUME Hosted = Writer, IndexInv, BootInv, [Next]_vars, faults' = 0
             PROVE  BootInv'
  BY DEF BootInv, UpMeansIndexed
<1>1. ~(StartupFails \/ BackendCrash \/ RedisLoss)
  BY DEF StartupFails, BackendCrash, RedisLoss, IndexInv, TypeOK
<1>2. CASE UNCHANGED vars
  BY <1>2 DEF vars, redisVars, writerVars, backendVars, BootInv, UpMeansIndexed,
              Indexed, Owed
<1> QED
  BY <1>1, <1>2, BootSession, BootHook DEF Next

\* Where only the backend ingests, a backend that serves and has met no fault has
\* every row with a skill in the index or owed by a live session: the hook skips
\* its rebuild only when there is nothing to rebuild.
THEOREM UpMeansIndexedCorrect ==
    ASSUME Hosted = Writer
    PROVE  Spec => []UpMeansIndexed
<1>1. IndexInv /\ BootInv /\ [Next]_vars => BootInv'
  BY BootStep
<1>2. BootInv => UpMeansIndexed
  BY DEF BootInv, UpMeansIndexed
<1> QED
  BY <1>1, <1>2, BootInit, InvCorrect, PTL DEF Spec

----------------------------------------------------------------------------
\* The refinement: the numbered bitstrings implement PostingIndex.  Initial states map
\* to initial states, every step to a step of the abstract index or to a stutter.


\* What the abstraction reads of the concrete state.
LEMMA MappingUntouched ==
    ASSUME UNCHANGED <<idx, bits>>
    PROVE  UNCHANGED <<Known, Found>>
  BY DEF Known, Found

LEMMA MappingTyped ==
    ASSUME IndexInv
    PROVE  /\ Known \subseteq committed
           /\ Found \in [Key -> SUBSET Known]
  BY DEF IndexInv, IndexedRowsCommitted, Known, Found

LEMMA EmptyMaps ==
    ASSUME idx = NoEntry
    PROVE  Known = {} /\ Found = PI!Nothing
  BY DEF NoEntry, Known, Found, PI!Nothing

LEMMA InitMaps == Init => PI!Init
<1> SUFFICES ASSUME Init PROVE PI!Init
  OBVIOUS
<1>1. idx = NoEntry /\ clean = TRUE /\ committed \in SUBSET Event
  BY DEF Init
<1> QED
  BY <1>1, EmptyMaps DEF PI!Init

\* A step after which the index is not trusted, whatever it did to the index.
LEMMA DisturbMaps ==
    ASSUME IndexInv', ~clean', UNCHANGED committed
    PROVE  PI!Disturb
<1>1. Known' \subseteq committed' /\ Found' \in [Key -> SUBSET Known']
  BY DEF IndexInv, IndexedRowsCommitted, Known, Found
<1>2. clean' = FALSE
  BY DEF IndexInv, TypeOK
<1> QED
  BY <1>1, <1>2 DEF PI!Disturb

\* One Redis transaction at unused numbers, for rows that have none yet.
LEMMA PublishMaps ==
    ASSUME IndexInv, clean, UNCHANGED <<committed, clean>>,
           NEW F, NEW g \in [F -> committed],
           NEW keysOf \in {PipelineKeys, Keys},
           F \cap DOMAIN idx = {},
           \A n \in F : g[n] \notin Known,
           Publish(g, keysOf)
    PROVE  PI!Publish
<1> DEFINE S == {g[n] : n \in F}
<1>1. S \in SUBSET (committed \ Known)
  OBVIOUS
<1>2. /\ DOMAIN idx' = DOMAIN idx \cup F
      /\ \A n \in DOMAIN idx : idx'[n] = idx[n]
      /\ \A n \in F : idx'[n] = g[n]
  BY DEF Publish, Overlay
<1>3. Known' = Known \cup S
  BY <1>2 DEF Known
<1>4. ASSUME NEW k \in Key
      PROVE  Found'[k] = Found[k] \cup {e \in S : k \in keysOf[e]}
  <2>1. bits[k] \subseteq DOMAIN idx
    BY DEF IndexInv, FiltersExact, BitsMatchRows
  <2>2. bits'[k] = bits[k] \cup {n \in F : k \in keysOf[g[n]]}
    BY DEF Publish
  <2>3. Found[k] = {idx[n] : n \in bits[k]}
    BY <2>1 DEF Found
  <2>4. bits'[k] \cap DOMAIN idx' = bits'[k]
    BY <1>2, <2>1, <2>2
  <2>5. Found'[k] = {idx'[n] : n \in bits'[k]}
    BY <2>4 DEF Found
  <2>6. \A n \in bits[k] : idx'[n] = idx[n]
    BY <1>2, <2>1
  <2>7. {idx'[n] : n \in bits'[k]}
          = {idx[n] : n \in bits[k]} \cup {g[n] : n \in {m \in F : k \in keysOf[g[m]]}}
    BY <1>2, <2>2, <2>6
  <2> QED
    BY <2>3, <2>5, <2>7
<1>5. Found' = [k \in Key |-> Found[k] \cup {e \in S : k \in keysOf[e]}]
  BY <1>4 DEF Found
<1> HIDE DEF S
<1> QED
  BY <1>1, <1>3, <1>5 DEF PI!Publish

LEMMA WriterMaps ==
    ASSUME IndexInv, IndexInv', NEW w \in Writer, WriterStep(w)
    PROVE  PI!Next \/ UNCHANGED PI!vars
<1>1. CASE Commit(w)
  <2>1. committed' \in SUBSET Event /\ committed \subseteq committed'
    BY <1>1 DEF Commit, IndexInv, TypeOK
  <2>2. UNCHANGED <<Known, Found, clean>>
    BY <1>1, MappingUntouched DEF Commit, redisVars
  <2> QED
    BY <2>1, <2>2 DEF PI!Store, PI!Next
<1>2. CASE Insert(w) \/ Rollback(w) \/ Fail(w)
  <2>1. UNCHANGED <<committed, idx, bits, clean>>
    BY <1>2 DEF Insert, Rollback, Fail, redisVars
  <2> QED
    BY <2>1, MappingUntouched DEF PI!vars
<1>3. CASE NextIndex(w)
  <2>1. UNCHANGED <<committed, idx, bits>> /\ clean' = (clean /\ ~Rebuilding)
    BY <1>3 DEF NextIndex
  <2>2. CASE clean'
    BY <2>1, <2>2, MappingUntouched DEF PI!vars, IndexInv, TypeOK
  <2>3. CASE ~clean'
    BY <2>1, <2>3, DisturbMaps DEF PI!Next
  <2> QED
    BY <2>2, <2>3
<1>4. CASE AddPosting(w)
  <2>1. UNCHANGED <<committed, clean>>
    BY <1>4 DEF AddPosting
  <2>2. CASE ~clean
    BY <2>1, <2>2, DisturbMaps DEF PI!Next
  <2>3. CASE clean
    <3>1. PICK e \in pending[w] :
             Publish([n \in {num[w]} |-> e], KeysWritten(w))
      BY <1>4 DEF AddPosting
    <3>2. pc[w] = "flush" /\ Holds(w)
      BY <1>4 DEF AddPosting
    <3>3. e \in committed /\ e \in Owed
      BY <3>2 DEF IndexInv, SessionsApart, Owed, TypeOK
    <3>4. e \notin Known
      BY <2>3, <3>3 DEF Known, IndexInv, PublishedOnce
    <3>5. num[w] \notin DOMAIN idx
      BY <2>3, <3>2 DEF IndexInv, NumbersBelow
    <3>6. KeysWritten(w) \in {PipelineKeys, Keys}
      BY DEF KeysWritten
    <3>7. [n \in {num[w]} |-> e] \in [{num[w]} -> committed]
      BY <3>3
    <3> QED
      BY <2>1, <2>3, <3>1, <3>4, <3>5, <3>6, <3>7, PublishMaps DEF PI!Next
  <2> QED
    BY <2>2, <2>3
<1> QED
  BY <1>1, <1>2, <1>3, <1>4 DEF WriterStep

\* While the rebuild of a trusted index clears keys there are none to clear.
LEMMA DeleteMaps ==
    ASSUME IndexInv, IndexInv', DeleteKeys
    PROVE  PI!Next \/ UNCHANGED PI!vars
<1>1. UNCHANGED committed
  BY DEF DeleteKeys
<1>2. CASE ~clean'
  BY <1>1, <1>2, DisturbMaps DEF PI!Next
<1>3. CASE clean /\ clean'
  <2>1. Rebuilding /\ count = 0
    BY DEF DeleteKeys, Rebuilding, RebuildStage, Stage, IndexInv, RebuildLocal
  <2>2. DOMAIN idx = {}
    BY <1>3, <2>1, EmptyAtStart
  <2>3. DOMAIN idx' = {}
    BY <2>2 DEF DeleteKeys
  <2>4. Known = {} /\ Known' = {}
    BY <2>2, <2>3 DEF Known
  <2>5. Found = PI!Nothing /\ Found' = PI!Nothing
    BY <2>2, <2>3 DEF Found, PI!Nothing
  <2> QED
    BY <1>1, <1>3, <2>4, <2>5 DEF PI!vars, IndexInv, TypeOK
<1>4. CASE ~clean /\ clean'
  <2>1. idx = NoEntry /\ UNCHANGED idx
    BY <1>4 DEF DeleteKeys
  <2>2. Known' = {} /\ Found' = PI!Nothing
    BY <2>1, EmptyMaps DEF Known, Found, NoEntry, PI!Nothing
  <2> QED
    BY <1>1, <1>4, <2>2 DEF PI!Empty, PI!Next, IndexInv, TypeOK
<1> QED
  BY <1>2, <1>3, <1>4

LEMMA WriteBatchMaps ==
    ASSUME IndexInv, IndexInv', WriteBatch
    PROVE  PI!Next
<1>1. UNCHANGED <<committed, clean>>
  BY DEF WriteBatch
<1>2. CASE ~clean
  BY <1>1, <1>2, DisturbMaps DEF PI!Next
<1>3. CASE clean
  <2>1. PICK size \in 1..BatchSize :
          \E f \in [count + 1 .. count + size -> rows] : Publish(f, PipelineKeys)
    BY DEF WriteBatch, BatchNumbers
  <2>2. PICK f \in [count + 1 .. count + size -> rows] : Publish(f, PipelineKeys)
    BY <2>1
  <2>3. \A n \in DOMAIN idx : n \notin count + 1 .. count + size
    BY <1>3 DEF WriteBatch, IndexInv, TypeOK, NumbersBelow, Rebuilding, RebuildStage,
                Stage
  <2>4. rows \subseteq committed
    BY DEF IndexInv, RebuildLocal
  <2>5. f \in [count + 1 .. count + size -> committed]
    BY <2>4
  <2>6. \A n \in count + 1 .. count + size : f[n] \notin Known
    BY <1>3 DEF Known, IndexInv, PublishedOnce
  <2>7. (count + 1 .. count + size) \cap DOMAIN idx = {}
    BY <2>3
  <2> QED
    BY <1>1, <1>3, <2>2, <2>5, <2>6, <2>7, PublishMaps DEF PI!Next
<1> QED
  BY <1>2, <1>3

LEMMA OtherBackendMaps ==
    ASSUME IndexInv, IndexInv', BackendStep, ~DeleteKeys, ~WriteBatch
    PROVE  PI!Next \/ UNCHANGED PI!vars
<1>1. UNCHANGED <<committed, idx, bits>> /\ (clean' => clean)
  <2>1. CASE SelectRows
    BY <2>1 DEF SelectRows, redisVars
  <2>2. CASE ListKeys
    BY <2>2 DEF ListKeys, redisVars
  <2>3. CASE Boot \/ CountRows \/ CheckCounter \/ BatchesDone \/ SetCounter
    BY <2>3 DEF Boot, CountRows, CheckCounter, BatchesDone, SetCounter, redisVars
  <2> QED
    BY <2>1, <2>2, <2>3 DEF BackendStep
<1>2. CASE ~clean'
  BY <1>1, <1>2, DisturbMaps DEF PI!Next
<1>3. CASE clean'
  BY <1>1, <1>3, MappingUntouched DEF PI!vars, IndexInv, TypeOK
<1> QED
  BY <1>2, <1>3

LEMMA FaultMaps ==
    ASSUME IndexInv, IndexInv', StartupFails \/ BackendCrash \/ RedisLoss
    PROVE  PI!Next \/ UNCHANGED PI!vars
<1>1. CASE ~clean'
  BY <1>1, DisturbMaps DEF PI!Next, StartupFails, BackendCrash, RedisLoss
<1>2. CASE clean' /\ RedisLoss
  <2>1. Known' = {} /\ Found' = PI!Nothing
    BY <1>2 DEF RedisLoss, NoEntry, NoBits, Known, Found, PI!Nothing
  <2> QED
    BY <1>2, <2>1 DEF RedisLoss, PI!Empty, PI!Next, IndexInv, TypeOK
<1>3. CASE clean' /\ (StartupFails \/ BackendCrash)
  <2>1. UNCHANGED <<committed, idx, bits>> /\ (clean' => clean)
    BY <1>3 DEF StartupFails, BackendCrash, Interrupted, redisVars
  <2> QED
    BY <1>3, <2>1, MappingUntouched DEF PI!vars, IndexInv, TypeOK
<1> QED
  BY <1>1, <1>2, <1>3

LEMMA StepMaps ==
    IndexInv /\ IndexInv' /\ [Next]_vars => [PI!Next]_(PI!vars)
<1> SUFFICES ASSUME IndexInv, IndexInv', [Next]_vars
             PROVE  PI!Next \/ UNCHANGED PI!vars
  OBVIOUS
<1>1. CASE UNCHANGED vars
  <2>1. UNCHANGED <<committed, idx, bits, clean>>
    BY <1>1 DEF vars, redisVars
  <2> QED
    BY <2>1, MappingUntouched DEF PI!vars
<1> QED
  BY <1>1, WriterMaps, DeleteMaps, WriteBatchMaps, OtherBackendMaps, FaultMaps
     DEF Next

\* The dual write implements the abstract index: undisturbed, every step adds
\* whole committed rows under their keys or empties the index, and no step of a
\* rebuild, a flush or a fault shows a reader anything in between.
THEOREM RefinesPostingIndex == Spec => IndexesPostings
  BY InvCorrect, InitMaps, StepMaps, PTL DEF Spec, PI!Spec, IndexesPostings

============================================================================
