--------------------------- MODULE SignalsProofs ---------------------------
(***************************************************************************)
(* Theorems about Signals for every set of skills and postings, every      *)
(* window, and every number of ticks in a day, a week and a month.         *)
(*                                                                         *)
(* All rest on one fact about the code: nothing ever enters the aggregate, *)
(* so that every answer is made from the tables.                           *)
(***************************************************************************)
EXTENDS Signals, NaturalLemmas

SignalsInv ==
    /\ rows \subseteq Posting /\ IsFiniteSet(rows)
    /\ age \in [Posting -> 0..MaxAge]
    /\ hour \in 0..(Day - 1)
    /\ covered = {}

LEMMA SignalsInit == Init => SignalsInv
  BY FS_EmptySet, BoundAssumption DEF Init, SignalsInv

\* Rows that are stored keep the types, whatever their age.
LEMMA StoredTypes ==
    ASSUME SignalsInv, NEW S \in SUBSET Posting, Stored(S), covered' = {}
    PROVE  SignalsInv'
<1>1. PICK ages \in [S -> 0..MaxAge] :
        age' = [p \in Posting |-> IF p \in S THEN ages[p] ELSE age[p]]
  BY DEF Stored
<1>2. age' \in [Posting -> 0..MaxAge]
  BY <1>1 DEF SignalsInv
<1>3. rows' \subseteq Posting /\ hour' = hour
  BY DEF Stored, SignalsInv
<1>4. IsFiniteSet(rows')
  BY <1>3, FS_Subset, SkillAssumption
<1> QED
  BY <1>2, <1>3, <1>4 DEF SignalsInv

LEMMA SignalsNext == SignalsInv /\ [Next]_vars => SignalsInv'
<1> SUFFICES ASSUME SignalsInv, [Next]_vars PROVE SignalsInv'
  OBVIOUS
<1>0. {Day, MaxAge} \subseteq Nat \ {0}
  BY BoundAssumption
<1>1. ASSUME NEW p \in Posting, Ingest(p)
      PROVE  SignalsInv'
  <2>1. {p} \in SUBSET Posting /\ Stored({p}) /\ covered' = {}
    BY <1>1 DEF Ingest, SignalsInv
  <2> QED
    BY <2>1, StoredTypes
<1>2. ASSUME NEW S \in SUBSET Posting, Run(S)
      PROVE  SignalsInv'
  <2>1. Stored(S) /\ covered' = {}
    BY <1>2 DEF Run, Refreshed, SignalsInv
  <2> QED
    BY <2>1, StoredTypes
<1>3. CASE Tick
  <2>1. age' \in [Posting -> 0..MaxAge]
    BY <1>0, <1>3 DEF Tick, SignalsInv
  <2>2. hour' \in 0..(Day - 1)
    BY <1>0, <1>3 DEF Tick, SignalsInv
  <2> QED
    BY <1>3, <2>1, <2>2 DEF Tick, SignalsInv
<1>4. CASE Reset
  BY <1>0, <1>4, FS_EmptySet DEF Reset, SignalsInv
<1>5. CASE UNCHANGED vars
  BY <1>5 DEF vars, SignalsInv
<1> QED
  BY <1>1, <1>2, <1>3, <1>4, <1>5 DEF Next

LEMMA Invariance == Spec => []SignalsInv
  BY SignalsInit, SignalsNext, PTL DEF Spec

----------------------------------------------------------------------------
\* A part of a finite set has at most its size; the two parts add up.
LEMMA Sizes ==
    ASSUME NEW S, IsFiniteSet(S), NEW T \in SUBSET S
    PROVE  /\ Cardinality(S) \in Nat /\ Cardinality(T) \in Nat
           /\ Cardinality(T) <= Cardinality(S)
           /\ Cardinality(S \ T) \in Nat
           /\ Cardinality(S) = Cardinality(T) + Cardinality(S \ T)
<1>1. IsFiniteSet(T) /\ Cardinality(T) <= Cardinality(S) /\ IsFiniteSet(S \ T)
  BY FS_Subset
<1>2. S = T \cup (S \ T) /\ T \cap (S \ T) = {}
  OBVIOUS
<1>3. /\ Cardinality(S) \in Nat /\ Cardinality(T) \in Nat /\ Cardinality(S \ T) \in Nat
  BY <1>1, FS_CardinalityType
<1>4. Cardinality(T \cup (S \ T)) =
        Cardinality(T) + Cardinality(S \ T) - Cardinality(T \cap (S \ T))
  BY <1>1, FS_Union
<1>5. Cardinality(T \cap (S \ T)) = 0 /\ Cardinality(T \cup (S \ T)) = Cardinality(S)
  BY <1>2, FS_EmptySet
<1> QED
  BY <1>1, <1>3, <1>4, <1>5

----------------------------------------------------------------------------
\* An aggregate without data has nothing to say.
LEMMA FromTables == covered = {} => \A w : Result(w) = RawQuery(w)
<1> SUFFICES ASSUME covered = {} PROVE DOMAIN CaggQuery = {}
  BY DEF Result, FromCagg
<1>1. \A c : BucketSince(With(covered, c), Month) = {}
  BY DEF BucketSince, With
<1>2. \A c \in DOMAIN CaggQuery :
        Cardinality(BucketSince(With(covered, c), Month)) >= MinPairs
  BY DEF CaggQuery
<1>3. Cardinality({}) = 0 /\ ~(0 >= MinPairs)
  BY FS_EmptySet, BoundAssumption
<1> QED
  BY <1>1, <1>2, <1>3, Zenon

LEMMA FromTablesNext == (covered = {} => \A w : Result(w) = RawQuery(w))'
  BY FromTables, PTL

LEMMA RawEntry ==
    \A w :
        /\ DOMAIN RawQuery(w) = {c \in Pair : Cardinality(With(rows, c)) >= MinPairs}
        /\ \A c \in DOMAIN RawQuery(w) :
              /\ RawQuery(w)[c].total = Cardinality(With(rows, c))
              /\ RawQuery(w)[c].last7 = Cardinality(Since(With(rows, c), Week))
              /\ RawQuery(w)[c].recent = Cardinality(Since(With(rows, c), w))
              /\ RawQuery(w)[c].first = Oldest(With(rows, c))
  BY DEF RawQuery, Entry

LEMMA RawEntryNext ==
    \A w :
        /\ DOMAIN RawQuery(w)' = {c \in Pair : Cardinality(With(rows, c)') >= MinPairs}
        /\ \A c \in DOMAIN RawQuery(w)' :
              /\ RawQuery(w)'[c].total = Cardinality(With(rows, c)')
              /\ RawQuery(w)'[c].recent = Cardinality(Since(With(rows, c), w)')
              /\ RawQuery(w)'[c].first = Oldest(With(rows, c))'
  BY DEF RawQuery, Entry

\* Of a finite set of rows, no more are counted for fewer days.
LEMMA Counts ==
    ASSUME SignalsInv, NEW c, NEW w \in Int
    PROVE  /\ IsFiniteSet(With(rows, c)) /\ Since(With(rows, c), w) \in SUBSET With(rows, c)
           /\ Cardinality(With(rows, c)) \in Nat
           /\ Cardinality(Since(With(rows, c), w)) \in 0..Cardinality(With(rows, c))
<1>1. IsFiniteSet(With(rows, c))
  BY FS_Subset DEF With, SignalsInv
<1>2. Since(With(rows, c), w) \in SUBSET With(rows, c)
  BY DEF Since
<1> DEFINE S == With(rows, c)
           T == Since(With(rows, c), w)
<1>3. IsFiniteSet(S) /\ T \in SUBSET S
  BY <1>1, <1>2
<1> HIDE DEF S, T
<1>4. Cardinality(S) \in Nat /\ Cardinality(T) \in Nat /\ Cardinality(T) <= Cardinality(S)
  BY <1>3, Sizes
<1>5. Cardinality(T) \in 0..Cardinality(S)
  BY <1>4
<1> QED
  BY <1>3, <1>4, <1>5 DEF S, T

LEMMA MoreDays ==
    ASSUME SignalsInv, NEW c, NEW v \in Int, NEW w \in Int, v <= w
    PROVE  Cardinality(Since(With(rows, c), v)) <= Cardinality(Since(With(rows, c), w))
<1>1. \A p \in With(rows, c) : age[p] \in Int
  BY BoundAssumption DEF With, SignalsInv
<1>2. Since(With(rows, c), v) \in SUBSET Since(With(rows, c), w)
  BY <1>1 DEF Since
<1>3. IsFiniteSet(Since(With(rows, c), w))
  BY Counts, FS_Subset
<1> QED
  BY <1>2, <1>3, Sizes

\* What is not recent is prior.
LEMMA VelocityIs ==
    ASSUME NEW e, e.total \in Nat, e.recent \in 0..e.total
    PROVE  Velocity(e) = 2 * e.recent - e.total
  BY DEF Velocity

\* A wider window shows the same pairs and no fewer recent postings.
THEOREM WindowsNestCorrect == Spec => []WindowsNest
<1>1. SignalsInv => WindowsNest
  <2> SUFFICES ASSUME SignalsInv, NEW v \in Window, NEW w \in Window, v <= w
               PROVE  /\ DOMAIN RawQuery(v) = DOMAIN RawQuery(w)
                      /\ \A c \in DOMAIN RawQuery(v) :
                            LET e == RawQuery(v)[c]
                                f == RawQuery(w)[c]
                            IN  /\ e.total = f.total /\ e.last7 = f.last7
                                /\ e.first = f.first /\ e.recent <= f.recent
                                /\ Velocity(e) <= Velocity(f)
                                /\ Week <= v => e.last7 <= e.recent
    BY FromTables DEF WindowsNest, SignalsInv
  <2>0. v \in Int /\ w \in Int /\ Week \in Int
    BY BoundAssumption
  <2>1. DOMAIN RawQuery(v) = DOMAIN RawQuery(w)
    BY RawEntry
  <2>2. ASSUME NEW c \in DOMAIN RawQuery(v)
        PROVE  LET e == RawQuery(v)[c]
                   f == RawQuery(w)[c]
               IN  /\ e.total = f.total /\ e.last7 = f.last7
                   /\ e.first = f.first /\ e.recent <= f.recent
                   /\ Velocity(e) <= Velocity(f)
                   /\ Week <= v => e.last7 <= e.recent
    <3> DEFINE e == RawQuery(v)[c]
               f == RawQuery(w)[c]
               all == With(rows, c)
    <3>1. /\ e.total = Cardinality(all) /\ f.total = Cardinality(all)
          /\ e.last7 = f.last7 /\ e.first = f.first
          /\ e.recent = Cardinality(Since(all, v)) /\ f.recent = Cardinality(Since(all, w))
          /\ e.last7 = Cardinality(Since(all, Week))
      BY <2>1, <2>2, RawEntry
    <3>2. e.recent <= f.recent /\ (Week <= v => e.last7 <= e.recent)
      BY <2>0, <3>1, MoreDays
    <3>3. e.total \in Nat /\ f.total = e.total /\ e.recent \in 0..e.total
          /\ f.recent \in 0..f.total
      BY <2>0, <3>1, Counts
    <3> HIDE DEF e, f
    <3>4. Velocity(e) = 2 * e.recent - e.total /\ Velocity(f) = 2 * f.recent - f.total
      BY <3>3, VelocityIs
    <3>5. Velocity(e) <= Velocity(f)
      BY <3>2, <3>3, <3>4
    <3> QED
      BY <3>1, <3>2, <3>5 DEF e, f
  <2> QED
    BY <2>1, <2>2
<1> QED
  BY <1>1, Invariance, PTL

----------------------------------------------------------------------------
\* Products and quotients.
LEMMA Product ==
    ASSUME NEW a \in Int, NEW b \in Int, NEW c \in Nat, a <= b
    PROVE  a * c <= b * c
<1>1. (b - a) * c >= 0
  OBVIOUS
<1>2. (b - a) * c = b * c - a * c
  OBVIOUS
<1>3. a * c \in Int /\ b * c \in Int
  OBVIOUS
<1> QED
  BY <1>1, <1>2, <1>3

LEMMA Quotient ==
    ASSUME NEW a \in Nat, NEW b \in Nat, NEW d \in Nat \ {0}, a <= b
    PROVE  a \div d \in Nat /\ b \div d \in Nat /\ a \div d <= b \div d
<1> DEFINE q == a \div d
           r == b \div d
<1>1. q \in Nat /\ r \in Nat
  OBVIOUS
<1>2. a = d * q + (a % d) /\ b = d * r + (b % d) /\ a % d \in 0..(d - 1) /\ b % d \in 0..(d - 1)
  OBVIOUS
<1> HIDE DEF q, r
<1>3. ASSUME r < q
      PROVE  FALSE
  <2>1. (r + 1) * d <= q * d
    BY <1>1, <1>3, Product
  <2>2. (r + 1) * d = d * r + d /\ q * d = d * q /\ d * r \in Int /\ d * q \in Int
    BY <1>1
  <2> QED
    BY <1>2, <2>1, <2>2
<1>4. q <= r
  BY <1>1, <1>3
<1> QED
  BY <1>1, <1>4 DEF q, r

\* A score that has fewer recent postings of as many, and an older first one, is not higher.
LEMMA Fading ==
    ASSUME NEW e, NEW f, e.total \in Nat, f.total = e.total,
           e.recent \in 0..e.total, f.recent \in 0..f.total, f.recent <= e.recent,
           e.first \in Nat, f.first \in Nat, e.first <= f.first
    PROVE  Faded(e, f)
<1>1. Velocity(e) \in Int /\ Velocity(f) \in Int /\ Velocity(f) <= Velocity(e)
  BY VelocityIs
<1>2. Days(e) \in Nat /\ Days(f) \in Nat /\ Days(e) <= Days(f)
  <2>1. Day \in Nat \ {0}
    BY BoundAssumption
  <2>2. /\ e.first \div Day \in Nat /\ f.first \div Day \in Nat
        /\ e.first \div Day <= f.first \div Day
    BY <2>1, Quotient
  <2> QED
    BY <2>2 DEF Days
<1> DEFINE x == Velocity(e)
           y == Velocity(f)
           m == Days(e) + 1
           n == Days(f) + 1
<1>3. x \in Int /\ y \in Int /\ y <= x /\ m \in Nat /\ n \in Nat /\ m <= n
  BY <1>1, <1>2
<1> SUFFICES IF x > 0 THEN y * m <= x * n ELSE y <= 0
  BY DEF Faded
<1> HIDE DEF x, y, m, n
<1>4. CASE x > 0
  <2>1. y * m <= x * m
    BY <1>3, Product
  <2>2. m * x <= n * x
    BY <1>3, <1>4, Product
  <2>3. m * x = x * m /\ n * x = x * n /\ y * m \in Int /\ x * m \in Int /\ x * n \in Int
    BY <1>3
  <2>4. y * m <= x * n
    BY <2>1, <2>2, <2>3
  <2> QED
    BY <1>4, <2>4
<1>5. CASE ~(x > 0)
  BY <1>3, <1>5
<1> QED
  BY <1>4, <1>5

\* The age of the oldest of some rows.
LEMMA OldestIs ==
    ASSUME SignalsInv, NEW S \in SUBSET Posting, S # {}
    PROVE  /\ Oldest(S) \in Nat
           /\ \E p \in S : Oldest(S) = age[p]
           /\ \A p \in S : age[p] <= Oldest(S)
<1> DEFINE R == {MaxAge - age[p] : p \in S}
<1>1. MaxAge \in Nat /\ \A p \in S : age[p] \in 0..MaxAge
  BY BoundAssumption DEF SignalsInv
<1>2. R \in SUBSET Nat /\ R # {}
  BY <1>1
<1>3. PICK n \in R : \A m \in R : n <= m
  <2> HIDE DEF R
  <2> QED
    BY <1>2, Least
<1>4. PICK p \in S : n = MaxAge - age[p]
  BY <1>3
<1>5. \A q \in S : age[q] <= age[p]
  <2> TAKE q \in S
  <2>1. n <= MaxAge - age[q]
    BY <1>3
  <2> QED
    BY <1>1, <1>4, <2>1
<1>6. \E a \in {age[q] : q \in S} : \A q \in S : age[q] <= a
  BY <1>5
<1>7. Oldest(S) \in {age[q] : q \in S} /\ \A q \in S : age[q] <= Oldest(S)
  BY <1>6 DEF Oldest
<1> QED
  BY <1>1, <1>7

LEMMA OldestNext ==
    ASSUME SignalsInv', NEW S \in SUBSET Posting, S # {}
    PROVE  /\ Oldest(S)' \in Nat
           /\ \E p \in S : Oldest(S)' = age'[p]
           /\ \A p \in S : age'[p] <= Oldest(S)'
<1> DEFINE R == {MaxAge - age'[p] : p \in S}
<1>1. MaxAge \in Nat /\ \A p \in S : age'[p] \in 0..MaxAge
  BY BoundAssumption DEF SignalsInv
<1>2. R \in SUBSET Nat /\ R # {}
  BY <1>1
<1>3. PICK n \in R : \A m \in R : n <= m
  <2> HIDE DEF R
  <2> QED
    BY <1>2, Least
<1>4. PICK p \in S : n = MaxAge - age'[p]
  BY <1>3
<1>5. \A q \in S : age'[q] <= age'[p]
  <2> TAKE q \in S
  <2>1. n <= MaxAge - age'[q]
    BY <1>3
  <2> QED
    BY <1>1, <1>4, <2>1
<1>6. \E a \in {age'[q] : q \in S} : \A q \in S : age'[q] <= a
  BY <1>5
<1>7. Oldest(S)' \in {age'[q] : q \in S} /\ \A q \in S : age'[q] <= Oldest(S)'
  BY <1>6 DEF Oldest
<1> QED
  BY <1>1, <1>7

\* Without a new posting the rows only grow older.
LEMMA Older ==
    ASSUME SignalsInv, [Next]_vars, rows' = rows
    PROVE  \A p \in rows : age[p] <= age'[p]
<1>0. \A p \in Posting : age[p] \in Int
  BY BoundAssumption DEF SignalsInv
<1>1. ASSUME NEW p \in Posting, Ingest(p)
      PROVE  FALSE
  BY <1>1 DEF Ingest, Stored
<1>2. ASSUME NEW S \in SUBSET Posting, Run(S)
      PROVE  \A p \in rows : age[p] <= age'[p]
  <2>1. S = {}
    BY <1>2 DEF Run, Stored
  <2> QED
    BY <1>0, <1>2, <2>1 DEF Run, Stored, SignalsInv
<1>3. CASE Tick
  BY <1>0, <1>3 DEF Tick, SignalsInv
<1>4. CASE Reset
  BY <1>4 DEF Reset
<1>5. CASE UNCHANGED vars
  BY <1>0, <1>5 DEF vars, SignalsInv
<1> QED
  BY <1>1, <1>2, <1>3, <1>4, <1>5 DEF Next

\* The same pairs, no more of them recent and an older first one: no score is higher.
LEMMA StepFades ==
    ASSUME SignalsInv, SignalsInv', [Next]_vars, rows' = rows, NEW w \in Window
    PROVE  NoGain(w)
<1> SUFFICES /\ DOMAIN RawQuery(w)' = DOMAIN RawQuery(w)
             /\ \A c \in DOMAIN RawQuery(w) :
                   /\ RawQuery(w)'[c].total = RawQuery(w)[c].total
                   /\ Faded(RawQuery(w)[c], RawQuery(w)'[c])
  BY FromTables, FromTablesNext DEF SignalsInv, NoGain
<1>1. w \in Int /\ MinPairs \in Nat \ {0}
  BY BoundAssumption
<1>2. \A c : With(rows, c)' = With(rows, c)
  BY DEF With
<1>3. DOMAIN RawQuery(w)' = DOMAIN RawQuery(w)
  BY <1>2, RawEntry, RawEntryNext
<1>4. ASSUME NEW c \in DOMAIN RawQuery(w)
      PROVE  /\ RawQuery(w)'[c].total = RawQuery(w)[c].total
             /\ Faded(RawQuery(w)[c], RawQuery(w)'[c])
  <2> DEFINE e == RawQuery(w)[c]
             f == RawQuery(w)'[c]
             all == With(rows, c)
  <2>1. /\ e.total = Cardinality(all) /\ e.recent = Cardinality(Since(all, w))
        /\ e.first = Oldest(all) /\ Cardinality(all) >= MinPairs
    BY <1>4, RawEntry
  <2>2. /\ f.total = Cardinality(all) /\ f.recent = Cardinality(Since(all, w)')
        /\ f.first = Oldest(all)'
    BY <1>2, <1>3, <1>4, RawEntryNext
  <2>3. e.total \in Nat /\ e.recent \in 0..e.total /\ IsFiniteSet(Since(all, w))
    BY <1>1, <2>1, Counts, FS_Subset
  <2>4. f.recent \in 0..e.total /\ f.recent <= e.recent
    <3>1. Since(all, w)' \in SUBSET Since(all, w)
      <4>1. \A p \in all : age[p] \in Int /\ age'[p] \in Int /\ age[p] <= age'[p]
        BY Older, BoundAssumption DEF SignalsInv, With
      <4> QED
        BY <1>1, <1>2, <4>1 DEF Since
    <3>2. Cardinality(Since(all, w)') \in Nat
          /\ Cardinality(Since(all, w)') <= Cardinality(Since(all, w))
      BY <2>3, <3>1, Sizes
    <3> QED
      BY <2>1, <2>2, <2>3, <3>2
  <2>5. e.first \in Nat /\ f.first \in Nat /\ e.first <= f.first
    <3>1. all \in SUBSET Posting /\ all # {}
      <4>1. all \subseteq rows
        BY DEF With
      <4>2. Cardinality({}) = 0 /\ Cardinality(all) # 0
        BY <1>1, <2>1, FS_EmptySet
      <4> QED
        BY <4>1, <4>2 DEF SignalsInv
    <3>2. Oldest(all) \in Nat /\ \E p \in all : Oldest(all) = age[p]
      BY <3>1, OldestIs
    <3>3. Oldest(all)' \in Nat /\ \A p \in all : age'[p] <= Oldest(all)'
      BY <1>2, <3>1, OldestNext
    <3>4. PICK p \in all : Oldest(all) = age[p]
      BY <3>2
    <3>5. age[p] <= age'[p] /\ age'[p] <= Oldest(all)' /\ age'[p] \in Int
      BY <3>3, <3>4, Older, BoundAssumption DEF SignalsInv, With
    <3> QED
      BY <2>1, <2>2, <3>2, <3>3, <3>4, <3>5
  <2> HIDE DEF e, f
  <2>6. Faded(e, f)
    BY <2>1, <2>2, <2>3, <2>4, <2>5, Fading
  <2> QED
    BY <2>1, <2>2, <2>6 DEF e, f
<1> QED
  BY <1>3, <1>4

\* Without a new posting no pair breaks out.
THEOREM ScoreFadesCorrect == Spec => ScoreFades
<1>1. SignalsInv /\ SignalsInv' /\ [Next]_vars =>
        [rows' = rows => \A w \in Window : NoGain(w)]_vars
  BY StepFades
<1> QED
  BY <1>1, Invariance, PTL DEF Spec, ScoreFades

----------------------------------------------------------------------------
\* The one edge of /graph between s, whose spelling is its own, and n.
LEMMA OneEdge ==
    ASSUME NEW s \in Skill, NEW n \in Skill \ {s}, \A t \in Skill : Lower[t] = Lower[s] => t = s
    PROVE  LET edge == IF Rank[s] < Rank[n] THEN <<s, n>> ELSE <<n, s>>
           IN  \A c : c \in Matched(Lower[s]) /\ Shown(c, Lower[s]) = n <=> c = edge
<1> DEFINE edge == IF Rank[s] < Rank[n] THEN <<s, n>> ELSE <<n, s>>
<1>1. Rank[s] \in Nat /\ Rank[n] \in Nat /\ Rank[s] # Rank[n] /\ Lower[n] # Lower[s]
  BY SkillAssumption
<1>2. edge \in Matched(Lower[s]) /\ Shown(edge, Lower[s]) = n
  BY <1>1 DEF Matched, Shown
<1>3. ASSUME NEW c \in Matched(Lower[s]), Shown(c, Lower[s]) = n
      PROVE  c = edge
  <2>1. /\ c \in Skill \X Skill /\ c = <<c[1], c[2]>> /\ c[1] \in Skill /\ c[2] \in Skill
        /\ Rank[c[1]] < Rank[c[2]] /\ (Lower[c[1]] = Lower[s] \/ Lower[c[2]] = Lower[s])
    BY DEF Matched
  <2>2. CASE Lower[c[1]] = Lower[s]
    <3>1. c[1] = s /\ c[2] = n
      BY <1>3, <2>1, <2>2 DEF Shown
    <3> QED
      BY <2>1, <3>1
  <2>3. CASE Lower[c[1]] # Lower[s]
    <3>1. c[1] = n /\ c[2] = s
      BY <1>3, <2>1, <2>3 DEF Shown
    <3> QED
      BY <1>1, <2>1, <3>1
  <2> QED
    BY <2>2, <2>3
<1> QED
  BY <1>2, <1>3

\* The graph of a skill and the pairs of /signals count the same postings, unless another
\* skill differs from it in case only.
THEOREM GraphAgreesCorrect == Spec => []GraphAgrees
<1>1. SignalsInv => GraphAgrees
  <2> SUFFICES ASSUME SignalsInv, NEW s \in Skill, NEW n \in Skill \ {s},
                      \A t \in Skill : Lower[t] = Lower[s] => t = s
               PROVE  /\ Weight(Lower[s], n) = Cardinality(With(rows, {s, n}))
                      /\ {s, n} \in DOMAIN RawQuery(Month) =>
                            RawQuery(Month)[{s, n}].total = Weight(Lower[s], n)
    BY DEF GraphAgrees
  <2> DEFINE edge == IF Rank[s] < Rank[n] THEN <<s, n>> ELSE <<n, s>>
             W == With(rows, {s, n})
             X == {x \in rows \X Matched(Lower[s]) :
                      Shown(x[2], Lower[s]) = n /\ {x[2][1], x[2][2]} \subseteq SkillsOf[x[1]]}
             f == [p \in W |-> <<p, edge>>]
  <2>1. \A c : c \in Matched(Lower[s]) /\ Shown(c, Lower[s]) = n <=> c = edge
    BY OneEdge
  <2>2. {edge[1], edge[2]} = {s, n}
    OBVIOUS
  <2> HIDE DEF edge
  <2>3. f \in [W -> X]
    BY <2>1, <2>2 DEF With
  <2>4. \A x \in X : \E p \in W : f[p] = x
    <3> SUFFICES ASSUME NEW x \in X PROVE \E p \in W : f[p] = x
      OBVIOUS
    <3>1. x = <<x[1], x[2]>> /\ x[1] \in rows /\ x[2] = edge
      BY <2>1
    <3>2. x[1] \in W
      BY <2>2, <3>1 DEF With
    <3> QED
      BY <3>1, <3>2
  <2>5. \A p, r \in W : f[p] = f[r] => p = r
    OBVIOUS
  <2>6. ExistsBijection(W, X)
    <3>1. DOMAIN f = W
      OBVIOUS
    <3> HIDE DEF f, W, X
    <3>2. f \in Injection(W, X)
      BY <2>3, <2>5, <3>1 DEF Injection, IsInjective
    <3>3. f \in Surjection(W, X)
      BY <2>3, <2>4 DEF Surjection
    <3> QED
      BY <3>2, <3>3 DEF ExistsBijection, Bijection
  <2>7. IsFiniteSet(W)
    BY FS_Subset DEF SignalsInv, With
  <2>8. Weight(Lower[s], n) = Cardinality(X)
    BY DEF Weight
  <2>9. Cardinality(X) = Cardinality(W)
    BY <2>6, <2>7, FS_Bijection
  <2>10. {s, n} \in DOMAIN RawQuery(Month) => RawQuery(Month)[{s, n}].total = Cardinality(W)
    BY RawEntry
  <2> QED
    BY <2>8, <2>9, <2>10
<1> QED
  BY <1>1, Invariance, PTL

=============================================================================
