--------------------------- MODULE TaxonomyProofs ---------------------------
(***************************************************************************)
(* Theorems about Taxonomy for every vocabulary, every number of processes,*)
(* extractions and reviews, every time to live and any number of crashes.  *)
(***************************************************************************)
EXTENDS Taxonomy, TLAPS

Place == {"idle", "load", "store", "use"}
CacheType == [skills : SUBSET taxonomy, age : 0..TTL]
TaskType == [at : Place, age : 0..TTL, rows : SUBSET taxonomy, owed : SUBSET taxonomy]
SeedType == [at : {"idle", "write", "done"}, existing : SUBSET taxonomy]

LEMMA TypeParts ==
    TypeOK <=> /\ taxonomy \subseteq Skill
               /\ since \in [Skill -> 0..TTL]
               /\ candidate \in [Term -> Verdict]
               /\ cache \in [Process -> CacheType]
               /\ task \in [Task -> TaskType]
               /\ review \in [Reviewer -> Decision \cup {NoReview}]
               /\ seeding \in SeedType
               /\ faults \in 0..MaxFaults
  BY DEF TypeOK, CacheType, TaskType, SeedType, Place

LEMMA OlderType == \A n \in 0..TTL : Older(n) \in 0..TTL
  BY BoundAssumption DEF Older

\* The taxonomy only grows, so that what was read from it stays a part of it.
LEMMA Grows ==
    ASSUME TypeOK, taxonomy \subseteq taxonomy', taxonomy' \subseteq Skill
    PROVE  /\ cache \in [Process -> CacheType']
           /\ task \in [Task -> TaskType']
           /\ seeding \in SeedType'
<1>1. /\ \A c \in CacheType : c \in CacheType'
      /\ \A u \in TaskType : u \in TaskType'
      /\ \A d \in SeedType : d \in SeedType'
  BY DEF CacheType, TaskType, SeedType
<1>2. /\ cache \in [Process -> CacheType]
      /\ task \in [Task -> TaskType]
      /\ seeding \in SeedType
  BY TypeParts
<1> QED
  BY <1>1, <1>2

LEMMA InsertType ==
    ASSUME TypeOK, NEW S \in SUBSET Skill, Insert(S)
    PROVE  /\ taxonomy \subseteq taxonomy' /\ taxonomy' \subseteq Skill
           /\ since' \in [Skill -> 0..TTL]
  BY BoundAssumption DEF TypeOK, Insert

LEMMA TypeInit == Init => TypeOK
<1> SUFFICES ASSUME Init PROVE TypeOK
  OBVIOUS
<1>1. cache \in [Process -> CacheType]
  BY BoundAssumption DEF Init, Empty, CacheType
<1>2. task \in [Task -> TaskType]
  BY BoundAssumption DEF Init, Resting, TaskType, Place
<1>3. seeding \in SeedType
  BY DEF Init, SeedType
<1>4. since \in [Skill -> 0..TTL] /\ faults \in 0..MaxFaults
  BY BoundAssumption DEF Init
<1> QED
  BY <1>1, <1>2, <1>3, <1>4, TypeParts DEF Init, Verdict

LEMMA TypeExtract ==
    ASSUME TypeOK, NEW t \in Task, Extract(t)
    PROVE  TypeOK'
<1>1. ProcessOf[t] \in Process
  BY TaskAssumption
<1>2. CacheOf(t) \in CacheType /\ task[t] \in TaskType
  BY <1>1, TypeParts DEF CacheOf
<1>3. CASE Look(t)
  <2>1. Owed \in SUBSET taxonomy /\ 0 \in 0..TTL
    BY BoundAssumption DEF Owed
  <2>2. [at |-> IF Fresh(CacheOf(t)) THEN "use" ELSE "load",
         age |-> 0,
         rows |-> IF Fresh(CacheOf(t)) THEN CacheOf(t).skills ELSE {},
         owed |-> Owed] \in TaskType
    BY <1>2, <2>1 DEF TaskType, CacheType, Place
  <2>3. task' \in [Task -> TaskType]
    BY <1>3, <2>2, TypeParts DEF Look
  <2> QED
    BY <1>3, <2>3 DEF Look, TypeOK, TaskType, Place, tableVars
<1>4. CASE Load(t)
  <2>1. [task[t] EXCEPT !.at = "store", !.rows = taxonomy] \in TaskType
    BY <1>2 DEF TaskType, Place
  <2>2. task' \in [Task -> TaskType]
    BY <1>4, <2>1, TypeParts DEF Load
  <2> QED
    BY <1>4, <2>2 DEF Load, TypeOK, TaskType, Place, tableVars
<1>5. CASE Store(t)
  <2>1. [skills |-> task[t].rows, age |-> Stamp(t)] \in CacheType
    BY <1>2 DEF CacheType, TaskType, Stamp
  <2>2. cache' \in [Process -> CacheType]
    BY <1>5, <2>1, TypeParts DEF Store
  <2>3. 0 \in 0..TTL
    BY BoundAssumption
  <2>4. [task[t] EXCEPT !.at = "use", !.age = 0] \in TaskType
    BY <1>2, <2>3 DEF TaskType, Place
  <2>5. task' \in [Task -> TaskType]
    BY <1>5, <2>4, TypeParts DEF Store
  <2> QED
    BY <1>5, <2>2, <2>5 DEF Store, TypeOK, TaskType, CacheType, Place, tableVars
<1>6. CASE Use(t)
  <2>1. candidate' \in [Term -> Verdict]
    BY <1>6 DEF Use, TypeOK, Verdict
  <2>2. Resting \in TaskType
    BY BoundAssumption DEF Resting, TaskType, Place
  <2>3. task' \in [Task -> TaskType]
    BY <1>6, <2>2, TypeParts DEF Use
  <2> QED
    BY <1>6, <2>1, <2>3 DEF Use, TypeOK, TaskType, Place
<1> QED
  BY <1>3, <1>4, <1>5, <1>6 DEF Extract

LEMMA TypeReview ==
    ASSUME TypeOK, NEW r \in Reviewer, Select(r) \/ CommitReview(r)
    PROVE  TypeOK'
<1>1. CASE Select(r)
  <2>1. review' \in [Reviewer -> Decision \cup {NoReview}]
    <3>1. PICK x \in Term, accept \in BOOLEAN :
            review' = [review EXCEPT ![r] = [token |-> x, accept |-> accept,
                                             writes |-> candidate[x] # Name(accept)]]
      BY <1>1 DEF Select
    <3>2. [token |-> x, accept |-> accept, writes |-> candidate[x] # Name(accept)]
            \in Decision
      BY DEF Decision
    <3> QED
      BY <3>1, <3>2 DEF TypeOK
  <2> QED
    BY <1>1, <2>1 DEF Select, TypeOK, tableVars
<1>2. CASE CommitReview(r)
  <2>1. review[r] \in Decision
    BY <1>2 DEF CommitReview, TypeOK
  <2>2. review' \in [Reviewer -> Decision \cup {NoReview}]
    BY <1>2 DEF CommitReview, TypeOK
  <2>3. CASE Refuse(review[r])
    BY <1>2, <2>2, <2>3 DEF CommitReview, Refuse, TypeOK, tableVars
  <2>4. CASE Decide(review[r])
    <3>1. review[r].token \in Term /\ review[r].accept \in BOOLEAN
      BY <2>1 DEF Decision
    <3>2. (IF review[r].accept THEN {review[r].token} ELSE {}) \in SUBSET Skill
      BY <3>1, NameAssumption
    <3>3. /\ taxonomy \subseteq taxonomy' /\ taxonomy' \subseteq Skill
          /\ since' \in [Skill -> 0..TTL]
      BY <2>4, <3>2, InsertType DEF Decide
    <3>4. Verdicted(review[r]) \in Verdict
      BY <3>1 DEF Verdicted, Name, Verdict, TypeOK
    <3>5. candidate' \in [Term -> Verdict]
      BY <2>4, <3>4 DEF Decide, TypeOK
    <3>6. UNCHANGED <<cache, task, seeding, faults>>
      BY <1>2 DEF CommitReview
    <3>7. /\ cache' \in [Process -> CacheType'] /\ task' \in [Task -> TaskType']
          /\ seeding' \in SeedType'
      BY <3>3, <3>6, Grows
    <3> QED
      BY <2>2, <3>3, <3>5, <3>6, <3>7 DEF TypeOK, CacheType, TaskType, SeedType, Place
  <2> QED
    BY <1>2, <2>3, <2>4 DEF CommitReview
<1> QED
  BY <1>1, <1>2

LEMMA TypeSeed ==
    ASSUME TypeOK, SeedRead \/ SeedCommit
    PROVE  TypeOK'
<1>1. CASE SeedRead
  BY <1>1 DEF SeedRead, TypeOK, tableVars
<1>2. CASE SeedCommit /\ UNCHANGED <<taxonomy, since>>
  BY <1>2 DEF SeedCommit, TypeOK
<1>3. CASE SeedCommit /\ Insert(Missing(seeding.existing))
  <2>1. Missing(seeding.existing) \in SUBSET Skill
    BY NameAssumption DEF Missing
  <2>2. /\ taxonomy \subseteq taxonomy' /\ taxonomy' \subseteq Skill
        /\ since' \in [Skill -> 0..TTL]
    BY <1>3, <2>1, InsertType
  <2>3. UNCHANGED <<candidate, cache, task, review, faults>>
    BY <1>3 DEF SeedCommit
  <2>4. cache' \in [Process -> CacheType'] /\ task' \in [Task -> TaskType']
    BY <2>2, <2>3, Grows
  <2>5. seeding' \in [at : {"idle", "write", "done"}, existing : SUBSET taxonomy']
    BY <1>3 DEF SeedCommit
  <2> QED
    BY <2>2, <2>3, <2>4, <2>5 DEF TypeOK, CacheType, TaskType, Place
<1> QED
  BY <1>1, <1>2, <1>3 DEF SeedCommit

LEMMA TypeTime ==
    ASSUME TypeOK, Tick \/ \E p \in Process : Crash(p)
    PROVE  TypeOK'
<1>1. CASE Tick
  <2>1. since' \in [Skill -> 0..TTL]
    BY <1>1, OlderType, BoundAssumption DEF Tick, TypeOK
  <2>2. cache' \in [Process -> CacheType]
    BY <1>1, OlderType, TypeParts DEF Tick, CacheType
  <2>3. \A t \in Task : [task[t] EXCEPT !.age = Older(@)] \in TaskType
    BY OlderType, TypeParts DEF TaskType
  <2>4. task' \in [Task -> TaskType]
    BY <1>1, <2>3, TypeParts DEF Tick
  <2> QED
    BY <1>1, <2>1, <2>2, <2>4 DEF Tick, TypeOK, CacheType, TaskType, Place
<1>2. ASSUME NEW p \in Process, Crash(p) PROVE TypeOK'
  <2>1. Empty \in CacheType /\ Resting \in TaskType
    BY BoundAssumption DEF Empty, Resting, CacheType, TaskType, Place
  <2>2. cache' \in [Process -> CacheType] /\ task' \in [Task -> TaskType]
    BY <1>2, <2>1, TypeParts DEF Crash
  <2>3. faults' \in 0..MaxFaults
    BY <1>2, BoundAssumption DEF Crash, TypeOK
  <2> QED
    BY <1>2, <2>2, <2>3 DEF Crash, TypeOK, CacheType, TaskType, Place, tableVars
<1> QED
  BY <1>1, <1>2

LEMMA TypeStep == TypeOK /\ [Next]_vars => TypeOK'
<1> SUFFICES ASSUME TypeOK, [Next]_vars PROVE TypeOK'
  OBVIOUS
<1>1. CASE UNCHANGED vars
  BY <1>1 DEF TypeOK, vars, tableVars
<1> QED
  BY <1>1, TypeExtract, TypeReview, TypeSeed, TypeTime DEF Next

\* What a cache, an extraction or the seed script holds was read from committed rows.
THEOREM TypeCorrect == Spec => []TypeOK
  BY TypeInit, TypeStep, PTL DEF Spec

----------------------------------------------------------------------------
\* Reviews.

LEMMA AcceptedStep ==
    TypeOK /\ AcceptedInTaxonomy /\ [Next]_vars => AcceptedInTaxonomy'
<1> SUFFICES ASSUME TypeOK, AcceptedInTaxonomy, [Next]_vars,
                    NEW x \in Term, candidate'[x] = "accepted"
             PROVE  x \in taxonomy'
  BY DEF AcceptedInTaxonomy
<1>1. CASE UNCHANGED tableVars
  BY <1>1 DEF AcceptedInTaxonomy, tableVars
<1>2. ASSUME NEW t \in Task, Use(t) PROVE x \in taxonomy'
  <2>1. candidate[x] = "accepted" /\ UNCHANGED taxonomy
    BY <1>2 DEF Use, TypeOK
  <2> QED
    BY <2>1 DEF AcceptedInTaxonomy
<1>3. ASSUME NEW r \in Reviewer, review[r] \in Decision, Decide(review[r])
      PROVE  x \in taxonomy'
  <2>1. taxonomy' = taxonomy \cup (IF review[r].accept THEN {review[r].token} ELSE {})
    BY <1>3 DEF Decide, Insert
  <2>2. review[r].token \in Term /\ review[r].accept \in BOOLEAN
    BY <1>3 DEF Decision
  <2>3. CASE candidate[x] = "accepted"
    BY <2>1, <2>3 DEF AcceptedInTaxonomy
  <2>4. CASE candidate[x] # "accepted"
    <3>1. x = review[r].token /\ Verdicted(review[r]) = "accepted"
      BY <1>3, <2>2, <2>4 DEF Decide, TypeOK
    <3>2. review[r].accept
      BY <2>4, <3>1 DEF Verdicted, Name
    <3> QED
      BY <2>1, <3>1, <3>2
  <2> QED
    BY <2>3, <2>4
<1>4. CASE SeedCommit
  <2>1. UNCHANGED candidate /\ taxonomy \subseteq taxonomy'
    BY <1>4 DEF SeedCommit, Insert
  <2> QED
    BY <2>1 DEF AcceptedInTaxonomy
<1>5. ASSUME NEW r \in Reviewer, CommitReview(r) PROVE x \in taxonomy'
  <2>1. review[r] \in Decision
    BY <1>5 DEF CommitReview, TypeOK
  <2> QED
    BY <1>1, <1>3, <1>5, <2>1 DEF CommitReview, Refuse
<1>6. Tick => x \in taxonomy'
  BY DEF Tick, AcceptedInTaxonomy
<1>7. ASSUME \/ \E t \in Task : Look(t) \/ Load(t) \/ Store(t)
             \/ \E r \in Reviewer : Select(r)
             \/ SeedRead
             \/ \E p \in Process : Crash(p)
             \/ UNCHANGED vars
      PROVE  UNCHANGED tableVars
  BY <1>7 DEF Look, Load, Store, Select, SeedRead, Crash, vars, tableVars
<1> QED
  BY <1>1, <1>2, <1>4, <1>5, <1>6, <1>7 DEF Next, Extract

\* Whatever reviews overlap and whichever of their commits fail, a candidate that says
\* "accepted" is a skill of the taxonomy: both are written by one commit.
THEOREM AcceptedInTaxonomyCorrect == Spec => []AcceptedInTaxonomy
<1>1. Init => AcceptedInTaxonomy
  BY DEF Init, AcceptedInTaxonomy
<1> QED
  BY <1>1, TypeCorrect, AcceptedStep, PTL DEF Spec

----------------------------------------------------------------------------
\* The seed script.

LEMMA TaxonomyGrows ==
    ASSUME TypeOK, [Next]_vars
    PROVE  taxonomy \subseteq taxonomy'
<1>1. \A t \in Task : Extract(t) => UNCHANGED taxonomy
  BY DEF Extract, Look, Load, Store, Use, tableVars
<1>2. \A r \in Reviewer : Select(r) => UNCHANGED taxonomy
  BY DEF Select, tableVars
<1>3. \A r \in Reviewer : CommitReview(r) => taxonomy \subseteq taxonomy'
  BY DEF CommitReview, Decide, Refuse, Insert, tableVars
<1>4. SeedRead \/ Tick \/ (\E p \in Process : Crash(p)) \/ UNCHANGED vars
        => UNCHANGED taxonomy
  BY DEF SeedRead, Tick, Crash, vars, tableVars
<1>5. SeedCommit => taxonomy \subseteq taxonomy'
  BY DEF SeedCommit, Insert
<1> QED
  BY <1>1, <1>2, <1>3, <1>4, <1>5 DEF Next

LEMMA SeededStep ==
    TypeOK /\ SeededComplete /\ [Next]_vars => SeededComplete'
<1> SUFFICES ASSUME TypeOK, SeededComplete, [Next]_vars, seeding'.at = "done"
             PROVE  Seed \subseteq taxonomy'
  BY DEF SeededComplete
<1>1. CASE UNCHANGED seeding
  BY <1>1, TaxonomyGrows DEF SeededComplete
<1>2. CASE SeedRead
  BY <1>2 DEF SeedRead
<1>3. CASE SeedCommit
  <2>1. Insert(Missing(seeding.existing))
    BY <1>3 DEF SeedCommit
  <2>2. seeding.existing \subseteq taxonomy
    BY DEF TypeOK
  <2> QED
    BY <2>1, <2>2 DEF Insert, Missing
<1>4. ASSUME ~SeedRead, ~SeedCommit PROVE UNCHANGED seeding
  BY <1>4 DEF Next, Extract, Look, Load, Store, Use, Select, CommitReview, Tick, Crash,
              vars
<1> QED
  BY <1>1, <1>2, <1>3, <1>4

\* Once the seed script has succeeded all of its skills are in the taxonomy, whoever
\* added skills between its SELECT and its commit.
THEOREM SeededCompleteCorrect == Spec => []SeededComplete
<1>1. Init => SeededComplete
  BY DEF Init, SeededComplete
<1> QED
  BY <1>1, TypeCorrect, SeededStep, PTL DEF Spec

----------------------------------------------------------------------------
\* The cache.

\* A set of skills that was selected no earlier than age ticks ago.
Covers(S, age) == age < TTL => \A s \in taxonomy : since[s] > age => s \in S

\* Every cache, and every extraction that is about to fill one, holds the skills that are
\* older than its time stamp; an extraction holds those it was owed from its SELECT on.
CacheInv ==
    /\ \A p \in Process : Covers(cache[p].skills, cache[p].age)
    /\ \A t \in Task :
          /\ TaskAt(t, "store") => Covers(task[t].rows, task[t].age)
          /\ task[t].at \in {"store", "use"} => task[t].owed \subseteq task[t].rows

\* Neither time nor a new skill takes a set of skills out of date before its time.
LEMMA CoversAge ==
    ASSUME TypeOK, Tick, NEW S, NEW age \in 0..TTL, Covers(S, age)
    PROVE  Covers(S, Older(age))'
<1> SUFFICES ASSUME Older(age) < TTL, NEW s \in taxonomy, since'[s] > Older(age)
             PROVE  s \in S
  BY DEF Covers, Tick
<1>1. since[s] \in 0..TTL /\ since'[s] = Older(since[s])
  BY DEF TypeOK, Tick
<1>2. since[s] > age /\ age < TTL
  BY <1>1, BoundAssumption DEF Older
<1> QED
  BY <1>2 DEF Covers

LEMMA CoversInsert ==
    ASSUME TypeOK, NEW N \in SUBSET Skill, Insert(N),
           NEW S, NEW age \in 0..TTL, Covers(S, age)
    PROVE  Covers(S, age)'
<1> SUFFICES ASSUME age < TTL, NEW s \in taxonomy', since'[s] > age
             PROVE  s \in S
  BY DEF Covers
<1>1. s \notin N
  BY DEF Insert, TypeOK
<1>2. s \in taxonomy /\ since'[s] = since[s]
  BY <1>1 DEF Insert, TypeOK
<1> QED
  BY <1>2 DEF Covers

LEMMA CacheExtract ==
    ASSUME TypeOK, CacheInv, NEW t \in Task, Extract(t)
    PROVE  CacheInv'
<1>1. ProcessOf[t] \in Process /\ UNCHANGED <<taxonomy, since>>
  BY TaskAssumption DEF Extract, Look, Load, Store, Use, tableVars
<1>2. \A u \in Task \ {t} : task'[u] = task[u]
  BY DEF Extract, Look, Load, Store, Use, TypeOK
<1>3. \A S, age : Covers(S, age)' <=> Covers(S, age)
  BY <1>1 DEF Covers
<1>4. CASE Look(t)
  <2>1. /\ task'[t].at = IF Fresh(CacheOf(t)) THEN "use" ELSE "load"
        /\ task'[t].rows = IF Fresh(CacheOf(t)) THEN CacheOf(t).skills ELSE {}
        /\ task'[t].owed = Owed
    BY <1>4 DEF Look, TypeOK
  <2>2. Fresh(CacheOf(t)) => Owed \subseteq CacheOf(t).skills
    <3> SUFFICES ASSUME Fresh(CacheOf(t)), NEW s \in Owed
                 PROVE  s \in CacheOf(t).skills
      OBVIOUS
    <3>1. s \in taxonomy /\ since[s] \in Nat /\ since[s] >= TTL
      BY DEF Owed, TypeOK
    <3>2. CacheOf(t).age \in Nat /\ CacheOf(t).age < TTL
      BY <1>1 DEF CacheOf, TypeOK, Fresh
    <3>3. since[s] > CacheOf(t).age
      BY <3>1, <3>2, BoundAssumption
    <3> QED
      BY <1>1, <3>1, <3>2, <3>3 DEF CacheInv, CacheOf, Covers
  <2>3. UNCHANGED cache
    BY <1>4 DEF Look
  <2> QED
    BY <1>2, <1>3, <2>1, <2>2, <2>3 DEF CacheInv, TaskAt
<1>5. CASE Load(t)
  <2>1. /\ task'[t].at = "store" /\ task'[t].rows = taxonomy
        /\ task'[t].owed = task[t].owed /\ task'[t].age = task[t].age
    BY <1>5 DEF Load, TypeOK
  <2>2. task[t].owed \subseteq taxonomy
    BY DEF TypeOK
  <2>3. Covers(taxonomy, task[t].age)
    BY DEF Covers
  <2>4. UNCHANGED cache
    BY <1>5 DEF Load
  <2> QED
    BY <1>2, <1>3, <2>1, <2>2, <2>3, <2>4 DEF CacheInv, TaskAt
<1>6. CASE Store(t)
  <2>1. /\ task'[t].at = "use" /\ task'[t].rows = task[t].rows
        /\ task'[t].owed = task[t].owed
    BY <1>6 DEF Store, TypeOK
  <2>2. /\ cache'[ProcessOf[t]].skills = task[t].rows
        /\ cache'[ProcessOf[t]].age = task[t].age
        /\ \A p \in Process \ {ProcessOf[t]} : cache'[p] = cache[p]
    BY <1>1, <1>6 DEF Store, Stamp, TypeOK
  <2>3. TaskAt(t, "store")
    BY <1>6 DEF Store
  <2> QED
    BY <1>1, <1>2, <1>3, <2>1, <2>2, <2>3 DEF CacheInv, TaskAt
<1>7. CASE Use(t)
  <2>1. task'[t].at = "idle" /\ UNCHANGED cache
    BY <1>7 DEF Use, Resting, TypeOK
  <2> QED
    BY <1>2, <1>3, <2>1 DEF CacheInv, TaskAt
<1> QED
  BY <1>4, <1>5, <1>6, <1>7 DEF Extract

LEMMA CacheInsert ==
    ASSUME TypeOK, CacheInv, NEW N \in SUBSET Skill, Insert(N), UNCHANGED <<cache, task>>
    PROVE  CacheInv'
<1>1. /\ \A p \in Process : cache[p].age \in 0..TTL
      /\ \A t \in Task : task[t].age \in 0..TTL
  BY DEF TypeOK
<1>2. \A p \in Process : Covers(cache[p].skills, cache[p].age)'
  BY <1>1, CoversInsert DEF CacheInv
<1>3. \A t \in Task : TaskAt(t, "store") => Covers(task[t].rows, task[t].age)'
  BY <1>1, CoversInsert DEF CacheInv
<1> QED
  BY <1>2, <1>3 DEF CacheInv, TaskAt

LEMMA CacheTick ==
    ASSUME TypeOK, CacheInv, Tick
    PROVE  CacheInv'
<1>1. ASSUME NEW p \in Process PROVE Covers(cache[p].skills, cache[p].age)'
  <2>1. cache'[p].skills = cache[p].skills /\ cache'[p].age = Older(cache[p].age)
    BY DEF Tick, TypeOK
  <2>2. Covers(cache[p].skills, cache[p].age) /\ cache[p].age \in 0..TTL
    BY DEF CacheInv, TypeOK
  <2>3. UNCHANGED cache[p].skills
    BY <2>1
  <2> QED
    BY <2>1, <2>2, CoversAge DEF Covers
<1>2. ASSUME NEW t \in Task
      PROVE  /\ task'[t].at = task[t].at /\ task'[t].owed = task[t].owed
             /\ task'[t].rows = task[t].rows
             /\ TaskAt(t, "store") => task'[t].age = Older(task[t].age)
  <2>1. task[t] \in TaskType
    BY TypeParts
  <2>2. task'[t] = IF task[t].at \in {"load", "store"}
                   THEN [task[t] EXCEPT !.age = Older(task[t].age)] ELSE task[t]
    BY DEF Tick
  <2> QED
    BY <2>1, <2>2 DEF TaskType, TaskAt
<1>3. ASSUME NEW t \in Task, TaskAt(t, "store")
      PROVE  Covers(task[t].rows, task[t].age)'
  <2>1. Covers(task[t].rows, task[t].age) /\ task[t].age \in 0..TTL
    BY <1>3 DEF CacheInv, TypeOK
  <2> QED
    BY <1>2, <1>3, <2>1, CoversAge DEF Covers
<1> QED
  BY <1>1, <1>2, <1>3 DEF CacheInv, TaskAt

LEMMA CacheCrash ==
    ASSUME TypeOK, CacheInv, NEW p \in Process, Crash(p)
    PROVE  CacheInv'
<1>1. UNCHANGED <<taxonomy, since>>
  BY DEF Crash, tableVars
<1>2. \A S, age : Covers(S, age)' <=> Covers(S, age)
  BY <1>1 DEF Covers
<1>3. \A S : Covers(S, TTL)
  BY BoundAssumption DEF Covers
<1>4. \A q \in Process : Covers(cache'[q].skills, cache'[q].age)
  BY <1>3 DEF Crash, Empty, CacheInv, TypeOK
<1>5. \A t \in Task : task'[t] = task[t] \/ task'[t].at = "idle"
  BY DEF Crash, Resting
<1> QED
  BY <1>2, <1>4, <1>5 DEF CacheInv, TaskAt

LEMMA CacheStep == TypeOK /\ CacheInv /\ [Next]_vars => CacheInv'
<1> SUFFICES ASSUME TypeOK, CacheInv, [Next]_vars PROVE CacheInv'
  OBVIOUS
<1>1. CASE UNCHANGED <<taxonomy, since, cache, task>>
  BY <1>1 DEF CacheInv, Covers, TaskAt
<1>2. ASSUME NEW r \in Reviewer, CommitReview(r) PROVE CacheInv'
  <2>1. review[r] \in Decision /\ UNCHANGED <<cache, task>>
    BY <1>2 DEF CommitReview, TypeOK
  <2>2. CASE Refuse(review[r])
    BY <1>1, <2>1, <2>2 DEF Refuse, tableVars
  <2>3. CASE Decide(review[r])
    <3>1. (IF review[r].accept THEN {review[r].token} ELSE {}) \in SUBSET Skill
      BY <2>1, NameAssumption DEF Decision
    <3> QED
      BY <2>1, <2>3, <3>1, CacheInsert DEF Decide
  <2> QED
    BY <1>2, <2>2, <2>3 DEF CommitReview
<1>3. CASE SeedCommit
  <2>1. Missing(seeding.existing) \in SUBSET Skill
    BY NameAssumption DEF Missing
  <2> QED
    BY <1>1, <1>3, <2>1, CacheInsert DEF SeedCommit
<1>4. ASSUME (\E r \in Reviewer : Select(r)) \/ SeedRead \/ UNCHANGED vars
      PROVE  UNCHANGED <<taxonomy, since, cache, task>>
  BY <1>4 DEF Select, SeedRead, vars, tableVars
<1> QED
  BY <1>1, <1>2, <1>3, <1>4, CacheExtract, CacheTick, CacheCrash DEF Next

\* However refills of a cache overlap, an extraction knows every skill that had been in
\* the table for the time to live when it began.
THEOREM KnowsOwedSkillsCorrect == Spec => []KnowsOwedSkills
<1>1. Init => CacheInv
  BY BoundAssumption DEF Init, CacheInv, Covers, Empty, Resting, TaskAt
<1>2. CacheInv => KnowsOwedSkills
  BY DEF CacheInv, KnowsOwedSkills, TaskAt
<1> QED
  BY <1>1, <1>2, TypeCorrect, CacheStep, PTL DEF Spec

============================================================================
