------------------------------ MODULE Taxonomy ------------------------------
(***************************************************************************)
(* The life of a skill: extraction flags a term that its view of the       *)
(* taxonomy does not know, a review accepts it into skill_taxonomy, and    *)
(* each process knows it once its cache of the taxonomy has run out.       *)
(*                                                                         *)
(* The cache is refilled across an await: several extractions of a process *)
(* may refill it at a time.  A skill is its name and its key, the name in  *)
(* lower case; what matching finds beyond keys only adds known skills.     *)
(* Counting is Ingest.                                                     *)
(***************************************************************************)
EXTENDS Integers, FiniteSets

CONSTANTS
    Skill,      \* names as written in skill_taxonomy
    Term,       \* noun chunks of postings, in lower case; candidates are terms
    Noise,      \* terms with a word of _STOP or of one letter
    Seed,       \* the skills of seed_taxonomy.py
    Lower,      \* Lower[s]: s stripped and in lower case
    Task,       \* extractions in flight
    Process,    \* processes, each with a cache
    ProcessOf,  \* ProcessOf[t]
    Reviewer,   \* review requests in flight
    TTL,        \* of 300 s, in ticks
    MaxFaults   \* bound: crashes

ASSUME NameAssumption ==
    /\ Term \subseteq Skill /\ Seed \subseteq Skill /\ Noise \subseteq Term
    /\ Lower \in [Skill -> Term]
    /\ \A x \in Term : Lower[x] = x
ASSUME TaskAssumption == ProcessOf \in [Task -> Process]
ASSUME BoundAssumption == TTL \in Nat \ {0} /\ MaxFaults \in Nat

VARIABLES
    taxonomy,   \* rows of skill_taxonomy
    since,      \* history: ticks since a row was committed, up to TTL
    candidate,  \* emerging_candidates
    cache,      \* _TAXONOMY_CACHE and the age of _TAXONOMY_CACHE_TS, per process
    task,       \* per extraction: its place, the age of its now, rows, term
    review,     \* per review request: what it is about to write
    seeding,    \* the seed script: place and the skills it found
    faults

tableVars == <<taxonomy, since, candidate>>
vars == <<tableVars, cache, task, review, seeding, faults>>

Verdict == {"none", "open", "accepted", "rejected"}
Empty == [skills |-> {}, age |-> TTL]

\* owed: history, the skills that had been in the table for TTL when the task looked.
Resting == [at |-> "idle", age |-> 0, rows |-> {}, owed |-> {}]

Decision == [token : Term, accept : BOOLEAN, writes : BOOLEAN]
Name(accept) == IF accept THEN "accepted" ELSE "rejected"
NoReview == [token |-> "none"]

----------------------------------------------------------------------------
\* Extraction.

TaskAt(t, place) == task[t].at = place
CacheOf(t) == cache[ProcessOf[t]]

Owed == {s \in taxonomy : since[s] >= TTL}

\* Mutant: the cache never runs out.
Fresh_Always(c) == c.skills # {} \/ c.age < TTL
Fresh(c) == c.age < TTL

\* _load_taxonomy: now is taken, and compared with the cache, before the SELECT.
Look(t) ==
    /\ TaskAt(t, "idle")
    /\ task' = [task EXCEPT ![t] =
                  [at |-> IF Fresh(CacheOf(t)) THEN "use" ELSE "load",
                   age |-> 0,
                   rows |-> IF Fresh(CacheOf(t)) THEN CacheOf(t).skills ELSE {},
                   owed |-> Owed]]
    /\ UNCHANGED <<tableVars, cache, review, seeding, faults>>

\* The SELECT takes its snapshot.  Mutant: it sees what a review has not committed.
Load_Dirty(t) ==
    /\ TaskAt(t, "load")
    /\ task' = [task EXCEPT ![t] =
                  [@ EXCEPT !.at = "store",
                            !.rows = taxonomy \cup {review[r].token :
                                        r \in {q \in Reviewer : review[q] # NoReview}}]]
    /\ UNCHANGED <<tableVars, cache, review, seeding, faults>>
Load(t) ==
    /\ TaskAt(t, "load")
    /\ task' = [task EXCEPT ![t] = [@ EXCEPT !.at = "store", !.rows = taxonomy]]
    /\ UNCHANGED <<tableVars, cache, review, seeding, faults>>

\* Its rows have arrived.  Mutant: the time stamp is taken now.
Stamp_AfterSelect(t) == 0
Stamp(t) == task[t].age

Store(t) ==
    /\ TaskAt(t, "store")
    /\ cache' = [cache EXCEPT ![ProcessOf[t]] = [skills |-> task[t].rows, age |-> Stamp(t)]]
    /\ task' = [task EXCEPT ![t] = [@ EXCEPT !.at = "use", !.age = 0]]
    /\ UNCHANGED <<tableVars, review, seeding, faults>>

\* discover_emerging: only the key of a skill keeps a term from being flagged, not one of
\* its aliases.
Flagged(S, x) == x \notin Noise /\ \A s \in S : Lower[s] # x

\* The pipeline records a flagged term; POST /extract only returns it.
Use(t) ==
    /\ TaskAt(t, "use")
    /\ \/ UNCHANGED candidate
       \/ \E x \in Term :
            /\ Flagged(task[t].rows, x)
            /\ candidate[x] = "none"
            /\ candidate' = [candidate EXCEPT ![x] = "open"]
    /\ task' = [task EXCEPT ![t] = Resting]
    /\ UNCHANGED <<taxonomy, since, cache, review, seeding, faults>>

----------------------------------------------------------------------------
\* Review.

\* SELECT of the candidate; 404 if there is none.  A value of "accepted" that equals the
\* loaded one is not written later.
Select(r) ==
    /\ review[r] = NoReview
    /\ \E x \in Term, accept \in BOOLEAN :
          /\ candidate[x] # "none"
          /\ review' = [review EXCEPT ![r] = [token |-> x, accept |-> accept,
                                             writes |-> candidate[x] # Name(accept)]]
    /\ UNCHANGED <<tableVars, cache, task, seeding, faults>>

Verdicted(d) == IF d.writes THEN Name(d.accept) ELSE candidate[d.token]

Insert(S) ==
    /\ taxonomy' = taxonomy \cup S
    /\ since' = [s \in Skill |-> IF s \in S THEN 0 ELSE since[s]]

\* The commit, of the candidate and of the accepted skill.
Decide(d) ==
    /\ d.accept => d.token \notin taxonomy
    /\ candidate' = [candidate EXCEPT ![d.token] = Verdicted(d)]
    /\ Insert(IF d.accept THEN {d.token} ELSE {})

\* It fails on a skill that is there already and on a category outside the list.
\* Mutant: the candidate has been committed before.
Refuse_Late(d) ==
    /\ d.accept
    /\ candidate' = [candidate EXCEPT ![d.token] = Verdicted(d)]
    /\ UNCHANGED <<taxonomy, since>>
Refuse(d) ==
    /\ d.accept
    /\ UNCHANGED tableVars

CommitReview(r) ==
    /\ review[r] # NoReview
    /\ Decide(review[r]) \/ Refuse(review[r])
    /\ review' = [review EXCEPT ![r] = NoReview]
    /\ UNCHANGED <<cache, task, seeding, faults>>

----------------------------------------------------------------------------
\* The seed script.

SeedRead ==
    /\ seeding.at # "write"
    /\ seeding' = [at |-> "write", existing |-> taxonomy]
    /\ UNCHANGED <<tableVars, cache, task, review, faults>>

\* Mutant: a skill with the key of an existing one is skipped.
Missing_ByKey(S) == {s \in Seed : \A u \in S : Lower[u] # Lower[s]}
Missing(S) == Seed \ S

\* One commit for all missing skills; one that was added meanwhile makes it fail.
SeedCommit ==
    /\ seeding.at = "write"
    /\ IF Missing(seeding.existing) \cap taxonomy # {}
       THEN UNCHANGED <<taxonomy, since>> /\ seeding' = [at |-> "idle", existing |-> {}]
       ELSE /\ Insert(Missing(seeding.existing))
            /\ seeding' = [at |-> "done", existing |-> {}]
    /\ UNCHANGED <<candidate, cache, task, review, faults>>

----------------------------------------------------------------------------
Older(n) == IF n < TTL THEN n + 1 ELSE TTL

Tick ==
    /\ since' = [s \in Skill |-> IF s \in taxonomy THEN Older(since[s]) ELSE 0]
    /\ cache' = [p \in Process |-> [cache[p] EXCEPT !.age = Older(@)]]
    /\ task' = [t \in Task |-> IF task[t].at \in {"load", "store"}
                               THEN [task[t] EXCEPT !.age = Older(@)]
                               ELSE task[t]]
    /\ UNCHANGED <<taxonomy, candidate, review, seeding, faults>>

\* A process restarts with an empty cache.
Crash(p) ==
    /\ faults < MaxFaults
    /\ faults' = faults + 1
    /\ cache' = [cache EXCEPT ![p] = Empty]
    /\ task' = [t \in Task |-> IF ProcessOf[t] = p THEN Resting ELSE task[t]]
    /\ UNCHANGED <<tableVars, review, seeding>>

Init ==
    /\ taxonomy = {}
    /\ since = [s \in Skill |-> 0]
    /\ candidate = [x \in Term |-> "none"]
    /\ cache = [p \in Process |-> Empty]
    /\ task = [t \in Task |-> Resting]
    /\ review = [r \in Reviewer |-> NoReview]
    /\ seeding = [at |-> "idle", existing |-> {}]
    /\ faults = 0

Extract(t) == Look(t) \/ Load(t) \/ Store(t) \/ Use(t)

Next ==
    \/ \E t \in Task : Extract(t)
    \/ \E r \in Reviewer : Select(r) \/ CommitReview(r)
    \/ SeedRead \/ SeedCommit
    \/ Tick
    \/ \E p \in Process : Crash(p)

\* Every process goes on extracting, and time passes.
Spec ==
    /\ Init
    /\ [][Next]_vars
    /\ \A t \in Task : WF_vars(Extract(t))
    /\ WF_vars(Tick)

----------------------------------------------------------------------------
\* Types, and that only committed skills are known.
TypeOK ==
    /\ taxonomy \subseteq Skill
    /\ since \in [Skill -> 0..TTL]
    /\ candidate \in [Term -> Verdict]
    /\ cache \in [Process -> [skills : SUBSET taxonomy, age : 0..TTL]]
    /\ task \in [Task -> [at : {"idle", "load", "store", "use"}, age : 0..TTL,
                          rows : SUBSET taxonomy, owed : SUBSET taxonomy]]
    /\ review \in [Reviewer -> Decision \cup {NoReview}]
    /\ seeding \in [at : {"idle", "write", "done"}, existing : SUBSET taxonomy]
    /\ faults \in 0..MaxFaults

\* However refills of the cache overlap, an extraction knows every skill that had been in
\* the table for the time to live when it began: the time stamp precedes the SELECT.
KnowsOwedSkills == \A t \in Task : TaskAt(t, "use") => task[t].owed \subseteq task[t].rows

\* A candidate that says "accepted" is in the taxonomy, whatever reviews overlap and
\* whichever commits fail.
AcceptedInTaxonomy == \A x \in Term : candidate[x] = "accepted" => x \in taxonomy

\* Once the seed script has succeeded, all its skills are there.
SeededComplete == seeding.at = "done" => Seed \subseteq taxonomy

\* An accepted or seeded skill reaches the cache of every process and stays in it.
AcceptedBecomesKnown ==
    \A p \in Process : \A s \in Skill \ Noise : [](s \in taxonomy => <>[](s \in cache[p].skills))

=============================================================================
