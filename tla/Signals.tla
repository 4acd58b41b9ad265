------------------------------ MODULE Signals ------------------------------
(***************************************************************************)
(* The read side: /signals ranks pairs of skills by their breakout score,  *)
(* from the continuous aggregate cooccurrence_30d or from the raw tables,  *)
(* and /graph lists the neighbours of a skill.                             *)
(*                                                                         *)
(* A posting is its skills and its age.  Time advances in ticks, of which  *)
(* Day make a day: the aggregate counts by the day of posted_at, the       *)
(* tables by posted_at itself.                                             *)
(***************************************************************************)
EXTENDS Integers, FiniteSets

CONSTANTS
    Posting,
    Skill,     \* as stored
    Lower,     \* Lower[s]: s in lower case
    Rank,      \* Rank[s]: its place in the order of names
    SkillsOf,  \* SkillsOf[p]
    Window,    \* values of window_days in use, in ticks
    Day,       \* ticks of a day
    Week,      \* 7 days, in ticks
    Month,     \* 30 days, in ticks
    MinPairs,  \* 3 in the code
    MaxAge     \* bound, above the month and every window: ages from it on are not told apart

ASSUME SkillAssumption ==
    /\ SkillsOf \in [Posting -> SUBSET Skill]
    /\ IsFiniteSet(Posting)
    /\ DOMAIN Lower = Skill
    /\ Rank \in [Skill -> Nat]
    /\ \A s, t \in Skill : Rank[s] = Rank[t] => s = t
ASSUME BoundAssumption ==
    /\ {Day, Week, Month, MinPairs, MaxAge} \subseteq Nat \ {0}
    /\ Week < Month /\ Month < MaxAge
    /\ Window \subseteq 1..(MaxAge - 1)

VARIABLES
    rows,     \* job_events with their job_skills
    age,      \* ticks since posted_at, of the rows
    hour,     \* ticks since midnight
    covered   \* postings counted in the aggregate

vars == <<rows, age, hour, covered>>

Pair == {c \in SUBSET Skill : Cardinality(c) = 2}
With(S, c) == {p \in S : c \subseteq SkillsOf[p]}

----------------------------------------------------------------------------
\* The queries.  Each gives the pairs that reach MinPairs, with their counts and the age of
\* their first posting.

\* posted_at >= NOW() - d, and the same of the day of posted_at, which began earlier.
Since(S, d) == {p \in S : age[p] <= d}
BucketAge(p) == age[p] + ((hour - age[p]) % Day)
BucketSince(S, d) == {p \in S : BucketAge(p) <= d}

Oldest(S) == CHOOSE a \in {age[p] : p \in S} : \A p \in S : age[p] <= a

Entry(total, week, recent) == [total |-> Cardinality(total), last7 |-> Cardinality(week),
                               recent |-> Cardinality(recent), first |-> Oldest(total)]

\* The window is not a parameter of this query: "recent" is all of the month.
CaggQuery ==
    LET counted(c) == BucketSince(With(covered, c), Month)
    IN  [c \in {d \in Pair : Cardinality(counted(d)) >= MinPairs} |->
            Entry(counted(c), BucketSince(counted(c), Week), counted(c))]

RawQuery(w) ==
    LET counted(c) == With(rows, c)
    IN  [c \in {d \in Pair : Cardinality(counted(d)) >= MinPairs} |->
            Entry(counted(c), Since(counted(c), Week), Since(counted(c), w))]

\* The aggregate answers for windows up to a month, unless it has nothing to say.
FromCagg(w) == w <= Month /\ DOMAIN CaggQuery # {}
Result(w) == IF FromCagg(w) THEN CaggQuery ELSE RawQuery(w)

\* The breakout score is Velocity * log(total + 1) / (Days + 1); the prior postings are
\* all that are not recent.  Mutant: recent and prior are swapped.
Velocity_Swapped(e) ==
    LET prior == IF e.total > e.recent THEN e.total - e.recent ELSE 0
    IN  prior - e.recent
Velocity(e) ==
    LET prior == IF e.total > e.recent THEN e.total - e.recent ELSE 0
    IN  e.recent - prior
Days(e) == IF e.first \div Day > 1 THEN e.first \div Day ELSE 1

\* /graph: the pairs <<a, b>>, a before b, that have the asked skill in any spelling, and
\* the side of the pair that is shown.  Mutant: the skill is looked for as the first.
Matched_First(q) == {c \in Skill \X Skill : Rank[c[1]] < Rank[c[2]] /\ Lower[c[1]] = q}
Matched(q) ==
    {c \in Skill \X Skill : Rank[c[1]] < Rank[c[2]] /\ q \in {Lower[c[1]], Lower[c[2]]}}
Shown(c, q) == IF Lower[c[1]] = q THEN c[2] ELSE c[1]
Weight(q, n) ==
    Cardinality({x \in rows \X Matched(q) :
                    Shown(x[2], q) = n /\ {x[2][1], x[2][2]} \subseteq SkillsOf[x[1]]})
Neighbours(q) == {n \in Skill : Weight(q, n) > 0}

----------------------------------------------------------------------------
\* What the aggregate holds after a run that left the rows S.  It is created WITH NO DATA
\* and has no refresh policy; the CALL at the end of a run is refused, since it cannot be
\* made inside the transaction that the session has opened, and the run only logs this.
\* Mutant: the CALL works, for the last month; what is older stays as it was.
Refreshed_Works(S) == {p \in covered : age'[p] > Month} \cup {p \in S : age'[p] <= Month}
Refreshed(S) == covered

\* Postings S are stored; posted_at is the source's.
Stored(S) ==
    /\ \E ages \in [S -> 0..MaxAge] :
          age' = [p \in Posting |-> IF p \in S THEN ages[p] ELSE age[p]]
    /\ rows' = rows \cup S
    /\ UNCHANGED hour

\* POST /ingest, one posting at a time.
Ingest(p) ==
    /\ p \notin rows
    /\ Stored({p})
    /\ UNCHANGED covered

\* A run of the pipeline, whose sources may have nothing new.
Run(S) ==
    /\ S \cap rows = {}
    /\ Stored(S)
    /\ covered' = Refreshed(rows')

Tick ==
    /\ hour' = (hour + 1) % Day
    /\ age' = [p \in Posting |-> IF p \in rows /\ age[p] < MaxAge THEN age[p] + 1 ELSE age[p]]
    /\ UNCHANGED <<rows, covered>>

\* reset_and_reingest deletes the rows; it does not touch the aggregate.
Reset ==
    /\ rows # {}
    /\ rows' = {}
    /\ age' = [p \in Posting |-> 0]
    /\ UNCHANGED <<hour, covered>>

Init ==
    /\ rows = {}
    /\ age = [p \in Posting |-> 0]
    /\ hour \in 0..(Day - 1)
    /\ covered = {}

Next ==
    \/ \E p \in Posting : Ingest(p)
    \/ \E S \in SUBSET Posting : Run(S)
    \/ Tick
    \/ Reset

Spec == Init /\ [][Next]_vars

----------------------------------------------------------------------------
\* A wider window shows the same pairs and no fewer recent postings, on either side of the
\* month at which /signals changes its source: totals and last7 are the same, velocity does
\* not fall, and a window of a week or more counts the last week.  It depends on the
\* aggregate's having nothing to say: its query counts a month whatever was asked for.
WindowsNest ==
    \A v, w \in Window : v <= w =>
        /\ DOMAIN Result(v) = DOMAIN Result(w)
        /\ \A c \in DOMAIN Result(v) :
              LET e == Result(v)[c]
                  f == Result(w)[c]
              IN  /\ e.total = f.total /\ e.last7 = f.last7 /\ e.first = f.first
                  /\ e.recent <= f.recent /\ Velocity(e) <= Velocity(f)
                  /\ Week <= v => e.last7 <= e.recent

\* The score of f is not above that of e, of the same total, unless both are at most 0.
Faded(e, f) ==
    IF Velocity(e) > 0
    THEN Velocity(f) * (Days(e) + 1) <= Velocity(e) * (Days(f) + 1)
    ELSE Velocity(f) <= 0

\* As time passes /signals goes on listing the same pairs, and none gains in score.
NoGain(w) ==
    /\ DOMAIN Result(w)' = DOMAIN Result(w)
    /\ \A c \in DOMAIN Result(w) :
          /\ Result(w)'[c].total = Result(w)[c].total
          /\ Faded(Result(w)[c], Result(w)'[c])

\* Without a new posting no pair breaks out: as time passes, and with runs that find nothing,
\* /signals goes on listing the same pairs, and none of them gains in score (infra/signals.py:
\* "recent pairs score higher"); a score that is not positive may only rise towards 0.
ScoreFades == [][rows' = rows => \A w \in Window : NoGain(w)]_vars

\* /graph agrees with the pairs that /signals counts: for a skill with one spelling, each
\* neighbour weighs as much as the pair has postings.
GraphAgrees ==
    \A s \in Skill : \A n \in Skill \ {s} :
        (\A t \in Skill : Lower[t] = Lower[s] => t = s) =>
            /\ Weight(Lower[s], n) = Cardinality(With(rows, {s, n}))
            /\ {s, n} \in DOMAIN RawQuery(Month) =>
                  RawQuery(Month)[{s, n}].total = Weight(Lower[s], n)

=============================================================================
