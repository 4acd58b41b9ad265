\* One process with two extractions, two reviewers, a time to live of one tick.
CONSTANTS
    zero = zero  Zero = Zero  team = team
    backend = backend  t1 = t1  t2 = t2  alice = alice  bob = bob
    Skill = {zero, Zero, team}
    Term = {zero, team}
    Noise = {team}
    Seed = {zero, Zero}
    Lower <- MCLower
    Process = {backend}
    Task = {t1, t2}
    ProcessOf <- MCProcessOf
    Reviewer = {alice, bob}
    TTL = 1
    MaxFaults = 1
SPECIFICATION Spec
INVARIANTS TypeOK KnowsOwedSkills AcceptedInTaxonomy SeededComplete
PROPERTIES AcceptedBecomesKnown
