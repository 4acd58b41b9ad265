\* Four postings of any age up to three and a half days, pairs of two postings.
CONSTANTS
    Zig = Zig  Rust = Rust  rust = rust  p1 = p1  p2 = p2  p3 = p3  p4 = p4
    Posting = {p1, p2, p3, p4}
    Skill = {Zig, Rust, rust}
    Lower <- MCLower
    Rank <- MCRank
    SkillsOf <- MCSkillsOf
    Window = {2, 4, 6}
    Day = 2
    Week = 2
    Month = 4
    MinPairs = 2
    MaxAge = 7
SPECIFICATION Spec
INVARIANTS WindowsNest GraphAgrees
PROPERTY ScoreFades
