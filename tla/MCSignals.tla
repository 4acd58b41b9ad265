----------------------------- MODULE MCSignals -----------------------------
(***************************************************************************)
(* A finite instance of Signals: four postings, a day of two ticks, a week *)
(* of one day, a month of two, pairs of two postings.  Zig has one         *)
(* spelling, Rust has two.                                                 *)
(***************************************************************************)
EXTENDS Signals

CONSTANTS Zig, Rust, rust, p1, p2, p3, p4

MCLower == [s \in Skill |-> IF s = Rust THEN rust ELSE s]
MCRank == [s \in Skill |-> CASE s = Rust -> 1 [] s = Zig -> 2 [] OTHER -> 3]
MCSkillsOf == [p \in Posting |->
    IF p = p1 THEN {Rust, rust} ELSE IF p = p2 THEN {Zig, Rust, rust} ELSE {Zig, Rust}]

=============================================================================
