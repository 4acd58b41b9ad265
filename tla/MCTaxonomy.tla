----------------------------- MODULE MCTaxonomy -----------------------------
(***************************************************************************)
(* A finite instance of Taxonomy: two seeded skills with one key, like the *)
(* script's "zero trust" and "Zero Trust", found as zero; team is noise.   *)
(***************************************************************************)
EXTENDS Taxonomy

CONSTANTS zero, Zero, team, backend, t1, t2, alice, bob

MCLower == [s \in Skill |-> IF s = Zero THEN zero ELSE s]
MCProcessOf == [t \in Task |-> backend]

=============================================================================
