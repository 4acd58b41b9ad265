------------------------------ MODULE MCIngest ------------------------------
(***************************************************************************)
(* Finite instances of Ingest.  dev and Dev have one fingerprint and two   *)
(* spellings of the company; both employers and both terms are wanted in   *)
(* either order; dev has no known skill and bad names a skill twice.       *)
(***************************************************************************)
EXTENDS Ingest, TLC

CONSTANTS
    acme, Acme,         \* company names
    rust, wasm,         \* terms the extractor does not know
    dev, Dev, ops, bad  \* postings

MCPosting == {dev, Dev, ops, bad}
MCFingerprint == [p \in Posting |-> IF p = Dev THEN dev ELSE p]
MCCompany == [p \in Posting |-> IF p = Dev THEN Acme ELSE acme]
MCTokens == [p \in Posting |-> CASE p = Dev -> <<rust, wasm>>
                                [] p = ops -> <<wasm>>
                                [] OTHER -> <<>>]
MCSkilled == Posting \ {dev}
MCBroken == {bad}
MCFeed == {<<Dev, ops, dev>>, <<ops, Dev, bad>>, <<dev>>}

=============================================================================
