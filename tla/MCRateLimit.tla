---------------------------- MODULE MCRateLimit ----------------------------
(***************************************************************************)
(* A finite instance of RateLimit: reads and writes of one address, two    *)
(* requests in flight, windows of two ticks.                               *)
(***************************************************************************)
EXTENDS RateLimit

CONSTANTS caddy, r1, r2

MCLimits == [m \in Method |-> IF m = "GET" THEN 2 ELSE 1]

=============================================================================
