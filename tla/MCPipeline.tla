----------------------------- MODULE MCPipeline -----------------------------
(***************************************************************************)
(* A finite instance of Pipeline.  Remotive offers more postings than a    *)
(* commit takes, Arbeitnow an item without a title, Hacker News more than  *)
(* its limit on two pages, Naukri a line that is no posting.  Adzuna has   *)
(* no key.                                                                 *)
(***************************************************************************)
EXTENDS Pipeline

CONSTANTS r1, r2, a1, h1, h2, h3, n1

Answer(ps, junk) == [postings |-> ps, junk |-> junk]

MCOffers == [n \in Name |->
    CASE n = "remotive"   -> <<Answer(<<r1, r2>>, FALSE)>>
      [] n = "arbeitnow"  -> <<Answer(<<a1>>, TRUE)>>
      [] n = "hackernews" -> <<Answer(<<h1>>, TRUE), Answer(<<h2, h3>>, FALSE)>>
      [] n = "naukri"     -> <<Answer(<<n1>>, TRUE)>>
      [] OTHER            -> <<Answer(<<a1>>, FALSE)>>]

=============================================================================
