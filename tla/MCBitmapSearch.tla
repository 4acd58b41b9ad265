--------------------------- MODULE MCBitmapSearch ---------------------------
(***************************************************************************)
(* A finite instance of BitmapSearch: two postings, whose numbers share a  *)
(* byte of three bits.  Python is stored as the taxonomy writes it by one  *)
(* posting, which is remote, and in lower case by the other.               *)
(***************************************************************************)
EXTENDS BitmapSearch, TLC

CONSTANTS
    Python, python, go, senior, us, remote, unknown,  \* values
    dev, lead,                                        \* postings
    one, two                                          \* searchers

MCValue == {Python, python, go, senior, us, remote, unknown}
MCLower == [v \in Value |-> IF v = Python THEN python ELSE v]
MCTags == [e \in Event |->
    IF e = dev
    THEN {<<"skill", Python>>, <<"skill", go>>, <<"country", remote>>, <<"size", unknown>>}
    ELSE {<<"skill", python>>, <<"skill", go>>, <<"sen", senior>>, <<"country", us>>}]
Asks(skills, filters, limit) == [skills |-> skills, filters |-> filters, limit |-> limit]
MCRequest == {
    Asks(<<>>, {<<"country", us>>}, 1),
    Asks(<<go, Python>>, {}, 1),
    Asks(<<go>>, {<<"country", remote>>}, 2),
    Asks(<<go>>, {<<"seniority", senior>>}, 2)}

Symmetric == Permutations(Searcher)

=============================================================================
