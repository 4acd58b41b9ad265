--------------------------- MODULE MCBitmapIndex ---------------------------
(***************************************************************************)
(* Finite instances of BitmapIndex: three rows of which one has no skill   *)
(* and one a pseudo-country, two or three sessions.                        *)
(***************************************************************************)
EXTENDS BitmapIndex, TLC

CONSTANTS
    python, remote, senior,  \* one key of the fields skill, country, sen
    e1, e2, e3               \* rows

MCKey == {python, remote, senior}
MCEvent == {e1, e2, e3}
MCKeys == (e1 :> {python, remote} @@ e2 :> {python, senior} @@ e3 :> {senior})
MCRegionKey == {remote}
MCSkilled == {e1, e2}

============================================================================
