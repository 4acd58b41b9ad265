--------------------------- MODULE PostingIndex ----------------------------
(***************************************************************************)
(* What the dual write of BitmapIndex promises to a reader, without posting *)
(* numbers, bitstrings, sessions or a counter: a set of stored rows, the    *)
(* rows the index knows, and the rows that each filter key selects.  While  *)
(* the index is trusted it only grows by stored rows it did not know, each  *)
(* under all of its keys in the same step, or is emptied as a whole; once   *)
(* disturbed it promises only that it never names a row that is not stored, *)
(* until it is emptied.                                                     *)
(***************************************************************************)

CONSTANTS
    Posting,    \* rows that exist or will be inserted
    Key,        \* filter keys
    Must,       \* Must[e]: the keys that have to select e
    May         \* May[e]: the keys that are allowed to

VARIABLES
    stored,     \* the rows in the database
    known,      \* the rows in the index
    found,      \* found[k]: the rows that k selects
    trusted     \* no disturbance since the index was empty

vars == <<stored, known, found, trusted>>

Nothing == [k \in Key |-> {}]

Init ==
    /\ stored \in SUBSET Posting
    /\ known = {}
    /\ found = Nothing
    /\ trusted = TRUE

Store ==
    /\ stored' \in SUBSET Posting
    /\ stored \subseteq stored'
    /\ UNCHANGED <<known, found, trusted>>

Publish ==
    /\ trusted
    /\ \E S \in SUBSET (stored \ known), keysOf \in {Must, May} :
          /\ known' = known \cup S
          /\ found' = [k \in Key |-> found[k] \cup {e \in S : k \in keysOf[e]}]
    /\ UNCHANGED <<stored, trusted>>

Empty ==
    /\ known' = {}
    /\ found' = Nothing
    /\ trusted' = TRUE
    /\ UNCHANGED stored

Disturb ==
    /\ trusted' = FALSE
    /\ known' \in SUBSET stored
    /\ found' \in [Key -> SUBSET known']
    /\ UNCHANGED stored

Next ==
    \/ Store
    \/ Publish
    \/ Empty
    \/ Disturb

Spec == Init /\ [][Next]_vars

============================================================================
