------------------------------- MODULE PinBook -------------------------------
(***************************************************************************)
(* What the pin file promises, however many invocations write it and       *)
(* whenever they die: it holds at any time the whole of what one of them   *)
(* saved, and that was an earlier version of the file with some entries    *)
(* replaced by snapshots that were shown to the user; a file that cannot   *)
(* be read is neither believed nor written over.  It does not promise that *)
(* the version a save started from is the latest.                          *)
(***************************************************************************)
VARIABLES
    book,       \* what the file holds: a snapshot for each server pinned
    readable,   \* it can be read, and its hashes are right
    past,       \* everything it has held
    shown       \* the snapshots shown so far, each with the server's name

vars == <<book, readable, past, shown>>

Init == readable \in BOOLEAN /\ past = {book} /\ shown = {}

Show ==
    /\ shown \subseteq shown'
    /\ UNCHANGED <<book, readable, past>>

\* The entries of g go over those of f.
Over(f, g) == [x \in DOMAIN f \union DOMAIN g |-> IF x \in DOMAIN g THEN g[x] ELSE f[x]]

Save ==
    /\ readable
    /\ \E old \in past, entries \in SUBSET shown :
        /\ \A e, f \in entries : e[1] = f[1] => e = f
        /\ book' = Over(old, [n \in {e[1] : e \in entries} |->
                                (CHOOSE e \in entries : e[1] = n)[2]])
    /\ past' = past \union {book'}
    /\ UNCHANGED <<readable, shown>>

Next == Show \/ Save
Spec == Init /\ [][Next]_vars
=============================================================================
