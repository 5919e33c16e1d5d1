---------------------------- MODULE ResponseBound ----------------------------
(***************************************************************************)
(* _fit_within_limit of policy/engine.py: a response over the limit is cut *)
(* so that what is left of it and the notice that says how much was        *)
(* withheld fit under the limit together.  The length of the notice        *)
(* depends on the number it reports, and a text can only be cut between    *)
(* two characters, so the code tries four times.                           *)
(*                                                                         *)
(* A text is `lead' characters of one byte and then characters of `width'  *)
(* bytes; lengths are in bytes.                                            *)
(***************************************************************************)
EXTENDS Integers

CONSTANTS
    Case,       \* the calls considered: the text, its size, the limit it is over
    Notice      \* Notice[limit][dropped]: how long the notice is with these numbers

Rounds == 4

VARIABLES
    case,
    keep,       \* how much of the text the next round keeps
    round,
    note,       \* how long the last notice was, and the bytes it says are withheld
    state,      \* fitting, fitted, or cut: the loop has not found a length that fits
    shown       \* what is returned: bytes of the text, bytes of the notice

vars == <<case, keep, round, note, state, shown>>

\* raw[:keep].decode(errors="ignore"): a character that is cut in two is left out.
Body(text, n) ==
    IF n <= text.lead THEN n ELSE text.lead + text.width * ((n - text.lead) \div text.width)

Init ==
    /\ case \in Case
    /\ keep = case.limit /\ round = 0
    /\ note = [length |-> 0, dropped |-> 0]
    /\ state = "fitting"
    /\ shown = [body |-> 0, note |-> 0]

NoteFor(n) ==
    LET dropped == case.size - Body(case, n)
    IN [length |-> Notice[case.limit][dropped], dropped |-> dropped]
Total(n) == Body(case, n) + NoteFor(n).length

\* A round that fits: the text and its notice are returned.
Fits ==
    /\ state = "fitting" /\ round < Rounds
    /\ Total(keep) <= case.limit
    /\ state' = "fitted"
    /\ note' = NoteFor(keep)
    /\ shown' = [body |-> Body(case, keep), note |-> note'.length]
    /\ round' = round + 1
    /\ UNCHANGED <<case, keep>>

\* A round that does not: the excess is taken off what was kept, not off what was shown.
Shrinks ==
    /\ state = "fitting" /\ round < Rounds
    /\ Total(keep) > case.limit
    /\ keep' = LET rest == keep - (Total(keep) - case.limit) IN IF rest < 0 THEN 0 ELSE rest
    /\ note' = NoteFor(keep)
    /\ round' = round + 1
    /\ UNCHANGED <<case, state, shown>>

\* After the last round only its notice is returned, and no more of it than fits.
GivesUp ==
    /\ state = "fitting" /\ round = Rounds
    /\ state' = "cut"
    /\ shown' = [body |-> 0, note |-> IF note.length <= case.limit THEN note.length ELSE case.limit]
    /\ UNCHANGED <<case, keep, round, note>>

Next == Fits \/ Shrinks \/ GivesUp

Spec == Init /\ [][Next]_vars

-----------------------------------------------------------------------------
\* "so the *total* is at most limit bytes": whatever is returned.
BoundIsKept == shown.body + shown.note <= case.limit

\* The notice that goes with a text says how much of it is missing.
NoticeIsTrue == state = "fitted" => note.dropped = case.size - shown.body

(***************************************************************************)
(* engine.py says of its last line that it is "unreachable for sane        *)
(* limits", and the notice it returns says that less is withheld than is.  *)
(* Where characters take several bytes the rounds may approach the limit   *)
(* by one byte at a time.                                                  *)
(***************************************************************************)
TextIsShown == state # "cut"
=============================================================================
