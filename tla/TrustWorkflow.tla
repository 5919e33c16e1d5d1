---------------------------- MODULE TrustWorkflow ----------------------------
(***************************************************************************)
(* What services/scan.py promises of one registered server: a scan records *)
(* what the server was seen to offer and, once an operator has approved a  *)
(* baseline, grades the server against it; approving makes what was last   *)
(* seen the one baseline.  Both are single steps here.                     *)
(***************************************************************************)
CONSTANTS
    Observation,   \* a tool listing together with the server's identity
    Grave,         \* <<b, o>>: drift from b to o is graded HIGH or worse
    NoObservation

VARIABLES latest, baseline, trust

wfvars == <<latest, baseline, trust>>

WFTypeOK ==
    /\ latest \in Observation \union {NoObservation}
    /\ baseline \in Observation \union {NoObservation}
    /\ trust \in {"untrusted", "pending_review", "trusted", "quarantined"}

\* What a scan that saw o makes of a server with baseline b.
Graded(b, o) ==
    IF o = b THEN "trusted"
    ELSE IF <<b, o>> \in Grave THEN "quarantined" ELSE "pending_review"

WFInit == latest = NoObservation /\ baseline = NoObservation /\ trust = "untrusted"

WFScan(o) ==
    /\ latest' = o
    /\ trust' = IF baseline = NoObservation THEN trust ELSE Graded(baseline, o)
    /\ UNCHANGED baseline

WFApprove ==
    /\ latest # NoObservation
    /\ baseline' = latest
    /\ trust' = "trusted"
    /\ UNCHANGED latest

WFNext == WFApprove \/ \E o \in Observation : WFScan(o)

WFSpec == WFInit /\ [][WFNext]_wfvars
=============================================================================
