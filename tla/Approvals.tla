------------------------------ MODULE Approvals ------------------------------
(***************************************************************************)
(* policy/approval.py: the in-memory registry of approval requests of one  *)
(* run.  A request is identified by its call: the tool and the digest of   *)
(* the arguments (the server and the trace are those of the run).  The     *)
(* registry records decisions and never makes them.                        *)
(***************************************************************************)
CONSTANTS
    Actor,          \* who may claim a decision: people, the simulated operator, a blank name
    SimulatedActor, Blank

ASSUME ActorAssumption == {SimulatedActor, Blank} \subseteq Actor /\ SimulatedActor # Blank

VARIABLE approvals   \* request -> its state and who resolved it

ApprovalState == {"pending", "approved", "denied"}
ApprovalRequest == [state : ApprovalState, by : Actor]

\* A request nobody has resolved is by Blank, a name resolve() refuses.
Opened == [state |-> "pending", by |-> Blank]

ApprovalInit == approvals = [c \in {} |-> Opened]

\* Plausible bug: a request made again is pending again.
RequestedReopens(c) == [x \in DOMAIN approvals \union {c} |-> IF x = c THEN Opened ELSE approvals[x]]

\* request(): idempotent, whatever the state of the request that is there.
Requested(c) == [x \in DOMAIN approvals \union {c} |->
                    IF x \in DOMAIN approvals THEN approvals[x] ELSE Opened]

Request(c) == approvals' = Requested(c)

\* Plausible bug: a request that has been resolved, either way, lifts the hold.
is_resolved(registry, c) == registry[c].state # "pending"

is_approved(registry, c) == registry[c].state = "approved"

\* resolve(): by somebody with a name, labelled simulated iff it is the simulated operator's.
Resolve(c, approve, actor, simulated) ==
    /\ actor # Blank
    /\ simulated = (actor = SimulatedActor)
    /\ c \in DOMAIN approvals
    /\ approvals[c].state = "pending"
    /\ approvals' = [approvals EXCEPT ![c] =
                        [state |-> IF approve THEN "approved" ELSE "denied", by |-> actor]]

\* SimulatedOperator.review_pending(): resolves every pending request by its rule.
ReviewPending(granted) ==
    LET pending == {c \in DOMAIN approvals : approvals[c].state = "pending"}
    IN /\ pending # {}
       /\ approvals' = [c \in DOMAIN approvals |->
                           IF c \notin pending THEN approvals[c]
                           ELSE [state |-> IF c \in granted THEN "approved" ELSE "denied",
                                 by |-> SimulatedActor]]

-----------------------------------------------------------------------------
(***************************************************************************)
(* A decision is final and a request is never lost: a step may open a      *)
(* request, always as pending, and resolve pending ones, in somebody's     *)
(* name; it changes nothing of a request that has been resolved.           *)
(***************************************************************************)
DecisionsAreFinal ==
    [][/\ DOMAIN approvals \subseteq DOMAIN approvals'
       /\ \A c \in DOMAIN approvals' \ DOMAIN approvals : approvals'[c] = Opened
       /\ \A c \in DOMAIN approvals :
             approvals'[c] # approvals[c] => approvals[c].state = "pending" /\ approvals'[c].by # Blank
      ]_approvals
=============================================================================
