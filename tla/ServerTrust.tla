----------------------------- MODULE ServerTrust -----------------------------
(***************************************************************************)
(* services/scan.py and the snapshot and tool functions of                 *)
(* db/repositories.py, for one registered server: its row, its snapshots,  *)
(* its tool inventory, and the requests that scan it, approve a baseline,  *)
(* pin or revoke a tool and move the fixture's lab phase.                  *)
(*                                                                         *)
(* A request has its own session.  What it read stays in the session's     *)
(* identity map, and its UPDATE names only the columns it gave a value     *)
(* other than the one it had read.  With SQLite, the default database, a   *)
(* session that has flushed holds the write lock until it commits: what it *)
(* does from its first flush on is one step, what it read before is stale. *)
(* A request is one call, used once; it also names the snapshot row and    *)
(* the tool rows that it inserts.                                          *)
(***************************************************************************)
EXTENDS Naturals, FiniteSets

CONSTANTS
    Request, Tool, Definition,   \* Definition: a tool's definition hash
    Observation,   \* what observe_fixture may return: a listing and an identity
    Listing,       \* Listing[o][t]: the definition of t in o, or NoDefinition
    Serves,        \* Serves[n]: what the fixture shows at lab phase n
    Grave,         \* <<b, o>>: drift from b to o is graded HIGH or worse
    Exclusive,     \* no two requests on the server overlap
    NoRequest, NoDefinition, NoTool, NoObservation

ASSUME ServerAssumption ==
    /\ Listing \in [Observation -> [Tool -> Definition \union {NoDefinition}]]
    /\ Serves \in [{0, 1} -> Observation]
    /\ Grave \subseteq Observation \X Observation
    /\ Exclusive \in BOOLEAN
    /\ NoRequest \notin Request
    /\ NoDefinition \notin Definition
    /\ NoObservation \notin Observation

VARIABLES
    trust,      \* mcp_servers.trust_status
    phase,      \* mcp_servers.lab_phase
    stored,     \* tool_snapshots: the scans that inserted a row
    base,       \* those whose row has is_approved_baseline
    tools,      \* tool_definitions: tools[t], a row or NoTool
    report,     \* whether the stored scan findings report drift
    clock,      \* observations made so far
    pc,         \* pc[q]: where request q is
    got,        \* got[q]: what a scan observes
    taken,      \* taken[q]: when it did (created_at of its snapshot)
    fresh,      \* the scans whose observation differs from the latest snapshot
    chosen,     \* chosen[q]: the snapshot an approval found to be the latest
    seenTrust, seenBase, seenTools,   \* the session's identity map
    about       \* about[q]: the tool to pin or to revoke

dbvars == <<trust, phase, stored, base, tools, report>>
scanvars == <<clock, got, taken, fresh>>
seenvars == <<chosen, seenTrust, seenBase, seenTools, about>>
vars == <<trust, phase, stored, base, tools, report, pc, clock, got, taken, fresh,
          chosen, seenTrust, seenBase, seenTools, about>>

TrustStatus == {"untrusted", "pending_review", "trusted", "quarantined"}
Approval == {"pending", "approved", "revoked"}
ToolRow == [by : Request, def : Definition,
            approval : Approval, pin : Definition \union {NoDefinition}]
ToolRows == [Tool -> ToolRow \union {NoTool}]
ASSUME ToolAssumption == NoTool \notin ToolRow
PC == {"idle", "observe", "store", "approve", "pin", "revoke", "ended"}

Active(q) == pc[q] \notin {"idle", "ended"}

TypeOK ==
    /\ trust \in TrustStatus
    /\ phase \in {0, 1}
    /\ stored \subseteq Request
    /\ base \subseteq stored
    /\ tools \in ToolRows
    /\ report \in {"none", "clean", "drift"}
    /\ clock \in Nat
    /\ pc \in [Request -> PC]
    /\ got \in [Request -> Observation \union {NoObservation}]
    /\ \A q \in Request : q \in stored \/ pc[q] \in {"observe", "store"} => got[q] \in Observation
    /\ taken \in [Request -> Nat]
    /\ fresh \subseteq Request
    /\ chosen \in [Request -> Request \union {NoRequest}]
    /\ \A q \in Request : pc[q] = "approve" => chosen[q] \in stored
    /\ seenTrust \in [Request -> TrustStatus]
    /\ seenBase \in [Request -> SUBSET Request]
    /\ seenTools \in [Request -> ToolRows]
    /\ about \in [Request -> Tool \union {NoTool}]
    /\ \A q \in Request : pc[q] \in {"pin", "revoke"} => about[q] \in Tool

Init ==
    /\ trust = "untrusted" /\ phase = 0
    /\ stored = {} /\ base = {}
    /\ tools = [t \in Tool |-> NoTool]
    /\ report = "none"
    /\ clock = 0
    /\ pc = [q \in Request |-> "idle"]
    /\ got = [q \in Request |-> NoObservation]
    /\ taken = [q \in Request |-> 0]
    /\ fresh = {}
    /\ chosen = [q \in Request |-> NoRequest]
    /\ seenTrust = [q \in Request |-> "untrusted"]
    /\ seenBase = [q \in Request |-> {}]
    /\ seenTools = [q \in Request |-> [t \in Tool |-> NoTool]]
    /\ about = [q \in Request |-> NoTool]

----------------------------------------------------------------------------
(* Operators *)

Goto(q, l) == pc' = [pc EXCEPT ![q] = l]

\* With Exclusive, clients send one request at a time.
Begin(q) ==
    /\ pc[q] = "idle"
    /\ Exclusive => \A o \in Request : ~Active(o)

\* latest_snapshot over the rows of S; created_at orders them.
LatestOf(S) == CHOOSE s \in S : \A o \in S : taken[o] <= taken[s]

\* The value of a column after a session that read `read` gave it `value`.
Put(column, read, value) == IF value = read THEN column ELSE value

\* A session's UPDATE or DELETE finds the row it read.
SameRow(row, read) == row # NoTool /\ read # NoTool /\ row.by = read.by

\* A row after a session that read `read` gave it definition d, approval a and pin p.
PutRow(row, read, d, a, p) ==
    [row EXCEPT !.def = Put(@, read.def, d),
                !.approval = Put(@, read.approval, a),
                !.pin = Put(@, read.pin, p)]

NewRow(q, d) == [by |-> q, def |-> d, approval |-> "pending", pin |-> NoDefinition]

\* _pin
Pinned(row, read) == PutRow(row, read, read.def, "approved", read.def)

\* sync_tools cannot flush: a row it inserts exists, or one it updates is gone.
SyncFails(known, listing) ==
    \E t \in Tool :
        /\ listing[t] # NoDefinition
        /\ \/ known[t] = NoTool /\ tools[t] # NoTool
           \/ known[t] # NoTool /\ ~SameRow(tools[t], known[t])

----------------------------------------------------------------------------
(* Plausible bugs: mutated forms of the operators that follow.  Nothing uses *)
(* them; each one, put in its operator's place, breaks the property it is    *)
(* listed with in PROJECT.json.                                              *)

\* Only the first observation is stored.
IsNewsOnce(o) == stored = {}

\* An observation is not stored if any row, not only the latest, equals it.
IsNewsUnlessSeen(o) == \A s \in stored : got[s] # o

\* The pinned hash is not forgotten.
RevokedKeepsPin(row, read) == PutRow(row, read, read.def, "revoked", read.pin)

\* Minor drift does not cost a server its trust.
VerdictForgivesMinor(q, b, l) ==
    IF <<got[b], got[l]>> \in Grave THEN "quarantined" ELSE "trusted"

----------------------------------------------------------------------------
(* Operators with a mutated form *)

\* save_snapshot: nothing is stored that equals the latest row.
IsNews(o) == stored = {} \/ got[LatestOf(stored)] # o

\* revoke_tool
Revoked(row, read) == PutRow(row, read, read.def, "revoked", NoDefinition)

\* sync_tools, for request q that found the rows `known`.
Synced(q, known, listing) ==
    [t \in Tool |->
        IF listing[t] # NoDefinition
          THEN IF known[t] = NoTool
                 THEN NewRow(q, listing[t])
                 ELSE PutRow(tools[t], known[t], listing[t], known[t].approval, known[t].pin)
          ELSE IF SameRow(tools[t], known[t]) THEN NoTool ELSE tools[t]]

\* The status scan_server gives a server whose baseline is b and latest snapshot l.
Verdict(q, b, l) ==
    IF got[b] # got[l]
      THEN IF <<got[b], got[l]>> \in Grave THEN "quarantined" ELSE "pending_review"
      ELSE "trusted"

\* The tools approve_snapshot pins: those whose definition is the snapshot's.
ToPin(q) == {t \in Tool : /\ seenTools[q][t] # NoTool
                          /\ Listing[got[chosen[q]]][t] = seenTools[q][t].def}

----------------------------------------------------------------------------
(* Plausible bugs: mutated forms of the actions that follow. *)

\* "No drift" is also said of a server without a baseline.
ScanStoreTrustsUnapproved(q) ==
    /\ pc[q] = "store"
    /\ ~SyncFails(tools, Listing[got[q]])
    /\ stored' = IF q \in fresh THEN stored \union {q} ELSE stored
    /\ tools' = Synced(q, tools, Listing[got[q]])
    /\ report' = "clean"
    /\ trust' = Put(trust, seenTrust[q], "trusted")
    /\ Goto(q, "ended")
    /\ UNCHANGED <<phase, base, scanvars, seenvars>>

\* Without the branch at scan.py:106, a server keeps the status of an earlier drift.
ScanStoreNeverRestores(q) ==
    /\ pc[q] = "store"
    /\ ~SyncFails(tools, Listing[got[q]])
    /\ stored' = IF q \in fresh THEN stored \union {q} ELSE stored
    /\ tools' = Synced(q, tools, Listing[got[q]])
    /\ LET drifted == \E b \in base : got[b] # got[LatestOf(stored')]
       IN  /\ report' = IF drifted THEN "drift" ELSE "clean"
           /\ trust' = IF drifted THEN "pending_review" ELSE trust
    /\ Goto(q, "ended")
    /\ UNCHANGED <<phase, base, scanvars, seenvars>>

\* The loop clears the chosen row's flag too, when that was set before.
ApproveCommitClearsOwn(q) ==
    /\ pc[q] = "approve"
    /\ base' = (base \union {chosen[q]}) \ seenBase[q]
    /\ trust' = Put(trust, seenTrust[q], "trusted")
    /\ Goto(q, "ended")
    /\ UNCHANGED <<phase, stored, tools, report, scanvars, seenvars>>

\* The loop is missing: the flags of other rows stay.
ApproveCommitClearsNone(q) ==
    /\ pc[q] = "approve"
    /\ base' = base \union {chosen[q]}
    /\ trust' = Put(trust, seenTrust[q], "trusted")
    /\ Goto(q, "ended")
    /\ UNCHANGED <<phase, stored, tools, report, scanvars, seenvars>>

----------------------------------------------------------------------------
(* scan_server *)

\* It loads the server; lab_phase says what the observer will be shown.
ScanRead(q) ==
    /\ Begin(q)
    /\ seenTrust' = [seenTrust EXCEPT ![q] = trust]
    /\ got' = [got EXCEPT ![q] = Serves[phase]]
    /\ Goto(q, "observe")
    /\ UNCHANGED <<dbvars, clock, taken, fresh, chosen, seenBase, seenTools, about>>

\* The observer ran; build_snapshot stamps the result, save_snapshot compares it
\* with the latest row and, when they are equal, sync_tools loads the tool rows.
ScanObserve(q) ==
    /\ pc[q] = "observe"
    /\ clock' = clock + 1
    /\ taken' = [taken EXCEPT ![q] = clock']
    /\ fresh' = IF IsNews(got[q]) THEN fresh \union {q} ELSE fresh
    /\ seenTools' = [seenTools EXCEPT ![q] = tools]
    /\ Goto(q, "store")
    /\ UNCHANGED <<dbvars, got, chosen, seenTrust, seenBase, about>>

\* From the first flush to the commit.  A scan that inserts a snapshot loads the
\* tool rows after that flush.
ScanStore(q) ==
    LET known == IF q \in fresh THEN tools ELSE seenTools[q]
    IN  /\ pc[q] = "store"
        /\ ~SyncFails(known, Listing[got[q]])
        /\ stored' = IF q \in fresh THEN stored \union {q} ELSE stored
        /\ tools' = Synced(q, known, Listing[got[q]])
        /\ \/ /\ base = {}
              /\ report' = "clean"
              /\ UNCHANGED trust
           \/ \E b \in base :     \* approved_baseline does not order the rows
                LET l == LatestOf(stored')
                IN  /\ report' = IF got[b] # got[l] THEN "drift" ELSE "clean"
                    /\ trust' = Put(trust, seenTrust[q], Verdict(q, b, l))
        /\ Goto(q, "ended")
        /\ UNCHANGED <<phase, base, scanvars, seenvars>>

\* A scan whose sync_tools cannot flush is rolled back and answers 500.
ScanConflict(q) ==
    /\ pc[q] = "store"
    /\ SyncFails(IF q \in fresh THEN tools ELSE seenTools[q], Listing[got[q]])
    /\ Goto(q, "ended")
    /\ UNCHANGED <<dbvars, scanvars, seenvars>>

----------------------------------------------------------------------------
(* approve_baseline *)

ApproveRead(q) ==
    /\ Begin(q)
    /\ stored # {}                       \* otherwise 404: scan the server first
    /\ chosen' = [chosen EXCEPT ![q] = LatestOf(stored)]
    /\ seenTrust' = [seenTrust EXCEPT ![q] = trust]
    /\ seenBase' = [seenBase EXCEPT ![q] = base]
    /\ seenTools' = [seenTools EXCEPT ![q] = tools]
    /\ Goto(q, "approve")
    /\ UNCHANGED <<dbvars, scanvars, about>>

ApproveCommit(q) ==
    /\ pc[q] = "approve"
    /\ \A t \in ToPin(q) : SameRow(tools[t], seenTools[q][t])
    /\ base' = (base \ (seenBase[q] \ {chosen[q]}))
               \union (IF chosen[q] \in seenBase[q] THEN {} ELSE {chosen[q]})
    /\ tools' = [t \in Tool |-> IF t \in ToPin(q) THEN Pinned(tools[t], seenTools[q][t])
                                                  ELSE tools[t]]
    /\ trust' = Put(trust, seenTrust[q], "trusted")
    /\ Goto(q, "ended")
    /\ UNCHANGED <<phase, stored, report, scanvars, seenvars>>

\* An UPDATE that finds no row to pin rolls the approval back.
ApproveConflict(q) ==
    /\ pc[q] = "approve"
    /\ \E t \in ToPin(q) : ~SameRow(tools[t], seenTools[q][t])
    /\ Goto(q, "ended")
    /\ UNCHANGED <<dbvars, scanvars, seenvars>>

----------------------------------------------------------------------------
(* approve_tool, revoke_tool and the lab controls *)

\* The route loads the tool's row (404 when there is none).
ToolRead(q, t, l) ==
    /\ Begin(q)
    /\ tools[t] # NoTool
    /\ about' = [about EXCEPT ![q] = t]
    /\ seenTools' = [seenTools EXCEPT ![q] = tools]
    /\ Goto(q, l)
    /\ UNCHANGED <<dbvars, scanvars, chosen, seenTrust, seenBase>>

\* A row that is gone fails the UPDATE, or leaves nothing to update.
ToolCommit(q, l, changed) ==
    /\ pc[q] = l
    /\ tools' = IF SameRow(tools[about[q]], seenTools[q][about[q]])
                  THEN [tools EXCEPT ![about[q]] = changed] ELSE tools
    /\ Goto(q, "ended")
    /\ UNCHANGED <<trust, phase, stored, base, report, scanvars, seenvars>>

PinRead(q, t) == ToolRead(q, t, "pin")
PinCommit(q) == ToolCommit(q, "pin", Pinned(tools[about[q]], seenTools[q][about[q]]))
RevokeRead(q, t) == ToolRead(q, t, "revoke")
RevokeCommit(q) == ToolCommit(q, "revoke", Revoked(tools[about[q]], seenTools[q][about[q]]))

\* advance_lab_state and reset_lab_state each write one column of one row, so the
\* read and the write are one step.
MoveLab(q, n) ==
    /\ Begin(q)
    /\ phase' = n
    /\ Goto(q, "ended")
    /\ UNCHANGED <<trust, stored, base, tools, report, scanvars, seenvars>>

AdvanceLab(q) == MoveLab(q, 1)
ResetLab(q) == MoveLab(q, 0)

\* A request raises before its commit ("database is locked"), or its process dies.
Abort(q) ==
    /\ Active(q)
    /\ Goto(q, "ended")
    /\ UNCHANGED <<dbvars, scanvars, seenvars>>

Next ==
    \E q \in Request :
        \/ ScanRead(q) \/ ScanObserve(q) \/ ScanStore(q) \/ ScanConflict(q)
        \/ ApproveRead(q) \/ ApproveCommit(q) \/ ApproveConflict(q)
        \/ \E t \in Tool : PinRead(q, t) \/ RevokeRead(q, t)
        \/ PinCommit(q) \/ RevokeCommit(q)
        \/ AdvanceLab(q) \/ ResetLab(q)
        \/ Abort(q)

Spec == Init /\ [][Next]_vars

----------------------------------------------------------------------------
(* Properties, in any interleaving *)

\* A server that stands as trusted has an approved baseline
\* (scan.py:102-107, repositories.py:167-187).
TrustNeedsBaseline == trust = "trusted" => base # {}

\* The newest approved snapshot stays a baseline until a newer one is approved,
\* whatever flags overlapping approvals clear (repositories.py:178-180).
BaselineNeverMovesBack ==
    [][base # {} => \E b \in base' : \A o \in base : taken[o] <= taken[b]]_vars

\* Every tool row and every pin is a definition that a stored snapshot holds: the
\* inventory and the snapshots are written together (scan.py:95-96).
PinIsRecorded ==
    \A t \in Tool : tools[t] # NoTool =>
        \A d \in {tools[t].def, tools[t].pin} \ {NoDefinition} :
            \E s \in stored : Listing[got[s]][t] = d

\* A revoked tool has no pinned hash ("Withdraw approval and forget the pinned
\* hash", repositories.py:239), and an approved one has.
RevokedIsUnpinned ==
    \A t \in Tool : tools[t] # NoTool =>
        (tools[t].approval = "approved" <=> tools[t].pin # NoDefinition)

(* Properties, when requests do not overlap *)

\* "Only one baseline exists per server" (repositories.py:172).
OneBaseline == Cardinality(base) <= 1

\* A trusted server is one whose latest snapshot is what the operator approved.
TrustedIsAsApproved ==
    trust = "trusted" => \E b \in base : got[b] = got[LatestOf(stored)]

\* The inventory lists exactly what the latest snapshot holds.
InventoryIsLatest ==
    stored # {} =>
        \A t \in Tool : Listing[got[LatestOf(stored)]][t] =
                            IF tools[t] = NoTool THEN NoDefinition ELSE tools[t].def

\* Scans and approvals implement TrustWorkflow.
ObservationOf(S) == IF S = {} THEN NoObservation ELSE got[LatestOf(S)]
Workflow == INSTANCE TrustWorkflow WITH
    latest <- ObservationOf(stored), baseline <- ObservationOf(base)
ImplementsTrust == Workflow!WFSpec
=============================================================================
