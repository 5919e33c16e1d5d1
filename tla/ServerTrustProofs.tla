-------------------------- MODULE ServerTrustProofs --------------------------
(***************************************************************************)
(* Theorems about ServerTrust, for every fixture, every set of requests    *)
(* and every interleaving of them; the last ones for requests that do not  *)
(* overlap.                                                                *)
(***************************************************************************)
EXTENDS ServerTrust, FiniteSetTheorems, TLAPS

USE ServerAssumption

\* A snapshot row is stored by the last step of its scan.
StoredEnded == \A q \in stored : pc[q] = "ended"

\* Observations are dated, and no two alike.
Dated ==
    /\ \A q \in Request : taken[q] <= clock
    /\ \A q \in Request : q \in stored \/ pc[q] = "store" => taken[q] # 0
    /\ \A q, o \in Request : q # o /\ taken[q] = taken[o] => taken[q] = 0

\* The rows have a newest one, so that LatestOf chooses one of them.
HasLatest == stored # {} => \E s \in stored : \A o \in stored : taken[o] <= taken[s]

\* The baselines have a newest one.
HasNewestBase == base # {} => \E b \in base : \A o \in base : taken[o] <= taken[b]

\* What a session about to approve has read: baselines no newer than the snapshot
\* it chose, and no newer than one that is a baseline still.
Approving ==
    \A q \in Request : pc[q] = "approve" =>
        /\ seenBase[q] \subseteq stored
        /\ \A o \in seenBase[q] : taken[o] <= taken[chosen[q]]
        /\ seenBase[q] # {} => \E b \in base : \A o \in seenBase[q] : taken[o] <= taken[b]

IInv == TypeOK /\ StoredEnded /\ Dated /\ HasLatest

----------------------------------------------------------------------------
(* The operators *)

\* A columnwise update keeps a tool row well formed (the UPDATE of a session).
LEMMA PutRowTyped ==
    ASSUME NEW row \in ToolRow, NEW read \in ToolRow, NEW d \in Definition,
           NEW a \in Approval, NEW p \in Definition \union {NoDefinition}
    PROVE  PutRow(row, read, d, a, p) \in ToolRow
BY DEF PutRow, Put, ToolRow

\* latest_snapshot returns a row that is no older than any other.
LEMMA LatestIsNewest ==
    ASSUME NEW S, \E s \in S : \A o \in S : taken[o] <= taken[s]
    PROVE  LatestOf(S) \in S /\ \A o \in S : taken[o] <= taken[LatestOf(S)]
BY DEF LatestOf

\* Moving request q leaves pc well formed (every action's last conjunct).
LEMMA GotoTyped ==
    ASSUME TypeOK, NEW q \in Request, NEW l \in PC, Goto(q, l)
    PROVE  /\ pc' \in [Request -> PC]
           /\ pc'[q] = l
           /\ \A o \in Request : o # q => pc'[o] = pc[o]
BY DEF TypeOK, Goto

\* sync_tools leaves a well-formed inventory.
LEMMA SyncedTyped ==
    ASSUME TypeOK, NEW q \in Request, NEW known \in ToolRows, NEW o \in Observation,
           ~SyncFails(known, Listing[o])
    PROVE  Synced(q, known, Listing[o]) \in ToolRows
<1> DEFINE listing == Listing[o]
<1>1. listing \in [Tool -> Definition \union {NoDefinition}]
  OBVIOUS
<1> SUFFICES ASSUME NEW t \in Tool
             PROVE  Synced(q, known, listing)[t] \in ToolRow \union {NoTool}
  BY DEF Synced, ToolRows
<1>2. tools[t] \in ToolRow \union {NoTool} /\ known[t] \in ToolRow \union {NoTool}
  BY DEF TypeOK, ToolRows
<1>3. CASE listing[t] = NoDefinition
  BY <1>2, <1>3 DEF Synced
<1>4. CASE listing[t] # NoDefinition /\ known[t] = NoTool
  <2>1. NewRow(q, listing[t]) \in ToolRow
    BY <1>1, <1>4 DEF NewRow, ToolRow, Approval
  <2> QED
    BY <1>4, <2>1 DEF Synced
<1>5. CASE listing[t] # NoDefinition /\ known[t] # NoTool
  <2>1. SameRow(tools[t], known[t])
    BY <1>5 DEF SyncFails
  <2>2. tools[t] \in ToolRow /\ known[t] \in ToolRow
    BY <2>1, <1>2 DEF SameRow
  <2>3. known[t].approval \in Approval /\ known[t].pin \in Definition \union {NoDefinition}
    BY <2>2 DEF ToolRow
  <2>4. PutRow(tools[t], known[t], listing[t], known[t].approval, known[t].pin) \in ToolRow
    BY <1>1, <1>5, <2>2, <2>3, PutRowTyped
  <2> QED
    BY <1>5, <2>4 DEF Synced
<1> QED
  BY <1>3, <1>4, <1>5

\* Pinning or revoking a row leaves a row.
LEMMA PinnedTyped ==
    ASSUME NEW row \in ToolRow, NEW read \in ToolRow
    PROVE  Pinned(row, read) \in ToolRow /\ Revoked(row, read) \in ToolRow
<1>1. read.def \in Definition /\ "approved" \in Approval /\ "revoked" \in Approval
  BY DEF ToolRow, Approval
<1> QED
  BY <1>1, PutRowTyped DEF Pinned, Revoked

----------------------------------------------------------------------------
(* The inductive invariant *)

\* A session that only moves on, or reads, leaves the tables and their order.
LEMMA TablesKept ==
    ASSUME IInv, NEW q \in Request, NEW l \in PC \ {"store"}, Goto(q, l), q \notin stored \/ l = "ended",
           UNCHANGED <<stored, clock, taken>>
    PROVE  (StoredEnded /\ Dated /\ HasLatest)'
<1>1. StoredEnded'
  BY GotoTyped DEF IInv, StoredEnded, TypeOK
<1>2. Dated'
  <2>1. \A o \in Request : pc'[o] = "store" => pc[o] = "store"
    BY GotoTyped DEF IInv
  <2> QED
    BY <2>1 DEF IInv, Dated
<1>3. HasLatest'
  BY DEF IInv, HasLatest
<1> QED
  BY <1>1, <1>2, <1>3

\* A request that is still active has stored nothing.
LEMMA ActiveStoresLater ==
    ASSUME IInv, NEW q \in Request, pc[q] # "ended"
    PROVE  q \notin stored
BY DEF IInv, StoredEnded

LEMMA InitInv == Init => IInv
BY DEF Init, IInv, TypeOK, StoredEnded, Dated, HasLatest, TrustStatus, ToolRows, PC

LEMMA ScanReadKeeps ==
    ASSUME IInv, NEW q \in Request, ScanRead(q)
    PROVE  IInv'
<1>1. /\ pc' \in [Request -> PC] /\ pc'[q] = "observe"
      /\ \A o \in Request : o # q => pc'[o] = pc[o]
  BY GotoTyped DEF IInv, ScanRead, PC
<1>2. q \notin stored /\ Serves[phase] \in Observation
  BY ActiveStoresLater DEF IInv, TypeOK, ScanRead, Begin
<1>3. TypeOK'
  BY <1>1, <1>2 DEF IInv, TypeOK, ScanRead, dbvars
<1>4. (StoredEnded /\ Dated /\ HasLatest)'
  BY <1>2, TablesKept DEF ScanRead, dbvars, PC
<1> QED
  BY <1>3, <1>4 DEF IInv

LEMMA ScanObserveKeeps ==
    ASSUME IInv, NEW q \in Request, ScanObserve(q)
    PROVE  IInv'
<1>1. /\ pc' \in [Request -> PC] /\ pc'[q] = "store"
      /\ \A o \in Request : o # q => pc'[o] = pc[o]
  BY GotoTyped DEF IInv, ScanObserve, PC
<1>2. q \notin stored
  BY ActiveStoresLater DEF IInv, TypeOK, ScanObserve
<1>a. /\ taken' = [taken EXCEPT ![q] = clock + 1] /\ clock' = clock + 1
      /\ fresh' \subseteq fresh \union {q}
      /\ seenTools' = [seenTools EXCEPT ![q] = tools]
      /\ UNCHANGED <<trust, phase, stored, base, tools, report, got, chosen,
                     seenTrust, seenBase, about>>
  BY DEF ScanObserve, dbvars
<1>3. TypeOK'
  <2>1. taken' \in [Request -> Nat] /\ clock' \in Nat
    BY <1>a DEF IInv, TypeOK
  <2>2. seenTools' \in [Request -> ToolRows]
    BY <1>a DEF IInv, TypeOK
  <2>3. got[q] \in Observation
    BY DEF IInv, TypeOK, ScanObserve
  <2>4. \A o \in Request : o \in stored \/ pc'[o] \in {"observe", "store"} => got[o] \in Observation
    BY <1>1, <2>3 DEF IInv, TypeOK
  <2>5. \A o \in Request : /\ pc'[o] = "approve" => chosen[o] \in stored
                          /\ pc'[o] \in {"pin", "revoke"} => about[o] \in Tool
    BY <1>1 DEF IInv, TypeOK
  <2>6. fresh' \subseteq Request
    BY <1>a DEF IInv, TypeOK
  <2> QED
    BY <1>1, <1>a, <2>1, <2>2, <2>4, <2>5, <2>6 DEF IInv, TypeOK
<1>4. StoredEnded'
  BY <1>1, <1>2 DEF IInv, StoredEnded, ScanObserve, dbvars, TypeOK
<1>5. Dated'
  <2>1. clock' = clock + 1 /\ clock \in Nat /\ taken \in [Request -> Nat]
        /\ taken' = [taken EXCEPT ![q] = clock + 1] /\ stored' = stored
    BY DEF IInv, TypeOK, ScanObserve, dbvars
  <2>2. taken'[q] = clock + 1 /\ \A o \in Request : o # q => taken'[o] = taken[o]
    BY <2>1
  <2> QED
    BY <1>1, <1>2, <2>1, <2>2 DEF IInv, Dated
<1>6. HasLatest'
  <2>1. \A o \in stored : taken'[o] = taken[o]
    BY <1>2, <1>a DEF IInv, TypeOK
  <2>2. stored' = stored
    BY <1>a
  <2> QED
    BY <2>1, <2>2 DEF IInv, HasLatest
<1> QED
  BY <1>3, <1>4, <1>5, <1>6 DEF IInv

LEMMA ScanStoreKeeps ==
    ASSUME IInv, NEW q \in Request, ScanStore(q)
    PROVE  IInv'
<1> DEFINE known == IF q \in fresh THEN tools ELSE seenTools[q]
<1>1. /\ pc' \in [Request -> PC] /\ pc'[q] = "ended"
      /\ \A o \in Request : o # q => pc'[o] = pc[o]
  BY GotoTyped DEF IInv, ScanStore, PC
<1>2. /\ pc[q] = "store" /\ got[q] \in Observation /\ known \in ToolRows
      /\ ~SyncFails(known, Listing[got[q]])
      /\ tools' = Synced(q, known, Listing[got[q]])
      /\ stored' \in {stored, stored \union {q}}
      /\ UNCHANGED <<phase, base, clock, got, taken, fresh, chosen,
                     seenTrust, seenBase, seenTools, about>>
  BY DEF IInv, TypeOK, ScanStore, scanvars, seenvars
<1>3. tools' \in ToolRows
  BY <1>2, SyncedTyped DEF IInv
<1>4. trust' \in TrustStatus /\ report' \in {"none", "clean", "drift"}
  <2>1. CASE base = {} /\ report' = "clean" /\ UNCHANGED trust
    BY <2>1 DEF IInv, TypeOK
  <2>2. CASE \E b \in base : LET l == LatestOf(stored')
             IN  /\ report' = IF got[b] # got[l] THEN "drift" ELSE "clean"
                 /\ trust' = Put(trust, seenTrust[q], Verdict(q, b, l))
    <3>1. PICK b \in base : LET l == LatestOf(stored')
             IN  /\ report' = IF got[b] # got[l] THEN "drift" ELSE "clean"
                 /\ trust' = Put(trust, seenTrust[q], Verdict(q, b, l))
      BY <2>2
    <3>2. Verdict(q, b, LatestOf(stored')) \in TrustStatus /\ trust \in TrustStatus
      BY DEF Verdict, TrustStatus, IInv, TypeOK
    <3> QED
      BY <3>1, <3>2 DEF Put
  <2> QED
    BY <2>1, <2>2 DEF ScanStore
<1>5. TypeOK'
  BY <1>1, <1>2, <1>3, <1>4 DEF IInv, TypeOK
<1>6. StoredEnded' /\ Dated'
  BY <1>1, <1>2 DEF IInv, StoredEnded, Dated, TypeOK
<1>7. HasLatest'
  <2>1. taken' = taken /\ taken \in [Request -> Nat] /\ stored \subseteq Request
    BY <1>2 DEF IInv, TypeOK
  <2>2. CASE stored = {}
    BY <1>2, <2>1, <2>2 DEF HasLatest
  <2>3. CASE stored # {}
    <3>1. PICK s \in stored : \A o \in stored : taken[o] <= taken[s]
      BY <2>3 DEF IInv, HasLatest
    <3>2. CASE taken[s] <= taken[q]
      <4>1. \A o \in stored \union {q} : taken[o] <= taken[q]
        BY <2>1, <3>1, <3>2
      <4> QED
        BY <1>2, <2>1, <3>1, <4>1 DEF HasLatest
    <3>3. CASE taken[q] <= taken[s]
      BY <1>2, <2>1, <3>1, <3>3 DEF HasLatest
    <3> QED
      BY <2>1, <3>2, <3>3
  <2> QED
    BY <2>2, <2>3
<1> QED
  BY <1>5, <1>6, <1>7 DEF IInv

LEMMA ApproveReadKeeps ==
    ASSUME IInv, NEW q \in Request, ApproveRead(q)
    PROVE  IInv'
<1>1. /\ pc' \in [Request -> PC] /\ pc'[q] = "approve"
      /\ \A o \in Request : o # q => pc'[o] = pc[o]
  BY GotoTyped DEF IInv, ApproveRead, PC
<1>2. q \notin stored
  BY ActiveStoresLater DEF IInv, TypeOK, ApproveRead, Begin
<1>3. LatestOf(stored) \in stored
  BY LatestIsNewest DEF IInv, HasLatest, ApproveRead
<1>4. TypeOK'
  BY <1>1, <1>2, <1>3 DEF IInv, TypeOK, ApproveRead, dbvars, scanvars
<1>5. (StoredEnded /\ Dated /\ HasLatest)'
  BY <1>2, TablesKept DEF ApproveRead, dbvars, scanvars, PC
<1> QED
  BY <1>4, <1>5 DEF IInv

LEMMA ApproveCommitKeeps ==
    ASSUME IInv, NEW q \in Request, ApproveCommit(q)
    PROVE  IInv'
<1>1. /\ pc' \in [Request -> PC] /\ pc'[q] = "ended"
      /\ \A o \in Request : o # q => pc'[o] = pc[o]
  BY GotoTyped DEF IInv, ApproveCommit, PC
<1>2. chosen[q] \in stored /\ base' \subseteq stored
  BY DEF IInv, TypeOK, ApproveCommit
<1>3. tools' \in ToolRows
  <2> SUFFICES ASSUME NEW t \in Tool
               PROVE  tools'[t] \in ToolRow \union {NoTool}
    BY DEF ApproveCommit, ToolRows
  <2>1. tools[t] \in ToolRow \union {NoTool} /\ seenTools[q][t] \in ToolRow \union {NoTool}
    BY DEF IInv, TypeOK, ToolRows
  <2>2. CASE t \in ToPin(q)
    <3>1. tools[t] \in ToolRow /\ seenTools[q][t] \in ToolRow
      BY <2>1, <2>2 DEF ApproveCommit, SameRow
    <3> QED
      BY <2>2, <3>1, PinnedTyped DEF ApproveCommit
  <2>3. CASE t \notin ToPin(q)
    BY <2>1, <2>3 DEF ApproveCommit
  <2> QED
    BY <2>2, <2>3
<1>4. trust' \in TrustStatus
  BY DEF ApproveCommit, Put, TrustStatus, IInv, TypeOK
<1>5. TypeOK'
  BY <1>1, <1>2, <1>3, <1>4 DEF IInv, TypeOK, ApproveCommit, scanvars, seenvars
<1>6. (StoredEnded /\ Dated /\ HasLatest)'
  BY TablesKept DEF ApproveCommit, scanvars, PC
<1> QED
  BY <1>5, <1>6 DEF IInv

LEMMA ToolReadKeeps ==
    ASSUME IInv, NEW q \in Request, NEW t \in Tool, PinRead(q, t) \/ RevokeRead(q, t)
    PROVE  IInv'
<1>1. PICK l \in {"pin", "revoke"} : ToolRead(q, t, l)
  BY DEF PinRead, RevokeRead
<1>2. /\ pc' \in [Request -> PC] /\ pc'[q] = l
      /\ \A o \in Request : o # q => pc'[o] = pc[o]
  BY <1>1, GotoTyped DEF IInv, ToolRead, PC
<1>3. q \notin stored
  BY <1>1, ActiveStoresLater DEF IInv, TypeOK, ToolRead, Begin
<1>4. TypeOK'
  BY <1>1, <1>2, <1>3 DEF IInv, TypeOK, ToolRead, dbvars, scanvars
<1>5. (StoredEnded /\ Dated /\ HasLatest)'
  BY <1>1, <1>3, TablesKept DEF ToolRead, dbvars, scanvars, PC
<1> QED
  BY <1>4, <1>5 DEF IInv

LEMMA ToolCommitKeeps ==
    ASSUME IInv, NEW q \in Request, PinCommit(q) \/ RevokeCommit(q)
    PROVE  IInv'
<1> DEFINE row == tools[about[q]]
           read == seenTools[q][about[q]]
<1>1. /\ pc[q] \in {"pin", "revoke"} /\ Goto(q, "ended")
      /\ UNCHANGED <<trust, phase, stored, base, report, scanvars, seenvars>>
  BY DEF PinCommit, RevokeCommit, ToolCommit
<1>2. /\ pc' \in [Request -> PC] /\ pc'[q] = "ended"
      /\ \A o \in Request : o # q => pc'[o] = pc[o]
  BY <1>1, GotoTyped DEF IInv, PC
<1>3. tools' \in ToolRows
  <2>1. about[q] \in Tool /\ row \in ToolRow \union {NoTool} /\ read \in ToolRow \union {NoTool}
    BY <1>1 DEF IInv, TypeOK, ToolRows
  <2>2. CASE SameRow(row, read)
    <3>1. row \in ToolRow /\ read \in ToolRow
      BY <2>1, <2>2 DEF SameRow
    <3>2. PICK x \in ToolRow : tools' = [tools EXCEPT ![about[q]] = x]
      BY <2>2, <3>1, PinnedTyped DEF PinCommit, RevokeCommit, ToolCommit
    <3> QED
      BY <3>2 DEF IInv, TypeOK, ToolRows
  <2>3. CASE ~SameRow(row, read)
    BY <2>3 DEF PinCommit, RevokeCommit, ToolCommit, IInv, TypeOK
  <2> QED
    BY <2>2, <2>3
<1>4. TypeOK'
  BY <1>1, <1>2, <1>3 DEF IInv, TypeOK, scanvars, seenvars
<1>5. (StoredEnded /\ Dated /\ HasLatest)'
  BY <1>1, TablesKept DEF scanvars, PC
<1> QED
  BY <1>4, <1>5 DEF IInv

\* The lab controls, and the requests that end without effect.
LEMMA OthersKeep ==
    ASSUME IInv, NEW q \in Request,
           \/ ScanConflict(q) \/ ApproveConflict(q) \/ Abort(q)
           \/ AdvanceLab(q) \/ ResetLab(q)
    PROVE  IInv'
<1>1. /\ Goto(q, "ended") /\ phase' \in {0, 1}
      /\ UNCHANGED <<trust, stored, base, tools, report, scanvars, seenvars>>
  BY DEF ScanConflict, ApproveConflict, Abort, AdvanceLab, ResetLab, MoveLab, dbvars,
         IInv, TypeOK
<1>2. /\ pc' \in [Request -> PC] /\ pc'[q] = "ended"
      /\ \A o \in Request : o # q => pc'[o] = pc[o]
  BY <1>1, GotoTyped DEF IInv, PC
<1>3. TypeOK'
  BY <1>1, <1>2 DEF IInv, TypeOK, scanvars, seenvars
<1>4. (StoredEnded /\ Dated /\ HasLatest)'
  BY <1>1, TablesKept DEF scanvars, PC
<1> QED
  BY <1>3, <1>4 DEF IInv

LEMMA StepInv == IInv /\ [Next]_vars => IInv'
<1> SUFFICES ASSUME IInv, [Next]_vars
             PROVE  IInv'
  OBVIOUS
<1>1. CASE UNCHANGED vars
  BY <1>1 DEF vars, IInv, TypeOK, StoredEnded, Dated, HasLatest
<1>2. CASE Next
  <2>1. PICK q \in Request :
            \/ ScanRead(q) \/ ScanObserve(q) \/ ScanStore(q) \/ ScanConflict(q)
            \/ ApproveRead(q) \/ ApproveCommit(q) \/ ApproveConflict(q)
            \/ \E t \in Tool : PinRead(q, t) \/ RevokeRead(q, t)
            \/ PinCommit(q) \/ RevokeCommit(q)
            \/ AdvanceLab(q) \/ ResetLab(q)
            \/ Abort(q)
    BY <1>2 DEF Next
  <2> QED
    BY <2>1, ScanReadKeeps, ScanObserveKeeps, ScanStoreKeeps, ApproveReadKeeps,
       ApproveCommitKeeps, ToolReadKeeps, ToolCommitKeeps, OthersKeep
<1> QED
  BY <1>1, <1>2

LEMMA Invariant == Spec => []IInv
BY InitInv, StepInv, PTL DEF Spec

\* The type invariant (services/scan.py, db/repositories.py): every baseline is a
\* stored snapshot, and an approval under way holds one.
THEOREM TypeCorrect == Spec => []TypeOK
<1>1. IInv => TypeOK
  BY DEF IInv
<1> QED
  BY <1>1, Invariant, PTL

----------------------------------------------------------------------------
(* Baselines *)

BaseInv == HasNewestBase /\ Approving /\ TrustNeedsBaseline

\* An approval clears the flags it read as set, and none of them is newer than
\* the snapshot it sets: among the baselines before and after it, the newest is
\* one after it.
LEMMA ApprovalKeepsNewest ==
    ASSUME IInv, BaseInv, NEW q \in Request, ApproveCommit(q)
    PROVE  \E b \in base' : \A o \in base \union base' : taken[o] <= taken[b]
<1> DEFINE c == chosen[q]
<1>1. /\ c \in stored /\ seenBase[q] \subseteq stored /\ base \subseteq stored
      /\ \A o \in seenBase[q] : taken[o] <= taken[c]
  BY DEF IInv, TypeOK, BaseInv, Approving, ApproveCommit
<1>2. /\ base' \subseteq base \union {c}
      /\ \A o \in base : (o \in seenBase[q] /\ o # c) \/ o \in base'
      /\ c \notin seenBase[q] => c \in base'
  BY DEF ApproveCommit
<1>3. \A o \in stored : taken[o] \in Nat /\ taken[o] # 0
  BY DEF IInv, TypeOK, Dated
<1>4. \A o, p \in stored : taken[o] = taken[p] => o = p
  BY <1>3 DEF IInv, TypeOK, Dated
<1>5. CASE base = {}
  <2>1. c \notin seenBase[q]
    BY <1>5 DEF BaseInv, Approving, ApproveCommit
  <2> QED
    BY <1>1, <1>2, <1>3, <1>5, <2>1
<1>6. CASE base # {}
  <2>1. PICK m \in base : \A o \in base : taken[o] <= taken[m]
    BY <1>6 DEF BaseInv, HasNewestBase
  <2>2. CASE c \notin seenBase[q] /\ taken[m] <= taken[c]
    <3>1. \A o \in base : taken[o] <= taken[c]
      BY <1>1, <1>3, <2>1, <2>2
    <3> QED
      BY <1>1, <1>2, <1>3, <2>2, <3>1
  <2>3. CASE c \notin seenBase[q] /\ taken[c] < taken[m]
    <3>1. m \in base'
      BY <1>1, <1>2, <1>3, <2>3
    <3> QED
      BY <1>1, <1>2, <1>3, <2>1, <2>3, <3>1
  <2>4. CASE c \in seenBase[q]
    <3>1. PICK b \in base : \A o \in seenBase[q] : taken[o] <= taken[b]
      BY <2>4 DEF BaseInv, Approving, ApproveCommit
    <3>2. taken[c] <= taken[m]
      BY <1>1, <1>3, <2>1, <2>4, <3>1
    <3>3. m \in seenBase[q] => m = c
      <4> SUFFICES ASSUME m \in seenBase[q]
                   PROVE  m = c
        OBVIOUS
      <4>1. taken[m] <= taken[c] /\ m \in stored /\ c \in stored
        BY <1>1, <2>1
      <4>2. taken[m] \in Nat /\ taken[c] \in Nat
        BY <1>3, <4>1
      <4>3. taken[m] = taken[c]
        BY <3>2, <4>1, <4>2
      <4> QED
        BY <1>4, <4>1, <4>3
    <3>4. m \in base'
      BY <1>2, <3>3
    <3>5. \A o \in base \union base' : o \in base \/ o = c
      BY <1>2
    <3>6. \A o \in base \union base' : taken[o] <= taken[m]
      BY <2>1, <3>2, <3>5
    <3> QED
      BY <3>4, <3>6
  <2> QED
    BY <1>1, <1>3, <2>2, <2>3, <2>4
<1> QED
  BY <1>5, <1>6

\* A step that leaves the flags alone.
LEMMA FlagsKept ==
    ASSUME IInv, BaseInv, NEW q \in Request, NEW l \in PC \ {"approve"}, Goto(q, l),
           base' = base, stored \subseteq stored', seenBase' = seenBase, chosen' = chosen,
           \A o \in stored : taken'[o] = taken[o]
    PROVE  HasNewestBase' /\ Approving'
<1>1. \A o \in Request : pc'[o] = "approve" => pc[o] = "approve"
  BY GotoTyped DEF IInv
<1>2. base \subseteq stored
  BY DEF IInv, TypeOK
<1>3. HasNewestBase'
  BY <1>2 DEF BaseInv, HasNewestBase
<1>4. Approving'
  <2> SUFFICES ASSUME NEW r \in Request, pc'[r] = "approve"
               PROVE  /\ seenBase[r] \subseteq stored'
                      /\ \A o \in seenBase[r] : taken'[o] <= taken'[chosen[r]]
                      /\ seenBase[r] # {} =>
                           \E b \in base : \A o \in seenBase[r] : taken'[o] <= taken'[b]
    BY DEF Approving
  <2>1. /\ chosen[r] \in stored /\ seenBase[r] \subseteq stored
        /\ \A o \in seenBase[r] : taken[o] <= taken[chosen[r]]
        /\ seenBase[r] # {} => \E b \in base : \A o \in seenBase[r] : taken[o] <= taken[b]
    BY <1>1 DEF IInv, TypeOK, BaseInv, Approving
  <2> QED
    BY <1>2, <2>1
<1> QED
  BY <1>3, <1>4

LEMMA InitBase == Init => BaseInv
BY DEF Init, BaseInv, HasNewestBase, Approving, TrustNeedsBaseline

LEMMA StepBase ==
    ASSUME IInv, BaseInv, [Next]_vars
    PROVE  BaseInv'
<1>1. CASE UNCHANGED vars
  BY <1>1 DEF vars, BaseInv, HasNewestBase, Approving, TrustNeedsBaseline
<1>2. ASSUME NEW q \in Request, ScanRead(q)
      PROVE  BaseInv'
  BY <1>2, FlagsKept DEF ScanRead, dbvars, PC, BaseInv, TrustNeedsBaseline
<1>3. ASSUME NEW q \in Request, ScanObserve(q)
      PROVE  BaseInv'
  <2>1. q \notin stored
    BY <1>3, ActiveStoresLater DEF ScanObserve
  <2>2. \A o \in stored : taken'[o] = taken[o]
    BY <1>3, <2>1 DEF ScanObserve, IInv, TypeOK
  <2> QED
    BY <1>3, <2>2, FlagsKept DEF ScanObserve, dbvars, PC, BaseInv, TrustNeedsBaseline
<1>4. ASSUME NEW q \in Request, ScanStore(q)
      PROVE  BaseInv'
  <2>1. HasNewestBase' /\ Approving'
    BY <1>4, FlagsKept DEF ScanStore, scanvars, seenvars, PC
  <2>2. TrustNeedsBaseline'
    BY <1>4 DEF ScanStore, BaseInv, TrustNeedsBaseline
  <2> QED
    BY <2>1, <2>2 DEF BaseInv
<1>5. ASSUME NEW q \in Request, ApproveRead(q)
      PROVE  BaseInv'
  <2>1. /\ base' = base /\ stored' = stored /\ taken' = taken /\ trust' = trust
        /\ chosen' = [chosen EXCEPT ![q] = LatestOf(stored)]
        /\ seenBase' = [seenBase EXCEPT ![q] = base]
    BY <1>5 DEF ApproveRead, dbvars, scanvars
  <2>2. /\ LatestOf(stored) \in stored
        /\ \A o \in stored : taken[o] <= taken[LatestOf(stored)]
    BY <1>5, LatestIsNewest DEF IInv, HasLatest, ApproveRead
  <2>3. \A o \in Request : o # q => pc'[o] = pc[o]
    BY <1>5, GotoTyped DEF IInv, ApproveRead, PC
  <2>4. base \subseteq stored
    BY DEF IInv, TypeOK
  <2>5. Approving'
    <3> SUFFICES ASSUME NEW r \in Request, pc'[r] = "approve"
                 PROVE  /\ seenBase'[r] \subseteq stored
                        /\ \A o \in seenBase'[r] : taken[o] <= taken[chosen'[r]]
                        /\ seenBase'[r] # {} =>
                             \E b \in base : \A o \in seenBase'[r] : taken[o] <= taken[b]
      BY <2>1 DEF Approving
    <3>1. CASE r = q
      <4>1. seenBase'[r] = base /\ chosen'[r] = LatestOf(stored)
        BY <2>1, <3>1 DEF IInv, TypeOK
      <4> QED
        BY <2>2, <2>4, <4>1 DEF BaseInv, HasNewestBase
    <3>2. CASE r # q
      <4>1. seenBase'[r] = seenBase[r] /\ chosen'[r] = chosen[r] /\ pc[r] = "approve"
        BY <2>1, <2>3, <3>2 DEF IInv, TypeOK
      <4> QED
        BY <4>1 DEF BaseInv, Approving
    <3> QED
      BY <3>1, <3>2
  <2> QED
    BY <2>1, <2>5 DEF BaseInv, HasNewestBase, TrustNeedsBaseline
<1>6. ASSUME NEW q \in Request, ApproveCommit(q)
      PROVE  BaseInv'
  <2>1. PICK b \in base' : \A o \in base \union base' : taken[o] <= taken[b]
    BY <1>6, ApprovalKeepsNewest
  <2>2. /\ stored' = stored /\ taken' = taken /\ chosen' = chosen /\ seenBase' = seenBase
        /\ base \subseteq stored /\ base' \subseteq stored
    BY <1>6 DEF ApproveCommit, scanvars, seenvars, IInv, TypeOK
  <2>3. HasNewestBase' /\ TrustNeedsBaseline'
    BY <2>1, <2>2 DEF HasNewestBase, TrustNeedsBaseline
  <2>4. Approving'
    <3> SUFFICES ASSUME NEW r \in Request, pc'[r] = "approve"
                 PROVE  /\ seenBase[r] \subseteq stored
                        /\ \A o \in seenBase[r] : taken[o] <= taken[chosen[r]]
                        /\ seenBase[r] # {} => \A o \in seenBase[r] : taken[o] <= taken[b]
      BY <2>1, <2>2 DEF Approving
    <3>1. pc[r] = "approve"
      BY <1>6, GotoTyped DEF IInv, ApproveCommit, PC
    <3>2. \A o \in stored : taken[o] \in Nat
      BY DEF IInv, TypeOK
    <3>3. ASSUME seenBase[r] # {}
          PROVE  \A o \in seenBase[r] : taken[o] <= taken[b]
      <4>1. PICK d \in base : \A o \in seenBase[r] : taken[o] <= taken[d]
        BY <3>1, <3>3 DEF BaseInv, Approving
      <4>2. seenBase[r] \subseteq stored
        BY <3>1 DEF BaseInv, Approving
      <4> QED
        BY <2>1, <2>2, <3>2, <4>1, <4>2
    <3> QED
      BY <3>1, <3>3 DEF BaseInv, Approving
  <2> QED
    BY <2>3, <2>4 DEF BaseInv
<1>7. ASSUME NEW q \in Request, NEW t \in Tool, PinRead(q, t) \/ RevokeRead(q, t)
      PROVE  BaseInv'
  <2>1. PICK l \in {"pin", "revoke"} : ToolRead(q, t, l)
    BY <1>7 DEF PinRead, RevokeRead
  <2> QED
    BY <2>1, FlagsKept DEF ToolRead, dbvars, scanvars, PC, BaseInv, TrustNeedsBaseline
<1>8. ASSUME NEW q \in Request, PinCommit(q) \/ RevokeCommit(q)
      PROVE  BaseInv'
  <2>1. Goto(q, "ended") /\ UNCHANGED <<trust, stored, base, scanvars, seenvars>>
    BY <1>8 DEF PinCommit, RevokeCommit, ToolCommit
  <2> QED
    BY <2>1, FlagsKept DEF scanvars, seenvars, PC, BaseInv, TrustNeedsBaseline
<1>9. ASSUME NEW q \in Request,
             \/ ScanConflict(q) \/ ApproveConflict(q) \/ Abort(q)
             \/ AdvanceLab(q) \/ ResetLab(q)
      PROVE  BaseInv'
  <2>1. Goto(q, "ended") /\ UNCHANGED <<trust, stored, base, scanvars, seenvars>>
    BY <1>9 DEF ScanConflict, ApproveConflict, Abort, AdvanceLab, ResetLab, MoveLab, dbvars
  <2> QED
    BY <2>1, FlagsKept DEF scanvars, seenvars, PC, BaseInv, TrustNeedsBaseline
<1>10. CASE Next
  BY <1>2, <1>3, <1>4, <1>5, <1>6, <1>7, <1>8, <1>9, <1>10 DEF Next
<1> QED
  BY <1>1, <1>10

LEMMA BaseInvariant == Spec => [](IInv /\ BaseInv)
<1>1. Init => IInv /\ BaseInv
  BY InitInv, InitBase
<1>2. IInv /\ BaseInv /\ [Next]_vars => (IInv /\ BaseInv)'
  BY StepInv, StepBase
<1> QED
  BY <1>1, <1>2, PTL DEF Spec

\* A trusted server has an approved baseline, however scans and approvals overlap
\* (scan.py:102-107, repositories.py:167-187).
THEOREM TrustIsGrounded == Spec => []TrustNeedsBaseline
<1>1. BaseInv => TrustNeedsBaseline
  BY DEF BaseInv
<1> QED
  BY <1>1, BaseInvariant, PTL

\* The newest approved snapshot stays a baseline until a newer one is approved,
\* however approvals overlap (repositories.py:178-180).
THEOREM BaselineStays == Spec => BaselineNeverMovesBack
<1>1. ASSUME IInv, BaseInv, [Next]_vars, base # {}
      PROVE  \E b \in base' : \A o \in base : taken[o] <= taken[b]
  <2>1. CASE base' = base
    BY <1>1, <2>1 DEF BaseInv, HasNewestBase
  <2>2. CASE \E q \in Request : ApproveCommit(q)
    BY <1>1, <2>2, ApprovalKeepsNewest
  <2>3. base' = base \/ \E q \in Request : ApproveCommit(q)
    BY <1>1 DEF Next, vars, ScanRead, ScanObserve, ScanStore, ScanConflict, ApproveRead,
       ApproveConflict, PinRead, RevokeRead, ToolRead, PinCommit, RevokeCommit, ToolCommit,
       AdvanceLab, ResetLab, MoveLab, Abort, dbvars
  <2> QED
    BY <2>1, <2>2, <2>3
<1>2. IInv /\ BaseInv /\ [Next]_vars =>
        [base # {} => \E b \in base' : \A o \in base : taken[o] <= taken[b]]_vars
  BY <1>1
<1> QED
  BY <1>2, BaseInvariant, PTL DEF Spec, BaselineNeverMovesBack

----------------------------------------------------------------------------
(* What the inventory holds was recorded *)

\* A stored snapshot holds definition d of tool t.
Recorded(t, d) == \E s \in stored : Listing[got[s]][t] = d

\* A row, as stored or as a session has read it.
RowRecorded(t, row) ==
    row # NoTool => /\ Recorded(t, row.def)
                    /\ row.pin # NoDefinition => Recorded(t, row.pin)

RecInv ==
    /\ \A t \in Tool : RowRecorded(t, tools[t])
    /\ \A q \in Request, t \in Tool : RowRecorded(t, seenTools[q][t])
    /\ \A q \in Request : pc[q] = "store" /\ q \notin fresh => \E s \in stored : got[s] = got[q]

\* Snapshots are never removed or rewritten (save_snapshot only inserts).
LEMMA SnapshotsStay ==
    ASSUME IInv, [Next]_vars
    PROVE  stored \subseteq stored' /\ \A s \in stored : got'[s] = got[s]
<1>1. ASSUME NEW q \in Request, ScanRead(q)
      PROVE  stored \subseteq stored' /\ \A s \in stored : got'[s] = got[s]
  <2>1. q \notin stored
    BY <1>1, ActiveStoresLater DEF ScanRead, Begin
  <2> QED BY <1>1, <2>1 DEF ScanRead, dbvars, IInv, TypeOK
<1>2. ASSUME NEW q \in Request, ScanStore(q)
      PROVE  stored \subseteq stored' /\ \A s \in stored : got'[s] = got[s]
  BY <1>2 DEF ScanStore, scanvars
<1>3. ASSUME NEW q \in Request,
             \/ ScanObserve(q) \/ ScanConflict(q) \/ ApproveRead(q) \/ ApproveCommit(q)
             \/ ApproveConflict(q) \/ Abort(q) \/ AdvanceLab(q) \/ ResetLab(q)
             \/ PinCommit(q) \/ RevokeCommit(q)
             \/ \E t \in Tool : PinRead(q, t) \/ RevokeRead(q, t)
      PROVE  stored' = stored /\ got' = got
  BY <1>3 DEF ScanObserve, ScanConflict, ApproveRead, ApproveCommit, ApproveConflict, Abort,
              AdvanceLab, ResetLab, MoveLab, PinCommit, RevokeCommit, ToolCommit, PinRead,
              RevokeRead, ToolRead, dbvars, scanvars
<1>4. CASE UNCHANGED vars
  BY <1>4 DEF vars
<1> QED BY <1>1, <1>2, <1>3, <1>4 DEF Next

LEMMA RecordedStays ==
    ASSUME IInv, [Next]_vars, NEW t \in Tool
    PROVE  /\ \A d : Recorded(t, d) => Recorded(t, d)'
           /\ \A row : RowRecorded(t, row) =>
                 (row # NoTool => /\ Recorded(t, row.def)'
                                  /\ row.pin # NoDefinition => Recorded(t, row.pin)')
BY SnapshotsStay DEF Recorded, RowRecorded

\* What a scan writes is in the snapshot it inserts, or in one that was there.
LEMMA ScanRecords ==
    ASSUME IInv, RecInv, NEW q \in Request, ScanStore(q), NEW t \in Tool
    PROVE  RowRecorded(t, tools[t])'
<1> DEFINE known == IF q \in fresh THEN tools ELSE seenTools[q]
           listing == Listing[got[q]]
<1>1. /\ tools' = Synced(q, known, listing) /\ ~SyncFails(known, listing)
      /\ got' = got /\ q \in Request /\ known \in ToolRows
      /\ \E s \in stored' : got[s] = got[q]
  BY DEF ScanStore, scanvars, IInv, TypeOK, RecInv
<1>2. listing[t] # NoDefinition => Recorded(t, listing[t])'
  BY <1>1 DEF Recorded
<1>3. /\ tools[t] \in ToolRow \union {NoTool} /\ known[t] \in ToolRow \union {NoTool}
      /\ tools' \in ToolRows
  BY <1>1, ScanStoreKeeps DEF IInv, TypeOK, ToolRows
<1>4. ScanStore(q) => [Next]_vars
  BY DEF Next
<1>5. ASSUME NEW row, RowRecorded(t, row), row # NoTool,
             tools'[t].def \in {row.def, listing[t]}, tools'[t].pin = row.pin,
             tools'[t].def = listing[t] => listing[t] # NoDefinition \/ listing[t] = row.def
      PROVE  RowRecorded(t, tools[t])'
  <2>1. Recorded(t, row.def)' /\ (row.pin # NoDefinition => Recorded(t, row.pin)')
    BY <1>4, <1>5, RecordedStays
  <2> QED BY <1>1, <1>2, <1>5, <2>1 DEF RowRecorded
<1>6. CASE listing[t] = NoDefinition
  <2>1. tools'[t] \in {NoTool, tools[t]}
    BY <1>1, <1>6 DEF Synced
  <2>2. CASE tools'[t] = NoTool
    BY <2>2 DEF RowRecorded
  <2>3. CASE tools'[t] = tools[t] /\ tools[t] # NoTool
    BY <1>5, <2>3 DEF RecInv
  <2> QED BY <2>1, <2>2, <2>3
<1>7. CASE listing[t] # NoDefinition /\ known[t] = NoTool
  <2>1. tools'[t] = NewRow(q, listing[t])
    BY <1>1, <1>7 DEF Synced
  <2> QED BY <1>1, <1>2, <1>7, <2>1 DEF RowRecorded, NewRow
<1>8. CASE listing[t] # NoDefinition /\ known[t] # NoTool
  <2>1. tools[t] # NoTool
    BY <1>1, <1>8 DEF SyncFails, SameRow
  <2>2. tools'[t] = PutRow(tools[t], known[t], listing[t], known[t].approval, known[t].pin)
    BY <1>1, <1>8 DEF Synced
  <2>3. tools'[t].def \in {tools[t].def, listing[t]} /\ tools'[t].pin = tools[t].pin
    BY <1>3, <2>1, <2>2 DEF PutRow, Put, ToolRow
  <2> QED BY <1>5, <1>8, <2>1, <2>3 DEF RecInv
<1> QED BY <1>6, <1>7, <1>8

\* Pinning a row writes a definition that its session has read; revoking writes none.
LEMMA PinRecords ==
    ASSUME NEW t \in Tool, NEW row \in ToolRow, NEW read \in ToolRow,
           RowRecorded(t, row), RowRecorded(t, read), row # NoTool, read # NoTool
    PROVE  RowRecorded(t, Pinned(row, read)) /\ RowRecorded(t, Revoked(row, read))
<1>1. /\ Pinned(row, read).def = row.def /\ Revoked(row, read).def = row.def
      /\ Pinned(row, read).pin \in {row.pin, read.def}
      /\ Revoked(row, read).pin \in {row.pin, NoDefinition}
  BY DEF Pinned, Revoked, PutRow, Put, ToolRow
<1> QED BY <1>1 DEF RowRecorded

LEMMA StepRec ==
    ASSUME IInv, RecInv, [Next]_vars
    PROVE  RecInv'
<1>1. IInv'
  BY StepInv
<1>2. ASSUME NEW t \in Tool, NEW row, RowRecorded(t, row)
      PROVE  row # NoTool => /\ Recorded(t, row.def)'
                             /\ row.pin # NoDefinition => Recorded(t, row.pin)'
  BY <1>2, RecordedStays
<1>3. \A t \in Tool : RowRecorded(t, tools[t])'
  <2> SUFFICES ASSUME NEW t \in Tool PROVE RowRecorded(t, tools[t])'
    OBVIOUS
  <2>1. ASSUME NEW row, RowRecorded(t, row), tools'[t] = row PROVE RowRecorded(t, tools[t])'
    BY <1>2, <2>1 DEF RowRecorded
  <2>2. ASSUME NEW q \in Request, ApproveCommit(q) PROVE RowRecorded(t, tools[t])'
    <3>1. tools'[t] = IF t \in ToPin(q) THEN Pinned(tools[t], seenTools[q][t]) ELSE tools[t]
      BY <2>2 DEF ApproveCommit
    <3>2. t \in ToPin(q) => SameRow(tools[t], seenTools[q][t])
      BY <2>2 DEF ApproveCommit
    <3>3. tools[t] \in ToolRow \union {NoTool} /\ seenTools[q][t] \in ToolRow \union {NoTool}
      BY DEF IInv, TypeOK, ToolRows
    <3>4. CASE t \in ToPin(q)
      <4>1. RowRecorded(t, Pinned(tools[t], seenTools[q][t]))
        BY <3>2, <3>3, <3>4, PinRecords DEF SameRow, RecInv
      <4> QED BY <2>1, <3>1, <3>4, <4>1
    <3>5. CASE t \notin ToPin(q)
      BY <2>1, <3>1, <3>5 DEF RecInv
    <3> QED BY <3>4, <3>5
  <2>3. ASSUME NEW q \in Request, PinCommit(q) \/ RevokeCommit(q) PROVE RowRecorded(t, tools[t])'
    <3> DEFINE a == about[q]
    <3>0. a \in Tool
      BY <2>3 DEF PinCommit, RevokeCommit, ToolCommit, IInv, TypeOK
    <3>1. PICK changed \in {Pinned(tools[a], seenTools[q][a]), Revoked(tools[a], seenTools[q][a])} :
             tools' = IF SameRow(tools[a], seenTools[q][a])
                      THEN [tools EXCEPT ![a] = changed] ELSE tools
      BY <2>3 DEF PinCommit, RevokeCommit, ToolCommit
    <3>2. tools[t] \in ToolRow \union {NoTool} /\ seenTools[q][t] \in ToolRow \union {NoTool}
          /\ DOMAIN tools = Tool
      BY DEF IInv, TypeOK, ToolRows
    <3>3. CASE t = a /\ SameRow(tools[a], seenTools[q][a])
      <4>1. tools'[t] = changed
        BY <3>1, <3>2, <3>3
      <4>2. RowRecorded(t, changed)
        BY <3>1, <3>2, <3>3, PinRecords DEF SameRow, RecInv
      <4> QED BY <2>1, <4>1, <4>2
    <3>4. CASE ~(t = a /\ SameRow(tools[a], seenTools[q][a]))
      <4>1. tools'[t] = tools[t]
        BY <3>1, <3>2, <3>4
      <4> QED BY <2>1, <4>1 DEF RecInv
    <3> QED BY <3>3, <3>4
  <2>4. ASSUME NEW q \in Request,
               \/ ScanRead(q) \/ ScanObserve(q) \/ ScanConflict(q) \/ ApproveRead(q)
               \/ ApproveConflict(q) \/ Abort(q) \/ AdvanceLab(q) \/ ResetLab(q)
               \/ \E u \in Tool : PinRead(q, u) \/ RevokeRead(q, u)
        PROVE  tools' = tools
    BY <2>4 DEF ScanRead, ScanObserve, ScanConflict, ApproveRead, ApproveConflict, Abort,
                AdvanceLab, ResetLab, MoveLab, PinRead, RevokeRead, ToolRead, dbvars
  <2>5. CASE UNCHANGED vars \/ tools' = tools
    BY <2>1, <2>5 DEF vars, RecInv
  <2> QED BY <2>2, <2>3, <2>4, <2>5, ScanRecords DEF Next
<1>4. \A q \in Request, t \in Tool : RowRecorded(t, seenTools[q][t])'
  <2> SUFFICES ASSUME NEW q \in Request, NEW t \in Tool PROVE RowRecorded(t, seenTools[q][t])'
    OBVIOUS
  <2>1. seenTools' = seenTools \/ \E o \in Request : seenTools' = [seenTools EXCEPT ![o] = tools]
    BY DEF Next, vars, ScanRead, ScanObserve, ScanStore, ScanConflict, ApproveRead, ApproveCommit,
           ApproveConflict, Abort, AdvanceLab, ResetLab, MoveLab, PinRead, RevokeRead, ToolRead,
           PinCommit, RevokeCommit, ToolCommit, seenvars
  <2>2. seenTools'[q][t] \in {seenTools[q][t], tools[t]}
    BY <2>1 DEF IInv, TypeOK
  <2> QED BY <1>2, <2>2 DEF RowRecorded, RecInv
<1>5. \A q \in Request : pc'[q] = "store" /\ q \notin fresh' => \E s \in stored' : got'[s] = got'[q]
  <2> SUFFICES ASSUME NEW q \in Request, pc'[q] = "store", q \notin fresh'
               PROVE  \E s \in stored' : got'[s] = got'[q]
    OBVIOUS
  <2>1. CASE pc[q] = "store" /\ q \notin fresh /\ got'[q] = got[q]
    BY <2>1, SnapshotsStay DEF RecInv
  <2>2. CASE ScanObserve(q)
    <3>1. stored # {} /\ got[LatestOf(stored)] = got[q] /\ got' = got /\ stored' = stored
      BY <2>2 DEF ScanObserve, IsNews, dbvars
    <3>2. LatestOf(stored) \in stored
      BY <3>1, LatestIsNewest DEF IInv, HasLatest
    <3> QED BY <3>1, <3>2
  <2>3. ScanObserve(q) \/ (pc[q] = "store" /\ q \notin fresh /\ got'[q] = got[q])
    <3> USE DEF Goto, IInv, TypeOK
    <3>1. CASE UNCHANGED vars
      BY <3>1 DEF vars
    <3>2. ASSUME NEW o \in Request, ScanRead(o)
          PROVE  pc[q] = "store" /\ q \notin fresh /\ got'[q] = got[q]
      BY <3>2 DEF ScanRead, Begin
    <3>3. ASSUME NEW o \in Request, ScanObserve(o)
          PROVE  ScanObserve(q) \/ (pc[q] = "store" /\ q \notin fresh /\ got'[q] = got[q])
      BY <3>3 DEF ScanObserve
    <3>4. ASSUME NEW o \in Request,
               \/ ScanStore(o) \/ ScanConflict(o) \/ ApproveRead(o) \/ ApproveCommit(o)
               \/ ApproveConflict(o) \/ Abort(o) \/ AdvanceLab(o) \/ ResetLab(o)
               \/ PinCommit(o) \/ RevokeCommit(o)
          PROVE  pc[q] = "store" /\ q \notin fresh /\ got'[q] = got[q]
      <4>1. PICK l \in {"ended", "approve"} : pc' = [pc EXCEPT ![o] = l]
        BY <3>4 DEF ScanStore, ScanConflict, ApproveRead, ApproveCommit, ApproveConflict, Abort,
                    AdvanceLab, ResetLab, MoveLab, PinCommit, RevokeCommit, ToolCommit
      <4>2. fresh' = fresh /\ got' = got
        BY <3>4 DEF ScanStore, ScanConflict, ApproveRead, ApproveCommit, ApproveConflict, Abort,
                    AdvanceLab, ResetLab, MoveLab, PinCommit, RevokeCommit, ToolCommit, scanvars
      <4> QED BY <4>1, <4>2
    <3>5. ASSUME NEW o \in Request, NEW t \in Tool, PinRead(o, t) \/ RevokeRead(o, t)
          PROVE  pc[q] = "store" /\ q \notin fresh /\ got'[q] = got[q]
      BY <3>5 DEF PinRead, RevokeRead, ToolRead, scanvars
    <3> QED BY <3>1, <3>2, <3>3, <3>4, <3>5 DEF Next
  <2> QED BY <2>1, <2>2, <2>3
<1> QED BY <1>3, <1>4, <1>5 DEF RecInv

\* No tool row and no pin holds a definition that no stored snapshot has
\* (scan.py:95-96, repositories.py:207), however requests overlap.
THEOREM PinsAreRecorded == Spec => []PinIsRecorded
<1>1. Init => RecInv
  BY DEF Init, RecInv, RowRecorded
<1>2. IInv /\ RecInv /\ [Next]_vars => RecInv'
  BY StepRec
<1>3. IInv /\ RecInv => PinIsRecorded
  BY DEF RecInv, RowRecorded, Recorded, PinIsRecorded
<1> QED BY <1>1, <1>2, <1>3, Invariant, PTL DEF Spec

----------------------------------------------------------------------------
(* Requests that do not overlap *)

\* With one request at a time, what a session has read is what is stored.
SeenIsCurrent(q) ==
    /\ pc[q] \in {"observe", "store", "approve"} => seenTrust[q] = trust
    /\ pc[q] = "store" => /\ seenTools[q] = tools
                          /\ taken[q] = clock
                          /\ q \in fresh <=> IsNews(got[q])
    /\ pc[q] = "approve" => seenBase[q] = base /\ chosen[q] = LatestOf(stored)

AloneInv ==
    /\ \A q, o \in Request : Active(q) /\ Active(o) => q = o
    /\ \A q \in Request : SeenIsCurrent(q)
    /\ \A q \in Request : pc[q] \in {"idle", "observe"} => q \notin fresh
    /\ \A b, c \in base : b = c
    /\ TrustedIsAsApproved

SInv == IInv /\ AloneInv

LEMMA InitAlone == Init => AloneInv
BY DEF Init, AloneInv, Active, SeenIsCurrent, TrustedIsAsApproved

\* Of rows with different dates, the newest is the latest.
LEMMA LatestUnique ==
    ASSUME IInv, NEW S \in SUBSET stored, NEW s \in S, \A o \in S : taken[o] <= taken[s]
    PROVE  LatestOf(S) = s
<1>1. LatestOf(S) \in S /\ taken[s] <= taken[LatestOf(S)]
  BY LatestIsNewest
<1>2. taken[s] \in Nat /\ taken[LatestOf(S)] \in Nat /\ taken[LatestOf(S)] <= taken[s]
  BY <1>1 DEF IInv, TypeOK
<1>3. s \in stored /\ LatestOf(S) \in Request /\ s \in Request
  BY <1>1 DEF IInv, TypeOK
<1>4. taken[s] = taken[LatestOf(S)] /\ taken[s] # 0
  BY <1>1, <1>2, <1>3 DEF IInv, Dated
<1> QED
  BY <1>3, <1>4 DEF IInv, Dated

\* The one baseline is the latest of the baselines.
LEMMA LatestOfOne ==
    ASSUME SInv, NEW b \in base
    PROVE  LatestOf(base) = b
<1>1. \A o \in base : taken[o] <= taken[b]
  BY DEF SInv, AloneInv, IInv, TypeOK
<1> QED
  BY <1>1, LatestUnique DEF SInv, IInv, TypeOK

\* What a scan that runs alone commits: its observation is the latest snapshot's,
\* and the status follows from it and the baseline.
LEMMA ScanAlone ==
    ASSUME SInv, NEW q \in Request, ScanStore(q)
    PROVE  /\ got[LatestOf(stored')] = got[q]
           /\ LatestOf(stored') \in stored'
           /\ stored \subseteq stored'
           /\ base = {} => trust' = trust
           /\ \A b \in base : trust' = Verdict(q, b, LatestOf(stored'))
<1>1. /\ pc[q] = "store" /\ seenTrust[q] = trust /\ taken[q] = clock
      /\ q \in fresh <=> IsNews(got[q])
  BY DEF SInv, AloneInv, SeenIsCurrent, ScanStore
<1>2. taken' = taken /\ IInv'
  BY ScanStoreKeeps DEF SInv, ScanStore, scanvars
<1>5. \A b, c \in base : b = c
  BY DEF SInv, AloneInv
<1>3. CASE q \in fresh
  <2>1. stored' = stored \union {q}
    BY <1>3 DEF ScanStore
  <2>2. \A o \in stored' : taken[o] <= taken[q]
    BY <1>1, <2>1 DEF SInv, IInv, TypeOK, Dated
  <2>3. LatestOf(stored') \in stored' /\ taken[q] <= taken[LatestOf(stored')]
    BY <2>1, <2>2, LatestIsNewest
  <2>4. LatestOf(stored') \in Request /\ taken[LatestOf(stored')] <= taken[q]
    BY <2>1, <2>2, <2>3 DEF SInv, IInv, TypeOK
  <2>5. taken[q] # 0 /\ taken[q] = taken[LatestOf(stored')]
    <3>1. taken[q] \in Nat /\ taken[LatestOf(stored')] \in Nat
      BY <2>4 DEF SInv, IInv, TypeOK
    <3>2. taken[q] = taken[LatestOf(stored')]
      BY <2>3, <2>4, <3>1
    <3> QED
      BY <1>1, <3>2 DEF SInv, IInv, Dated
  <2>6. LatestOf(stored') = q
    BY <2>4, <2>5 DEF SInv, IInv, Dated
  <2> QED
    BY <1>1, <1>5, <2>1, <2>3, <2>6 DEF ScanStore, Put
<1>4. CASE q \notin fresh
  <2>1. stored' = stored /\ stored # {} /\ got[LatestOf(stored)] = got[q]
    BY <1>1, <1>4 DEF IsNews, ScanStore
  <2>2. LatestOf(stored) \in stored
    BY <2>1, LatestIsNewest DEF SInv, IInv, HasLatest
  <2> QED
    BY <1>1, <1>5, <2>1, <2>2 DEF ScanStore, Put
<1> QED
  BY <1>3, <1>4

\* What an approval that runs alone commits: the latest snapshot is the one baseline.
LEMMA ApproveAlone ==
    ASSUME SInv, NEW q \in Request, ApproveCommit(q)
    PROVE  /\ base' = {LatestOf(stored)} /\ trust' = "trusted"
           /\ stored' = stored /\ LatestOf(stored) \in stored
<1>1. seenBase[q] = base /\ chosen[q] = LatestOf(stored) /\ seenTrust[q] = trust
      /\ chosen[q] \in stored
  BY DEF SInv, AloneInv, SeenIsCurrent, ApproveCommit, IInv, TypeOK
<1>2. base' = {chosen[q]}
  BY <1>1 DEF ApproveCommit
<1> QED
  BY <1>1, <1>2 DEF ApproveCommit, Put

\* A request that starts, or goes on, alone: no other session matters.
LEMMA MovesAlone ==
    ASSUME SInv, NEW q \in Request, NEW l \in PC, Goto(q, l),
           (Begin(q) /\ Exclusive) \/ Active(q),
           fresh' = fresh \/ (l = "store" /\ fresh' \subseteq fresh \union {q}),
           l \in {"idle", "observe"} => q \notin fresh
    PROVE  /\ \A o, p \in Request : Active(o)' /\ Active(p)' => o = p
           /\ \A o \in Request : o # q => SeenIsCurrent(o)'
           /\ l = "ended" => SeenIsCurrent(q)'
           /\ \A o \in Request : pc'[o] \in {"idle", "observe"} => o \notin fresh'
<1>1. /\ pc'[q] = l /\ \A o \in Request : o # q => pc'[o] = pc[o]
  BY GotoTyped DEF SInv, IInv
<1>2. \A o \in Request : o # q => ~Active(o) /\ ~Active(o)'
  BY <1>1 DEF SInv, AloneInv, Begin, Active
<1>3. \A o, p \in Request : Active(o)' /\ Active(p)' => o = p
  BY <1>2
<1>4. \A o \in Request : o # q => SeenIsCurrent(o)'
  BY <1>2 DEF Active, SeenIsCurrent
<1>5. l = "ended" => SeenIsCurrent(q)'
  BY <1>1 DEF SeenIsCurrent
<1>6. \A o \in Request : pc'[o] \in {"idle", "observe"} => o \notin fresh'
  BY <1>1 DEF SInv, AloneInv
<1> QED
  BY <1>3, <1>4, <1>5, <1>6

\* Dates that agree on S give S the same latest row.
LEMMA SameLatest ==
    ASSUME NEW S, NEW f, NEW g, \A o \in S : f[o] = g[o]
    PROVE  (CHOOSE s \in S : \A o \in S : f[o] <= f[s])
             = (CHOOSE s \in S : \A o \in S : g[o] <= g[s])
OBVIOUS

\* The baselines, the snapshots and the status unchanged.
LEMMA ApprovedKept ==
    ASSUME SInv, UNCHANGED <<base, stored, trust>>, \A o \in stored : taken'[o] = taken[o],
           \A o \in stored : got'[o] = got[o]
    PROVE  /\ (\A b, c \in base : b = c)'
           /\ TrustedIsAsApproved'
           /\ stored # {} => LatestOf(stored)' = LatestOf(stored) /\ LatestOf(stored) \in stored
<1>1. LatestOf(stored)' = LatestOf(stored)
  BY SameLatest DEF LatestOf
<1>2. stored # {} => LatestOf(stored) \in stored
  BY LatestIsNewest DEF SInv, IInv, HasLatest
<1>3. base \subseteq stored
  BY DEF SInv, IInv, TypeOK
<1> QED
  BY <1>1, <1>2, <1>3 DEF SInv, AloneInv, TrustedIsAsApproved

\* An ending step that leaves the snapshots, the flags and the status alone.
LEMMA EndsAlone ==
    ASSUME SInv, NEW q \in Request, Goto(q, "ended"), (Begin(q) /\ Exclusive) \/ Active(q),
           UNCHANGED <<base, stored, trust, scanvars>>
    PROVE  AloneInv'
<1>1. /\ \A o, p \in Request : Active(o)' /\ Active(p)' => o = p
      /\ \A o \in Request : SeenIsCurrent(o)'
      /\ \A o \in Request : pc'[o] \in {"idle", "observe"} => o \notin fresh'
  BY MovesAlone DEF scanvars, PC
<1>2. (\A b, c \in base : b = c)' /\ TrustedIsAsApproved'
  BY ApprovedKept DEF scanvars
<1> QED
  BY <1>1, <1>2 DEF AloneInv

LEMMA ScanReadAlone ==
    ASSUME SInv, Exclusive, NEW q \in Request, ScanRead(q)
    PROVE  AloneInv'
<1>1. /\ Begin(q) /\ Goto(q, "observe") /\ q \notin fresh /\ q \notin stored
      /\ seenTrust' = [seenTrust EXCEPT ![q] = trust]
      /\ got' = [got EXCEPT ![q] = Serves[phase]]
      /\ UNCHANGED <<trust, stored, base, fresh, taken>>
  BY DEF ScanRead, dbvars, Begin, SInv, IInv, StoredEnded, AloneInv
<1>2. /\ \A o, p \in Request : Active(o)' /\ Active(p)' => o = p
      /\ \A o \in Request : o # q => SeenIsCurrent(o)'
      /\ \A o \in Request : pc'[o] \in {"idle", "observe"} => o \notin fresh'
  BY <1>1, MovesAlone DEF PC
<1>3. SeenIsCurrent(q)'
  <2>1. pc'[q] = "observe" /\ seenTrust'[q] = trust
    BY <1>1, GotoTyped DEF SInv, IInv, TypeOK, PC
  <2> QED
    BY <1>1, <2>1 DEF SeenIsCurrent
<1>4. \A o \in stored : got'[o] = got[o] /\ taken'[o] = taken[o]
  BY <1>1 DEF SInv, IInv, TypeOK
<1>5. (\A b, c \in base : b = c)' /\ TrustedIsAsApproved'
  BY <1>1, <1>4, ApprovedKept
<1> QED
  BY <1>2, <1>3, <1>5 DEF AloneInv

LEMMA ScanObserveAlone ==
    ASSUME SInv, NEW q \in Request, ScanObserve(q)
    PROVE  AloneInv'
<1>1. /\ pc[q] = "observe" /\ Active(q) /\ Goto(q, "store") /\ q \notin fresh
      /\ q \notin stored /\ seenTrust[q] = trust
      /\ clock' = clock + 1
      /\ taken' = [taken EXCEPT ![q] = clock']
      /\ fresh' = IF IsNews(got[q]) THEN fresh \union {q} ELSE fresh
      /\ seenTools' = [seenTools EXCEPT ![q] = tools]
      /\ UNCHANGED <<trust, stored, base, tools, got, seenTrust>>
  BY DEF ScanObserve, dbvars, Active, SInv, IInv, StoredEnded, AloneInv, SeenIsCurrent
<1>2. /\ \A o, p \in Request : Active(o)' /\ Active(p)' => o = p
      /\ \A o \in Request : o # q => SeenIsCurrent(o)'
      /\ \A o \in Request : pc'[o] \in {"idle", "observe"} => o \notin fresh'
  BY <1>1, MovesAlone DEF PC
<1>3. \A o \in stored : taken'[o] = taken[o]
  BY <1>1 DEF SInv, IInv, TypeOK
<1>4. /\ (\A b, c \in base : b = c)' /\ TrustedIsAsApproved'
      /\ stored # {} => LatestOf(stored)' = LatestOf(stored)
  BY <1>1, <1>3, ApprovedKept
<1>5. SeenIsCurrent(q)'
  <2>1. pc'[q] = "store" /\ taken'[q] = clock' /\ seenTools'[q] = tools
    BY <1>1, GotoTyped DEF SInv, IInv, TypeOK, PC
  <2>2. IsNews(got[q])' <=> IsNews(got[q])
    BY <1>1, <1>4 DEF IsNews
  <2>3. q \in fresh' <=> IsNews(got[q])'
    BY <1>1, <2>2
  <2> QED
    BY <1>1, <2>1, <2>3 DEF SeenIsCurrent
<1> QED
  BY <1>2, <1>4, <1>5 DEF AloneInv

LEMMA ScanStoreAlone ==
    ASSUME SInv, NEW q \in Request, ScanStore(q)
    PROVE  AloneInv'
<1>1. /\ Active(q) /\ Goto(q, "ended")
      /\ UNCHANGED <<base, got, taken, fresh>>
  BY DEF ScanStore, scanvars, Active
<1>2. /\ \A o, p \in Request : Active(o)' /\ Active(p)' => o = p
      /\ \A o \in Request : SeenIsCurrent(o)'
      /\ \A o \in Request : pc'[o] \in {"idle", "observe"} => o \notin fresh'
  BY <1>1, MovesAlone DEF PC
<1>3. LatestOf(stored)' = LatestOf(stored')
  BY <1>1 DEF LatestOf
<1>4. TrustedIsAsApproved'
  <2> SUFFICES ASSUME trust' = "trusted"
               PROVE  \E b \in base : got[b] = got[LatestOf(stored')]
    BY <1>1, <1>3 DEF TrustedIsAsApproved
  <2>1. CASE base = {}
    BY <2>1, ScanAlone DEF SInv, AloneInv, TrustedIsAsApproved
  <2>2. CASE base # {}
    BY <2>2, ScanAlone DEF Verdict
  <2> QED
    BY <2>1, <2>2
<1> QED
  BY <1>1, <1>2, <1>4 DEF SInv, AloneInv

LEMMA ApproveReadAlone ==
    ASSUME SInv, Exclusive, NEW q \in Request, ApproveRead(q)
    PROVE  AloneInv'
<1>1. /\ Begin(q) /\ Goto(q, "approve")
      /\ chosen' = [chosen EXCEPT ![q] = LatestOf(stored)]
      /\ seenTrust' = [seenTrust EXCEPT ![q] = trust]
      /\ seenBase' = [seenBase EXCEPT ![q] = base]
      /\ UNCHANGED <<trust, stored, base, fresh, got, taken>>
  BY DEF ApproveRead, dbvars, scanvars
<1>2. /\ \A o, p \in Request : Active(o)' /\ Active(p)' => o = p
      /\ \A o \in Request : o # q => SeenIsCurrent(o)'
      /\ \A o \in Request : pc'[o] \in {"idle", "observe"} => o \notin fresh'
  BY <1>1, MovesAlone DEF PC
<1>3. (\A b, c \in base : b = c)' /\ TrustedIsAsApproved'
  BY <1>1, ApprovedKept
<1>4. LatestOf(stored)' = LatestOf(stored)
  BY <1>1 DEF LatestOf
<1>5. SeenIsCurrent(q)'
  <2>1. /\ pc'[q] = "approve" /\ seenTrust'[q] = trust /\ seenBase'[q] = base
        /\ chosen'[q] = LatestOf(stored)
    BY <1>1, GotoTyped DEF SInv, IInv, TypeOK, PC
  <2> QED
    BY <1>1, <1>4, <2>1 DEF SeenIsCurrent
<1> QED
  BY <1>2, <1>3, <1>5 DEF AloneInv

LEMMA ApproveCommitAlone ==
    ASSUME SInv, NEW q \in Request, ApproveCommit(q)
    PROVE  AloneInv'
<1>1. /\ Active(q) /\ Goto(q, "ended") /\ UNCHANGED <<stored, got, taken, fresh>>
  BY DEF ApproveCommit, scanvars, Active
<1>2. /\ \A o, p \in Request : Active(o)' /\ Active(p)' => o = p
      /\ \A o \in Request : SeenIsCurrent(o)'
      /\ \A o \in Request : pc'[o] \in {"idle", "observe"} => o \notin fresh'
  BY <1>1, MovesAlone DEF PC
<1>3. LatestOf(stored)' = LatestOf(stored)
  BY <1>1 DEF LatestOf
<1>4. (\A b, c \in base : b = c)' /\ TrustedIsAsApproved'
  BY <1>1, <1>3, ApproveAlone DEF TrustedIsAsApproved
<1> QED
  BY <1>2, <1>4 DEF AloneInv

LEMMA ToolReadAlone ==
    ASSUME SInv, Exclusive, NEW q \in Request, NEW t \in Tool, PinRead(q, t) \/ RevokeRead(q, t)
    PROVE  AloneInv'
<1>1. PICK l \in {"pin", "revoke"} : ToolRead(q, t, l)
  BY DEF PinRead, RevokeRead
<1>2. /\ Begin(q) /\ Goto(q, l) /\ UNCHANGED <<trust, stored, base, fresh, got, taken>>
  BY <1>1 DEF ToolRead, dbvars, scanvars
<1>3. /\ \A o, p \in Request : Active(o)' /\ Active(p)' => o = p
      /\ \A o \in Request : o # q => SeenIsCurrent(o)'
      /\ \A o \in Request : pc'[o] \in {"idle", "observe"} => o \notin fresh'
  BY <1>2, MovesAlone DEF PC
<1>4. SeenIsCurrent(q)'
  BY <1>2, GotoTyped DEF SeenIsCurrent, SInv, IInv, PC
<1>5. (\A b, c \in base : b = c)' /\ TrustedIsAsApproved'
  BY <1>2, ApprovedKept
<1> QED
  BY <1>3, <1>4, <1>5 DEF AloneInv

LEMMA StepAlone ==
    ASSUME SInv, Exclusive, [Next]_vars
    PROVE  AloneInv'
<1>1. CASE UNCHANGED vars
  <2>1. LatestOf(stored)' = LatestOf(stored)
    BY <1>1 DEF vars, LatestOf
  <2> QED
    BY <1>1, <2>1 DEF vars, SInv, AloneInv, Active, SeenIsCurrent, TrustedIsAsApproved, IsNews
<1>2. ASSUME NEW q \in Request, PinCommit(q) \/ RevokeCommit(q)
      PROVE  AloneInv'
  <2>1. Goto(q, "ended") /\ Active(q) /\ UNCHANGED <<trust, stored, base, scanvars>>
    BY <1>2 DEF PinCommit, RevokeCommit, ToolCommit, Active
  <2> QED
    BY <2>1, EndsAlone
<1>3. ASSUME NEW q \in Request,
             \/ ScanConflict(q) \/ ApproveConflict(q) \/ Abort(q)
             \/ AdvanceLab(q) \/ ResetLab(q)
      PROVE  AloneInv'
  <2>1. /\ Goto(q, "ended")
        /\ Begin(q) \/ Active(q)
        /\ UNCHANGED <<trust, stored, base, scanvars>>
    BY <1>3 DEF ScanConflict, ApproveConflict, Abort, AdvanceLab, ResetLab, MoveLab, dbvars, Active
  <2> QED
    BY <2>1, EndsAlone
<1>4. CASE Next
  BY <1>2, <1>3, <1>4, ScanReadAlone, ScanObserveAlone, ScanStoreAlone, ApproveReadAlone,
     ApproveCommitAlone, ToolReadAlone DEF Next
<1> QED
  BY <1>1, <1>4

LEMMA AloneInvariant ==
    ASSUME Exclusive
    PROVE  Spec => []SInv
<1>1. Init => SInv
  BY InitInv, InitAlone DEF SInv
<1>2. SInv /\ [Next]_vars => SInv'
  BY StepInv, StepAlone DEF SInv
<1> QED
  BY <1>1, <1>2, PTL DEF Spec

\* "Only one baseline exists per server" (repositories.py:172), when requests on
\* the server do not overlap.
THEOREM OneBaselineAlone ==
    ASSUME Exclusive
    PROVE  Spec => []OneBaseline
<1>1. SInv => OneBaseline
  <2> SUFFICES ASSUME SInv
               PROVE  Cardinality(base) <= 1
    BY DEF OneBaseline
  <2>1. CASE base = {}
    BY <2>1, FS_EmptySet
  <2>2. CASE base # {}
    <3>1. PICK b \in base : base = {b}
      BY <2>2 DEF SInv, AloneInv
    <3>2. Cardinality(base) = 1
      BY <3>1, FS_Singleton
    <3> QED
      BY <3>2
  <2> QED
    BY <2>1, <2>2
<1> QED
  BY <1>1, AloneInvariant, PTL

\* A trusted server's latest snapshot equals its approved baseline (scan.py:100-107),
\* when requests on the server do not overlap.
THEOREM TrustedAsApproved ==
    ASSUME Exclusive
    PROVE  Spec => []TrustedIsAsApproved
<1>1. SInv => TrustedIsAsApproved
  BY DEF SInv, AloneInv
<1> QED
  BY <1>1, AloneInvariant, PTL

\* A request that starts or goes on alone finds and leaves every other one at rest.
LEMMA OthersRest ==
    ASSUME SInv, NEW q \in Request, NEW l \in PC, Goto(q, l), (Begin(q) /\ Exclusive) \/ Active(q)
    PROVE  /\ pc'[q] = l
           /\ \A o \in Request : o # q => ~Active(o) /\ ~Active(o)'
<1>1. pc'[q] = l /\ \A o \in Request : o # q => pc'[o] = pc[o]
  BY GotoTyped DEF SInv, IInv
<1> QED BY <1>1 DEF SInv, AloneInv, Begin, Active

\* A session that is about to write tool rows has read what they hold.
RowsCurrent ==
    \A q \in Request : pc[q] \in {"store", "approve", "pin", "revoke"} => seenTools[q] = tools

LEMMA RowsStep ==
    ASSUME SInv, RowsCurrent, Exclusive, [Next]_vars
    PROVE  RowsCurrent'
<1> USE DEF PC
<1>1. ASSUME NEW q \in Request, NEW l \in PC, Goto(q, l), (Begin(q) /\ Exclusive) \/ Active(q),
             l \in {"observe", "ended"}
      PROVE  RowsCurrent'
  BY <1>1, OthersRest DEF RowsCurrent, Active
<1>2. ASSUME NEW q \in Request, NEW l \in PC, Goto(q, l), (Begin(q) /\ Exclusive) \/ Active(q),
             tools' = tools, seenTools' = [seenTools EXCEPT ![q] = tools]
      PROVE  RowsCurrent'
  <2>1. seenTools'[q] = tools
    BY <1>2 DEF SInv, IInv, TypeOK
  <2> QED BY <1>2, <2>1, OthersRest DEF RowsCurrent, Active
<1>3. ASSUME NEW q \in Request,
             \/ ScanRead(q) \/ ScanStore(q) \/ ScanConflict(q) \/ ApproveCommit(q)
             \/ ApproveConflict(q) \/ Abort(q) \/ AdvanceLab(q) \/ ResetLab(q)
             \/ PinCommit(q) \/ RevokeCommit(q)
      PROVE  RowsCurrent'
  <2>1. \E l \in {"observe", "ended"} : Goto(q, l)
    BY <1>3 DEF ScanRead, ScanStore, ScanConflict, ApproveCommit, ApproveConflict, Abort,
                AdvanceLab, ResetLab, MoveLab, PinCommit, RevokeCommit, ToolCommit
  <2>2. Begin(q) \/ Active(q)
    BY <1>3 DEF ScanRead, ScanStore, ScanConflict, ApproveCommit, ApproveConflict, Abort,
                AdvanceLab, ResetLab, MoveLab, PinCommit, RevokeCommit, ToolCommit, Active
  <2> QED BY <1>1, <2>1, <2>2
<1>4. ASSUME NEW q \in Request, ScanObserve(q)
      PROVE  RowsCurrent'
  <2>1. Goto(q, "store") /\ Active(q) /\ tools' = tools /\ seenTools' = [seenTools EXCEPT ![q] = tools]
    BY <1>4 DEF ScanObserve, Active, dbvars
  <2> QED BY <1>2, <2>1
<1>5. ASSUME NEW q \in Request, ApproveRead(q)
      PROVE  RowsCurrent'
  <2>1. Goto(q, "approve") /\ Begin(q) /\ tools' = tools /\ seenTools' = [seenTools EXCEPT ![q] = tools]
    BY <1>5 DEF ApproveRead, dbvars
  <2> QED BY <1>2, <2>1
<1>6. ASSUME NEW q \in Request, NEW t \in Tool, PinRead(q, t) \/ RevokeRead(q, t)
      PROVE  RowsCurrent'
  <2>1. PICK l \in {"pin", "revoke"} : ToolRead(q, t, l)
    BY <1>6 DEF PinRead, RevokeRead
  <2>2. Goto(q, l) /\ Begin(q) /\ tools' = tools /\ seenTools' = [seenTools EXCEPT ![q] = tools]
    BY <2>1 DEF ToolRead, dbvars
  <2> QED BY <1>2, <2>2
<1>7. CASE UNCHANGED vars
  BY <1>7 DEF vars, RowsCurrent
<1> QED BY <1>3, <1>4, <1>5, <1>6, <1>7 DEF Next

\* What the columns of a row become when its session has read it as it is.
LEMMA ColumnsAlone ==
    ASSUME NEW row \in ToolRow, NEW d \in Definition
    PROVE  LET p == Pinned(row, row)
               r == Revoked(row, row)
               u == PutRow(row, row, d, row.approval, row.pin)
           IN  /\ p \in ToolRow /\ p.def = row.def /\ p.approval = "approved" /\ p.pin = row.def
               /\ r \in ToolRow /\ r.def = row.def /\ r.approval = "revoked" /\ r.pin = NoDefinition
               /\ u \in ToolRow /\ u.def = d /\ u.approval = row.approval /\ u.pin = row.pin
<1>1. /\ row.def \in Definition /\ row.approval \in Approval /\ row.pin \in Definition \union {NoDefinition}
  BY DEF ToolRow
<1>2. Pinned(row, row) \in ToolRow /\ Revoked(row, row) \in ToolRow
  BY PinnedTyped
<1>3. PutRow(row, row, d, row.approval, row.pin) \in ToolRow
  BY <1>1, PutRowTyped
<1> QED BY <1>2, <1>3 DEF Pinned, Revoked, PutRow, Put, ToolRow

\* What a step of a request that is alone makes of the row of t: nothing, a row that a
\* scan adds, brings up to date or deletes, or one that is pinned or revoked.
LEMMA RowAlone ==
    ASSUME SInv, RowsCurrent, Exclusive, [Next]_vars, NEW t \in Tool
    PROVE  \/ /\ tools'[t] = tools[t]
              /\ \A q \in Request : ~ScanStore(q)
           \/ \E q \in Request :
                /\ ScanStore(q)
                /\ IF Listing[got[q]][t] = NoDefinition THEN tools'[t] = NoTool
                   ELSE /\ tools'[t] \in ToolRow
                        /\ tools'[t].def = Listing[got[q]][t]
                        /\ \/ tools'[t].approval = "pending" /\ tools'[t].pin = NoDefinition
                           \/ /\ tools[t] \in ToolRow
                              /\ tools'[t].approval = tools[t].approval
                              /\ tools'[t].pin = tools[t].pin
           \/ /\ \A q \in Request : ~ScanStore(q)
              /\ tools[t] \in ToolRow /\ tools'[t] \in ToolRow
              /\ tools'[t].def = tools[t].def
              /\ tools'[t].approval = "approved" <=> tools'[t].pin # NoDefinition
<1> USE ToolAssumption
<1>1. tools \in ToolRows /\ tools[t] \in ToolRow \union {NoTool}
  BY DEF SInv, IInv, TypeOK, ToolRows
<1>2. CASE \E q \in Request : ScanStore(q)
  <2>1. PICK q \in Request : ScanStore(q)
    BY <1>2
  <2>2. seenTools[q] = tools /\ got[q] \in Observation
    BY <2>1 DEF ScanStore, RowsCurrent, SInv, IInv, TypeOK
  <2>3. tools' = Synced(q, tools, Listing[got[q]])
    BY <2>1, <2>2 DEF ScanStore
  <2>4. CASE Listing[got[q]][t] = NoDefinition
    BY <1>1, <2>1, <2>3, <2>4 DEF Synced, SameRow
  <2>5. CASE Listing[got[q]][t] # NoDefinition /\ tools[t] = NoTool
    <3>1. tools'[t] = NewRow(q, Listing[got[q]][t]) /\ Listing[got[q]][t] \in Definition
      BY <2>2, <2>3, <2>5 DEF Synced
    <3> QED BY <2>1, <2>5, <3>1 DEF NewRow, ToolRow, Approval
  <2>6. CASE Listing[got[q]][t] # NoDefinition /\ tools[t] # NoTool
    <3>1. Listing[got[q]][t] \in Definition /\ tools[t] \in ToolRow
      BY <1>1, <2>2, <2>6
    <3>2. tools'[t] = PutRow(tools[t], tools[t], Listing[got[q]][t], tools[t].approval, tools[t].pin)
      BY <2>3, <2>6 DEF Synced
    <3> DEFINE u == PutRow(tools[t], tools[t], Listing[got[q]][t], tools[t].approval, tools[t].pin)
    <3>3. /\ u \in ToolRow /\ u.def = Listing[got[q]][t]
          /\ u.approval = tools[t].approval /\ u.pin = tools[t].pin
      BY <3>1, ColumnsAlone
    <3> HIDE DEF u
    <3>4. tools'[t] = u
      BY <3>2 DEF u
    <3> QED BY <2>1, <2>6, <3>3, <3>1, <3>4
  <2> QED BY <2>4, <2>5, <2>6
<1>3. CASE \A q \in Request : ~ScanStore(q)
  <2>1. ASSUME NEW q \in Request, ApproveCommit(q)
        PROVE  tools'[t] = tools[t] \/ (tools[t] \in ToolRow /\ tools'[t] = Pinned(tools[t], tools[t]))
    BY <1>1, <2>1 DEF ApproveCommit, RowsCurrent, SameRow
  <2>2. ASSUME NEW q \in Request, PinCommit(q) \/ RevokeCommit(q)
        PROVE  \/ tools'[t] = tools[t]
               \/ /\ tools[t] \in ToolRow
                  /\ tools'[t] \in {Pinned(tools[t], tools[t]), Revoked(tools[t], tools[t])}
    <3>1. seenTools[q] = tools
      BY <2>2 DEF PinCommit, RevokeCommit, ToolCommit, RowsCurrent
    <3> DEFINE a == about[q]
    <3>2. PICK changed \in {Pinned(tools[a], tools[a]), Revoked(tools[a], tools[a])} :
             tools' = IF SameRow(tools[a], tools[a]) THEN [tools EXCEPT ![a] = changed] ELSE tools
      BY <2>2, <3>1 DEF PinCommit, RevokeCommit, ToolCommit
    <3> QED BY <1>1, <3>2 DEF SameRow, ToolRows
  <2>3. ASSUME NEW q \in Request,
               \/ ScanRead(q) \/ ScanObserve(q) \/ ScanConflict(q) \/ ApproveRead(q)
               \/ ApproveConflict(q) \/ Abort(q) \/ AdvanceLab(q) \/ ResetLab(q)
               \/ \E u \in Tool : PinRead(q, u) \/ RevokeRead(q, u)
        PROVE  tools' = tools
    BY <2>3 DEF ScanRead, ScanObserve, ScanConflict, ApproveRead, ApproveConflict, Abort,
                AdvanceLab, ResetLab, MoveLab, PinRead, RevokeRead, ToolRead, dbvars
  <2>4. \/ tools'[t] = tools[t]
        \/ /\ tools[t] \in ToolRow
           /\ tools'[t] \in {Pinned(tools[t], tools[t]), Revoked(tools[t], tools[t])}
    BY <1>3, <2>1, <2>2, <2>3 DEF Next, vars
  <2>5. CASE tools[t] \in ToolRow /\ tools'[t] \in {Pinned(tools[t], tools[t]), Revoked(tools[t], tools[t])}
    <3>1. tools[t].def \in Definition
      BY <2>5 DEF ToolRow
    <3> QED BY <1>3, <2>5, <3>1, ColumnsAlone
  <2> QED BY <1>3, <2>4, <2>5
<1> QED BY <1>2, <1>3

\* A revoked tool has no pinned hash ("Withdraw approval and forget the pinned hash",
\* repositories.py:239), and an approved one has, when requests do not overlap.
THEOREM RevokedIsForgotten ==
    ASSUME Exclusive
    PROVE  Spec => []RevokedIsUnpinned
<1>1. Init => RowsCurrent /\ RevokedIsUnpinned
  BY DEF Init, RowsCurrent, RevokedIsUnpinned
<1>2. SInv /\ RowsCurrent /\ RevokedIsUnpinned /\ [Next]_vars => RowsCurrent' /\ RevokedIsUnpinned'
  <2> SUFFICES ASSUME SInv, RowsCurrent, RevokedIsUnpinned, [Next]_vars
               PROVE  RevokedIsUnpinned'
    BY RowsStep
  <2> SUFFICES ASSUME NEW t \in Tool, tools'[t] # NoTool
               PROVE  tools'[t].approval = "approved" <=> tools'[t].pin # NoDefinition
    BY DEF RevokedIsUnpinned
  <2> QED BY RowAlone, ToolAssumption DEF RevokedIsUnpinned
<1> QED BY <1>1, <1>2, AloneInvariant, PTL DEF Spec

\* The inventory lists exactly what the latest snapshot holds (scan.py:95-96), when
\* requests do not overlap.
THEOREM InventoryFollows ==
    ASSUME Exclusive
    PROVE  Spec => []InventoryIsLatest
<1>1. Init => RowsCurrent /\ InventoryIsLatest
  BY DEF Init, RowsCurrent, InventoryIsLatest
<1>2. SInv /\ RowsCurrent /\ InventoryIsLatest /\ [Next]_vars => RowsCurrent' /\ InventoryIsLatest'
  <2> SUFFICES ASSUME SInv, RowsCurrent, InventoryIsLatest, [Next]_vars
               PROVE  InventoryIsLatest'
    BY RowsStep
  <2>1. CASE \E q \in Request : ScanStore(q)
    <3>1. PICK q \in Request : ScanStore(q)
      BY <2>1
    <3>2. got[LatestOf(stored')] = got[q] /\ got' = got /\ taken' = taken
      BY <3>1, ScanAlone DEF ScanStore, scanvars
    <3>3. LatestOf(stored)' = LatestOf(stored')
      BY <3>2 DEF LatestOf
    <3>4. \A o \in Request : ScanStore(o) => o = q
      BY <3>1 DEF ScanStore, SInv, AloneInv, Active
    <3>5. ASSUME NEW t \in Tool
          PROVE  Listing[got[q]][t] = IF tools'[t] = NoTool THEN NoDefinition ELSE tools'[t].def
      BY <3>1, <3>4, RowAlone, ToolAssumption
    <3> QED BY <3>2, <3>3, <3>5 DEF InventoryIsLatest
  <2>2. CASE \A q \in Request : ~ScanStore(q)
    <3>1. stored' = stored
      BY <2>2 DEF Next, vars, ScanRead, ScanObserve, ScanConflict, ApproveRead, ApproveCommit,
             ApproveConflict, Abort, AdvanceLab, ResetLab, MoveLab, PinRead, RevokeRead, ToolRead,
             PinCommit, RevokeCommit, ToolCommit, dbvars
    <3>2. \A s \in stored : taken'[s] = taken[s]
      <4>1. ASSUME NEW q \in Request, ScanObserve(q) PROVE \A s \in stored : taken'[s] = taken[s]
        <5>1. q \notin stored
          BY <4>1, ActiveStoresLater DEF ScanObserve, SInv
        <5> QED BY <4>1, <5>1 DEF ScanObserve, SInv, IInv, TypeOK
      <4>2. CASE \A q \in Request : ~ScanObserve(q)
        <5>1. taken' = taken
          BY <4>2 DEF Next, vars, ScanRead, ScanStore, ScanConflict, ApproveRead, ApproveCommit,
               ApproveConflict, Abort, AdvanceLab, ResetLab, MoveLab, PinRead, RevokeRead, ToolRead,
               PinCommit, RevokeCommit, ToolCommit, scanvars
        <5> QED BY <5>1
      <4> QED BY <4>1, <4>2
    <3>3. LatestOf(stored)' = LatestOf(stored)
      BY <3>1, <3>2, SameLatest DEF LatestOf
    <3>4. stored # {} => /\ LatestOf(stored) \in stored
                         /\ got'[LatestOf(stored)] = got[LatestOf(stored)]
      BY LatestIsNewest, SnapshotsStay DEF SInv, IInv, HasLatest
    <3>5. ASSUME NEW t \in Tool
          PROVE  (IF tools'[t] = NoTool THEN NoDefinition ELSE tools'[t].def)
                   = (IF tools[t] = NoTool THEN NoDefinition ELSE tools[t].def)
      BY <2>2, RowAlone, ToolAssumption
    <3> QED BY <3>1, <3>3, <3>4, <3>5 DEF InventoryIsLatest
  <2> QED BY <2>1, <2>2
<1> QED BY <1>1, <1>2, AloneInvariant, PTL DEF Spec

----------------------------------------------------------------------------
(* Refinement of TrustWorkflow *)

\* What TrustWorkflow sees of a step that leaves snapshots, flags and status alone.
LEMMA WorkflowStutters ==
    ASSUME SInv, UNCHANGED <<base, stored, trust>>,
           \A o \in stored : taken'[o] = taken[o] /\ got'[o] = got[o]
    PROVE  UNCHANGED <<ObservationOf(stored), ObservationOf(base), trust>>
<1>1. base \subseteq stored
  BY DEF SInv, IInv, TypeOK
<1>2. LatestOf(stored)' = LatestOf(stored) /\ LatestOf(base)' = LatestOf(base)
  <2>1. \A o \in stored : taken'[o] = taken[o]
    OBVIOUS
  <2>2. \A o \in base : taken'[o] = taken[o]
    BY <1>1, <2>1
  <2>3. LatestOf(stored)' = LatestOf(stored)
    BY <2>1, SameLatest DEF LatestOf
  <2>4. LatestOf(base)' = LatestOf(base)
    BY <2>2, SameLatest DEF LatestOf
  <2> QED
    BY <2>3, <2>4
<1>3. stored # {} => LatestOf(stored) \in stored
  BY LatestIsNewest DEF SInv, IInv, HasLatest
<1>4. base # {} => LatestOf(base) \in base
  BY LatestOfOne
<1>5. ObservationOf(stored)' = ObservationOf(stored)
  BY <1>2, <1>3 DEF ObservationOf
<1>6. ObservationOf(base)' = ObservationOf(base)
  BY <1>1, <1>2, <1>4 DEF ObservationOf
<1> QED
  BY <1>5, <1>6

LEMMA ScanImplements ==
    ASSUME SInv, NEW q \in Request, ScanStore(q)
    PROVE  Workflow!WFScan(got[q]) /\ got[q] \in Observation
<1>1. /\ UNCHANGED <<base, got, taken>> /\ got[q] \in Observation
  BY DEF ScanStore, scanvars, SInv, IInv, TypeOK
<1>2. LatestOf(stored)' = LatestOf(stored') /\ LatestOf(base)' = LatestOf(base)
  BY <1>1 DEF LatestOf
<1>3. ObservationOf(stored)' = got[q]
  BY <1>1, <1>2, ScanAlone DEF ObservationOf
<1>4. ObservationOf(base)' = ObservationOf(base)
  BY <1>1, <1>2 DEF ObservationOf
<1>5. trust' = IF ObservationOf(base) = NoObservation THEN trust
               ELSE Workflow!Graded(ObservationOf(base), got[q])
  <2>1. CASE base = {}
    BY <2>1, ScanAlone DEF ObservationOf
  <2>2. CASE base # {}
    <3>1. PICK b \in base : TRUE
      BY <2>2
    <3>2. LatestOf(base) = b /\ ObservationOf(base) = got[b]
      BY <3>1, LatestOfOne DEF ObservationOf
    <3>3. got[b] # NoObservation
      BY <3>1 DEF SInv, IInv, TypeOK
    <3>4. trust' = Verdict(q, b, LatestOf(stored')) /\ got[LatestOf(stored')] = got[q]
      BY <3>1, ScanAlone
    <3> QED
      BY <3>2, <3>3, <3>4 DEF Verdict, Workflow!Graded
  <2> QED
    BY <2>1, <2>2
<1> QED
  BY <1>1, <1>3, <1>4, <1>5 DEF Workflow!WFScan

LEMMA ApproveImplements ==
    ASSUME SInv, NEW q \in Request, ApproveCommit(q)
    PROVE  Workflow!WFApprove
<1>1. UNCHANGED <<stored, got, taken>>
  BY DEF ApproveCommit, scanvars
<1>2. /\ base' = {LatestOf(stored)} /\ trust' = "trusted" /\ LatestOf(stored) \in stored
      /\ LatestOf(stored)' = LatestOf(stored)
  BY <1>1, ApproveAlone DEF LatestOf
<1>3. LatestOf(base)' = LatestOf(stored)
  <2>1. LatestOf(base)' \in base'
    <3>1. taken[LatestOf(stored)] \in Nat
      BY <1>2 DEF SInv, IInv, TypeOK
    <3>2. LatestOf(base') \in base'
      BY <1>2, <3>1, LatestIsNewest
    <3> QED
      BY <1>1, <3>2 DEF LatestOf
  <2> QED
    BY <1>2, <2>1
<1>4. ObservationOf(stored) = got[LatestOf(stored)] /\ ObservationOf(stored) # NoObservation
  BY <1>2 DEF ObservationOf, SInv, IInv, TypeOK
<1>5. ObservationOf(stored)' = ObservationOf(stored) /\ ObservationOf(base)' = ObservationOf(stored)
  BY <1>1, <1>2, <1>3, <1>4 DEF ObservationOf
<1> QED
  BY <1>2, <1>4, <1>5 DEF Workflow!WFApprove

\* Scans and approvals that do not overlap implement TrustWorkflow: one baseline,
\* replaced only by approving the latest snapshot, and a status that each scan
\* derives from the two (services/scan.py:88-140).
THEOREM TrustImplementsWorkflow ==
    ASSUME Exclusive
    PROVE  Spec => ImplementsTrust
<1>1. Init => Workflow!WFInit
  BY DEF Init, Workflow!WFInit, ObservationOf
<1>2. SInv /\ [Next]_vars => [Workflow!WFNext]_(Workflow!wfvars)
  <2> SUFFICES ASSUME SInv, [Next]_vars
               PROVE  Workflow!WFNext \/ UNCHANGED Workflow!wfvars
    OBVIOUS
  <2>1. CASE \E q \in Request : ScanStore(q)
    BY <2>1, ScanImplements DEF Workflow!WFNext
  <2>2. CASE \E q \in Request : ApproveCommit(q)
    BY <2>2, ApproveImplements DEF Workflow!WFNext
  <2>3. CASE \E q \in Request : ScanRead(q)
    <3>1. PICK q \in Request : ScanRead(q)
      BY <2>3
    <3>2. q \notin stored
      BY <3>1, ActiveStoresLater DEF ScanRead, Begin, SInv
    <3>3. \A o \in stored : taken'[o] = taken[o] /\ got'[o] = got[o]
      BY <3>1, <3>2 DEF ScanRead, SInv, IInv, TypeOK
    <3> QED
      BY <3>1, <3>3, WorkflowStutters DEF ScanRead, dbvars, Workflow!wfvars
  <2>4. CASE \E q \in Request : ScanObserve(q)
    <3>1. PICK q \in Request : ScanObserve(q)
      BY <2>4
    <3>2. q \notin stored
      BY <3>1, ActiveStoresLater DEF ScanObserve, SInv
    <3>3. \A o \in stored : taken'[o] = taken[o] /\ got'[o] = got[o]
      BY <3>1, <3>2 DEF ScanObserve, SInv, IInv, TypeOK
    <3> QED
      BY <3>1, <3>3, WorkflowStutters DEF ScanObserve, dbvars, Workflow!wfvars
  <2>5. CASE UNCHANGED <<base, stored, trust, taken, got>>
    BY <2>5, WorkflowStutters DEF Workflow!wfvars
  <2>6. \/ \E q \in Request : ScanStore(q) \/ ApproveCommit(q) \/ ScanRead(q) \/ ScanObserve(q)
        \/ UNCHANGED <<base, stored, trust, taken, got>>
    BY DEF Next, vars, ScanConflict, ApproveRead, ApproveConflict, PinRead, RevokeRead, ToolRead,
       PinCommit, RevokeCommit, ToolCommit, AdvanceLab, ResetLab, MoveLab, Abort, dbvars, scanvars
  <2> QED
    BY <2>1, <2>2, <2>3, <2>4, <2>5, <2>6
<1> QED
  BY <1>1, <1>2, AloneInvariant, PTL DEF Spec, ImplementsTrust, Workflow!WFSpec
=============================================================================
