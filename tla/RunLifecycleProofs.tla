-------------------------- MODULE RunLifecycleProofs --------------------------
(***************************************************************************)
(* Theorems of RunLifecycle, for every set of runs, requests and processes *)
(* and every choice of faults.                                             *)
(***************************************************************************)
EXTENDS RunLifecycle, TLAPS

\* A request that starts was idle and is now about the run it names.
LEMMA BeginEffect ==
    ASSUME NEW q, NEW r, Begin(q, r)
    PROVE  pc[q] = "idle" /\ target' = [target EXCEPT ![q] = r]
BY DEF Begin

\* Writing a row keeps the table well typed.
LEMMA WriteTyped ==
    ASSUME row \in [Run -> Row], NEW r \in Run, NEW s \in Status, NEW sum \in Summary,
           NEW c \in BOOLEAN, Write(r, s, sum, c)
    PROVE  row' \in [Run -> Row]
<1>1. [status |-> s, summary |-> sum, closed |-> c] \in Row
  BY DEF Row
<1> QED
  BY <1>1 DEF Write

\* An UPDATE of the status, with or without completed_at.
LEMMA RowUpdated ==
    ASSUME NEW x \in Row, NEW s \in Status, NEW c \in BOOLEAN
    PROVE  /\ [x EXCEPT !.status = s] \in Row
           /\ [x EXCEPT !.status = s, !.closed = c] \in Row
BY DEF Row

\* A request that moves on, its run and its event unchanged.
LEMMA GotoTyped ==
    ASSUME TypeOK, NEW q \in Request, NEW l \in PC, Goto(q, l), UNCHANGED <<target, held>>,
           l \notin {"idle", "ended", "stranded", "lost"} => target[q] \in Run,
           l = "signal" => held[q] \in Request
    PROVE  /\ pc' \in [Request -> PC]
           /\ \A o \in Request : Active(o)' => target'[o] \in Run
           /\ \A o \in Request : pc'[o] = "signal" => held'[o] \in Request
BY DEF TypeOK, Goto, Active

\* A request that starts.
LEMMA BeginTyped ==
    ASSUME TypeOK, NEW q \in Request, NEW r \in Run, NEW l \in PC, l # "signal",
           Begin(q, r), Goto(q, l), UNCHANGED held
    PROVE  /\ pc' \in [Request -> PC]
           /\ target' \in [Request -> Run \union {NoRun}]
           /\ \A o \in Request : Active(o)' => target'[o] \in Run
           /\ \A o \in Request : pc'[o] = "signal" => held'[o] \in Request
BY DEF TypeOK, Goto, Active, Begin

\* The type invariant of the service's state (services/runs.py): an active
\* request is about a run, and a cancel request that goes on to set an event
\* holds one.
THEOREM TypeCorrect == Spec => []TypeOK
<1> USE RequestAssumption DEF TypeOK
<1>1. Init => TypeOK
  BY DEF Init, Row, Status, Terminal, Summary, PC, Reply, Active
<1>2. TypeOK /\ [Next]_vars => TypeOK'
  <2> SUFFICES ASSUME TypeOK, [Next]_vars
               PROVE  TypeOK'
    OBVIOUS
  <2> USE DEF Answer, EndWith, dbvars, execvars, cancelvars
  <2>1. ASSUME NEW r \in Run, CreateRun(r) PROVE TypeOK'
    <3>1. row' \in [Run -> Row]
      BY <2>1, WriteTyped DEF CreateRun, Status, Summary
    <3> QED
      BY <2>1, <3>1 DEF CreateRun, Active
  <2>2. ASSUME NEW q \in Request, NEW r \in Run, CliCreate(q, r) PROVE TypeOK'
    <3>1. row' \in [Run -> Row]
      BY <2>2, WriteTyped DEF CliCreate, Status, Summary
    <3>2. Goto(q, "claim") /\ Begin(q, r) /\ "claim" \in PC
      BY <2>2 DEF CliCreate, PC
    <3> QED
      BY <2>2, <3>1, <3>2, BeginTyped DEF CliCreate
  <2>3. ASSUME NEW q \in Request, NEW r \in Run, ExecuteRead(q, r) PROVE TypeOK'
    <3>1. PICK l \in {"claim", "ended"} : Goto(q, l)
      BY <2>3 DEF ExecuteRead
    <3>2. reply' \in [Request -> Reply]
      BY <2>3 DEF ExecuteRead, Reply
    <3> QED
      BY <2>3, <3>1, <3>2, BeginTyped DEF ExecuteRead, PC
  <2>4. ASSUME NEW q \in Request, NEW r \in Run, CancelRead(q, r) PROVE TypeOK'
    <3>1. PICK l \in {"withdraw", "lookup", "ended"} : Goto(q, l)
      BY <2>4 DEF CancelRead
    <3>2. reply' \in [Request -> Reply]
      BY <2>4 DEF CancelRead, Reply
    <3> QED
      BY <2>4, <3>1, <3>2, BeginTyped DEF CancelRead, PC
  <2>5. ASSUME NEW q \in Request, ExecuteClaim(q) PROVE TypeOK'
    <3>1. target[q] \in Run
      BY <2>5 DEF ExecuteClaim, Active
    <3>2. [row[target[q]] EXCEPT !.status = "running"] \in Row
      BY <3>1, RowUpdated DEF Status
    <3>3. row' \in [Run -> Row]
      BY <2>5, <3>1, <3>2 DEF ExecuteClaim
    <3> QED
      BY <2>5, <3>1, <3>3, GotoTyped DEF ExecuteClaim, PC
  <2>6. ASSUME NEW q \in Request, Register(q) PROVE TypeOK'
    <3>1. target[q] \in Run
      BY <2>6 DEF Register, Active
    <3> QED
      BY <2>6, <3>1, GotoTyped DEF Register, PC, Executing, Body
  <2>7. ASSUME NEW q \in Request, LoadAndSync(q) PROVE TypeOK'
    BY <2>7, GotoTyped DEF LoadAndSync, PC, Executing, Body, Active
  <2>8. ASSUME NEW q \in Request, CaseBoundary(q) PROVE TypeOK'
    BY <2>8 DEF CaseBoundary, Active
  <2>9. ASSUME NEW q \in Request, OrchestratorReturns(q) PROVE TypeOK'
    BY <2>9, GotoTyped DEF OrchestratorReturns, PC, Executing, Body, Active
  <2>10. ASSUME NEW q \in Request, PersistOutcome(q) PROVE TypeOK'
    <3>1. row' \in [Run -> Row] /\ target[q] \in Run
      BY <2>10, WriteTyped DEF PersistOutcome, Status, Terminal, Summary, Active
    <3>2. outcomes' \in [Run -> Nat] /\ reply' \in [Request -> Reply]
      BY <2>10, <3>1 DEF PersistOutcome, Reply
    <3> QED
      BY <2>10, <3>1, <3>2, GotoTyped DEF PersistOutcome, PC, Executing
  <2>11. ASSUME NEW q \in Request, MarkFailed(q) PROVE TypeOK'
    <3>1. row' \in [Run -> Row] /\ target[q] \in Run
      BY <2>11, WriteTyped DEF MarkFailed, Status, Terminal, Summary, Active
    <3> QED
      BY <2>11, <3>1, GotoTyped DEF MarkFailed, PC, Executing, Reply
  <2>12. ASSUME NEW q \in Request, Release(q) PROVE TypeOK'
    BY <2>12, GotoTyped DEF Release, PC
  <2>13. ASSUME NEW q \in Request, Withdraw(q) PROVE TypeOK'
    <3>1. target[q] \in Run
      BY <2>13 DEF Withdraw, Active
    <3>2. [row[target[q]] EXCEPT !.status = "cancelled", !.closed = TRUE] \in Row
      BY <3>1, RowUpdated DEF Status, Terminal
    <3>3. row' \in [Run -> Row]
      BY <2>13, <3>1, <3>2 DEF Withdraw
    <3> QED
      BY <2>13, <3>3, GotoTyped DEF Withdraw, PC, Reply
  <2>14. ASSUME NEW q \in Request, Lookup(q) PROVE TypeOK'
    <3> DEFINE event == registry[Home[q]][target[q]]
    <3>1. event \in Request \union {NoEvent} /\ target[q] \in Run
      BY <2>14 DEF Lookup, Active
    <3>2. CASE event = NoEvent
      BY <2>14, <3>2, GotoTyped DEF Lookup, PC, Reply
    <3>3. CASE event # NoEvent
      <4>1. held' = [held EXCEPT ![q] = event] /\ Goto(q, "signal") /\ event \in Request
        BY <2>14, <3>1, <3>3 DEF Lookup
      <4>2. UNCHANGED <<dbvars, registry, target, execvars, isset, owed, reply>>
        BY <2>14, <3>3 DEF Lookup
      <4> QED
        BY <3>1, <4>1, <4>2 DEF Goto, PC, Active
    <3> QED
      BY <3>2, <3>3
  <2>15. ASSUME NEW q \in Request, Signal(q) PROVE TypeOK'
    <3>1. held[q] \in Request
      BY <2>15 DEF Signal
    <3> QED
      BY <2>15, <3>1, GotoTyped DEF Signal, PC, Reply
  <2>16. ASSUME NEW q \in Request, Fault(q) PROVE TypeOK'
    <3>1. CASE Raise(q)
      BY <3>1, GotoTyped DEF Raise, PC, Executing, Body, Active
    <3>2. CASE ExecuteClaimFails(q)
      BY <3>2, GotoTyped DEF ExecuteClaimFails, PC, Reply
    <3>3. CASE MarkFailedFails(q)
      BY <3>3, GotoTyped DEF MarkFailedFails, PC, Executing, Reply, Active
    <3>4. CASE WithdrawFails(q)
      BY <3>4, GotoTyped DEF WithdrawFails, PC, Reply
    <3> QED
      BY <2>16, <3>1, <3>2, <3>3, <3>4 DEF Fault
  <2>17. ASSUME NEW p \in Process, Crash(p) PROVE TypeOK'
    BY <2>17 DEF Crash, Active, PC
  <2>18. CASE UNCHANGED vars
    BY <2>18 DEF vars, Active
  <2> QED
    BY <2>1, <2>2, <2>3, <2>4, <2>5, <2>6, <2>7, <2>8, <2>9, <2>10, <2>11, <2>12,
       <2>13, <2>14, <2>15, <2>16, <2>17, <2>18 DEF Next, Arrive, Execute, Cancel
<1> QED
  BY <1>1, <1>2, PTL DEF Spec

----------------------------------------------------------------------------
(* Which actions touch which variables *)

LEMMA RowFrame ==
    ASSUME [Next]_vars
    PROVE  \/ UNCHANGED dbvars
           \/ \E r \in Run : CreateRun(r)
           \/ \E q \in Request, r \in Run : CliCreate(q, r)
           \/ \E q \in Request : ExecuteClaim(q) \/ PersistOutcome(q) \/ MarkFailed(q) \/ Withdraw(q)
<1>1. ASSUME NEW q \in Request, NEW r \in Run, ExecuteRead(q, r) \/ CancelRead(q, r)
      PROVE  UNCHANGED dbvars
  BY <1>1 DEF ExecuteRead, CancelRead
<1>2. ASSUME NEW q \in Request,
             \/ Register(q) \/ LoadAndSync(q) \/ CaseBoundary(q)
             \/ OrchestratorReturns(q) \/ Release(q)
      PROVE  UNCHANGED dbvars
  BY <1>2 DEF Register, LoadAndSync, CaseBoundary, OrchestratorReturns, Release
<1>3. ASSUME NEW q \in Request, Lookup(q) \/ Signal(q) \/ Fault(q)
      PROVE  UNCHANGED dbvars
  BY <1>3 DEF Lookup, Signal, Fault, ExecuteClaimFails, Raise, MarkFailedFails, WithdrawFails
<1>4. ASSUME NEW p \in Process, Crash(p)
      PROVE  UNCHANGED dbvars
  BY <1>4 DEF Crash
<1>5. ASSUME UNCHANGED vars
      PROVE  UNCHANGED dbvars
  BY <1>5 DEF vars, dbvars
<1> QED
  BY <1>1, <1>2, <1>3, <1>4, <1>5 DEF Next, Arrive, Execute, Cancel

LEMMA SignalFrame ==
    ASSUME [Next]_vars
    PROVE  \/ UNCHANGED <<visited, saw, isset, owed>>
           \/ \E q \in Request : CaseBoundary(q) \/ Signal(q)
<1> DEFINE Same == UNCHANGED <<visited, saw, isset, owed>>
<1>1. ASSUME NEW q \in Request, Arrive(q)
      PROVE  Same
  BY <1>1 DEF Arrive, CliCreate, ExecuteRead, CancelRead, execvars, cancelvars
<1>2. ASSUME NEW q \in Request,
             \/ ExecuteClaim(q) \/ Register(q) \/ LoadAndSync(q)
             \/ OrchestratorReturns(q) \/ PersistOutcome(q) \/ MarkFailed(q) \/ Release(q)
      PROVE  Same
  BY <1>2 DEF ExecuteClaim, Register, LoadAndSync, OrchestratorReturns, PersistOutcome,
              MarkFailed, Release, execvars, cancelvars
<1>3. ASSUME NEW q \in Request, Withdraw(q) \/ Lookup(q) \/ Fault(q)
      PROVE  Same
  BY <1>3 DEF Withdraw, Lookup, Fault, ExecuteClaimFails, Raise, MarkFailedFails, WithdrawFails,
              execvars, cancelvars
<1>4. ASSUME NEW r \in Run, CreateRun(r)
      PROVE  Same
  BY <1>4 DEF CreateRun, execvars, cancelvars
<1>5. ASSUME NEW p \in Process, Crash(p)
      PROVE  Same
  BY <1>5 DEF Crash, execvars, cancelvars
<1>6. ASSUME UNCHANGED vars
      PROVE  Same
  BY <1>6 DEF vars
<1> HIDE DEF Same
<1>7. Same \/ \E q \in Request : CaseBoundary(q) \/ Signal(q)
  BY <1>1, <1>2, <1>3, <1>4, <1>5, <1>6 DEF Next, Execute, Cancel
<1> QED
  BY <1>7 DEF Same

----------------------------------------------------------------------------
(* Properties of every interleaving *)

\* A signal that arrives while a pair is left is seen: what was signalled in
\* time is set, so the next boundary finds it (orchestrator.py:163-168).
HeedInv == owed \subseteq isset /\ SignalIsHeeded

THEOREM SignalHeeded == Spec => []SignalIsHeeded
<1>1. Init => HeedInv
  BY DEF Init, HeedInv, SignalIsHeeded
<1>2. TypeOK /\ HeedInv /\ [Next]_vars => HeedInv'
  <2> SUFFICES ASSUME TypeOK, HeedInv, [Next]_vars
               PROVE  HeedInv'
    OBVIOUS
  <2> USE DEF HeedInv, SignalIsHeeded
  <2>1. CASE UNCHANGED <<visited, saw, isset, owed>>
    BY <2>1
  <2>2. ASSUME NEW q \in Request, CaseBoundary(q) PROVE HeedInv'
    <3>1. UNCHANGED <<isset, owed>> /\ saw \subseteq saw'
      BY <2>2 DEF CaseBoundary, cancelvars
    <3>2. q \in owed => q \in saw'
      BY <2>2 DEF CaseBoundary
    <3>3. \A o \in Request : o # q => visited'[o] = visited[o]
      BY <2>2 DEF CaseBoundary, TypeOK
    <3> QED
      BY <3>1, <3>2, <3>3 DEF TypeOK
  <2>3. ASSUME NEW q \in Request, Signal(q) PROVE HeedInv'
    <3>1. UNCHANGED <<visited, saw>> /\ isset' = isset \union {held[q]}
      BY <2>3 DEF Signal, execvars
    <3>2. owed' = owed \/ (owed' = owed \union {held[q]} /\ visited[held[q]] < Pairs)
      BY <2>3 DEF Signal
    <3>3. held[q] \in Request /\ visited[held[q]] \in Nat /\ Pairs \in Nat
      BY <2>3, RequestAssumption DEF Signal, TypeOK
    <3> QED
      BY <3>1, <3>2, <3>3
  <2> QED
    BY <2>1, <2>2, <2>3, SignalFrame
<1> QED
  BY <1>1, <1>2, TypeCorrect, PTL DEF Spec, HeedInv

\* Status, summary and evidence of a finished run agree (runs.py:135-141,
\* 201-212), whatever interleaves and whatever fails.
THEOREM OutcomeWhole == Spec => []OutcomeIsWhole
<1>1. Init => OutcomeIsWhole
  BY DEF Init, OutcomeIsWhole
<1>2. TypeOK /\ OutcomeIsWhole /\ [Next]_vars => OutcomeIsWhole'
  <2> SUFFICES ASSUME TypeOK, OutcomeIsWhole, [Next]_vars
               PROVE  OutcomeIsWhole'
    OBVIOUS
  <2> USE DEF OutcomeIsWhole, TypeOK, Row, Write
  <2>1. CASE UNCHANGED dbvars
    BY <2>1 DEF dbvars
  <2>2. ASSUME NEW r \in Run, CreateRun(r) PROVE OutcomeIsWhole'
    BY <2>2 DEF CreateRun
  <2>3. ASSUME NEW q \in Request, NEW r \in Run, CliCreate(q, r) PROVE OutcomeIsWhole'
    BY <2>3 DEF CliCreate
  <2>4. ASSUME NEW q \in Request, ExecuteClaim(q) PROVE OutcomeIsWhole'
    BY <2>4 DEF ExecuteClaim, Active
  <2>5. ASSUME NEW q \in Request, PersistOutcome(q) PROVE OutcomeIsWhole'
    <3>1. target[q] \in Run
      BY <2>5 DEF PersistOutcome, Active
    <3>2. outcomes'[target[q]] > 0 /\ \A r \in Run : r # target[q] => outcomes'[r] = outcomes[r]
      BY <2>5, <3>1 DEF PersistOutcome
    <3>3. \A r \in Run : r # target[q] => row'[r] = row[r]
      BY <2>5, <3>1 DEF PersistOutcome
    <3>4. row'[target[q]] = IF q \in saw
                              THEN [status |-> "cancelled", summary |-> "partial", closed |-> TRUE]
                              ELSE [status |-> "completed", summary |-> "full", closed |-> TRUE]
      BY <2>5, <3>1 DEF PersistOutcome
    <3> QED
      BY <3>2, <3>3, <3>4
  <2>6. ASSUME NEW q \in Request, MarkFailed(q) PROVE OutcomeIsWhole'
    BY <2>6 DEF MarkFailed, Active
  <2>7. ASSUME NEW q \in Request, Withdraw(q) PROVE OutcomeIsWhole'
    BY <2>7 DEF Withdraw, Active
  <2> QED
    BY <2>1, <2>2, <2>3, <2>4, <2>5, <2>6, <2>7, RowFrame
<1> QED
  BY <1>1, <1>2, TypeCorrect, PTL DEF Spec

\* register() overwrites and release() pops without looking (runs.py:42-61),
\* yet an entry always names an execution of that run in that process that
\* has not been released, because it goes on or because its failure handler
\* failed and so did the finally clause.
THEOREM RegistrySound == Spec => []RegistryNamesExecutor
<1> USE RequestAssumption DEF RegistryNamesExecutor
<1>1. Init => RegistryNamesExecutor
  BY DEF Init
<1>2. TypeOK /\ RegistryNamesExecutor /\ [Next]_vars => RegistryNamesExecutor'
  <2> SUFFICES ASSUME TypeOK, RegistryNamesExecutor, [Next]_vars
               PROVE  RegistryNamesExecutor'
    OBVIOUS
  <2>1. ASSUME NEW q \in Request, UNCHANGED registry,
               \A o \in Request : o # q => pc'[o] = pc[o] /\ target'[o] = target[o],
               pc[q] \in Listed => pc'[q] \in Listed /\ target'[q] = target[q]
        PROVE  RegistryNamesExecutor'
    BY <2>1 DEF TypeOK
  <2> USE DEF Goto, EndWith
  <2>2. ASSUME NEW r \in Run, CreateRun(r) PROVE RegistryNamesExecutor'
    BY <2>2 DEF CreateRun
  <2>3. ASSUME NEW q \in Request, Arrive(q) PROVE RegistryNamesExecutor'
    <3>1. pc[q] = "idle" /\ UNCHANGED registry
      BY <2>3 DEF Arrive, CliCreate, ExecuteRead, CancelRead, Begin
    <3>2. PICK r \in Run, l \in PC : /\ pc' = [pc EXCEPT ![q] = l]
                                     /\ target' = [target EXCEPT ![q] = r]
      <4> USE DEF Begin, PC
      <4>1. ASSUME NEW r \in Run, CliCreate(q, r)
            PROVE  pc' = [pc EXCEPT ![q] = "claim"] /\ target' = [target EXCEPT ![q] = r]
        BY <4>1 DEF CliCreate
      <4>2. ASSUME NEW r \in Run, ExecuteRead(q, r)
            PROVE  /\ \E l \in PC : pc' = [pc EXCEPT ![q] = l]
                   /\ target' = [target EXCEPT ![q] = r]
        BY <4>2 DEF ExecuteRead
      <4>3. ASSUME NEW r \in Run, CancelRead(q, r)
            PROVE  /\ \E l \in PC : pc' = [pc EXCEPT ![q] = l]
                   /\ target' = [target EXCEPT ![q] = r]
        BY <4>3 DEF CancelRead
      <4> QED
        BY <2>3, <4>1, <4>2, <4>3 DEF Arrive
    <3>3. \A o \in Request : o # q => pc'[o] = pc[o] /\ target'[o] = target[o]
      BY <3>2 DEF TypeOK
    <3> QED
      BY <2>1, <3>1, <3>3 DEF Listed, Executing, Body
  <2>4. ASSUME NEW q \in Request,
               \/ ExecuteClaim(q) \/ LoadAndSync(q) \/ CaseBoundary(q)
               \/ OrchestratorReturns(q) \/ PersistOutcome(q) \/ MarkFailed(q)
               \/ Cancel(q) \/ Fault(q)
        PROVE  RegistryNamesExecutor'
    <3>1. UNCHANGED <<registry, target>>
      BY <2>4 DEF ExecuteClaim, LoadAndSync, CaseBoundary, OrchestratorReturns, PersistOutcome,
         MarkFailed, Cancel, Withdraw, Lookup, Signal, Fault, ExecuteClaimFails, Raise,
         MarkFailedFails, WithdrawFails
    <3>2. PICK l \in PC : /\ pc' = [pc EXCEPT ![q] = l]
                          /\ pc[q] \in Listed => l \in Listed
      <4> USE DEF Listed, Executing, Body, PC
      <4>1. CASE CaseBoundary(q)
        BY <4>1 DEF CaseBoundary, TypeOK
      <4>2. CASE ExecuteClaim(q) \/ LoadAndSync(q) \/ OrchestratorReturns(q)
        BY <4>2 DEF ExecuteClaim, LoadAndSync, OrchestratorReturns
      <4>3. CASE PersistOutcome(q) \/ MarkFailed(q)
        BY <4>3 DEF PersistOutcome, MarkFailed
      <4>4. CASE Withdraw(q) \/ Signal(q)
        BY <4>4 DEF Withdraw, Signal
      <4>5. CASE Lookup(q)
        BY <4>5 DEF Lookup
      <4>6. CASE Fault(q)
        BY <4>6 DEF Fault, ExecuteClaimFails, Raise, MarkFailedFails, WithdrawFails
      <4> QED
        BY <2>4, <4>1, <4>2, <4>3, <4>4, <4>5, <4>6 DEF Cancel
    <3>3. /\ \A o \in Request : o # q => pc'[o] = pc[o]
          /\ pc[q] \in Listed => pc'[q] \in Listed
      BY <3>2 DEF TypeOK
    <3> QED
      BY <2>1, <3>1, <3>3
  <2>5. ASSUME NEW q \in Request, Register(q) PROVE RegistryNamesExecutor'
    <3>1. target[q] \in Run /\ pc' = [pc EXCEPT ![q] = "sync"] /\ UNCHANGED target
      BY <2>5 DEF Register, TypeOK, Active
    <3>2. registry' = [registry EXCEPT ![Home[q]][target[q]] = q]
      BY <2>5 DEF Register
    <3>3. \A o \in Request : pc[o] \in Listed => pc'[o] \in Listed
      BY <3>1 DEF TypeOK, Listed, Executing, Body
    <3>4. pc'[q] \in Listed
      BY <3>1 DEF TypeOK, Listed, Executing, Body
    <3> QED
      BY <3>1, <3>2, <3>3, <3>4 DEF TypeOK
  <2>6. ASSUME NEW q \in Request, Release(q) PROVE RegistryNamesExecutor'
    <3>1. /\ target[q] \in Run
          /\ registry' = [registry EXCEPT ![Home[q]][target[q]] = NoEvent]
          /\ pc' = [pc EXCEPT ![q] = "ended"] /\ UNCHANGED target
      BY <2>6 DEF Release, TypeOK, Active
    <3> QED
      BY <3>1 DEF TypeOK
  <2>7. ASSUME NEW p \in Process, Crash(p) PROVE RegistryNamesExecutor'
    BY <2>7 DEF Crash, TypeOK
  <2>8. CASE UNCHANGED vars
    BY <2>8 DEF vars
  <2> QED
    BY <2>2, <2>3, <2>4, <2>5, <2>6, <2>7, <2>8 DEF Next, Execute
<1> QED
  BY <1>1, <1>2, TypeCorrect, PTL DEF Spec

\* A row that is running changes only by the hand of a request that has claimed it.
LEMMA ClaimantsWrite ==
    ASSUME TypeOK, NEW q \in Request, Execute(q) \/ Fault(q) \/ Cancel(q), NEW r \in Run,
           Claimed(q) => target[q] # r
    PROVE  row'[r] = row[r]
<1> USE DEF Claimed, ClaimWindow, Body
<1>1. CASE ExecuteClaim(q)
  BY <1>1 DEF ExecuteClaim, TypeOK
<1>2. CASE PersistOutcome(q)
  BY <1>2 DEF PersistOutcome, Write, TypeOK
<1>3. CASE MarkFailed(q)
  BY <1>3 DEF MarkFailed, Write, TypeOK
<1>4. CASE Withdraw(q)
  BY <1>4 DEF Withdraw, TypeOK
<1>5. CASE \/ Register(q) \/ LoadAndSync(q) \/ CaseBoundary(q) \/ OrchestratorReturns(q)
          \/ Release(q) \/ Lookup(q) \/ Signal(q) \/ Fault(q)
  BY <1>5 DEF Register, LoadAndSync, CaseBoundary, OrchestratorReturns, Release, Lookup,
              Signal, Fault, ExecuteClaimFails, Raise, MarkFailedFails, WithdrawFails, dbvars
<1> QED BY <1>1, <1>2, <1>3, <1>4, <1>5 DEF Execute, Cancel

\* A row that says "running" and has no execution stays as it is for ever, whatever
\* clients ask for and however requests overlap: execute_run refuses it
\* (runs.py:120) and cancel_run finds no event to set (runs.py:223).
THEOREM OrphansStay == Spec => OrphanIsStuck
<1> DEFINE Stuck == \A r \in Run : Orphaned(r) => row'[r] = row[r]
<1>1. TypeOK /\ [Next]_vars => [Stuck]_vars
  <2> SUFFICES ASSUME TypeOK, Next, NEW r \in Run, Orphaned(r)
               PROVE  row'[r] = row[r]
    OBVIOUS
  <2>1. ASSUME NEW s \in Run, CreateRun(s) PROVE row'[r] = row[r]
    <3>1. s # r
      BY <2>1 DEF CreateRun, Orphaned
    <3> QED BY <2>1, <3>1 DEF CreateRun, Write, TypeOK
  <2>2. ASSUME NEW q \in Request, NEW s \in Run,
               CliCreate(q, s) \/ ExecuteRead(q, s) \/ CancelRead(q, s)
        PROVE  row'[r] = row[r]
    <3>1. CASE CliCreate(q, s)
      <4>1. s # r
        BY <3>1 DEF CliCreate, Orphaned
      <4> QED BY <3>1, <4>1 DEF CliCreate, Write, TypeOK
    <3>2. CASE ExecuteRead(q, s) \/ CancelRead(q, s)
      BY <3>2 DEF ExecuteRead, CancelRead, dbvars
    <3> QED BY <2>2, <3>1, <3>2
  <2>3. ASSUME NEW q \in Request, Execute(q) \/ Fault(q) \/ Cancel(q) PROVE row'[r] = row[r]
    BY <2>3, ClaimantsWrite DEF Orphaned
  <2>4. ASSUME NEW p \in Process, Crash(p) PROVE row'[r] = row[r]
    BY <2>4 DEF Crash, dbvars
  <2> QED BY <2>1, <2>2, <2>3, <2>4 DEF Next, Arrive
<1> QED BY <1>1, TypeCorrect, PTL DEF Spec, OrphanIsStuck

----------------------------------------------------------------------------
(* Properties of requests that keep out of each other's claim window *)

Running(q) == pc[q] \in {"register", "failing"} \union Body

\* The strengthening: a claim is made by one request at a time, the row still
\* says what that request read or wrote, and a run that has not finished has
\* no trace of an outcome.
ExclusiveInv ==
    /\ SoleClaimant
    /\ \A q \in Request : ClaimWindow(q) => row[target[q]].status = "pending"
    /\ \A q \in Request : Running(q) => row[target[q]].status = "running"
    /\ \A r \in Run : row[r].status \notin Terminal =>
           row[r].summary = "empty" /\ ~row[r].closed /\ outcomes[r] = 0
    /\ \A r \in Run : row[r].status \in Terminal => row[r].closed
    /\ ExecutedAtMostOnce

\* A request that moves on without touching the database keeps the invariant
\* unless it enters the claim window or starts to run.
LEMMA StillExclusive ==
    ASSUME TypeOK, ExclusiveInv, NEW q \in Request, NEW l \in PC, Goto(q, l),
           UNCHANGED <<dbvars, target>>,
           l \notin {"claim", "withdraw"},
           l \in {"register", "failing"} \union Body => Running(q)
    PROVE  ExclusiveInv'
<1>1. \A o \in Request : /\ ClaimWindow(o)' => ClaimWindow(o)
                         /\ Running(o)' => Running(o)
  BY DEF Goto, ClaimWindow, Running, TypeOK
<1>2. \A o \in Request : Claimed(o)' => Claimed(o)
  BY <1>1 DEF Claimed, Running
<1> QED
  BY <1>1, <1>2 DEF ExclusiveInv, SoleClaimant, ExecutedAtMostOnce, dbvars

\* A refused request never claims anything.
LEMMA RefusedExclusive ==
    ASSUME TypeOK, ExclusiveInv, NEW q \in Request, NEW r \in Run, Begin(q, r),
           NEW l \in {"ended", "lookup"}, Goto(q, l), UNCHANGED dbvars
    PROVE  ExclusiveInv'
<1>1. \A o \in Request : /\ Claimed(o)' => Claimed(o) /\ target'[o] = target[o]
                         /\ ClaimWindow(o)' => ClaimWindow(o)
                         /\ Running(o)' => Running(o)
  BY DEF Begin, Goto, Claimed, ClaimWindow, Running, Body, TypeOK
<1>2. \A o \in Request : ClaimWindow(o) \/ Running(o) => Claimed(o)
  BY DEF Claimed, Running
<1>3. \A o \in Request : ClaimWindow(o)' \/ Running(o)' => target'[o] = target[o]
  BY <1>1, <1>2 DEF Claimed, Running
<1> QED
  BY <1>1, <1>3 DEF ExclusiveInv, SoleClaimant, ExecutedAtMostOnce, dbvars

\* A request that finds "pending" enters the claim window alone: the others
\* keep out of it (Exclusive), and a running one would have changed the row.
LEMMA ClaimsAlone ==
    ASSUME TypeOK, ExclusiveInv, Exclusive, NEW q \in Request, NEW r \in Run, Begin(q, r),
           row[r].status = "pending", NEW l \in {"claim", "withdraw"}, Goto(q, l),
           UNCHANGED dbvars
    PROVE  ExclusiveInv'
<1>1. \A o \in Request : Claimed(o) => target[o] # r
  BY DEF Begin, Claimed, Running, ExclusiveInv
<1>2. \A o \in Request : o # q => pc'[o] = pc[o] /\ target'[o] = target[o]
  BY DEF Begin, Goto, TypeOK
<1>3. pc'[q] = l /\ target'[q] = r
  BY DEF Begin, Goto, TypeOK
<1>4. \A o \in Request : o # q => /\ Claimed(o)' = Claimed(o)
                                  /\ ClaimWindow(o)' = ClaimWindow(o)
                                  /\ Running(o)' = Running(o)
  BY <1>2 DEF Claimed, ClaimWindow, Running
<1>5. SoleClaimant'
  BY <1>1, <1>2, <1>3, <1>4 DEF SoleClaimant, ExclusiveInv
<1>6. ~Running(q)'
  BY <1>3 DEF Running, Body
<1>7. /\ \A o \in Request : ClaimWindow(o)' => row'[target'[o]].status = "pending"
      /\ \A o \in Request : Running(o)' => row'[target'[o]].status = "running"
  BY <1>2, <1>3, <1>4, <1>6 DEF ExclusiveInv, dbvars
<1> QED
  BY <1>5, <1>7 DEF ExclusiveInv, ExecutedAtMostOnce, dbvars

LEMMA ExclusiveInit == Init => ExclusiveInv
BY DEF Init, ExclusiveInv, SoleClaimant, Claimed, ClaimWindow, Running, Body, Terminal,
       ExecutedAtMostOnce

LEMMA ExclusiveStep == Exclusive /\ TypeOK /\ ExclusiveInv /\ [Next]_vars => ExclusiveInv'
<1> SUFFICES ASSUME Exclusive, TypeOK, ExclusiveInv, [Next]_vars
             PROVE  ExclusiveInv'
  OBVIOUS
<1> USE DEF EndWith
<1>1. ASSUME NEW r \in Run, CreateRun(r) PROVE ExclusiveInv'
  <2>1. /\ row[r].status = "absent" /\ UNCHANGED <<outcomes, pc, target>>
        /\ row' = [row EXCEPT ![r] = [status |-> "pending", summary |-> "empty", closed |-> FALSE]]
    BY <1>1 DEF CreateRun, Write
  <2>2. \A q \in Request : Claimed(q) => target[q] # r /\ target[q] \in Run
    BY <2>1 DEF Claimed, ClaimWindow, Running, ExclusiveInv, TypeOK, Active, Body
  <2>3. \A x \in Run : row'[x] = IF x = r THEN [status |-> "pending", summary |-> "empty",
                                                closed |-> FALSE] ELSE row[x]
    BY <2>1 DEF TypeOK
  <2> QED
    BY <2>1, <2>2, <2>3 DEF ExclusiveInv, SoleClaimant, Claimed, ClaimWindow, Running,
       ExecutedAtMostOnce, Terminal
<1>2. ASSUME NEW q \in Request, NEW r \in Run, CliCreate(q, r) PROVE ExclusiveInv'
  <2>1. /\ row[r].status = "absent" /\ UNCHANGED outcomes
        /\ row' = [row EXCEPT ![r] = [status |-> "pending", summary |-> "empty", closed |-> FALSE]]
        /\ pc[q] = "idle"
        /\ pc' = [pc EXCEPT ![q] = "claim"] /\ target' = [target EXCEPT ![q] = r]
    BY <1>2 DEF CliCreate, Write, Begin, Goto
  <2>2. \A o \in Request : Claimed(o) => target[o] # r /\ target[o] \in Run /\ o # q
    BY <2>1 DEF Claimed, ClaimWindow, Running, ExclusiveInv, TypeOK, Active, Body
  <2>3. \A o \in Request : o # q => pc'[o] = pc[o] /\ target'[o] = target[o]
    BY <2>1 DEF TypeOK
  <2>4. pc'[q] = "claim" /\ target'[q] = r
    BY <2>1 DEF TypeOK
  <2>5. \A x \in Run : row'[x] = IF x = r THEN [status |-> "pending", summary |-> "empty",
                                                closed |-> FALSE] ELSE row[x]
    BY <2>1 DEF TypeOK
  <2>6. SoleClaimant'
    BY <2>2, <2>3, <2>4 DEF ExclusiveInv, SoleClaimant, Claimed, ClaimWindow
  <2>7. \A o \in Request : ClaimWindow(o)' => row'[target'[o]].status = "pending"
    BY <2>2, <2>3, <2>4, <2>5 DEF ExclusiveInv, Claimed, ClaimWindow
  <2>8. \A o \in Request : Running(o)' => row'[target'[o]].status = "running"
    BY <2>2, <2>3, <2>4, <2>5 DEF ExclusiveInv, Claimed, Running, Body
  <2> QED
    BY <2>1, <2>5, <2>6, <2>7, <2>8 DEF ExclusiveInv, ExecutedAtMostOnce, Terminal
<1>3. ASSUME NEW q \in Request, NEW r \in Run, ExecuteRead(q, r) PROVE ExclusiveInv'
  <2>1. Begin(q, r) /\ UNCHANGED dbvars
    BY <1>3 DEF ExecuteRead
  <2>2. CASE row[r].status = "pending"
    BY <1>3, <2>1, <2>2, ClaimsAlone DEF ExecuteRead
  <2>3. CASE row[r].status # "pending"
    BY <1>3, <2>1, <2>3, RefusedExclusive DEF ExecuteRead
  <2> QED
    BY <2>2, <2>3
<1>4. ASSUME NEW q \in Request, NEW r \in Run, CancelRead(q, r) PROVE ExclusiveInv'
  <2>1. Begin(q, r) /\ UNCHANGED dbvars
    BY <1>4 DEF CancelRead
  <2>2. CASE row[r].status = "pending"
    BY <1>4, <2>1, <2>2, ClaimsAlone DEF CancelRead, Terminal
  <2>3. CASE row[r].status # "pending"
    BY <1>4, <2>1, <2>3, RefusedExclusive DEF CancelRead
  <2> QED
    BY <2>2, <2>3
<1>5. ASSUME NEW q \in Request,
             \/ Register(q) \/ LoadAndSync(q) \/ OrchestratorReturns(q) \/ Release(q) \/ Raise(q)
      PROVE  ExclusiveInv'
  BY <1>5, StillExclusive DEF Register, LoadAndSync, OrchestratorReturns, Release, Raise, Running,
     Body, PC, Executing
<1>6. ASSUME NEW q \in Request, Lookup(q) \/ Signal(q) PROVE ExclusiveInv'
  BY <1>6, StillExclusive DEF Lookup, Signal, Body, PC
<1>7. ASSUME NEW q \in Request, ExecuteClaimFails(q) \/ MarkFailedFails(q) \/ WithdrawFails(q)
      PROVE  ExclusiveInv'
  BY <1>7, StillExclusive DEF ExecuteClaimFails, MarkFailedFails, WithdrawFails, Body, PC, Executing
<1>8. ASSUME NEW q \in Request, CaseBoundary(q) PROVE ExclusiveInv'
  BY <1>8 DEF CaseBoundary, dbvars, ExclusiveInv, SoleClaimant, Claimed, ClaimWindow, Running,
     ExecutedAtMostOnce
\* The four actions that write a claimed row.
<1>9. ASSUME NEW q \in Request, NEW l \in {"register", "release", "ended"}, Goto(q, l),
             Claimed(q), UNCHANGED target,
             row' = [row EXCEPT ![target[q]] = row'[target[q]]],
             l = "register" => row'[target[q]].status = "running",
             /\ row'[target[q]].status \notin Terminal =>
                   /\ row'[target[q]].summary = "empty" /\ ~row'[target[q]].closed
                   /\ outcomes'[target[q]] = 0
             /\ row'[target[q]].status \in Terminal => row'[target[q]].closed,
             outcomes'[target[q]] <= 1,
             \A r \in Run : r # target[q] => outcomes'[r] = outcomes[r]
      PROVE  ExclusiveInv'
  <2>1. target[q] \in Run
    BY <1>9 DEF Claimed, ClaimWindow, TypeOK, Active, Body
  <2>2. \A o \in Request : o # q => pc'[o] = pc[o] /\ target'[o] = target[o]
    BY <1>9 DEF Goto, TypeOK
  <2>3. pc'[q] = l /\ target'[q] = target[q]
    BY <1>9 DEF Goto, TypeOK
  <2>4. \A r \in Run : r # target[q] => row'[r] = row[r]
    BY <1>9 DEF TypeOK
  <2>5. \A o \in Request : Claimed(o) /\ o # q => target[o] # target[q] /\ target[o] \in Run
    BY <1>9 DEF ExclusiveInv, SoleClaimant, Claimed, ClaimWindow, TypeOK, Active, Body
  <2>6. SoleClaimant'
    BY <1>9, <2>2, <2>3, <2>5 DEF ExclusiveInv, SoleClaimant, Claimed, ClaimWindow
  <2>7. \A o \in Request : ClaimWindow(o)' => row'[target'[o]].status = "pending"
    BY <2>2, <2>3, <2>4, <2>5 DEF ExclusiveInv, Claimed, ClaimWindow
  <2>8. \A o \in Request : Running(o)' => row'[target'[o]].status = "running"
    BY <1>9, <2>2, <2>3, <2>4, <2>5 DEF ExclusiveInv, Claimed, Running, Body
  <2> QED
    BY <1>9, <2>1, <2>4, <2>6, <2>7, <2>8 DEF ExclusiveInv, ExecutedAtMostOnce, Terminal
<1>10. ASSUME NEW q \in Request, ExecuteClaim(q) PROVE ExclusiveInv'
  <2>1. target[q] \in Run /\ ClaimWindow(q) /\ Claimed(q)
    BY <1>10 DEF ExecuteClaim, TypeOK, Active, Claimed, ClaimWindow
  <2>2. row[target[q]].status = "pending" /\ row[target[q]] \in Row
    BY <2>1 DEF ExclusiveInv, TypeOK
  <2>3. /\ row[target[q]].summary = "empty" /\ ~row[target[q]].closed
        /\ outcomes[target[q]] = 0
    BY <2>1, <2>2 DEF ExclusiveInv, Terminal
  <2>4. row'[target[q]] = [row[target[q]] EXCEPT !.status = "running"]
    BY <1>10, <2>1 DEF ExecuteClaim, TypeOK
  <2>5. /\ row'[target[q]].status = "running" /\ row'[target[q]].summary = "empty"
        /\ ~row'[target[q]].closed
    BY <2>2, <2>3, <2>4 DEF Row
  <2>6. /\ row' = [row EXCEPT ![target[q]] = row'[target[q]]]
        /\ Goto(q, "register") /\ UNCHANGED <<target, outcomes>>
    BY <1>10, <2>4 DEF ExecuteClaim
  <2>7. row'[target[q]].status \notin Terminal
    BY <2>5 DEF Terminal
  <2> QED
    BY <1>9, <2>1, <2>3, <2>5, <2>6, <2>7
<1>11. ASSUME NEW q \in Request, PersistOutcome(q) PROVE ExclusiveInv'
  <2>1. target[q] \in Run /\ Running(q) /\ Claimed(q)
    BY <1>11 DEF PersistOutcome, TypeOK, Active, Claimed, Running, Body
  <2>2. outcomes[target[q]] = 0
    BY <2>1 DEF ExclusiveInv, Terminal
  <2>3. /\ outcomes'[target[q]] = 1
        /\ \A r \in Run : r # target[q] => outcomes'[r] = outcomes[r]
    BY <1>11, <2>1, <2>2 DEF PersistOutcome, TypeOK
  <2>4. /\ row' = [row EXCEPT ![target[q]] = row'[target[q]]]
        /\ row'[target[q]].status \in Terminal /\ row'[target[q]].closed
    <3>1. CASE q \in saw
      BY <1>11, <2>1, <3>1 DEF PersistOutcome, Write, Terminal, TypeOK
    <3>2. CASE q \notin saw
      BY <1>11, <2>1, <3>2 DEF PersistOutcome, Write, Terminal, TypeOK
    <3> QED
      BY <3>1, <3>2
  <2>5. Goto(q, "release") /\ UNCHANGED target
    BY <1>11 DEF PersistOutcome
  <2> QED
    BY <1>9, <2>1, <2>3, <2>4, <2>5
<1>12. ASSUME NEW q \in Request, MarkFailed(q) PROVE ExclusiveInv'
  <2>1. target[q] \in Run /\ Running(q) /\ Claimed(q)
    BY <1>12 DEF MarkFailed, TypeOK, Active, Claimed, Running
  <2>2. outcomes[target[q]] = 0
    BY <2>1 DEF ExclusiveInv, Terminal
  <2>3. /\ row' = [row EXCEPT ![target[q]] = row'[target[q]]]
        /\ row'[target[q]].status \in Terminal /\ row'[target[q]].closed
    BY <1>12, <2>1 DEF MarkFailed, Write, Terminal, TypeOK
  <2> QED
    BY <1>9, <1>12, <2>1, <2>2, <2>3 DEF MarkFailed
<1>13. ASSUME NEW q \in Request, Withdraw(q) PROVE ExclusiveInv'
  <2>1. target[q] \in Run /\ ClaimWindow(q) /\ Claimed(q)
    BY <1>13 DEF Withdraw, TypeOK, Active, Claimed, ClaimWindow
  <2>2. row[target[q]].status = "pending" /\ row[target[q]] \in Row
    BY <2>1 DEF ExclusiveInv, TypeOK
  <2>3. outcomes[target[q]] = 0
    BY <2>1, <2>2 DEF ExclusiveInv, Terminal
  <2>4. row'[target[q]] = [row[target[q]] EXCEPT !.status = "cancelled", !.closed = TRUE]
    BY <1>13, <2>1 DEF Withdraw, TypeOK
  <2>5. row'[target[q]].status \in Terminal /\ row'[target[q]].closed
    BY <2>2, <2>4 DEF Row, Terminal
  <2>6. /\ row' = [row EXCEPT ![target[q]] = row'[target[q]]]
        /\ Goto(q, "ended") /\ UNCHANGED <<target, outcomes>>
    BY <1>13, <2>4 DEF Withdraw
  <2> QED
    BY <1>9, <2>1, <2>3, <2>5, <2>6
<1>14. ASSUME NEW p \in Process, Crash(p) PROVE ExclusiveInv'
  <2>1. UNCHANGED <<dbvars, target>>
    BY <1>14 DEF Crash
  <2>2. \A q \in Request : /\ ClaimWindow(q)' => ClaimWindow(q)
                           /\ Running(q)' => Running(q)
    BY <1>14 DEF Crash, ClaimWindow, Running, Body
  <2>3. \A q \in Request : Claimed(q)' => Claimed(q)
    BY <2>2 DEF Claimed, Running
  <2> QED
    BY <2>1, <2>2, <2>3 DEF ExclusiveInv, SoleClaimant, ExecutedAtMostOnce, dbvars
<1>15. CASE UNCHANGED vars
  BY <1>15 DEF vars, ExclusiveInv, SoleClaimant, Claimed, ClaimWindow, Running, ExecutedAtMostOnce
<1> QED
  BY <1>1, <1>2, <1>3, <1>4, <1>5, <1>6, <1>7, <1>8, <1>10, <1>11, <1>12, <1>13, <1>14, <1>15
     DEF Next, Arrive, Execute, Cancel, Fault

\* With exclusive requests at most one execution's outcome is ever stored
\* (test_a_run_can_only_be_executed_once), whatever fails or crashes.
THEOREM OnceOnly == ASSUME Exclusive PROVE Spec => []ExecutedAtMostOnce
<1>1. TypeOK /\ ExclusiveInv /\ [Next]_vars => ExclusiveInv'
  BY ExclusiveStep
<1>2. ExclusiveInv => ExecutedAtMostOnce
  BY DEF ExclusiveInv
<1> QED
  BY <1>1, <1>2, ExclusiveInit, TypeCorrect, PTL DEF Spec

\* ... two requests are never past the check of runs.py:120 for one run ...
THEOREM OneClaimant == ASSUME Exclusive PROVE Spec => []SoleClaimant
<1>1. TypeOK /\ ExclusiveInv /\ [Next]_vars => ExclusiveInv'
  BY ExclusiveStep
<1>2. ExclusiveInv => SoleClaimant
  BY DEF ExclusiveInv
<1> QED
  BY <1>1, <1>2, ExclusiveInit, TypeCorrect, PTL DEF Spec

\* ... and completed_at is set exactly on finished runs.
THEOREM ClosedExactly == ASSUME Exclusive PROVE Spec => []ClosedWhenTerminal
<1>1. TypeOK /\ ExclusiveInv /\ [Next]_vars => ExclusiveInv'
  BY ExclusiveStep
<1>2. ExclusiveInv => ClosedWhenTerminal
  BY DEF ExclusiveInv, ClosedWhenTerminal
<1> QED
  BY <1>1, <1>2, ExclusiveInit, TypeCorrect, PTL DEF Spec

----------------------------------------------------------------------------
(* The code implements the documented workflow *)

Moves(r, from, to, sum) ==
    /\ StatusOf[r] = from
    /\ StatusOf' = [StatusOf EXCEPT ![r] = to]
    /\ SummaryOf' = [SummaryOf EXCEPT ![r] = sum]

\* Writing all columns of one row changes the workflow's variables at that run.
LEMMA WriteMoves ==
    ASSUME TypeOK, NEW r \in Run, NEW s \in Status, NEW sum \in Summary, NEW c \in BOOLEAN,
           Write(r, s, sum, c)
    PROVE  Moves(r, row[r].status, s, sum)
BY DEF Write, Moves, StatusOf, SummaryOf, Row, TypeOK

LEMMA WorkflowStep ==
    TypeOK /\ ExclusiveInv /\ [Next]_vars => [Workflow!WNext]_(Workflow!wvars)
<1> SUFFICES ASSUME TypeOK, ExclusiveInv, [Next]_vars
             PROVE  Workflow!WNext \/ UNCHANGED Workflow!wvars
  OBVIOUS
<1>1. CASE UNCHANGED dbvars
  BY <1>1 DEF dbvars, Workflow!wvars, StatusOf, SummaryOf
<1>2. ASSUME NEW r \in Run,
             \/ Moves(r, "absent",  "pending",   "empty")
             \/ Moves(r, "pending", "running",   "empty")
             \/ Moves(r, "pending", "cancelled", "empty")
             \/ Moves(r, "running", "completed", "full")
             \/ Moves(r, "running", "cancelled", "partial")
             \/ Moves(r, "running", "failed",    "error")
      PROVE  Workflow!WNext
  BY <1>2 DEF Moves, Workflow!WNext, Workflow!Create, Workflow!Start, Workflow!Withdraw,
     Workflow!Complete, Workflow!StopEarly, Workflow!Fail, Workflow!Move
<1>3. ASSUME NEW r \in Run,
             CreateRun(r) \/ (\E q \in Request : CliCreate(q, r))
      PROVE  Workflow!WNext
  <2>1. row[r].status = "absent" /\ Write(r, "pending", "empty", FALSE)
    BY <1>3 DEF CreateRun, CliCreate
  <2>2. Moves(r, "absent", "pending", "empty")
    BY <2>1, WriteMoves DEF Status, Summary
  <2> QED
    BY <1>2, <2>2
<1>4. ASSUME NEW q \in Request, ExecuteClaim(q) PROVE Workflow!WNext
  <2>1. target[q] \in Run /\ row[target[q]] \in Row /\ row[target[q]].status = "pending"
    BY <1>4 DEF ExecuteClaim, TypeOK, ExclusiveInv, Active, ClaimWindow
  <2>2. row[target[q]].summary = "empty"
    BY <2>1 DEF ExclusiveInv, Terminal
  <2> DEFINE new == [row[target[q]] EXCEPT !.status = "running"]
  <2>3. new \in Row /\ new.status = "running" /\ new.summary = "empty"
    BY <2>1, <2>2 DEF Row, Status
  <2>4. row' = [row EXCEPT ![target[q]] = new] /\ row \in [Run -> Row]
    BY <1>4 DEF ExecuteClaim, TypeOK
  <2> HIDE DEF new
  <2>5. Moves(target[q], "pending", "running", "empty")
    BY <2>1, <2>3, <2>4 DEF Moves, StatusOf, SummaryOf, Row
  <2> QED
    BY <1>2, <2>1, <2>5
<1>5. ASSUME NEW q \in Request, PersistOutcome(q) PROVE Workflow!WNext
  <2>1. target[q] \in Run /\ row[target[q]].status = "running"
    BY <1>5 DEF PersistOutcome, TypeOK, ExclusiveInv, Active, Running, Body
  <2>2. CASE q \in saw
    <3>1. Write(target[q], "cancelled", "partial", TRUE)
      BY <1>5, <2>2 DEF PersistOutcome
    <3>2. Moves(target[q], "running", "cancelled", "partial")
      BY <2>1, <3>1, WriteMoves DEF Status, Terminal, Summary
    <3> QED
      BY <1>2, <2>1, <3>2
  <2>3. CASE q \notin saw
    <3>1. Write(target[q], "completed", "full", TRUE)
      BY <1>5, <2>3 DEF PersistOutcome
    <3>2. Moves(target[q], "running", "completed", "full")
      BY <2>1, <3>1, WriteMoves DEF Status, Terminal, Summary
    <3> QED
      BY <1>2, <2>1, <3>2
  <2> QED
    BY <2>2, <2>3
<1>6. ASSUME NEW q \in Request, MarkFailed(q) PROVE Workflow!WNext
  <2>1. target[q] \in Run /\ row[target[q]].status = "running"
    BY <1>6 DEF MarkFailed, TypeOK, ExclusiveInv, Active, Running
  <2>2. Moves(target[q], "running", "failed", "error")
    BY <1>6, <2>1, WriteMoves DEF MarkFailed, Status, Terminal, Summary
  <2> QED
    BY <1>2, <2>1, <2>2
<1>7. ASSUME NEW q \in Request, Withdraw(q) PROVE Workflow!WNext
  <2>1. target[q] \in Run /\ row[target[q]] \in Row /\ row[target[q]].status = "pending"
    BY <1>7 DEF Withdraw, TypeOK, ExclusiveInv, Active, ClaimWindow
  <2>2. row[target[q]].summary = "empty"
    BY <2>1 DEF ExclusiveInv, Terminal
  <2> DEFINE new == [row[target[q]] EXCEPT !.status = "cancelled", !.closed = TRUE]
  <2>3. new \in Row /\ new.status = "cancelled" /\ new.summary = "empty"
    BY <2>1, <2>2 DEF Row, Status, Terminal
  <2>4. row' = [row EXCEPT ![target[q]] = new] /\ row \in [Run -> Row]
    BY <1>7 DEF Withdraw, TypeOK
  <2> HIDE DEF new
  <2>5. Moves(target[q], "pending", "cancelled", "empty")
    BY <2>1, <2>3, <2>4 DEF Moves, StatusOf, SummaryOf, Row
  <2> QED
    BY <1>2, <2>1, <2>5
<1> QED
  BY <1>1, <1>3, <1>4, <1>5, <1>6, <1>7, RowFrame

\* Every step of execute_run and cancel_run is an arrow of runs.py:3 or leaves
\* the run's status and summary alone, when requests are exclusive.
THEOREM LifecycleImplementsWorkflow == ASSUME Exclusive PROVE Spec => ImplementsWorkflow
<1>1. Init => Workflow!WInit
  BY DEF Init, Workflow!WInit, StatusOf, SummaryOf
<1>2. TypeOK /\ ExclusiveInv /\ [Next]_vars => ExclusiveInv'
  BY ExclusiveStep
<1> QED
  BY <1>1, <1>2, ExclusiveInit, WorkflowStep, TypeCorrect, PTL
     DEF Spec, ImplementsWorkflow, Workflow!WSpec
=============================================================================
