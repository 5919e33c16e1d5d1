---------------------------- MODULE RunLifecycle ----------------------------
(***************************************************************************)
(* services/runs.py: execute_run, cancel_run and the RunRegistry, with one *)
(* database session per request.  FastAPI runs the synchronous routes on a *)
(* thread pool, so requests interleave; a session reads the run's row once *)
(* and later issues an UPDATE that does not test the status it read, so    *)
(* the read and the commit are separate steps here.                        *)
(*                                                                         *)
(* A request is one HTTP call, or one `guardbench benchmark run` with      *)
(* --project, and is used once; it also names the threading.Event that     *)
(* register() creates for it.                                              *)
(***************************************************************************)
EXTENDS Naturals, FiniteSets

CONSTANTS
    Run,         \* benchmark_runs rows that may come to exist
    Request,     \* calls that clients make
    CliRequest,  \* those that are a CLI invocation (create, then execute)
    Process,     \* operating system processes, each with a RunRegistry
    Home,        \* Home[q]: the process that serves request q
    Pairs,       \* (adapter, case) pairs of a run: the cancel boundaries
    Faults,      \* which of FaultKind the environment may inject
    Exclusive,   \* no request reads a run while another is about to claim it
    NoRun, NoEvent

FaultKind == {"claim", "cancel", "run", "fail", "crash"}

ASSUME RequestAssumption ==
    /\ CliRequest \subseteq Request
    /\ Home \in [Request -> Process]
    /\ Pairs \in Nat \ {0}
    /\ Faults \subseteq FaultKind
    /\ Exclusive \in BOOLEAN
    /\ NoRun \notin Run
    /\ NoEvent \notin Request

VARIABLES
    row,       \* row[r]: the committed benchmark_runs row
    outcomes,  \* outcomes[r]: how many outcomes (events, findings, metrics) are stored
    registry,  \* registry[p][r]: the event that process p's RunRegistry holds
    isset,     \* the events that are set
    pc,        \* pc[q]: where request q is
    target,    \* target[q]: the run it is about
    visited,   \* visited[q]: (adapter, case) pairs its orchestrator has passed
    saw,       \* executors whose orchestrator found the event set
    held,      \* held[q]: the event a cancel request fetched
    reply,     \* reply[q]: what the request answers
    owed       \* (history) executors signalled while a pair was left to visit

dbvars == <<row, outcomes>>
execvars == <<visited, saw>>
cancelvars == <<isset, held, owed>>
vars == <<row, outcomes, registry, isset, pc, target, visited, saw, held, reply, owed>>

Terminal == {"completed", "failed", "cancelled"}
Status == {"absent", "pending", "running"} \union Terminal
Summary == {"empty", "error", "full", "partial"}
Row == [status : Status, summary : Summary, closed : BOOLEAN]

\* "claim" .. "release" are execute_run, "withdraw" .. "signal" are cancel_run.
\* "stranded" has ended too, but never came to registry.release().
Body == {"sync", "cases", "persist"}          \* inside the try
Executing == Body \union {"failing", "release"}  \* between register and release
PC == {"idle", "claim", "register"} \union Executing
      \union {"withdraw", "lookup", "signal", "ended", "stranded", "lost"}
Reply == {"none", "executed", "error", "cancelled", "signalled",
          "conflict", "not_here"}

Active(q) == pc[q] \notin {"idle", "ended", "stranded", "lost"}
ClaimWindow(q) == pc[q] \in {"claim", "withdraw"}
Listed == Executing \union {"stranded"}      \* where the registry may hold its event

TypeOK ==
    /\ row \in [Run -> Row]
    /\ outcomes \in [Run -> Nat]
    /\ registry \in [Process -> [Run -> Request \union {NoEvent}]]
    /\ isset \subseteq Request
    /\ pc \in [Request -> PC]
    /\ target \in [Request -> Run \union {NoRun}]
    /\ \A q \in Request : Active(q) => target[q] \in Run
    /\ visited \in [Request -> 0..Pairs]
    /\ saw \subseteq Request
    /\ held \in [Request -> Request \union {NoEvent}]
    /\ \A q \in Request : pc[q] = "signal" => held[q] \in Request
    /\ reply \in [Request -> Reply]
    /\ owed \subseteq Request

Init ==
    /\ row = [r \in Run |-> [status |-> "absent", summary |-> "empty", closed |-> FALSE]]
    /\ outcomes = [r \in Run |-> 0]
    /\ registry = [p \in Process |-> [r \in Run |-> NoEvent]]
    /\ isset = {}
    /\ pc = [q \in Request |-> "idle"]
    /\ target = [q \in Request |-> NoRun]
    /\ visited = [q \in Request |-> 0]
    /\ saw = {}
    /\ held = [q \in Request |-> NoEvent]
    /\ reply = [q \in Request |-> "none"]
    /\ owed = {}

----------------------------------------------------------------------------
(* Helpers *)

Goto(q, l) == pc' = [pc EXCEPT ![q] = l]
Answer(q, a) == reply' = [reply EXCEPT ![q] = a]
EndWith(q, a) == Goto(q, "ended") /\ Answer(q, a)
Write(r, s, sum, c) ==
    row' = [row EXCEPT ![r] = [status |-> s, summary |-> sum, closed |-> c]]

\* A request starts on r.  With Exclusive, clients keep out of the window in
\* which another request has read "pending" and not yet committed.
Begin(q, r) ==
    /\ pc[q] = "idle"
    /\ Exclusive => \A o \in Request : ~(ClaimWindow(o) /\ target[o] = r)
    /\ target' = [target EXCEPT ![q] = r]

----------------------------------------------------------------------------
(* Plausible bugs: mutated forms of actions below.  Nothing uses them; each  *)
(* one, put in its action's place, breaks the property it is listed with in  *)
(* PROJECT.json.                                                             *)

\* ... and against finished ones.
ExecuteReadReruns(q, r) ==
    /\ q \notin CliRequest
    /\ Begin(q, r)
    /\ row[r].status # "absent"
    /\ IF row[r].status \in {"pending", "failed", "completed"}
         THEN Goto(q, "claim") /\ UNCHANGED reply
         ELSE EndWith(q, "conflict")
    /\ UNCHANGED <<dbvars, registry, execvars, cancelvars>>

\* The event is polled once, before the loop.
CaseBoundaryPollsOnce(q) ==
    /\ pc[q] = "cases"
    /\ visited[q] < Pairs
    /\ visited' = [visited EXCEPT ![q] = @ + 1]
    /\ saw' = IF q \in isset /\ visited[q] = 0 THEN saw \union {q} ELSE saw
    /\ UNCHANGED <<dbvars, registry, pc, target, reply, cancelvars>>

\* outcome.cancelled is ignored.
PersistOutcomeAlwaysCompletes(q) ==
    /\ pc[q] = "persist"
    /\ Write(target[q], "completed", IF q \in saw THEN "partial" ELSE "full", TRUE)
    /\ outcomes' = [outcomes EXCEPT ![target[q]] = @ + 1]
    /\ Goto(q, "release")
    /\ Answer(q, "executed")
    /\ UNCHANGED <<registry, target, execvars, cancelvars>>

\* The status is committed before the summary and the evidence.
PersistOutcomeStatusFirst(q) ==
    /\ pc[q] = "persist"
    /\ row' = [row EXCEPT ![target[q]].status = IF q \in saw THEN "cancelled" ELSE "completed",
                          ![target[q]].closed = TRUE]
    /\ Goto(q, "release")
    /\ Answer(q, "executed")
    /\ UNCHANGED <<outcomes, registry, target, execvars, cancelvars>>

\* The handler answers but leaves the row alone.
MarkFailedForgets(q) ==
    /\ pc[q] = "failing"
    /\ Goto(q, "release")
    /\ Answer(q, "error")
    /\ UNCHANGED <<dbvars, registry, target, execvars, cancelvars>>

\* No release in the finally block.
ReleaseKeepsEntry(q) ==
    /\ pc[q] = "release"
    /\ Goto(q, "ended")
    /\ UNCHANGED <<dbvars, registry, target, reply, execvars, cancelvars>>

\* A run that is not executing here is given up, as if it executed nowhere.
LookupGivesUp(q) ==
    /\ pc[q] = "lookup"
    /\ registry[Home[q]][target[q]] = NoEvent
    /\ Write(target[q], "failed", "error", TRUE)
    /\ EndWith(q, "not_here")
    /\ UNCHANGED <<outcomes, registry, target, execvars, cancelvars>>

----------------------------------------------------------------------------
(* create_run: one transaction *)

CreateRun(r) ==
    /\ row[r].status = "absent"
    /\ Write(r, "pending", "empty", FALSE)
    /\ UNCHANGED <<outcomes, registry, pc, target, reply>>
    /\ UNCHANGED <<execvars, cancelvars>>

\* The CLI creates the run and executes it in the same session: session.get
\* answers from the identity map, so execute_run sees "pending" without
\* reading the row again.
CliCreate(q, r) ==
    /\ q \in CliRequest
    /\ Begin(q, r)
    /\ row[r].status = "absent"
    /\ Write(r, "pending", "empty", FALSE)
    /\ Goto(q, "claim")
    /\ UNCHANGED <<outcomes, registry, reply, execvars, cancelvars>>

----------------------------------------------------------------------------
(* execute_run *)

ExecuteRead(q, r) ==
    /\ q \notin CliRequest
    /\ Begin(q, r)
    /\ row[r].status # "absent"
    /\ IF row[r].status = "pending"
         THEN Goto(q, "claim") /\ UNCHANGED reply
         ELSE EndWith(q, "conflict")
    /\ UNCHANGED <<dbvars, registry, execvars, cancelvars>>

\* UPDATE ... SET status = 'running', started_at; it leaves the summary and
\* completed_at as they are and does not test the status.
ExecuteClaim(q) ==
    /\ pc[q] = "claim"
    /\ row' = [row EXCEPT ![target[q]].status = "running"]
    /\ Goto(q, "register")
    /\ UNCHANGED <<outcomes, registry, target, reply, execvars, cancelvars>>

\* The commit itself fails, before the try: nothing is stored.
ExecuteClaimFails(q) ==
    /\ "claim" \in Faults
    /\ pc[q] = "claim"
    /\ EndWith(q, "error")
    /\ UNCHANGED <<dbvars, registry, target, execvars, cancelvars>>

Register(q) ==
    /\ pc[q] = "register"
    /\ registry' = [registry EXCEPT ![Home[q]][target[q]] = q]
    /\ Goto(q, "sync")
    /\ UNCHANGED <<dbvars, target, reply, execvars, cancelvars>>

\* load_and_sync flushes the test_cases upsert; it is committed only with the
\* outcome, so nothing is visible yet.
LoadAndSync(q) ==
    /\ pc[q] = "sync"
    /\ Goto(q, "cases")
    /\ UNCHANGED <<dbvars, registry, target, reply, execvars, cancelvars>>

\* One turn of the orchestrator's loop: poll the event, then run the pair or
\* record it as skipped.
CaseBoundary(q) ==
    /\ pc[q] = "cases"
    /\ visited[q] < Pairs
    /\ visited' = [visited EXCEPT ![q] = @ + 1]
    /\ saw' = IF q \in isset THEN saw \union {q} ELSE saw
    /\ UNCHANGED <<dbvars, registry, pc, target, reply, cancelvars>>

OrchestratorReturns(q) ==
    /\ pc[q] = "cases"
    /\ visited[q] = Pairs
    /\ Goto(q, "persist")
    /\ UNCHANGED <<dbvars, registry, target, reply, execvars, cancelvars>>

PersistOutcome(q) ==
    /\ pc[q] = "persist"
    /\ IF q \in saw THEN Write(target[q], "cancelled", "partial", TRUE)
                    ELSE Write(target[q], "completed", "full", TRUE)
    /\ outcomes' = [outcomes EXCEPT ![target[q]] = @ + 1]
    /\ Goto(q, "release")
    /\ Answer(q, "executed")
    /\ UNCHANGED <<registry, target, execvars, cancelvars>>

\* Any exception inside the try: an unreadable corpus, an unknown test case
\* id, a unique-key conflict on test_cases, a failed commit.  rollback().
Raise(q) ==
    /\ "run" \in Faults
    /\ pc[q] \in Body
    /\ Goto(q, "failing")
    /\ UNCHANGED <<dbvars, registry, target, reply, execvars, cancelvars>>

\* The handler re-reads the row (rollback expired it) and writes whatever the
\* status has become.
MarkFailed(q) ==
    /\ pc[q] = "failing"
    /\ Write(target[q], "failed", "error", TRUE)
    /\ Goto(q, "release")
    /\ Answer(q, "error")
    /\ UNCHANGED <<outcomes, registry, target, execvars, cancelvars>>

\* The handler raises as well: the row cannot be read again, or the commit
\* fails.  `run' is still expired then, so `run.id' in the finally clause reads
\* the row once more; when that raises too, release() is never called.
MarkFailedFails(q) ==
    /\ "fail" \in Faults
    /\ pc[q] = "failing"
    /\ \E l \in {"release", "stranded"} : Goto(q, l)
    /\ Answer(q, "error")
    /\ UNCHANGED <<dbvars, registry, target, execvars, cancelvars>>

\* finally: registry.release(run.id) pops the run's entry, whoever put it there.
\* After a commit run.id is at hand (expire_on_commit is off).
Release(q) ==
    /\ pc[q] = "release"
    /\ registry' = [registry EXCEPT ![Home[q]][target[q]] = NoEvent]
    /\ Goto(q, "ended")
    /\ UNCHANGED <<dbvars, target, reply, execvars, cancelvars>>

----------------------------------------------------------------------------
(* cancel_run *)

CancelRead(q, r) ==
    /\ q \notin CliRequest
    /\ Begin(q, r)
    /\ CASE row[r].status = "pending" -> Goto(q, "withdraw") /\ UNCHANGED reply
         [] row[r].status = "running" -> Goto(q, "lookup") /\ UNCHANGED reply
         [] row[r].status \in Terminal -> EndWith(q, "conflict")
         [] OTHER -> FALSE
    /\ UNCHANGED <<dbvars, registry, execvars, cancelvars>>

\* UPDATE ... SET status = 'cancelled', completed_at, untested like the claim.
Withdraw(q) ==
    /\ pc[q] = "withdraw"
    /\ row' = [row EXCEPT ![target[q]].status = "cancelled",
                          ![target[q]].closed = TRUE]
    /\ EndWith(q, "cancelled")
    /\ UNCHANGED <<outcomes, registry, target, execvars, cancelvars>>

WithdrawFails(q) ==
    /\ "cancel" \in Faults
    /\ pc[q] = "withdraw"
    /\ EndWith(q, "error")
    /\ UNCHANGED <<dbvars, registry, target, execvars, cancelvars>>

\* RunRegistry.request_cancel fetches the event under the lock ...
Lookup(q) ==
    /\ pc[q] = "lookup"
    /\ LET event == registry[Home[q]][target[q]] IN
       IF event = NoEvent
         THEN EndWith(q, "not_here") /\ UNCHANGED held
         ELSE /\ held' = [held EXCEPT ![q] = event]
              /\ Goto(q, "signal")
              /\ UNCHANGED reply
    /\ UNCHANGED <<dbvars, registry, target, execvars, isset, owed>>

\* ... and sets it after the lock is released.
Signal(q) ==
    /\ pc[q] = "signal"
    /\ isset' = isset \union {held[q]}
    /\ owed' = IF pc[held[q]] \in {"sync", "cases"} /\ visited[held[q]] < Pairs
                 THEN owed \union {held[q]} ELSE owed
    /\ EndWith(q, "signalled")
    /\ UNCHANGED <<dbvars, registry, target, execvars, held>>

----------------------------------------------------------------------------
(* A process dies (or a CLI run is interrupted): its sessions roll back and *)
(* its registry is gone.  Nothing at start-up looks for running rows.       *)

Crash(p) ==
    /\ "crash" \in Faults
    /\ \E q \in Request : Home[q] = p /\ Active(q)
    /\ pc' = [q \in Request |-> IF Home[q] = p /\ Active(q) THEN "lost" ELSE pc[q]]
    /\ registry' = [registry EXCEPT ![p] = [r \in Run |-> NoEvent]]
    /\ UNCHANGED <<dbvars, target, reply, execvars, cancelvars>>

----------------------------------------------------------------------------

Execute(q) == \/ ExecuteClaim(q) \/ Register(q) \/ LoadAndSync(q) \/ CaseBoundary(q)
              \/ OrchestratorReturns(q) \/ PersistOutcome(q)
              \/ MarkFailed(q) \/ Release(q)
Cancel(q) == Withdraw(q) \/ Lookup(q) \/ Signal(q)
Fault(q) == ExecuteClaimFails(q) \/ Raise(q) \/ MarkFailedFails(q) \/ WithdrawFails(q)
Arrive(q) == \E r \in Run : CliCreate(q, r) \/ ExecuteRead(q, r) \/ CancelRead(q, r)

Next == \/ \E r \in Run : CreateRun(r)
        \/ \E q \in Request : Arrive(q) \/ Execute(q) \/ Cancel(q) \/ Fault(q)
        \/ \E p \in Process : Crash(p)

Spec == Init /\ [][Next]_vars

\* A thread that serves a request keeps running; nothing makes a client call
\* or a fault happen.  Of the adapters this holds as they are shipped: one that
\* a user adds may hang, which Benchmark models.
FairSpec == Spec /\ \A q \in Request : WF_vars(Execute(q) \/ Cancel(q))

----------------------------------------------------------------------------
(* What holds whatever the requests do *)

\* An entry of a RunRegistry is the event of a request of that very process
\* that is between register() and release() for that run, although register()
\* overwrites and release() pops blindly (runs.py:42-61).  There is one way for
\* the event of a finished execution to stay: its failure handler failed, and
\* so did reading run.id for the release (runs.py:145).  request_cancel then
\* sets an event that nobody polls.
RegistryNamesExecutor ==
    \A p \in Process, r \in Run :
        LET q == registry[p][r] IN
        q # NoEvent =>
            /\ Home[q] = p /\ target[q] = r
            /\ pc[q] \in Listed

\* persist_outcome and the failure handler commit status, summary and evidence
\* together (runs.py:149-212, 135-141): however requests overlap and whatever
\* fails, a completed run has a full report, a failed run its error, and a
\* report is never stored without its events.
OutcomeIsWhole ==
    \A r \in Run :
        /\ row[r].status = "completed" => row[r].summary = "full" /\ row[r].closed
        /\ row[r].status = "failed" => row[r].summary = "error" /\ row[r].closed
        /\ row[r].summary \in {"full", "partial"} => outcomes[r] > 0

\* A cancel request whose signal arrives while a pair is left to visit is seen
\* by the orchestrator at a later boundary (orchestrator.py:163-168): when the
\* loop is over the outcome counts as cancelled.
SignalIsHeeded ==
    \A q \in owed : visited[q] = Pairs => q \in saw

----------------------------------------------------------------------------
(* What holds when requests keep out of each other's claim window *)

\* test_a_run_can_only_be_executed_once (tests/integration/test_api.py:341): at
\* most one execution's events, findings and metrics are stored for a run.
ExecutedAtMostOnce == \A r \in Run : outcomes[r] <= 1

\* Never two requests past the check of runs.py:120 for the same run.
Claimed(q) == ClaimWindow(q) \/ pc[q] \in {"register", "failing"} \union Body
SoleClaimant ==
    \A q, o \in Request :
        Claimed(q) /\ Claimed(o) /\ target[q] = target[o] => q = o

\* completed_at is set exactly on the finished runs (runs.py:139, 211, 220).
ClosedWhenTerminal ==
    \A r \in Run : row[r].closed <=> row[r].status \in Terminal

\* A running row whose execution is gone (a crash, or a failure that could not
\* be recorded) is out of reach: execute_run refuses it (runs.py:120), cancel_run
\* finds no event, or one that nobody polls any more (runs.py:223), and no
\* request ever changes it again.
Orphaned(r) ==
    /\ row[r].status = "running"
    /\ \A q \in Request : Claimed(q) => target[q] # r
OrphanIsStuck == [][\A r \in Run : Orphaned(r) => row'[r] = row[r]]_vars

\* The code's protocol is the documented one: runs.py:3.
StatusOf == [r \in Run |-> row[r].status]
SummaryOf == [r \in Run |-> row[r].summary]
Workflow == INSTANCE RunWorkflow WITH status <- StatusOf, summary <- SummaryOf
ImplementsWorkflow == Workflow!WSpec

----------------------------------------------------------------------------
(* Liveness, under FairSpec *)

\* Without crashes and double failures a running run reaches a final status,
\* also when the execution raises (runs.py:135-141).
RunningSettles ==
    \A r \in Run : row[r].status = "running" ~> row[r].status \in Terminal

\* A signal in time ends the run as cancelled, not completed, unless its
\* execution raises or another request has claimed the run too.
Claims(o, r) ==
    target[o] = r /\ (Claimed(o) \/ reply[o] \in {"executed", "error", "cancelled"})
SignalCancels ==
    \A q \in Request, r \in Run :
        q \in owed /\ target[q] = r ~>
            \/ row[r].status = "cancelled"
            \/ reply[q] = "error"
            \/ \E o \in Request \ {q} : Claims(o, r)
=============================================================================
