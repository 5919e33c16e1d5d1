---------------------------- MODULE RunWorkflow ----------------------------
(***************************************************************************)
(* What services/runs.py promises about a benchmark run, with no requests, *)
(* sessions or threads in it: a run "moves pending -> running -> completed *)
(* | failed | cancelled", each arrow is taken at most once, and the stored *)
(* summary always says what the status says.  RunLifecycle is shown to     *)
(* implement this module when its requests do not overlap.                 *)
(***************************************************************************)
CONSTANT Run

VARIABLES status,   \* status[r]: the status column of the run's row
          summary   \* summary[r]: what its summary_json holds

wvars == <<status, summary>>

Terminal == {"completed", "failed", "cancelled"}
Status == {"absent", "pending", "running"} \union Terminal

\* Nothing yet, {"error": ...}, the report of a run that visited every case,
\* the report of one that skipped cases after a cancel request.
Summary == {"empty", "error", "full", "partial"}

WTypeOK == /\ status \in [Run -> Status]
           /\ summary \in [Run -> Summary]

WInit == /\ status = [r \in Run |-> "absent"]
         /\ summary = [r \in Run |-> "empty"]

Move(r, from, to, sum) ==
    /\ status[r] = from
    /\ status' = [status EXCEPT ![r] = to]
    /\ summary' = [summary EXCEPT ![r] = sum]

Create(r)    == Move(r, "absent",  "pending",   "empty")
Start(r)     == Move(r, "pending", "running",   "empty")
Withdraw(r)  == Move(r, "pending", "cancelled", "empty")
Complete(r)  == Move(r, "running", "completed", "full")
StopEarly(r) == Move(r, "running", "cancelled", "partial")
Fail(r)      == Move(r, "running", "failed",    "error")

WNext == \E r \in Run : \/ Create(r)   \/ Start(r)     \/ Withdraw(r)
                        \/ Complete(r) \/ StopEarly(r) \/ Fail(r)

WSpec == WInit /\ [][WNext]_wvars
=============================================================================
