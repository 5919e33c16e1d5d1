--------------------------- MODULE BenchmarkPlan ----------------------------
(***************************************************************************)
(* What benchmark/orchestrator.py promises of a run, without adapters,     *)
(* failures or evidence: every pair that is due is answered once and in    *)
(* order, a run that was stopped answers "skipped" from then on, and a run *)
(* is over only when every pair is answered, or none was ever due.         *)
(***************************************************************************)
EXTENDS Naturals, Sequences

VARIABLES
    due,        \* how many pairs the run has
    answers,    \* the status of each pair answered so far
    stopped,    \* the cancellation was seen
    over

planVars == <<due, answers, stopped, over>>

Status == {"completed", "skipped", "error"}

Init == due \in Nat /\ answers = <<>> /\ stopped = FALSE /\ over = FALSE

Answer(status) ==
    /\ ~over /\ Len(answers) < due
    /\ answers' = Append(answers, status)
    /\ stopped => status = "skipped"
    /\ stopped' \in IF status = "skipped" THEN {TRUE, stopped} ELSE {stopped}
    /\ UNCHANGED <<due, over>>

Close ==
    /\ ~over /\ Len(answers) = due
    /\ over' = TRUE
    /\ UNCHANGED <<due, answers, stopped>>

Next == (\E s \in Status : Answer(s)) \/ Close

Spec == Init /\ [][Next]_planVars
=============================================================================
