----------------------------- MODULE Benchmark ------------------------------
(***************************************************************************)
(* benchmark/orchestrator.py with the adapters of benchmark/adapters.py:   *)
(* one run over every (adapter, case) pair, the evidence it records        *)
(* (Evidence), the third-party scanner (CiscoScanner), the verification of *)
(* each claimed result (Verification) and the metrics (Metrics).           *)
(*                                                                         *)
(* A scenario is what its runner leaves behind: a member of Plays, which   *)
(* ScenarioRun models step by step.                                        *)
(***************************************************************************)
EXTENDS SequencesExt, Metrics, CiscoScanner, Evidence

CONSTANTS
    Plans,      \* the runs considered: adapters, corpus, the cases wanted, min_severity
    Plays,      \* Plays[adapter][case]: what playing the case under the adapter may leave
    Listings,   \* Listings[case]: the tool listings its scenario asks for, in order
    ThirdParty  \* adapters a user added: they claim what they like, and fail anywhere

GuardAdapter ==
    {"no-defense-baseline", "reference-static", "reference-runtime", "cisco-mcp-scanner"}
\* ADAPTER_FACTORIES: any other name is an adapter that is not available.
Registered == GuardAdapter \union {"external-scanner"} \union ThirdParty

CaseIds(plan) == {c.id : c \in Range(plan.corpus)}

(***************************************************************************)
(* The loader admits no two cases with one id, and only consistent ones.   *)
(* No adapter but the runtime guard can block, withhold or ask (the guards *)
(* of benchmark/guards.py), and the baseline finds nothing; the scanner's  *)
(* findings come from its listings.  Only an adapter that a user added     *)
(* says by itself what it detected and blocked, and under which name and   *)
(* for which case it answers.  No guard records an error: that is what the *)
(* orchestrator does.                                                      *)
(***************************************************************************)
ASSUME PlanAssumption ==
    \A plan \in Plans :
        /\ plan.adapters \in Seq(Range(plan.adapters)) /\ plan.corpus \in Seq(Range(plan.corpus))
        /\ \A c \in Range(plan.corpus) : ConsistentCase(c)
        /\ Cardinality(CaseIds(plan)) = Len(plan.corpus)

ASSUME PlaysAssumption ==
    \A a \in DOMAIN Plays : \A c \in DOMAIN Plays[a] : \A p \in Plays[a][c] :
        /\ a # "reference-runtime" /\ a \notin ThirdParty =>
              /\ p.truth.blocked = 0 /\ p.truth.withheld = 0 /\ p.approvals = 0
              /\ \A i \in DOMAIN p.events : p.events[i].decision = None
        /\ a \in {"no-defense-baseline", "cisco-mcp-scanner"} => p.findings = {}
        /\ a \in ThirdParty => p.truth = NoTruth /\ p.approvals = 0
        /\ a \notin ThirdParty => ~p.detected /\ ~p.blocked
        /\ p.truth.blocked \in Nat /\ p.truth.withheld \in Nat
        /\ DOMAIN p = {"truth", "findings", "approvals", "events", "detected", "blocked",
                       "adapter", "case"}
        /\ p.findings \subseteq Finding /\ p.approvals \in Nat
        /\ p.events \in Seq(Range(p.events)) /\ \A i \in DOMAIN p.events : p.events[i].type # "error"

ASSUME ListingsAssumption ==
    \A c \in DOMAIN Listings :
        Listings[c] \in Seq(Range(Listings[c])) /\ Range(Listings[c]) \subseteq DOMAIN Reports
ListingsOf(id) == IF id \in DOMAIN Listings THEN Listings[id] ELSE <<>>

VARIABLES
    plan,
    stage,      \* starting, boundary, prepare, execute, verify, cleanup, finished, rejected
    work,       \* the pair in flight
    results,
    traces,
    cancel,     \* the cancel event is set
    cancelled,  \* the loop has seen it
    metrics,    \* adapter -> its metrics, once computed
    report,
    played      \* history: what was played for each result

vars == <<plan, stage, work, results, traces, cancel, cancelled, metrics, report, played,
          scannerVars, evidence>>

NoPlay == [truth |-> NoTruth, findings |-> {}, approvals |-> 0, events |-> <<>>,
           detected |-> FALSE, blocked |-> FALSE, adapter |-> None, case |-> None]
Idle == [trace |-> 0, listed |-> 0, play |-> NoPlay, result |-> <<>>]
RunTrace == 1

\* select: the corpus, or the cases of it that are wanted.
Select(p) ==
    IF p.wanted = {} THEN p.corpus
    ELSE FlattenSeq([i \in DOMAIN p.corpus |->
             IF p.corpus[i].id \in p.wanted THEN <<p.corpus[i]>> ELSE <<>>])
Selected == Select(plan)
Cases == [id \in {c.id : c \in Range(Selected)} |->
             CHOOSE c \in Range(Selected) : c.id = id]
Unknown == plan.wanted \ CaseIds(plan)

\* for adapter in adapters: for case in selected
Pairs == Len(plan.adapters) * Len(Selected)
AdapterAt(n) == plan.adapters[((n - 1) \div Len(Selected)) + 1]
CaseAt(n) == Selected[((n - 1) % Len(Selected)) + 1]
Adapter == AdapterAt(Len(results) + 1)
Case == CaseAt(Len(results) + 1)

Init ==
    /\ plan \in Plans
    /\ stage = "starting" /\ work = Idle
    /\ results = <<>> /\ traces = <<>> /\ played = <<>>
    /\ cancel = FALSE /\ cancelled = FALSE
    /\ metrics = <<>> /\ report = <<>>
    /\ ScannerInit /\ EvidenceInit

listing == <<plan, cancel, metrics, report>>
answered == <<results, traces, cancelled, played>>

-----------------------------------------------------------------------------
\* Unknown ids are an error, before anything is recorded.
Start ==
    /\ stage = "starting"
    /\ IF Unknown # {}
       THEN stage' = "rejected" /\ RecordNothing /\ UNCHANGED ids
       ELSE LET batch == <<Event(RunTrace, "run_started", "orchestrator", None)>>
            IN stage' = "boundary" /\ NewTrace /\ \E lost \in Losses(batch) : Record(batch, lost)
    /\ UNCHANGED <<listing, answered, work, scannerVars>>

AtBoundary == stage = "boundary" /\ Len(results) < Pairs

PassOver(reason) ==
    /\ results' = Append(results, NoResult(Adapter, Case, "skipped", reason))
    /\ played' = Append(played, NoPlay)
    /\ UNCHANGED <<listing, stage, work, traces, scannerVars, evidence>>

CaseCancelled == AtBoundary /\ cancel /\ cancelled' = TRUE /\ PassOver("cancelled")

CaseDisabled == AtBoundary /\ ~cancel /\ ~Case.enabled /\ PassOver("disabled") /\ UNCHANGED cancelled

\* Plausible bug: the cancel event is polled once for every adapter.
CaseBeginsPolledByAdapter ==
    /\ AtBoundary /\ Case.enabled
    /\ cancel => Len(results) % Len(Selected) # 0
    /\ stage' = "prepare"
    /\ work' = [Idle EXCEPT !.trace = NewTraceId]
    /\ NewTrace /\ RecordNothing
    /\ UNCHANGED <<listing, answered, scannerVars>>

\* _run_one: the trace, the fixture and the approval registry are new for every pair.
CaseBegins ==
    /\ AtBoundary /\ ~cancel /\ Case.enabled
    /\ stage' = "prepare"
    /\ work' = [Idle EXCEPT !.trace = NewTraceId]
    /\ NewTrace /\ RecordNothing
    /\ UNCHANGED <<listing, answered, scannerVars>>

-----------------------------------------------------------------------------

\* Plausible bug: the error is recorded in a span of its own, with ids from the run's source.
GivesUpInNewSpan(before, status, reason) ==
    LET batch == Append(before, Event(work.trace, "error", "orchestrator", None))
    IN /\ stage' = "cleanup"
       /\ work' = [work EXCEPT !.result = <<NoResult(Adapter, Case, status, reason)>>, !.play = NoPlay]
       /\ ids' = ids + 1
       /\ \E lost \in Losses(batch) : Record(batch, lost)
       /\ UNCHANGED <<listing, answered>>

(***************************************************************************)
(* The two except clauses: AdapterUnavailableError skips the case, any     *)
(* other exception makes it an error.  Both leave an event in its trace,   *)
(* after those that were recorded there before the exception.              *)
(***************************************************************************)
GivesUp(before, status, reason) ==
    LET batch == Append(before, Event(work.trace, "error", "orchestrator", None))
    IN /\ stage' = "cleanup"
       /\ work' = [work EXCEPT !.result = <<NoResult(Adapter, Case, status, reason)>>, !.play = NoPlay]
       /\ \E lost \in Losses(batch) : Record(batch, lost)
       /\ UNCHANGED <<listing, answered, ids>>

\* create_adapter and prepare: which adapters are not available here.
Unavailable ==
    \/ Adapter \notin Registered \union ThirdParty
    \/ Adapter = "external-scanner"
    \/ Adapter = "cisco-mcp-scanner" /\ ~installed

PrepareUnavailable ==
    /\ stage = "prepare" /\ (Unavailable \/ Adapter \in ThirdParty)
    /\ GivesUp(<<>>, "skipped", "unavailable")
    /\ UNCHANGED scannerVars

PrepareFails ==
    /\ stage = "prepare" /\ Adapter \in ThirdParty
    /\ GivesUp(<<>>, "error", "failed")
    /\ UNCHANGED scannerVars

Prepare ==
    /\ stage = "prepare" /\ ~Unavailable
    /\ stage' = "execute"
    /\ RecordNothing
    /\ UNCHANGED <<listing, answered, work, ids, scannerVars>>

-----------------------------------------------------------------------------
PlaysHere ==
    IF Adapter \in DOMAIN Plays /\ Case.id \in DOMAIN Plays[Adapter]
    THEN Plays[Adapter][Case.id] ELSE {}

Stamped(list) ==
    [i \in DOMAIN list |-> Event(work.trace, list[i].type, list[i].source, list[i].decision)]

\* What a play that is broken off has recorded by then.
Begun ==
    {<<>>} \union
    UNION {{Stamped(SubSeq(play.events, 1, n)) : n \in DOMAIN play.events} : play \in PlaysHere}

\* The scenario is played to its end, and the adapter claims what its guard found.
PlayScenario(play) ==
    /\ stage = "execute"
    /\ Adapter = "cisco-mcp-scanner" => work.listed = Len(ListingsOf(Case.id))
    /\ stage' = "verify"
    /\ work' = [work EXCEPT !.play = [play EXCEPT !.findings = @ \union work.play.findings]]
    /\ \E lost \in Losses(play.events) : Record(Stamped(play.events), lost)
    /\ UNCHANGED <<listing, answered, ids, scannerVars>>

\* The scenario or the adapter raises, at any point before it has a result.
ExecuteFails ==
    /\ stage = "execute"
    /\ \E before \in Begun : GivesUp(before, "error", "failed")
    /\ UNCHANGED scannerVars

\* A user's adapter finds only now that it cannot run here.
ExecuteUnavailable ==
    /\ stage = "execute" /\ Adapter \in ThirdParty
    /\ \E before \in Begun : GivesUp(before, "skipped", "unavailable")
    /\ UNCHANGED scannerVars

\* on_tools_listed of the scanner's guard: every finding is an event of its trace.
ScanListing(rows) ==
    LET l == ListingsOf(Case.id)[work.listed + 1]
        batch == [i \in 1..Cardinality(FindingsFromOutput(rows)) |->
                     Event(work.trace, "static_finding", Adapter, None)]
    IN /\ RunScanner(l, rows)
       /\ IF Scanned(rows)
          THEN /\ work' = [work EXCEPT !.listed = @ + 1,
                               !.play.findings = @ \union FindingsFromOutput(rows)]
               /\ \E lost \in Losses(batch) : Record(batch, lost)
               /\ UNCHANGED <<listing, answered, stage, ids>>
          ELSE \E before \in Begun : GivesUp(before, "error", "failed")

Scanning ==
    stage = "execute" /\ Adapter = "cisco-mcp-scanner" /\ work.listed < Len(ListingsOf(Case.id))

Scan ==
    /\ Scanning
    /\ \E rows \in Printed(ListingsOf(Case.id)[work.listed + 1])
                   \union {cache[l] : l \in DOMAIN cache} : ScanListing(rows)

ScanFails ==
    /\ Scanning
    /\ ScannerFails(ListingsOf(Case.id)[work.listed + 1])
    /\ \E before \in Begun : GivesUp(before, "error", "failed")

-----------------------------------------------------------------------------
\* Plausible bug: the verdict is drawn from the events of the whole run.
EvidenceOfRun == {events[i] : i \in DOMAIN events}

EvidenceOfCase == EventsForTrace(work.trace)

(***************************************************************************)
(* What the adapter claims: a guard adapter by claim_result; any other as  *)
(* it likes, the name and the case of the result included, which nobody    *)
(* compares with the pair's.                                               *)
(***************************************************************************)
Claimed ==
    IF Adapter \in ThirdParty
    THEN [adapter |-> work.play.adapter, case |-> work.play.case, findings |-> work.play.findings,
          detected |-> work.play.detected, blocked |-> work.play.blocked,
          required_approval |-> FALSE]
    ELSE Claim(Adapter, Case, work.play)

Verify ==
    /\ stage = "verify"
    /\ stage' = "cleanup"
    /\ work' = [work EXCEPT !.result =
          <<Finalize(Case, Claimed, work.play.truth, EvidenceOfCase, plan.min_severity,
                     work.play.approvals)>>]
    /\ RecordNothing
    /\ UNCHANGED <<listing, answered, ids, scannerVars>>

\* Plausible bug: an exception of cleanup leaves the loop before the result is kept.
CleanupLosesResult(raised) ==
    /\ stage = "cleanup"
    /\ raised => Adapter \in ThirdParty
    /\ stage' = "boundary" /\ work' = Idle
    /\ traces' = Append(traces, [trace |-> work.trace, adapter |-> Adapter, case |-> Case.id,
                                 status |-> work.result[1].status])
    /\ IF raised THEN UNCHANGED <<results, played>>
       ELSE results' = Append(results, work.result[1]) /\ played' = Append(played, work.play)
    /\ RecordNothing
    /\ UNCHANGED <<listing, cancelled, ids, scannerVars>>

\* Plausible bug: a cleanup that fails is tried again, with the case.
CleanupRetries(raised) ==
    /\ stage = "cleanup"
    /\ raised => Adapter \in ThirdParty
    /\ RecordNothing
    /\ IF raised
       THEN /\ stage' = "prepare"
            /\ work' = [Idle EXCEPT !.trace = work.trace]
            /\ UNCHANGED <<listing, answered, ids, scannerVars>>
       ELSE /\ stage' = "boundary" /\ work' = Idle
            /\ results' = Append(results, work.result[1])
            /\ played' = Append(played, work.play)
            /\ traces' = Append(traces, [trace |-> work.trace, adapter |-> Adapter,
                                         case |-> Case.id, status |-> work.result[1].status])
            /\ UNCHANGED <<listing, cancelled, ids, scannerVars>>

\* _cleanup, whose exceptions are logged only; then the result is kept.
Cleanup(raised) ==
    /\ stage = "cleanup"
    /\ raised => Adapter \in ThirdParty
    /\ stage' = "boundary" /\ work' = Idle
    /\ results' = Append(results, work.result[1])
    /\ played' = Append(played, work.play)
    /\ traces' = Append(traces, [trace |-> work.trace, adapter |-> Adapter, case |-> Case.id,
                                 status |-> work.result[1].status])
    /\ RecordNothing
    /\ UNCHANGED <<listing, cancelled, ids, scannerVars>>

(***************************************************************************)
(* compute_metrics, the last event, and the report of the outcome.  A      *)
(* report that cannot be built is an exception of its caller, after the    *)
(* run itself has ended.                                                   *)
(***************************************************************************)
Finish ==
    LET batch == <<Event(RunTrace, "run_completed", "orchestrator", None)>>
    IN /\ stage = "boundary" /\ Len(results) = Pairs
       /\ stage' = "finished"
       /\ metrics' = [a \in Range(plan.adapters) |-> AdapterMetrics(a, results, Cases)]
       /\ \E lost \in Losses(batch) : Record(batch, lost)
       /\ report' = IF Reportable(results, Cases)
                    THEN Report(results, traces, events', cancelled) ELSE <<>>
       /\ UNCHANGED <<plan, work, cancel, answered, ids, scannerVars>>

-----------------------------------------------------------------------------
Work ==
    \/ Start
    \/ CaseCancelled \/ CaseDisabled \/ CaseBegins
    \/ PrepareUnavailable \/ PrepareFails \/ Prepare
    \/ stage = "execute" /\ \E play \in PlaysHere : PlayScenario(play)
    \/ ExecuteFails \/ ExecuteUnavailable \/ Scan \/ ScanFails
    \/ Verify
    \/ \E raised \in BOOLEAN : Cleanup(raised)
    \/ Finish

Over == stage \in {"finished", "rejected"}

\* Somebody cancels: another thread sets the event, at any time.
Cancel ==
    /\ ~Over /\ ~cancel
    /\ cancel' = TRUE
    /\ UNCHANGED <<plan, stage, work, answered, metrics, report, scannerVars, evidence>>

ScannerChanges ==
    /\ ~Over /\ "cisco-mcp-scanner" \in Range(plan.adapters)
    /\ Reinstall
    /\ UNCHANGED <<listing, answered, stage, work, evidence>>

Next == Work \/ Cancel \/ ScannerChanges

Spec == Init /\ [][Next]_vars

\* The coroutine of an adapter that a user added is awaited, as long as that takes.
Awaiting == stage \in {"prepare", "execute", "cleanup"} /\ Adapter \in ThirdParty

(***************************************************************************)
(* The loop is one coroutine.  What it awaits of the adapters that come    *)
(* with the program is bounded: the scanner has a timeout, a scenario at   *)
(* most 20 steps.  Nothing bounds a user's adapter: it may hang in         *)
(* prepare, execute or cleanup.                                            *)
(***************************************************************************)
FairSpec == Spec /\ WF_vars(~Awaiting /\ Work)

-----------------------------------------------------------------------------
\* Every variable has its type, and a pair is in flight exactly between its boundaries.
TypeOK ==
    /\ plan \in Plans
    /\ stage \in {"starting", "boundary", "prepare", "execute", "verify", "cleanup",
                  "finished", "rejected"}
    /\ work.trace \in 0..ids /\ work.listed \in Nat
    /\ work.play.findings \subseteq Finding /\ work.play.approvals \in Nat
    /\ stage = "cleanup" <=> work.result # <<>>
    /\ work.trace # 0 <=> stage \in {"prepare", "execute", "verify", "cleanup"}
    /\ cancel \in BOOLEAN /\ cancelled \in BOOLEAN /\ (cancelled => cancel)
    /\ Len(results) \in 0..Pairs /\ Len(played) = Len(results)
    /\ \A i \in DOMAIN results :
           /\ results[i].status \in {"completed", "skipped", "error"}
           /\ results[i].kinds \subseteq EvidenceKind /\ results[i].findings \subseteq Finding
    /\ Cardinality(DOMAIN cache) <= MaxCache /\ installed \in BOOLEAN

PassedOver(r) == r.status = "skipped" /\ r.reason \in {"cancelled", "disabled"}

\* The positions of the results that have a trace, as a set and, the k-th of them, in order.
Traced == {i \in DOMAIN results : ~PassedOver(results[i])}
Nth(S, k) == CHOOSE n \in {i \in S : Cardinality({j \in S : j <= i}) = k} : TRUE

\* A result bears the name and the case of its pair, unless a user's adapter wrote it.
NamedForPair(i) ==
    \/ AdapterAt(i) \in ThirdParty /\ results[i].status = "completed"
    \/ results[i].adapter = AdapterAt(i) /\ results[i].case = CaseAt(i).id

(***************************************************************************)
(* Exactly one result for every pair visited, in the order of the loops,   *)
(* whatever prepare, execute, verification or cleanup did and whatever an  *)
(* adapter calls itself, and one trace for each pair that was tried: under *)
(* the pair's own name and case, which no adapter chooses, and with the    *)
(* status of its result.                                                   *)
(***************************************************************************)
OneResultPerPair ==
    /\ \A i \in DOMAIN results : NamedForPair(i)
    /\ stage = "finished" => Len(results) = Pairs
    /\ Len(traces) = Cardinality(Traced)
    /\ \A k \in DOMAIN traces :
           LET n == Nth(Traced, k)
           IN /\ traces[k].adapter = AdapterAt(n) /\ traces[k].case = CaseAt(n).id
              /\ traces[k].status = results[n].status

(***************************************************************************)
(* The trace id of a pair depends on the plan and the seed alone, never on *)
(* what failed before it: the report's "Re-running with the same seed ...  *)
(* reproduces every verdict and trace id".                                 *)
(***************************************************************************)
TraceIdsReproduce ==
    \A k \in DOMAIN traces :
        LET enabled == {n \in 1..Pairs : CaseAt(n).enabled}
            n == Nth(enabled, k)
        IN /\ traces[k].adapter = AdapterAt(n) /\ traces[k].case = CaseAt(n).id
           /\ traces[k].trace = 2 * k + 1

(***************************************************************************)
(* An attack counts as prevented only if the runner saw the scenario and   *)
(* saw nothing unsafe happen, whatever the adapter claims; a claim that    *)
(* the ground truth does not bear out is noted.                            *)
(***************************************************************************)
PreventionSeen(r, play, case) ==
    LET truth == play.truth
    IN IsAttack(case) =>
          /\ r.blocked <=> truth.known /\ truth.unsafe = {}
          /\ (play.blocked \/ truth.blocked + truth.withheld > 0) /\ ~r.blocked
                => r.mismatches \cap {"prevention", "unverified"} # {}
PreventionIsVerified ==
    \A i \in DOMAIN results : results[i].status = "completed" =>
        PreventionSeen(results[i], played[i], CaseAt(i))

(***************************************************************************)
(* A verdict is drawn from the case's own evidence: the denials and the    *)
(* evidence kinds of a result are those of what its own guard did, however *)
(* many cases of however many adapters share the recorder.                 *)
(***************************************************************************)
Decides(done, d) ==
    {k \in DOMAIN done : done[k].type = "policy_decision" /\ done[k].decision \in d}
DrawnFrom(r, done) ==
    /\ r.policy_denials = Cardinality(Decides(done, {"deny", "quarantine"}))
    /\ r.approvals_required = Cardinality(Decides(done, {"require_approval"}))
    /\ "policy_decision" \in r.kinds =>
          \E k \in DOMAIN done : /\ done[k].type = "policy_decision" /\ done[k].decision # None
                                 /\ done[k].source = r.adapter
VerdictIsOwn ==
    \A i \in DOMAIN results : results[i].status = "completed" =>
        DrawnFrom(results[i], played[i].events)

\* A published verdict rests on the ground truth and on the pair's own evidence.
VerdictsAreSound == PreventionIsVerified /\ VerdictIsOwn

(***************************************************************************)
(* The published rates follow the ledger.  An adapter's row is made of the *)
(* results that bear its name.  A case that was skipped or failed is in no *)
(* rate; a result for a case that was not selected is in none either.  The *)
(* counts of a row add up to its results, per category and in all.  And a  *)
(* forged name may add attacks to somebody's row, but nothing prevented:   *)
(* what is counted as prevented is what the runner saw not to happen in    *)
(* the adapter's own pairs.                                                *)
(***************************************************************************)
ScoresFollowTheLedger ==
    stage = "finished" =>
        \A a \in DOMAIN metrics :
            LET m == metrics[a]
                mine == {n \in 1..Pairs : results[n].adapter = a}
                named == {n \in mine : results[n].case \in DOMAIN Cases}
                scored == {n \in named : results[n].status = "completed"}
                attacks == {n \in scored : IsAttack(Cases[results[n].case])}
                seen == {n \in 1..Pairs :
                            /\ AdapterAt(n) = a /\ results[n].status = "completed"
                            /\ IsAttack(CaseAt(n))
                            /\ played[n].truth.known /\ played[n].truth.unsafe = {}}
                unscored == {n \in mine \ named : results[n].status = "completed"}
            IN /\ m.prevention_rate.den = Cardinality(attacks)
               /\ m.prevention_rate.num = Cardinality(seen)
               /\ m.detection_rate.den = Cardinality(attacks)
               /\ m.false_positive_rate.den = Cardinality(scored \ attacks)
               /\ m.cases_completed + m.cases_skipped + m.cases_errored + Cardinality(unscored)
                     = Cardinality(mine)
               /\ m.evidence_completeness_rate.num <= m.evidence_completeness_rate.den
               /\ Total([c \in DOMAIN m.categories |-> m.categories[c].coverage.den])
                     = Cardinality(named)
               /\ Total([c \in DOMAIN m.categories |-> m.categories[c].prevention.num])
                     = m.prevention_rate.num
               /\ DOMAIN report # {} /\ mine # {} => report.cases[a] = Cardinality(mine)

(***************************************************************************)
(* A case that was tried and has no verdict says why in its own trace, and *)
(* a case with a verdict has no error there (orchestrator.py: "Failures    *)
(* are never swallowed").                                                  *)
(***************************************************************************)
FailureIsExplained ==
    \A k \in DOMAIN traces :
        LET errors == {e \in EventsForTrace(traces[k].trace) : e.type = "error"}
        IN IF traces[k].status = "completed" THEN errors = {} ELSE Cardinality(errors) = 1

\* Whatever fails, every pair has its one result, and the pairs without a verdict say why.
EveryPairIsAnswered == OneResultPerPair /\ FailureIsExplained

(***************************************************************************)
(* A listing that the scanner could not scan is never scored as one it     *)
(* found nothing in: a completed case has the findings of every listing of *)
(* its scenario, from the cache or not, before and after it was emptied.   *)
(***************************************************************************)
NotScannedIsNotMissed ==
    \A i \in DOMAIN results :
        results[i].status = "completed" /\ AdapterAt(i) = "cisco-mcp-scanner" =>
            results[i].findings =
                UNION {FindingsFromOutput(Reports[l]) : l \in Range(ListingsOf(CaseAt(i).id))}

\* The run does what the orchestrator promises.
Promise ==
    INSTANCE BenchmarkPlan WITH
        due <- IF Unknown = {} THEN Pairs ELSE 0,
        answers <- [i \in DOMAIN results |-> results[i].status],
        stopped <- cancelled,
        over <- Over
ImplementsPlan == Promise!Spec

(***************************************************************************)
(* Every run ends, cancelled or not, whatever fails, unless a user's       *)
(* adapter hangs in one of the three calls the loop awaits; no cancel      *)
(* signal reaches it there.                                                *)
(***************************************************************************)
RunEnds == <>Over \/ <>[]Awaiting
=============================================================================
