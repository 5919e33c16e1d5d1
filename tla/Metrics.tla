------------------------------ MODULE Metrics -------------------------------
(***************************************************************************)
(* benchmark/metrics.py and the tables of benchmark/report.py.  A metric   *)
(* is a count, or a ratio kept as its numerator and denominator: it is     *)
(* undefined, never 0 or 1, when the denominator is 0.  `results' is the   *)
(* sequence of a run's results, `cases' the function from the ids of the   *)
(* selected cases to the cases.                                            *)
(***************************************************************************)
EXTENDS Verification, Functions

\* The positions of the results of one adapter that have a status.
Of(results, adapter) == {i \in DOMAIN results : results[i].adapter = adapter}
With(results, S, status) == {i \in S : results[i].status = status}
Attacks(results, cases, S) == {i \in S : IsAttack(cases[results[i].case])}
Known(results, cases, S) == {i \in S : results[i].case \in DOMAIN cases}
InCategory(results, cases, S, c) == {i \in S : cases[results[i].case].category = c}

Ratio(numerator, denominator) == [num |-> numerator, den |-> denominator]
Share(S, T) == Ratio(Cardinality(S), Cardinality(T))

Detected(results, S) == {i \in S : results[i].detected}
BlockedIn(results, S) == {i \in S : results[i].blocked}

Confusion(results, cases, S) ==
    LET attacks == Attacks(results, cases, S)
        alarms == {i \in S \ attacks : results[i].false_positive}
    IN [tp |-> Cardinality(Detected(results, attacks)),
        fn |-> Cardinality(attacks \ Detected(results, attacks)),
        fp |-> Cardinality(alarms),
        tn |-> Cardinality((S \ attacks) \ alarms)]

(***************************************************************************)
(* _category_metrics: the rates of the cases of one category, over every   *)
(* result of the adapter for a selected case and over the completed ones.  *)
(***************************************************************************)
CategoryMetrics(results, cases, all, done) ==
    [c \in {cases[results[i].case].category : i \in Known(results, cases, all)} |->
        LET completed == InCategory(results, cases, done, c)
            attacks == Attacks(results, cases, completed)
        IN [coverage |-> Share(completed, InCategory(results, cases, Known(results, cases, all), c)),
            detection |-> Share(Detected(results, attacks), attacks),
            prevention |-> Share(BlockedIn(results, attacks), attacks)]]

\* Plausible bug: what an adapter could not judge counts as done.
ScoredEverything(results, own, cases) == Known(results, cases, own)

\* Only completed results are scored, and of selected cases.
Scored(results, own, cases) == With(results, Known(results, cases, own), "completed")

Required(cases, result) == cases[result.case].expected.evidence
Total(f) == SumFunctionOnSet(f, DOMAIN f)

\* compute_adapter_metrics, without the latencies.
AdapterMetrics(adapter, results, cases) ==
    LET own == Of(results, adapter)
        done == Scored(results, own, cases)
        attacks == Attacks(results, cases, done)
        c == Confusion(results, cases, done)
        drift == InCategory(results, cases, attacks, "tool_definition_drift")
        flow == InCategory(results, cases, attacks, "sensitive_data_flow")
    IN [confusion |-> c,
        detection_rate |-> Ratio(c.tp, c.tp + c.fn),
        prevention_rate |-> Share(BlockedIn(results, attacks), attacks),
        false_positive_rate |-> Ratio(c.fp, c.fp + c.tn),
        tool_calls_avg |-> Ratio(Total([i \in done |-> results[i].tool_calls]), Cardinality(done)),
        policy_denials |-> Total([i \in done |-> results[i].policy_denials]),
        approval_required_cases |-> Cardinality({i \in done : results[i].required_approval}),
        drift_detection_rate |-> Share(Detected(results, drift), drift),
        data_flow_blocking_rate |-> Share(BlockedIn(results, flow), flow),
        evidence_completeness_rate |->
            Ratio(Total([i \in attacks |->
                            Cardinality(Required(cases, results[i]) \cap results[i].kinds)]),
                  Total([i \in attacks |-> Cardinality(Required(cases, results[i]))])),
        expectation_pass_rate |-> Share({i \in done : results[i].met}, done),
        cases_completed |-> Cardinality(done),
        cases_skipped |-> Cardinality(With(results, own, "skipped")),
        cases_errored |-> Cardinality(With(results, own, "error")),
        categories |-> CategoryMetrics(results, cases, own, done)]

(***************************************************************************)
(* build_report and report_summary: which results are listed as failed,    *)
(* skipped and errored, how many cases each adapter row shows, and how     *)
(* many events each trace reference counts.  `traces' is the sequence of   *)
(* the traces recorded, `events' that of the events.  Why a test failed is *)
(* looked up in its case: there is no report when that case is unknown.    *)
(***************************************************************************)
Reportable(results, cases) ==
    \A i \in DOMAIN results :
        results[i].status = "completed" /\ ~results[i].met => results[i].case \in DOMAIN cases

Report(results, traces, events, cancelled) ==
    LET all == DOMAIN results
        completed == With(results, all, "completed")
    IN [failed |-> {i \in completed : ~results[i].met},
        skipped |-> With(results, all, "skipped"),
        errored |-> With(results, all, "error"),
        completed |-> Cardinality(completed),
        cases |-> [a \in {results[i].adapter : i \in all} |-> Cardinality(Of(results, a))],
        references |-> [t \in DOMAIN traces |->
                           Cardinality({n \in DOMAIN events : events[n].trace = traces[t].trace})],
        cancelled |-> cancelled]
=============================================================================
