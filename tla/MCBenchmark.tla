---------------------------- MODULE MCBenchmark -----------------------------
(***************************************************************************)
(* Benchmark with a corpus of four cases: two attacks, one of which drifts *)
(* and asks for two listings, a benign control, and a case that is         *)
(* disabled.  The plans bring together an adapter that enforces, one that  *)
(* claims what it likes, the scanner, ones that are not there, and one     *)
(* that is named twice; one corpus is empty.                               *)
(***************************************************************************)
EXTENDS Benchmark

Expect(block, kinds) ==
    [detect |-> kinds # {}, block |-> block, approval |-> FALSE, sensitive |-> FALSE,
     evidence |-> kinds, categories |-> {}]

TP == [id |-> "TP-001", category |-> "tool_poisoning", enabled |-> TRUE,
       expected |-> Expect(TRUE, {"tool_description", "policy_decision"})]
DR == [id |-> "DR-001", category |-> "tool_definition_drift", enabled |-> TRUE,
       expected |-> Expect(TRUE, {"drift_report", "tool_definition_hash"})]
BC == [id |-> "BC-001", category |-> "benign_control", enabled |-> TRUE,
       expected |-> Expect(FALSE, {})]
OFF == [TP EXCEPT !.id = "TP-002", !.enabled = FALSE]

Plan(adapters, corpus, wanted) ==
    [adapters |-> adapters, corpus |-> corpus, wanted |-> wanted, min_severity |-> Medium]

AllPlans ==
    {Plan(<<"reference-runtime", "my-scanner">>, <<TP, BC>>, {}),
     Plan(<<"cisco-mcp-scanner", "typo">>, <<TP, OFF, DR>>, {}),
     Plan(<<"no-defense-baseline", "external-scanner">>, <<TP, BC, DR>>, {"BC-001", "TP-001"}),
     Plan(<<"reference-static", "reference-static">>, <<DR, BC>>, {}),
     Plan(<<"reference-static">>, <<TP>>, {"TP-009"}),
     Plan(<<"reference-static">>, <<>>, {})}

Fact(category, severity, metadata, keys) ==
    [category |-> category, severity |-> severity, matched |-> TRUE, metadata |-> metadata,
     cites |-> TRUE, keys |-> keys \union {"other"}]
Poison == Fact("tool_poisoning", 3, TRUE, {})
Drift == Fact("tool_definition_drift", 3, FALSE, {"old_hash", "new_hash"})
Refusal == Fact("policy_violation", 2, FALSE, {})
Hint == Fact("tool_poisoning", 1, TRUE, {})

Saw(unsafe, blocked, withheld) ==
    [known |-> TRUE, unsafe |-> unsafe, blocked |-> blocked, withheld |-> withheld, attempted |-> 1]
Played(truth, findings, recorded) ==
    [truth |-> truth, findings |-> findings, approvals |-> 0, events |-> recorded,
     detected |-> FALSE, blocked |-> FALSE, adapter |-> None, case |-> None]
Says(type, source, decision) == <<[type |-> type, source |-> source, decision |-> decision]>>
Denied == Says("policy_decision", "reference-runtime", "deny")
Alert == Says("static_finding", "reference-static", None)

Exposed == Saw({"poisoned_tool_exposed"}, 0, 0)
Executed == Saw({"sensitive_tool_executed"}, 0, 0)
Calm == Saw({}, 0, 0)

\* Prevented; blocked too late.  And of the benign case: let alone, asked about.
Runtime ==
    [c \in {"TP-001", "BC-001"} |->
        IF c = "TP-001"
        THEN {Played(Saw({}, 1, 1), {Poison, Refusal}, Denied \o Denied),
              Played(Saw({"sensitive_tool_executed"}, 1, 0), {Refusal}, Denied)}
        ELSE {Played(Calm, {}, <<>>),
              [Played(Saw({}, 1, 0), {Refusal},
                      Says("policy_decision", "reference-runtime", "require_approval"))
                  EXCEPT !.approvals = 1]}]

Static ==
    [c \in {"DR-001", "BC-001"} |->
        IF c = "DR-001" THEN {Played(Executed, {Drift}, Says("drift_detected", "reference-static", None))}
        ELSE {Played(Calm, {Hint}, Alert), Played(Calm, {Poison}, Alert)}]

Baseline ==
    [c \in {"TP-001", "BC-001"} |->
        IF c = "TP-001" THEN {Played(Exposed, {}, <<>>), Played(Executed, {}, <<>>)}
        ELSE {Played(Calm, {}, <<>>)}]

\* The scanner's findings come from its own listings.
Cisco == [c \in {"TP-001", "DR-001"} |-> {Played(Exposed, {}, <<>>), Played(Calm, {}, <<>>)}]

(***************************************************************************)
(* It never ran the scenario through the runner.  It finds the attack, or  *)
(* says so in a result for a case that nobody asked for, or boasts under   *)
(* another adapter's name; of the benign case it says nothing, or answers  *)
(* for the other case.                                                     *)
(***************************************************************************)
Quiet(id) == [NoPlay EXCEPT !.adapter = "my-scanner", !.case = id]
Alarm(id) == [Quiet(id) EXCEPT !.findings = {Poison}, !.detected = TRUE]
Boasts ==
    [c \in {"TP-001", "BC-001"} |->
        IF c = "TP-001"
        THEN {Alarm(c), Alarm("XX-001"),
              [Quiet(c) EXCEPT !.adapter = "reference-runtime", !.detected = TRUE, !.blocked = TRUE]}
        ELSE {Quiet(c), Alarm("TP-001")}]

AllPlays ==
    [a \in {"reference-runtime", "reference-static", "no-defense-baseline",
            "cisco-mcp-scanner", "my-scanner"} |->
        CASE a = "reference-runtime" -> Runtime
          [] a = "reference-static" -> Static
          [] a = "no-defense-baseline" -> Baseline
          [] a = "cisco-mcp-scanner" -> Cisco
          [] a = "my-scanner" -> Boasts]

\* The scenario of the drift case lists its server's tools before and after they change.
CaseListings ==
    [c \in {"TP-001", "DR-001"} |->
        IF c = "TP-001" THEN <<"poisoned">> ELSE <<"before", "poisoned">>]

Row(tool, severity, threats) ==
    [item |-> "tool", tool |-> tool, status |-> "completed", severity |-> severity, threats |-> threats]
ScannerReports ==
    [l \in {"poisoned", "before"} |->
        IF l = "before" THEN {Row("a", "SAFE", {})}
        ELSE {Row("a", "HIGH", {"PROMPT INJECTION", "NEW THREAT"}), Row("b", "SAFE", {})}]
=============================================================================
