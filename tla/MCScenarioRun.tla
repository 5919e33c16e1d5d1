---------------------------- MODULE MCScenarioRun ----------------------------
(***************************************************************************)
(* ScenarioRun on the lab's own fixtures.  A scenario calls the tools of   *)
(* its fixture with a few arguments: fitting ones, ones that lack a field, *)
(* a secret written out, and the token for the last result.                *)
(***************************************************************************)
EXTENDS ScenarioRun, LabFixtures

\* policy/default_policy.yaml, with a limit a few calls reach.
DefaultPolicy ==
    [max_calls |-> 2, unknown_tool |-> "deny", unapproved_tool |-> "require_approval",
     unknown_capability |-> "require_approval", allow_write_tools |-> {},
     synthetic_destinations |-> {{"sink"}},
     capabilities |->
        [read |-> [decision |-> "allow", unattended |-> "none"],
         write |-> [decision |-> "require_approval", unattended |-> "none"],
         delete |-> [decision |-> "require_approval", unattended |-> "deny"],
         send |-> [decision |-> "require_approval", unattended |-> "none"],
         execute |-> [decision |-> "deny", unattended |-> "none"]],
     on_high_severity |-> "quarantine", on_low_severity |-> "require_approval",
     quarantine_at |-> "high", block_outbound |-> TRUE, sensitive |-> {"secret"},
     quarantine_on_injection |-> TRUE]

\* The most a policy may give away: everything but execute, delete and unknown tools.
OpenPolicy ==
    [DefaultPolicy EXCEPT
        !.max_calls = 3, !.unapproved_tool = "allow", !.unknown_capability = "allow",
        !.on_low_severity = "deny", !.quarantine_at = "critical",
        !.synthetic_destinations = {{"sink"}, {"elsewhere"}},
        !.capabilities.write.decision = "allow",
        !.capabilities.send.decision = "allow_with_warning",
        !.capabilities.delete.unattended = "none",
        !.capabilities.execute.decision = "require_approval"]

\* A tool that was never listed may be called if somebody approves the call.
AskingPolicy == [DefaultPolicy EXCEPT !.max_calls = 3, !.unknown_tool = "require_approval"]

Modes == {"unattended", "interactive"}

Played(fixtures, guard, policies, length, destructive) ==
    [fixture : fixtures, guard : {guard}, policy : policies, mode : Modes,
     destructive : {destructive}, length : {length}]

\* What answers may carry: a secret, in clear and encoded, an injection, too much text.
FlowRuns ==
    Played({"secret_flow_server", "encoded_flow_server", "response_injection_server",
            "oversized_response_server"}, "reference-runtime", {DefaultPolicy, OpenPolicy}, 6, FALSE)

\* What definitions may carry: poison, and every capability.
ToolRuns ==
    Played({"poisoned_description_server", "poisoned_schema_server",
            "multilingual_poisoning_server", "excessive_permission_server"},
           "reference-runtime", {OpenPolicy}, 3, TRUE)
    \union Played({"poisoned_schema_server"}, "reference-runtime", {AskingPolicy}, 3, TRUE)

DriftRuns == Played({"drift_server"}, "reference-runtime", {DefaultPolicy, OpenPolicy}, 6, FALSE)

AlertingRuns ==
    Played({"clean_server", "benign_guidance_server", "secret_flow_server",
            "encoded_flow_server", "multilingual_poisoning_server",
            "excessive_permission_server", "drift_server"},
           "alerting", {DefaultPolicy}, 4, FALSE)

AllRuns == FlowRuns \union ToolRuns \union DriftRuns \union AlertingRuns

Silent == [f \in {} |-> {}]
Keyed == [key |-> {}]
Worded == {[text |-> t] : t \in {{"secret"}, {"$LAST_RESULT"}}}
KeyedWorded == {[key |-> {}, text |-> t] : t \in {{"secret"}, {"$LAST_RESULT"}}}
Sent == {[destination |-> d, text |-> t] :
            d \in {{"sink"}, {"elsewhere"}}, t \in {{"secret"}, {"$LAST_RESULT"}}}

\* The fields given are ones the tool takes, now or after it has drifted.
Taken(f, t, supplied) ==
    \E tools \in {REGISTRY[f].tools[1], REGISTRY[f].tools[2]} : supplied \subseteq tools[t].admits

\* A follow-up call waits for the injected text; any other call does not wait.
LabScript ==
    [f \in DOMAIN REGISTRY |->
        {step \in [tool : DOMAIN REGISTRY[f].tools[1],
                   arguments : {Silent, Keyed} \union Worded \union KeyedWorded \union Sent,
                   trigger : {"none"}] : Taken(f, step.tool, DOMAIN step.arguments)}
        \union
        [tool : REGISTRY[f].sensitive, arguments : Sent, trigger : {"injection"}]]
=============================================================================
