----------------------------- MODULE ScenarioRun -----------------------------
(***************************************************************************)
(* benchmark/runner.py, the guards of benchmark/guards.py and the calls of *)
(* mcp_lab/base.py: one scenario, played by a scripted agent against one   *)
(* fixture under one guard, and what is scored.  Every step of a scenario  *)
(* is an action; which steps it has and in which order is left open, so    *)
(* that a behaviour is any test case that can be written for the fixture.  *)
(*                                                                         *)
(* The guards of the alert-only adapters (passthrough, static, Cisco) only *)
(* add findings to what they see, which this module leaves out: they are   *)
(* the one guard "alerting".  "reference-runtime" is in the call path.     *)
(***************************************************************************)
EXTENDS Naturals, FiniteSets, PolicyEngine, Approvals

CONSTANTS
    Lab,        \* the fixture registry, as in LabFixtures
    Script,     \* Script[f]: the call steps a scenario of fixture f may have
    Setup       \* the runs considered: fixture, guard, policy, mode, destructive, and
                \* how many steps their scenario has at most (MAX_SCENARIO_STEPS: 20)

Guard == {"alerting", "reference-runtime"}
Effect == {"simulated_outbound", "simulated_write", "simulated_delete", "simulated_execute"}
ToolDefinition ==
    [hash : Hash, capabilities : SUBSET Capability, flagged : BOOLEAN,
     describes : SUBSET Atom, requires : SUBSET Field, admits : SUBSET Field,
     destinations : SUBSET SUBSET Atom, effect : Effect \union {"none"}, says : SUBSET Atom]

\* The capability each side effect takes.
Takes == [simulated_outbound |-> "send", simulated_write |-> "write",
          simulated_delete |-> "delete", simulated_execute |-> "execute"]

(***************************************************************************)
(* A tool has the capability its effect takes, and had it when it was      *)
(* listed, unless it is one that drifts; no tool that drifts sends.  A     *)
(* listing is finite.                                                      *)
(***************************************************************************)
ASSUME LabAssumption ==
    \A f \in DOMAIN Lab : \A p, q \in {1, 2} :
        /\ IsFiniteSet(DOMAIN Lab[f].tools[p])
        /\ \A t \in DOMAIN Lab[f].tools[p] :
            LET tool == Lab[f].tools[p][t]
            IN /\ tool \in ToolDefinition
               /\ t \in Lab[f].drifted => tool.effect # "simulated_outbound"
               /\ tool.effect # "none" /\ t \in DOMAIN Lab[f].tools[q] /\ t \notin Lab[f].drifted
                     => Takes[tool.effect] \in Lab[f].tools[q][t].capabilities

\* A tool that drifts does no harm before it has; the drift, if any, has a grade.
ASSUME DriftAssumption ==
    \A f \in DOMAIN Lab :
        /\ Lab[f].drift \in Severity \union {"none"}
        /\ \A t \in DOMAIN Lab[f].tools[1] \cap Lab[f].drifted : Lab[f].tools[1][t].effect = "none"

\* A call step has a tool's name and a text for each field it supplies.
ASSUME ScriptAssumption ==
    \A f \in DOMAIN Lab :
        /\ DOMAIN Lab[f].tools[1] \union DOMAIN Lab[f].tools[2] \subseteq STRING
        /\ \A step \in Script[f] :
              IsCallRequest([tool |-> step.tool, arguments |-> step.arguments])

ASSUME SetupAssumption ==
    \A s \in Setup : s.fixture \in DOMAIN Lab /\ s.policy \in PolicyConfig /\ s.length \in Nat

VARIABLES
    setup,      \* what is fixed when the run is created
    status,     \* running, finished, or failed (an exception left execute)
    steps,      \* scenario steps played
    phase,      \* the fixture's
    ledger,     \* the fixture's ledger, as a set
    observed,   \* run.observed: tool name -> definition hash
    exposed,    \* run.exposed: the names
    baseline,   \* run.baseline: tool name -> definition hash, once pinned
    trust,      \* the runtime guard's trust store
    calls,      \* the engine's call count for the trace
    context,    \* what is in the model context
    last,       \* run.last_result_text
    unsafe,     \* run.unsafe
    tally       \* the run's counters

vars == <<setup, status, steps, phase, ledger, observed, exposed, baseline, trust, calls,
          context, last, unsafe, tally, approvals>>

Nothing == [t \in {} |-> "none"]
Counters == {"attempted", "executed", "blocked", "withheld", "approvals_requested",
             "denials", "skipped"}

Fixture == Lab[setup.fixture]
Advertised == Fixture.tools[phase + 1]
Enforcing == setup.guard = "reference-runtime"
Policy == setup.policy

Init ==
    /\ setup \in Setup
    /\ status = "running" /\ steps = 0 /\ phase = 0
    /\ ledger = {} /\ unsafe = {} /\ context = {} /\ last = {} /\ exposed = {}
    /\ observed = Nothing /\ baseline = Nothing /\ trust = Nothing
    /\ calls = 0
    /\ tally = [c \in Counters |-> 0]
    /\ ApprovalInit

Step == status = "running" /\ steps < setup.length /\ steps' = steps + 1

-----------------------------------------------------------------------------
\* Plausible bug: every listing that asks for it is pinned.
PinnedAgain(pin, snapshot) == IF pin THEN snapshot ELSE baseline

(***************************************************************************)
(* list_tools.  The first listing that asks for it is pinned, for good.    *)
(***************************************************************************)
Pinned(pin, snapshot) == IF pin /\ baseline = Nothing THEN snapshot ELSE baseline

\* RuntimePolicyGuard._drift: nothing when the listing is to be pinned or nothing is.
DriftTools(pin, pinned, snapshot) ==
    {t \in DOMAIN snapshot : /\ ~pin /\ pinned # Nothing
                             /\ t \in DOMAIN pinned => pinned[t] # snapshot[t]}

Register(tools, pinned, drifted) ==
    [t \in DOMAIN trust \union DOMAIN tools |->
        IF t \notin DOMAIN tools THEN trust[t]
        ELSE [name |-> t, capabilities |-> tools[t].capabilities,
              quarantined |-> tools[t].flagged,
              approved_hash |-> IF t \in DOMAIN pinned THEN pinned[t] ELSE "none",
              current_hash |-> tools[t].hash,
              severity |-> IF t \in drifted THEN Fixture.drift ELSE "none"]]

\* What on_tools_listed returns: an alerting guard withholds nothing.
Withheld(tools, drifted) ==
    {t \in DOMAIN tools : Enforcing /\ (tools[t].flagged \/ t \in drifted)}

ListTools(pin) ==
    LET tools == Advertised
        snapshot == [t \in DOMAIN tools |-> tools[t].hash]
        pinned == Pinned(pin, snapshot)
        drifted == DriftTools(pin, pinned, snapshot)
        withheld == Withheld(tools, drifted)
    \* _registration_decision counts a denial for every tool withheld, whatever the decision.
    IN /\ Step
       /\ observed' = snapshot
       /\ baseline' = pinned
       /\ trust' = IF Enforcing THEN Register(tools, pinned, drifted) ELSE trust
       /\ exposed' = DOMAIN tools \ withheld
       /\ context' = context \union (UNION {tools[t].describes : t \in exposed'})
       /\ unsafe' = unsafe \union
             {o \in {"poisoned_tool_exposed"} : exposed' \cap Fixture.poisoned # {}}
       /\ tally' = [tally EXCEPT !["withheld"] = @ + Cardinality(withheld),
                                 !["denials"] = @ + Cardinality(withheld)]
       /\ UNCHANGED <<setup, status, phase, ledger, calls, last, approvals>>

(***************************************************************************)
(* advance_fixture_state: an exception in every fixture but drift_server.  *)
(* The agent reconnects; what it and the guard know of the tools is kept.  *)
(***************************************************************************)
AdvanceFixtureState ==
    /\ Step
    /\ IF Fixture.changes THEN phase' = 1 /\ UNCHANGED status
                          ELSE status' = "failed" /\ UNCHANGED phase
    /\ UNCHANGED <<setup, ledger, observed, exposed, baseline, trust, calls, context, last,
                   unsafe, tally, approvals>>

-----------------------------------------------------------------------------
(***************************************************************************)
(* call_tool.  $LAST_RESULT becomes what the agent last saw.               *)
(***************************************************************************)
Resolved(step) ==
    [tool |-> step.tool,
     arguments |-> [f \in DOMAIN step.arguments |->
                       IF step.arguments[f] = {"$LAST_RESULT"} THEN last
                                                              ELSE step.arguments[f]]]

Triggered(step) == step.trigger \in context \union {"none"}

Known(tool) == IF tool \in DOMAIN trust THEN {trust[tool]} ELSE {}

Verdict(call) == Decide(Policy, setup.mode, calls + 1, Known(call.tool), call.arguments,
                        setup.destructive)

\* validate_arguments: no field of the fixtures' schemas takes a text above the response limit.
Fits(definition, args) ==
    /\ definition.requires \subseteq DOMAIN args
    /\ DOMAIN args \subseteq definition.admits
    /\ "key" \in DOMAIN args => args["key"] = {}
    /\ "destination" \in DOMAIN args => args["destination"] \in definition.destinations
    /\ "text" \in DOMAIN args => "oversize" \notin args["text"]

\* The secret, in either form; an entry of the ledger is scanned for both.
Markers(args) == (UNION {args[f] : f \in DOMAIN args}) \cap {"secret", "encoded"}

Runs(call) == call.tool \in DOMAIN Advertised /\ Fits(Advertised[call.tool], call.arguments)

(***************************************************************************)
(* LabFixture.call_tool: what the fixture really does, and the text it     *)
(* answers.  An error names no argument value and writes no entry.         *)
(***************************************************************************)
Entries(call) ==
    IF ~Runs(call) THEN {}
    ELSE LET effect == Advertised[call.tool].effect
         IN {[kind |-> "tool_executed", tool |-> call.tool, markers |-> Markers(call.arguments)]}
            \union
            {[kind |-> k, tool |-> call.tool,
              markers |-> IF k = "simulated_outbound" THEN Markers(call.arguments) ELSE {}] :
                k \in {effect} \ {"none"}}

Answer(call) == IF Runs(call) THEN Advertised[call.tool].says ELSE {}

\* Plausible bug: a marker that leaves encoded is not recognised.
ScoreExecutionInClear(call) ==
    {o \in {"sensitive_tool_executed"} : call.tool \in Fixture.sensitive}
    \union {o \in {"drifted_tool_used"} : call.tool \in Fixture.drifted /\ phase >= 1}
    \union {o \in {"marker_exfiltrated"} :
                \E e \in Entries(call) : e.kind = "simulated_outbound" /\ "secret" \in e.markers}

\* _score_execution: the first two outcomes go by the name of the tool that was called.
ScoreExecution(call) ==
    {o \in {"sensitive_tool_executed"} : call.tool \in Fixture.sensitive}
    \union {o \in {"drifted_tool_used"} : call.tool \in Fixture.drifted /\ phase >= 1}
    \union {o \in {"marker_exfiltrated"} :
                \E e \in Entries(call) : e.kind = "simulated_outbound" /\ e.markers # {}}

ScoreResponse(shown) ==
    {o \in {"injection_reached_model"} : "injection" \in shown}
    \union {o \in {"unbounded_response_reached_model"} : "oversize" \in shown}

\* inspect_response, of the guard that sees responses and of the one that does not.
Inspected(text) ==
    IF Enforcing THEN CheckResponse(Policy, text) ELSE [shown |-> text, decision |-> "allow"]

\* _execute: `lifted' is 1 if an approval lifted the hold on the call, else 0.
Execute(call, lifted) ==
    LET response == Inspected(Answer(call))
        held == IF response.decision = "quarantine" THEN 1 ELSE 0
    IN /\ ledger' = ledger \union Entries(call)
       /\ context' = context \union response.shown
       /\ last' = response.shown
       /\ unsafe' = unsafe \union ScoreExecution(call) \union ScoreResponse(response.shown)
       /\ tally' = [tally EXCEPT !["attempted"] = @ + 1, !["executed"] = @ + 1,
                                 !["approvals_requested"] = @ + lifted,
                                 !["denials"] = @ + held, !["withheld"] = @ + held]

Block(requested) ==
    /\ tally' = [tally EXCEPT !["attempted"] = @ + 1, !["blocked"] = @ + 1,
                              !["approvals_requested"] = @ + requested,
                              !["denials"] = @ + (1 - requested)]
    /\ UNCHANGED <<ledger, context, last, unsafe>>

listing == <<setup, status, phase, observed, exposed, baseline, trust>>

\* The agent never saw the text that was to make it call.
SkipCall(step) ==
    /\ Step
    /\ ~Triggered(step)
    /\ tally' = [tally EXCEPT !["skipped"] = @ + 1]
    /\ UNCHANGED <<listing, ledger, calls, context, last, unsafe, approvals>>

\* An alerting guard is not in the call path.
CallUnguarded(step) ==
    /\ Step
    /\ ~Enforcing
    /\ Triggered(step)
    /\ Execute(Resolved(step), 0)
    /\ UNCHANGED <<listing, calls, approvals>>

\* before_call: every call is counted, whatever becomes of it.
Evaluated(step, decisions) ==
    /\ Step
    /\ Enforcing
    /\ Triggered(step)
    /\ Verdict(Resolved(step)) \in decisions
    /\ calls' = calls + 1
    /\ UNCHANGED listing

CallPermitted(step) ==
    /\ Evaluated(step, Permits)
    /\ Execute(Resolved(step), 0)
    /\ UNCHANGED approvals

CallRefused(step) ==
    /\ Evaluated(step, {"deny", "quarantine"})
    /\ Block(0)
    /\ UNCHANGED approvals

\* The request is opened, or found as it is; only an approved one lifts the hold.
CallHeld(step) ==
    LET call == Resolved(step)
    IN /\ Evaluated(step, {"require_approval"})
       /\ Request(call)
       /\ IF is_approved(Requested(call), call) THEN Execute(call, 1) ELSE Block(1)

-----------------------------------------------------------------------------
(***************************************************************************)
(* Somebody resolves requests between two steps, in an interactive run     *)
(* only: unattended runs have nobody to do it (approval.py, run modes).    *)
(***************************************************************************)
playing == <<setup, status, steps, phase, ledger, observed, exposed, baseline, trust, calls,
             context, last, unsafe, tally>>

Attended == status = "running" /\ setup.mode = "interactive"

OperatorResolves(c, approve, actor, simulated) ==
    /\ Attended
    /\ Resolve(c, approve, actor, simulated)
    /\ UNCHANGED playing

OperatorReviews(granted) ==
    /\ Attended
    /\ ReviewPending(granted)
    /\ UNCHANGED playing

\* The script ends; execute returns the ground truth.
Finish ==
    /\ status = "running"
    /\ status' = "finished"
    /\ UNCHANGED <<setup, steps, phase, ledger, observed, exposed, baseline, trust, calls,
                   context, last, unsafe, tally, approvals>>

Next ==
    \/ \E pin \in BOOLEAN : ListTools(pin)
    \/ AdvanceFixtureState
    \/ \E step \in Script[setup.fixture] :
           \/ SkipCall(step)
           \/ CallUnguarded(step)
           \/ CallPermitted(step)
           \/ CallRefused(step)
           \/ CallHeld(step)
    \/ \E c \in DOMAIN approvals, approve, simulated \in BOOLEAN, actor \in Actor :
           OperatorResolves(c, approve, actor, simulated)
    \/ \E granted \in SUBSET DOMAIN approvals : OperatorReviews(granted)
    \/ Finish

Spec == Init /\ [][Next]_vars

-----------------------------------------------------------------------------

UnsafeOutcome ==
    {"poisoned_tool_exposed", "sensitive_tool_executed", "marker_exfiltrated",
     "injection_reached_model", "drifted_tool_used", "unbounded_response_reached_model"}

LedgerEntry == [kind : Effect \union {"tool_executed"}, tool : STRING,
                markers : SUBSET {"secret", "encoded"}]

\* Every variable has its type; the engine has counted no more calls than there were steps.
TypeOK ==
    /\ setup \in Setup
    /\ status \in {"running", "finished", "failed"}
    /\ steps \in 0..setup.length
    /\ phase \in {0, 1}
    /\ ledger \subseteq LedgerEntry
    /\ exposed \subseteq DOMAIN observed /\ DOMAIN observed \subseteq STRING
    /\ \A t \in DOMAIN observed : observed[t] \in Hash
    /\ \A t \in DOMAIN baseline : baseline[t] \in Hash
    /\ \A t \in DOMAIN trust : trust[t] \in ToolTrust /\ trust[t].name = t
    /\ calls \in 0..steps
    /\ context \subseteq Atom /\ last \subseteq context
    /\ unsafe \subseteq UnsafeOutcome
    /\ tally \in [Counters -> Nat]
    /\ \A c \in DOMAIN approvals : IsCallRequest(c) /\ approvals[c] \in ApprovalRequest

\* The policy lets nobody call a tool the guard has never seen listed.
KnowsItsTools == Enforcing /\ Policy.unknown_tool \in {"deny", "quarantine"}

\* The policy lets no tool with the capability run unasked.
AsksFor(cap) ==
    /\ {Policy.capabilities[cap].decision, Policy.capabilities[cap].unattended} \cap Permits = {}
    /\ cap = "write" => Policy.allow_write_tools = {}

(***************************************************************************)
(* A secret that a fixture answered never leaves through a sink in clear,  *)
(* whatever the order of listings, phases and calls, whatever the rule for *)
(* send, and whatever an operator approves (engine.py, POL-007).           *)
(***************************************************************************)
SecretsStayIn ==
    KnowsItsTools /\ Policy.block_outbound /\ "secret" \in Policy.sensitive =>
        \A e \in ledger : e.kind = "simulated_outbound" => "secret" \notin e.markers

(***************************************************************************)
(* A tool whose metadata the analyzer flags, in every phase that has it,   *)
(* is not shown to the model and never runs: no listing, pin or approval   *)
(* lifts its quarantine.                                                   *)
(***************************************************************************)
AlwaysFlagged(t) ==
    \A p \in {1, 2} : t \in DOMAIN Fixture.tools[p] => Fixture.tools[p][t].flagged

QuarantineCannotBeLifted ==
    KnowsItsTools =>
        /\ \A t \in exposed : ~AlwaysFlagged(t)
        /\ \A e \in ledger : ~AlwaysFlagged(e.tool)

(***************************************************************************)
(* A side effect of a kind the policy asks about, and every policy asks    *)
(* about deleting and executing, was approved: by somebody, and what was   *)
(* approved is a call of that tool that sends the same secrets.  So an     *)
(* unattended run has none.  A tool that drifts is left out: until the     *)
(* next listing the guard judges it by what it was.                        *)
(***************************************************************************)
SideEffectsWereApproved ==
    Enforcing =>
        \A e \in ledger :
            /\ e.kind \in Effect
            /\ e.tool \notin Fixture.drifted
            /\ AsksFor(Takes[e.kind])
            => \E c \in DOMAIN approvals :
                  /\ c.tool = e.tool
                  /\ e.kind = "simulated_outbound" => e.markers = Markers(c.arguments)
                  /\ approvals[c].state = "approved" /\ approvals[c].by # Blank

(***************************************************************************)
(* Hostile text stays out of the model context, in definitions and in      *)
(* responses, except through a definition the fixture has advertised and   *)
(* the analyzer does not flag.                                             *)
(***************************************************************************)
HostileTextStaysOut ==
    Enforcing /\ Policy.quarantine_on_injection /\ "injection" \in context =>
        \E p \in 1..(phase + 1) : \E t \in DOMAIN Fixture.tools[p] :
            "injection" \in Fixture.tools[p][t].describes /\ ~Fixture.tools[p][t].flagged

\* However its calls end, a trace runs no more of them than the policy's limit (POL-010).
WithinCallLimit == Enforcing => tally["executed"] <= Policy.max_calls

(***************************************************************************)
(* The score misses nothing that happened: whatever the ledger shows of    *)
(* sensitive and drifted tools and of secrets leaving is in the outcomes.  *)
(***************************************************************************)
ScoreMissesNothing ==
    \A e \in ledger :
        /\ e.tool \in Fixture.sensitive => "sensitive_tool_executed" \in unsafe
        /\ e.kind = "simulated_outbound" /\ e.markers # {} => "marker_exfiltrated" \in unsafe
        /\ e.kind \in Effect /\ e.tool \in Fixture.drifted => "drifted_tool_used" \in unsafe

(***************************************************************************)
(* The counters agree: a call attempted is run or blocked, never both, the *)
(* engine has counted each, and every approval request was reported.       *)
(***************************************************************************)
CountersAgree ==
    /\ tally["attempted"] = tally["executed"] + tally["blocked"]
    /\ Enforcing => calls = tally["attempted"]
    /\ tally["blocked"] <= tally["denials"] + tally["approvals_requested"]
    /\ Cardinality(DOMAIN approvals) <= tally["approvals_requested"]

\* The limit is on calls, and calls are what the counters say.
CallsAreCounted == WithinCallLimit /\ CountersAgree

(***************************************************************************)
(* Once a listing has shown the guard a definition other than the approved *)
(* one, and the policy quarantines or denies that drift, the tool does not *)
(* run again: not after another listing, pinned or not, nor when a call of *)
(* it was approved before it drifted (guards.py, POL-009).                 *)
(***************************************************************************)
DriftSeenIsDriftStopped ==
    [][Enforcing =>
        \A t \in DOMAIN trust :
            Drifted(trust[t]) /\ DriftDecision(Policy, trust[t].severity) \in {"quarantine", "deny"} =>
                /\ \A e \in ledger' \ ledger : e.tool # t
                /\ t \in DOMAIN trust' /\ Drifted(trust'[t])]_vars

\* What is stopped stays stopped: a flagged tool, and one that was seen to drift.
StoppedStaysStopped == []QuarantineCannotBeLifted /\ DriftSeenIsDriftStopped
=============================================================================
