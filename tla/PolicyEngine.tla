---------------------------- MODULE PolicyEngine ----------------------------
(***************************************************************************)
(* policy/engine.py and policy/models.py: the decision the runtime policy  *)
(* takes on one tool call.  A text is the set of the things in it that     *)
(* matter (a literal secret, an encoded one, an injected instruction...),  *)
(* the arguments of a call are a function from the fields supplied to      *)
(* texts.  Which rule decided is evidence only and is left out: a rule     *)
(* contributes its decision, and the strictest decision wins.              *)
(***************************************************************************)
EXTENDS Naturals

Capability == {"read", "write", "send", "delete", "execute"}
Decision == {"allow", "allow_with_warning", "require_approval", "quarantine", "deny"}
Severity == {"info", "low", "medium", "high", "critical"}
Mode == {"unattended", "interactive"}
Atom == {"secret", "encoded", "injection", "oversize", "sink", "elsewhere", "$LAST_RESULT"}
Field == {"key", "destination", "text"}

\* What a call is: a tool's name and a text for each of the fields supplied.
IsCallRequest(call) ==
    /\ DOMAIN call = {"tool", "arguments"}
    /\ call.tool \in STRING
    /\ DOMAIN call.arguments \subseteq Field
    /\ \A f \in DOMAIN call.arguments : call.arguments[f] \subseteq Atom

Strictness == [allow |-> 0, allow_with_warning |-> 1, require_approval |-> 2,
               quarantine |-> 3, deny |-> 4]
Rank == [info |-> 0, low |-> 1, medium |-> 2, high |-> 3, critical |-> 4]

\* The decisions under which a call may run without anybody being asked.
Permits == {"allow", "allow_with_warning"}

-----------------------------------------------------------------------------
(***************************************************************************)
(* The policies the loader accepts: a rule for every capability, none that *)
(* lets execute, delete or an unknown tool through.  `unattended' is       *)
(* "none" where the rule gives no decision of its own for such runs.       *)
(***************************************************************************)
CapabilityRule == [decision : Decision, unattended : Decision \union {"none"}]

ValidRules == {r \in [Capability -> CapabilityRule] :
    \A cap \in {"execute", "delete"} : {r[cap].decision, r[cap].unattended} \cap Permits = {}}

PolicyConfig ==
    [max_calls : 1..1000,
     unknown_tool : Decision \ Permits,
     unapproved_tool : Decision,
     unknown_capability : Decision,
     allow_write_tools : SUBSET STRING,
     synthetic_destinations : SUBSET SUBSET Atom,
     capabilities : ValidRules,
     on_high_severity : Decision,
     on_low_severity : Decision,
     quarantine_at : Severity,
     block_outbound : BOOLEAN,
     sensitive : SUBSET {"secret", "sink"},
     quarantine_on_injection : BOOLEAN]

RuleFor(cfg, cap, mode) ==
    LET rule == cfg.capabilities[cap]
    IN IF mode = "unattended" /\ rule.unattended # "none" THEN rule.unattended ELSE rule.decision

Strictest(decisions) ==
    CHOOSE d \in decisions : \A e \in decisions : Strictness[e] <= Strictness[d]

-----------------------------------------------------------------------------
(***************************************************************************)
(* What the trust store holds about a tool.  A hash of "none" is no hash,  *)
(* a severity of "none" no drift seen in the listing that registered it.   *)
(***************************************************************************)
Hash == STRING \ {"none"}

ToolTrust == [name : STRING, capabilities : SUBSET Capability, quarantined : BOOLEAN,
              approved_hash : Hash \union {"none"}, current_hash : Hash,
              severity : Severity \union {"none"}]

Approved(tool) == tool.approved_hash # "none"
Drifted(tool) == Approved(tool) /\ tool.current_hash # tool.approved_hash

DriftDecision(cfg, severity) ==
    LET graded == IF severity = "none" THEN "high" ELSE severity
    IN IF Rank[graded] >= Rank[cfg.quarantine_at] THEN cfg.on_high_severity
                                                 ELSE cfg.on_low_severity

\* Plausible bug: the body of a message is not searched.
SensitiveOutsideText(cfg, args) ==
    (UNION {args[f] : f \in DOMAIN args \ {"text"}}) \cap cfg.sensitive

\* The literal markers of a sensitive class in the arguments; an encoded one is not found.
Sensitive(cfg, args) == (UNION {args[f] : f \in DOMAIN args}) \cap cfg.sensitive

Outbound(tool) == "send" \in tool.capabilities \/ tool.capabilities = {}

Allowlisted(cfg, args) ==
    "destination" \in DOMAIN args /\ args["destination"] \in cfg.synthetic_destinations

CapabilityDecision(cfg, mode, tool, cap, simulated) ==
    IF cap = "write" /\ tool.name \in cfg.allow_write_tools THEN "allow"
    ELSE RuleFor(cfg, cap, IF cap = "delete" /\ simulated THEN "interactive" ELSE mode)

Candidates(cfg, mode, tool, args, simulated) ==
    LET restricting ==
            {d \in {"quarantine"} : tool.quarantined}
            \union {d \in {DriftDecision(cfg, tool.severity)} : Drifted(tool)}
            \union {d \in {cfg.unapproved_tool} : ~Approved(tool)}
            \union {d \in {"deny"} : /\ cfg.block_outbound
                                     /\ Sensitive(cfg, args) # {}
                                     /\ Outbound(tool)}
            \union {d \in {"deny"} : "send" \in tool.capabilities /\ ~Allowlisted(cfg, args)}
            \union {d \in {cfg.unknown_capability} : tool.capabilities = {}}
            \union {CapabilityDecision(cfg, mode, tool, cap, simulated) :
                        cap \in tool.capabilities}
    IN restricting \union
       {d \in {"allow_with_warning"} : restricting \subseteq Permits /\ Sensitive(cfg, args) # {}}

\* A registered tool always has a candidate: a capability's, or the one for having none.
Evaluate(cfg, mode, tool, args, simulated) ==
    Strictest(Candidates(cfg, mode, tool, args, simulated))

\* Plausible bug: the calls before this one are compared with the limit.
DecideOneMore(cfg, mode, index, known, args, simulated) ==
    IF index > cfg.max_calls + 1 THEN "deny"
    ELSE IF known = {} THEN cfg.unknown_tool
    ELSE Evaluate(cfg, mode, CHOOSE tool \in known : TRUE, args, simulated)

(***************************************************************************)
(* evaluate_call: the index-th call of the trace, to the tool whose trust  *)
(* records are in `known' (one record, or none for a tool never listed).   *)
(***************************************************************************)
Decide(cfg, mode, index, known, args, simulated) ==
    IF index > cfg.max_calls THEN "deny"
    ELSE IF known = {} THEN cfg.unknown_tool
    ELSE Evaluate(cfg, mode, CHOOSE tool \in known : TRUE, args, simulated)

\* Plausible bug: a quarantined response is reported and shown.
CheckResponseReports(cfg, text) ==
    IF cfg.quarantine_on_injection /\ "injection" \in text
    THEN [shown |-> text, decision |-> "quarantine"]
    ELSE [shown |-> text \ {"oversize"}, decision |-> "allow"]

(***************************************************************************)
(* check_response: what of a response may reach the model, and whether it  *)
(* was withheld.  Truncation only removes the excess, and the notice that  *)
(* replaces a withheld text carries nothing.                               *)
(***************************************************************************)
CheckResponse(cfg, text) ==
    IF cfg.quarantine_on_injection /\ "injection" \in text
    THEN [shown |-> {}, decision |-> "quarantine"]
    ELSE IF "oversize" \in text
    THEN [shown |-> text \ {"oversize"}, decision |-> "allow_with_warning"]
    ELSE [shown |-> text, decision |-> "allow"]
=============================================================================
