-------------------------- MODULE ScenarioRunProofs --------------------------
(***************************************************************************)
(* What the runtime guard promises of a scenario, for every lab, policy,   *)
(* script and operator: ScenarioRun's invariants of secrets, side effects  *)
(* and the call limit, and the finality of approvals.  The argument is one *)
(* of the ledger: it grows only by a call the policy permits or somebody   *)
(* approved (LedgerGrows), and the policy judges a call by what the trust  *)
(* store holds, which is what some listing declared (TrustIsListed).       *)
(***************************************************************************)
EXTENDS ScenarioRun, FiniteSetTheorems, TLAPS

-----------------------------------------------------------------------------
(***************************************************************************)
(* The policy engine.                                                      *)
(***************************************************************************)

\* Of any decisions, the strictest is one of them and none is stricter.
LEMMA StrictestIsMaximal ==
    ASSUME NEW S \in SUBSET Decision, S # {}
    PROVE  /\ Strictest(S) \in S
           /\ \A d \in S : Strictness[d] <= Strictness[Strictest(S)]
<1>1. \E d \in S : \A e \in S : Strictness[e] <= Strictness[d]
  <2>1. CASE "deny" \in S
    BY <2>1 DEF Decision, Strictness
  <2>2. CASE "deny" \notin S /\ "quarantine" \in S
    BY <2>2 DEF Decision, Strictness
  <2>3. CASE {"deny", "quarantine"} \cap S = {} /\ "require_approval" \in S
    BY <2>3 DEF Decision, Strictness
  <2>4. CASE {"deny", "quarantine", "require_approval"} \cap S = {} /\ "allow_with_warning" \in S
    BY <2>4 DEF Decision, Strictness
  <2>5. CASE {"deny", "quarantine", "require_approval", "allow_with_warning"} \cap S = {}
    <3>1. S = {"allow"}
      BY <2>5 DEF Decision
    <3> QED BY <3>1 DEF Strictness
  <2> QED BY <2>1, <2>2, <2>3, <2>4, <2>5
<1> QED BY <1>1 DEF Strictest

\* One decision that does not permit the call is enough; one that denies it decides.
LEMMA OneObjectionSuffices ==
    ASSUME NEW S \in SUBSET Decision, NEW d \in S
    PROVE  /\ d \notin Permits => Strictest(S) \notin Permits
           /\ d = "deny" => Strictest(S) = "deny"
<1>1. Strictest(S) \in Decision /\ Strictness[d] <= Strictness[Strictest(S)]
  BY StrictestIsMaximal
<1> QED BY <1>1 DEF Decision, Strictness, Permits

LEMMA CandidatesAreDecisions ==
    ASSUME NEW cfg \in PolicyConfig, NEW mode, NEW tool, NEW args, NEW simulated,
           tool.capabilities \subseteq Capability
    PROVE  Candidates(cfg, mode, tool, args, simulated) \subseteq Decision
<1>1. \A cap \in Capability : \A m : RuleFor(cfg, cap, m) \in Decision
  BY DEF PolicyConfig, ValidRules, CapabilityRule, RuleFor
<1>2. \A cap \in tool.capabilities : CapabilityDecision(cfg, mode, tool, cap, simulated) \in Decision
  BY <1>1 DEF CapabilityDecision, Decision
<1>3. DriftDecision(cfg, tool.severity) \in Decision
  BY DEF DriftDecision, PolicyConfig
<1>4. {cfg.unapproved_tool, cfg.unknown_capability, "quarantine", "deny", "allow_with_warning"}
        \subseteq Decision
  BY DEF PolicyConfig, Decision
<1> QED BY <1>2, <1>3, <1>4 DEF Candidates

LEMMA SensitiveText ==
    ASSUME NEW cfg, NEW args, NEW marker \in cfg.sensitive,
           marker \in UNION {args[f] : f \in DOMAIN args}
    PROVE  Sensitive(cfg, args) # {}
BY DEF Sensitive

(***************************************************************************)
(* A call that would carry a sensitive text out is denied, whatever else   *)
(* the policy says of the tool and whether or not it is above the limit.   *)
(***************************************************************************)
LEMMA SensitiveOutboundIsDenied ==
    ASSUME NEW cfg \in PolicyConfig, NEW mode, NEW index, NEW tool, NEW args, NEW simulated,
           tool.capabilities \subseteq Capability,
           cfg.block_outbound, Sensitive(cfg, args) # {}, Outbound(tool)
    PROVE  Decide(cfg, mode, index, {tool}, args, simulated) = "deny"
<1>1. "deny" \in Candidates(cfg, mode, tool, args, simulated)
  BY DEF Candidates
<1>2. Evaluate(cfg, mode, tool, args, simulated) = "deny"
  BY <1>1, CandidatesAreDecisions, OneObjectionSuffices DEF Evaluate
<1>3. (CHOOSE t \in {tool} : TRUE) = tool
  OBVIOUS
<1> QED BY <1>2, <1>3 DEF Decide

(***************************************************************************)
(* A capability the rules do not let run unasked keeps a tool that has it  *)
(* from running unasked, whatever its trust record and the call's text.    *)
(***************************************************************************)
LEMMA AskedForIsNotPermitted ==
    ASSUME NEW cfg \in PolicyConfig, NEW mode, NEW index, NEW tool, NEW args, NEW simulated,
           tool.capabilities \subseteq Capability,
           NEW cap \in tool.capabilities,
           {cfg.capabilities[cap].decision, cfg.capabilities[cap].unattended} \cap Permits = {},
           cap = "write" => cfg.allow_write_tools = {}
    PROVE  Decide(cfg, mode, index, {tool}, args, simulated) \notin Permits
<1>1. \A m : RuleFor(cfg, cap, m) \notin Permits
  BY DEF RuleFor
<1>2. CapabilityDecision(cfg, mode, tool, cap, simulated) \notin Permits
  BY <1>1 DEF CapabilityDecision
<1>3. CapabilityDecision(cfg, mode, tool, cap, simulated)
        \in Candidates(cfg, mode, tool, args, simulated)
  BY DEF Candidates
<1>4. Evaluate(cfg, mode, tool, args, simulated) \notin Permits
  BY <1>2, <1>3, CandidatesAreDecisions, OneObjectionSuffices DEF Evaluate
<1>5. (CHOOSE t \in {tool} : TRUE) = tool
  OBVIOUS
<1> QED BY <1>4, <1>5 DEF Decide, Permits

(***************************************************************************)
(* No policy the loader accepts lets a tool that deletes or executes run   *)
(* unasked, in any mode (models.py, _least_privilege).                     *)
(***************************************************************************)
THEOREM DestructionIsAskedFor ==
    ASSUME NEW cfg \in PolicyConfig, NEW mode, NEW index, NEW tool, NEW args, NEW simulated,
           tool.capabilities \subseteq Capability,
           tool.capabilities \cap {"delete", "execute"} # {}
    PROVE  Decide(cfg, mode, index, {tool}, args, simulated) \notin Permits
<1>1. PICK cap \in tool.capabilities : cap \in {"delete", "execute"}
  OBVIOUS
<1>2. {cfg.capabilities[cap].decision, cfg.capabilities[cap].unattended} \cap Permits = {}
  BY <1>1 DEF PolicyConfig, ValidRules
<1> QED BY <1>1, <1>2, AskedForIsNotPermitted

-----------------------------------------------------------------------------
(***************************************************************************)
(* The registry of approvals.                                              *)
(***************************************************************************)
ApprovalStep ==
    /\ DOMAIN approvals \subseteq DOMAIN approvals'
    /\ \A c \in DOMAIN approvals' \ DOMAIN approvals : approvals'[c] = Opened
    /\ \A c \in DOMAIN approvals :
          approvals'[c] # approvals[c] => approvals[c].state = "pending" /\ approvals'[c].by # Blank

LEMMA RequestSteps == ASSUME NEW c, Request(c) PROVE ApprovalStep
BY DEF Request, Requested, ApprovalStep

LEMMA NextApprovals == ASSUME [Next]_vars PROVE ApprovalStep
<1>1. ASSUME NEW step, CallHeld(step) PROVE ApprovalStep
  BY <1>1, RequestSteps DEF CallHeld
<1>2. ASSUME NEW c, NEW approve, NEW actor, NEW simulated,
             OperatorResolves(c, approve, actor, simulated)
      PROVE  ApprovalStep
  BY <1>2 DEF OperatorResolves, Resolve, ApprovalStep
<1>3. ASSUME NEW granted, OperatorReviews(granted) PROVE ApprovalStep
  BY <1>3, ActorAssumption DEF OperatorReviews, ReviewPending, ApprovalStep
<1>4. CASE UNCHANGED approvals
  BY <1>4 DEF ApprovalStep
<1> QED
  BY <1>1, <1>2, <1>3, <1>4 DEF Next, vars, ListTools, AdvanceFixtureState, SkipCall,
     CallUnguarded, CallPermitted, CallRefused, Finish

(***************************************************************************)
(* Decisions are final, whoever resolves what and whenever a call is made  *)
(* again.                                                                  *)
(***************************************************************************)
THEOREM ApprovalsAreFinal == Spec => DecisionsAreFinal
<1>1. ASSUME [Next]_vars PROVE [ApprovalStep]_approvals
  BY <1>1, NextApprovals
<1> QED BY <1>1, PTL DEF Spec, DecisionsAreFinal, ApprovalStep

-----------------------------------------------------------------------------
(***************************************************************************)
(* The trust store holds what a listing declared, and a request that has   *)
(* been resolved names who did it.                                         *)
(***************************************************************************)
TrustIsListed ==
    \A t \in DOMAIN trust : \E p \in {1, 2} :
        /\ t \in DOMAIN Fixture.tools[p]
        /\ trust[t].capabilities = Fixture.tools[p][t].capabilities

ResolvedBySomebody ==
    \A c \in DOMAIN approvals : approvals[c].state # "pending" => approvals[c].by # Blank

Sound ==
    /\ setup \in Setup
    /\ phase \in {0, 1}
    /\ TrustIsListed
    /\ ResolvedBySomebody

LEMMA InitSound == Init => Sound
BY DEF Init, Sound, TrustIsListed, ResolvedBySomebody, Nothing, ApprovalInit

LEMMA ApprovalStepSound ==
    ASSUME ResolvedBySomebody, ApprovalStep PROVE ResolvedBySomebody'
<1> SUFFICES ASSUME NEW c \in DOMAIN approvals', approvals'[c].state # "pending"
             PROVE  approvals'[c].by # Blank
  BY DEF ResolvedBySomebody
<1>1. CASE c \in DOMAIN approvals
  BY <1>1 DEF ApprovalStep, ResolvedBySomebody
<1>2. CASE c \notin DOMAIN approvals
  BY <1>2 DEF ApprovalStep, Opened
<1> QED BY <1>1, <1>2

LEMMA ListingSound ==
    ASSUME Sound, NEW pin, ListTools(pin) PROVE TrustIsListed'
<1> SUFFICES ASSUME NEW t \in DOMAIN trust'
             PROVE  \E p \in {1, 2} : /\ t \in DOMAIN Fixture'.tools[p]
                                     /\ trust'[t].capabilities = Fixture'.tools[p][t].capabilities
  BY DEF TrustIsListed
<1>1. Fixture' = Fixture
  BY DEF ListTools, Fixture
<1>2. PICK pinned, drifted : trust' = IF Enforcing THEN Register(Advertised, pinned, drifted)
                                                  ELSE trust
  BY DEF ListTools
<1>3. CASE Enforcing /\ t \in DOMAIN Advertised
  <2>1. trust'[t].capabilities = Advertised[t].capabilities
    BY <1>2, <1>3 DEF Register
  <2> QED BY <1>1, <1>3, <2>1 DEF Advertised, Sound
<1>4. CASE ~(Enforcing /\ t \in DOMAIN Advertised)
  <2>1. t \in DOMAIN trust /\ trust'[t] = trust[t]
    BY <1>2, <1>4 DEF Register
  <2> QED BY <1>1, <2>1 DEF Sound, TrustIsListed
<1> QED BY <1>3, <1>4

LEMMA NextSound == Sound /\ [Next]_vars => Sound'
<1> SUFFICES ASSUME Sound, [Next]_vars PROVE Sound'
  OBVIOUS
<1>1. ResolvedBySomebody'
  BY NextApprovals, ApprovalStepSound DEF Sound
<1>2. setup' = setup
  BY DEF Next, vars, ListTools, AdvanceFixtureState, SkipCall, CallUnguarded, CallPermitted,
     CallRefused, CallHeld, Evaluated, listing, OperatorResolves, OperatorReviews, playing, Finish
<1>3. phase' \in {0, 1}
  BY DEF Sound, Next, vars, ListTools, AdvanceFixtureState, SkipCall, CallUnguarded,
     CallPermitted, CallRefused, CallHeld, Evaluated, listing, OperatorResolves, OperatorReviews,
     playing, Finish
<1>4. CASE \E pin \in BOOLEAN : ListTools(pin)
  BY <1>1, <1>2, <1>3, <1>4, ListingSound DEF Sound
<1>5. CASE UNCHANGED trust
  BY <1>1, <1>2, <1>3, <1>5 DEF Sound, TrustIsListed, Fixture
<1> QED
  BY <1>4, <1>5 DEF Next, vars, AdvanceFixtureState, SkipCall, CallUnguarded, CallPermitted,
     CallRefused, CallHeld, Evaluated, listing, OperatorResolves, OperatorReviews, playing, Finish

(***************************************************************************)
(* Under the runtime guard the ledger grows only by what one call does,    *)
(* and the policy permits that call or somebody approved it.               *)
(***************************************************************************)
Cleared(call) ==
    \/ Verdict(call) \in Permits
    \/ /\ Verdict(call) = "require_approval"
       /\ call \in DOMAIN approvals /\ approvals[call].state = "approved"

LEMMA LedgerGrows ==
    ASSUME [Next]_vars, Enforcing, ledger' # ledger
    PROVE  \E call : ledger' = ledger \union Entries(call) /\ Cleared(call)
<1>1. \/ \E step \in Script[setup.fixture] : CallPermitted(step)
      \/ \E step \in Script[setup.fixture] : CallHeld(step)
  BY DEF Next, vars, ListTools, AdvanceFixtureState, SkipCall, CallUnguarded, CallRefused, Block,
     OperatorResolves, OperatorReviews, playing, Finish
<1>2. ASSUME NEW step, CallPermitted(step)
      PROVE  \E call : ledger' = ledger \union Entries(call) /\ Cleared(call)
  BY <1>2 DEF CallPermitted, Evaluated, Execute, Cleared
<1>3. ASSUME NEW step, CallHeld(step)
      PROVE  \E call : ledger' = ledger \union Entries(call) /\ Cleared(call)
  <2> DEFINE call == Resolved(step)
  <2>1. is_approved(Requested(call), call) /\ Execute(call, 1)
    BY <1>3 DEF CallHeld, Block
  <2>2. call \in DOMAIN approvals /\ approvals[call].state = "approved"
    BY <2>1 DEF is_approved, Requested, Opened
  <2>3. Verdict(call) = "require_approval"
    BY <1>3 DEF CallHeld, Evaluated
  <2>4. ledger' = ledger \union Entries(call)
    BY <2>1 DEF Execute
  <2> QED BY <2>2, <2>3, <2>4 DEF Cleared
<1> QED BY <1>1, <1>2, <1>3

\* What an entry says of the call that wrote it, and the trust record of its tool.
LEMMA EntryOfCall ==
    ASSUME NEW call, NEW e \in Entries(call), e.kind \in Effect
    PROVE  /\ e.tool = call.tool
           /\ call.tool \in DOMAIN Advertised
           /\ e.kind = Advertised[call.tool].effect
           /\ e.kind = "simulated_outbound" => e.markers = Markers(call.arguments)
<1>1. Runs(call)
  BY DEF Entries
<1>2. e.kind # "tool_executed"
  BY DEF Effect
<1>3. PICK k \in {Advertised[call.tool].effect} \ {"none"} :
        e = [kind |-> k, tool |-> call.tool,
             markers |-> IF k = "simulated_outbound" THEN Markers(call.arguments) ELSE {}]
  BY <1>1, <1>2 DEF Entries
<1> QED BY <1>1, <1>3 DEF Runs

LEMMA EffectIsDeclared ==
    ASSUME Sound, NEW call, NEW e \in Entries(call), e.kind \in Effect,
           call.tool \in DOMAIN trust
    PROVE  /\ trust[call.tool].capabilities \subseteq Capability
           /\ call.tool \notin Fixture.drifted =>
                 Takes[e.kind] \in trust[call.tool].capabilities
           /\ e.kind = "simulated_outbound" => call.tool \notin Fixture.drifted
<1> DEFINE t == call.tool
<1>1. t \in DOMAIN Advertised /\ e.kind = Advertised[t].effect
  BY EntryOfCall
<1>2. phase + 1 \in {1, 2} /\ Advertised = Fixture.tools[phase + 1]
  BY DEF Sound, Advertised
<1>3. PICK p \in {1, 2} : /\ t \in DOMAIN Fixture.tools[p]
                          /\ trust[t].capabilities = Fixture.tools[p][t].capabilities
  BY DEF Sound, TrustIsListed
<1>4. setup.fixture \in DOMAIN Lab
  BY SetupAssumption DEF Sound
<1>5. trust[t].capabilities \subseteq Capability
  <2>1. Fixture.tools[p][t] \in ToolDefinition
    BY <1>3, <1>4, LabAssumption DEF Fixture
  <2> QED BY <2>1, <1>3 DEF ToolDefinition
<1>6. e.kind # "none"
  BY DEF Effect
<1>7. /\ t \in Fixture.drifted => e.kind # "simulated_outbound"
      /\ t \notin Fixture.drifted => Takes[e.kind] \in Fixture.tools[p][t].capabilities
  <2>1. Lab[setup.fixture].tools[phase + 1][t].effect = e.kind
    BY <1>1, <1>2 DEF Fixture
  <2>2. t \in DOMAIN Lab[setup.fixture].tools[phase + 1] /\ t \in DOMAIN Lab[setup.fixture].tools[p]
    BY <1>1, <1>2, <1>3 DEF Fixture
  <2> QED BY <1>2, <1>3, <1>4, <1>6, <2>1, <2>2, LabAssumption DEF Fixture
<1> QED BY <1>3, <1>5, <1>7

-----------------------------------------------------------------------------
LEMMA SecretsStayInStep ==
    ASSUME Sound, SecretsStayIn, [Next]_vars PROVE SecretsStayIn'
<1>1. setup' = setup
  BY DEF Next, vars, ListTools, AdvanceFixtureState, SkipCall, CallUnguarded, CallPermitted,
     CallRefused, CallHeld, Evaluated, listing, OperatorResolves, OperatorReviews, playing, Finish
<1> SUFFICES ASSUME KnowsItsTools, Policy.block_outbound, "secret" \in Policy.sensitive,
                    NEW e \in ledger', e.kind = "simulated_outbound"
             PROVE  "secret" \notin e.markers
  BY <1>1 DEF SecretsStayIn, KnowsItsTools, Enforcing, Policy
<1>2. CASE e \in ledger
  BY <1>2 DEF SecretsStayIn
<1>3. CASE e \notin ledger
  <2>1. PICK call : ledger' = ledger \union Entries(call) /\ Cleared(call)
    BY <1>3, LedgerGrows DEF KnowsItsTools
  <2>2. e \in Entries(call) /\ e.kind \in Effect
    BY <1>3, <2>1 DEF Effect
  <2>3. /\ e.markers = Markers(call.arguments)
    BY <2>2, EntryOfCall
  <2> SUFFICES ASSUME "secret" \in e.markers PROVE FALSE
    OBVIOUS
  <2>4. Policy \in PolicyConfig
    BY SetupAssumption DEF Sound, Policy
  <2>5. CASE call.tool \notin DOMAIN trust
    <3>1. Verdict(call) \in {"deny", "quarantine"}
      BY <2>5 DEF Verdict, Known, Decide, KnowsItsTools
    <3> QED BY <2>1, <3>1 DEF Cleared, Permits
  <2>6. CASE call.tool \in DOMAIN trust
    <3>1. /\ trust[call.tool].capabilities \subseteq Capability
          /\ "send" \in trust[call.tool].capabilities
      BY <2>2, <2>6, EffectIsDeclared DEF Takes
    <3>2. Sensitive(Policy, call.arguments) # {}
      <4>1. "secret" \in UNION {call.arguments[f] : f \in DOMAIN call.arguments}
        BY <2>3, Zenon DEF Markers
      <4> QED BY <4>1, SensitiveText
    <3>3. Outbound(trust[call.tool])
      BY <3>1 DEF Outbound
    <3>4. Verdict(call) = "deny"
      BY <2>4, <2>6, <3>1, <3>2, <3>3, SensitiveOutboundIsDenied DEF Verdict, Known
    <3> QED BY <2>1, <3>4 DEF Cleared, Permits
  <2> QED BY <2>5, <2>6
<1> QED BY <1>2, <1>3

(***************************************************************************)
(* No secret leaves through a sink in clear (POL-007), whatever the lab,   *)
(* the script, the policy's other rules and the operator's answers.        *)
(***************************************************************************)
THEOREM SecretsNeverLeave == Spec => []SecretsStayIn
<1>1. Init => Sound /\ SecretsStayIn
  BY InitSound DEF Init, SecretsStayIn
<1>2. Sound /\ SecretsStayIn /\ [Next]_vars => (Sound /\ SecretsStayIn)'
  BY NextSound, SecretsStayInStep
<1> QED BY <1>1, <1>2, PTL DEF Spec

-----------------------------------------------------------------------------
LEMMA SideEffectsStep ==
    ASSUME Sound, SideEffectsWereApproved, [Next]_vars PROVE SideEffectsWereApproved'
<1>1. setup' = setup
  BY DEF Next, vars, ListTools, AdvanceFixtureState, SkipCall, CallUnguarded, CallPermitted,
     CallRefused, CallHeld, Evaluated, listing, OperatorResolves, OperatorReviews, playing, Finish
<1>2. Policy' = Policy /\ Fixture' = Fixture /\ Enforcing' = Enforcing
  BY <1>1 DEF Policy, Fixture, Enforcing
<1> SUFFICES ASSUME Enforcing, NEW e \in ledger', e.kind \in Effect,
                    e.tool \notin Fixture.drifted, AsksFor(Takes[e.kind])
             PROVE  \E c \in DOMAIN approvals' :
                       /\ c.tool = e.tool
                       /\ e.kind = "simulated_outbound" => e.markers = Markers(c.arguments)
                       /\ approvals'[c].state = "approved" /\ approvals'[c].by # Blank
  BY <1>2 DEF SideEffectsWereApproved, AsksFor
<1>3. \E c \in DOMAIN approvals :
         /\ c.tool = e.tool
         /\ e.kind = "simulated_outbound" => e.markers = Markers(c.arguments)
         /\ approvals[c].state = "approved" /\ approvals[c].by # Blank
  <2>1. CASE e \in ledger
    BY <2>1 DEF SideEffectsWereApproved
  <2>2. CASE e \notin ledger
    <3>1. PICK call : ledger' = ledger \union Entries(call) /\ Cleared(call)
      BY <2>2, LedgerGrows
    <3>2. e \in Entries(call)
      BY <2>2, <3>1
    <3>3. /\ e.tool = call.tool
          /\ e.kind = "simulated_outbound" => e.markers = Markers(call.arguments)
      BY <3>2, EntryOfCall
    <3>4. Policy \in PolicyConfig
      BY SetupAssumption DEF Sound, Policy
    <3>5. Verdict(call) \notin Permits
      <4>1. CASE call.tool \notin DOMAIN trust
        BY <3>4, <4>1 DEF Verdict, Known, Decide, PolicyConfig, Permits
      <4>2. CASE call.tool \in DOMAIN trust
        <5>1. /\ trust[call.tool].capabilities \subseteq Capability
              /\ Takes[e.kind] \in trust[call.tool].capabilities
          BY <3>2, <3>3, <4>2, EffectIsDeclared
        <5> QED
          BY <3>4, <4>2, <5>1, AskedForIsNotPermitted DEF Verdict, Known, AsksFor
      <4> QED BY <4>1, <4>2
    <3>6. call \in DOMAIN approvals /\ approvals[call].state = "approved"
      BY <3>1, <3>5 DEF Cleared
    <3>7. approvals[call].by # Blank
      BY <3>6 DEF Sound, ResolvedBySomebody
    <3> QED BY <3>3, <3>6, <3>7
  <2> QED BY <2>1, <2>2
<1>4. PICK c \in DOMAIN approvals :
         /\ c.tool = e.tool
         /\ e.kind = "simulated_outbound" => e.markers = Markers(c.arguments)
         /\ approvals[c].state = "approved" /\ approvals[c].by # Blank
  BY <1>3
<1>5. c \in DOMAIN approvals' /\ approvals'[c] = approvals[c]
  BY <1>4, NextApprovals DEF ApprovalStep
<1> QED BY <1>4, <1>5

(***************************************************************************)
(* A side effect the policy asks about was approved by somebody, in a call *)
(* that sends the same; an unattended run has none.                        *)
(***************************************************************************)
THEOREM SideEffectsAreApproved == Spec => []SideEffectsWereApproved
<1>1. Init => Sound /\ SideEffectsWereApproved
  BY InitSound DEF Init, SideEffectsWereApproved
<1>2. Sound /\ SideEffectsWereApproved /\ [Next]_vars => (Sound /\ SideEffectsWereApproved)'
  BY NextSound, SideEffectsStep
<1> QED BY <1>1, <1>2, PTL DEF Spec

-----------------------------------------------------------------------------
(***************************************************************************)
(* The engine counts every call it is asked about, run or not: the calls   *)
(* that ran are fewer than the ones counted, and the last was permitted.   *)
(***************************************************************************)
CallsCounted ==
    /\ setup \in Setup
    /\ calls \in Nat
    /\ tally \in [Counters -> Nat]
    /\ Enforcing => tally["executed"] <= calls

LEMMA TallyStep ==
    ASSUME tally \in [Counters -> Nat], NEW call, NEW lifted \in {0, 1}, Execute(call, lifted)
    PROVE  /\ tally' \in [Counters -> Nat]
           /\ tally'["executed"] = tally["executed"] + 1
<1>1. PICK held \in {0, 1} :
        tally' = [tally EXCEPT !["attempted"] = @ + 1, !["executed"] = @ + 1,
                               !["approvals_requested"] = @ + lifted,
                               !["denials"] = @ + held, !["withheld"] = @ + held]
  BY DEF Execute
<1> QED BY <1>1 DEF Counters

LEMMA BlockStep ==
    ASSUME tally \in [Counters -> Nat], NEW requested \in {0, 1}, Block(requested)
    PROVE  /\ tally' \in [Counters -> Nat]
           /\ tally'["executed"] = tally["executed"]
BY DEF Block, Counters

LEMMA LimitIsNatural == ASSUME setup \in Setup PROVE Policy.max_calls \in Nat
<1>1. ASSUME NEW cfg \in PolicyConfig PROVE cfg.max_calls \in Nat
  BY DEF PolicyConfig
<1>2. Policy \in PolicyConfig
  BY SetupAssumption DEF Policy
<1> QED BY <1>1, <1>2

LEMMA OverTheLimitIsDenied ==
    ASSUME Sound, NEW call, calls \in Nat, Verdict(call) # "deny"
    PROVE  calls + 1 <= Policy.max_calls
<1>1. Policy.max_calls \in Nat
  BY LimitIsNatural DEF Sound
<1> QED BY <1>1 DEF Verdict, Decide

(***************************************************************************)
(* A step under the guard leaves the counts alone, or counts a call that   *)
(* was refused, or counts one that ran and was within the limit.           *)
(***************************************************************************)
LEMMA CountingStep ==
    ASSUME Sound, CallsCounted, [Next]_vars
    PROVE  /\ calls' \in Nat
           /\ tally' \in [Counters -> Nat]
           /\ Enforcing =>
                 \/ tally'["executed"] = tally["executed"] /\ calls' >= calls
                 \/ /\ tally'["executed"] = tally["executed"] + 1
                    /\ calls' = calls + 1
                    /\ calls + 1 <= Policy.max_calls
<1> USE DEF CallsCounted
<1>1. ASSUME NEW pin, ListTools(pin)
      PROVE  /\ calls' = calls
             /\ tally' \in [Counters -> Nat]
             /\ tally'["executed"] = tally["executed"]
  <2> DEFINE withheld == Withheld(Advertised, DriftTools(pin,
                            Pinned(pin, [t \in DOMAIN Advertised |-> Advertised[t].hash]),
                            [t \in DOMAIN Advertised |-> Advertised[t].hash]))
  <2>1. tally' = [tally EXCEPT !["withheld"] = @ + Cardinality(withheld),
                               !["denials"] = @ + Cardinality(withheld)]
    BY <1>1 DEF ListTools
  <2>2. IsFiniteSet(DOMAIN Advertised)
    BY LabAssumption, SetupAssumption DEF Sound, Advertised, Fixture
  <2>3. Cardinality(withheld) \in Nat
    BY <2>2, FS_Subset, FS_CardinalityType DEF Withheld
  <2> HIDE DEF withheld
  <2> QED BY <1>1, <2>1, <2>3 DEF ListTools, Counters
<1>2. ASSUME NEW step, CallPermitted(step)
      PROVE  /\ calls' = calls + 1
             /\ tally' \in [Counters -> Nat]
             /\ tally'["executed"] = tally["executed"] + 1
             /\ calls + 1 <= Policy.max_calls
  <2>1. Execute(Resolved(step), 0) /\ calls' = calls + 1 /\ Verdict(Resolved(step)) \in Permits
    BY <1>2 DEF CallPermitted, Evaluated
  <2>2. Verdict(Resolved(step)) # "deny"
    BY <2>1 DEF Permits
  <2> QED BY <2>1, <2>2, TallyStep, OverTheLimitIsDenied
<1>3. ASSUME NEW step, CallHeld(step)
      PROVE  /\ calls' = calls + 1
             /\ tally' \in [Counters -> Nat]
             /\ tally'["executed"] \in {tally["executed"], tally["executed"] + 1}
             /\ calls + 1 <= Policy.max_calls
  <2>1. /\ Execute(Resolved(step), 1) \/ Block(1)
        /\ calls' = calls + 1
        /\ Verdict(Resolved(step)) # "deny"
    BY <1>3 DEF CallHeld, Evaluated
  <2> QED BY <2>1, TallyStep, BlockStep, OverTheLimitIsDenied
<1>4. ASSUME NEW step, CallRefused(step)
      PROVE  /\ calls' = calls + 1
             /\ tally' \in [Counters -> Nat]
             /\ tally'["executed"] = tally["executed"]
  BY <1>4, BlockStep DEF CallRefused, Evaluated
<1>5. ASSUME NEW step, CallUnguarded(step)
      PROVE  calls' = calls /\ tally' \in [Counters -> Nat] /\ ~Enforcing
  BY <1>5, TallyStep DEF CallUnguarded
<1>6. ASSUME NEW step, SkipCall(step)
      PROVE  /\ calls' = calls
             /\ tally' \in [Counters -> Nat]
             /\ tally'["executed"] = tally["executed"]
  BY <1>6 DEF SkipCall, Counters
<1>7. CASE UNCHANGED <<calls, tally>>
  BY <1>7
<1> QED
  <2>1. \/ \E pin \in BOOLEAN : ListTools(pin)
        \/ \E step \in Script[setup.fixture] :
              SkipCall(step) \/ CallUnguarded(step) \/ CallPermitted(step)
                \/ CallRefused(step) \/ CallHeld(step)
        \/ UNCHANGED <<calls, tally>>
    BY DEF Next, vars, AdvanceFixtureState, OperatorResolves, OperatorReviews, playing, Finish
  <2> QED BY <2>1, <1>1, <1>2, <1>3, <1>4, <1>5, <1>6, <1>7

(***************************************************************************)
(* A trace never runs more calls than the policy's limit (POL-010).        *)
(***************************************************************************)
THEOREM CallsAreLimited == Spec => []WithinCallLimit
<1> DEFINE Inv == Sound /\ CallsCounted /\ WithinCallLimit
<1>1. Init => Inv
  <2> SUFFICES ASSUME Init PROVE Inv
    OBVIOUS
  <2>1. Policy.max_calls \in Nat
    BY LimitIsNatural DEF Init
  <2>2. CallsCounted /\ tally["executed"] = 0
    BY DEF Init, CallsCounted, Counters
  <2>3. WithinCallLimit
    BY <2>1, <2>2 DEF WithinCallLimit
  <2> QED BY InitSound, <2>2, <2>3
<1>2. Inv /\ [Next]_vars => Inv'
  <2> SUFFICES ASSUME Inv, [Next]_vars PROVE Inv'
    OBVIOUS
  <2>1. setup' = setup
    BY DEF Next, vars, ListTools, AdvanceFixtureState, SkipCall, CallUnguarded, CallPermitted,
       CallRefused, CallHeld, Evaluated, listing, OperatorResolves, OperatorReviews, playing,
       Finish
  <2>2. Enforcing' = Enforcing /\ Policy' = Policy
    BY <2>1 DEF Enforcing, Policy
  <2>3. Policy.max_calls \in Nat
    BY LimitIsNatural DEF Sound
  <2>4. tally["executed"] \in Nat /\ calls \in Nat
    BY DEF CallsCounted, Counters
  <2>5. CallsCounted'
    BY <2>1, <2>2, <2>4, CountingStep DEF CallsCounted
  <2>6. WithinCallLimit'
    BY <2>2, <2>3, <2>4, CountingStep DEF WithinCallLimit, CallsCounted
  <2> QED BY <2>5, <2>6, NextSound
<1>3. Inv => WithinCallLimit
  OBVIOUS
<1> QED BY <1>1, <1>2, <1>3, PTL DEF Spec

-----------------------------------------------------------------------------
(***************************************************************************)
(* The rest of what ScenarioRun promises: the types, the score, the        *)
(* counters, the model context, and that a tool once stopped stays         *)
(* stopped.  The last rests on what the trust store and the baseline       *)
(* remember of the listings (Remembered).                                  *)
(***************************************************************************)
LEMMA SetupIsFixed ==
    ASSUME [Next]_vars
    PROVE  /\ setup' = setup /\ Fixture' = Fixture /\ Policy' = Policy
           /\ Enforcing' = Enforcing
<1>1. setup' = setup
  BY DEF Next, vars, ListTools, AdvanceFixtureState, SkipCall, CallUnguarded, CallPermitted,
     CallRefused, CallHeld, Evaluated, listing, OperatorResolves, OperatorReviews, playing, Finish
<1> QED BY <1>1 DEF Fixture, Policy, Enforcing

LEMMA PhaseGrows ==
    ASSUME phase \in {0, 1}, [Next]_vars
    PROVE  phase' \in {0, 1} /\ phase <= phase' /\ 1..(phase + 1) \subseteq 1..(phase' + 1)
<1>1. phase' \in {phase, 1}
  BY DEF Next, vars, ListTools, AdvanceFixtureState, SkipCall, CallUnguarded, CallPermitted,
     CallRefused, CallHeld, Evaluated, listing, OperatorResolves, OperatorReviews, playing, Finish
<1>2. CASE phase' = phase
  BY <1>2
<1>3. CASE phase = 0 /\ phase' = 1
  <2>1. 1..(phase + 1) = {1} /\ 1..(phase' + 1) = {1, 2}
    BY <1>3
  <2> QED BY <1>3, <2>1
<1> QED BY <1>1, <1>2, <1>3

\* What a step does: it plays a listing, or runs a call, or leaves what was seen and done alone.
LEMMA StepKinds ==
    ASSUME [Next]_vars
    PROVE  \/ \E pin \in BOOLEAN : ListTools(pin)
           \/ \E step \in Script[setup.fixture], lifted \in {0, 1} :
                 Execute(Resolved(step), lifted) /\ UNCHANGED listing
           \/ UNCHANGED <<ledger, context, last, unsafe, exposed, baseline, trust, observed>>
<1>1. ASSUME NEW step \in Script[setup.fixture],
             CallUnguarded(step) \/ CallPermitted(step) \/ CallRefused(step) \/ CallHeld(step)
      PROVE  \/ \E lifted \in {0, 1} : Execute(Resolved(step), lifted) /\ UNCHANGED listing
             \/ UNCHANGED <<ledger, context, last, unsafe, exposed, baseline, trust, observed>>
  BY <1>1 DEF CallUnguarded, CallPermitted, CallRefused, CallHeld, Evaluated, Block, listing
<1> QED
  BY <1>1 DEF Next, vars, AdvanceFixtureState, SkipCall, listing, OperatorResolves,
     OperatorReviews, playing, Finish

-----------------------------------------------------------------------------
LEMMA EntryNamesItsTool ==
    ASSUME NEW call, NEW e \in Entries(call) PROVE e.tool = call.tool
BY DEF Entries

LEMMA HarmIsScored ==
    ASSUME Sound, NEW call, NEW e \in Entries(call)
    PROVE  /\ e.tool \in Fixture.sensitive =>
                 "sensitive_tool_executed" \in ScoreExecution(call)
           /\ e.kind = "simulated_outbound" /\ e.markers # {} =>
                 "marker_exfiltrated" \in ScoreExecution(call)
           /\ e.kind \in Effect /\ e.tool \in Fixture.drifted =>
                 "drifted_tool_used" \in ScoreExecution(call)
<1>1. e.tool = call.tool
  BY EntryNamesItsTool
<1>2. ASSUME e.kind \in Effect, e.tool \in Fixture.drifted PROVE phase = 1
  <2>1. call.tool \in DOMAIN Advertised /\ e.kind = Advertised[call.tool].effect
    BY <1>2, EntryOfCall
  <2>2. setup.fixture \in DOMAIN Lab
    BY SetupAssumption DEF Sound
  <2>3. CASE phase = 0
    <3>1. Advertised = Lab[setup.fixture].tools[1]
      BY <2>3 DEF Advertised, Fixture
    <3>2. Advertised[call.tool].effect = "none"
      BY <1>1, <1>2, <2>1, <2>2, <3>1, DriftAssumption DEF Fixture
    <3> QED BY <2>1, <3>2, <1>2 DEF Effect
  <2> QED BY <2>3 DEF Sound
<1> QED BY <1>1, <1>2 DEF ScoreExecution

(***************************************************************************)
(* The score misses nothing: what the ledger shows of sensitive tools,     *)
(* drifted tools and secrets leaving is among the run's unsafe outcomes,   *)
(* under every guard.                                                      *)
(***************************************************************************)
THEOREM NothingGoesUnscored == Spec => []ScoreMissesNothing
<1>1. Init => Sound /\ ScoreMissesNothing
  BY InitSound DEF Init, ScoreMissesNothing
<1>2. ASSUME Sound, ScoreMissesNothing, [Next]_vars PROVE ScoreMissesNothing'
  <2>1. unsafe \subseteq unsafe'
    <3>1. ASSUME NEW pin \in BOOLEAN, ListTools(pin) PROVE unsafe \subseteq unsafe'
      BY <3>1 DEF ListTools
    <3>2. ASSUME NEW call, NEW lifted, Execute(call, lifted) PROVE unsafe \subseteq unsafe'
      BY <3>2 DEF Execute
    <3> QED BY <1>2, <3>1, <3>2, StepKinds
  <2> SUFFICES ASSUME NEW e \in ledger'
               PROVE  /\ e.tool \in Fixture.sensitive => "sensitive_tool_executed" \in unsafe'
                      /\ e.kind = "simulated_outbound" /\ e.markers # {} =>
                            "marker_exfiltrated" \in unsafe'
                      /\ e.kind \in Effect /\ e.tool \in Fixture.drifted =>
                            "drifted_tool_used" \in unsafe'
    BY <1>2, SetupIsFixed DEF ScoreMissesNothing
  <2>2. CASE e \in ledger
    BY <1>2, <2>1, <2>2 DEF ScoreMissesNothing
  <2>3. CASE e \notin ledger
    <3>1. PICK call : e \in Entries(call) /\ ScoreExecution(call) \subseteq unsafe'
      BY <1>2, <2>3, StepKinds DEF ListTools, Execute
    <3> QED BY <1>2, <3>1, HarmIsScored
  <2> QED BY <2>2, <2>3
<1> QED BY <1>1, <1>2, NextSound, PTL DEF Spec

-----------------------------------------------------------------------------
\* A policy that withholds injected text lets none of it through in a response.
LEMMA ShownIsClean ==
    ASSUME NEW cfg, NEW text, cfg.quarantine_on_injection
    PROVE  "injection" \notin CheckResponse(cfg, text).shown
BY DEF CheckResponse

LEMMA HostileTextStep ==
    ASSUME Sound, HostileTextStaysOut, [Next]_vars PROVE HostileTextStaysOut'
<1> SUFFICES ASSUME Enforcing, Policy.quarantine_on_injection, "injection" \in context'
             PROVE  \E p \in 1..(phase' + 1) : \E t \in DOMAIN Fixture.tools[p] :
                       /\ "injection" \in Fixture.tools[p][t].describes
                       /\ ~Fixture.tools[p][t].flagged
  BY SetupIsFixed DEF HostileTextStaysOut
<1>1. \E p \in 1..(phase + 1) : \E t \in DOMAIN Fixture.tools[p] :
         "injection" \in Fixture.tools[p][t].describes /\ ~Fixture.tools[p][t].flagged
  <2>1. CASE "injection" \in context
    BY <2>1 DEF HostileTextStaysOut
  <2>2. CASE "injection" \notin context
    <3>1. ASSUME NEW pin \in BOOLEAN, ListTools(pin)
          PROVE  \E t \in DOMAIN Advertised :
                    "injection" \in Advertised[t].describes /\ ~Advertised[t].flagged
      <4>1. PICK t \in exposed' : "injection" \in Advertised[t].describes
        BY <2>2, <3>1 DEF ListTools
      <4>2. PICK drifted : exposed' = DOMAIN Advertised \ Withheld(Advertised, drifted)
        BY <3>1 DEF ListTools
      <4> QED BY <4>1, <4>2 DEF Withheld
    <3>2. ASSUME NEW call, NEW lifted, Execute(call, lifted) PROVE FALSE
      <4>1. context' = context \union CheckResponse(Policy, Answer(call)).shown
        BY <3>2 DEF Execute, Inspected
      <4> QED BY <2>2, <4>1, ShownIsClean
    <3>3. \E t \in DOMAIN Advertised :
             "injection" \in Advertised[t].describes /\ ~Advertised[t].flagged
      BY <2>2, <3>1, <3>2, StepKinds
    <3>4. phase + 1 \in 1..(phase + 1)
      BY DEF Sound
    <3> QED BY <3>3, <3>4 DEF Advertised
  <2> QED BY <2>1, <2>2
<1> QED BY <1>1, PhaseGrows DEF Sound

(***************************************************************************)
(* Hostile text reaches the model only in a definition that the fixture    *)
(* has advertised and the analyzer does not flag, never in a response and  *)
(* never in a definition that was flagged.                                 *)
(***************************************************************************)
THEOREM HostileTextIsKeptOut == Spec => []HostileTextStaysOut
<1>1. Init => Sound /\ HostileTextStaysOut
  BY InitSound DEF Init, HostileTextStaysOut
<1> QED BY <1>1, NextSound, HostileTextStep, PTL DEF Spec

-----------------------------------------------------------------------------
(***************************************************************************)
(* What the store and the baseline remember.  A trust record is one of the *)
(* tool's listings, with the hash the baseline had for it then; the        *)
(* baseline is a whole listing of a phase already reached.  So a record    *)
(* that shows drift was written in the second phase, from a baseline of    *)
(* the first, and every listing to come shows the same.                    *)
(***************************************************************************)
RecordsAreListed ==
    \A t \in DOMAIN trust : \E p \in {1, 2} :
        /\ t \in DOMAIN Fixture.tools[p]
        /\ trust[t].capabilities = Fixture.tools[p][t].capabilities
        /\ trust[t].quarantined = Fixture.tools[p][t].flagged

Snapshot(tools) == [t \in DOMAIN tools |-> tools[t].hash]

BaselineIsListed ==
    baseline # Nothing => \E p \in 1..(phase + 1) : baseline = Snapshot(Fixture.tools[p])

DriftIsLasting ==
    \A t \in DOMAIN trust : Drifted(trust[t]) =>
        /\ phase = 1
        /\ t \in DOMAIN baseline /\ trust[t].approved_hash = baseline[t]
        /\ t \in DOMAIN Fixture.tools[2]
        /\ trust[t].current_hash = Fixture.tools[2][t].hash

Remembered == RecordsAreListed /\ BaselineIsListed /\ DriftIsLasting

\* What a listing leaves in the baseline and in the trust store.
LEMMA ListingRecords ==
    ASSUME NEW pin, ListTools(pin)
    PROVE  /\ baseline' = Pinned(pin, Snapshot(Advertised))
           /\ \E drifted : trust' = IF Enforcing
                                    THEN Register(Advertised, Pinned(pin, Snapshot(Advertised)), drifted)
                                    ELSE trust
           /\ UNCHANGED <<phase, setup, Fixture>>
BY DEF ListTools, Snapshot, Fixture

LEMMA BaselineStep ==
    ASSUME Sound, BaselineIsListed, NEW pin, ListTools(pin) PROVE BaselineIsListed'
<1>0. phase' = phase /\ Fixture' = Fixture
  BY ListingRecords
<1> SUFFICES ASSUME baseline' # Nothing
             PROVE  \E p \in 1..(phase + 1) : baseline' = Snapshot(Fixture.tools[p])
  BY <1>0 DEF BaselineIsListed, Nothing, Snapshot
<1>1. CASE baseline' = baseline
  BY <1>1 DEF BaselineIsListed
<1>2. CASE baseline' = Snapshot(Advertised)
  <2>1. phase + 1 \in 1..(phase + 1)
    BY DEF Sound
  <2> QED BY <1>2, <2>1 DEF Advertised
<1> QED BY <1>1, <1>2, ListingRecords DEF Pinned

LEMMA RecordsStep ==
    ASSUME Sound, RecordsAreListed, NEW pin, ListTools(pin) PROVE RecordsAreListed'
<1> SUFFICES ASSUME NEW t \in DOMAIN trust'
             PROVE  \E p \in {1, 2} :
                       /\ t \in DOMAIN Fixture.tools[p]
                       /\ trust'[t].capabilities = Fixture.tools[p][t].capabilities
                       /\ trust'[t].quarantined = Fixture.tools[p][t].flagged
  BY ListingRecords DEF RecordsAreListed
<1>1. PICK pinned, drifted :
        trust' = IF Enforcing THEN Register(Advertised, pinned, drifted) ELSE trust
  BY ListingRecords
<1>2. CASE Enforcing /\ t \in DOMAIN Advertised
  <2>1. /\ trust'[t].capabilities = Advertised[t].capabilities
        /\ trust'[t].quarantined = Advertised[t].flagged
    BY <1>1, <1>2 DEF Register
  <2>2. phase + 1 \in {1, 2}
    BY DEF Sound
  <2> QED BY <1>2, <2>1, <2>2 DEF Advertised
<1>3. CASE ~(Enforcing /\ t \in DOMAIN Advertised)
  <2>1. t \in DOMAIN trust /\ trust'[t] = trust[t]
    BY <1>1, <1>3 DEF Register
  <2> QED BY <2>1 DEF RecordsAreListed
<1> QED BY <1>2, <1>3

(***************************************************************************)
(* A listing compares with the baseline it found, or pins and shows none.  *)
(***************************************************************************)
LEMMA ListingShowsDrift ==
    ASSUME Sound, BaselineIsListed, NEW pin, ListTools(pin), Enforcing,
           NEW t \in DOMAIN Advertised
    PROVE  /\ t \in DOMAIN trust'
           /\ trust'[t].current_hash = Advertised[t].hash
           /\ Drifted(trust'[t]) =>
                 /\ phase = 1
                 /\ t \in DOMAIN baseline' /\ trust'[t].approved_hash = baseline'[t]
                 /\ Advertised = Fixture.tools[2]
<1> DEFINE pinned == Pinned(pin, Snapshot(Advertised))
<1>1. PICK drifted : baseline' = pinned /\ trust' = Register(Advertised, pinned, drifted)
  BY ListingRecords
<1>2. /\ t \in DOMAIN trust'
      /\ trust'[t].current_hash = Advertised[t].hash
      /\ trust'[t].approved_hash = IF t \in DOMAIN pinned THEN pinned[t] ELSE "none"
  BY <1>1 DEF Register
<1> SUFFICES ASSUME Drifted(trust'[t])
             PROVE  /\ phase = 1
                    /\ t \in DOMAIN baseline' /\ trust'[t].approved_hash = baseline'[t]
                    /\ Advertised = Fixture.tools[2]
  BY <1>2
<1>3. t \in DOMAIN pinned /\ pinned[t] # Advertised[t].hash
  BY <1>2 DEF Drifted, Approved
<1>4. pinned # Snapshot(Advertised)
  BY <1>3 DEF Snapshot
<1>5. pinned = baseline /\ baseline # Nothing
  BY <1>3, <1>4 DEF Pinned, Nothing
<1>6. PICK p \in 1..(phase + 1) : baseline = Snapshot(Fixture.tools[p])
  BY <1>5 DEF BaselineIsListed
<1>7. p # phase + 1
  BY <1>4, <1>5, <1>6 DEF Advertised
<1>8. phase = 1
  BY <1>6, <1>7 DEF Sound
<1> QED BY <1>1, <1>2, <1>3, <1>8 DEF Advertised

LEMMA DriftStep ==
    ASSUME Sound, Remembered, NEW pin, ListTools(pin) PROVE DriftIsLasting'
<1> SUFFICES ASSUME NEW t \in DOMAIN trust', Drifted(trust'[t])
             PROVE  /\ phase = 1
                    /\ t \in DOMAIN baseline' /\ trust'[t].approved_hash = baseline'[t]
                    /\ t \in DOMAIN Fixture.tools[2]
                    /\ trust'[t].current_hash = Fixture.tools[2][t].hash
  BY ListingRecords DEF DriftIsLasting, Drifted, Approved
<1>1. CASE Enforcing /\ t \in DOMAIN Advertised
  BY <1>1, ListingShowsDrift DEF Remembered
<1>2. CASE ~(Enforcing /\ t \in DOMAIN Advertised)
  <2>1. t \in DOMAIN trust /\ trust'[t] = trust[t]
    BY <1>2, ListingRecords DEF Register
  <2>2. /\ phase = 1
        /\ t \in DOMAIN baseline /\ trust[t].approved_hash = baseline[t]
        /\ t \in DOMAIN Fixture.tools[2]
        /\ trust[t].current_hash = Fixture.tools[2][t].hash
    BY <2>1 DEF Remembered, DriftIsLasting
  <2>3. baseline' = baseline
    BY <2>2, ListingRecords DEF Pinned, Nothing
  <2> QED BY <2>1, <2>2, <2>3
<1> QED BY <1>1, <1>2

LEMMA RememberedStep ==
    ASSUME Sound, Remembered, [Next]_vars PROVE Remembered'
<1>1. CASE \E pin \in BOOLEAN : ListTools(pin)
  BY <1>1, BaselineStep, RecordsStep, DriftStep DEF Remembered
<1>2. CASE UNCHANGED <<baseline, trust>>
  <2>1. RecordsAreListed'
    BY <1>2, SetupIsFixed DEF Remembered, RecordsAreListed
  <2>2. BaselineIsListed'
    BY <1>2, SetupIsFixed, PhaseGrows DEF Remembered, BaselineIsListed, Sound, Nothing, Snapshot
  <2>3. DriftIsLasting'
    <3>1. phase = 1 => phase' = 1
      BY PhaseGrows DEF Sound
    <3> QED
      BY <1>2, <3>1, SetupIsFixed DEF Remembered, DriftIsLasting, Drifted, Approved
  <2> QED BY <2>1, <2>2, <2>3 DEF Remembered
<1> QED BY <1>1, <1>2, StepKinds DEF listing

-----------------------------------------------------------------------------
Refusals == {"quarantine", "deny"}

(***************************************************************************)
(* One candidate that refuses a call is enough, and no approval lifts it.  *)
(***************************************************************************)
LEMMA RefusedIsNotCleared ==
    ASSUME Sound, NEW call, call.tool \in DOMAIN trust,
           trust[call.tool].capabilities \subseteq Capability,
           Candidates(Policy, setup.mode, trust[call.tool], call.arguments, setup.destructive)
              \cap Refusals # {}
    PROVE  ~Cleared(call)
<1> DEFINE tool == trust[call.tool]
           S == Candidates(Policy, setup.mode, tool, call.arguments, setup.destructive)
<1>1. Policy \in PolicyConfig
  BY SetupAssumption DEF Sound, Policy
<1>2. S \subseteq Decision
  BY <1>1, CandidatesAreDecisions
<1>3. PICK d \in S : d \in Refusals
  OBVIOUS
<1>4. Strictest(S) \in Refusals
  <2>1. Strictest(S) \in Decision /\ Strictness[d] <= Strictness[Strictest(S)]
    BY <1>2, <1>3, StrictestIsMaximal
  <2> QED BY <1>3, <2>1 DEF Decision, Strictness, Refusals
<1>5. (CHOOSE x \in {tool} : TRUE) = tool
  OBVIOUS
<1>6. Verdict(call) \in Refusals
  BY <1>4, <1>5 DEF Verdict, Known, Decide, Evaluate, Refusals
<1> QED BY <1>6 DEF Cleared, Refusals, Permits

LEMMA RecordedCapabilities ==
    ASSUME Sound, RecordsAreListed, NEW t \in DOMAIN trust
    PROVE  trust[t].capabilities \subseteq Capability
<1>1. PICK p \in {1, 2} : /\ t \in DOMAIN Fixture.tools[p]
                          /\ trust[t].capabilities = Fixture.tools[p][t].capabilities
  BY DEF RecordsAreListed
<1>2. Fixture.tools[p][t] \in ToolDefinition
  <2>1. setup.fixture \in DOMAIN Lab
    BY SetupAssumption DEF Sound
  <2> QED BY <1>1, <2>1, LabAssumption DEF Fixture
<1> QED BY <1>1, <1>2 DEF ToolDefinition

\* A flagged tool is not cleared where the policy lets nobody call an unknown one.
LEMMA FlaggedIsNotCleared ==
    ASSUME Sound, RecordsAreListed, KnowsItsTools, NEW call, AlwaysFlagged(call.tool)
    PROVE  ~Cleared(call)
<1>1. CASE call.tool \notin DOMAIN trust
  <2>1. Verdict(call) \in Refusals
    BY <1>1 DEF Verdict, Known, Decide, KnowsItsTools, Refusals
  <2> QED BY <2>1 DEF Cleared, Refusals, Permits
<1>2. CASE call.tool \in DOMAIN trust
  <2>1. trust[call.tool].quarantined
    BY <1>2 DEF RecordsAreListed, AlwaysFlagged
  <2>2. "quarantine" \in
           Candidates(Policy, setup.mode, trust[call.tool], call.arguments, setup.destructive)
    BY <2>1 DEF Candidates
  <2> QED BY <1>2, <2>2, RecordedCapabilities, RefusedIsNotCleared DEF Refusals
<1> QED BY <1>1, <1>2

LEMMA QuarantineStep ==
    ASSUME Sound, RecordsAreListed, QuarantineCannotBeLifted, [Next]_vars
    PROVE  QuarantineCannotBeLifted'
<1> SUFFICES ASSUME KnowsItsTools
             PROVE  /\ \A t \in exposed' : ~AlwaysFlagged(t)
                    /\ \A e \in ledger' : ~AlwaysFlagged(e.tool)
  BY SetupIsFixed DEF QuarantineCannotBeLifted, KnowsItsTools, AlwaysFlagged
<1>1. ASSUME NEW t \in exposed' PROVE ~AlwaysFlagged(t)
  <2>1. CASE t \in exposed
    BY <2>1 DEF QuarantineCannotBeLifted
  <2>2. CASE t \notin exposed
    <3>1. PICK drifted : exposed' = DOMAIN Advertised \ Withheld(Advertised, drifted)
      BY <1>1, <2>2, StepKinds DEF ListTools, listing
    <3>2. t \in DOMAIN Advertised /\ ~Advertised[t].flagged
      BY <1>1, <3>1 DEF Withheld, KnowsItsTools
    <3>3. phase + 1 \in {1, 2}
      BY DEF Sound
    <3> QED BY <3>2, <3>3 DEF Advertised, AlwaysFlagged
  <2> QED BY <2>1, <2>2
<1>2. ASSUME NEW e \in ledger' PROVE ~AlwaysFlagged(e.tool)
  <2>1. CASE e \in ledger
    BY <2>1 DEF QuarantineCannotBeLifted
  <2>2. CASE e \notin ledger
    <3>1. PICK call : ledger' = ledger \union Entries(call) /\ Cleared(call)
      BY <1>2, <2>2, LedgerGrows DEF KnowsItsTools
    <3>2. e.tool = call.tool
      BY <1>2, <2>2, <3>1, EntryNamesItsTool
    <3> QED BY <3>1, <3>2, FlaggedIsNotCleared
  <2> QED BY <2>1, <2>2
<1> QED BY <1>1, <1>2

(***************************************************************************)
(* A tool the store has seen drift, under a policy that refuses that       *)
(* drift, does not run in this step and is still seen to have drifted.     *)
(***************************************************************************)
LEMMA DriftedStaysStopped ==
    ASSUME Sound, Remembered, [Next]_vars, Enforcing, NEW t \in DOMAIN trust,
           Drifted(trust[t]), DriftDecision(Policy, trust[t].severity) \in {"quarantine", "deny"}
    PROVE  /\ \A e \in ledger' \ ledger : e.tool # t
           /\ t \in DOMAIN trust' /\ Drifted(trust'[t])
<1>1. ASSUME NEW e \in ledger' \ ledger, e.tool = t PROVE FALSE
  <2>1. PICK call : ledger' = ledger \union Entries(call) /\ Cleared(call)
    BY <1>1, LedgerGrows
  <2>2. call.tool = t
    BY <1>1, <2>1, EntryNamesItsTool
  <2>3. DriftDecision(Policy, trust[t].severity) \in
           Candidates(Policy, setup.mode, trust[t], call.arguments, setup.destructive)
    BY DEF Candidates
  <2> QED
    BY <2>1, <2>2, <2>3, RecordedCapabilities, RefusedIsNotCleared DEF Remembered, Refusals
<1>2. /\ phase = 1
      /\ t \in DOMAIN baseline /\ trust[t].approved_hash = baseline[t]
      /\ t \in DOMAIN Fixture.tools[2]
      /\ trust[t].current_hash = Fixture.tools[2][t].hash
  BY DEF Remembered, DriftIsLasting
<1>3. ASSUME NEW pin \in BOOLEAN, ListTools(pin)
      PROVE  t \in DOMAIN trust' /\ Drifted(trust'[t])
  <2>1. baseline' = baseline
    BY <1>2, <1>3, ListingRecords DEF Pinned, Nothing
  <2>2. PICK drifted : trust' = Register(Advertised, baseline, drifted)
    BY <1>3, <2>1, ListingRecords
  <2>3. CASE t \in DOMAIN Advertised
    <3>1. Advertised[t].hash = trust[t].current_hash
      BY <1>2 DEF Advertised
    <3>2. /\ t \in DOMAIN trust'
          /\ trust'[t].approved_hash = trust[t].approved_hash
          /\ trust'[t].current_hash = trust[t].current_hash
      BY <1>2, <2>2, <2>3, <3>1 DEF Register
    <3> QED BY <3>2 DEF Drifted, Approved
  <2>4. CASE t \notin DOMAIN Advertised
    BY <2>2, <2>4 DEF Register
  <2> QED BY <2>3, <2>4
<1>4. ASSUME trust' = trust PROVE t \in DOMAIN trust' /\ Drifted(trust'[t])
  BY <1>4 DEF Drifted, Approved
<1> QED BY <1>1, <1>3, <1>4, StepKinds DEF listing

(***************************************************************************)
(* What is stopped stays stopped: a tool flagged in every listing is never *)
(* shown and never runs, and one whose drift the policy refuses does not   *)
(* run again, whatever is listed, pinned or approved.                      *)
(***************************************************************************)
THEOREM StoppedForGood == Spec => StoppedStaysStopped
<1> DEFINE Inv == Sound /\ Remembered /\ QuarantineCannotBeLifted
           Stays == Enforcing =>
              \A t \in DOMAIN trust :
                 Drifted(trust[t]) /\ DriftDecision(Policy, trust[t].severity) \in {"quarantine", "deny"} =>
                    /\ \A e \in ledger' \ ledger : e.tool # t
                    /\ t \in DOMAIN trust' /\ Drifted(trust'[t])
<1>1. Init => Inv
  <2> SUFFICES ASSUME Init PROVE Inv
    OBVIOUS
  <2>1. Remembered
    BY DEF Init, Remembered, RecordsAreListed, BaselineIsListed, DriftIsLasting, Nothing
  <2> QED BY <2>1, InitSound DEF Init, QuarantineCannotBeLifted
<1>2. Inv /\ [Next]_vars => Inv'
  BY NextSound, RememberedStep, QuarantineStep DEF Remembered
<1>3. Inv /\ [Next]_vars => [Stays]_vars
  BY DriftedStaysStopped
<1>4. Inv => QuarantineCannotBeLifted
  OBVIOUS
<1> QED BY <1>1, <1>2, <1>3, <1>4, PTL DEF Spec, StoppedStaysStopped, DriftSeenIsDriftStopped

-----------------------------------------------------------------------------
(***************************************************************************)
(* The counters.                                                           *)
(***************************************************************************)
Agreed == Sound /\ CallsCounted /\ CountersAgree /\ IsFiniteSet(DOMAIN approvals)

\* A step that changes no counter of CountersAgree but denials, which it lets grow.
LEMMA IdleCounters ==
    ASSUME Agreed, [Next]_vars, UNCHANGED calls,
           tally' \in [Counters -> Nat], DOMAIN approvals' = DOMAIN approvals,
           \A c \in {"attempted", "executed", "blocked", "approvals_requested"} :
               tally'[c] = tally[c],
           tally["denials"] <= tally'["denials"]
    PROVE  CountersAgree'
<1>1. \A c \in {"attempted", "executed", "blocked", "approvals_requested", "denials"} :
         tally[c] \in Nat /\ tally'[c] \in Nat
  BY DEF Agreed, CallsCounted, Counters
<1>2. Enforcing' = Enforcing
  BY SetupIsFixed
<1>3. tally["blocked"] <= tally'["denials"] + tally["approvals_requested"]
  BY <1>1 DEF Agreed, CountersAgree
<1> QED BY <1>1, <1>2, <1>3 DEF Agreed, CountersAgree

\* A call that ran, or was blocked, after `requested' requests of which at most one is new.
LEMMA CalledCounters ==
    ASSUME Agreed, [Next]_vars, NEW requested \in {0, 1}, NEW ran \in {0, 1},
           Enforcing => calls' = calls + 1,
           tally' \in [Counters -> Nat],
           tally'["attempted"] = tally["attempted"] + 1,
           tally'["executed"] = tally["executed"] + ran,
           tally'["blocked"] = tally["blocked"] + (1 - ran),
           tally'["approvals_requested"] = tally["approvals_requested"] + requested,
           tally["denials"] <= tally'["denials"],
           ran = 0 /\ requested = 0 => tally'["denials"] = tally["denials"] + 1,
           Cardinality(DOMAIN approvals') \in Nat,
           Cardinality(DOMAIN approvals') <= Cardinality(DOMAIN approvals) + requested
    PROVE  CountersAgree'
<1>1. \A c \in {"attempted", "executed", "blocked", "approvals_requested", "denials"} :
         tally[c] \in Nat /\ tally'[c] \in Nat
  BY DEF Agreed, CallsCounted, Counters
<1>2. Enforcing' = Enforcing
  BY SetupIsFixed
<1>3. tally'["blocked"] <= tally'["denials"] + tally'["approvals_requested"]
  <2>1. tally["blocked"] <= tally["denials"] + tally["approvals_requested"]
    BY DEF Agreed, CountersAgree
  <2>2. CASE ran = 1
    BY <1>1, <2>1, <2>2
  <2>3. CASE ran = 0 /\ requested = 1
    BY <1>1, <2>1, <2>3
  <2>4. CASE ran = 0 /\ requested = 0
    BY <1>1, <2>1, <2>4
  <2> QED BY <2>2, <2>3, <2>4
<1>4. Cardinality(DOMAIN approvals') <= tally'["approvals_requested"]
  <2>1. Cardinality(DOMAIN approvals) \in Nat
    BY FS_CardinalityType DEF Agreed
  <2> QED BY <1>1, <2>1 DEF Agreed, CountersAgree
<1>5. tally'["attempted"] = tally'["executed"] + tally'["blocked"]
  BY <1>1 DEF Agreed, CountersAgree
<1>6. Enforcing => calls' = tally'["attempted"]
  BY <1>1 DEF Agreed, CountersAgree
<1> QED BY <1>2, <1>3, <1>4, <1>5, <1>6 DEF CountersAgree

LEMMA ExecuteCounts ==
    ASSUME tally \in [Counters -> Nat], NEW call, NEW lifted \in {0, 1}, Execute(call, lifted)
    PROVE  /\ tally' \in [Counters -> Nat]
           /\ tally'["attempted"] = tally["attempted"] + 1
           /\ tally'["executed"] = tally["executed"] + 1
           /\ tally'["blocked"] = tally["blocked"]
           /\ tally'["approvals_requested"] = tally["approvals_requested"] + lifted
           /\ tally["denials"] <= tally'["denials"]
<1>1. PICK held \in {0, 1} :
        tally' = [tally EXCEPT !["attempted"] = @ + 1, !["executed"] = @ + 1,
                               !["approvals_requested"] = @ + lifted,
                               !["denials"] = @ + held, !["withheld"] = @ + held]
  BY DEF Execute
<1> QED BY <1>1 DEF Counters

LEMMA BlockCounts ==
    ASSUME tally \in [Counters -> Nat], NEW requested \in {0, 1}, Block(requested)
    PROVE  /\ tally' \in [Counters -> Nat]
           /\ tally'["attempted"] = tally["attempted"] + 1
           /\ tally'["executed"] = tally["executed"]
           /\ tally'["blocked"] = tally["blocked"] + 1
           /\ tally'["approvals_requested"] = tally["approvals_requested"] + requested
           /\ tally'["denials"] = tally["denials"] + (1 - requested)
BY DEF Block, Counters

\* A request adds at most one to the registry, and nothing else adds any.
LEMMA RegistryGrows ==
    ASSUME IsFiniteSet(DOMAIN approvals), NEW c, Request(c)
    PROVE  /\ IsFiniteSet(DOMAIN approvals')
           /\ Cardinality(DOMAIN approvals') \in Nat
           /\ Cardinality(DOMAIN approvals') <= Cardinality(DOMAIN approvals) + 1
<1>1. DOMAIN approvals' = DOMAIN approvals \union {c}
  BY DEF Request, Requested
<1>2. Cardinality(DOMAIN approvals) \in Nat
  BY FS_CardinalityType
<1> QED BY <1>1, <1>2, FS_AddElement, FS_CardinalityType

LEMMA CountersStep ==
    ASSUME Agreed, [Next]_vars
    PROVE  CountersAgree' /\ IsFiniteSet(DOMAIN approvals')
<1>1. /\ tally \in [Counters -> Nat] /\ tally' \in [Counters -> Nat]
      /\ IsFiniteSet(DOMAIN approvals) /\ Cardinality(DOMAIN approvals) \in Nat
  BY CountingStep, FS_CardinalityType DEF Agreed, CallsCounted
<1>2. ASSUME NEW pin \in BOOLEAN, ListTools(pin)
      PROVE  CountersAgree' /\ IsFiniteSet(DOMAIN approvals')
  <2> DEFINE withheld == Withheld(Advertised, DriftTools(pin,
                            Pinned(pin, [t \in DOMAIN Advertised |-> Advertised[t].hash]),
                            [t \in DOMAIN Advertised |-> Advertised[t].hash]))
  <2>1. tally' = [tally EXCEPT !["withheld"] = @ + Cardinality(withheld),
                               !["denials"] = @ + Cardinality(withheld)]
    BY <1>2 DEF ListTools
  <2>2. IsFiniteSet(DOMAIN Advertised)
    BY LabAssumption, SetupAssumption DEF Agreed, Sound, Advertised, Fixture
  <2>3. Cardinality(withheld) \in Nat
    BY <2>2, FS_Subset, FS_CardinalityType DEF Withheld
  <2> HIDE DEF withheld
  <2>4. /\ \A c \in {"attempted", "executed", "blocked", "approvals_requested"} :
              tally'[c] = tally[c]
        /\ tally["denials"] <= tally'["denials"]
    BY <1>1, <2>1, <2>3 DEF Counters
  <2>5. UNCHANGED <<calls, approvals>>
    BY <1>2 DEF ListTools
  <2> QED BY <1>1, <2>4, <2>5, IdleCounters
<1>3. ASSUME NEW step, SkipCall(step) PROVE CountersAgree' /\ IsFiniteSet(DOMAIN approvals')
  <2>1. /\ \A c \in {"attempted", "executed", "blocked", "approvals_requested"} :
              tally'[c] = tally[c]
        /\ tally["denials"] <= tally'["denials"]
    BY <1>1, <1>3 DEF SkipCall, Counters
  <2>2. UNCHANGED <<calls, approvals>>
    BY <1>3 DEF SkipCall
  <2> QED BY <1>1, <2>1, <2>2, IdleCounters
<1>4. ASSUME NEW call, Execute(call, 0), UNCHANGED approvals, Enforcing => calls' = calls + 1
      PROVE  CountersAgree' /\ IsFiniteSet(DOMAIN approvals')
  <2>1. /\ tally'["attempted"] = tally["attempted"] + 1
        /\ tally'["executed"] = tally["executed"] + 1
        /\ tally'["blocked"] = tally["blocked"] + (1 - 1)
        /\ tally'["approvals_requested"] = tally["approvals_requested"] + 0
        /\ tally["denials"] <= tally'["denials"]
    BY <1>1, <1>4, ExecuteCounts DEF Counters
  <2>2. CountersAgree'
    BY <1>1, <1>4, <2>1, CalledCounters
  <2> QED BY <1>1, <1>4, <2>2
<1>5. ASSUME NEW step, CallRefused(step)
      PROVE  CountersAgree' /\ IsFiniteSet(DOMAIN approvals')
  <2>1. Block(0) /\ calls' = calls + 1 /\ UNCHANGED approvals
    BY <1>5 DEF CallRefused, Evaluated
  <2>2. /\ tally'["attempted"] = tally["attempted"] + 1
        /\ tally'["executed"] = tally["executed"] + 0
        /\ tally'["blocked"] = tally["blocked"] + (1 - 0)
        /\ tally'["approvals_requested"] = tally["approvals_requested"] + 0
        /\ tally'["denials"] = tally["denials"] + 1
        /\ tally["denials"] <= tally'["denials"]
    BY <1>1, <2>1, BlockCounts DEF Counters
  <2>3. CountersAgree'
    BY <1>1, <2>1, <2>2, CalledCounters
  <2> QED BY <1>1, <2>1, <2>3
<1>6. ASSUME NEW step, CallHeld(step)
      PROVE  CountersAgree' /\ IsFiniteSet(DOMAIN approvals')
  <2>1. Request(Resolved(step)) /\ calls' = calls + 1
    BY <1>6 DEF CallHeld, Evaluated
  <2>2. /\ IsFiniteSet(DOMAIN approvals')
        /\ Cardinality(DOMAIN approvals') \in Nat
        /\ Cardinality(DOMAIN approvals') <= Cardinality(DOMAIN approvals) + 1
    BY <1>1, <2>1, RegistryGrows
  <2>3. CASE Execute(Resolved(step), 1)
    <3>1. /\ tally'["attempted"] = tally["attempted"] + 1
          /\ tally'["executed"] = tally["executed"] + 1
          /\ tally'["blocked"] = tally["blocked"] + (1 - 1)
          /\ tally'["approvals_requested"] = tally["approvals_requested"] + 1
          /\ tally["denials"] <= tally'["denials"]
      BY <1>1, <2>3, ExecuteCounts DEF Counters
    <3>2. CountersAgree'
      BY <1>1, <2>1, <2>2, <3>1, CalledCounters
    <3> QED BY <2>2, <3>2
  <2>4. CASE Block(1)
    <3>1. /\ tally'["attempted"] = tally["attempted"] + 1
          /\ tally'["executed"] = tally["executed"] + 0
          /\ tally'["blocked"] = tally["blocked"] + (1 - 0)
          /\ tally'["approvals_requested"] = tally["approvals_requested"] + 1
          /\ tally["denials"] <= tally'["denials"]
      BY <1>1, <2>4, BlockCounts DEF Counters
    <3>2. CountersAgree'
      BY <1>1, <2>1, <2>2, <3>1, CalledCounters
    <3> QED BY <2>2, <3>2
  <2> QED BY <1>6, <2>3, <2>4 DEF CallHeld
<1>7. ASSUME UNCHANGED <<calls, tally>>, DOMAIN approvals' = DOMAIN approvals
      PROVE  CountersAgree' /\ IsFiniteSet(DOMAIN approvals')
  <2>1. tally["denials"] <= tally'["denials"]
    BY <1>1, <1>7 DEF Counters
  <2>2. CountersAgree'
    BY <1>1, <1>7, <2>1, IdleCounters
  <2> QED BY <1>1, <1>7, <2>2
<1>8. \/ \E pin \in BOOLEAN : ListTools(pin)
      \/ \E step \in Script[setup.fixture] : SkipCall(step) \/ CallRefused(step) \/ CallHeld(step)
      \/ \E call : Execute(call, 0) /\ UNCHANGED approvals /\ (Enforcing => calls' = calls + 1)
      \/ UNCHANGED <<calls, tally>> /\ DOMAIN approvals' = DOMAIN approvals
  <2>1. ASSUME NEW step, CallUnguarded(step) \/ CallPermitted(step)
        PROVE  \E call : Execute(call, 0) /\ UNCHANGED approvals /\ (Enforcing => calls' = calls + 1)
    BY <2>1 DEF CallUnguarded, CallPermitted, Evaluated
  <2>2. ASSUME NEW c, NEW approve, NEW actor, NEW simulated,
               OperatorResolves(c, approve, actor, simulated)
        PROVE  UNCHANGED <<calls, tally>> /\ DOMAIN approvals' = DOMAIN approvals
    BY <2>2 DEF OperatorResolves, Resolve, playing
  <2>3. ASSUME NEW granted, OperatorReviews(granted)
        PROVE  UNCHANGED <<calls, tally>> /\ DOMAIN approvals' = DOMAIN approvals
    BY <2>3 DEF OperatorReviews, ReviewPending, playing
  <2>4. CASE UNCHANGED <<calls, tally, approvals>>
    BY <2>4
  <2> QED BY <2>1, <2>2, <2>3, <2>4 DEF Next, vars, AdvanceFixtureState, Finish
<1> QED BY <1>2, <1>3, <1>4, <1>5, <1>6, <1>7, <1>8

(***************************************************************************)
(* The counters agree, and no trace runs more calls than the limit, for    *)
(* every script and every order of calls, requests and answers.            *)
(***************************************************************************)
THEOREM CountsAreRight == Spec => []CallsAreCounted
<1>1. Init => Agreed
  <2> SUFFICES ASSUME Init PROVE Agreed
    OBVIOUS
  <2>1. DOMAIN approvals = {}
    BY DEF Init, ApprovalInit
  <2>2. CallsCounted /\ \A c \in Counters : tally[c] = 0
    BY DEF Init, CallsCounted, Counters
  <2>3. CountersAgree
    BY <2>1, <2>2, FS_EmptySet DEF Init, CountersAgree, Counters
  <2> QED BY InitSound, <2>1, <2>2, <2>3, FS_EmptySet DEF Agreed
<1>2. ASSUME Agreed, [Next]_vars PROVE Agreed'
  <2>1. CallsCounted'
    <3>1. tally["executed"] \in Nat /\ calls \in Nat
      BY <1>2 DEF Agreed, CallsCounted, Counters
    <3> QED BY <1>2, <3>1, SetupIsFixed, CountingStep DEF Agreed, CallsCounted
  <2> QED BY <1>2, <2>1, CountersStep, NextSound DEF Agreed
<1>3. Spec => []CountersAgree
  <2>1. Agreed => CountersAgree
    BY DEF Agreed
  <2> QED BY <1>1, <1>2, <2>1, PTL DEF Spec
<1>4. WithinCallLimit /\ CountersAgree => CallsAreCounted
  BY DEF CallsAreCounted
<1> QED BY <1>3, <1>4, CallsAreLimited, PTL

-----------------------------------------------------------------------------
(***************************************************************************)
(* Types.                                                                  *)
(***************************************************************************)
LEMMA ListedTools ==
    ASSUME setup \in Setup, phase \in {0, 1}
    PROVE  /\ DOMAIN Advertised \subseteq STRING
           /\ \A t \in DOMAIN Advertised : Advertised[t] \in ToolDefinition
           /\ Fixture.drift \in Severity \union {"none"}
<1>1. setup.fixture \in DOMAIN Lab /\ phase + 1 \in {1, 2}
  BY SetupAssumption
<1>2. Advertised = Lab[setup.fixture].tools[phase + 1]
  BY DEF Advertised, Fixture
<1> QED BY <1>1, <1>2, LabAssumption, ScriptAssumption, DriftAssumption DEF Fixture

LEMMA CallsAreRequests ==
    ASSUME TypeOK, NEW step \in Script[setup.fixture]
    PROVE  /\ IsCallRequest(Resolved(step))
           /\ Resolved(step).tool \in STRING
<1>1. IsCallRequest([tool |-> step.tool, arguments |-> step.arguments])
  BY ScriptAssumption, SetupAssumption DEF TypeOK
<1>2. last \subseteq Atom
  BY DEF TypeOK
<1>3. /\ step.tool \in STRING
      /\ DOMAIN step.arguments \subseteq Field
      /\ \A f \in DOMAIN step.arguments : step.arguments[f] \subseteq Atom
  BY <1>1 DEF IsCallRequest
<1>4. /\ DOMAIN Resolved(step).arguments = DOMAIN step.arguments
      /\ \A f \in DOMAIN step.arguments : Resolved(step).arguments[f] \subseteq Atom
  BY <1>2, <1>3 DEF Resolved
<1>5. DOMAIN Resolved(step) = {"tool", "arguments"} /\ Resolved(step).tool = step.tool
  BY DEF Resolved
<1> QED BY <1>3, <1>4, <1>5 DEF IsCallRequest

LEMMA ListingTypes ==
    ASSUME TypeOK, NEW pin, ListTools(pin)
    PROVE  /\ exposed' \subseteq DOMAIN observed' /\ DOMAIN observed' \subseteq STRING
           /\ \A t \in DOMAIN observed' : observed'[t] \in Hash
           /\ \A t \in DOMAIN baseline' : baseline'[t] \in Hash
           /\ \A t \in DOMAIN trust' : trust'[t] \in ToolTrust /\ trust'[t].name = t
           /\ context' \subseteq Atom /\ last' \subseteq context'
           /\ unsafe' \subseteq UnsafeOutcome
           /\ ledger' = ledger
<1> DEFINE snapshot == Snapshot(Advertised)
<1>1. /\ DOMAIN Advertised \subseteq STRING
      /\ \A t \in DOMAIN Advertised : Advertised[t] \in ToolDefinition
      /\ Fixture.drift \in Severity \union {"none"}
  BY ListedTools DEF TypeOK
<1>2. /\ DOMAIN snapshot = DOMAIN Advertised
      /\ \A t \in DOMAIN snapshot : snapshot[t] \in Hash
  BY <1>1 DEF Snapshot, ToolDefinition
<1>3. observed' = snapshot /\ exposed' \subseteq DOMAIN Advertised
  BY DEF ListTools, Snapshot
<1>4. baseline' = Pinned(pin, snapshot)
  BY DEF ListTools, Snapshot
<1>5. \A t \in DOMAIN baseline' : baseline'[t] \in Hash
  BY <1>2, <1>4 DEF Pinned, TypeOK
<1>6. PICK pinned, drifted :
        /\ trust' = IF Enforcing THEN Register(Advertised, pinned, drifted) ELSE trust
        /\ \A t \in DOMAIN pinned : pinned[t] \in Hash
  <2>1. trust' = IF Enforcing THEN Register(Advertised, baseline',
                        DriftTools(pin, baseline', snapshot)) ELSE trust
    BY <1>4 DEF ListTools, Snapshot
  <2> QED BY <1>5, <2>1
<1>7. ASSUME NEW t \in DOMAIN trust' PROVE trust'[t] \in ToolTrust /\ trust'[t].name = t
  <2>1. CASE Enforcing /\ t \in DOMAIN Advertised
    <3>1. PICK approved, severity :
            /\ approved \in Hash \union {"none"} /\ severity \in Severity \union {"none"}
            /\ trust'[t] = [name |-> t, capabilities |-> Advertised[t].capabilities,
                            quarantined |-> Advertised[t].flagged, approved_hash |-> approved,
                            current_hash |-> Advertised[t].hash, severity |-> severity]
      <4>1. (IF t \in DOMAIN pinned THEN pinned[t] ELSE "none") \in Hash \union {"none"}
        BY <1>6
      <4>2. (IF t \in drifted THEN Fixture.drift ELSE "none") \in Severity \union {"none"}
        BY <1>1
      <4> QED BY <1>6, <2>1, <4>1, <4>2 DEF Register
    <3>2. t \in STRING /\ Advertised[t] \in ToolDefinition
      BY <1>1, <2>1
    <3>3. /\ Advertised[t].capabilities \in SUBSET Capability
          /\ Advertised[t].flagged \in BOOLEAN
          /\ Advertised[t].hash \in Hash
      BY <3>2 DEF ToolDefinition
    <3> QED BY <3>1, <3>2, <3>3 DEF ToolTrust
  <2>2. CASE ~(Enforcing /\ t \in DOMAIN Advertised)
    BY <1>6, <2>2 DEF Register, TypeOK
  <2> QED BY <2>1, <2>2
<1>8. context' \subseteq Atom
  <2>1. \A t \in DOMAIN Advertised : Advertised[t].describes \subseteq Atom
    BY <1>1 DEF ToolDefinition
  <2>2. context' = context \union (UNION {Advertised[t].describes : t \in exposed'})
    BY DEF ListTools
  <2> QED BY <1>3, <2>1, <2>2 DEF TypeOK
<1>9. last' \subseteq context' /\ unsafe' \subseteq UnsafeOutcome /\ ledger' = ledger
  BY DEF ListTools, TypeOK, UnsafeOutcome
<1> QED BY <1>1, <1>2, <1>3, <1>5, <1>7, <1>8, <1>9

LEMMA ExecuteTypes ==
    ASSUME TypeOK, NEW call, call.tool \in STRING, NEW lifted, Execute(call, lifted)
    PROVE  /\ ledger' \subseteq LedgerEntry
           /\ context' \subseteq Atom /\ last' \subseteq context'
           /\ unsafe' \subseteq UnsafeOutcome
<1>1. Answer(call) \subseteq Atom
  BY ListedTools DEF Answer, Runs, ToolDefinition, TypeOK
<1>2. Inspected(Answer(call)).shown \subseteq Atom
  BY <1>1 DEF Inspected, CheckResponse
<1>3. ASSUME NEW e \in Entries(call) PROVE e \in LedgerEntry
  <2>1. Runs(call)
    BY <1>3 DEF Entries
  <2>2. Advertised[call.tool].effect \in Effect \union {"none"}
    BY <2>1, ListedTools DEF Runs, ToolDefinition, TypeOK
  <2>3. Markers(call.arguments) \in SUBSET {"secret", "encoded"}
    BY DEF Markers
  <2>4. PICK k \in Effect \union {"tool_executed"}, m \in SUBSET {"secret", "encoded"} :
          e = [kind |-> k, tool |-> call.tool, markers |-> m]
    <3>1. CASE e = [kind |-> "tool_executed", tool |-> call.tool,
                    markers |-> Markers(call.arguments)]
      BY <2>3, <3>1
    <3>2. ASSUME NEW k \in {Advertised[call.tool].effect} \ {"none"},
                 e = [kind |-> k, tool |-> call.tool,
                      markers |-> IF k = "simulated_outbound" THEN Markers(call.arguments) ELSE {}]
          PROVE  \E m \in SUBSET {"secret", "encoded"} :
                    e = [kind |-> k, tool |-> call.tool, markers |-> m]
      BY <2>3, <3>2
    <3> QED BY <1>3, <2>1, <2>2, <3>1, <3>2 DEF Entries
  <2> QED BY <2>4 DEF LedgerEntry
<1>4. ScoreExecution(call) \subseteq UnsafeOutcome
  BY DEF ScoreExecution, UnsafeOutcome
<1>5. \A text : ScoreResponse(text) \subseteq UnsafeOutcome
  BY DEF ScoreResponse, UnsafeOutcome
<1>6. /\ ledger' = ledger \union Entries(call)
      /\ context' = context \union Inspected(Answer(call)).shown
      /\ last' = Inspected(Answer(call)).shown
      /\ unsafe' = unsafe \union ScoreExecution(call)
                          \union ScoreResponse(Inspected(Answer(call)).shown)
  BY DEF Execute
<1>7. ledger' \subseteq LedgerEntry
  BY <1>3, <1>6 DEF TypeOK
<1>8. context' \subseteq Atom /\ last' \subseteq context'
  BY <1>2, <1>6 DEF TypeOK
<1>9. unsafe' \subseteq UnsafeOutcome
  BY <1>4, <1>5, <1>6 DEF TypeOK
<1> QED BY <1>7, <1>8, <1>9

LEMMA RegistryTypes ==
    ASSUME TypeOK, [Next]_vars
    PROVE  \A c \in DOMAIN approvals' : IsCallRequest(c) /\ approvals'[c] \in ApprovalRequest
<1> DEFINE Typed == \A c \in DOMAIN approvals' : IsCallRequest(c) /\ approvals'[c] \in ApprovalRequest
<1>1. \A c \in DOMAIN approvals : IsCallRequest(c) /\ approvals[c] \in ApprovalRequest
  BY DEF TypeOK
<1>2. Opened \in ApprovalRequest /\ SimulatedActor \in Actor
  BY ActorAssumption DEF Opened, ApprovalRequest, ApprovalState
<1>3. ASSUME NEW step \in Script[setup.fixture], CallHeld(step) PROVE Typed
  <2>1. approvals' = Requested(Resolved(step))
    BY <1>3 DEF CallHeld, Request
  <2> QED BY <1>1, <1>2, <2>1, CallsAreRequests DEF Requested
<1>4. ASSUME NEW c, NEW approve, NEW actor \in Actor, NEW simulated,
             OperatorResolves(c, approve, actor, simulated)
      PROVE  Typed
  <2> DEFINE decided == [state |-> IF approve THEN "approved" ELSE "denied", by |-> actor]
  <2>1. approvals' = [approvals EXCEPT ![c] = decided]
    BY <1>4 DEF OperatorResolves, Resolve
  <2>2. decided \in ApprovalRequest
    BY DEF ApprovalRequest, ApprovalState
  <2> HIDE DEF decided
  <2> QED BY <1>1, <2>1, <2>2
<1>5. ASSUME NEW granted, OperatorReviews(granted) PROVE Typed
  <2>1. /\ DOMAIN approvals' = DOMAIN approvals
        /\ \A c \in DOMAIN approvals :
              \/ approvals'[c] = approvals[c]
              \/ \E state \in {"approved", "denied"} :
                    approvals'[c] = [state |-> state, by |-> SimulatedActor]
    BY <1>5 DEF OperatorReviews, ReviewPending
  <2>2. \A state \in {"approved", "denied"} :
           [state |-> state, by |-> SimulatedActor] \in ApprovalRequest
    BY <1>2 DEF ApprovalRequest, ApprovalState
  <2> QED BY <1>1, <2>1, <2>2
<1>6. CASE approvals' = approvals
  BY <1>1, <1>6
<1> QED
  BY <1>3, <1>4, <1>5, <1>6 DEF Next, vars, ListTools, AdvanceFixtureState, SkipCall,
     CallUnguarded, CallPermitted, CallRefused, Finish

LEMMA StepCounts ==
    ASSUME TypeOK, [Next]_vars
    PROVE  /\ status' \in {"running", "finished", "failed"}
           /\ steps' \in 0..setup.length
           /\ calls' \in 0..steps'
<1>1. setup.length \in Nat /\ steps \in Nat /\ calls \in Nat /\ calls <= steps
  BY SetupAssumption DEF TypeOK
<1>2. \/ Step /\ calls' \in {calls, calls + 1}
      \/ UNCHANGED <<steps, calls>>
  BY DEF Next, vars, ListTools, AdvanceFixtureState, SkipCall, CallUnguarded, CallPermitted,
     CallRefused, CallHeld, Evaluated, OperatorResolves, OperatorReviews, playing, Finish
<1>3. steps' \in 0..setup.length /\ calls' \in 0..steps'
  <2>1. CASE Step /\ calls' \in {calls, calls + 1}
    BY <1>1, <2>1 DEF Step
  <2>2. CASE UNCHANGED <<steps, calls>>
    BY <1>1, <2>2 DEF TypeOK
  <2> QED BY <1>2, <2>1, <2>2
<1>4. status' \in {"running", "finished", "failed"}
  BY DEF TypeOK, Next, vars, ListTools, AdvanceFixtureState, SkipCall, CallUnguarded,
     CallPermitted, CallRefused, CallHeld, Evaluated, listing, OperatorResolves, OperatorReviews,
     playing, Finish
<1> QED BY <1>3, <1>4

(***************************************************************************)
(* Every variable keeps its type, whatever the lab and the script hold.    *)
(***************************************************************************)
THEOREM TypeCorrect == Spec => []TypeOK
<1> DEFINE Inv == TypeOK /\ Sound /\ CallsCounted
<1>1. Init => Inv
  <2> SUFFICES ASSUME Init PROVE Inv
    OBVIOUS
  <2>1. setup.length \in Nat
    BY SetupAssumption DEF Init
  <2>2. CallsCounted
    BY DEF Init, CallsCounted, Counters
  <2>3. TypeOK
    BY <2>1 DEF Init, TypeOK, Nothing, ApprovalInit
  <2> QED BY <2>2, <2>3, InitSound
<1>2. ASSUME Inv, [Next]_vars PROVE Inv'
  <2>1. CallsCounted'
    <3>1. tally["executed"] \in Nat /\ calls \in Nat
      BY <1>2 DEF CallsCounted, Counters
    <3> QED BY <1>2, <3>1, SetupIsFixed, CountingStep DEF CallsCounted
  <2>2. TypeOK'
    <3>1. /\ exposed' \subseteq DOMAIN observed' /\ DOMAIN observed' \subseteq STRING
          /\ \A t \in DOMAIN observed' : observed'[t] \in Hash
          /\ \A t \in DOMAIN baseline' : baseline'[t] \in Hash
          /\ \A t \in DOMAIN trust' : trust'[t] \in ToolTrust /\ trust'[t].name = t
      <4>1. CASE \E pin \in BOOLEAN : ListTools(pin)
        BY <1>2, <4>1, ListingTypes
      <4>2. CASE UNCHANGED <<exposed, observed, baseline, trust>>
        BY <1>2, <4>2 DEF TypeOK
      <4> QED BY <1>2, <4>1, <4>2, StepKinds DEF listing
    <3>2. /\ ledger' \subseteq LedgerEntry
          /\ context' \subseteq Atom /\ last' \subseteq context'
          /\ unsafe' \subseteq UnsafeOutcome
      <4>1. CASE \E pin \in BOOLEAN : ListTools(pin)
        BY <1>2, <4>1, ListingTypes DEF TypeOK
      <4>2. CASE \E step \in Script[setup.fixture], lifted \in {0, 1} : Execute(Resolved(step), lifted)
        BY <1>2, <4>2, CallsAreRequests, ExecuteTypes
      <4>3. CASE UNCHANGED <<ledger, context, last, unsafe>>
        BY <1>2, <4>3 DEF TypeOK
      <4> QED BY <1>2, <4>1, <4>2, <4>3, StepKinds
    <3> QED
      BY <1>2, <2>1, <3>1, <3>2, NextSound, RegistryTypes, StepCounts, SetupIsFixed
         DEF TypeOK, Sound, CallsCounted
  <2> QED BY <1>2, <2>1, <2>2, NextSound
<1>3. Inv => TypeOK
  OBVIOUS
<1> QED BY <1>1, <1>2, <1>3, PTL DEF Spec
=============================================================================
