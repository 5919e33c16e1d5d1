----------------------------- MODULE DriftReview -----------------------------
(***************************************************************************)
(* One server over time, as every caller of compare_snapshots sees it (the *)
(* scan service, the guards, guardbench inspect): the server advertises    *)
(* one version of its tools after the other, the user compares what it     *)
(* advertises with what was approved last, and may approve it.  The        *)
(* question is what the grades are worth: which changes they cannot miss,  *)
(* whatever else changed with them, and whether a change that is approved  *)
(* in small steps passes at a lower grade than it would at once.           *)
(***************************************************************************)
EXTENDS Drift

CONSTANTS
    Version,    \* the versions the server may advertise
    Listing,    \* their listings: a sequence of tools each
    Identity,   \* the identity the server reports with each
    First       \* the versions that may be approved first

ASSUME ListingAssumption ==
    \A v \in Version : \A i \in DOMAIN Listing[v] : WellFormed(Listing[v][i])
ASSUME IdentityAssumption ==
    \A v \in Version : Identity[v] = [name |-> Identity[v].name, version |-> Identity[v].version,
                                     protocol |-> Identity[v].protocol]
ASSUME FirstAssumption == First \subseteq {v \in Version : CanSnapshot(Listing[v])}

\* A listing that cannot be fingerprinted is refused before anything is compared.
Comparable == {v \in Version : CanSnapshot(Listing[v])}
Snapshots == [v \in Comparable |-> BuildSnapshot(Listing[v], Identity[v])]
Reports ==
    [old \in Comparable |-> [new \in Comparable |-> CompareSnapshots(Snapshots[old], Snapshots[new])]]

VARIABLES
    base,       \* the version approved first
    approved,   \* the version approved last
    current,    \* the version advertised now
    worst,      \* the highest grade of a change approved since the first
    broken      \* one of them took a tool away, or left a tool that refers to another

vars == <<base, approved, current, worst, broken>>

\* The text of a tool tells the model to call another.
References(v) ==
    \E n \in DOMAIN Snapshots[v].tools :
        \E s \in TextSites(Snapshots[v].tools[n]) : s.text.refs # {}
Referring == {v \in Comparable : References(v)}

Init ==
    /\ base \in First
    /\ approved = base
    /\ current = base
    /\ worst = Info
    /\ broken = (base \in Referring)

Report == Reports[approved][current]

Advertise ==
    /\ current' \in Comparable
    /\ UNCHANGED <<base, approved, worst, broken>>

Approve(report) ==
    /\ report.drifted
    /\ approved' = current
    /\ worst' = MaxSeverity({worst, report.severity}, Info)
    /\ broken' = (broken \/ report.removed # {} \/ current \in Referring)
    /\ UNCHANGED <<base, current>>

Next == Advertise \/ Approve(Report)
Spec == Init /\ [][Next]_vars

-----------------------------------------------------------------------------
Old(n) == Snapshots[approved].tools[n]
New(n) == Snapshots[current].tools[n]
Kept == DOMAIN Snapshots[approved].tools \cap DOMAIN Snapshots[current].tools
Present == DOMAIN Snapshots[current].tools

TypeOK ==
    /\ {base, approved, current} \subseteq Comparable
    /\ worst \in SeverityRank
    /\ broken \in BOOLEAN

\* What a reader of the definition would call the same tool: layout and order aside.
Reads(t, u) ==
    LET same(a, b) == {[x EXCEPT !.ragged = TRUE] : x \in a} = {[x EXCEPT !.ragged = TRUE] : x \in b}
    IN /\ t.name = u.name
       /\ same(t.title, u.title) /\ same(t.description, u.description)
       /\ same(t.output, u.output) /\ t.outputDepth = u.outputDepth
       /\ u.required \in Reorderings(t.required)
       /\ DOMAIN t.params = DOMAIN u.params
       /\ \A p \in DOMAIN t.params :
            /\ same(t.params[p].description, u.params[p].description)
            /\ t.params[p].type = u.params[p].type
            /\ t.params[p].restricted = u.params[p].restricted
       /\ <<t.open, t.depth, t.hints>> = <<u.open, u.depth, u.hints>>
       /\ <<t.caps, t.dropped, t.meta>> = <<u.caps, u.dropped, u.meta>>

(***************************************************************************)
(* fingerprinting.py: a change of layout, of the order of the tools or of  *)
(* the required fields is no drift, and every other change the model knows *)
(* of is one, of the tools advertised or of the identity (the hash covers  *)
(* only the tools).  The order of an enum or of a list of types counts as  *)
(* little, and is not in the model.                                        *)
(***************************************************************************)
DriftIsExact ==
    LET old == ToSet(Listing[approved])
        new == ToSet(Listing[current])
    IN Report.drifted <=>
        \/ \E t \in old : \A u \in new : ~Reads(t, u)
        \/ \E u \in new : \A t \in old : ~Reads(t, u)
        \/ Identity[approved] # Identity[current]

\* Where a strong pattern rule fires, and where there are invisible characters.
Poison(tool) ==
    (UNION {{<<id, s.at>> : id \in s.text.hits \cap StrongPoisoning} : s \in TextSites(tool)})
    \union {<<"MA-010", s.at>> : s \in {x \in TextSites(tool) : x.text.hidden # "none"}}
NewPoison(n) == Poison(New(n)) \ (IF n \in Kept THEN Poison(Old(n)) ELSE {})
StrongRules(poison) == {p[1] : p \in poison} \cap StrongPoisoning

(***************************************************************************)
(* drift_detector.py: a change that brings hostile text to a place where   *)
(* there was none is at least HIGH and is blocked, however much else the   *)
(* tool said before, and three kinds of it at once are CRITICAL.           *)
(***************************************************************************)
PoisonIsHigh(report) ==
    \A n \in Present :
        /\ NewPoison(n) # {} =>
             /\ report.severity >= High
             /\ report.action \in {"block_until_reviewed", "quarantine"}
        /\ Cardinality(StrongRules(NewPoison(n))) >= 3 => report.action = "quarantine"

(***************************************************************************)
(* A tool that was there before and declares a mutating capability it did  *)
(* not have, whose hints come to say more than they did, or that takes a   *)
(* free shell command it did not take, is at least HIGH: a lesser change   *)
(* beside it does not lower the grade.                                     *)
(***************************************************************************)
FreeShell(tool) ==
    {p \in DOMAIN tool.params : /\ tool.params[p].type # "other" /\ ~tool.params[p].restricted
                                /\ ParamTokens(p) \cap ParamNames.shell # {}}
Widened(old, new) ==
    \/ (Declared(new) \ Declared(old)) \cap Mutating # {}
    \/ Hinted(new, "destructiveHint", TRUE) /\ ~Hinted(old, "destructiveHint", TRUE)
    \/ Hinted(new, "openWorldHint", TRUE) /\ ~Hinted(old, "openWorldHint", TRUE)
    \/ Hinted(new, "readOnlyHint", FALSE) /\ ~Hinted(old, "readOnlyHint", FALSE)
    \/ FreeShell(new) \ FreeShell(old) # {}
WideningIsHigh(report) == (\E n \in Kept : Widened(Old(n), New(n))) => report.severity >= High

(***************************************************************************)
(* A new tool is at least HIGH when it declares that it executes or takes  *)
(* a free shell command, and when all that is known of it is a dangerous   *)
(* capability its name or its parameters suggest.  Not so when it declares *)
(* delete or send: that is a finding of its own, MA-022 at MEDIUM, which   *)
(* takes the place of the rule for dangerous capabilities                  *)
(* (drift_detector.py:170-174), so that it is left to a review although    *)
(* lines 11 and 38 say HIGH.                                               *)
(***************************************************************************)
Unremarkable(n) == AtLeastMedium(AnalyzeTool(New(n), Snapshots[current].tools)) = {}
NewPower(n) ==
    \/ "execute" \in Declared(New(n))
    \/ FreeShell(New(n)) # {}
    \/ Effective(New(n)) \cap DangerousCaps # {} /\ Unremarkable(n)
NewPowerIsHigh(report) ==
    \A n \in Present \ Kept :
        NewPower(n) => report.severity >= High /\ report.action # "review"

\* What a change brings of hostile text, what a tool gains, and what a new tool
\* can do at once: each is blocked until it is reviewed, whatever changes beside it.
DangerIsHigh == PoisonIsHigh(Report) /\ WideningIsHigh(Report) /\ NewPowerIsHigh(Report)

(***************************************************************************)
(* compare_snapshots and drift_finding: the reviewer is told of every tool *)
(* that is not what was approved.  Three differences have a hash and no    *)
(* name: the order of the declared capabilities and what stands among them *)
(* or in their place and is none (drift_detector.py:84-86, 285-286), in    *)
(* the report, and these and a change of the output schema in the evidence *)
(* of the finding.                                                         *)
(***************************************************************************)
OnlyUncounted(t, u) ==
    CapabilityCounts(t) = CapabilityCounts(u) /\ [t EXCEPT !.caps = u.caps, !.dropped = u.dropped] = u
OnlyUnlisted(t, u) ==
    OnlyUncounted([t EXCEPT !.output = u.output, !.outputDepth = u.outputDepth], u)
NamesChanges(report) ==
    /\ \A n \in Present \union DOMAIN Snapshots[approved].tools :
        \/ n \in report.added \union report.removed
        \/ /\ n \in Kept
           /\ \/ Old(n) = New(n)
              \/ \E f \in report.changes : f[1] = n
              \/ OnlyUncounted(Old(n), New(n))
    /\ \A n \in Kept :
        (n \in ChangedTools(report) <=> Old(n) # New(n)) \/ OnlyUnlisted(Old(n), New(n))
ChangesAreNamed == NamesChanges(Report)

(***************************************************************************)
(* A change approved in steps is graded in one of them at least as it      *)
(* would have been at once.  Four grades depend on more than one step and  *)
(* are left out: a tool that returns is judged as a new one, which its     *)
(* hints do not raise; the rules a tool already broke are not counted      *)
(* again; a reference is judged by the tool it names only when the text    *)
(* that holds it changes; and a dangerous capability that is only guessed, *)
(* from the name of the tool or of a parameter, raises a new tool that has *)
(* no finding yet, and an MA-021 only where there was none.                *)
(***************************************************************************)
Compounded(v) ==
    \E n \in DOMAIN Snapshots[v].tools :
        \E f \in AnalyzeTool(Snapshots[v].tools[n], Snapshots[v].tools) : f.rule = "MA-090"
CompoundBase == [v \in First |-> Compounded(v)]
Stated(tool) ==
    Declared(tool) \union {c \in {"delete"} : Hinted(tool, "destructiveHint", TRUE)}
Guessed(report) ==
    \E n \in Present :
        /\ ~(Effective(New(n)) \cap DangerousCaps \subseteq Stated(New(n)))
        /\ n \in report.added \/ \E f \in report.suspicious : f.tool = n /\ f.rule = "MA-021"
GradedAtLeast(report, atOnce) ==
    (~broken /\ ~CompoundBase[base] /\ ~Guessed(atOnce)) =>
        MaxSeverity({worst, report.severity}, Info) >= atOnce.severity
SplittingDoesNotHide == GradedAtLeast(Report, Reports[base][current])
=============================================================================
