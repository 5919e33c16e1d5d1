-------------------------------- MODULE Drift --------------------------------
(***************************************************************************)
(* analysis/fingerprinting.py and analysis/drift_detector.py: what of a    *)
(* listing enters its fingerprint, and the grade of the difference between *)
(* an approved snapshot and the current one.  A fingerprint is the value   *)
(* it is computed from: two hashes are equal when the normalised           *)
(* definitions are.  Operators marked Plausible bug are slips the runs     *)
(* notice; nothing uses them.                                              *)
(***************************************************************************)
EXTENDS Analysis

\* Runs of white space count in no prose; the order of required fields counts nowhere.
NormalizeText(t) == [t EXCEPT !.ragged = FALSE]
NormalizeProse(prose) == {NormalizeText(t) : t \in prose}
NormalizeParams(params) ==
    [p \in DOMAIN params |-> [params[p] EXCEPT !.description = NormalizeProse(@)]]

\* A list whose order does not count, in the order that stands for all of them.
Reorderings(list) ==
    {[i \in DOMAIN list |-> list[p[i]]] : p \in Bijection(DOMAIN list, DOMAIN list)}
Sorted(list) == CHOOSE s \in Reorderings(list) : TRUE

\* Plausible bug: the list of required fields is no set.
NormalizeToolInOrder(tool) ==
    [tool EXCEPT !.title = NormalizeProse(@),
                 !.description = NormalizeProse(@),
                 !.params = NormalizeParams(@),
                 !.output = NormalizeProse(@)]

\* What stands in _meta is no prose by its key: it is kept, with the list of
\* capabilities in order and whatever else stands under that key.
NormalizeTool(tool) ==
    [tool EXCEPT !.title = NormalizeProse(@),
                 !.description = NormalizeProse(@),
                 !.params = NormalizeParams(@),
                 !.required = Sorted(@),
                 !.output = NormalizeProse(@)]

\* A listing is a sequence of tools.  The two ways build_snapshot refuses one.
NamesOnce(listing) ==
    \A i, j \in DOMAIN listing : listing[i].name = listing[j].name => i = j
Normalizable(listing) ==
    \A i \in DOMAIN listing : "bottomless" \notin {listing[i].depth, listing[i].outputDepth}
CanSnapshot(listing) == NamesOnce(listing) /\ Normalizable(listing)

ByName(listing) ==
    [n \in {listing[i].name : i \in DOMAIN listing} |->
        CHOOSE t \in ToSet(listing) : t.name = n]

BuildSnapshot(listing, identity) ==
    [identity |-> identity,
     tools |-> LET tools == ByName(listing) IN [n \in DOMAIN tools |-> NormalizeTool(tools[n])]]

-----------------------------------------------------------------------------
EscalationCaps == Mutating
DangerousCaps == {"delete", "send", "execute"}
WideningHints == [readOnlyHint |-> FALSE, destructiveHint |-> TRUE, openWorldHint |-> TRUE]
ContentCategories == {"tool_poisoning", "cross_tool_reference", "purpose_mismatch"}

AtLeastMedium(findings) == {f \in findings : f.severity >= Medium}
FindingKeys(findings) == {<<f.rule, f.at>> : f \in AtLeastMedium(findings)}

\* Both definitions are judged beside the tools of the current listing.
IntroducedFindings(old, new, siblings) ==
    LET seen == FindingKeys(AnalyzeTool(old, siblings))
    IN {f \in AtLeastMedium(AnalyzeTool(new, siblings)) : <<f.rule, f.at>> \notin seen}

ContentFindings(findings) == {f \in findings : f.category \in ContentCategories}

SuspicionSeverity(findings) ==
    LET content == ContentFindings(findings)
        poisoning == {f.rule : f \in content} \cap (StrongPoisoning \union {"MA-090"})
    IN IF "MA-090" \in poisoning \/ Cardinality(poisoning) >= 3 THEN Critical
       ELSE IF content # {} THEN High ELSE Info

\* A new risk that is no content counts, and never for more than HIGH.
IntroducedSeverity(findings) ==
    LET other == {IF f.severity > High THEN High ELSE f.severity :
                    f \in findings \ ContentFindings(findings)}
    IN MaxSeverity({SuspicionSeverity(findings), MaxSeverity(other, Info)}, Info)

\* Plausible bug: only a hint that said the opposite before can widen.
HintWideningExplicit(old, new) ==
    {h \in DOMAIN WideningHints :
        Hinted(new, h, WideningHints[h]) /\ Hinted(old, h, ~WideningHints[h])}

HintWidening(old, new) ==
    {h \in DOMAIN WideningHints :
        Hinted(new, h, WideningHints[h]) /\ ~Hinted(old, h, WideningHints[h])}

\* _declared_capabilities: every word of the list, known or not, sorted.  What is
\* no word is dropped here, and the comparison of _meta leaves out the whole key.
CapabilityCounts(tool) ==
    [c \in ToSet(tool.caps) |-> Cardinality({i \in DOMAIN tool.caps : tool.caps[i] = c})]
Escalated(old, new) == (ToSet(new.caps) \ ToSet(old.caps)) \cap EscalationCaps # {}

InputSchema(tool) == <<tool.params, tool.required, tool.open, tool.depth>>
OutputSchema(tool) == <<tool.output, tool.outputDepth>>

\* The fields of a tool that the report names as changed, each with its grade.
FieldChanges(old, new) ==
    {c \in {<<"description", Medium>>} : old.description # new.description}
    \union {c \in {<<"title", Medium>>} : old.title # new.title}
    \union {c \in {<<"input_schema", Medium>>} : InputSchema(old) # InputSchema(new)}
    \union {c \in {<<"output_schema", Medium>>} : OutputSchema(old) # OutputSchema(new)}
    \union {c \in {<<"annotations", IF HintWidening(old, new) # {} THEN High ELSE Low>>} :
                old.hints # new.hints}
    \union {c \in {<<"capabilities", IF Escalated(old, new) THEN High ELSE Low>>} :
                CapabilityCounts(old) # CapabilityCounts(new)}
    \union {c \in {<<"meta", Low>>} : old.meta # new.meta}

\* Plausible bug: what the change introduces replaces the grade of its fields.
ToolSeverityReplaced(old, new, siblings) ==
    LET fields == MaxSeverity({c[2] : c \in FieldChanges(old, new)}, Low)
        introduced == IntroducedFindings(old, new, siblings)
    IN IF introduced # {} THEN IntroducedSeverity(introduced) ELSE fields

\* _compare_tool, and what the change introduces.
ToolSeverity(old, new, siblings) ==
    LET fields == MaxSeverity({c[2] : c \in FieldChanges(old, new)}, Low)
        introduced == IntroducedFindings(old, new, siblings)
    IN MaxSeverity({fields, IntroducedSeverity(introduced)}, Low)

AddedSeverity(new, introduced) ==
    IF introduced # {} THEN IntroducedSeverity(introduced)
    ELSE IF Effective(new) \cap DangerousCaps # {} THEN High ELSE Medium

IdentityChanges(old, new) ==
    {c \in {<<"name", High>>, <<"version", Low>>, <<"protocol", Low>>} : old[c[1]] # new[c[1]]}

ActionFor(severity) ==
    IF severity = Critical THEN "quarantine"
    ELSE IF severity = High THEN "block_until_reviewed"
    ELSE "review"

-----------------------------------------------------------------------------
(***************************************************************************)
(* compare_snapshots.  `changes' are the tools whose fields the report     *)
(* lists, by tool and field; `grades' what each difference contributed.    *)
(***************************************************************************)
Added(approved, current) == DOMAIN current.tools \ DOMAIN approved.tools
Removed(approved, current) == DOMAIN approved.tools \ DOMAIN current.tools
Changed(approved, current) ==
    {n \in DOMAIN approved.tools \cap DOMAIN current.tools : approved.tools[n] # current.tools[n]}

Grades(approved, current) ==
    {AddedSeverity(current.tools[n], AtLeastMedium(AnalyzeTool(current.tools[n], current.tools))) :
            n \in Added(approved, current)}
    \union {Medium : n \in Removed(approved, current)}
    \union {ToolSeverity(approved.tools[n], current.tools[n], current.tools) :
                n \in Changed(approved, current)}
    \union {c[2] : c \in IdentityChanges(approved.identity, current.identity)}

Suspicious(approved, current) ==
    (UNION {AtLeastMedium(AnalyzeTool(current.tools[n], current.tools)) :
                n \in Added(approved, current)})
    \union (UNION {IntroducedFindings(approved.tools[n], current.tools[n], current.tools) :
                n \in Changed(approved, current)})

ReportOf(approved, current, grades) ==
    LET severity == MaxSeverity(grades, Info)
    IN [drifted |-> grades # {},
        severity |-> severity,
        action |-> IF grades = {} THEN "none" ELSE ActionFor(severity),
        added |-> Added(approved, current),
        removed |-> Removed(approved, current),
        changes |-> UNION {{<<n, c[1]>> :
                            c \in FieldChanges(approved.tools[n], current.tools[n])} :
                           n \in Changed(approved, current)},
        identity |-> {c[1] : c \in IdentityChanges(approved.identity, current.identity)},
        suspicious |-> Suspicious(approved, current)]
CompareSnapshots(approved, current) ==
    ReportOf(approved, current, Grades(approved, current))

\* drift_finding: the finding a report becomes, and the tools its evidence lists as changed.
DriftFinding(report) ==
    Found("DR-001", "tool_definition_drift", report.severity, "none", <<"tool snapshot">>)
\* Plausible bug: the annotations are left out as the output schemas are.
ChangedToolsNotHints(report) ==
    {c[1] : c \in {d \in report.changes : d[2] \notin {"output_schema", "annotations"}}}
ChangedTools(report) ==
    {c[1] : c \in {d \in report.changes : d[2] # "output_schema"}}
=============================================================================
