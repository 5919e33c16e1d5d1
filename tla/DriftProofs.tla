----------------------------- MODULE DriftProofs -----------------------------
(***************************************************************************)
(* What the grades of drift_detector.py promise for every server and every *)
(* history of versions: a change that brings hostile text or more power is *)
(* at least HIGH, whatever else it does, the reviewer is told of every     *)
(* tool that is not what was approved and of nothing else, and approving a *)
(* change in steps does not hide what it would be graded at once.          *)
(***************************************************************************)
EXTENDS DriftReview, FiniteSetTheorems, FunctionTheorems, TLAPS

-----------------------------------------------------------------------------
(***************************************************************************)
(* Severities.                                                             *)
(***************************************************************************)

\* Of severities, the highest is one of them and none is above it.
LEMMA MaxIsOneOfThem ==
    ASSUME NEW S \in SUBSET SeverityRank, S # {}, NEW d
    PROVE  MaxSeverity(S, d) \in S /\ \A s \in S : s <= MaxSeverity(S, d)
<1>1. \E s \in S : \A t \in S : t <= s
  <2>1. CASE 4 \in S
    BY <2>1 DEF SeverityRank, Info, Critical
  <2>2. CASE 4 \notin S /\ 3 \in S
    BY <2>2 DEF SeverityRank, Info, Critical
  <2>3. CASE {4, 3} \cap S = {} /\ 2 \in S
    BY <2>3 DEF SeverityRank, Info, Critical
  <2>4. CASE {4, 3, 2} \cap S = {} /\ 1 \in S
    BY <2>4 DEF SeverityRank, Info, Critical
  <2>5. CASE {4, 3, 2, 1} \cap S = {}
    <3>1. \A t \in S : t \in 0..4 /\ t \notin {4, 3, 2, 1}
      BY <2>5 DEF SeverityRank, Info, Critical
    <3>2. \A t \in S : t = 0
      BY <3>1
    <3> QED BY <3>2
  <2> QED BY <2>1, <2>2, <2>3, <2>4, <2>5
<1> QED BY <1>1 DEF MaxSeverity

LEMMA MaxIsHighest ==
    ASSUME NEW S \in SUBSET SeverityRank, NEW d \in SeverityRank
    PROVE  /\ MaxSeverity(S, d) \in SeverityRank
           /\ \A s \in S : s <= MaxSeverity(S, d)
<1>1. CASE S = {}
  BY <1>1 DEF MaxSeverity
<1>2. CASE S # {}
  BY <1>2, MaxIsOneOfThem
<1> QED BY <1>1, <1>2

\* What bounds each of them bounds the highest.
LEMMA MaxIsBounded ==
    ASSUME NEW S \in SUBSET SeverityRank, NEW d \in SeverityRank, NEW s,
           d <= s, \A t \in S : t <= s
    PROVE  MaxSeverity(S, d) <= s
<1>1. CASE S = {}
  BY <1>1 DEF MaxSeverity
<1>2. CASE S # {}
  BY <1>2, MaxIsOneOfThem
<1> QED BY <1>1, <1>2

LEMMA RulesAreGraded ==
    ASSUME NEW id \in {r[1] : r \in PatternRules}
    PROVE  /\ RuleSeverity(id) \in SeverityRank
           /\ id \in StrongPoisoning => RuleSeverity(id) = High
<1> DEFINE rule == CHOOSE r \in PatternRules : r[1] = id
<1>1. rule \in PatternRules /\ rule[1] = id
  OBVIOUS
<1>2. RuleSeverity(id) = Calibrate(rule[2], rule[3])
  BY DEF RuleSeverity
<1> HIDE DEF rule
<1>3. rule[2] \in SeverityRank /\ rule[3] \in Nat
  BY <1>1 DEF PatternRules, SeverityRank, Info, Low, Medium, High, Critical
<1>4. Calibrate(rule[2], rule[3]) \in SeverityRank
  BY <1>3 DEF Calibrate, Shift, SeverityRank, Info, Critical
<1>5. id \in StrongPoisoning => rule[2] = High /\ rule[3] >= 50
  BY <1>1 DEF PatternRules, StrongPoisoning, Info, Low, Medium, High
<1>6. id \in StrongPoisoning => Calibrate(rule[2], rule[3]) = High
  BY <1>5, <1>3 DEF Calibrate, High
<1> QED BY <1>2, <1>4, <1>6

-----------------------------------------------------------------------------
(***************************************************************************)
(* The findings of a tool: which rule comes from where.                    *)
(***************************************************************************)

\* Texts whose hits are rules of the catalogue: what the traversal promises of a tool.
Known(tool) == \A s \in TextSites(tool) : s.text.hits \subseteq {r[1] : r \in PatternRules}

Elsewhere == {"MA-009", "MA-012", "MA-020", "MA-021", "MA-022", "MA-090", "SR-001", "SR-007"}

FromPattern(f, tool) ==
    \E s \in TextSites(tool) :
        f.rule \in s.text.hits /\ f.at = s.at /\ f.severity = RuleSeverity(f.rule)
FromHidden(f, tool) ==
    \E s \in TextSites(tool) :
        f.rule = "MA-010" /\ s.text.hidden # "none" /\ f.at = s.at /\ f.severity \in SeverityRank
FromParameter(f, tool) == \E p \in DOMAIN tool.params : f \in CheckParameter(tool, p)
FromElsewhere(f) == f.rule \in Elsewhere /\ f.severity \in SeverityRank

LEMMA SiteFindings ==
    ASSUME NEW tool, NEW others, NEW s \in TextSites(tool), NEW f \in ScanSite(s, tool, others)
    PROVE  FromPattern(f, tool) \/ FromHidden(f, tool) \/ FromElsewhere(f)
<1>1. CASE f \in ScanPatterns(s, tool.name)
  BY <1>1 DEF ScanPatterns, Found, FromPattern
<1>2. CASE f \in ScanHiddenUnicode(s, tool.name)
  BY <1>2 DEF ScanHiddenUnicode, Found, FromHidden, SeverityRank, Info, Medium, High, Critical
<1>3. CASE f \in ScanCrossTool(s, tool, others)
  <2>1. PICK ref : f \in {Found("MA-009", "cross_tool_reference", severity, tool.name, s.at) :
                            severity \in JudgeReference(ref, tool, others)}
    BY <1>3 DEF ScanCrossTool
  <2>2. JudgeReference(ref, tool, others) \subseteq SeverityRank
    BY DEF JudgeReference, SeverityRank, Info, Medium, High, Critical
  <2> QED BY <2>1, <2>2 DEF Found, FromElsewhere, Elsewhere
<1> QED BY <1>1, <1>2, <1>3 DEF ScanSite

LEMMA FindingsHaveAnOrigin ==
    ASSUME NEW tool, NEW siblings, NEW f \in AnalyzeTool(tool, siblings)
    PROVE  \/ FromPattern(f, tool) \/ FromHidden(f, tool)
           \/ FromParameter(f, tool) \/ FromElsewhere(f)
<1> DEFINE others == [n \in DOMAIN siblings \ {tool.name} |-> siblings[n]]
           scanned == UNION {ScanSite(s, tool, others) : s \in TextSites(tool)}
           findings == scanned \union CheckLength(tool) \union CheckPurposeMismatch(tool)
                       \union CheckCapabilities(tool) \union CheckHighRiskCapabilities(tool)
                       \union CheckSchemaRisk(tool)
<1> USE DEF Elsewhere, SeverityRank, Info, Low, Medium, High, Critical
<1>1. CASE \E s \in TextSites(tool) : f \in ScanSite(s, tool, others)
  BY <1>1, SiteFindings
<1>2. CASE f \in CheckLength(tool)
  BY <1>2 DEF Found, CheckLength, FromElsewhere
<1>3. CASE f \in CheckPurposeMismatch(tool)
  BY <1>3 DEF Found, CheckPurposeMismatch, FromElsewhere
<1>4. CASE f \in CheckCapabilities(tool)
  <2>1. \E severity \in {Medium, High} : \E at :
            f = Found("MA-021", "excessive_permission", severity, tool.name, at)
    BY <1>4 DEF CheckCapabilities
  <2> QED BY <2>1 DEF FromElsewhere, Found
<1>5. CASE f \in CheckHighRiskCapabilities(tool)
  <2>1. \E b \in {Medium, High}, c \in {25, 90} : \E at :
            f = Found("MA-022", "excessive_permission", Calibrate(b, c), tool.name, at)
    BY <1>5 DEF CheckHighRiskCapabilities
  <2>2. \A b \in {Medium, High}, c \in {25, 90} : Calibrate(b, c) \in SeverityRank
    BY DEF Calibrate, Shift
  <2> QED BY <2>1, <2>2 DEF FromElsewhere, Found
<1>6. CASE f \in CheckSchemaRisk(tool)
  BY <1>6 DEF Found, CheckSchemaRisk, FromElsewhere, FromParameter
<1>7. CASE f.rule = "MA-090" /\ f.severity = Critical
  BY <1>7 DEF FromElsewhere
<1>8. CASE f \in scanned
  BY <1>8, <1>1
<1>9. AnalyzeTool(tool, siblings) = WithCompound(tool, findings)
  BY DEF AnalyzeTool
<1>10. f \in findings \/ (f.rule = "MA-090" /\ f.severity = Critical)
  <2> HIDE DEF findings
  <2> QED BY <1>9 DEF WithCompound, Found
<1> HIDE DEF scanned
<1>12. CASE f \in findings
  BY <1>12, <1>8, <1>2, <1>3, <1>4, <1>5, <1>6
<1> HIDE DEF findings
<1> QED BY <1>10, <1>7, <1>12

-----------------------------------------------------------------------------
LEMMA FindingsAreGraded ==
    ASSUME NEW tool, Known(tool), NEW siblings, NEW f \in AnalyzeTool(tool, siblings)
    PROVE  f.severity \in SeverityRank
<1>1. CASE FromPattern(f, tool)
  BY <1>1, RulesAreGraded DEF FromPattern, Known
<1>2. CASE FromHidden(f, tool)
  BY <1>2 DEF FromHidden
<1>3. CASE FromParameter(f, tool)
  BY <1>3 DEF FromParameter, CheckParameter, Found, SeverityRank, Info, Low, Medium, High, Critical
<1>4. CASE FromElsewhere(f)
  BY <1>4 DEF FromElsewhere
<1> QED BY <1>1, <1>2, <1>3, <1>4, FindingsHaveAnOrigin

\* The rules a poisoned place breaks, which are no others.
PoisonRules == (StrongPoisoning \ {"MA-009"}) \union {"MA-010"}

LEMMA PoisonNamesItsRule ==
    ASSUME NEW tool, Known(tool), NEW p \in Poison(tool)
    PROVE  p = <<p[1], p[2]>> /\ p[1] \in PoisonRules
BY DEF Poison, Known, PoisonRules, PatternRules, StrongPoisoning

LEMMA PoisonIsFound ==
    ASSUME NEW tool, Known(tool), NEW siblings, NEW p \in Poison(tool)
    PROVE  \E f \in AtLeastMedium(AnalyzeTool(tool, siblings)) :
                <<f.rule, f.at>> = p /\ f.category = "tool_poisoning"
<1> DEFINE others == [n \in DOMAIN siblings \ {tool.name} |-> siblings[n]]
<1>1. ASSUME NEW s \in TextSites(tool), NEW f \in ScanSite(s, tool, others)
      PROVE  f \in AnalyzeTool(tool, siblings)
  BY <1>1 DEF AnalyzeTool, WithCompound
<1> HIDE DEF others
<1>2. ASSUME NEW s \in TextSites(tool), NEW id \in s.text.hits \cap StrongPoisoning,
             p = <<id, s.at>>
      PROVE  \E f \in AtLeastMedium(AnalyzeTool(tool, siblings)) :
                <<f.rule, f.at>> = p /\ f.category = "tool_poisoning"
  <2> DEFINE f == Found(id, "tool_poisoning", RuleSeverity(id), tool.name, s.at)
  <2>1. id \notin WeakRules /\ id \in {r[1] : r \in PatternRules}
    BY DEF WeakRules, StrongPoisoning, Known
  <2>2. f \in ScanSite(s, tool, others)
    BY <2>1 DEF ScanSite, ScanPatterns
  <2>3. RuleSeverity(id) = High
    BY <2>1, RulesAreGraded
  <2>4. f.rule = id /\ f.at = s.at /\ f.category = "tool_poisoning" /\ f.severity = High
    BY <2>3 DEF Found
  <2> HIDE DEF f
  <2>5. f \in AtLeastMedium(AnalyzeTool(tool, siblings))
    BY <1>1, <2>2, <2>4 DEF AtLeastMedium, Medium, High
  <2> QED BY <2>4, <2>5, <1>2
<1>3. ASSUME NEW s \in TextSites(tool), s.text.hidden # "none", p = <<"MA-010", s.at>>
      PROVE  \E f \in AtLeastMedium(AnalyzeTool(tool, siblings)) :
                <<f.rule, f.at>> = p /\ f.category = "tool_poisoning"
  <2> DEFINE f == Found("MA-010", "tool_poisoning",
                        IF s.text.hidden = "bidi" THEN High ELSE Medium, tool.name, s.at)
  <2>1. f \in ScanSite(s, tool, others)
    BY <1>3 DEF ScanSite, ScanHiddenUnicode
  <2>2. f.rule = "MA-010" /\ f.at = s.at /\ f.category = "tool_poisoning" /\ f.severity >= Medium
    BY DEF Found, Medium, High
  <2> HIDE DEF f
  <2>3. f \in AtLeastMedium(AnalyzeTool(tool, siblings))
    BY <1>1, <2>1, <2>2 DEF AtLeastMedium
  <2> QED BY <2>2, <2>3, <1>3
<1> QED BY <1>2, <1>3 DEF Poison

\* A poison rule that was reported stands where the poison is.
LEMMA PoisonWasThere ==
    ASSUME NEW tool, Known(tool), NEW siblings, NEW f \in AnalyzeTool(tool, siblings),
           f.rule \in PoisonRules
    PROVE  <<f.rule, f.at>> \in Poison(tool)
<1>1. CASE FromPattern(f, tool)
  <2>1. PICK s \in TextSites(tool) : f.rule \in s.text.hits /\ f.at = s.at
    BY <1>1 DEF FromPattern
  <2>2. f.rule \in {r[1] : r \in PatternRules}
    BY <2>1 DEF Known
  <2>3. f.rule # "MA-010"
    BY <2>2 DEF PatternRules
  <2> QED BY <2>1, <2>3 DEF Poison, PoisonRules
<1>2. CASE FromHidden(f, tool)
  BY <1>2 DEF FromHidden, Poison
<1>3. CASE FromParameter(f, tool)
  BY <1>3 DEF FromParameter, CheckParameter, Found, PoisonRules, StrongPoisoning
<1>4. CASE FromElsewhere(f)
  BY <1>4 DEF FromElsewhere, Elsewhere, PoisonRules, StrongPoisoning
<1> QED BY <1>1, <1>2, <1>3, <1>4, FindingsHaveAnOrigin

\* A free shell command is reported, and where it was reported it was.
LEMMA ShellIsFound ==
    ASSUME NEW tool, NEW siblings, NEW p \in FreeShell(tool)
    PROVE  \E f \in AnalyzeTool(tool, siblings) :
                /\ f.rule = "SR-005" /\ f.at = <<"input", p>>
                /\ f.severity = High /\ f.category = "schema_risk"
<1> DEFINE f == Found("SR-005", "schema_risk", High, tool.name, <<"input", p>>)
<1>1. p \in DOMAIN tool.params /\ f \in CheckParameter(tool, p)
  BY DEF FreeShell, CheckParameter
<1>2. f \in CheckSchemaRisk(tool)
  BY <1>1 DEF CheckSchemaRisk
<1>3. f \in AnalyzeTool(tool, siblings)
  <2> HIDE DEF f
  <2> QED BY <1>2 DEF AnalyzeTool, WithCompound
<1> QED BY <1>3 DEF Found

LEMMA ShellWasThere ==
    ASSUME NEW tool, Known(tool), NEW siblings, NEW f \in AnalyzeTool(tool, siblings),
           f.rule = "SR-005"
    PROVE  \E p \in FreeShell(tool) : f.at = <<"input", p>>
<1>1. ~FromPattern(f, tool)
  BY DEF FromPattern, Known, PatternRules
<1>2. FromParameter(f, tool)
  BY <1>1, FindingsHaveAnOrigin DEF FromHidden, FromElsewhere, Elsewhere
<1>3. PICK p \in DOMAIN tool.params : f \in CheckParameter(tool, p)
  BY <1>2 DEF FromParameter
<1>4. f.at = <<"input", p>> /\ p \in FreeShell(tool)
  BY <1>3 DEF CheckParameter, Found, FreeShell
<1> QED BY <1>4

-----------------------------------------------------------------------------
(***************************************************************************)
(* The grade of what a change introduces.                                  *)
(***************************************************************************)
StrongIn(F) == {f.rule : f \in ContentFindings(F)} \cap (StrongPoisoning \union {"MA-090"})

LEMMA SuspicionIsGraded ==
    ASSUME NEW F
    PROVE  /\ SuspicionSeverity(F) \in SeverityRank
           /\ ContentFindings(F) # {} => SuspicionSeverity(F) >= High
           /\ (Cardinality(StrongIn(F)) >= 3 /\ ContentFindings(F) # {})
                => SuspicionSeverity(F) = Critical
BY DEF SuspicionSeverity, StrongIn, SeverityRank, Info, High, Critical

LEMMA IntroducedIsGraded ==
    ASSUME NEW F, \A f \in F : f.severity \in SeverityRank
    PROVE  /\ IntroducedSeverity(F) \in SeverityRank
           /\ ContentFindings(F) # {} => IntroducedSeverity(F) >= High
           /\ (\E f \in F : f.category \notin ContentCategories /\ f.severity >= High)
                => IntroducedSeverity(F) >= High
           /\ (Cardinality(StrongIn(F)) >= 3 /\ ContentFindings(F) # {})
                => IntroducedSeverity(F) = Critical
<1> DEFINE other == {IF f.severity > High THEN High ELSE f.severity : f \in F \ ContentFindings(F)}
           capped == MaxSeverity(other, Info)
           susp == SuspicionSeverity(F)
<1>1. other \in SUBSET SeverityRank /\ Info \in SeverityRank
  BY DEF SeverityRank, Info, High, Critical
<1>2. IntroducedSeverity(F) = MaxSeverity({susp, capped}, Info)
  BY DEF IntroducedSeverity
<1>3. ASSUME NEW f \in F, f.category \notin ContentCategories, f.severity >= High
      PROVE  High \in other
  <2>1. f \in F \ ContentFindings(F)
    BY <1>3 DEF ContentFindings
  <2>2. (IF f.severity > High THEN High ELSE f.severity) = High
    BY <1>3 DEF SeverityRank, Info, High, Critical
  <2> QED BY <2>1, <2>2
<1>4. susp \in SeverityRank
  BY SuspicionIsGraded
<1> HIDE DEF other
<1>5. capped \in SeverityRank /\ (High \in other => High <= capped)
  BY <1>1, MaxIsHighest
<1> HIDE DEF susp, capped
<1>6. {susp, capped} \in SUBSET SeverityRank
  BY <1>4, <1>5
<1>7. /\ MaxSeverity({susp, capped}, Info) \in SeverityRank
      /\ susp <= MaxSeverity({susp, capped}, Info)
      /\ capped <= MaxSeverity({susp, capped}, Info)
  BY <1>1, <1>6, MaxIsHighest
<1> QED
  BY <1>2, <1>3, <1>4, <1>5, <1>7, SuspicionIsGraded DEF susp, SeverityRank, Info, High, Critical

\* A change of a tool that was there, in grades.
LEMMA FieldsAreGraded ==
    ASSUME NEW old, NEW new
    PROVE  {c[2] : c \in FieldChanges(old, new)} \in SUBSET SeverityRank
BY DEF FieldChanges, SeverityRank, Info, Low, Medium, High, Critical

LEMMA ToolIsGraded ==
    ASSUME NEW old, NEW new, Known(new), NEW siblings
    PROVE  LET introduced == IntroducedFindings(old, new, siblings) IN
           /\ ToolSeverity(old, new, siblings) \in SeverityRank
           /\ IntroducedSeverity(introduced) <= ToolSeverity(old, new, siblings)
           /\ \A c \in FieldChanges(old, new) : c[2] <= ToolSeverity(old, new, siblings)
<1> DEFINE introduced == IntroducedFindings(old, new, siblings)
           fields == MaxSeverity({c[2] : c \in FieldChanges(old, new)}, Low)
           brought == IntroducedSeverity(introduced)
<1>1. \A f \in introduced : f.severity \in SeverityRank
  BY FindingsAreGraded DEF IntroducedFindings, AtLeastMedium
<1>2. brought \in SeverityRank
  BY <1>1, IntroducedIsGraded
<1>3. Low \in SeverityRank
  BY DEF Low, SeverityRank, Info, Critical
<1>4. fields \in SeverityRank /\ \A c \in FieldChanges(old, new) : c[2] <= fields
  BY <1>3, FieldsAreGraded, MaxIsHighest
<1>5. ToolSeverity(old, new, siblings) = MaxSeverity({fields, brought}, Low)
  BY DEF ToolSeverity
<1>6. \A c \in FieldChanges(old, new) : c[2] \in SeverityRank
  BY FieldsAreGraded
<1> HIDE DEF introduced, fields, brought
<1>7. /\ MaxSeverity({fields, brought}, Low) \in SeverityRank
      /\ fields <= MaxSeverity({fields, brought}, Low)
      /\ brought <= MaxSeverity({fields, brought}, Low)
  BY <1>2, <1>3, <1>4, MaxIsHighest
<1>8. \A c \in FieldChanges(old, new) : c[2] <= MaxSeverity({fields, brought}, Low)
  BY <1>4, <1>6, <1>7 DEF SeverityRank, Info, Critical
<1> QED BY <1>5, <1>7, <1>8 DEF brought, introduced

\* Every difference has a grade, and the report has the highest of them.
WellKnown(snapshot) == \A n \in DOMAIN snapshot.tools : Known(snapshot.tools[n])

LEMMA GradesAreSeverities ==
    ASSUME NEW old, NEW new, WellKnown(new)
    PROVE  Grades(old, new) \in SUBSET SeverityRank
<1>1. ASSUME NEW n \in Added(old, new)
      PROVE  AddedSeverity(new.tools[n], AtLeastMedium(AnalyzeTool(new.tools[n], new.tools)))
                \in SeverityRank
  <2> DEFINE found == AtLeastMedium(AnalyzeTool(new.tools[n], new.tools))
  <2>1. Known(new.tools[n])
    BY DEF Added, WellKnown
  <2>2. \A f \in found : f.severity \in SeverityRank
    BY <2>1, FindingsAreGraded DEF AtLeastMedium
  <2> HIDE DEF found
  <2>3. IntroducedSeverity(found) \in SeverityRank
    BY <2>2, IntroducedIsGraded
  <2>4. AddedSeverity(new.tools[n], found) \in SeverityRank
    BY <2>3 DEF AddedSeverity, SeverityRank, Info, Medium, High, Critical
  <2> QED BY <2>4 DEF found
<1>2. ASSUME NEW n \in Changed(old, new)
      PROVE  ToolSeverity(old.tools[n], new.tools[n], new.tools) \in SeverityRank
  <2>1. Known(new.tools[n])
    BY DEF Changed, WellKnown
  <2> QED BY <2>1, ToolIsGraded
<1>3. Medium \in SeverityRank
  BY DEF Medium, SeverityRank, Info, Critical
<1>4. \A c \in IdentityChanges(old.identity, new.identity) : c[2] \in SeverityRank
  BY DEF IdentityChanges, SeverityRank, Info, Low, High, Critical
<1> QED BY <1>1, <1>2, <1>3, <1>4 DEF Grades

LEMMA ReportIsGraded ==
    ASSUME NEW old, NEW new, WellKnown(new)
    PROVE  CompareSnapshots(old, new).severity \in SeverityRank
<1>1. Grades(old, new) \in SUBSET SeverityRank /\ Info \in SeverityRank
  BY GradesAreSeverities DEF Info, SeverityRank, Critical
<1>2. MaxSeverity(Grades(old, new), Info) \in SeverityRank
  BY <1>1, MaxIsHighest
<1> QED BY <1>2 DEF CompareSnapshots, ReportOf

LEMMA ReportHasTheHighest ==
    ASSUME NEW old, NEW new, WellKnown(new), NEW g \in Grades(old, new)
    PROVE  LET report == CompareSnapshots(old, new) IN
           /\ report.severity \in SeverityRank /\ g \in SeverityRank /\ g <= report.severity
           /\ report.action = ActionFor(report.severity)
<1>1. Grades(old, new) \in SUBSET SeverityRank /\ Info \in SeverityRank
  BY GradesAreSeverities DEF Info, SeverityRank, Critical
<1>2. /\ MaxSeverity(Grades(old, new), Info) \in SeverityRank
      /\ g <= MaxSeverity(Grades(old, new), Info)
  BY <1>1, MaxIsHighest
<1>3. Grades(old, new) # {}
  OBVIOUS
<1> QED BY <1>1, <1>2, <1>3 DEF CompareSnapshots, ReportOf

-----------------------------------------------------------------------------
(***************************************************************************)
(* Poison and power, between any two snapshots whose texts are known.      *)
(***************************************************************************)
LEMMA StrongIsFinite == IsFiniteSet(StrongPoisoning \union {"MA-090"})
<1>1. IsFiniteSet({"MA-001"})
  BY FS_EmptySet, FS_AddElement
<1>2. IsFiniteSet({"MA-001", "MA-003"})
  BY <1>1, FS_AddElement
<1>3. IsFiniteSet({"MA-001", "MA-003", "MA-004"})
  BY <1>2, FS_AddElement
<1>4. IsFiniteSet({"MA-001", "MA-003", "MA-004", "MA-005"})
  BY <1>3, FS_AddElement
<1>5. IsFiniteSet({"MA-001", "MA-003", "MA-004", "MA-005", "MA-006"})
  BY <1>4, FS_AddElement
<1>6. IsFiniteSet({"MA-001", "MA-003", "MA-004", "MA-005", "MA-006", "MA-008"})
  BY <1>5, FS_AddElement
<1>7. IsFiniteSet(StrongPoisoning)
  BY <1>6, FS_AddElement DEF StrongPoisoning
<1> QED BY <1>7, FS_AddElement

LEMMA BroughtPoisonIsGraded ==
    ASSUME NEW F, \A f \in F : f.severity \in SeverityRank,
           NEW P, \A p \in P : \E f \in F : <<f.rule, f.at>> = p /\ f.category = "tool_poisoning"
    PROVE  /\ P # {} => IntroducedSeverity(F) >= High
           /\ Cardinality(StrongRules(P)) >= 3 => IntroducedSeverity(F) = Critical
<1>1. \A p \in P : \E f \in ContentFindings(F) : <<f.rule, f.at>> = p
  BY DEF ContentFindings, ContentCategories
<1>2. P # {} => ContentFindings(F) # {}
  BY <1>1
<1>3. StrongRules(P) \subseteq StrongIn(F)
  BY <1>1 DEF StrongRules, StrongIn
<1>4. IsFiniteSet(StrongIn(F))
  BY StrongIsFinite, FS_Subset DEF StrongIn
<1>5. /\ Cardinality(StrongRules(P)) <= Cardinality(StrongIn(F))
      /\ Cardinality(StrongRules(P)) \in Nat /\ Cardinality(StrongIn(F)) \in Nat
  BY <1>3, <1>4, FS_Subset, FS_CardinalityType
<1>6. P = {} => StrongRules(P) = {}
  BY DEF StrongRules
<1>7. P = {} => Cardinality(StrongRules(P)) = 0
  BY <1>6, FS_EmptySet
<1> QED BY <1>2, <1>5, <1>7, IntroducedIsGraded

\* What the change of tool n brings: its poison that was not there.
Brought(old, new, n) ==
    Poison(new.tools[n]) \ (IF n \in DOMAIN old.tools THEN Poison(old.tools[n]) ELSE {})

LEMMA PoisonIsGraded ==
    ASSUME NEW old, NEW new, WellKnown(old), WellKnown(new), NEW n \in DOMAIN new.tools
    PROVE  LET severity == CompareSnapshots(old, new).severity IN
           /\ Brought(old, new, n) # {} => severity \in SeverityRank /\ severity >= High
           /\ Cardinality(StrongRules(Brought(old, new, n))) >= 3 => severity = Critical
           /\ CompareSnapshots(old, new).action = ActionFor(severity) \/ Brought(old, new, n) = {}
<1> DEFINE P == Brought(old, new, n)
           tool == new.tools[n]
           severity == CompareSnapshots(old, new).severity
<1>1. Known(tool)
  BY DEF WellKnown
<1>2. \A p \in P : p \in Poison(tool)
  BY DEF Brought
<1>3. CASE P = {}
  <2>1. StrongRules(P) = {}
    BY <1>3 DEF StrongRules
  <2>2. Cardinality(StrongRules(P)) = 0
    BY <2>1, FS_EmptySet
  <2> QED BY <1>3, <2>2
<1>4. CASE P # {} /\ n \notin DOMAIN old.tools
  <2> DEFINE F == AtLeastMedium(AnalyzeTool(tool, new.tools))
  <2>1. \A f \in F : f.severity \in SeverityRank
    BY <1>1, FindingsAreGraded DEF AtLeastMedium
  <2>2. \A p \in P : \E f \in F : <<f.rule, f.at>> = p /\ f.category = "tool_poisoning"
    BY <1>1, <1>2, PoisonIsFound
  <2>3. AddedSeverity(tool, F) \in Grades(old, new)
    BY <1>4 DEF Grades, Added
  <2> HIDE DEF F, P, tool
  <2>4. F # {}
    BY <2>2, <1>4
  <2>5. AddedSeverity(tool, F) = IntroducedSeverity(F)
    BY <2>4 DEF AddedSeverity
  <2>6. /\ IntroducedSeverity(F) >= High
        /\ Cardinality(StrongRules(P)) >= 3 => IntroducedSeverity(F) = Critical
    BY <1>4, <2>1, <2>2, BroughtPoisonIsGraded
  <2>7. /\ severity \in SeverityRank /\ IntroducedSeverity(F) \in SeverityRank
        /\ IntroducedSeverity(F) <= severity
        /\ CompareSnapshots(old, new).action = ActionFor(severity)
    BY <2>3, <2>5, ReportHasTheHighest
  <2> QED BY <2>6, <2>7 DEF P, SeverityRank, Info, High, Critical
<1>5. CASE P # {} /\ n \in DOMAIN old.tools
  <2> DEFINE before == old.tools[n]
             F == IntroducedFindings(before, tool, new.tools)
  <2>1. Known(before)
    BY <1>5 DEF WellKnown
  <2>2. \A f \in F : f.severity \in SeverityRank
    BY <1>1, FindingsAreGraded DEF IntroducedFindings, AtLeastMedium
  <2>3. ASSUME NEW p \in P
        PROVE  \E f \in F : <<f.rule, f.at>> = p /\ f.category = "tool_poisoning"
    <3>1. PICK f \in AtLeastMedium(AnalyzeTool(tool, new.tools)) :
                <<f.rule, f.at>> = p /\ f.category = "tool_poisoning"
      BY <1>1, <1>2, PoisonIsFound
    <3>2. p[1] \in PoisonRules /\ p \notin Poison(before)
      BY <1>1, <1>2, <1>5, PoisonNamesItsRule DEF Brought
    <3>3. <<f.rule, f.at>> \notin FindingKeys(AnalyzeTool(before, new.tools))
      <4>1. SUFFICES ASSUME NEW g \in AnalyzeTool(before, new.tools),
                            <<g.rule, g.at>> = <<f.rule, f.at>>
                     PROVE  FALSE
        BY DEF FindingKeys, AtLeastMedium
      <4>2. g.rule \in PoisonRules
        BY <3>1, <3>2, <4>1
      <4> QED BY <2>1, <3>1, <3>2, <4>1, <4>2, PoisonWasThere
    <3> QED BY <3>1, <3>3 DEF IntroducedFindings
  <2>4. before # tool
    BY <1>5 DEF Brought
  <2>5. ToolSeverity(before, tool, new.tools) \in Grades(old, new)
    BY <1>5, <2>4 DEF Grades, Changed
  <2>6. /\ ToolSeverity(before, tool, new.tools) \in SeverityRank
        /\ IntroducedSeverity(F) <= ToolSeverity(before, tool, new.tools)
    BY <1>1, ToolIsGraded
  <2> HIDE DEF F, P, tool, before
  <2>7. /\ IntroducedSeverity(F) >= High
        /\ Cardinality(StrongRules(P)) >= 3 => IntroducedSeverity(F) = Critical
    BY <1>5, <2>2, <2>3, BroughtPoisonIsGraded
  <2>8. /\ severity \in SeverityRank
        /\ ToolSeverity(before, tool, new.tools) <= severity
        /\ CompareSnapshots(old, new).action = ActionFor(severity)
    BY <2>5, ReportHasTheHighest
  <2>9. IntroducedSeverity(F) \in SeverityRank
    BY <2>2, IntroducedIsGraded
  <2> QED BY <2>6, <2>7, <2>8, <2>9 DEF P, SeverityRank, Info, High, Critical
<1> QED BY <1>3, <1>4, <1>5

\* A tool that may do more than it did.
LEMMA WideningIsGraded ==
    ASSUME NEW old, NEW new, Known(old), Known(new), Widened(old, new), NEW siblings
    PROVE  ToolSeverity(old, new, siblings) >= High
<1> DEFINE introduced == IntroducedFindings(old, new, siblings)
<1>1. /\ ToolSeverity(old, new, siblings) \in SeverityRank
      /\ IntroducedSeverity(introduced) <= ToolSeverity(old, new, siblings)
      /\ \A c \in FieldChanges(old, new) : c[2] <= ToolSeverity(old, new, siblings)
  BY ToolIsGraded
<1>2. CASE (Declared(new) \ Declared(old)) \cap Mutating # {}
  <2>1. Escalated(old, new)
    BY <1>2 DEF Declared, Escalated, EscalationCaps, Mutating, Capability
  <2>2. CapabilityCounts(old) # CapabilityCounts(new)
    <3>1. DOMAIN CapabilityCounts(old) = ToSet(old.caps) /\ DOMAIN CapabilityCounts(new) = ToSet(new.caps)
      BY DEF CapabilityCounts
    <3> QED BY <2>1, <3>1 DEF Escalated
  <2>3. <<"capabilities", High>> \in FieldChanges(old, new)
    BY <2>1, <2>2 DEF FieldChanges
  <2> QED BY <1>1, <2>3
<1>3. CASE \E h \in {"destructiveHint", "openWorldHint"} : Hinted(new, h, TRUE) /\ ~Hinted(old, h, TRUE)
  <2>1. HintWidening(old, new) # {} /\ old.hints # new.hints
    BY <1>3 DEF HintWidening, WideningHints, Hinted
  <2>2. <<"annotations", High>> \in FieldChanges(old, new)
    BY <2>1 DEF FieldChanges
  <2> QED BY <1>1, <2>2
<1>4. CASE Hinted(new, "readOnlyHint", FALSE) /\ ~Hinted(old, "readOnlyHint", FALSE)
  <2>1. HintWidening(old, new) # {} /\ old.hints # new.hints
    BY <1>4 DEF HintWidening, WideningHints, Hinted
  <2>2. <<"annotations", High>> \in FieldChanges(old, new)
    BY <2>1 DEF FieldChanges
  <2> QED BY <1>1, <2>2
<1>5. CASE FreeShell(new) \ FreeShell(old) # {}
  <2>1. PICK p \in FreeShell(new) : p \notin FreeShell(old)
    BY <1>5
  <2>2. PICK f \in AnalyzeTool(new, siblings) :
            /\ f.rule = "SR-005" /\ f.at = <<"input", p>>
            /\ f.severity = High /\ f.category = "schema_risk"
    BY ShellIsFound
  <2>3. <<f.rule, f.at>> \notin FindingKeys(AnalyzeTool(old, siblings))
    <3>1. SUFFICES ASSUME NEW g \in AnalyzeTool(old, siblings), g.rule = f.rule, g.at = f.at
                   PROVE  FALSE
      BY DEF FindingKeys, AtLeastMedium
    <3>2. \E q \in FreeShell(old) : g.at = <<"input", q>>
      BY <2>2, <3>1, ShellWasThere
    <3> QED BY <2>1, <2>2, <3>1, <3>2
  <2>4. f \in introduced /\ f.category \notin ContentCategories /\ f.severity >= High
    BY <2>2, <2>3 DEF IntroducedFindings, AtLeastMedium, ContentCategories, Medium, High
  <2>5. \A g \in introduced : g.severity \in SeverityRank
    BY FindingsAreGraded DEF IntroducedFindings, AtLeastMedium
  <2> HIDE DEF introduced
  <2>6. IntroducedSeverity(introduced) \in SeverityRank /\ IntroducedSeverity(introduced) >= High
    BY <2>4, <2>5, IntroducedIsGraded
  <2> QED BY <1>1, <2>6 DEF SeverityRank, Info, High, Critical
<1> QED BY <1>2, <1>3, <1>4, <1>5 DEF Widened

\* The finding of a capability that is stated, and not only guessed.
Power == <<"MA-022", <<"_meta", "capabilities">>>>
LEMMA StatedIsFound ==
    ASSUME NEW tool, NEW siblings, NEW c \in Stated(tool) \cap HighRisk
    PROVE  \E f \in AtLeastMedium(AnalyzeTool(tool, siblings)) :
             /\ <<f.rule, f.at>> = Power /\ f.category \notin ContentCategories
             /\ c = "execute" => f.severity = High
<1> DEFINE worth == IF c = "execute" THEN High ELSE Medium
           f == Found("MA-022", "excessive_permission", Calibrate(worth, 90), tool.name,
                      <<"_meta", "capabilities">>)
<1>1. c \in Declared(tool) \/ (c = "delete" /\ Hinted(tool, "destructiveHint", TRUE))
  BY DEF Stated
<1>2. c \in Effective(tool)
  BY <1>1 DEF Effective
<1>3. f \in CheckHighRiskCapabilities(tool)
  BY <1>1, <1>2 DEF CheckHighRiskCapabilities
<1>4. Calibrate(worth, 90) = worth
  BY DEF Calibrate
<1>5. /\ f.severity = worth /\ <<f.rule, f.at>> = Power /\ f.category \notin ContentCategories
  BY <1>4 DEF Found, Power, ContentCategories
<1> HIDE DEF f
<1>6. f \in AnalyzeTool(tool, siblings)
  BY <1>3 DEF AnalyzeTool, WithCompound
<1>7. worth \in {Medium, High} /\ (c = "execute" => worth = High)
  OBVIOUS
<1> HIDE DEF worth
<1>8. f \in AtLeastMedium(AnalyzeTool(tool, siblings))
  BY <1>5, <1>6, <1>7 DEF AtLeastMedium, Medium, High
<1> QED BY <1>5, <1>7, <1>8

LEMMA NewPowerIsGraded ==
    ASSUME NEW tool, Known(tool), NEW siblings,
           \/ "execute" \in Declared(tool)
           \/ FreeShell(tool) # {}
           \/ Effective(tool) \cap DangerousCaps # {} /\ AtLeastMedium(AnalyzeTool(tool, siblings)) = {}
    PROVE  AddedSeverity(tool, AtLeastMedium(AnalyzeTool(tool, siblings))) >= High
<1> DEFINE F == AtLeastMedium(AnalyzeTool(tool, siblings))
<1>1. \A f \in F : f.severity \in SeverityRank
  BY FindingsAreGraded DEF AtLeastMedium
<1>2. CASE F = {}
  <2>1. Effective(tool) \cap DangerousCaps # {}
    <3>1. CASE "execute" \in Declared(tool)
      BY <3>1 DEF Effective, DangerousCaps
    <3>2. CASE FreeShell(tool) # {}
      BY <1>2, <3>2, ShellIsFound DEF AtLeastMedium, Medium, High
    <3> QED BY <3>1, <3>2
  <2> HIDE DEF F
  <2> QED BY <1>2, <2>1 DEF F, AddedSeverity, High
<1>3. CASE F # {}
  <2>1. \E f \in F : f.category \notin ContentCategories /\ f.severity >= High
    <3>1. CASE "execute" \in Declared(tool)
      <4>1. "execute" \in Stated(tool) \cap HighRisk
        BY <3>1 DEF Stated, HighRisk
      <4> QED BY <4>1, StatedIsFound DEF High
    <3>2. CASE FreeShell(tool) # {}
      BY <3>2, ShellIsFound DEF AtLeastMedium, ContentCategories, Medium, High
    <3> QED BY <1>3, <3>1, <3>2
  <2> HIDE DEF F
  <2>2. IntroducedSeverity(F) >= High
    BY <1>1, <2>1, IntroducedIsGraded
  <2>3. AddedSeverity(tool, F) = IntroducedSeverity(F)
    BY <1>3 DEF AddedSeverity
  <2> QED BY <2>2, <2>3 DEF F
<1> QED BY <1>2, <1>3

-----------------------------------------------------------------------------
(***************************************************************************)
(* What is stored of a listing: every text of it is one the rules know.    *)
(***************************************************************************)
LEMMA TypedIsKnown ==
    ASSUME NEW tool, tool.title \subseteq ToolText, tool.description \subseteq ToolText,
           tool.output \subseteq ToolText, tool.meta \subseteq ToolText,
           tool.dropped \subseteq ToolText,
           \A p \in DOMAIN tool.params : tool.params[p].description \subseteq ToolText
    PROVE  Known(tool)
<1>1. \A t \in ToolText : t.hits \subseteq {r[1] : r \in PatternRules}
  BY DEF ToolText
<1>2. \A n : NameText(n).hits \subseteq {r[1] : r \in PatternRules}
  BY DEF NameText
<1>3. ASSUME NEW s \in TextSites(tool)
      PROVE  s.text \in ToolText \/ \E n : s.text = NameText(n)
  <2>1. CASE \E p \in DOMAIN tool.params : \E t \in tool.params[p].description :
                s = Site(<<"input", p, "description">>, "param_description", "input", t)
    BY <2>1 DEF Site
  <2> QED BY <1>3, <2>1 DEF TextSites, Site
<1> QED BY <1>1, <1>2, <1>3 DEF Known

\* What normalising a definition keeps, field by field.
LEMMA NormalizedFields ==
    ASSUME NEW t, WellFormed(t)
    PROVE  LET u == NormalizeTool(t) IN
           /\ u.title = NormalizeProse(t.title) /\ u.description = NormalizeProse(t.description)
           /\ u.output = NormalizeProse(t.output) /\ u.name = t.name
           /\ u.dropped = t.dropped /\ u.meta = t.meta
           /\ DOMAIN u.params = DOMAIN t.params
           /\ \A p \in DOMAIN t.params :
                u.params[p].description = NormalizeProse(t.params[p].description)
           /\ u = [name |-> u.name, title |-> u.title, description |-> u.description,
                   params |-> u.params, required |-> u.required, open |-> u.open,
                   depth |-> u.depth, output |-> u.output, outputDepth |-> u.outputDepth,
                   hints |-> u.hints, caps |-> u.caps, dropped |-> u.dropped, meta |-> u.meta]
<1> DEFINE u == NormalizeTool(t)
           fields == {"name", "title", "description", "params", "required", "open", "depth",
                      "output", "outputDepth", "hints", "caps", "dropped", "meta"}
<1>1. t = [f \in fields |-> t[f]]
  BY DEF WellFormed
<1>2. u = [f \in fields |-> u[f]]
  BY <1>1 DEF NormalizeTool
<1>3. \A f \in fields : f \in DOMAIN t
  BY <1>1
<1>4. /\ u.title = NormalizeProse(t.title) /\ u.description = NormalizeProse(t.description)
      /\ u.output = NormalizeProse(t.output) /\ u.name = t.name
      /\ u.dropped = t.dropped /\ u.meta = t.meta
      /\ DOMAIN u.params = DOMAIN t.params
  <2>1. u.title = NormalizeProse(t.title) /\ u.description = NormalizeProse(t.description)
    BY <1>3 DEF NormalizeTool
  <2>2. /\ u.output = NormalizeProse(t.output) /\ u.name = t.name
        /\ u.dropped = t.dropped /\ u.meta = t.meta
    BY <1>3 DEF NormalizeTool
  <2>3. DOMAIN u.params = DOMAIN t.params
    BY <1>3 DEF NormalizeTool, NormalizeParams
  <2> QED BY <2>1, <2>2, <2>3
<1>5. ASSUME NEW p \in DOMAIN t.params
      PROVE  u.params[p].description = NormalizeProse(t.params[p].description)
  <2>1. t.params[p] \in ToolParam
    BY DEF WellFormed
  <2>2. "description" \in DOMAIN t.params[p]
    BY <2>1 DEF ToolParam
  <2>3. u.params = NormalizeParams(t.params)
    BY <1>3 DEF NormalizeTool
  <2> QED BY <2>2, <2>3 DEF NormalizeParams
<1> HIDE DEF u
<1>6. u = [name |-> u.name, title |-> u.title, description |-> u.description,
           params |-> u.params, required |-> u.required, open |-> u.open,
           depth |-> u.depth, output |-> u.output, outputDepth |-> u.outputDepth,
           hints |-> u.hints, caps |-> u.caps, dropped |-> u.dropped, meta |-> u.meta]
  BY <1>2
<1> QED BY <1>4, <1>5, <1>6 DEF u

LEMMA ProseStaysTyped ==
    ASSUME NEW prose \in SUBSET ToolText
    PROVE  NormalizeProse(prose) \in SUBSET ToolText
BY DEF NormalizeProse, NormalizeText, ToolText

LEMMA StoredTools ==
    ASSUME NEW v \in Comparable, NEW n \in DOMAIN Snapshots[v].tools
    PROVE  \E t : WellFormed(t) /\ t.name = n /\ Snapshots[v].tools[n] = NormalizeTool(t)
<1> DEFINE listing == Listing[v]
           t == CHOOSE x \in ToSet(listing) : x.name = n
<1>1. Snapshots[v].tools = [m \in DOMAIN ByName(listing) |-> NormalizeTool(ByName(listing)[m])]
  BY DEF Snapshots, BuildSnapshot
<1>2. n \in DOMAIN ByName(listing)
  BY <1>1
<1>3. \E x \in ToSet(listing) : x.name = n
  BY <1>2 DEF ByName, ToSet
<1>4. t \in ToSet(listing) /\ t.name = n
  BY <1>3
<1>5. ByName(listing)[n] = t
  BY <1>2 DEF ByName
<1>6. WellFormed(t)
  BY <1>4, ListingAssumption DEF ToSet, Comparable
<1> QED BY <1>1, <1>2, <1>4, <1>5, <1>6

LEMMA StoredIsKnown ==
    ASSUME NEW v \in Comparable
    PROVE  WellKnown(Snapshots[v])
<1> SUFFICES ASSUME NEW n \in DOMAIN Snapshots[v].tools
             PROVE  Known(Snapshots[v].tools[n])
  BY DEF WellKnown
<1>1. PICK t : WellFormed(t) /\ Snapshots[v].tools[n] = NormalizeTool(t)
  BY StoredTools
<1>2. /\ {t.title, t.description, t.output, t.dropped, t.meta} \subseteq SUBSET ToolText
      /\ \A p \in DOMAIN t.params : t.params[p].description \in SUBSET ToolText
  BY <1>1 DEF WellFormed, ToolParam
<1> DEFINE u == NormalizeTool(t)
<1>3. /\ u.title = NormalizeProse(t.title) /\ u.description = NormalizeProse(t.description)
      /\ u.output = NormalizeProse(t.output) /\ u.dropped = t.dropped /\ u.meta = t.meta
      /\ DOMAIN u.params = DOMAIN t.params
      /\ \A p \in DOMAIN t.params :
           u.params[p].description = NormalizeProse(t.params[p].description)
  BY <1>1, NormalizedFields
<1> HIDE DEF u
<1>4. /\ u.title \subseteq ToolText /\ u.description \subseteq ToolText
      /\ u.output \subseteq ToolText /\ u.dropped \subseteq ToolText /\ u.meta \subseteq ToolText
      /\ \A p \in DOMAIN u.params : u.params[p].description \subseteq ToolText
  BY <1>2, <1>3, ProseStaysTyped
<1>5. Known(u)
  BY <1>4, TypedIsKnown
<1> QED BY <1>1, <1>5 DEF u

-----------------------------------------------------------------------------
(***************************************************************************)
(* DriftReview keeps the type of its state, and compares what can be       *)
(* compared.                                                               *)
(***************************************************************************)
THEOREM TypeCorrect == Spec => []TypeOK
<1> USE DEF TypeOK
<1>1. Init => TypeOK
  <2>1. Init => {base, approved, current} \subseteq Comparable /\ broken \in BOOLEAN
    BY FirstAssumption DEF Init, Comparable
  <2>2. Init => worst \in SeverityRank
    BY DEF Init, SeverityRank, Info, Critical
  <2> QED BY <2>1, <2>2
<1>2. TypeOK /\ [Next]_vars => TypeOK'
  <2> SUFFICES ASSUME TypeOK, [Next]_vars PROVE TypeOK'
    OBVIOUS
  <2>1. CASE Advertise
    BY <2>1 DEF Advertise
  <2>2. CASE Approve(Report)
    <3>1. WellKnown(Snapshots[current]) /\ Report = CompareSnapshots(Snapshots[approved], Snapshots[current])
      BY StoredIsKnown DEF Report, Reports
    <3>3. Report.severity \in SeverityRank
      BY <3>1, ReportIsGraded
    <3>4. {worst, Report.severity} \in SUBSET SeverityRank /\ Info \in SeverityRank
      BY <3>3 DEF Info, SeverityRank, Critical
    <3>5. MaxSeverity({worst, Report.severity}, Info) \in SeverityRank
      BY <3>4, MaxIsHighest
    <3> QED BY <2>2, <3>5 DEF Approve
  <2>3. CASE UNCHANGED vars
    BY <2>3 DEF vars
  <2> QED BY <2>1, <2>2, <2>3 DEF Next
<1> QED BY <1>1, <1>2, PTL DEF Spec

(***************************************************************************)
(* drift_detector.py: whatever the server turns its tools into, and        *)
(* whatever was approved before, a change that brings poison to a place,   *)
(* that widens what a tool there before may do, or that adds one that      *)
(* declares execute, takes a free shell command or only looks dangerous,   *)
(* is at least HIGH; three strong rules that are new are CRITICAL.  A new  *)
(* tool that declares delete or send is not meant: it may be MEDIUM.       *)
(***************************************************************************)
THEOREM DangerIsAlwaysHigh == Spec => []DangerIsHigh
<1>1. TypeOK => DangerIsHigh
  <2> SUFFICES ASSUME TypeOK PROVE DangerIsHigh
    OBVIOUS
  <2> DEFINE old == Snapshots[approved]
             new == Snapshots[current]
  <2>1. WellKnown(old) /\ WellKnown(new) /\ Report = CompareSnapshots(old, new)
    BY StoredIsKnown DEF TypeOK, Report, Reports
  <2>2. PoisonIsHigh(Report)
    <3> SUFFICES ASSUME NEW n \in Present
                 PROVE  /\ NewPoison(n) # {} =>
                             /\ Report.severity >= High
                             /\ Report.action \in {"block_until_reviewed", "quarantine"}
                        /\ Cardinality(StrongRules(NewPoison(n))) >= 3 => Report.action = "quarantine"
      BY DEF PoisonIsHigh
    <3>1. NewPoison(n) = Brought(old, new, n) /\ n \in DOMAIN new.tools
      BY DEF NewPoison, Brought, Kept, Present, Old, New
    <3> HIDE DEF old, new
    <3>2. /\ NewPoison(n) # {} => Report.severity \in SeverityRank /\ Report.severity >= High
          /\ Cardinality(StrongRules(NewPoison(n))) >= 3 => Report.severity = Critical
          /\ Report.action = ActionFor(Report.severity) \/ NewPoison(n) = {}
      BY <2>1, <3>1, PoisonIsGraded
    <3>3. NewPoison(n) = {} => Cardinality(StrongRules(NewPoison(n))) = 0
      <4>1. NewPoison(n) = {} => StrongRules(NewPoison(n)) = {}
        BY DEF StrongRules
      <4> QED BY <4>1, FS_EmptySet
    <3>4. Report.severity \in SeverityRank /\ Report.severity >= High
            => ActionFor(Report.severity) \in {"block_until_reviewed", "quarantine"}
      BY DEF ActionFor, SeverityRank, Info, High, Critical
    <3>5. Report.severity = Critical => ActionFor(Report.severity) = "quarantine"
      BY DEF ActionFor
    <3> QED BY <3>2, <3>3, <3>4, <3>5
  <2>3. WideningIsHigh(Report)
    <3> SUFFICES ASSUME NEW n \in Kept, Widened(Old(n), New(n))
                 PROVE  Report.severity >= High
      BY DEF WideningIsHigh
    <3> DEFINE grade == ToolSeverity(old.tools[n], new.tools[n], new.tools)
    <3>1. Known(old.tools[n]) /\ Known(new.tools[n]) /\ Widened(old.tools[n], new.tools[n])
      BY <2>1 DEF WellKnown, Kept, Old, New
    <3>2. grade >= High
      BY <3>1, WideningIsGraded
    <3>3. old.tools[n] # new.tools[n]
      BY <3>1 DEF Widened
    <3>4. grade \in Grades(old, new)
      BY <3>3 DEF Grades, Changed, Kept
    <3> HIDE DEF grade, old, new
    <3>5. Report.severity \in SeverityRank /\ grade \in SeverityRank /\ grade <= Report.severity
      BY <2>1, <3>4, ReportHasTheHighest
    <3> QED BY <3>2, <3>5 DEF SeverityRank, Info, High, Critical
  <2>4. NewPowerIsHigh(Report)
    <3> SUFFICES ASSUME NEW n \in Present \ Kept, NewPower(n)
                 PROVE  Report.severity >= High /\ Report.action # "review"
      BY DEF NewPowerIsHigh
    <3> DEFINE tool == new.tools[n]
               grade == AddedSeverity(tool, AtLeastMedium(AnalyzeTool(tool, new.tools)))
    <3>1. Known(tool) /\ n \in Added(old, new)
      BY <2>1 DEF WellKnown, Kept, Present, Added
    <3>2. /\ tool = New(n)
          /\ \/ "execute" \in Declared(tool)
             \/ FreeShell(tool) # {}
             \/ /\ Effective(tool) \cap DangerousCaps # {}
                /\ AtLeastMedium(AnalyzeTool(tool, new.tools)) = {}
      BY DEF NewPower, New, Unremarkable
    <3>3. grade \in Grades(old, new)
      BY <3>1 DEF Grades
    <3> HIDE DEF old, new, tool
    <3>4. grade >= High
      BY <3>1, <3>2, NewPowerIsGraded
    <3> HIDE DEF grade
    <3>5. /\ Report.severity \in SeverityRank /\ grade \in SeverityRank /\ grade <= Report.severity
          /\ Report.action = ActionFor(Report.severity)
      BY <2>1, <3>3, ReportHasTheHighest
    <3>6. Report.severity >= High
      BY <3>4, <3>5 DEF SeverityRank, Info, High, Critical
    <3>7. ActionFor(Report.severity) # "review"
      BY <3>5, <3>6 DEF ActionFor, SeverityRank, Info, High, Critical
    <3> QED BY <3>5, <3>6, <3>7
  <2> QED BY <2>2, <2>3, <2>4 DEF DangerIsHigh
<1> QED BY <1>1, TypeCorrect, PTL

-----------------------------------------------------------------------------
(***************************************************************************)
(* Every difference has a name.                                            *)
(***************************************************************************)

\* A stored definition is its name and its fields.
LEMMA StoredShape ==
    ASSUME NEW v \in Comparable, NEW n \in DOMAIN Snapshots[v].tools
    PROVE  LET u == Snapshots[v].tools[n] IN
           /\ u.name = n
           /\ u = [name |-> u.name, title |-> u.title, description |-> u.description,
                   params |-> u.params, required |-> u.required, open |-> u.open,
                   depth |-> u.depth, output |-> u.output, outputDepth |-> u.outputDepth,
                   hints |-> u.hints, caps |-> u.caps, dropped |-> u.dropped, meta |-> u.meta]
<1>1. PICK t : WellFormed(t) /\ t.name = n /\ Snapshots[v].tools[n] = NormalizeTool(t)
  BY StoredTools
<1> QED BY <1>1, NormalizedFields

\* Nothing but what has no name is left where no field has changed.
LEMMA UnchangedFields ==
    ASSUME NEW t, NEW u, FieldChanges(t, u) = {}
    PROVE  /\ t.description = u.description /\ t.title = u.title
           /\ InputSchema(t) = InputSchema(u) /\ OutputSchema(t) = OutputSchema(u)
           /\ t.hints = u.hints /\ t.meta = u.meta
           /\ CapabilityCounts(t) = CapabilityCounts(u)
BY DEF FieldChanges

\* A field that differs puts its name among the changes.
LEMMA DifferencesAreListed ==
    ASSUME NEW t, NEW u
    PROVE  /\ t.description # u.description => <<"description", Medium>> \in FieldChanges(t, u)
           /\ t.title # u.title => <<"title", Medium>> \in FieldChanges(t, u)
           /\ InputSchema(t) # InputSchema(u) => <<"input_schema", Medium>> \in FieldChanges(t, u)
           /\ t.hints # u.hints
              => \E s \in {High, Low} : <<"annotations", s>> \in FieldChanges(t, u)
           /\ CapabilityCounts(t) # CapabilityCounts(u)
              => \E s \in {High, Low} : <<"capabilities", s>> \in FieldChanges(t, u)
           /\ t.meta # u.meta => <<"meta", Low>> \in FieldChanges(t, u)
<1>1. t.description # u.description => <<"description", Medium>> \in FieldChanges(t, u)
  BY DEF FieldChanges
<1>2. t.title # u.title => <<"title", Medium>> \in FieldChanges(t, u)
  BY DEF FieldChanges
<1>3. InputSchema(t) # InputSchema(u) => <<"input_schema", Medium>> \in FieldChanges(t, u)
  BY DEF FieldChanges
<1>4. t.hints # u.hints => \E s \in {High, Low} : <<"annotations", s>> \in FieldChanges(t, u)
  BY DEF FieldChanges
<1>5. CapabilityCounts(t) # CapabilityCounts(u)
      => \E s \in {High, Low} : <<"capabilities", s>> \in FieldChanges(t, u)
  BY DEF FieldChanges
<1>6. t.meta # u.meta => <<"meta", Low>> \in FieldChanges(t, u)
  BY DEF FieldChanges
<1> QED BY <1>1, <1>2, <1>3, <1>4, <1>5, <1>6

LEMMA UnlistedFields ==
    ASSUME NEW t, NEW u, \A c \in FieldChanges(t, u) : c[1] = "output_schema"
    PROVE  /\ t.description = u.description /\ t.title = u.title
           /\ InputSchema(t) = InputSchema(u)
           /\ t.hints = u.hints /\ t.meta = u.meta
           /\ CapabilityCounts(t) = CapabilityCounts(u)
<1>1. \A f, s : <<f, s>> \in FieldChanges(t, u) => f = "output_schema"
  <2> SUFFICES ASSUME NEW f, NEW s, <<f, s>> \in FieldChanges(t, u) PROVE f = "output_schema"
    OBVIOUS
  <2>1. <<f, s>>[1] = "output_schema"
    OBVIOUS
  <2> QED BY <2>1
<1>2. /\ <<"description", Medium>> \notin FieldChanges(t, u)
      /\ <<"title", Medium>> \notin FieldChanges(t, u)
      /\ <<"input_schema", Medium>> \notin FieldChanges(t, u)
      /\ <<"meta", Low>> \notin FieldChanges(t, u)
      /\ \A s : /\ <<"annotations", s>> \notin FieldChanges(t, u)
                /\ <<"capabilities", s>> \notin FieldChanges(t, u)
  BY <1>1
<1> QED BY <1>2, DifferencesAreListed

Shaped(t) ==
    t = [name |-> t.name, title |-> t.title, description |-> t.description,
         params |-> t.params, required |-> t.required, open |-> t.open,
         depth |-> t.depth, output |-> t.output, outputDepth |-> t.outputDepth,
         hints |-> t.hints, caps |-> t.caps, dropped |-> t.dropped, meta |-> t.meta]

LEMMA SameButCaps ==
    ASSUME NEW t, NEW u, Shaped(t), Shaped(u), t.name = u.name,
           \A c \in FieldChanges(t, u) : c[1] = "output_schema"
    PROVE  /\ OnlyUnlisted(t, u)
           /\ OutputSchema(t) = OutputSchema(u) => OnlyUncounted(t, u)
<1> DEFINE Field == {"name", "title", "description", "params", "required", "open", "depth",
                     "output", "outputDepth", "hints", "caps", "dropped", "meta"}
           w == [t EXCEPT !.output = u.output, !.outputDepth = u.outputDepth]
<1>1. t = [f \in Field |-> t[f]] /\ u = [f \in Field |-> u[f]]
  BY DEF Shaped
<1>2. /\ t.description = u.description /\ t.title = u.title
      /\ InputSchema(t) = InputSchema(u)
      /\ t.hints = u.hints /\ t.meta = u.meta
      /\ CapabilityCounts(t) = CapabilityCounts(u)
  BY UnlistedFields
<1>3. t.params = u.params /\ t.required = u.required /\ t.open = u.open /\ t.depth = u.depth
  BY <1>2 DEF InputSchema
<1>4. \A f \in Field \ {"output", "outputDepth", "caps", "dropped"} : t[f] = u[f]
  BY <1>2, <1>3
<1> HIDE DEF Field
<1>5. {"caps", "dropped", "output", "outputDepth"} \subseteq Field
  BY DEF Field
<1>6. w = [f \in Field |-> IF f \in {"output", "outputDepth"} THEN u[f] ELSE t[f]]
  BY <1>1, <1>5
<1>7. w.caps = t.caps
  BY <1>5, <1>6
<1>8. CapabilityCounts(w) = CapabilityCounts(u)
  BY <1>2, <1>7 DEF CapabilityCounts
<1> HIDE DEF w
<1>9. [w EXCEPT !.caps = u.caps, !.dropped = u.dropped] = [f \in Field |-> u[f]]
  BY <1>4, <1>5, <1>6
<1>10. ASSUME OutputSchema(t) = OutputSchema(u) PROVE [t EXCEPT !.caps = u.caps, !.dropped = u.dropped] = u
  <2>1. t["output"] = u["output"] /\ t["outputDepth"] = u["outputDepth"]
    BY <1>10 DEF OutputSchema
  <2>2. [t EXCEPT !.caps = u.caps, !.dropped = u.dropped] = [f \in Field |-> u[f]]
    BY <1>1, <1>4, <1>5, <2>1
  <2> QED BY <1>1, <2>2
<1> QED BY <1>1, <1>2, <1>8, <1>9, <1>10 DEF OnlyUnlisted, OnlyUncounted, w

(***************************************************************************)
(* compare_snapshots and drift_finding: whatever was approved and whatever *)
(* is advertised, the report names every tool that is new, gone or         *)
(* different, and the finding made of it the tools that differ and no      *)
(* other; three differences are the exception: a new order of the declared *)
(* capabilities, what stands among them or in their place and is none,     *)
(* and, for the finding, an output schema changed with nothing else.       *)
(***************************************************************************)
THEOREM EveryChangeIsNamed == Spec => []ChangesAreNamed
<1>1. TypeOK => ChangesAreNamed
  <2> SUFFICES ASSUME TypeOK PROVE ChangesAreNamed
    OBVIOUS
  <2> DEFINE old == Snapshots[approved]
             new == Snapshots[current]
  <2>1. /\ Report.added = Added(old, new) /\ Report.removed = Removed(old, new)
        /\ Report.changes = UNION {{<<n, c[1]>> : c \in FieldChanges(old.tools[n], new.tools[n])} :
                                    n \in Changed(old, new)}
    BY DEF TypeOK, Report, Reports, CompareSnapshots, ReportOf
  <2>2. ASSUME NEW n \in Kept, Old(n) # New(n)
        PROVE  \A c \in FieldChanges(Old(n), New(n)) : <<n, c[1]>> \in Report.changes
    BY <2>1, <2>2 DEF Changed, Kept, Old, New
  <2>3. \A d \in Report.changes : d = <<d[1], d[2]>> /\ d[1] \in Changed(old, new)
    BY <2>1
  <2>4. ASSUME NEW n \in Kept
        PROVE  /\ Old(n).name = New(n).name
               /\ Shaped(Old(n)) /\ Shaped(New(n))
    BY StoredShape DEF Kept, Old, New, TypeOK, Shaped
  <2>5. ASSUME NEW n \in Kept, \A c \in FieldChanges(Old(n), New(n)) : c[1] = "output_schema"
        PROVE  /\ OnlyUnlisted(Old(n), New(n))
               /\ OutputSchema(Old(n)) = OutputSchema(New(n)) => OnlyUncounted(Old(n), New(n))
    BY <2>4, <2>5, SameButCaps
  <2>6. ASSUME NEW n \in Present \union DOMAIN old.tools
        PROVE  \/ n \in Report.added \union Report.removed
               \/ /\ n \in Kept
                  /\ \/ Old(n) = New(n)
                     \/ \E f \in Report.changes : f[1] = n
                     \/ OnlyUncounted(Old(n), New(n))
    <3>1. CASE n \notin Kept
      BY <2>1, <3>1 DEF Kept, Present, Added, Removed
    <3>2. CASE n \in Kept /\ Old(n) # New(n) /\ FieldChanges(Old(n), New(n)) # {}
      BY <2>2, <3>2
    <3>3. CASE n \in Kept /\ FieldChanges(Old(n), New(n)) = {}
      BY <2>5, <3>3, UnchangedFields
    <3> QED BY <3>1, <3>2, <3>3
  <2>7. ASSUME NEW n \in Kept
        PROVE  (n \in ChangedTools(Report) <=> Old(n) # New(n)) \/ OnlyUnlisted(Old(n), New(n))
    <3>1. n \in ChangedTools(Report) => Old(n) # New(n)
      BY <2>3 DEF ChangedTools, Changed, Old, New
    <3>2. CASE Old(n) # New(n) /\ \E c \in FieldChanges(Old(n), New(n)) : c[1] # "output_schema"
      <4>1. PICK c \in FieldChanges(Old(n), New(n)) : c[1] # "output_schema"
        BY <3>2
      <4>2. <<n, c[1]>> \in Report.changes
        BY <2>2, <3>2
      <4>3. n \in ChangedTools(Report)
        BY <4>1, <4>2 DEF ChangedTools
      <4> QED BY <3>2, <4>3
    <3>3. CASE \A c \in FieldChanges(Old(n), New(n)) : c[1] = "output_schema"
      BY <2>5, <3>3
    <3> QED BY <3>1, <3>2, <3>3
  <2> QED BY <2>6, <2>7 DEF ChangesAreNamed, NamesChanges
<1> QED BY <1>1, TypeCorrect, PTL

-----------------------------------------------------------------------------
(***************************************************************************)
(* What a fingerprint tells apart: two lists have the same order that      *)
(* stands for them when one is the other rearranged, and two definitions   *)
(* are normalised alike when they read alike.                              *)
(***************************************************************************)
LEMMA ReorderedTwice ==
    ASSUME NEW a, NEW b \in Reorderings(a), NEW c \in Reorderings(b)
    PROVE  c \in Reorderings(a)
<1>1. PICK p \in Bijection(DOMAIN a, DOMAIN a) : b = [i \in DOMAIN a |-> a[p[i]]]
  BY DEF Reorderings
<1>2. DOMAIN b = DOMAIN a
  BY <1>1
<1>3. PICK q \in Bijection(DOMAIN a, DOMAIN a) : c = [i \in DOMAIN a |-> b[q[i]]]
  BY <1>2 DEF Reorderings
<1> DEFINE r == [i \in DOMAIN a |-> p[q[i]]]
<1>4. r \in Bijection(DOMAIN a, DOMAIN a)
  BY Fun_BijTransitive
<1>5. \A i \in DOMAIN a : q[i] \in DOMAIN a
  BY DEF Bijection, Injection, Surjection
<1>6. c = [i \in DOMAIN a |-> a[r[i]]]
  BY <1>1, <1>3, <1>5
<1> HIDE DEF r
<1> QED BY <1>4, <1>6 DEF Reorderings

LEMMA ReorderedBack ==
    ASSUME NEW a, a = [i \in DOMAIN a |-> a[i]], NEW b \in Reorderings(a)
    PROVE  a \in Reorderings(b)
<1>1. PICK p \in Bijection(DOMAIN a, DOMAIN a) : b = [i \in DOMAIN a |-> a[p[i]]]
  BY DEF Reorderings
<1>2. DOMAIN b = DOMAIN a
  BY <1>1
<1>3. /\ \A i \in DOMAIN a : p[i] \in DOMAIN a
      /\ \A i \in DOMAIN a : \E j \in DOMAIN a : p[j] = i
      /\ \A i, j \in DOMAIN a : p[i] = p[j] => i = j
  BY DEF Bijection, Injection, Surjection, IsInjective
<1> DEFINE q == [i \in DOMAIN a |-> CHOOSE j \in DOMAIN a : p[j] = i]
<1>4. \A i \in DOMAIN a : q[i] \in DOMAIN a /\ p[q[i]] = i
  BY <1>3
<1>5. \A i \in DOMAIN a : q[p[i]] = i
  BY <1>3, <1>4
<1>6. q \in [DOMAIN a -> DOMAIN a]
  BY <1>4
<1> HIDE DEF q
<1>7. ASSUME NEW i \in DOMAIN a, NEW j \in DOMAIN a, q[i] = q[j] PROVE i = j
  <2>1. p[q[i]] = i /\ p[q[j]] = j
    BY <1>4
  <2> QED BY <2>1, <1>7, Zenon
<1>8. \A i \in DOMAIN a : \E j \in DOMAIN a : q[j] = i
  BY <1>3, <1>5
<1>9. q \in Bijection(DOMAIN a, DOMAIN a)
  BY <1>6, <1>7, <1>8 DEF Bijection, Injection, Surjection, IsInjective
<1>10. a = [i \in DOMAIN a |-> b[q[i]]]
  BY <1>1, <1>4
<1> QED BY <1>2, <1>9, <1>10 DEF Reorderings

LEMMA ReorderedAtAll ==
    ASSUME NEW a, a = [i \in DOMAIN a |-> a[i]]
    PROVE  a \in Reorderings(a)
<1> DEFINE id == [i \in DOMAIN a |-> i]
<1>1. id \in Bijection(DOMAIN a, DOMAIN a)
  BY DEF Bijection, Injection, Surjection, IsInjective
<1>2. a = [i \in DOMAIN a |-> a[id[i]]]
  OBVIOUS
<1> QED BY <1>1, <1>2 DEF Reorderings

LEMMA SortedAlike ==
    ASSUME NEW S, NEW a \in Seq(S), NEW b \in Seq(S)
    PROVE  Sorted(a) = Sorted(b) <=> b \in Reorderings(a)
<1>1. a = [i \in DOMAIN a |-> a[i]] /\ b = [i \in DOMAIN b |-> b[i]]
  OBVIOUS
<1>2. ASSUME b \in Reorderings(a) PROVE Sorted(a) = Sorted(b)
  <2>1. a \in Reorderings(b)
    BY <1>1, <1>2, ReorderedBack
  <2>2. ASSUME NEW c \in Reorderings(a) PROVE c \in Reorderings(b)
    BY <2>1, ReorderedTwice
  <2>3. ASSUME NEW c \in Reorderings(b) PROVE c \in Reorderings(a)
    BY <1>2, ReorderedTwice
  <2>4. Reorderings(a) = Reorderings(b)
    BY <2>2, <2>3
  <2> QED BY <2>4 DEF Sorted
<1>3. ASSUME Sorted(a) = Sorted(b) PROVE b \in Reorderings(a)
  <2>1. a \in Reorderings(a) /\ b \in Reorderings(b)
    BY <1>1, ReorderedAtAll
  <2>2. Sorted(a) \in Reorderings(a) /\ Sorted(b) \in Reorderings(b)
    BY <2>1 DEF Sorted
  <2>3. b \in Reorderings(Sorted(b))
    BY <1>1, <2>2, ReorderedBack
  <2> QED BY <1>3, <2>2, <2>3, ReorderedTwice
<1> QED BY <1>2, <1>3

\* The layout aside: whatever it is taken to be.
Laid(prose) == {[x EXCEPT !.ragged = TRUE] : x \in prose}
LEMMA ProseAlike ==
    ASSUME NEW a \in SUBSET ToolText, NEW b \in SUBSET ToolText
    PROVE  NormalizeProse(a) = NormalizeProse(b) <=> Laid(a) = Laid(b)
<1>1. \A x, y \in ToolText :
        NormalizeText(x) = NormalizeText(y) <=> [x EXCEPT !.ragged = TRUE] = [y EXCEPT !.ragged = TRUE]
  BY DEF ToolText, NormalizeText
<1> DEFINE laid(x) == [x EXCEPT !.ragged = TRUE]
<1>2. /\ \A x \in a : NormalizeText(x) \in NormalizeProse(a) /\ laid(x) \in Laid(a)
      /\ \A x \in b : NormalizeText(x) \in NormalizeProse(b) /\ laid(x) \in Laid(b)
  BY DEF NormalizeProse, Laid
<1>3. /\ \A n \in NormalizeProse(a) : \E x \in a : n = NormalizeText(x)
      /\ \A n \in NormalizeProse(b) : \E x \in b : n = NormalizeText(x)
      /\ \A n \in Laid(a) : \E x \in a : n = laid(x)
      /\ \A n \in Laid(b) : \E x \in b : n = laid(x)
  BY DEF NormalizeProse, Laid
<1>4. \A x, y \in ToolText : NormalizeText(x) = NormalizeText(y) <=> laid(x) = laid(y)
  BY <1>1
<1> HIDE DEF laid
<1>5. ASSUME NormalizeProse(a) = NormalizeProse(b) PROVE Laid(a) = Laid(b)
  <2>1. ASSUME NEW x \in a PROVE laid(x) \in Laid(b)
    BY <1>2, <1>3, <1>4, <1>5
  <2>2. ASSUME NEW y \in b PROVE laid(y) \in Laid(a)
    BY <1>2, <1>3, <1>4, <1>5
  <2> QED BY <1>3, <2>1, <2>2
<1>6. ASSUME Laid(a) = Laid(b) PROVE NormalizeProse(a) = NormalizeProse(b)
  <2>1. ASSUME NEW x \in a PROVE NormalizeText(x) \in NormalizeProse(b)
    BY <1>2, <1>3, <1>4, <1>6
  <2>2. ASSUME NEW y \in b PROVE NormalizeText(y) \in NormalizeProse(a)
    BY <1>2, <1>3, <1>4, <1>6
  <2> QED BY <1>3, <2>1, <2>2
<1> QED BY <1>5, <1>6

\* What stands in a parameter, described and not.
LEMMA ParamsAlike ==
    ASSUME NEW a, NEW b, a \in [DOMAIN a -> ToolParam], b \in [DOMAIN b -> ToolParam]
    PROVE  NormalizeParams(a) = NormalizeParams(b) <=>
           /\ DOMAIN a = DOMAIN b
           /\ \A p \in DOMAIN a :
                /\ Laid(a[p].description) = Laid(b[p].description)
                /\ a[p].type = b[p].type
                /\ a[p].restricted = b[p].restricted
<1> DEFINE alike(p) == /\ Laid(a[p].description) = Laid(b[p].description)
                       /\ a[p].type = b[p].type
                       /\ a[p].restricted = b[p].restricted
           norm(x) == [x EXCEPT !.description = NormalizeProse(@)]
<1>1. ASSUME NEW x \in ToolParam, NEW y \in ToolParam
      PROVE  norm(x) = norm(y) <=>
             /\ NormalizeProse(x.description) = NormalizeProse(y.description)
             /\ x.type = y.type /\ x.restricted = y.restricted
  <2>1. /\ x = [type |-> x.type, restricted |-> x.restricted, description |-> x.description]
        /\ y = [type |-> y.type, restricted |-> y.restricted, description |-> y.description]
    BY DEF ToolParam
  <2>2. norm(x) = [type |-> x.type, restricted |-> x.restricted,
                   description |-> NormalizeProse(x.description)]
    BY <2>1
  <2>3. norm(y) = [type |-> y.type, restricted |-> y.restricted,
                   description |-> NormalizeProse(y.description)]
    BY <2>1
  <2> HIDE DEF norm
  <2> QED BY <2>2, <2>3
<1>2. NormalizeParams(a) = [p \in DOMAIN a |-> norm(a[p])]
  BY Zenon DEF NormalizeParams
<1>3. NormalizeParams(b) = [p \in DOMAIN b |-> norm(b[p])]
  BY Zenon DEF NormalizeParams
<1>4. ASSUME NEW p, p \in DOMAIN a, p \in DOMAIN b
      PROVE  norm(a[p]) = norm(b[p]) <=> alike(p)
  <2>1. a[p] \in ToolParam /\ b[p] \in ToolParam
    BY <1>4
  <2>2. a[p].description \in SUBSET ToolText /\ b[p].description \in SUBSET ToolText
    BY <2>1 DEF ToolParam
  <2> QED BY <1>1, <2>1, <2>2, ProseAlike
<1> HIDE DEF norm, alike
<1>5. ASSUME NormalizeParams(a) = NormalizeParams(b)
      PROVE  DOMAIN a = DOMAIN b /\ \A p \in DOMAIN a : alike(p)
  <2>1. DOMAIN a = DOMAIN b
    BY <1>2, <1>3, <1>5
  <2>2. ASSUME NEW p \in DOMAIN a PROVE norm(a[p]) = norm(b[p])
    BY <1>2, <1>3, <1>5, <2>1
  <2> QED BY <1>4, <2>1, <2>2
<1>6. ASSUME DOMAIN a = DOMAIN b, \A p \in DOMAIN a : alike(p)
      PROVE  NormalizeParams(a) = NormalizeParams(b)
  <2>1. \A p \in DOMAIN a : norm(a[p]) = norm(b[p])
    BY <1>4, <1>6
  <2> QED BY <1>2, <1>3, <1>6, <2>1
<1> QED BY <1>5, <1>6 DEF alike

\* A definition normalised, written out.
Normal(t) ==
    [name |-> t.name, title |-> NormalizeProse(t.title),
     description |-> NormalizeProse(t.description), params |-> NormalizeParams(t.params),
     required |-> Sorted(t.required), open |-> t.open, depth |-> t.depth,
     output |-> NormalizeProse(t.output), outputDepth |-> t.outputDepth, hints |-> t.hints,
     caps |-> t.caps, dropped |-> t.dropped, meta |-> t.meta]
LEMMA NormalForm == ASSUME NEW t, WellFormed(t) PROVE NormalizeTool(t) = Normal(t)
<1> DEFINE u == NormalizeTool(t)
           fields == {"name", "title", "description", "params", "required", "open", "depth",
                      "output", "outputDepth", "hints", "caps", "dropped", "meta"}
<1>1. t = [f \in fields |-> t[f]]
  BY DEF WellFormed
<1>2. u = [f \in fields |-> u[f]]
  BY <1>1 DEF NormalizeTool
<1>3. \A f \in fields : f \in DOMAIN t
  BY <1>1
<1>4. /\ u.title = NormalizeProse(t.title) /\ u.description = NormalizeProse(t.description)
      /\ u.output = NormalizeProse(t.output) /\ u.params = NormalizeParams(t.params)
      /\ u.required = Sorted(t.required)
  BY <1>3 DEF NormalizeTool
<1>5. /\ u.name = t.name /\ u.open = t.open /\ u.depth = t.depth
      /\ u.outputDepth = t.outputDepth /\ u.hints = t.hints /\ u.caps = t.caps
      /\ u.dropped = t.dropped /\ u.meta = t.meta
  BY <1>3 DEF NormalizeTool
<1> HIDE DEF u
<1>6. \A f \in fields : u[f] = Normal(t)[f]
  BY <1>4, <1>5 DEF Normal
<1>7. Normal(t) = [f \in fields |-> Normal(t)[f]]
  BY DEF Normal
<1>8. u = Normal(t)
  BY <1>2, <1>6, <1>7
<1> QED BY <1>8 DEF u

LEMMA ReadsAlike ==
    ASSUME NEW t, NEW u, WellFormed(t), WellFormed(u)
    PROVE  NormalizeTool(t) = NormalizeTool(u) <=> Reads(t, u)
<1> DEFINE x == NormalizeTool(t)
           y == NormalizeTool(u)
<1>1. /\ {t.title, t.description, t.output, u.title, u.description, u.output} \subseteq SUBSET ToolText
      /\ t.required \in Seq(DOMAIN Tokens) /\ u.required \in Seq(DOMAIN Tokens)
      /\ t.params \in [DOMAIN t.params -> ToolParam]
      /\ u.params \in [DOMAIN u.params -> ToolParam]
  BY DEF WellFormed
<1>2. x = y <=>
      /\ t.name = u.name
      /\ NormalizeProse(t.title) = NormalizeProse(u.title)
      /\ NormalizeProse(t.description) = NormalizeProse(u.description)
      /\ NormalizeProse(t.output) = NormalizeProse(u.output)
      /\ NormalizeParams(t.params) = NormalizeParams(u.params)
      /\ Sorted(t.required) = Sorted(u.required)
      /\ t.outputDepth = u.outputDepth
      /\ t.open = u.open /\ t.depth = u.depth /\ t.hints = u.hints /\ t.caps = u.caps
      /\ t.dropped = u.dropped /\ t.meta = u.meta
  <2>1. x = Normal(t) /\ y = Normal(u)
    BY NormalForm
  <2> HIDE DEF x, y
  <2> QED BY <2>1 DEF Normal
<1>3. /\ NormalizeProse(t.title) = NormalizeProse(u.title) <=> Laid(t.title) = Laid(u.title)
      /\ NormalizeProse(t.description) = NormalizeProse(u.description)
           <=> Laid(t.description) = Laid(u.description)
      /\ NormalizeProse(t.output) = NormalizeProse(u.output) <=> Laid(t.output) = Laid(u.output)
  BY <1>1, ProseAlike
<1>4. Sorted(t.required) = Sorted(u.required) <=> u.required \in Reorderings(t.required)
  BY <1>1, SortedAlike
<1>5. NormalizeParams(t.params) = NormalizeParams(u.params) <=>
           /\ DOMAIN t.params = DOMAIN u.params
           /\ \A p \in DOMAIN t.params :
                /\ Laid(t.params[p].description) = Laid(u.params[p].description)
                /\ t.params[p].type = u.params[p].type
                /\ t.params[p].restricted = u.params[p].restricted
  BY <1>1, ParamsAlike
<1>6. Reads(t, u) <=>
      /\ t.name = u.name
      /\ Laid(t.title) = Laid(u.title) /\ Laid(t.description) = Laid(u.description)
      /\ Laid(t.output) = Laid(u.output) /\ t.outputDepth = u.outputDepth
      /\ u.required \in Reorderings(t.required)
      /\ DOMAIN t.params = DOMAIN u.params
      /\ \A p \in DOMAIN t.params :
           /\ Laid(t.params[p].description) = Laid(u.params[p].description)
           /\ t.params[p].type = u.params[p].type
           /\ t.params[p].restricted = u.params[p].restricted
      /\ t.open = u.open /\ t.depth = u.depth /\ t.hints = u.hints /\ t.caps = u.caps
      /\ t.dropped = u.dropped /\ t.meta = u.meta
  <2>1. /\ <<t.open, t.depth, t.hints>> = <<u.open, u.depth, u.hints>>
             <=> t.open = u.open /\ t.depth = u.depth /\ t.hints = u.hints
        /\ <<t.caps, t.dropped, t.meta>> = <<u.caps, u.dropped, u.meta>>
             <=> t.caps = u.caps /\ t.dropped = u.dropped /\ t.meta = u.meta
    OBVIOUS
  <2> QED BY <2>1, Zenon DEF Reads, Laid
<1> HIDE DEF x, y
<1> QED BY <1>2, <1>3, <1>4, <1>5, <1>6 DEF x, y

\* A snapshot holds each tool of the listing, by its name, and no other.
LEMMA ListedIsStored ==
    ASSUME NEW v \in Comparable, NEW t \in ToSet(Listing[v])
    PROVE  /\ WellFormed(t) /\ t.name \in DOMAIN Snapshots[v].tools
           /\ Snapshots[v].tools[t.name] = NormalizeTool(t)
<1> DEFINE listing == Listing[v]
<1>1. Snapshots[v].tools = [m \in DOMAIN ByName(listing) |-> NormalizeTool(ByName(listing)[m])]
  BY DEF Snapshots, BuildSnapshot
<1>2. WellFormed(t)
  BY ListingAssumption DEF ToSet, Comparable
<1>3. PICK i \in DOMAIN listing : listing[i] = t
  BY DEF ToSet
<1>4. t.name \in DOMAIN ByName(listing)
  BY <1>3 DEF ByName
<1>5. ASSUME NEW x \in ToSet(listing), x.name = t.name PROVE x = t
  <2>1. PICK j \in DOMAIN listing : listing[j] = x
    BY DEF ToSet
  <2>2. NamesOnce(listing)
    BY DEF Comparable, CanSnapshot
  <2> QED BY <1>3, <1>5, <2>1, <2>2 DEF NamesOnce
<1>6. (CHOOSE x \in ToSet(listing) : x.name = t.name) = t
  BY <1>5
<1>7. ByName(listing)[t.name] = t
  BY <1>4, <1>6 DEF ByName
<1> QED BY <1>1, <1>2, <1>4, <1>7

LEMMA StoredIsListed ==
    ASSUME NEW v \in Comparable, NEW n \in DOMAIN Snapshots[v].tools
    PROVE  \E t \in ToSet(Listing[v]) : t.name = n
<1>1. n \in DOMAIN ByName(Listing[v])
  BY DEF Snapshots, BuildSnapshot
<1> QED BY <1>1 DEF ByName, ToSet

\* Nothing differs between two listings that are fingerprinted alike.
Differ(old, new) ==
    \/ \E t \in old : \A u \in new : ~Reads(t, u)
    \/ \E u \in new : \A t \in old : ~Reads(t, u)
LEMMA ListingsDiffer ==
    ASSUME NEW v \in Comparable, NEW w \in Comparable
    PROVE  Differ(ToSet(Listing[v]), ToSet(Listing[w])) <=>
           \/ Added(Snapshots[v], Snapshots[w]) # {}
           \/ Removed(Snapshots[v], Snapshots[w]) # {}
           \/ Changed(Snapshots[v], Snapshots[w]) # {}
<1> DEFINE old == ToSet(Listing[v])
           new == ToSet(Listing[w])
           was == Snapshots[v].tools
           is == Snapshots[w].tools
<1>1. \A t \in old : WellFormed(t) /\ t.name \in DOMAIN was /\ was[t.name] = NormalizeTool(t)
  BY ListedIsStored
<1>2. \A u \in new : WellFormed(u) /\ u.name \in DOMAIN is /\ is[u.name] = NormalizeTool(u)
  BY ListedIsStored
<1>3. \A n \in DOMAIN was : \E t \in old : t.name = n
  BY StoredIsListed
<1>4. \A n \in DOMAIN is : \E u \in new : u.name = n
  BY StoredIsListed
<1>5. \A t, u : WellFormed(t) /\ WellFormed(u) => (Reads(t, u) <=> NormalizeTool(t) = NormalizeTool(u))
  BY ReadsAlike
<1>6. \A t, u : Reads(t, u) => t.name = u.name
  BY DEF Reads
<1> HIDE DEF old, new, was, is
<1>7. ASSUME NEW t \in old, \A u \in new : ~Reads(t, u)
      PROVE  t.name \in DOMAIN is => was[t.name] # is[t.name]
  BY <1>1, <1>2, <1>4, <1>5, <1>7
<1>8. ASSUME NEW u \in new, \A t \in old : ~Reads(t, u)
      PROVE  u.name \in DOMAIN was => was[u.name] # is[u.name]
  BY <1>1, <1>2, <1>3, <1>5, <1>8
<1>9. ASSUME NEW n \in DOMAIN is \ DOMAIN was PROVE \E u \in new : \A t \in old : ~Reads(t, u)
  BY <1>1, <1>4, <1>6
<1>10. ASSUME NEW n \in DOMAIN was \ DOMAIN is PROVE \E t \in old : \A u \in new : ~Reads(t, u)
  BY <1>2, <1>3, <1>6
<1>11. ASSUME NEW n \in DOMAIN was \cap DOMAIN is, was[n] # is[n]
       PROVE  \E t \in old : \A u \in new : ~Reads(t, u)
  <2>1. PICK t \in old : t.name = n
    BY <1>3
  <2>2. ASSUME NEW u \in new, Reads(t, u) PROVE FALSE
    <3>1. u.name = n
      BY <1>6, <2>1, <2>2
    <3>2. is[n] = NormalizeTool(u) /\ was[n] = NormalizeTool(t)
      BY <1>1, <1>2, <2>1, <3>1
    <3> QED BY <1>1, <1>2, <1>5, <1>11, <2>2, <3>2
  <2> QED BY <2>2
<1>12. /\ Added(Snapshots[v], Snapshots[w]) = DOMAIN is \ DOMAIN was
       /\ Removed(Snapshots[v], Snapshots[w]) = DOMAIN was \ DOMAIN is
       /\ Changed(Snapshots[v], Snapshots[w]) = {n \in DOMAIN was \cap DOMAIN is : was[n] # is[n]}
  BY DEF Added, Removed, Changed, was, is
<1>13. ASSUME Differ(old, new)
       PROVE  \/ DOMAIN is \ DOMAIN was # {}
              \/ DOMAIN was \ DOMAIN is # {}
              \/ {n \in DOMAIN was \cap DOMAIN is : was[n] # is[n]} # {}
  <2>1. CASE \E t \in old : \A u \in new : ~Reads(t, u)
    BY <1>1, <1>7, <2>1
  <2>2. CASE \E u \in new : \A t \in old : ~Reads(t, u)
    BY <1>2, <1>8, <2>2
  <2> QED BY <1>13, <2>1, <2>2 DEF Differ
<1>14. ASSUME \/ DOMAIN is \ DOMAIN was # {}
              \/ DOMAIN was \ DOMAIN is # {}
              \/ {n \in DOMAIN was \cap DOMAIN is : was[n] # is[n]} # {}
       PROVE  Differ(old, new)
  <2>1. CASE DOMAIN is \ DOMAIN was # {}
    BY <1>9, <2>1 DEF Differ
  <2>2. CASE DOMAIN was \ DOMAIN is # {}
    BY <1>10, <2>2 DEF Differ
  <2>3. CASE {n \in DOMAIN was \cap DOMAIN is : was[n] # is[n]} # {}
    BY <1>11, <2>3 DEF Differ
  <2> QED BY <1>14, <2>1, <2>2, <2>3
<1> QED BY <1>12, <1>13, <1>14 DEF old, new

LEMMA IdentitiesDiffer ==
    ASSUME NEW v \in Comparable, NEW w \in Comparable
    PROVE  IdentityChanges(Snapshots[v].identity, Snapshots[w].identity) # {}
           <=> Identity[v] # Identity[w]
<1>1. Snapshots[v].identity = Identity[v] /\ Snapshots[w].identity = Identity[w]
  BY DEF Snapshots, BuildSnapshot
<1>2. \A x \in {v, w} : Identity[x] = [name |-> Identity[x].name, version |-> Identity[x].version,
                                       protocol |-> Identity[x].protocol]
  BY IdentityAssumption DEF Comparable
<1>3. Identity[v] = Identity[w] <=> /\ Identity[v].name = Identity[w].name
                                   /\ Identity[v].version = Identity[w].version
                                   /\ Identity[v].protocol = Identity[w].protocol
  BY <1>2
<1>4. \A c \in {<<"name", High>>, <<"version", Low>>, <<"protocol", Low>>} :
        c \in IdentityChanges(Identity[v], Identity[w]) <=> Identity[v][c[1]] # Identity[w][c[1]]
  BY Zenon DEF IdentityChanges
<1>5. IdentityChanges(Identity[v], Identity[w])
        \subseteq {<<"name", High>>, <<"version", Low>>, <<"protocol", Low>>}
  BY DEF IdentityChanges
<1>6. /\ <<"name", High>> \in IdentityChanges(Identity[v], Identity[w])
           <=> Identity[v].name # Identity[w].name
      /\ <<"version", Low>> \in IdentityChanges(Identity[v], Identity[w])
           <=> Identity[v].version # Identity[w].version
      /\ <<"protocol", Low>> \in IdentityChanges(Identity[v], Identity[w])
           <=> Identity[v].protocol # Identity[w].protocol
  BY <1>4
<1> QED BY <1>1, <1>3, <1>5, <1>6

\* There is a grade for every difference and for nothing else.
LEMMA DriftIsADifference ==
    ASSUME NEW old, NEW new
    PROVE  CompareSnapshots(old, new).drifted <=>
           \/ Added(old, new) # {} \/ Removed(old, new) # {} \/ Changed(old, new) # {}
           \/ IdentityChanges(old.identity, new.identity) # {}
<1> DEFINE added == {AddedSeverity(new.tools[n], AtLeastMedium(AnalyzeTool(new.tools[n], new.tools))) :
                        n \in Added(old, new)}
           removed == {Medium : n \in Removed(old, new)}
           changed == {ToolSeverity(old.tools[n], new.tools[n], new.tools) : n \in Changed(old, new)}
           other == {c[2] : c \in IdentityChanges(old.identity, new.identity)}
<1>1. CompareSnapshots(old, new).drifted <=> Grades(old, new) # {}
  BY DEF CompareSnapshots, ReportOf
<1>2. Grades(old, new) = added \union removed \union changed \union other
  BY Zenon DEF Grades
<1>3. added # {} <=> Added(old, new) # {}
  OBVIOUS
<1>4. removed # {} <=> Removed(old, new) # {}
  OBVIOUS
<1>5. changed # {} <=> Changed(old, new) # {}
  OBVIOUS
<1>6. other # {} <=> IdentityChanges(old.identity, new.identity) # {}
  OBVIOUS
<1> HIDE DEF added, removed, changed, other
<1> QED BY <1>1, <1>2, <1>3, <1>4, <1>5, <1>6

(***************************************************************************)
(* fingerprinting.py: whatever a server advertises, a comparison reports a *)
(* drift when a tool or the identity reads differently from what was       *)
(* approved, and only then.                                                *)
(***************************************************************************)
THEOREM DriftIsAlwaysExact == Spec => []DriftIsExact
<1>1. TypeOK => DriftIsExact
  <2> SUFFICES ASSUME TypeOK PROVE DriftIsExact
    OBVIOUS
  <2>1. approved \in Comparable /\ current \in Comparable
    BY DEF TypeOK
  <2>2. Report = CompareSnapshots(Snapshots[approved], Snapshots[current])
    BY <2>1 DEF Report, Reports
  <2>3. Report.drifted <=>
          \/ Differ(ToSet(Listing[approved]), ToSet(Listing[current]))
          \/ Identity[approved] # Identity[current]
    BY <2>1, <2>2, DriftIsADifference, ListingsDiffer, IdentitiesDiffer
  <2> QED BY <2>3 DEF DriftIsExact, Differ
<1> QED BY <1>1, TypeCorrect, PTL

-----------------------------------------------------------------------------
(***************************************************************************)
(* What a finding is worth in a comparison, by its rule and its place.     *)
(***************************************************************************)
PowerRules == {"MA-021", "MA-022", "SR-001", "SR-002", "SR-003", "SR-004", "SR-005", "SR-006", "SR-007"}
Claim == <<"MA-021", <<"_meta", "annotations">>>>
Contradiction == <<"MA-021", <<"annotations">>>>
KeyGrade(tool, k) ==
    IF k[1] = "MA-090" THEN Critical
    ELSE IF \/ k[1] \notin PowerRules \/ k[1] = "SR-005" \/ k = Contradiction
            \/ k = Claim /\ Declared(tool) \cap HighRisk # {}
            \/ k = Power /\ "execute" \in Declared(tool)
         THEN High ELSE Medium

\* A finding is content by its rule; one that is not has a grade that can be read off the tool.
Ranked(tool, f) ==
    /\ f.tool = tool.name
    /\ f.category \in ContentCategories <=> f.rule \notin PowerRules
    /\ f.rule = "MA-090" => f.at = <<"tool">>
    /\ f.rule \in PowerRules =>
         /\ f.severity <= High
         /\ f.severity >= Medium /\ <<f.rule, f.at>> # Power
              => KeyGrade(tool, <<f.rule, f.at>>) <= f.severity
         /\ f.severity = High => \/ KeyGrade(tool, <<f.rule, f.at>>) = High
                                 \/ /\ <<f.rule, f.at>> = Claim
                                    /\ (Effective(tool) \cap DangerousCaps) \ Stated(tool) # {}

LEMMA CapabilitiesAreRanked ==
    ASSUME NEW tool, NEW f \in CheckCapabilities(tool)
    PROVE  Ranked(tool, f)
<1> DEFINE extra == (Declared(tool) \union InferredFromSchema(tool)) \cap Mutating
           grade == IF extra \cap HighRisk # {} THEN High ELSE Medium
<1>1. \/ f = Found("MA-021", "excessive_permission", grade, tool.name, <<"_meta", "annotations">>)
      \/ f = Found("MA-021", "excessive_permission", High, tool.name, <<"annotations">>)
  BY DEF CheckCapabilities
<1>2. CASE f = Found("MA-021", "excessive_permission", High, tool.name, <<"annotations">>)
  <2>1. /\ f.tool = tool.name /\ f.category = "excessive_permission" /\ f.rule = "MA-021"
        /\ f.severity = High /\ <<f.rule, f.at>> = Contradiction
    BY <1>2 DEF Found, Contradiction
  <2>2. KeyGrade(tool, Contradiction) = High
    BY DEF KeyGrade, Contradiction, PowerRules
  <2> QED BY <2>1, <2>2 DEF Ranked, PowerRules, ContentCategories, High, Medium
<1>3. CASE f = Found("MA-021", "excessive_permission", grade, tool.name, <<"_meta", "annotations">>)
  <2>1. /\ f.tool = tool.name /\ f.category = "excessive_permission" /\ f.rule = "MA-021"
        /\ f.severity = grade /\ <<f.rule, f.at>> = Claim
    BY <1>3 DEF Found, Claim
  <2>2. KeyGrade(tool, Claim) = IF Declared(tool) \cap HighRisk # {} THEN High ELSE Medium
    BY DEF KeyGrade, Claim, Contradiction, Power, PowerRules
  <2>3. Declared(tool) \cap HighRisk # {} => grade = High
    BY DEF HighRisk, Mutating
  <2>4. ASSUME grade = High, Declared(tool) \cap HighRisk = {}
        PROVE  (Effective(tool) \cap DangerousCaps) \ Stated(tool) # {}
    <3>1. PICK c \in InferredFromSchema(tool) : c \in HighRisk /\ c \notin Declared(tool)
      BY <2>4 DEF High, Medium
    <3>2. c \in {"execute", "send"}
      BY DEF InferredFromSchema, ParamHints
    <3>3. c \in Effective(tool) /\ c \in DangerousCaps /\ c \notin Stated(tool)
      BY <3>1, <3>2 DEF Effective, DangerousCaps, Stated
    <3> QED BY <3>3
  <2>5. grade \in {Medium, High}
    OBVIOUS
  <2> HIDE DEF grade
  <2> QED BY <2>1, <2>2, <2>3, <2>4, <2>5 DEF Ranked, PowerRules, ContentCategories, High, Medium
<1> QED BY <1>1, <1>2, <1>3

LEMMA PowerIsRanked ==
    ASSUME NEW tool, NEW f \in CheckHighRiskCapabilities(tool)
    PROVE  Ranked(tool, f)
<1> DEFINE stated(c) == c \in Declared(tool) \/ (c = "delete" /\ Hinted(tool, "destructiveHint", TRUE))
<1>1. PICK c \in Effective(tool) \cap HighRisk :
        f = Found("MA-022", "excessive_permission",
                  Calibrate(IF c = "execute" THEN High ELSE Medium, IF stated(c) THEN 90 ELSE 25),
                  tool.name, IF stated(c) THEN <<"_meta", "capabilities">> ELSE <<"name">>)
  BY DEF CheckHighRiskCapabilities
<1>2. /\ f.tool = tool.name /\ f.category = "excessive_permission" /\ f.rule = "MA-022"
      /\ f.severity = Calibrate(IF c = "execute" THEN High ELSE Medium, IF stated(c) THEN 90 ELSE 25)
      /\ f.at = IF stated(c) THEN <<"_meta", "capabilities">> ELSE <<"name">>
  BY <1>1 DEF Found
<1>3. f.severity = IF stated(c) THEN IF c = "execute" THEN High ELSE Medium
                   ELSE IF c = "execute" THEN Low ELSE Info
  <2> HIDE DEF stated
  <2>1. /\ Calibrate(High, 90) = High /\ Calibrate(Medium, 90) = Medium
        /\ Calibrate(High, 25) = Low /\ Calibrate(Medium, 25) = Info
    BY DEF Calibrate, Shift, High, Medium, Low, Info, Critical
  <2>2. CASE stated(c)
    BY <1>2, <2>1, <2>2
  <2>3. CASE ~stated(c)
    BY <1>2, <2>1, <2>3
  <2> QED BY <2>2, <2>3
<1>4. stated("execute") => "execute" \in Declared(tool)
  OBVIOUS
<1> HIDE DEF stated
<1>5. CASE ~stated(c)
  BY <1>2, <1>3, <1>5 DEF Ranked, PowerRules, ContentCategories, High, Medium, Low, Info
<1>6. CASE stated(c) /\ c = "execute"
  <2>1. KeyGrade(tool, Power) = High
    BY <1>4, <1>6 DEF KeyGrade, Power, PowerRules
  <2> QED BY <1>2, <1>3, <1>6, <2>1 DEF Ranked, Power, PowerRules, ContentCategories, High, Medium
<1>7. CASE stated(c) /\ c # "execute"
  <2>1. KeyGrade(tool, Power) \in {Medium, High}
    BY DEF KeyGrade, Power, PowerRules
  <2> QED BY <1>2, <1>3, <1>7, <2>1 DEF Ranked, Power, PowerRules, ContentCategories, High, Medium
<1> QED BY <1>5, <1>6, <1>7

\* A finding of content needs no more than its rule.
LEMMA ContentIsRanked ==
    ASSUME NEW tool, NEW f, f.tool = tool.name, f.category \in ContentCategories,
           f.rule \notin PowerRules, f.rule # "MA-090"
    PROVE  Ranked(tool, f)
BY DEF Ranked

LEMMA ParametersAreRanked ==
    ASSUME NEW tool, NEW p, NEW f \in CheckParameter(tool, p)
    PROVE  Ranked(tool, f)
<1>1. /\ f.tool = tool.name /\ f.category = "schema_risk" /\ f.at = <<"input", p>>
      /\ \/ f.rule = "SR-005" /\ f.severity = High
         \/ f.rule \in {"SR-003", "SR-004", "SR-006"} /\ f.severity = Medium
         \/ f.rule = "SR-002" /\ f.severity = Low
  BY DEF CheckParameter, Found
<1>2. KeyGrade(tool, <<f.rule, f.at>>) = IF f.rule = "SR-005" THEN High ELSE Medium
  BY <1>1 DEF KeyGrade, PowerRules, Claim, Contradiction, Power
<1> QED BY <1>1, <1>2 DEF Ranked, PowerRules, ContentCategories, Low, Medium, High

LEMMA SchemaIsRanked ==
    ASSUME NEW tool, NEW f \in CheckSchemaRisk(tool)
    PROVE  Ranked(tool, f)
<1>1. CASE \E p \in DOMAIN tool.params : f \in CheckParameter(tool, p)
  BY <1>1, ParametersAreRanked
<1>2. CASE /\ f.tool = tool.name /\ f.category = "schema_risk"
           /\ \/ f.rule = "SR-007" /\ f.severity = Medium
              \/ f.rule = "SR-001" /\ f.severity = Low
  <2>1. KeyGrade(tool, <<f.rule, f.at>>) = Medium
    BY <1>2 DEF KeyGrade, PowerRules, Claim, Contradiction, Power
  <2> QED BY <1>2, <2>1 DEF Ranked, PowerRules, ContentCategories, Low, Medium, High
<1> QED BY <1>1, <1>2 DEF CheckSchemaRisk, Found

LEMMA FindingsAreRanked ==
    ASSUME NEW tool, Known(tool), NEW siblings, NEW f \in AnalyzeTool(tool, siblings)
    PROVE  Ranked(tool, f)
<1> DEFINE others == [n \in DOMAIN siblings \ {tool.name} |-> siblings[n]]
           scanned == UNION {ScanSite(s, tool, others) : s \in TextSites(tool)}
           findings == scanned \union CheckLength(tool) \union CheckPurposeMismatch(tool)
                       \union CheckCapabilities(tool) \union CheckHighRiskCapabilities(tool)
                       \union CheckSchemaRisk(tool)
<1>1. ASSUME NEW s \in TextSites(tool), f \in ScanSite(s, tool, others)
      PROVE  Ranked(tool, f)
  <2>1. CASE f \in ScanPatterns(s, tool.name)
    <3>1. f.rule \in s.text.hits /\ f.category = "tool_poisoning" /\ f.tool = tool.name
      BY <2>1 DEF ScanPatterns, Found
    <3>2. f.rule \in {r[1] : r \in PatternRules}
      BY <3>1 DEF Known
    <3>3. f.rule \notin PowerRules /\ f.rule # "MA-090"
      BY <3>2 DEF PatternRules, PowerRules
    <3> QED BY <3>1, <3>3, ContentIsRanked DEF ContentCategories
  <2>2. CASE f \in ScanHiddenUnicode(s, tool.name)
    <3>1. f.rule = "MA-010" /\ f.category = "tool_poisoning" /\ f.tool = tool.name
      BY <2>2 DEF ScanHiddenUnicode, Found
    <3> QED BY <3>1, ContentIsRanked DEF ContentCategories, PowerRules
  <2>3. CASE f \in ScanCrossTool(s, tool, others)
    <3>1. f.rule = "MA-009" /\ f.category = "cross_tool_reference" /\ f.tool = tool.name
      <4>1. PICK ref : f \in {Found("MA-009", "cross_tool_reference", severity, tool.name, s.at) :
                                severity \in JudgeReference(ref, tool, others)}
        BY <2>3 DEF ScanCrossTool
      <4>2. PICK severity :
                f = Found("MA-009", "cross_tool_reference", severity, tool.name, s.at)
        BY <4>1
      <4> QED BY <4>2 DEF Found
    <3> QED BY <3>1, ContentIsRanked DEF ContentCategories, PowerRules
  <2> QED BY <1>1, <2>1, <2>2, <2>3 DEF ScanSite
<1>2. CASE f \in CheckLength(tool)
  <2>1. f.rule = "MA-012" /\ f.category = "tool_poisoning" /\ f.tool = tool.name
    BY <1>2 DEF CheckLength, Found
  <2> QED BY <2>1, ContentIsRanked DEF ContentCategories, PowerRules
<1>3. CASE f \in CheckPurposeMismatch(tool)
  <2>1. f.rule = "MA-020" /\ f.category = "purpose_mismatch" /\ f.tool = tool.name
    BY <1>3 DEF CheckPurposeMismatch, Found
  <2> QED BY <2>1, ContentIsRanked DEF ContentCategories, PowerRules
<1>4. CASE f = Found("MA-090", "tool_poisoning", Critical, tool.name, <<"tool">>)
  BY <1>4 DEF Found, Ranked, ContentCategories, PowerRules
<1>5. AnalyzeTool(tool, siblings) = WithCompound(tool, findings)
  BY DEF AnalyzeTool
<1>6. f \in findings \/ f = Found("MA-090", "tool_poisoning", Critical, tool.name, <<"tool">>)
  <2> HIDE DEF findings
  <2> QED BY <1>5 DEF WithCompound
<1>7. CASE f \in scanned
  BY <1>1, <1>7
<1> HIDE DEF scanned
<1>8. CASE f \in findings
  BY <1>2, <1>3, <1>7, <1>8, CapabilitiesAreRanked, PowerIsRanked, SchemaIsRanked
<1> HIDE DEF findings
<1> QED BY <1>4, <1>6, <1>8

LEMMA CompoundIsFound ==
    ASSUME NEW tool, NEW siblings,
           Cardinality({g.rule : g \in AnalyzeTool(tool, siblings)} \cap StrongPoisoning) >= 3
    PROVE  \E f \in AtLeastMedium(AnalyzeTool(tool, siblings)) :
             <<f.rule, f.at>> = <<"MA-090", <<"tool">>>>
<1> DEFINE others == [n \in DOMAIN siblings \ {tool.name} |-> siblings[n]]
           findings == (UNION {ScanSite(s, tool, others) : s \in TextSites(tool)})
                       \union CheckLength(tool) \union CheckPurposeMismatch(tool)
                       \union CheckCapabilities(tool) \union CheckHighRiskCapabilities(tool)
                       \union CheckSchemaRisk(tool)
           f == Found("MA-090", "tool_poisoning", Critical, tool.name, <<"tool">>)
<1>1. AnalyzeTool(tool, siblings) = WithCompound(tool, findings)
  BY DEF AnalyzeTool
<1>2. f.rule = "MA-090" /\ f.at = <<"tool">> /\ f.severity = Critical
  BY DEF Found
<1> HIDE DEF findings
<1>3. AnalyzeTool(tool, siblings) \subseteq findings \union {f}
  BY <1>1 DEF WithCompound
<1>4. findings \subseteq AnalyzeTool(tool, siblings)
  BY <1>1 DEF WithCompound
<1> HIDE DEF f
<1>5. {g.rule : g \in AnalyzeTool(tool, siblings)} \cap StrongPoisoning
      = {g.rule : g \in findings} \cap StrongPoisoning
  BY <1>2, <1>3, <1>4 DEF StrongPoisoning
<1>6. f \in AnalyzeTool(tool, siblings)
  BY <1>1, <1>5 DEF WithCompound, f
<1> QED BY <1>2, <1>6 DEF AtLeastMedium, Medium, Critical

\* A tool that refers to no other is judged alike beside any.
LEMMA AloneIsJudgedAlike ==
    ASSUME NEW tool, NEW one, NEW other, \A s \in TextSites(tool) : s.text.refs = {}
    PROVE  AnalyzeTool(tool, one) = AnalyzeTool(tool, other)
<1>1. ASSUME NEW s \in TextSites(tool), NEW siblings PROVE ScanCrossTool(s, tool, siblings) = {}
  BY DEF ScanCrossTool
<1>2. ASSUME NEW s \in TextSites(tool), NEW x, NEW y
      PROVE  ScanSite(s, tool, x) = ScanSite(s, tool, y)
  BY <1>1 DEF ScanSite
<1> DEFINE scanned(siblings) == UNION {ScanSite(s, tool, siblings) : s \in TextSites(tool)}
           beside(all) == [n \in DOMAIN all \ {tool.name} |-> all[n]]
<1>3. scanned(beside(one)) = scanned(beside(other))
  BY <1>2
<1>4. \A all : AnalyzeTool(tool, all) =
        WithCompound(tool, scanned(beside(all)) \union CheckLength(tool)
                           \union CheckPurposeMismatch(tool) \union CheckCapabilities(tool)
                           \union CheckHighRiskCapabilities(tool) \union CheckSchemaRisk(tool))
  BY DEF AnalyzeTool
<1> HIDE DEF scanned, beside
<1> QED BY <1>3, <1>4

-----------------------------------------------------------------------------
(***************************************************************************)
(* The grade of what is introduced, from above and from below.             *)
(***************************************************************************)
LEMMA IntroducedIsBounded ==
    ASSUME NEW F, \A f \in F : f.severity \in SeverityRank, NEW s \in SeverityRank,
           ContentFindings(F) # {} => s >= High,
           \A f \in F \ ContentFindings(F) : s >= High \/ s >= f.severity,
           "MA-090" \in StrongIn(F) \/ Cardinality(StrongIn(F)) >= 3 => s = Critical
    PROVE  IntroducedSeverity(F) <= s
<1> DEFINE other == {IF f.severity > High THEN High ELSE f.severity : f \in F \ ContentFindings(F)}
           capped == MaxSeverity(other, Info)
           susp == SuspicionSeverity(F)
<1>0. Info \in SeverityRank /\ Info <= s
  BY DEF Info, SeverityRank, Critical
<1>1. ASSUME NEW t \in other PROVE t \in SeverityRank /\ t <= s
  BY <1>1 DEF SeverityRank, Info, High, Critical
<1>2. susp \in SeverityRank
  BY SuspicionIsGraded
<1>3. susp <= s
  <2>1. \/ susp = Critical /\ ("MA-090" \in StrongIn(F) \/ Cardinality(StrongIn(F)) >= 3)
        \/ susp = High /\ ContentFindings(F) # {}
        \/ susp = Info
    BY DEF SuspicionSeverity, StrongIn
  <2> HIDE DEF susp
  <2> QED BY <2>1 DEF SeverityRank, Info, High, Critical
<1>4. other \in SUBSET SeverityRank
  BY <1>1
<1> HIDE DEF other
<1>5. capped <= s
  BY <1>0, <1>1, <1>4, MaxIsBounded
<1>6. capped \in SeverityRank
  BY <1>0, <1>4, MaxIsHighest
<1>7. IntroducedSeverity(F) = MaxSeverity({susp, capped}, Info)
  BY DEF IntroducedSeverity, other
<1> HIDE DEF susp, capped
<1>8. {susp, capped} \in SUBSET SeverityRank /\ \A t \in {susp, capped} : t <= s
  BY <1>2, <1>3, <1>5, <1>6
<1> QED BY <1>0, <1>7, <1>8, MaxIsBounded

LEMMA IntroducedIsAtLeast ==
    ASSUME NEW tool, NEW F, \A f \in F : f.severity \in SeverityRank /\ Ranked(tool, f),
           NEW f \in F
    PROVE  /\ f.category \in ContentCategories => IntroducedSeverity(F) >= High
           /\ f.rule = "MA-090" => IntroducedSeverity(F) = Critical
           /\ f.category \notin ContentCategories => IntroducedSeverity(F) >= f.severity
<1> DEFINE other == {IF g.severity > High THEN High ELSE g.severity : g \in F \ ContentFindings(F)}
           capped == MaxSeverity(other, Info)
           susp == SuspicionSeverity(F)
<1>0. Info \in SeverityRank /\ f.severity \in SeverityRank
  BY DEF Info, SeverityRank, Critical
<1>1. other \in SUBSET SeverityRank
  BY DEF SeverityRank, Info, High, Critical
<1>2. susp \in SeverityRank
  BY SuspicionIsGraded
<1>3. ASSUME f.category \in ContentCategories
      PROVE  susp >= High /\ (f.rule = "MA-090" => susp = Critical)
  <2>1. f \in ContentFindings(F)
    BY <1>3 DEF ContentFindings
  <2>2. f.rule = "MA-090" => "MA-090" \in StrongIn(F)
    BY <2>1 DEF StrongIn
  <2>3. f.rule = "MA-090" => susp = Critical
    BY <2>2 DEF SuspicionSeverity, StrongIn
  <2> QED BY <2>1, <2>3, SuspicionIsGraded
<1>4. ASSUME f.category \notin ContentCategories PROVE f.severity \in other
  <2>1. f \in F \ ContentFindings(F)
    BY <1>4 DEF ContentFindings
  <2>2. f.severity <= High
    BY <1>4 DEF Ranked
  <2>3. f.severity = IF f.severity > High THEN High ELSE f.severity
    BY <1>0, <2>2 DEF SeverityRank, Info, High, Critical
  <2> QED BY <2>1, <2>3
<1>5. f.rule = "MA-090" => f.category \in ContentCategories
  BY DEF Ranked, PowerRules
<1>6. IntroducedSeverity(F) = MaxSeverity({susp, capped}, Info)
  BY DEF IntroducedSeverity
<1> HIDE DEF other
<1>7. capped \in SeverityRank /\ (f.severity \in other => f.severity <= capped)
  BY <1>0, <1>1, MaxIsHighest
<1> HIDE DEF susp, capped
<1>8. {susp, capped} \in SUBSET SeverityRank
  BY <1>2, <1>7
<1>9. /\ MaxSeverity({susp, capped}, Info) \in SeverityRank
      /\ susp <= MaxSeverity({susp, capped}, Info)
      /\ capped <= MaxSeverity({susp, capped}, Info)
  BY <1>0, <1>8, MaxIsHighest
<1> QED BY <1>0, <1>2, <1>3, <1>4, <1>5, <1>6, <1>7, <1>9 DEF SeverityRank, Info, High, Critical

\* Every key of a tool's findings stands for a finding of its grade.
LEMMA KeysAreGraded ==
    ASSUME NEW tool, Known(tool), NEW siblings, NEW k \in FindingKeys(AnalyzeTool(tool, siblings)),
           NEW F, \A f \in F : f \in AtLeastMedium(AnalyzeTool(tool, siblings)),
           \A f \in AtLeastMedium(AnalyzeTool(tool, siblings)) : <<f.rule, f.at>> = k => f \in F
    PROVE  IntroducedSeverity(F) >= KeyGrade(tool, k)
<1>1. \A f \in F : f.severity \in SeverityRank /\ Ranked(tool, f)
  BY FindingsAreGraded, FindingsAreRanked DEF AtLeastMedium
<1>2. PICK f \in F : <<f.rule, f.at>> = k /\ f.severity >= Medium
  BY DEF FindingKeys, AtLeastMedium
<1>3. k[1] = f.rule
  BY <1>2
<1>4. IntroducedSeverity(F) \in SeverityRank
  BY <1>1, IntroducedIsGraded
<1>5. KeyGrade(tool, k) \in {Medium, High, Critical} /\ (KeyGrade(tool, k) = Critical => k[1] = "MA-090")
  BY DEF KeyGrade, Medium, High, Critical
<1>6. CASE f.rule = "MA-090"
  <2>1. IntroducedSeverity(F) = Critical
    BY <1>1, <1>6, IntroducedIsAtLeast
  <2> QED BY <1>5, <2>1 DEF Medium, High, Critical
<1>7. CASE f.rule # "MA-090" /\ f.category \in ContentCategories
  <2>1. IntroducedSeverity(F) >= High
    BY <1>1, <1>7, IntroducedIsAtLeast
  <2> QED BY <1>3, <1>4, <1>5, <1>7, <2>1 DEF SeverityRank, Info, Medium, High, Critical
<1>8. CASE f.category \notin ContentCategories /\ k # Power
  <2>1. IntroducedSeverity(F) >= f.severity
    BY <1>1, <1>8, IntroducedIsAtLeast
  <2>2. KeyGrade(tool, k) <= f.severity
    BY <1>1, <1>2, <1>8 DEF Ranked
  <2>3. f.severity \in SeverityRank
    BY <1>1
  <2> QED BY <1>4, <1>5, <2>1, <2>2, <2>3 DEF SeverityRank, Info, Medium, High, Critical
<1>9. CASE k = Power /\ "execute" \in Declared(tool)
  <2>1. "execute" \in Stated(tool) \cap HighRisk
    BY <1>9 DEF Stated, HighRisk
  <2>2. PICK g \in AtLeastMedium(AnalyzeTool(tool, siblings)) :
          <<g.rule, g.at>> = Power /\ g.category \notin ContentCategories /\ g.severity = High
    BY <2>1, StatedIsFound
  <2>3. g \in F
    BY <1>9, <2>2
  <2>4. IntroducedSeverity(F) >= High
    BY <1>1, <2>2, <2>3, IntroducedIsAtLeast
  <2>5. k[1] # "MA-090"
    BY <1>9 DEF Power
  <2> QED BY <1>4, <1>5, <2>4, <2>5 DEF SeverityRank, Info, Medium, High, Critical
<1>10. CASE k = Power /\ "execute" \notin Declared(tool) /\ f.category \notin ContentCategories
  <2>1. KeyGrade(tool, k) = Medium
    BY <1>10 DEF KeyGrade, Power, PowerRules, Claim, Contradiction
  <2>2. IntroducedSeverity(F) >= f.severity /\ f.severity \in SeverityRank
    BY <1>1, <1>10, IntroducedIsAtLeast
  <2> QED BY <1>2, <1>4, <2>1, <2>2 DEF SeverityRank, Info, Medium, High, Critical
<1> QED BY <1>6, <1>7, <1>8, <1>9, <1>10

-----------------------------------------------------------------------------
(***************************************************************************)
(* What every way from one snapshot to another costs: a grade covers a     *)
(* change when it is at least that of everything that has come, gone or    *)
(* grown between them.                                                     *)
(***************************************************************************)
KeysBefore(old, n, siblings) ==
    IF n \in DOMAIN old.tools THEN FindingKeys(AnalyzeTool(old.tools[n], siblings)) ELSE {}
NewKeys(old, new, n) ==
    FindingKeys(AnalyzeTool(new.tools[n], new.tools)) \ KeysBefore(old, n, new.tools)

Rewritten(t, u) ==
    \/ t.description # u.description \/ t.title # u.title
    \/ InputSchema(t) # InputSchema(u) \/ OutputSchema(t) # OutputSchema(u)
FieldsCovered(s, t, u) ==
    /\ t # u => s >= Low
    /\ Rewritten(t, u) => s >= Medium
    /\ HintWidening(t, u) # {} \/ Escalated(t, u) => s >= High

Covers(s, old, new) ==
    /\ \A n \in Added(old, new) \union Removed(old, new) : s >= Medium
    /\ \A n \in DOMAIN old.tools \cap DOMAIN new.tools :
            FieldsCovered(s, old.tools[n], new.tools[n])
    /\ \A n \in DOMAIN new.tools : \A k \in NewKeys(old, new, n) :
            s >= KeyGrade(new.tools[n], k)
    /\ \A c \in IdentityChanges(old.identity, new.identity) : s >= c[2]

LEMMA KeyGradeType == ASSUME NEW tool, NEW k PROVE KeyGrade(tool, k) \in {Medium, High, Critical}
BY DEF KeyGrade

LEMMA CoversMore ==
    ASSUME NEW old, NEW new, NEW s \in SeverityRank, NEW t \in SeverityRank, s <= t,
           Covers(s, old, new)
    PROVE  Covers(t, old, new)
<1> USE DEF SeverityRank, Info, Low, Medium, High, Critical
<1>1. \A g \in SeverityRank : s >= g => t >= g
  OBVIOUS
<1>2. {Low, Medium, High, Critical} \subseteq SeverityRank
  OBVIOUS
<1>3. \A c \in IdentityChanges(old.identity, new.identity) : c[2] \in SeverityRank
  BY DEF IdentityChanges
<1>4. \A tool, k : KeyGrade(tool, k) \in SeverityRank
  BY <1>2, KeyGradeType
<1>5. ASSUME NEW x, NEW y, FieldsCovered(s, x, y) PROVE FieldsCovered(t, x, y)
  BY <1>1, <1>2, <1>5 DEF FieldsCovered
<1> HIDE DEF SeverityRank, Info, Low, Medium, High, Critical
<1> QED BY <1>1, <1>2, <1>3, <1>4, <1>5 DEF Covers

\* A grade that covers two changes covers what they come to together.
Alone(snapshot) ==
    \A n \in DOMAIN snapshot.tools :
        \A site \in TextSites(snapshot.tools[n]) : site.text.refs = {}

LEMMA FieldsJoin ==
    ASSUME NEW s, NEW t, NEW u, NEW v, FieldsCovered(s, t, u), FieldsCovered(s, u, v)
    PROVE  FieldsCovered(s, t, v)
<1>1. t # v => t # u \/ u # v
  OBVIOUS
<1>2. Rewritten(t, v) => Rewritten(t, u) \/ Rewritten(u, v)
  BY DEF Rewritten
<1>3. HintWidening(t, v) \subseteq HintWidening(t, u) \union HintWidening(u, v)
  BY DEF HintWidening
<1>4. Escalated(t, v) => Escalated(t, u) \/ Escalated(u, v)
  BY DEF Escalated
<1> QED BY <1>1, <1>2, <1>3, <1>4 DEF FieldsCovered

\* A key that is worth more than it was is one of a capability declared since.
LEMMA KeysRise ==
    ASSUME NEW t, NEW u, NEW k
    PROVE  \/ KeyGrade(u, k) <= KeyGrade(t, k)
           \/ KeyGrade(u, k) = High /\ Escalated(t, u)
<1> USE DEF Medium, High, Critical
<1>1. CASE k[1] = "MA-090"
  BY <1>1 DEF KeyGrade
<1>2. CASE k[1] # "MA-090" /\ KeyGrade(u, k) = Medium
  BY <1>2, KeyGradeType
<1>3. CASE k[1] # "MA-090" /\ KeyGrade(u, k) = High /\ KeyGrade(t, k) # High
  <2>1. \/ Declared(u) \cap HighRisk # {} /\ Declared(t) \cap HighRisk = {}
        \/ "execute" \in Declared(u) /\ "execute" \notin Declared(t)
    BY <1>3 DEF KeyGrade
  <2>2. \E c \in Declared(u) \cap HighRisk : c \notin Declared(t)
    BY <2>1 DEF HighRisk
  <2>3. Escalated(t, u)
    BY <2>2 DEF Escalated, Declared, HighRisk, EscalationCaps, Mutating, Capability
  <2> QED BY <1>3, <2>3
<1>4. CASE k[1] # "MA-090" /\ KeyGrade(u, k) = High /\ KeyGrade(t, k) = High
  BY <1>4
<1>5. KeyGrade(u, k) = Critical => k[1] = "MA-090"
  BY DEF KeyGrade
<1> QED BY <1>1, <1>2, <1>3, <1>4, <1>5, KeyGradeType

LEMMA CoversJoin ==
    ASSUME NEW a, NEW b, NEW c, NEW s \in SeverityRank, Covers(s, a, b), Covers(s, b, c),
           Alone(a), Alone(b), DOMAIN a.tools \subseteq DOMAIN b.tools
    PROVE  Covers(s, a, c)
<1>1. ASSUME NEW n \in Added(a, c) \union Removed(a, c) PROVE s >= Medium
  <2>1. n \in Added(a, b) \union Added(b, c) \union Removed(b, c)
    BY DEF Added, Removed
  <2> QED BY <2>1 DEF Covers
<1>2. ASSUME NEW n \in DOMAIN a.tools \cap DOMAIN c.tools
      PROVE  FieldsCovered(s, a.tools[n], c.tools[n])
  <2>1. n \in DOMAIN b.tools
    OBVIOUS
  <2>2. FieldsCovered(s, a.tools[n], b.tools[n]) /\ FieldsCovered(s, b.tools[n], c.tools[n])
    BY <2>1 DEF Covers
  <2> QED BY <2>2, FieldsJoin
<1>3. ASSUME NEW n \in DOMAIN c.tools, NEW k \in NewKeys(a, c, n)
      PROVE  s >= KeyGrade(c.tools[n], k)
  <2>1. CASE k \in NewKeys(b, c, n)
    BY <2>1 DEF Covers
  <2>2. CASE k \notin NewKeys(b, c, n)
    <3>1. n \in DOMAIN b.tools /\ k \in FindingKeys(AnalyzeTool(b.tools[n], c.tools))
      BY <2>2 DEF NewKeys, KeysBefore
    <3>2. AnalyzeTool(b.tools[n], c.tools) = AnalyzeTool(b.tools[n], b.tools)
      BY <3>1, AloneIsJudgedAlike DEF Alone
    <3>3. n \in DOMAIN a.tools => AnalyzeTool(a.tools[n], c.tools) = AnalyzeTool(a.tools[n], b.tools)
      BY AloneIsJudgedAlike DEF Alone
    <3>4. k \in NewKeys(a, b, n)
      BY <3>1, <3>2, <3>3 DEF NewKeys, KeysBefore
    <3>5. s >= KeyGrade(b.tools[n], k)
      BY <3>1, <3>4 DEF Covers
    <3>6. Escalated(b.tools[n], c.tools[n]) => s >= High
      BY <3>1 DEF Covers, FieldsCovered
    <3>7. CASE KeyGrade(c.tools[n], k) <= KeyGrade(b.tools[n], k)
      BY <3>5, <3>7, KeyGradeType DEF SeverityRank, Info, Medium, High, Critical
    <3>8. CASE KeyGrade(c.tools[n], k) = High /\ Escalated(b.tools[n], c.tools[n])
      BY <3>6, <3>8
    <3> QED BY <3>7, <3>8, KeysRise
  <2> QED BY <2>1, <2>2
<1>4. ASSUME NEW x \in IdentityChanges(a.identity, c.identity) PROVE s >= x[2]
  <2>1. x \in IdentityChanges(a.identity, b.identity) \/ x \in IdentityChanges(b.identity, c.identity)
    BY DEF IdentityChanges
  <2> QED BY <2>1 DEF Covers
<1> QED BY <1>1, <1>2, <1>3, <1>4 DEF Covers

-----------------------------------------------------------------------------
(***************************************************************************)
(* The grade of a report covers the change it reports.                     *)
(***************************************************************************)
LEMMA AddedIsGraded ==
    ASSUME NEW tool, Known(tool), NEW siblings
    PROVE  LET F == AtLeastMedium(AnalyzeTool(tool, siblings)) IN
           /\ AddedSeverity(tool, F) \in SeverityRank /\ AddedSeverity(tool, F) >= Medium
           /\ F # {} => AddedSeverity(tool, F) = IntroducedSeverity(F)
<1> DEFINE F == AtLeastMedium(AnalyzeTool(tool, siblings))
<1>1. \A f \in F : f.severity \in SeverityRank /\ f.severity >= Medium /\ Ranked(tool, f)
  BY FindingsAreGraded, FindingsAreRanked DEF AtLeastMedium
<1> HIDE DEF F
<1>2. CASE F = {}
  BY <1>2 DEF AddedSeverity, SeverityRank, Info, Medium, High, Critical, F
<1>3. CASE F # {}
  <2>1. PICK f \in F : TRUE
    BY <1>3
  <2>2. IntroducedSeverity(F) \in SeverityRank
    BY <1>1, IntroducedIsGraded
  <2>3. CASE f.category \in ContentCategories
    <3>1. IntroducedSeverity(F) >= High
      BY <1>1, <2>1, <2>3, IntroducedIsAtLeast
    <3> QED BY <1>3, <2>2, <3>1 DEF AddedSeverity, SeverityRank, Info, Medium, High, Critical, F
  <2>4. CASE f.category \notin ContentCategories
    <3>1. IntroducedSeverity(F) >= f.severity
      BY <1>1, <2>1, <2>4, IntroducedIsAtLeast
    <3>2. f.severity \in SeverityRank /\ f.severity >= Medium
      BY <1>1
    <3> QED BY <1>3, <2>2, <3>1, <3>2
      DEF AddedSeverity, SeverityRank, Info, Medium, High, Critical, F
  <2> QED BY <2>3, <2>4
<1> QED BY <1>2, <1>3 DEF F

LEMMA ToolCoversItsFields ==
    ASSUME NEW t, NEW u, t # u, Known(u), NEW siblings
    PROVE  FieldsCovered(ToolSeverity(t, u, siblings), t, u)
<1> DEFINE grade == ToolSeverity(t, u, siblings)
           fields == MaxSeverity({c[2] : c \in FieldChanges(t, u)}, Low)
           brought == IntroducedSeverity(IntroducedFindings(t, u, siblings))
<1>1. grade \in SeverityRank /\ \A c \in FieldChanges(t, u) : c[2] <= grade
  BY ToolIsGraded
<1>2. grade >= Low
  <2>1. \A c \in FieldChanges(t, u) : c[2] \in SeverityRank /\ c[2] >= Low
    BY DEF FieldChanges, SeverityRank, Info, Low, Medium, High, Critical
  <2>2. CASE FieldChanges(t, u) # {}
    <3>1. PICK c \in FieldChanges(t, u) : TRUE
      BY <2>2
    <3> QED BY <1>1, <2>1, <3>1 DEF SeverityRank, Info, Low, Critical
  <2>3. CASE FieldChanges(t, u) = {}
    <3>1. fields = Low
      BY <2>3 DEF MaxSeverity
    <3>2. \A f \in IntroducedFindings(t, u, siblings) : f.severity \in SeverityRank
      BY FindingsAreGraded DEF IntroducedFindings, AtLeastMedium
    <3>3. brought \in SeverityRank
      BY <3>2, IntroducedIsGraded
    <3>4. grade = MaxSeverity({fields, brought}, Low)
      BY DEF ToolSeverity
    <3> HIDE DEF grade, fields, brought
    <3>5. {fields, brought} \in SUBSET SeverityRank /\ Low \in SeverityRank
      BY <3>1, <3>3 DEF SeverityRank, Info, Low, Critical
    <3>6. fields <= grade
      BY <3>4, <3>5, MaxIsHighest
    <3> QED BY <3>1, <3>6, <1>1 DEF SeverityRank, Info, Low, Critical
  <2> QED BY <2>2, <2>3
<1>3. Rewritten(t, u) => \E c \in FieldChanges(t, u) : c[2] = Medium
  <2>1. <<"x", Medium>>[2] = Medium
    OBVIOUS
  <2>2. t.description # u.description => <<"description", Medium>> \in FieldChanges(t, u)
    BY DifferencesAreListed
  <2>3. t.title # u.title => <<"title", Medium>> \in FieldChanges(t, u)
    BY DifferencesAreListed
  <2>4. InputSchema(t) # InputSchema(u) => <<"input_schema", Medium>> \in FieldChanges(t, u)
    BY DifferencesAreListed
  <2>5. OutputSchema(t) # OutputSchema(u) => <<"output_schema", Medium>> \in FieldChanges(t, u)
    BY DEF FieldChanges
  <2> QED BY <2>2, <2>3, <2>4, <2>5 DEF Rewritten
<1>4. HintWidening(t, u) # {} => <<"annotations", High>> \in FieldChanges(t, u)
  <2>1. HintWidening(t, u) # {} => t.hints # u.hints
    BY DEF HintWidening, Hinted
  <2> QED BY <2>1 DEF FieldChanges
<1>5. Escalated(t, u) => <<"capabilities", High>> \in FieldChanges(t, u)
  <2>1. Escalated(t, u) => ToSet(t.caps) # ToSet(u.caps)
    BY DEF Escalated
  <2>2. \A x : DOMAIN CapabilityCounts(x) = ToSet(x.caps)
    BY DEF CapabilityCounts
  <2>3. Escalated(t, u) => CapabilityCounts(t) # CapabilityCounts(u)
    BY <2>1, <2>2
  <2> QED BY <2>3 DEF FieldChanges
<1>6. HintWidening(t, u) # {} \/ Escalated(t, u) => \E c \in FieldChanges(t, u) : c[2] = High
  BY <1>4, <1>5
<1> HIDE DEF grade
<1>7. FieldsCovered(grade, t, u)
  BY <1>1, <1>2, <1>3, <1>6 DEF FieldsCovered
<1> QED BY <1>7 DEF grade

LEMMA ReportCoversItsChange ==
    ASSUME NEW old, NEW new, WellKnown(new)
    PROVE  Covers(CompareSnapshots(old, new).severity, old, new)
<1> DEFINE s == CompareSnapshots(old, new).severity
           found(n) == AtLeastMedium(AnalyzeTool(new.tools[n], new.tools))
           grade(n) == ToolSeverity(old.tools[n], new.tools[n], new.tools)
<1>0. \A g \in Grades(old, new) : s \in SeverityRank /\ g \in SeverityRank /\ g <= s
  BY ReportHasTheHighest
<1>1. \A n \in DOMAIN new.tools : Known(new.tools[n])
  BY DEF WellKnown
<1>2. \A n \in Added(old, new) : AddedSeverity(new.tools[n], found(n)) \in Grades(old, new)
  BY DEF Grades
<1>3. \A n \in Changed(old, new) : grade(n) \in Grades(old, new)
  BY DEF Grades
<1>4. ASSUME NEW n \in Added(old, new)
      PROVE  /\ s >= Medium
             /\ \A k \in NewKeys(old, new, n) : s >= KeyGrade(new.tools[n], k)
  <2>0. Known(new.tools[n]) /\ n \notin DOMAIN old.tools
    BY <1>1 DEF Added
  <2> DEFINE F == found(n)
             g == AddedSeverity(new.tools[n], F)
  <2>1. /\ g \in SeverityRank /\ g >= Medium
        /\ F # {} => g = IntroducedSeverity(F)
    BY <2>0, AddedIsGraded
  <2>2. g \in Grades(old, new)
    BY <1>2
  <2> HIDE DEF s, g
  <2>3. s \in SeverityRank /\ g <= s
    BY <1>0, <2>2
  <2>4. ASSUME NEW k \in NewKeys(old, new, n) PROVE s >= KeyGrade(new.tools[n], k)
    <3>1. k \in FindingKeys(AnalyzeTool(new.tools[n], new.tools))
      BY DEF NewKeys
    <3>2. F # {}
      BY <3>1 DEF FindingKeys
    <3>3. IntroducedSeverity(F) >= KeyGrade(new.tools[n], k)
      BY <2>0, <3>1, KeysAreGraded
    <3> HIDE DEF F
    <3> QED BY <2>1, <2>3, <3>2, <3>3, KeyGradeType DEF SeverityRank, Info, Medium, High, Critical
  <2>5. s >= Medium
    BY <2>1, <2>3 DEF SeverityRank, Info, Medium, Critical
  <2> QED BY <2>4, <2>5
<1>5. ASSUME NEW n \in Removed(old, new) PROVE s >= Medium
  <2>1. Medium \in Grades(old, new)
    BY DEF Grades
  <2> HIDE DEF s
  <2> QED BY <1>0, <2>1 DEF SeverityRank, Info, Medium, Critical
<1>6. ASSUME NEW n \in Changed(old, new)
      PROVE  /\ FieldsCovered(s, old.tools[n], new.tools[n])
             /\ \A k \in NewKeys(old, new, n) : s >= KeyGrade(new.tools[n], k)
  <2> DEFINE F == IntroducedFindings(old.tools[n], new.tools[n], new.tools)
             g == grade(n)
  <2>0. /\ Known(new.tools[n]) /\ n \in DOMAIN old.tools /\ n \in DOMAIN new.tools
        /\ old.tools[n] # new.tools[n]
    BY <1>1 DEF Changed
  <2>1. g \in SeverityRank /\ IntroducedSeverity(F) <= g
    BY <2>0, ToolIsGraded
  <2>2. FieldsCovered(g, old.tools[n], new.tools[n])
    BY <2>0, ToolCoversItsFields
  <2>3. g \in Grades(old, new)
    BY <1>3
  <2> HIDE DEF s, g
  <2>4. s \in SeverityRank /\ g <= s
    BY <1>0, <2>3
  <2>5. FieldsCovered(s, old.tools[n], new.tools[n])
    BY <2>1, <2>2, <2>4 DEF FieldsCovered, SeverityRank, Info, Low, Medium, High, Critical
  <2>6. ASSUME NEW k \in NewKeys(old, new, n) PROVE s >= KeyGrade(new.tools[n], k)
    <3>1. /\ k \in FindingKeys(AnalyzeTool(new.tools[n], new.tools))
          /\ k \notin FindingKeys(AnalyzeTool(old.tools[n], new.tools))
      BY <2>0 DEF NewKeys, KeysBefore
    <3>2. /\ \A f \in F : f \in found(n)
          /\ \A f \in found(n) : <<f.rule, f.at>> = k => f \in F
      BY <3>1 DEF IntroducedFindings
    <3> HIDE DEF F
    <3>3. IntroducedSeverity(F) >= KeyGrade(new.tools[n], k)
      BY <2>0, <3>1, <3>2, KeysAreGraded
    <3>4. \A f \in F : f.severity \in SeverityRank
      BY <2>0, <3>2, FindingsAreGraded DEF AtLeastMedium
    <3>5. IntroducedSeverity(F) \in SeverityRank
      BY <3>4, IntroducedIsGraded
    <3> QED BY <2>1, <2>4, <3>3, <3>5, KeyGradeType DEF SeverityRank, Info, Medium, High, Critical
  <2> QED BY <2>5, <2>6
<1>7. ASSUME NEW n \in DOMAIN old.tools \cap DOMAIN new.tools, old.tools[n] = new.tools[n]
      PROVE  FieldsCovered(s, old.tools[n], new.tools[n]) /\ NewKeys(old, new, n) = {}
  <2>1. NewKeys(old, new, n) = {}
    BY <1>7 DEF NewKeys, KeysBefore
  <2>2. FieldsCovered(s, old.tools[n], old.tools[n])
    BY DEF FieldsCovered, Rewritten, HintWidening, Escalated
  <2> QED BY <1>7, <2>1, <2>2
<1>8. ASSUME NEW c \in IdentityChanges(old.identity, new.identity) PROVE s >= c[2]
  <2>1. c[2] \in Grades(old, new)
    BY DEF Grades
  <2> HIDE DEF s
  <2> QED BY <1>0, <2>1 DEF SeverityRank, Info, Critical
<1> HIDE DEF s
<1>9. \A n \in DOMAIN new.tools : n \in Added(old, new) \/ n \in Changed(old, new)
        \/ (n \in DOMAIN old.tools \cap DOMAIN new.tools /\ old.tools[n] = new.tools[n])
  BY DEF Added, Changed
<1>10. \A n \in DOMAIN old.tools \cap DOMAIN new.tools : n \notin Added(old, new)
  BY DEF Added
<1>11. Covers(s, old, new)
  BY <1>4, <1>5, <1>6, <1>7, <1>8, <1>9, <1>10 DEF Covers
<1> QED BY <1>11 DEF s

-----------------------------------------------------------------------------
(***************************************************************************)
(* And a grade that covers a change is no lower than that of its report,   *)
(* unless the report rests on a guess or on a tool that broke three rules  *)
(* before.                                                                 *)
(***************************************************************************)
Uncompounded(old, siblings) ==
    \A n \in DOMAIN old.tools : \A f \in AnalyzeTool(old.tools[n], siblings) : f.rule # "MA-090"
SpeaksPlainly(tool) == Effective(tool) \cap DangerousCaps \subseteq Stated(tool)

\* What there is to find in a tool that there was not.
NewFindings(old, new, n) ==
    {f \in AtLeastMedium(AnalyzeTool(new.tools[n], new.tools)) :
        <<f.rule, f.at>> \notin KeysBefore(old, n, new.tools)}

LEMMA IntroducedIsCovered ==
    ASSUME NEW old, NEW new, NEW n \in DOMAIN new.tools, Known(new.tools[n]),
           NEW s \in SeverityRank, Covers(s, old, new), Uncompounded(old, new.tools),
           SpeaksPlainly(new.tools[n]) \/ \A f \in NewFindings(old, new, n) : f.rule # "MA-021"
    PROVE  IntroducedSeverity(NewFindings(old, new, n)) <= s
<1> DEFINE F == NewFindings(old, new, n)
           tool == new.tools[n]
           all == AnalyzeTool(tool, new.tools)
<1> USE DEF SeverityRank, Info, Medium, High, Critical
<1>1. ASSUME NEW f \in F
      PROVE  /\ f \in all /\ f.severity \in SeverityRank /\ f.severity >= Medium /\ Ranked(tool, f)
             /\ s >= KeyGrade(tool, <<f.rule, f.at>>)
  <2>1. f \in all /\ f.severity >= Medium
    BY DEF AtLeastMedium, NewFindings
  <2>2. f.severity \in SeverityRank /\ Ranked(tool, f)
    BY <2>1, FindingsAreGraded, FindingsAreRanked
  <2>3. <<f.rule, f.at>> \in NewKeys(old, new, n)
    BY DEF NewKeys, FindingKeys, NewFindings
  <2>4. s >= KeyGrade(tool, <<f.rule, f.at>>)
    BY <2>3 DEF Covers
  <2> QED BY <2>1, <2>2, <2>4
<1>2. ASSUME NEW f \in ContentFindings(F) PROVE s >= High
  <2>1. f \in F /\ f.category \in ContentCategories
    BY DEF ContentFindings
  <2>2. f.rule \notin PowerRules
    BY <1>1, <2>1 DEF Ranked
  <2>3. KeyGrade(tool, <<f.rule, f.at>>) \in {High, Critical}
    BY <2>2 DEF KeyGrade
  <2> HIDE DEF tool
  <2> QED BY <1>1, <2>1, <2>3
<1>3. ASSUME NEW f \in F \ ContentFindings(F) PROVE s >= High \/ s >= f.severity
  <2>1. f.category \notin ContentCategories
    BY DEF ContentFindings
  <2>2. Ranked(tool, f) /\ f.severity \in SeverityRank /\ f.severity >= Medium
        /\ s >= KeyGrade(tool, <<f.rule, f.at>>)
    BY <1>1
  <2>3. f.rule \in PowerRules /\ f.severity <= High
    BY <2>1, <2>2 DEF Ranked
  <2>4. KeyGrade(tool, <<f.rule, f.at>>) \in {Medium, High, Critical}
    BY KeyGradeType
  <2>5. CASE f.severity = High
    <3>1. KeyGrade(tool, <<f.rule, f.at>>) = High
          \/ (<<f.rule, f.at>> = Claim /\ (Effective(tool) \cap DangerousCaps) \ Stated(tool) # {})
      BY <2>2, <2>3, <2>5 DEF Ranked
    <3>2. CASE KeyGrade(tool, <<f.rule, f.at>>) = High
      BY <2>2, <3>2
    <3>3. CASE <<f.rule, f.at>> = Claim /\ (Effective(tool) \cap DangerousCaps) \ Stated(tool) # {}
      <4>1. f.rule = "MA-021"
        BY <3>3 DEF Claim
      <4>2. ~SpeaksPlainly(tool)
        BY <3>3 DEF SpeaksPlainly
      <4> QED BY <4>1, <4>2
    <3> QED BY <3>1, <3>2, <3>3
  <2>6. CASE f.severity # High
    <3>1. f.severity = Medium
      BY <2>2, <2>3, <2>6
    <3> HIDE DEF tool
    <3> QED BY <2>2, <2>4, <3>1
  <2> QED BY <2>5, <2>6
<1>4. ASSUME "MA-090" \in StrongIn(F) PROVE s = Critical
  <2>1. PICK f \in F : f.rule = "MA-090"
    BY <1>4 DEF StrongIn, ContentFindings
  <2>2. KeyGrade(tool, <<f.rule, f.at>>) = Critical
    BY <2>1 DEF KeyGrade
  <2>3. s >= KeyGrade(tool, <<f.rule, f.at>>)
    BY <1>1
  <2> QED BY <2>2, <2>3
<1>5. ASSUME "MA-090" \notin StrongIn(F), Cardinality(StrongIn(F)) >= 3 PROVE s = Critical
  <2> DEFINE strong == {g.rule : g \in all} \cap StrongPoisoning
             k == <<"MA-090", <<"tool">>>>
  <2>1. StrongIn(F) \subseteq strong
    BY <1>1, <1>5 DEF StrongIn, ContentFindings
  <2>2. IsFiniteSet(strong)
    BY StrongIsFinite, FS_Subset
  <2>3. Cardinality(StrongIn(F)) <= Cardinality(strong)
    BY <2>1, <2>2, FS_Subset
  <2>4. Cardinality(strong) \in Nat /\ Cardinality(StrongIn(F)) \in Nat
    BY <2>1, <2>2, FS_Subset, FS_CardinalityType
  <2>5. Cardinality(strong) >= 3
    BY <1>5, <2>3, <2>4
  <2>6. PICK f \in AtLeastMedium(all) : <<f.rule, f.at>> = k
    BY <2>5, CompoundIsFound
  <2>7. k \in FindingKeys(all)
    BY <2>6 DEF FindingKeys
  <2>8. k \notin KeysBefore(old, n, new.tools)
    <3>1. SUFFICES ASSUME n \in DOMAIN old.tools,
                          NEW g \in AnalyzeTool(old.tools[n], new.tools), <<g.rule, g.at>> = k
                   PROVE  FALSE
      BY DEF KeysBefore, FindingKeys, AtLeastMedium
    <3> QED BY <3>1 DEF Uncompounded
  <2>9. k \in NewKeys(old, new, n)
    BY <2>7, <2>8 DEF NewKeys
  <2>10. s >= KeyGrade(tool, k)
    BY <2>9 DEF Covers
  <2>11. KeyGrade(tool, k) = Critical
    BY DEF KeyGrade
  <2> QED BY <2>10, <2>11
<1>6. /\ \A f \in F : f.severity \in SeverityRank
      /\ ContentFindings(F) # {} => s >= High
      /\ \A f \in F \ ContentFindings(F) : s >= High \/ s >= f.severity
      /\ "MA-090" \in StrongIn(F) \/ Cardinality(StrongIn(F)) >= 3 => s = Critical
  BY <1>1, <1>2, <1>3, <1>4, <1>5
<1> HIDE DEF SeverityRank, Info, Medium, High, Critical, F
<1>7. IntroducedSeverity(F) <= s
  BY <1>6, IntroducedIsBounded
<1> QED BY <1>7 DEF F

\* The grade of a report rests on a guess: what Guessed says, of any two snapshots.
RestsOnAGuess(old, new) ==
    \E n \in DOMAIN new.tools :
        /\ ~SpeaksPlainly(new.tools[n])
        /\ \/ n \in Added(old, new)
           \/ \E f \in Suspicious(old, new) : f.tool = n /\ f.rule = "MA-021"

LEMMA ReportIsCovered ==
    ASSUME NEW old, NEW new, WellKnown(new), \A n \in DOMAIN new.tools : new.tools[n].name = n,
           NEW s \in SeverityRank, Covers(s, old, new), Uncompounded(old, new.tools),
           ~RestsOnAGuess(old, new)
    PROVE  CompareSnapshots(old, new).severity <= s
<1> DEFINE found(n) == AtLeastMedium(AnalyzeTool(new.tools[n], new.tools))
<1>1. ASSUME NEW n \in Added(old, new)
      PROVE  AddedSeverity(new.tools[n], found(n)) <= s
  <2> DEFINE F == found(n)
             tool == new.tools[n]
  <2>1. Known(tool) /\ n \in DOMAIN new.tools /\ n \notin DOMAIN old.tools
    BY DEF Added, WellKnown
  <2>2. SpeaksPlainly(tool)
    BY <2>1 DEF RestsOnAGuess
  <2>3. F = NewFindings(old, new, n)
    BY <2>1 DEF KeysBefore, NewFindings
  <2> HIDE DEF F
  <2>4. IntroducedSeverity(F) <= s
    BY <2>1, <2>2, <2>3, IntroducedIsCovered
  <2>5. CASE F # {}
    BY <2>4, <2>5 DEF AddedSeverity, F
  <2>6. CASE F = {}
    <3>1. s >= Medium
      BY DEF Covers
    <3>2. Effective(tool) \cap DangerousCaps = {}
      <4>1. SUFFICES ASSUME NEW c \in Effective(tool) \cap DangerousCaps PROVE FALSE
        OBVIOUS
      <4>2. c \in Stated(tool) \cap HighRisk
        BY <2>2, <4>1 DEF SpeaksPlainly, DangerousCaps, HighRisk
      <4>3. \E f \in AtLeastMedium(AnalyzeTool(tool, new.tools)) : <<f.rule, f.at>> = Power
        BY <4>2, StatedIsFound
      <4> QED BY <2>6, <4>3 DEF F
    <3>3. AddedSeverity(tool, F) = Medium
      BY <2>6, <3>2 DEF AddedSeverity
    <3> QED BY <3>1, <3>3 DEF F
  <2> QED BY <2>5, <2>6
<1>2. ASSUME NEW n \in Removed(old, new) PROVE Medium <= s
  BY DEF Covers
<1>3. ASSUME NEW n \in Changed(old, new)
      PROVE  ToolSeverity(old.tools[n], new.tools[n], new.tools) <= s
  <2> DEFINE t == old.tools[n]
             u == new.tools[n]
             F == IntroducedFindings(t, u, new.tools)
             fields == MaxSeverity({c[2] : c \in FieldChanges(t, u)}, Low)
             brought == IntroducedSeverity(F)
  <2>1. Known(u) /\ n \in DOMAIN new.tools /\ n \in DOMAIN old.tools /\ t # u
    BY DEF Changed, WellKnown
  <2>2. F = NewFindings(old, new, n)
    BY <2>1 DEF KeysBefore, IntroducedFindings, NewFindings
  <2>3. SpeaksPlainly(u) \/ \A f \in F : f.rule # "MA-021"
    <3>1. ASSUME NEW f \in F PROVE f \in Suspicious(old, new) /\ f.tool = n
      <4>1. f \in AnalyzeTool(u, new.tools)
        BY DEF IntroducedFindings, AtLeastMedium
      <4>2. f.tool = n
        BY <2>1, <4>1, FindingsAreRanked DEF Ranked
      <4> QED BY <4>2 DEF Suspicious
    <3> HIDE DEF F
    <3> QED BY <2>1, <3>1 DEF RestsOnAGuess
  <2>4. \A f \in F : f.severity \in SeverityRank
    BY <2>1, FindingsAreGraded DEF IntroducedFindings, AtLeastMedium
  <2> HIDE DEF F
  <2>5. brought <= s
    <3>1. IntroducedSeverity(NewFindings(old, new, n)) <= s
      BY <2>1, <2>2, <2>3, IntroducedIsCovered
    <3> QED BY <2>2, <3>1
  <2>6. brought \in SeverityRank
    BY <2>4, IntroducedIsGraded
  <2>7. FieldsCovered(s, t, u)
    BY <2>1 DEF Covers
  <2>8. s >= Low
    BY <2>1, <2>7 DEF FieldsCovered
  <2>9. ASSUME NEW c \in FieldChanges(t, u) PROVE c[2] <= s
    <3>1. \/ c[2] = Low
          \/ c[2] = Medium /\ Rewritten(t, u)
          \/ c[2] = High /\ (HintWidening(t, u) # {} \/ Escalated(t, u))
      BY DEF FieldChanges, Rewritten
    <3> QED BY <2>7, <2>8, <3>1 DEF FieldsCovered
  <2>10. Low \in SeverityRank /\ {c[2] : c \in FieldChanges(t, u)} \in SUBSET SeverityRank
    <3>1. Low \in SeverityRank
      BY DEF Low, SeverityRank, Info, Critical
    <3> QED BY <3>1, FieldsAreGraded
  <2>11. fields <= s
    BY <2>8, <2>9, <2>10, MaxIsBounded
  <2>12. fields \in SeverityRank
    BY <2>10, MaxIsHighest
  <2>13. ToolSeverity(t, u, new.tools) = MaxSeverity({fields, brought}, Low)
    BY DEF ToolSeverity, F
  <2> HIDE DEF fields, brought
  <2>14. {fields, brought} \in SUBSET SeverityRank /\ \A x \in {fields, brought} : x <= s
    BY <2>5, <2>6, <2>11, <2>12
  <2> QED BY <2>8, <2>10, <2>13, <2>14, MaxIsBounded
<1>4. ASSUME NEW c \in IdentityChanges(old.identity, new.identity) PROVE c[2] <= s
  BY DEF Covers
<1>5. ASSUME NEW g \in Grades(old, new) PROVE g <= s
  BY <1>1, <1>2, <1>3, <1>4 DEF Grades
<1>6. Grades(old, new) \in SUBSET SeverityRank /\ Info \in SeverityRank /\ Info <= s
  BY GradesAreSeverities DEF Info, SeverityRank, Critical
<1>7. MaxSeverity(Grades(old, new), Info) <= s
  BY <1>5, <1>6, MaxIsBounded
<1> QED BY <1>7 DEF CompareSnapshots, ReportOf

-----------------------------------------------------------------------------
(***************************************************************************)
(* The inductive invariant: the highest grade approved so far covers all   *)
(* that has changed since the first version.                               *)
(***************************************************************************)
Covered ==
    /\ Alone(Snapshots[base]) /\ Alone(Snapshots[approved])
    /\ DOMAIN Snapshots[base].tools \subseteq DOMAIN Snapshots[approved].tools
    /\ Covers(worst, Snapshots[base], Snapshots[approved])
SInv == base \in First /\ (~broken => Covered)

LEMMA NotReferring ==
    ASSUME NEW v \in Comparable, v \notin Referring
    PROVE  Alone(Snapshots[v])
BY DEF Referring, References, Alone

LEMMA NothingToCover ==
    ASSUME NEW v, NEW s
    PROVE  Covers(s, Snapshots[v], Snapshots[v])
<1> DEFINE same == Snapshots[v]
<1> HIDE DEF same
<1>1. Added(same, same) = {} /\ Removed(same, same) = {}
  BY DEF Added, Removed
<1>2. \A n \in DOMAIN same.tools : NewKeys(same, same, n) = {}
  BY DEF NewKeys, KeysBefore
<1>3. ASSUME NEW t PROVE FieldsCovered(s, t, t)
  BY DEF FieldsCovered, Rewritten, HintWidening, Escalated
<1>4. IdentityChanges(same.identity, same.identity) = {}
  BY DEF IdentityChanges
<1>5. Covers(s, same, same)
  BY <1>1, <1>2, <1>3, <1>4 DEF Covers
<1> QED BY <1>5 DEF same

\* What covers the way so far, and what is advertised now, covers the whole way.
LEMMA CoversOn ==
    ASSUME TypeOK, SInv, ~broken, NEW s \in SeverityRank, worst <= s, Report.severity <= s
    PROVE  Covers(s, Snapshots[base], Snapshots[current])
<1> DEFINE a == Snapshots[base]
           b == Snapshots[approved]
           c == Snapshots[current]
<1>1. WellKnown(c) /\ Report = CompareSnapshots(b, c)
  BY StoredIsKnown DEF TypeOK, Report, Reports
<1>2. Alone(a) /\ Alone(b) /\ DOMAIN a.tools \subseteq DOMAIN b.tools /\ Covers(worst, a, b)
  BY DEF SInv, Covered
<1>3. worst \in SeverityRank
  BY DEF TypeOK
<1>4. Report.severity \in SeverityRank
  BY <1>1, ReportIsGraded
<1> HIDE DEF a, b, c
<1>5. Covers(Report.severity, b, c)
  BY <1>1, ReportCoversItsChange
<1>6. Covers(s, b, c)
  BY <1>4, <1>5, CoversMore
<1>7. Covers(s, a, b)
  BY <1>2, <1>3, CoversMore
<1>8. Covers(s, a, c)
  BY <1>2, <1>6, <1>7, CoversJoin
<1> QED BY <1>8 DEF a, c

LEMMA SplitInit == Init => SInv
<1> SUFFICES ASSUME Init PROVE SInv
  OBVIOUS
<1>1. base \in First /\ approved = base /\ broken = (base \in Referring) /\ base \in Comparable
  BY FirstAssumption DEF Init, Comparable
<1>2. ASSUME ~broken PROVE Covered
  BY <1>1, <1>2, NotReferring, NothingToCover DEF Covered
<1> QED BY <1>1, <1>2 DEF SInv

LEMMA ApproveSplits ==
    ASSUME TypeOK, SInv, Approve(Report)
    PROVE  SInv'
<1>1. /\ approved' = current /\ base' = base /\ current \in Comparable
      /\ worst' = MaxSeverity({worst, Report.severity}, Info)
      /\ broken' = (broken \/ Report.removed # {} \/ current \in Referring)
  BY DEF Approve, TypeOK
<1>2. WellKnown(Snapshots[current])
      /\ Report = CompareSnapshots(Snapshots[approved], Snapshots[current])
  BY StoredIsKnown DEF TypeOK, Report, Reports
<1>3. Report.severity \in SeverityRank
  BY <1>2, ReportIsGraded
<1>4. {worst, Report.severity} \in SUBSET SeverityRank /\ Info \in SeverityRank
  BY <1>3 DEF TypeOK, Info, SeverityRank, Critical
<1>5. worst' \in SeverityRank /\ worst <= worst' /\ Report.severity <= worst'
  BY <1>1, <1>4, MaxIsHighest
<1>6. ASSUME ~broken' PROVE Covered'
  <2>1. ~broken /\ Report.removed = {} /\ current \notin Referring
    BY <1>1, <1>6
  <2>2. PICK s : s = worst'
    OBVIOUS
  <2>3. Covers(s, Snapshots[base], Snapshots[current])
    BY <1>5, <2>1, <2>2, CoversOn
  <2>4. Alone(Snapshots[current])
    BY <1>1, <2>1, NotReferring
  <2>5. DOMAIN Snapshots[approved].tools \subseteq DOMAIN Snapshots[current].tools
    BY <1>2, <2>1 DEF CompareSnapshots, ReportOf, Removed
  <2>6. Alone(Snapshots[base])
        /\ DOMAIN Snapshots[base].tools \subseteq DOMAIN Snapshots[approved].tools
    BY <2>1 DEF SInv, Covered
  <2> QED BY <1>1, <2>2, <2>3, <2>4, <2>5, <2>6 DEF Covered
<1> QED BY <1>1, <1>6 DEF SInv

LEMMA SplitStep == TypeOK /\ SInv /\ [Next]_vars => SInv'
<1> SUFFICES ASSUME TypeOK, SInv, [Next]_vars PROVE SInv'
  OBVIOUS
<1>1. CASE Advertise
  BY <1>1 DEF Advertise, SInv, Covered
<1>2. CASE Approve(Report)
  BY <1>2, ApproveSplits
<1>3. CASE UNCHANGED vars
  BY <1>3 DEF vars, SInv, Covered
<1> QED BY <1>1, <1>2, <1>3 DEF Next

LEMMA CoveredIsGraded ==
    ASSUME TypeOK, SInv PROVE SplittingDoesNotHide
<1> DEFINE a == Snapshots[base]
           c == Snapshots[current]
           atOnce == Reports[base][current]
           s == MaxSeverity({worst, Report.severity}, Info)
<1> SUFFICES ASSUME ~broken, ~CompoundBase[base], ~Guessed(atOnce)
             PROVE  s >= atOnce.severity
  BY DEF SplittingDoesNotHide, GradedAtLeast
<1>1. /\ atOnce = CompareSnapshots(a, c) /\ WellKnown(c)
      /\ base \in Comparable /\ approved \in Comparable /\ current \in Comparable
  BY StoredIsKnown DEF TypeOK, Reports
<1>2. \A n \in DOMAIN c.tools : c.tools[n].name = n
  BY <1>1, StoredShape
<1>3. Report.severity \in SeverityRank
  <2>1. Report = CompareSnapshots(Snapshots[approved], c)
    BY <1>1 DEF Report, Reports
  <2> QED BY <1>1, <2>1, ReportIsGraded
<1>4. {worst, Report.severity} \in SUBSET SeverityRank /\ Info \in SeverityRank
  BY <1>3 DEF TypeOK, Info, SeverityRank, Critical
<1>5. s \in SeverityRank /\ worst <= s /\ Report.severity <= s
  BY <1>4, MaxIsHighest
<1>6. Uncompounded(a, c.tools)
  <2>1. Alone(a) /\ base \in First
    BY DEF SInv, Covered
  <2>2. \A n \in DOMAIN a.tools : \A f \in AnalyzeTool(a.tools[n], a.tools) : f.rule # "MA-090"
    BY <2>1 DEF CompoundBase, Compounded
  <2>3. ASSUME NEW n \in DOMAIN a.tools
        PROVE  AnalyzeTool(a.tools[n], c.tools) = AnalyzeTool(a.tools[n], a.tools)
    BY <2>1, AloneIsJudgedAlike DEF Alone
  <2> QED BY <2>2, <2>3 DEF Uncompounded
<1>7. ~RestsOnAGuess(a, c)
  <2>1. atOnce.added = Added(a, c) /\ atOnce.suspicious = Suspicious(a, c)
    BY <1>1 DEF CompareSnapshots, ReportOf
  <2> HIDE DEF atOnce
  <2> QED BY <2>1 DEF Guessed, RestsOnAGuess, SpeaksPlainly, Present, New
<1> HIDE DEF s
<1>8. Covers(s, a, c)
  BY <1>5, CoversOn
<1> HIDE DEF a, c, atOnce
<1>9. CompareSnapshots(a, c).severity <= s
  BY <1>1, <1>2, <1>5, <1>6, <1>7, <1>8, ReportIsCovered
<1>10. CompareSnapshots(a, c).severity \in SeverityRank
  BY <1>1, ReportIsGraded
<1> QED BY <1>1, <1>5, <1>9, <1>10 DEF SeverityRank, Info, Critical

(***************************************************************************)
(* drift_detector.py: in how many steps soever a change is approved, one   *)
(* of them is graded as high as the whole would have been, as long as no   *)
(* step took a tool away, no version approved refers from one tool to      *)
(* another, the first did not break three rules already, and the grade of  *)
(* the whole does not rest on a guess.                                     *)
(***************************************************************************)
THEOREM SplittingNeverHides == Spec => []SplittingDoesNotHide
<1>1. Spec => []SInv
  BY SplitInit, SplitStep, TypeCorrect, PTL DEF Spec
<1>2. TypeOK /\ SInv => SplittingDoesNotHide
  BY CoveredIsGraded
<1> QED BY <1>1, <1>2, TypeCorrect, PTL
=============================================================================
