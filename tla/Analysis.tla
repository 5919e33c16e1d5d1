------------------------------ MODULE Analysis ------------------------------
(***************************************************************************)
(* analysis/metadata_analyzer.py with the rule catalogue (risk_rules.py),  *)
(* the capability inference (capabilities.py), the schema traversal        *)
(* (schema_analyzer.py) and the calibration (severity.py): the findings of *)
(* a tool definition, of a server's tools, of several servers together and *)
(* of a text.  Pure functions.                                             *)
(*                                                                         *)
(* A text keeps what the rules can see in it:                              *)
(*   words   the words of it (words_in)                                    *)
(*   hits    the pattern rules whose regexes match the normalised text     *)
(*   refs    the tools it tells the model to call, up to case              *)
(*   hidden  its invisible characters: none, format or bidi                *)
(*   ragged  whether it has runs of white space, which the normalisation   *)
(*           of a fingerprint collapses                                    *)
(*   long    whether it is over the soft limit of a description            *)
(* What may be missing is a set of at most one element.  A tool has a      *)
(* name, prose, the parameters of its input schema (required is a list, as *)
(* advertised), and what the schema leaves open; the hints are those that  *)
(* are set, to TRUE or FALSE; caps are the words of the list declared in   *)
(* _meta, an unknown one among them, dropped is what else stands under     *)
(* that key (entries that are no words, or a value that is no list), and   *)
(* meta the other text found there.  A schema is flat, deep (the analyzer  *)
(* does not look below) or bottomless (it cannot even be normalised).      *)
(***************************************************************************)
EXTENDS Integers, Sequences, FiniteSets, SequencesExt

CONSTANTS
    Tokens,     \* the words in the name of each tool and parameter (tokenize_name)
    NameHits,   \* the pairs <<name, rule>> where a pattern rule matches the name, read as words
    Skeleton,   \* the folded spelling of the name of each tool (name_skeleton)
    Near,       \* the pairs of names, six letters or more, one edit apart
    MaxPairwise \* MAX_PAIRWISE_TOOLS: with more tools than this the pairs are not compared

Capability == {"read", "write", "send", "delete", "execute"}
HighRisk == {"send", "execute", "delete"}
Mutating == {"write", "delete", "send", "execute"}

Info == 0
Low == 1
Medium == 2
High == 3
Critical == 4
SeverityRank == Info..Critical

Shift(severity, steps) ==
    IF severity + steps < Info THEN Info
    ELSE IF severity + steps > Critical THEN Critical
    ELSE severity + steps

\* The confidence of a rule is in hundredths.
Calibrate(base, confidence) ==
    IF confidence < 30 THEN Shift(base, -2)
    ELSE IF confidence < 50 THEN Shift(base, -1)
    ELSE base

MaxSeverity(severities, default) ==
    IF severities = {} THEN default
    ELSE CHOOSE s \in severities : \A t \in severities : t <= s

-----------------------------------------------------------------------------
(***************************************************************************)
(* The rule catalogue: the pattern rules with their base severity and      *)
(* confidence, and the lexicons.                                           *)
(***************************************************************************)
PatternRules ==
    {<<"MA-001", High, 90>>, <<"MA-002", Medium, 45>>, <<"MA-003", High, 90>>,
     <<"MA-004", High, 80>>, <<"MA-005", High, 85>>, <<"MA-006", High, 85>>,
     <<"MA-007", Low, 40>>, <<"MA-008", High, 85>>, <<"MA-011", Medium, 60>>,
     <<"MA-013", Medium, 55>>}
WeakRules == {"MA-007"}
StrongPoisoning == {"MA-001", "MA-003", "MA-004", "MA-005", "MA-006", "MA-008", "MA-009"}

RuleSeverity(id) ==
    LET rule == CHOOSE r \in PatternRules : r[1] = id IN Calibrate(rule[2], rule[3])

Verbs ==
    [read |-> {"get", "list", "read", "search", "find", "fetch", "query", "show", "view",
               "lookup", "describe", "count"},
     write |-> {"create", "add", "update", "set", "write", "save", "insert", "put", "patch",
                "modify", "edit", "append"},
     delete |-> {"delete", "remove", "drop", "destroy", "purge", "erase", "clear", "truncate",
                 "wipe", "revoke"},
     send |-> {"send", "post", "publish", "notify", "email", "mail", "forward", "export",
               "transmit", "share", "webhook", "broadcast", "upload"},
     execute |-> {"exec", "execute", "run", "eval", "shell", "spawn", "launch", "command",
                  "cmd", "script", "deploy"}]

ParamHints ==
    [execute |-> {"command", "cmd", "shell", "script", "code", "exec", "expression"},
     send |-> {"webhook", "recipient", "recipients", "destination", "endpoint", "callback_url"}]

DomainKeywords ==
    [calendar |-> {"calendar", "event", "events", "meeting", "meetings", "schedule",
                   "appointment", "agenda"},
     catalog |-> {"catalog", "catalogue", "product", "products", "inventory", "item", "items"},
     file |-> {"file", "files", "directory", "directories", "folder", "folders", "filesystem",
               "disk"},
     network |-> {"http", "https", "url", "urls", "webhook", "email", "smtp", "socket",
                  "network", "internet"},
     shell |-> {"shell", "bash", "terminal", "subprocess", "sudo", "powershell"},
     credentials |-> {"password", "passwords", "passphrase", "credential", "credentials",
                      "keychain"},
     database |-> {"sql", "database", "table", "tables"}]
HighRiskDomains == {"file", "network", "shell", "credentials"}
ImpliedDomain == [send |-> "network", execute |-> "shell"]

\* What a parameter's name makes the schema rules expect of it.
ParamNames ==
    [path |-> {"path", "paths", "file", "files", "filepath", "filename", "dir", "directory",
               "folder"},
     url |-> {"url", "uri", "endpoint", "webhook", "href", "link", "callback_url", "callback"},
     shell |-> {"command", "cmd", "shell", "shell_command", "script", "bash", "exec",
                "expression", "eval"},
     sql |-> {"sql", "statement", "raw_query"}]
EnumExpected ==
    {"mode", "type", "status", "format", "action", "level", "kind", "category", "method",
     "operation", "priority", "direction", "unit", "state", "role", "scope"}

GenericReferents ==
    {"this", "that", "the", "same", "another", "other", "following", "above", "below"}

-----------------------------------------------------------------------------
\* What the traversal of a definition can come across.
ToolText ==
    [words : SUBSET STRING, hits : SUBSET {r[1] : r \in PatternRules}, refs : SUBSET STRING,
     hidden : {"none", "format", "bidi"}, ragged : BOOLEAN, long : BOOLEAN]
ToolParam ==
    [type : {"string", "uri", "other"}, restricted : BOOLEAN, description : SUBSET ToolText]
Depth == {"flat", "deep", "bottomless"}
WellFormed(tool) ==
    /\ tool \in
        [name : DOMAIN Tokens, title : SUBSET ToolText, description : SUBSET ToolText,
         params : {tool.params}, required : Seq(DOMAIN Tokens), open : BOOLEAN, depth : Depth,
         output : SUBSET ToolText, outputDepth : Depth, hints : {tool.hints},
         caps : Seq(STRING), dropped : SUBSET ToolText, meta : SUBSET ToolText]
    /\ DOMAIN tool.params \subseteq DOMAIN Tokens
    /\ tool.params \in [DOMAIN tool.params -> ToolParam]
    /\ tool.hints \in [DOMAIN tool.hints -> BOOLEAN]

-----------------------------------------------------------------------------
(***************************************************************************)
(* capabilities.py: what a tool can do, against what it says it does.      *)
(***************************************************************************)
DomainsOf(words) == {d \in DOMAIN DomainKeywords : words \cap DomainKeywords[d] # {}}

Declared(tool) == ToSet(tool.caps) \cap Capability
InferredFromName(tool) == {c \in Capability : Tokens[tool.name] \cap Verbs[c] # {}}
ParamTokens(p) == Tokens[p] \union {p}
InferredFromSchema(tool) ==
    {c \in DOMAIN ParamHints :
        \E p \in DOMAIN tool.params : ParamTokens(p) \cap ParamHints[c] # {}}

Hinted(tool, hint, value) == hint \in DOMAIN tool.hints /\ tool.hints[hint] = value

Effective(tool) ==
    Declared(tool) \union InferredFromName(tool) \union InferredFromSchema(tool)
        \union {c \in {"delete"} : Hinted(tool, "destructiveHint", TRUE)}

ClaimsReadOnly(tool) == Hinted(tool, "readOnlyHint", TRUE) \/ Declared(tool) = {"read"}

-----------------------------------------------------------------------------
(***************************************************************************)
(* schema_analyzer.iter_text_sites: every piece of text of a definition    *)
(* with where it stands.  A name is text as well, in which no reference to *)
(* a tool is looked for.  The place of a required name is its index in the *)
(* list, here the name itself.  The text of annotations, of the keys of    *)
(* _meta, of enums and defaults is left out: it has its own places, where  *)
(* the same rules are applied to it.                                       *)
(***************************************************************************)
Site(at, kind, region, text) == [at |-> at, kind |-> kind, region |-> region, text |-> text]
NameText(name) ==
    [words |-> Tokens[name], hits |-> {id \in {r[1] : r \in PatternRules} : <<name, id>> \in NameHits},
     refs |-> {}, hidden |-> "none", ragged |-> FALSE, long |-> FALSE]

TextSites(tool) ==
    {Site(<<"name">>, "tool_name", "tool", NameText(tool.name))}
    \union {Site(<<"title">>, "tool_title", "tool", t) : t \in tool.title}
    \union {Site(<<"description">>, "tool_description", "tool", t) : t \in tool.description}
    \union {Site(<<"input", p>>, "param_name", "input", NameText(p)) : p \in DOMAIN tool.params}
    \union {Site(<<"required", p>>, "required_name", "input", NameText(p)) :
                p \in ToSet(tool.required)}
    \union (UNION {{Site(<<"input", p, "description">>, "param_description", "input", t) :
                        t \in tool.params[p].description} : p \in DOMAIN tool.params})
    \union {Site(<<"output">>, "output_description", "output", t) : t \in tool.output}
    \union {Site(<<"_meta", "dropped">>, "meta_value", "meta", t) : t \in tool.dropped}
    \union {Site(<<"_meta">>, "meta_value", "meta", t) : t \in tool.meta}

NameKinds == {"tool_name", "param_name", "required_name"}

-----------------------------------------------------------------------------
(***************************************************************************)
(* The checks of analyze_tool.  A finding names its rule, its category,    *)
(* its calibrated severity, the tool and where it was seen.                *)
(***************************************************************************)
Found(rule, category, severity, tool, at) ==
    [rule |-> rule, category |-> category, severity |-> severity, tool |-> tool, at |-> at]

\* A weak rule reports only where nothing stronger did.
ScanPatterns(site, tool) ==
    LET strong == site.text.hits \ WeakRules
    IN {Found(id, "tool_poisoning", RuleSeverity(id), tool, site.at) :
            id \in IF strong # {} THEN strong ELSE site.text.hits}

ScanHiddenUnicode(site, tool) ==
    {Found("MA-010", "tool_poisoning", IF h = "bidi" THEN High ELSE Medium, tool, site.at) :
        h \in {site.text.hidden} \ {"none"}}

\* siblings: the other tools of the server, by name.
JudgeReference(ref, tool, siblings) ==
    IF ref \notin DOMAIN siblings THEN {Medium}
    ELSE LET other == DomainsOf(Tokens[ref])
             own == DomainsOf(Tokens[tool.name])
         IN IF Effective(siblings[ref]) \cap HighRisk # {} THEN {High}
            ELSE IF other # {} /\ own # {} /\ other \cap own = {} THEN {Medium}
            ELSE {}

ScanCrossTool(site, tool, siblings) ==
    UNION {{Found("MA-009", "cross_tool_reference", severity, tool.name, site.at) :
                severity \in JudgeReference(ref, tool, siblings)} :
           ref \in site.text.refs \ (GenericReferents \union {tool.name})}

ScanSite(site, tool, siblings) ==
    ScanPatterns(site, tool.name)
    \union (IF site.kind \in NameKinds THEN {} ELSE ScanCrossTool(site, tool, siblings))
    \union ScanHiddenUnicode(site, tool.name)

CheckLength(tool) ==
    {Found("MA-012", "tool_poisoning", Low, tool.name, <<"description">>) :
        t \in {d \in tool.description : d.long}}

\* What the tool is about, by its name and title alone.
DeclaredDomains(tool) ==
    DomainsOf(Tokens[tool.name]) \union (UNION {DomainsOf(t.words) : t \in tool.title})
        \union {ImpliedDomain[c] : c \in (Declared(tool) \union InferredFromName(tool))
                                           \cap DOMAIN ImpliedDomain}

\* Each unrelated domain is reported once, at the first site that mentions it.
MentionOrder(at) == IF at = <<"description">> THEN 0 ELSE IF at[1] = "output" THEN 2 ELSE 1
Mentions(tool, domain) ==
    {s \in TextSites(tool) : /\ s.kind \notin {"tool_name", "tool_title"}
                             /\ s.region # "meta"
                             /\ domain \in DomainsOf(s.text.words)}
FirstMention(sites) ==
    CHOOSE s \in sites : \A t \in sites : MentionOrder(s.at) <= MentionOrder(t.at)

CheckPurposeMismatch(tool) ==
    {Found("MA-020", "purpose_mismatch", IF d = "network" THEN Low ELSE Medium, tool.name,
           FirstMention(Mentions(tool, d)).at) :
        d \in {h \in HighRiskDomains \ DeclaredDomains(tool) : Mentions(tool, h) # {}}}

CheckCapabilities(tool) ==
    LET readOnly == ClaimsReadOnly(tool) \/ InferredFromName(tool) = {"read"}
        extra == (Declared(tool) \union InferredFromSchema(tool)) \cap Mutating
        contradicted == Found("MA-021", "excessive_permission",
                              IF extra \cap HighRisk # {} THEN High ELSE Medium,
                              tool.name, <<"_meta", "annotations">>)
        both == Found("MA-021", "excessive_permission", High, tool.name, <<"annotations">>)
    IN {f \in {contradicted} : readOnly /\ extra # {}}
       \union {f \in {both} : /\ Hinted(tool, "readOnlyHint", TRUE)
                              /\ Hinted(tool, "destructiveHint", TRUE)}

\* A declared capability is a fact, a verb in a name only a hint.
CheckHighRiskCapabilities(tool) ==
    LET base(c) == IF c = "execute" THEN High ELSE Medium
        stated(c) == \/ c \in Declared(tool)
                     \/ (c = "delete" /\ Hinted(tool, "destructiveHint", TRUE))
    IN {Found("MA-022", "excessive_permission",
              Calibrate(base(c), IF stated(c) THEN 90 ELSE 25), tool.name,
              IF stated(c) THEN <<"_meta", "capabilities">> ELSE <<"name">>) :
        c \in Effective(tool) \cap HighRisk}

CheckParameter(tool, p) ==
    LET param == tool.params[p]
        named(kind) == ParamTokens(p) \cap ParamNames[kind] # {}
        isUrl == named("url") \/ param.type = "uri"
        risk(rule, severity) == Found(rule, "schema_risk", severity, tool.name, <<"input", p>>)
        risks == {r \in {risk("SR-003", Medium)} : named("path")}
                 \union {r \in {risk("SR-004", Medium)} : isUrl}
                 \union {r \in {risk("SR-005", High)} : named("shell")}
                 \union {r \in {risk("SR-006", Medium)} : named("sql")}
                 \union {r \in {risk("SR-002", Low)} :
                            p \in EnumExpected /\ ~named("path") /\ ~isUrl}
    IN IF param.type = "other" \/ param.restricted THEN {} ELSE risks

CheckSchemaRisk(tool) ==
    {Found("SR-007", "schema_risk", Medium, tool.name, <<region>>) :
        region \in {r \in {"inputSchema"} : tool.depth # "flat"}
                   \union {r \in {"outputSchema"} : tool.outputDepth # "flat"}}
    \union {f \in {Found("SR-001", "schema_risk", Low, tool.name, <<"inputSchema">>)} : tool.open}
    \union UNION {CheckParameter(tool, p) : p \in DOMAIN tool.params}

\* Three strong rules or more are a finding of their own.
WithCompound(tool, findings) ==
    findings \union
    {f \in {Found("MA-090", "tool_poisoning", Critical, tool.name, <<"tool">>)} :
        Cardinality({g.rule : g \in findings} \cap StrongPoisoning) >= 3}

\* siblings: the tools of the same listing, by name, this one among them.
AnalyzeTool(tool, siblings) ==
    LET others == [n \in DOMAIN siblings \ {tool.name} |-> siblings[n]]
    IN WithCompound(tool, (UNION {ScanSite(s, tool, others) : s \in TextSites(tool)})
                          \union CheckLength(tool)
                          \union CheckPurposeMismatch(tool)
                          \union CheckCapabilities(tool)
                          \union CheckHighRiskCapabilities(tool)
                          \union CheckSchemaRisk(tool))

AnalyzeServer(tools) == UNION {AnalyzeTool(tools[n], tools) : n \in DOMAIN tools}

\* A text that is no part of a definition: a response, a server's instructions.
AnalyzeText(text, at) ==
    LET site == Site(at, "tool_response", "response", text)
    IN {[f EXCEPT !.category = "response_injection"] :
            f \in ScanPatterns(site, "none") \union ScanHiddenUnicode(site, "none")}

-----------------------------------------------------------------------------
(***************************************************************************)
(* detect_shadowing: tools of different servers that have the same name,   *)
(* names easy to confuse, or the same description.  servers maps a name to *)
(* the tools the server offers, by name.                                   *)
(***************************************************************************)
WordsOf(tool) == UNION {t.words : t \in tool.description}
Jaccard(a, b) ==
    IF a = {} \/ b = {} THEN 0 ELSE (100 * Cardinality(a \cap b)) \div Cardinality(a \union b)

Owners(servers, name) == {s \in DOMAIN servers : name \in DOMAIN servers[s]}
Offered(servers) == UNION {DOMAIN servers[s] : s \in DOMAIN servers}

SharedNames(servers) ==
    LET diverge(name) == \E s, t \in Owners(servers, name) :
            s # t /\ Jaccard(WordsOf(servers[s][name]), WordsOf(servers[t][name])) < 50
    IN {Found("SH-001", "shadowing", IF diverge(n) THEN High ELSE Medium, n, <<"tools", n>>) :
            n \in {m \in Offered(servers) : Cardinality(Owners(servers, m)) >= 2}}

Confusable(a, b) == Skeleton[a] = Skeleton[b] \/ {a, b} \in Near
Copied(a, b) ==
    /\ Cardinality(WordsOf(a)) >= 6
    /\ Jaccard(WordsOf(a), WordsOf(b)) >= 80

\* A pair is reported on its second tool: which one that is depends on the order of the servers.
PairFindings(a, b) ==
    IF a.name = b.name THEN {}
    ELSE IF Confusable(a.name, b.name)
    THEN {Found("SH-002", "shadowing", High, b.name, <<"tools", b.name>>)}
    ELSE {f \in {Found("SH-003", "shadowing", Medium, b.name, <<"tools", b.name>>)} : Copied(a, b)}

Entries(servers) == UNION {{<<s, n>> : n \in DOMAIN servers[s]} : s \in DOMAIN servers}
DetectShadowing(servers, order) ==
    SharedNames(servers)
    \union UNION
        {{f \in PairFindings(servers[a[1]][a[2]], servers[b[1]][b[2]]) :
            /\ Cardinality(Entries(servers)) <= MaxPairwise
            /\ \E i, j \in DOMAIN order : i < j /\ order[i] = a[1] /\ order[j] = b[1]} :
         a \in Entries(servers), b \in Entries(servers)}
=============================================================================
