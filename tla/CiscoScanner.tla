---------------------------- MODULE CiscoScanner ----------------------------
(***************************************************************************)
(* benchmark/cisco_scanner.py: the third-party scanner, run as a program   *)
(* of its own on every tool listing, and the process-wide cache of what it *)
(* printed.  A row is what it prints of one tool: whether that tool was    *)
(* scanned, the threats, their severity.                                   *)
(***************************************************************************)
EXTENDS Verification

CONSTANTS
    Reports,    \* Reports[listing]: the rows the scanner prints of a listing
    MaxCache    \* _MAX_CACHE: how many listings the cache holds (128)

ASSUME CacheAssumption == MaxCache \in Nat \ {0}

VARIABLES
    installed,  \* whether locate_scanner finds the program
    cache       \* _cache: the rows of the listings scanned so far

scannerVars == <<installed, cache>>

\* How a run of the program ends, and what it has printed by then.
Exit == [code : {"zero", "nonzero", "timeout", "not started"},
         output : {"rows", "log then rows", "text", "an object", "too large"}]
Empty == [l \in {} |-> {}]

ScannerInit == installed = TRUE /\ cache = Empty

\* The operator installs or removes the program between two cases.
Reinstall == installed' = ~installed /\ UNCHANGED cache

-----------------------------------------------------------------------------
\* THREAT_CATEGORIES: a label nobody mapped is a policy violation, which no attack expects.
ThreatCategory(threat) ==
    CASE threat \in {"PROMPT INJECTION", "TOOL POISONING", "DATA EXFILTRATION",
                     "CREDENTIAL HARVESTING", "INJECTION ATTACK"} -> "tool_poisoning"
      [] threat \in {"CODE EXECUTION", "SYSTEM MANIPULATION"} -> "excessive_permission"
      [] OTHER -> "policy_violation"

\* _SEVERITIES: what the scanner calls otherwise, SAFE or UNKNOWN, is info.
ScannerSeverity(label) ==
    CASE label = "HIGH" -> 3 [] label = "MEDIUM" -> 2 [] label = "LOW" -> 1 [] OTHER -> 0

\* Its evidence says which scanner and which threat; it cites the event recorded for it.
RowFindings(row) ==
    {[category |-> ThreatCategory(t), severity |-> ScannerSeverity(row.severity),
      matched |-> TRUE, metadata |-> FALSE, cites |-> TRUE, keys |-> {"other"}] : t \in row.threats}

ToolRows(rows) == {r \in rows : r.item = "tool"}

\* Plausible bug: a tool that could not be scanned is passed over.
ScannedPartly(rows) == TRUE

Scanned(rows) == \A r \in ToolRows(rows) : r.status \in {None, "completed"}

\* findings_from_output, of rows that are all scanned.
FindingsFromOutput(rows) == UNION {RowFindings(r) : r \in ToolRows(rows)}

\* What the program prints is finite, and its rows are records.
ASSUME ReportsAssumption ==
    \A l \in DOMAIN Reports :
        /\ IsFiniteSet(FindingsFromOutput(Reports[l]))
        /\ \A r \in Reports[l] : DOMAIN r = {"item", "tool", "status", "severity", "threats"}

\* parse_output: lines logged before the document are skipped; anything else is an error.
ParseOutput(exit) == exit.output \in {"rows", "log then rows"}

Succeeds(exit) == exit.code = "zero" /\ ParseOutput(exit)

(***************************************************************************)
(* What a run that succeeds may print: every tool scanned, or one that     *)
(* could not be.  That every tool has a row is what the code takes from    *)
(* the program (parse_output: "a list with one object per scanned tool")   *)
(* and never compares with the listing: a tool without a row would pass as *)
(* one with nothing found.                                                 *)
(***************************************************************************)
Printed(listing) ==
    {Reports[listing]} \union
    {(Reports[listing] \ {r}) \union {[r EXCEPT !.status = "failed", !.threats = {}]} :
        r \in ToolRows(Reports[listing])}

\* A full cache is emptied before a listing is added.
Remembered(listing, rows) ==
    LET kept == IF Cardinality(DOMAIN cache) >= MaxCache THEN {} ELSE DOMAIN cache
    IN [l \in kept \union {listing} |-> IF l = listing THEN rows ELSE cache[l]]

(***************************************************************************)
(* run_scanner: a listing in the cache starts no program.  Rows are cached *)
(* before anybody looks whether every tool in them was scanned.            *)
(***************************************************************************)
RunScanner(listing, rows) ==
    /\ UNCHANGED installed
    /\ IF listing \in DOMAIN cache
       THEN rows = cache[listing] /\ UNCHANGED cache
       ELSE /\ \E exit \in Exit : Succeeds(exit)
            /\ rows \in Printed(listing)
            /\ cache' = Remembered(listing, rows)

ScannerFails(listing) ==
    /\ listing \notin DOMAIN cache
    /\ \E exit \in Exit : ~Succeeds(exit)
    /\ UNCHANGED scannerVars
=============================================================================
