--------------------------- MODULE MCDriftReview ----------------------------
(***************************************************************************)
(* A server with a search tool and an export tool, and what it may turn    *)
(* them into: hostile text in one place or another, one rule or several,   *)
(* wider hints and capabilities, new parameters, another layout, two       *)
(* listings that cannot be fingerprinted, and tools of which the           *)
(* capabilities can only be guessed.                                       *)
(***************************************************************************)
EXTENDS DriftReview

NameWords ==
    [search_items |-> {"search", "items"}, export_rows |-> {"export", "rows"},
     query |-> {"query"}, command |-> {"command"}, path |-> {"path"},
     recipient |-> {"recipient"}, mode |-> {"mode"}, notes |-> {"notes"}, code |-> {"code"},
     ignore_rules |-> {"ignore", "rules"}]
NameSkeleton == [n \in DOMAIN NameWords |-> n]
HostileNames == {<<"ignore_rules", "MA-001">>}

Said(words) ==
    [words |-> words, hits |-> {}, refs |-> {}, hidden |-> "none", ragged |-> FALSE, long |-> FALSE]
Plain == Said({"finds", "items", "by", "name"})
With(hits) == [Plain EXCEPT !.hits = hits]
Filed == Said({"finds", "items", "in", "files"})
Param(type, restricted) == [type |-> type, restricted |-> restricted, description |-> {}]
Word == Param("string", TRUE)
Free == Param("string", FALSE)

Search ==
    [name |-> "search_items", title |-> {}, description |-> {Plain}, params |-> [query |-> Word],
     required |-> <<"query">>, open |-> FALSE, depth |-> "flat", output |-> {},
     outputDepth |-> "flat", hints |-> [readOnlyHint |-> TRUE], caps |-> <<"read">>,
     dropped |-> {}, meta |-> {}]
Export ==
    [Search EXCEPT !.name = "export_rows", !.params = [mode |-> Free], !.required = <<>>,
                   !.hints = [h \in {} |-> TRUE], !.caps = <<"send">>]

\* A tool of which the name tells nothing.
Notes == [Search EXCEPT !.name = "notes", !.hints = [h \in {} |-> TRUE], !.caps = <<"write">>]
ReadOnly == [readOnlyHint |-> TRUE]
Silent == [Export EXCEPT !.params = [h \in {} |-> Word], !.caps = <<>>]

Says(hits) == [Search EXCEPT !.description = {With(hits)}]
Takes(params) == [Search EXCEPT !.params = params]
Hints(hints) == [Search EXCEPT !.hints = hints]

Variants ==
    [plain |-> <<Search>>,
     ragged |-> <<[Search EXCEPT !.description = {[Plain EXCEPT !.ragged = TRUE]}]>>,
     both |-> <<Search, Export>>,
     swapped |-> <<Export, Search>>,
     twice |-> <<Search, Says({"MA-001"})>>,
     bottomless |-> <<[Search EXCEPT !.depth = "bottomless"]>>,
     deep |-> <<[Search EXCEPT !.depth = "deep"]>>,
     word |-> <<Says({"MA-007"})>>,
     prompt |-> <<Says({"MA-002", "MA-007"})>>,
     one |-> <<Says({"MA-001"})>>,
     two |-> <<Says({"MA-001", "MA-003"})>>,
     three |-> <<Says({"MA-001", "MA-003", "MA-005"})>>,
     mixed |-> <<Says({"MA-001", "MA-004", "MA-006"})>>,
     others |-> <<Says({"MA-004", "MA-006", "MA-008"})>>,
     three_with_export |-> <<Says({"MA-001", "MA-003", "MA-005"}), Export>>,
     elsewhere |-> <<[Search EXCEPT
        !.params = [query |-> [Word EXCEPT !.description = {With({"MA-001"})}]]]>>,
     veiled |-> <<[Search EXCEPT !.description = {[Plain EXCEPT !.hidden = "format"]}]>>,
     reversed |-> <<[Search EXCEPT !.description = {[Plain EXCEPT !.hidden = "bidi"]}]>>,
     refers |-> <<[Search EXCEPT !.description = {[Plain EXCEPT !.refs = {"export_rows"}]}], Export>>,
     files |-> <<[Search EXCEPT !.description = {Filed}]>>,
     titled |-> <<[Search EXCEPT !.title = {Said({"files"})}]>>,
     long |-> <<[Search EXCEPT !.description = {[Plain EXCEPT !.long = TRUE]},
                               !.hints = [readOnlyHint |-> FALSE]]>>,
     unhinted |-> <<Hints([h \in {} |-> TRUE])>>,
     wider |-> <<[Hints([readOnlyHint |-> FALSE, openWorldHint |-> TRUE]) EXCEPT
        !.params = [query |-> Word, path |-> Free], !.required = <<"path", "query">>]>>,
     wider_again |-> <<[Hints([readOnlyHint |-> FALSE, openWorldHint |-> TRUE]) EXCEPT
        !.params = [query |-> Word, path |-> Free], !.required = <<"query", "path">>]>>,
     wider_twice |-> <<[Hints([readOnlyHint |-> FALSE, openWorldHint |-> TRUE]) EXCEPT
        !.params = [query |-> Word, path |-> Free], !.required = <<"query", "path", "path">>]>>,
     writer |-> <<[Search EXCEPT !.caps = <<"read", "write">>, !.required = <<>>]>>,
     reordered |-> <<[Search EXCEPT !.caps = <<"write", "read">>, !.required = <<>>]>>,
     shell |-> <<Takes([query |-> Word, command |-> Free])>>,
     send |-> <<Takes([query |-> Word, recipient |-> Word])>>,
     outputs |-> <<[Search EXCEPT !.output = {Plain}]>>,
     noted |-> <<[Search EXCEPT !.meta = {Plain}]>>,
     numbered |-> <<[Search EXCEPT !.dropped = {Plain}]>>,
     smuggled |-> <<[Search EXCEPT !.dropped = {With({"MA-001"})}]>>,
     named |-> <<Takes([query |-> Word, ignore_rules |-> Word])>>,
     with_runner |-> <<Search, [Export EXCEPT !.caps = <<"execute">>]>>,
     with_shell |-> <<Search, [Silent EXCEPT !.params = [command |-> Free]]>>,
     with_silent |-> <<Hints([h \in {} |-> TRUE]), Silent>>,
     with_silent_path |-> <<Hints([h \in {} |-> TRUE]), [Silent EXCEPT !.params = [path |-> Free]]>>,
     notes |-> <<Notes>>,
     notes_claim |-> <<[Notes EXCEPT !.hints = ReadOnly]>>,
     notes_code |-> <<[Notes EXCEPT !.hints = ReadOnly, !.params = [query |-> Word, code |-> Word]]>>,
     notes_shell |-> <<[Notes EXCEPT !.params = [query |-> Word, command |-> Free]]>>,
     renamed |-> <<Search>>,
     patched |-> <<Search>>]

VersionNames == DOMAIN Variants
Identities ==
    [v \in VersionNames |->
        [name |-> IF v = "renamed" THEN "other" ELSE "lab",
         version |-> IF v = "patched" THEN "1.1" ELSE "1.0", protocol |-> "2025-06-18"]]
FirstVersions == {"both", "unhinted", "elsewhere", "three", "notes"}

(***************************************************************************)
(* The shape of what is compared and of a report.  Checking it computes    *)
(* each of them once, before the run looks them up.                        *)
(***************************************************************************)
ASSUME SnapshotsAreListed ==
    Snapshots \in [Comparable -> [identity : Range(Identities),
                                  tools : {Snapshots[v].tools : v \in Comparable}]]
ASSUME ReportsAreGraded ==
    Reports \in [Comparable -> [Comparable ->
        [drifted : BOOLEAN, severity : SeverityRank,
         action : {"none", "review", "block_until_reviewed", "quarantine"},
         added : SUBSET STRING, removed : SUBSET STRING, changes : SUBSET (STRING \X STRING),
         identity : SUBSET {"name", "version", "protocol"},
         suspicious : SUBSET [rule : STRING, category : STRING, severity : Medium..Critical,
                              tool : DOMAIN NameWords, at : Seq(STRING)]]]]
=============================================================================
