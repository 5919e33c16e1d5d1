---------------------------- MODULE MCInspection ----------------------------
(***************************************************************************)
(* Two servers, one of which drifts from a listing in two pages to one     *)
(* with hostile text, the other never stops, repeats a name, has too many  *)
(* tools, is down, or lists a lookalike of the first one's tool.  The      *)
(* plans pin, check, name a server twice, and mix in offline files, broken *)
(* entries and unreadable configurations.                                  *)
(***************************************************************************)
EXTENDS Inspection

NameWords ==
    [search_items |-> {"search", "items"}, search_itemz |-> {"search", "itemz"},
     add_item |-> {"add", "item"}]
NameSkeleton == [n \in DOMAIN NameWords |-> n]
NearNames == {{"search_items", "search_itemz"}}

Text(hits) ==
    [words |-> {"finds", "items"}, hits |-> hits, refs |-> {}, hidden |-> "none",
     ragged |-> FALSE, long |-> FALSE]
Tool(name, hits) ==
    [name |-> name, title |-> {}, description |-> {Text(hits)}, params |-> [p \in {} |-> 0],
     required |-> <<>>, open |-> FALSE, depth |-> "flat", output |-> {},
     outputDepth |-> "flat", hints |-> [h \in {} |-> TRUE], caps |-> <<>>, dropped |-> {},
     meta |-> {}]
Find == Tool("search_items", {})
Add == Tool("add_item", {})

Offer(pages) ==
    [up |-> TRUE, loops |-> FALSE, pages |-> pages, instructions |-> {},
     identity |-> [name |-> "lab", version |-> "1", protocol |-> "p"]]
Good == Offer(<<<<Find>>, <<Add>>>>)
Poisoned == Offer(<<<<Tool("search_items", {"MA-001"})>>, <<Add>>>>)
Preaching == [Offer(<<<<Add>>>>) EXCEPT !.instructions = {Text({"MA-003"})}]
Endless == [Offer(<<<<>>>>) EXCEPT !.loops = TRUE]
Repeats == Offer(<<<<Add>>, <<Add>>>>)
Many == Offer(<<<<Find, Add, Tool("search_itemz", {})>>>>)
Lookalike == Offer(<<<<Tool("search_itemz", {})>>>>)
Down == [Offer(<<>>) EXCEPT !.up = FALSE]

AllOffers ==
    [s \in {"A", "B"} |->
        IF s = "A" THEN {Good, Poisoned, Down}
        ELSE {Endless, Repeats, Many, Lookalike, Preaching}]

Serving(a, b) == [s \in {"A", "B"} |-> IF s = "A" THEN a ELSE b]
AtFirst == {Serving(Good, Lookalike), Serving(Good, Preaching), Serving(Poisoned, Lookalike)}

Entry(name, kind, server) == [name |-> name, kind |-> kind, server |-> server]
Config(client, entries) ==
    [client |-> client, discovered |-> FALSE, readable |-> TRUE, entries |-> entries]
Plan(configs, offline, only, update, fail_on) ==
    [configs |-> configs, offline |-> offline, only |-> only, update |-> update,
     fail_on |-> fail_on]
File1(stem, tools) == [stem |-> stem, tools |-> tools]

Team == Config("config", <<Entry("items", "on", "A"), Entry("old", "off", "B"),
                           Entry("notes", "on", "B")>>)
Mine == [Config("cursor", <<Entry("items", "on", "B")>>) EXCEPT !.discovered = TRUE]
Again == [Config("cursor", <<Entry("items", "on", "A")>>) EXCEPT !.discovered = TRUE]
Unreadable == [Config("code", <<>>) EXCEPT !.readable = FALSE]
Broken == Config("config", <<Entry("items", "on", "A"), Entry("notes", "broken", "B")>>)

NoThreshold == Critical + 1
Refusals ==
    {Plan(<<Team, Unreadable>>, {}, {}, TRUE, High),
     Plan(<<Team>>, {File1("f", <<Add, Add>>)}, {}, TRUE, High),
     Plan(<<Team>>, {}, {<<"old">>}, TRUE, High),
     Plan(<<>>, {}, {}, TRUE, High)}
AllPlans ==
    [i \in {"first", "second"} |->
        IF i = "first"
        THEN {Plan(<<Team>>, {}, {}, TRUE, NoThreshold),
              Plan(<<Again, Mine, [Unreadable EXCEPT !.discovered = TRUE]>>, {}, {}, TRUE, High),
              Plan(<<Broken>>, {File1("items", <<Find>>)}, {}, FALSE, High)} \union Refusals
        ELSE {Plan(<<Team>>, {}, {<<"items">>}, TRUE, Medium)}]

\* What an earlier version of the server left behind.
Pinned == File([l \in {<<"items">>} |->
                    BuildSnapshot(<<Find>>, [name |-> "lab", version |-> "1", protocol |-> "p"])])
Books == {NoFile, Damaged, Pinned}
=============================================================================
