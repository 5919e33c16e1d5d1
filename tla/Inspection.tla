----------------------------- MODULE Inspection -----------------------------
(***************************************************************************)
(* guardbench inspect: cli/main.py (inspect_command), inspection/configs,  *)
(* client, service and pins.  Invocations that share one pin file read     *)
(* configurations, list the tools of the servers they name, page by page   *)
(* and several at once, analyze the listings, compare them with the pins   *)
(* and may pin what they saw.  A server may change or fail at any time,    *)
(* an invocation may be killed at any time.                                *)
(*                                                                         *)
(* A server is shown, and pinned, under a label: its name, with the client *)
(* of the configuration appended when the name is taken.                   *)
(***************************************************************************)
EXTENDS Drift

CONSTANTS
    Invocation,     \* the invocations of the command
    Plans,          \* the arguments each of them may be given
    Server,         \* the servers behind the configurations
    Offers,         \* what each of them may be serving
    FirstServing,   \* what they may be serving at first
    FirstBooks,     \* what the pin file may hold at first
    MaxPages,       \* MAX_LIST_PAGES
    MaxTools,       \* MAX_TOOLS
    Concurrency,    \* how many servers one invocation lists at once
    MaxChanges,     \* bound: how often servers change
    MaxKills        \* bound: how many invocations are killed

(***************************************************************************)
(* The pin file: absent, a book, or damaged: not one, or one whose hashes  *)
(* do not match what it holds (_check_integrity).                          *)
(***************************************************************************)
NoFile == [kind |-> "absent", book |-> <<>>]
Damaged == [kind |-> "damaged", book |-> <<>>]
File(book) == [kind |-> "book", book |-> book]

\* build_snapshot's record: an identity and the normalised tools by name.
Identity(info) == [name |-> info.name, version |-> info.version, protocol |-> info.protocol]
IsSnapshot(s) ==
    /\ s = [identity |-> s.identity, tools |-> s.tools]
    /\ s.identity = Identity(s.identity)
    /\ s.tools = [n \in DOMAIN s.tools |-> s.tools[n]]

ASSUME BookAssumption ==
    \A f \in FirstBooks :
        \/ f \in {NoFile, Damaged}
        \/ f = File(f.book) /\ \A l \in DOMAIN f.book : IsSnapshot(f.book[l])
ASSUME ServingAssumption ==
    \A f \in FirstServing : DOMAIN f = Server /\ \A s \in Server : f[s] \in Offers[s]
ASSUME LimitAssumption == {MaxPages, MaxTools, Concurrency} \subseteq Nat \ {0}

\* A list of something; the tools of a listing are definitions as the traversal finds them.
IsList(s) == s \in Seq(Range(s))
IsListing(tools) == IsList(tools) /\ \A t \in Range(tools) : WellFormed(t)

ASSUME OfferAssumption ==
    \A s \in Server : \A offer \in Offers[s] : offer.up =>
        /\ offer.identity = Identity(offer.identity)
        /\ offer.instructions \subseteq ToolText
        /\ IsList(offer.pages) /\ \A page \in Range(offer.pages) : IsListing(page)
        /\ offer.loops => offer.pages # <<>>
ASSUME PlanAssumption ==
    /\ DOMAIN Plans = Invocation
    /\ \A p \in UNION Range(Plans) :
        /\ p.update \in BOOLEAN /\ p.fail_on \in Low..(Critical + 1)
        /\ IsList(p.configs) /\ \A c \in Range(p.configs) : c.readable => IsList(c.entries)
        /\ \A c \in Range(p.configs) : c.readable =>
                \A e \in Range(c.entries) : e.kind = "on" => e.server \in Server
        /\ \A f \in p.offline : IsListing(f.tools)

VARIABLES
    serving,    \* what each server offers now
    file,       \* the pin file
    temp,       \* the invocations whose temporary file lies beside it
    pc,         \* where an invocation stands
    plan,       \* its arguments
    pins,       \* the pins it loaded
    fetch,      \* how far it is with each of its servers, by label
    report,     \* what it found out about each label
    exit,       \* its exit status, "none" before it ends
    changes,    \* how often servers have changed
    books,      \* history: everything the pin file has held
    shown       \* history: the snapshots reported so far, with their labels

vars == <<serving, file, temp, pc, plan, pins, fetch, report, exit, changes, books, shown>>
invocation == <<plan, pins, fetch, report, exit>>

-----------------------------------------------------------------------------
(***************************************************************************)
(* load_config, _unique_specs and _offline_listing.  A configuration is    *)
(* the file of a client, named on the command line or discovered; an entry *)
(* is on, off (disabled) or broken (parse_entry raises, the entry becomes  *)
(* a problem of the load and the others go on).                            *)
(***************************************************************************)
Entries1(config) ==
    IF ~config.readable THEN <<>>
    ELSE LET taken(e) == IF e.kind = "on"
                         THEN <<[name |-> e.name, server |-> e.server, client |-> config.client]>>
                         ELSE <<>>
         IN FlattenSeq([i \in DOMAIN config.entries |-> taken(config.entries[i])])
Loaded(p) == FlattenSeq([i \in DOMAIN p.configs |-> Entries1(p.configs[i])])

\* Plausible bug: a name that is taken already is used again.
FreshLabelByName(taken, e) == <<e.name>>

FreshLabel(taken, e) ==
    IF <<e.name>> \notin taken THEN <<e.name>>
    ELSE IF <<e.name, e.client>> \notin taken THEN <<e.name, e.client>>
    ELSE LET free == {n \in 2..(Cardinality(taken) + 2) : <<e.name, e.client, n>> \notin taken}
         IN <<e.name, e.client, CHOOSE n \in free : \A m \in free : n <= m>>

\* Labels in the order of the configurations: the first of a name keeps it.
WithSpec(specs, e) ==
    Append(specs, [label |-> FreshLabel({s.label : s \in Range(specs)}, e), server |-> e.server])
UniqueSpecs(p) ==
    LET specs[n \in 0..Len(Loaded(p))] ==
            IF n = 0 THEN <<>> ELSE WithSpec(specs[n - 1], Loaded(p)[n])
    IN specs[Len(Loaded(p))]

Selected(p, label) == p.only = {} \/ label \in p.only
AllSpecs == [p \in UNION Range(Plans) |-> {s \in Range(UniqueSpecs(p)) : Selected(p, s.label)}]
Specs(p) == AllSpecs[p]
Labels(p) == {s.label : s \in Specs(p)}
ServerOf(p, label) == (CHOOSE s \in Specs(p) : s.label = label).server

OfflineLabels(p) == {<<f.stem>> : f \in {g \in p.offline : Selected(p, <<g.stem>>)}}
OfflineIdentity(label) == [name |-> label[1], version |-> "none", protocol |-> "none"]
OfflineTools(p, label) == (CHOOSE f \in p.offline : <<f.stem>> = label).tools

\* Why the command ends before it has listed anything.
Refused(p) ==
    \/ \E i \in DOMAIN p.configs : ~p.configs[i].readable /\ ~p.configs[i].discovered
    \/ \E f \in p.offline : Len(f.tools) > MaxTools \/ ~NamesOnce(f.tools)
    \/ ~(p.only \subseteq {s.label : s \in Range(UniqueSpecs(p))} \union {<<f.stem>> : f \in p.offline})
    \/ Specs(p) = {} /\ OfflineLabels(p) = {}

-----------------------------------------------------------------------------
(***************************************************************************)
(* build_report.  A listing that was not obtained is an error; so is one   *)
(* that cannot be fingerprinted.  An offline file goes over a server that  *)
(* has its label.                                                          *)
(***************************************************************************)
Unheard == [state |-> "waiting", server |-> "none", page |-> 0, tools |-> <<>>, instructions |-> {},
            identity |-> OfflineIdentity(<<"none">>), steady |-> TRUE]

\* What is known of a label: whether it was listed, the tools, identity and instructions.
Heard(p, got, label) ==
    IF label \in OfflineLabels(p)
    THEN [state |-> "listed", tools |-> OfflineTools(p, label), identity |-> OfflineIdentity(label),
          instructions |-> {}]
    ELSE got[label]

ServerOk(p, got, label) ==
    Heard(p, got, label).state = "listed" /\ CanSnapshot(Heard(p, got, label).tools)
SnapshotOf(p, got, label) ==
    BuildSnapshot(Heard(p, got, label).tools, Heard(p, got, label).identity)

PinStatus(p, got, label, book) ==
    IF ~ServerOk(p, got, label) THEN "not_checked"
    ELSE IF label \notin DOMAIN book THEN "not_pinned"
    ELSE IF CompareSnapshots(book[label], SnapshotOf(p, got, label)).drifted THEN "drifted"
    ELSE "matches_pin"

\* The findings that say the server's instructions, or a pinned server's tools, are not in order.
InstructionFindings(heard) ==
    UNION {{[f EXCEPT !.category = "tool_poisoning"] : f \in AnalyzeText(t, <<"instructions">>)} :
           t \in heard.instructions}
DriftFindings(book, snapshot) ==
    LET r == CompareSnapshots(book, snapshot) IN {f \in {DriftFinding(r)} : r.drifted}

AnalyzeServers(servers) ==
    (UNION {AnalyzeServer(servers[s]) : s \in DOMAIN servers})
        \union DetectShadowing(servers, SetToSeq(DOMAIN servers))

Findings(p, got, book) ==
    LET ok == {l \in Labels(p) \union OfflineLabels(p) : ServerOk(p, got, l)}
    IN AnalyzeServers([l \in ok |-> ByName(Heard(p, got, l).tools)])
       \union (UNION {InstructionFindings(Heard(p, got, l)) : l \in ok})
       \union (UNION {DriftFindings(book[l], SnapshotOf(p, got, l)) : l \in ok \cap DOMAIN book})

BuildReport(p, got, book) ==
    [status |-> [l \in Labels(p) \union OfflineLabels(p) |-> PinStatus(p, got, l, book)],
     snapshots |-> [l \in {m \in Labels(p) \union OfflineLabels(p) : ServerOk(p, got, m)} |->
                        SnapshotOf(p, got, l)],
     highest |-> MaxSeverity({f.severity : f \in Findings(p, got, book)}, Info)]

NoReport == [status |-> <<>>, snapshots |-> <<>>, highest |-> Info]

\* The threshold "none" is above every severity.
ExitStatus(p, r) ==
    IF (\E l \in DOMAIN r.status : r.status[l] = "not_checked") \/ r.highest >= p.fail_on
    THEN "1" ELSE "0"

\* Plausible bug: the file is rebuilt from this inspection alone.
RepinnedAnew(book, r) == r.snapshots

\* PinFile.pin for every server whose tools were fingerprinted: the others keep what they had.
Repinned(book, r) ==
    [l \in DOMAIN book \union DOMAIN r.snapshots |->
        IF l \in DOMAIN r.snapshots THEN r.snapshots[l] ELSE book[l]]

-----------------------------------------------------------------------------
Init ==
    /\ serving \in FirstServing
    /\ file \in FirstBooks
    /\ temp = {}
    /\ pc = [i \in Invocation |-> "idle"]
    /\ plan = [i \in Invocation |-> CHOOSE p \in Plans[i] : TRUE]
    /\ pins = [i \in Invocation |-> <<>>]
    /\ fetch = [i \in Invocation |-> <<>>]
    /\ report = [i \in Invocation |-> NoReport]
    /\ exit = [i \in Invocation |-> "none"]
    /\ changes = 0
    /\ books = {file}
    /\ shown = {}

End(i, status) ==
    /\ pc' = [pc EXCEPT ![i] = "ended"]
    /\ exit' = [exit EXCEPT ![i] = status]

\* The arguments are read, and the pin file; either may end the command.
Start(i, p) ==
    /\ pc[i] = "idle"
    /\ plan' = [plan EXCEPT ![i] = p]
    /\ IF Refused(p) \/ file.kind = "damaged"
       THEN End(i, "1") /\ UNCHANGED <<pins, fetch>>
       ELSE /\ pc' = [pc EXCEPT ![i] = "listing"]
            /\ pins' = [pins EXCEPT ![i] = file.book]
            /\ fetch' = [fetch EXCEPT ![i] =
                            [l \in Labels(p) |-> [Unheard EXCEPT !.server = ServerOf(p, l)]]]
            /\ UNCHANGED exit
    /\ UNCHANGED <<serving, file, temp, report, changes, books, shown>>

Open(i) == {l \in DOMAIN fetch[i] : fetch[i][l].state = "open"}
Fetch(i, l, answer) == fetch' = [fetch EXCEPT ![i][l] = answer]
ListingOnly == UNCHANGED <<serving, file, temp, pc, plan, pins, report, exit, changes, books, shown>>

\* Plausible bug: a server that fails is asked again.
FailedRetries(got) == [Unheard EXCEPT !.server = got.server]

\* An InspectionError takes the place of the listing.
Failed(got) == [Unheard EXCEPT !.state = "failed", !.server = got.server]

\* list_many and the handshake of _list: identity and instructions come with the connection.
Connect(i, l) ==
    /\ pc[i] = "listing" /\ fetch[i][l].state = "waiting"
    /\ Cardinality(Open(i)) < Concurrency
    /\ LET offer == serving[fetch[i][l].server]
       IN Fetch(i, l, IF offer.up
                      THEN [fetch[i][l] EXCEPT !.state = "open",
                                               !.identity = Identity(offer.identity),
                                               !.instructions = offer.instructions]
                      ELSE Failed(fetch[i][l]))
    /\ ListingOnly

\* Plausible bug: a listing that goes on for too long is cut short.
NextPageCut(got, offer) ==
    LET page == got.page + 1
        more == (offer.loops \/ page < Len(offer.pages)) /\ page < MaxPages
    IN IF ~offer.up \/ (~offer.loops /\ page > Len(offer.pages)) THEN Failed(got)
       ELSE [got EXCEPT !.state = IF more THEN "open" ELSE "listed", !.page = page,
                        !.tools = got.tools \o offer.pages[IF offer.loops THEN 1 ELSE page]]

\* One tools/list.  A server that changed in between may go on with the pages of another listing.
NextPage(got, offer) ==
    LET page == got.page + 1
        tools == got.tools \o offer.pages[IF offer.loops THEN 1 ELSE page]
        more == offer.loops \/ page < Len(offer.pages)
    IN IF \/ ~offer.up \/ (~offer.loops /\ page > Len(offer.pages))
          \/ Len(tools) > MaxTools
          \/ more /\ page = MaxPages
       THEN Failed(got)
       ELSE [got EXCEPT !.state = IF more THEN "open" ELSE "listed",
                        !.page = page, !.tools = tools]

ListPage(i, l) ==
    /\ pc[i] = "listing" /\ fetch[i][l].state = "open"
    /\ Fetch(i, l, NextPage(fetch[i][l], serving[fetch[i][l].server]))
    /\ ListingOnly

\* list_server_tools: the whole exchange is bounded by --timeout.
TimeOut(i, l) ==
    /\ pc[i] = "listing" /\ fetch[i][l].state = "open"
    /\ Fetch(i, l, Failed(fetch[i][l]))
    /\ ListingOnly

Heeded(i) == \A l \in DOMAIN fetch[i] : fetch[i][l].state \in {"listed", "failed"}

Report(i) ==
    /\ pc[i] = "listing" /\ Heeded(i)
    /\ \E r \in {BuildReport(plan[i], fetch[i], pins[i])} :
          /\ report' = [report EXCEPT ![i] = r]
          /\ shown' = shown \union {<<l, r.snapshots[l]>> : l \in DOMAIN r.snapshots}
          /\ IF plan[i].update
             THEN pc' = [pc EXCEPT ![i] = "saving"] /\ UNCHANGED exit
             ELSE End(i, ExitStatus(plan[i], r))
    /\ UNCHANGED <<serving, file, temp, plan, pins, fetch, changes, books>>

\* Plausible bug: the pin file itself is opened for writing, and holds nothing at first.
WriteTempInPlace(i) ==
    /\ pc[i] = "saving"
    /\ pc' = [pc EXCEPT ![i] = "replacing"]
    /\ file' = Damaged
    /\ UNCHANGED <<serving, temp, invocation, changes, books, shown>>

\* save_pins: all of the book goes to a temporary file, which then takes the place of the old one.
WriteTemp(i) ==
    /\ pc[i] = "saving"
    /\ pc' = [pc EXCEPT ![i] = "replacing"]
    /\ temp' = temp \union {i}
    /\ UNCHANGED <<serving, file, invocation, changes, books, shown>>

Replace(i) ==
    /\ pc[i] = "replacing"
    /\ file' = File(Repinned(pins[i], report[i]))
    /\ books' = books \union {file'}
    /\ temp' = temp \ {i}
    /\ End(i, ExitStatus(plan[i], report[i]))
    /\ UNCHANGED <<serving, plan, pins, fetch, report, changes, shown>>

\* An error on the way, such as a full disk: the temporary file is removed and the command fails.
SaveFails(i) ==
    /\ pc[i] \in {"saving", "replacing"}
    /\ temp' = temp \ {i}
    /\ End(i, "1")
    /\ UNCHANGED <<serving, file, plan, pins, fetch, report, changes, books, shown>>

\* What was in memory is gone; what lies on the disk stays there, the temporary file too.
Kill(i) ==
    /\ pc[i] \in {"listing", "saving", "replacing"}
    /\ Cardinality({j \in Invocation : pc[j] = "killed"}) < MaxKills
    /\ pc' = [pc EXCEPT ![i] = "killed"]
    /\ pins' = [pins EXCEPT ![i] = <<>>]
    /\ fetch' = [fetch EXCEPT ![i] = <<>>]
    /\ report' = [report EXCEPT ![i] = NoReport]
    /\ UNCHANGED <<serving, file, temp, plan, exit, changes, books, shown>>

\* The environment: a server comes to offer something else, or goes away.
Change(s) ==
    /\ changes < MaxChanges
    /\ \E offer \in Offers[s] \ {serving[s]} : serving' = [serving EXCEPT ![s] = offer]
    /\ fetch' = [i \in Invocation |-> [l \in DOMAIN fetch[i] |->
                    IF fetch[i][l].server = s /\ fetch[i][l].state = "open"
                    THEN [fetch[i][l] EXCEPT !.steady = FALSE] ELSE fetch[i][l]]]
    /\ changes' = changes + 1
    /\ UNCHANGED <<file, temp, pc, plan, pins, report, exit, books, shown>>

Next ==
    \/ \E i \in Invocation :
        \/ \E p \in Plans[i] : Start(i, p)
        \/ \E l \in DOMAIN fetch[i] : Connect(i, l) \/ ListPage(i, l) \/ TimeOut(i, l)
        \/ Report(i) \/ WriteTemp(i) \/ Replace(i) \/ SaveFails(i) \/ Kill(i)
    \/ \E s \in Server : Change(s)

Spec == Init /\ [][Next]_vars

\* anyio.fail_after ends every exchange and gives its place in the limiter to a server that waits.
Exchange(i) == \E l \in DOMAIN fetch[i] : Connect(i, l) \/ TimeOut(i, l)
FairSpec == Spec /\ \A i \in Invocation : WF_vars(Exchange(i))

-----------------------------------------------------------------------------
\* The shape of the state; an invocation that has ended has a status, and only it.
TypeOK ==
    /\ \A s \in Server : serving[s] \in Offers[s]
    /\ file.kind \in {"absent", "damaged", "book"}
    /\ pc \in [Invocation -> {"idle", "listing", "saving", "replacing", "ended", "killed"}]
    /\ \A i \in Invocation :
        /\ pc[i] = "ended" <=> exit[i] # "none"
        /\ i \in temp => pc[i] \in {"replacing", "killed"}
        /\ Cardinality(Open(i)) <= Concurrency
    /\ file \in books

(***************************************************************************)
(* cli/main.py: what an exit status of 0 stands for.  Every server that a  *)
(* configuration turns on (and --server selects) was listed to the end,    *)
(* unless an offline file has its label, nothing it advertised reaches     *)
(* --fail-on, and neither does what changed since it was pinned.           *)
(***************************************************************************)
CleanExitMeansChecked ==
    \A i \in Invocation : exit[i] = "0" =>
        /\ plan[i].only = {} => \A e \in Range(Loaded(plan[i])) :
            \E l \in Labels(plan[i]) : /\ fetch[i][l].server = e.server
                                       /\ \/ fetch[i][l].state = "listed"
                                          \/ l \in OfflineLabels(plan[i])
        /\ \A l \in DOMAIN report[i].status :
            /\ l \in DOMAIN report[i].snapshots
            /\ LET now == report[i].snapshots[l]
               IN /\ \A n \in DOMAIN now.tools : \A f \in AnalyzeTool(now.tools[n], now.tools) :
                        f.severity < plan[i].fail_on
                  /\ l \in DOMAIN pins[i] =>
                        CompareSnapshots(pins[i][l], now).severity < plan[i].fail_on

(***************************************************************************)
(* inspection/client.py: a listing that was accepted is all of what the    *)
(* server advertises, if it has not changed meanwhile; one that goes on    *)
(* for too long, or is too large, is refused and never cut short.          *)
(***************************************************************************)
AcceptedIsComplete ==
    \A i \in Invocation : \A l \in DOMAIN fetch[i] :
        LET got == fetch[i][l]
        IN got.state = "listed" =>
            /\ Len(got.tools) <= MaxTools
            /\ got.steady => \E offer \in Offers[got.server] :
                /\ offer.up /\ ~offer.loops
                /\ <<got.tools, got.identity>> = <<FlattenSeq(offer.pages), offer.identity>>

(***************************************************************************)
(* --update-pins never changes an approved fingerprint behind the user's   *)
(* back: an entry that is not as it was in the book the invocation read is *)
(* one that its report calls drifted or not pinned.  A server that could   *)
(* not be listed keeps its pin, and so does one that was not asked for.    *)
(***************************************************************************)
Same(old, new, l) == l \in DOMAIN old /\ l \in DOMAIN new /\ old[l] = new[l]
NoSilentRepin ==
    [][\A i \in Invocation : pc[i] = "replacing" /\ exit'[i] # "none" /\ file' # file =>
        \A l \in DOMAIN pins[i] \union DOMAIN file'.book :
            \/ Same(pins[i], file'.book, l)
            \/ /\ l \in DOMAIN report[i].status \cap DOMAIN file'.book
               /\ report[i].status[l] \in {"drifted", "not_pinned"}]_vars

(***************************************************************************)
(* inspection/pins.py: however invocations overlap and die, the file is    *)
(* always the whole of what one of them saved, and a damaged file stays as *)
(* it is (PinBook).                                                        *)
(***************************************************************************)
PB == INSTANCE PinBook WITH
        book <- file.book, readable <- file.kind # "damaged",
        past <- {b.book : b \in books}, shown <- shown
ImplementsPinBook == PB!Spec

\* Every listing comes to an end, and with it every wait for a place, whatever the servers do.
ListingsEnd == \A i \in Invocation : pc[i] = "listing" ~> (pc[i] # "listing" \/ Heeded(i))
=============================================================================
