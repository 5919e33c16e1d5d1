-------------------------- MODULE InspectionProofs --------------------------
(***************************************************************************)
(* What guardbench inspect promises for any servers, plans and number of   *)
(* invocations: the pin file is always the whole of what one of them       *)
(* saved, a save changes only what its report said had changed, a listing  *)
(* that is accepted is the whole of what its server offers, and an exit    *)
(* status of 0 means that everything asked for was listed and looked at.   *)
(***************************************************************************)
EXTENDS Inspection, InductionFacts

Active == {"listing", "saving", "replacing"}
Saving == {"saving", "replacing"}

\* Every variable that an invocation owns has a value for each invocation.
Domains ==
    /\ DOMAIN serving = Server
    /\ DOMAIN plan = Invocation /\ DOMAIN pins = Invocation /\ DOMAIN fetch = Invocation
    /\ DOMAIN report = Invocation /\ DOMAIN exit = Invocation

\* What is known of a server is a record, and few servers are being listed.
Fetching ==
    \A i \in Invocation :
        /\ IsFiniteSet(Open(i))
        /\ pc[i] = "listing" => DOMAIN fetch[i] = Labels(plan[i])
        /\ \A l \in DOMAIN fetch[i] :
            /\ {"state", "identity", "steady"} \subseteq DOMAIN fetch[i][l]
            /\ fetch[i][l].identity = Identity(fetch[i][l].identity)

\* Whoever has read the pin file read a version of it, and it is not damaged since.
Loading ==
    /\ \A b \in books : \A l \in DOMAIN b.book : IsSnapshot(b.book[l])
    /\ \A i \in Invocation : pc[i] \in Active =>
        file.kind # "damaged" /\ \E b \in books : pins[i] = b.book

\* What a report says of a server that it is about to pin.
Told(pinned, r, l, seen) ==
    /\ <<l, r.snapshots[l]>> \in seen
    /\ IsSnapshot(r.snapshots[l])
    /\ l \in DOMAIN r.status
    /\ \/ r.status[l] \in {"drifted", "not_pinned"}
       \/ l \in DOMAIN pinned /\ pinned[l] = r.snapshots[l]
Reporting ==
    \A i \in Invocation : pc[i] \in Saving =>
        \A l \in DOMAIN report[i].snapshots : Told(pins[i], report[i], l, shown)

IInv == TypeOK /\ Domains /\ Fetching /\ Loading /\ Reporting

-----------------------------------------------------------------------------
(***************************************************************************)
(* The report.                                                             *)
(***************************************************************************)

\* Snapshots between which compare_snapshots finds no difference are the same.
LEMMA SameWhenNotDrifted ==
    ASSUME NEW s, NEW t, IsSnapshot(s), IsSnapshot(t), ~CompareSnapshots(s, t).drifted
    PROVE  s = t
<1>1. Grades(s, t) = {}
  BY DEF CompareSnapshots, ReportOf
<1>2. Added(s, t) = {}
  BY <1>1 DEF Grades
<1>3. Removed(s, t) = {}
  BY <1>1 DEF Grades
<1>4. Changed(s, t) = {}
  BY <1>1 DEF Grades
<1>5. IdentityChanges(s.identity, t.identity) = {}
  BY <1>1 DEF Grades
<1>6. DOMAIN s.tools = DOMAIN t.tools
  BY <1>2, <1>3 DEF Added, Removed
<1>7. \A n \in DOMAIN s.tools : s.tools[n] = t.tools[n]
  BY <1>4, <1>6 DEF Changed
<1>8. s.tools = t.tools
  BY <1>6, <1>7 DEF IsSnapshot
<1>9. \A f \in {"name", "version", "protocol"} : s.identity[f] = t.identity[f]
  <2>1. \A c \in {<<"name", High>>, <<"version", Low>>, <<"protocol", Low>>} :
            s.identity[c[1]] = t.identity[c[1]]
    BY <1>5 DEF IdentityChanges
  <2>2. <<"name", High>>[1] = "name" /\ <<"version", Low>>[1] = "version"
        /\ <<"protocol", Low>>[1] = "protocol"
    OBVIOUS
  <2> QED BY <2>1, <2>2
<1>10. s.identity = t.identity
  BY <1>9 DEF IsSnapshot, Identity
<1> QED BY <1>8, <1>10 DEF IsSnapshot

LEMMA SnapshotsAreShaped ==
    ASSUME NEW listing, NEW id, id = Identity(id)
    PROVE  IsSnapshot(BuildSnapshot(listing, id))
<1> DEFINE tools == [n \in DOMAIN ByName(listing) |-> NormalizeTool(ByName(listing)[n])]
<1>1. BuildSnapshot(listing, id) = [identity |-> id, tools |-> tools]
  BY DEF BuildSnapshot
<1>2. tools = [n \in DOMAIN tools |-> tools[n]]
  OBVIOUS
<1> HIDE DEF tools
<1> QED BY <1>1, <1>2 DEF IsSnapshot

\* A report tells of every snapshot it shows whether it differs from the pin.
LEMMA ReportsTell ==
    ASSUME NEW p, NEW got, NEW book, NEW seen,
           \A l \in Labels(p) : got[l].identity = Identity(got[l].identity),
           \A l \in DOMAIN book : IsSnapshot(book[l]),
           \A l \in DOMAIN BuildReport(p, got, book).snapshots :
                <<l, BuildReport(p, got, book).snapshots[l]>> \in seen
    PROVE  \A l \in DOMAIN BuildReport(p, got, book).snapshots :
                Told(book, BuildReport(p, got, book), l, seen)
<1> DEFINE r == BuildReport(p, got, book)
<1> SUFFICES ASSUME NEW l \in DOMAIN r.snapshots PROVE Told(book, r, l, seen)
  OBVIOUS
<1>1. /\ l \in Labels(p) \union OfflineLabels(p) /\ ServerOk(p, got, l)
      /\ r.snapshots[l] = SnapshotOf(p, got, l)
  BY DEF BuildReport
<1>2. l \in DOMAIN r.status /\ r.status[l] = PinStatus(p, got, l, book)
  BY <1>1 DEF BuildReport
<1>3. Heard(p, got, l).identity = Identity(Heard(p, got, l).identity)
  BY <1>1 DEF Heard, OfflineIdentity, Identity
<1>4. IsSnapshot(r.snapshots[l])
  BY <1>1, <1>3, SnapshotsAreShaped DEF SnapshotOf
<1>5. CASE l \notin DOMAIN book
  BY <1>1, <1>2, <1>4, <1>5 DEF PinStatus, Told
<1>6. CASE l \in DOMAIN book /\ CompareSnapshots(book[l], SnapshotOf(p, got, l)).drifted
  BY <1>1, <1>2, <1>4, <1>6 DEF PinStatus, Told
<1>7. CASE l \in DOMAIN book /\ ~CompareSnapshots(book[l], SnapshotOf(p, got, l)).drifted
  <2>1. book[l] = r.snapshots[l]
    BY <1>1, <1>4, <1>7, SameWhenNotDrifted
  <2> QED BY <1>4, <1>7, <1>2, <2>1 DEF Told
<1> QED BY <1>5, <1>6, <1>7

-----------------------------------------------------------------------------
(***************************************************************************)
(* Every step keeps the invariant.                                         *)
(***************************************************************************)
LEMMA Initially == Init => IInv
<1> SUFFICES ASSUME Init PROVE IInv
  OBVIOUS
<1>1. \A i \in Invocation : DOMAIN fetch[i] = {} /\ Open(i) = {}
  BY DEF Init, Open
<1>2. file.kind \in {"absent", "damaged", "book"}
  BY BookAssumption DEF Init, NoFile, Damaged, File
<1>3. TypeOK
  <2>1. \A i \in Invocation : Cardinality(Open(i)) <= Concurrency
    BY <1>1, FS_EmptySet, LimitAssumption
  <2> QED BY <1>2, <2>1, ServingAssumption DEF Init, TypeOK
<1>4. Domains
  BY ServingAssumption DEF Init, Domains
<1>5. Fetching
  BY <1>1, FS_EmptySet DEF Fetching, Init
<1>6. Loading
  <2>1. \A l \in DOMAIN file.book : IsSnapshot(file.book[l])
    BY BookAssumption DEF Init, NoFile, Damaged, File
  <2> QED BY <2>1 DEF Init, Loading, Active
<1>7. Reporting
  BY DEF Init, Reporting, Saving
<1> QED BY <1>3, <1>4, <1>5, <1>6, <1>7 DEF IInv

\* What an invocation that opens nothing has open stays within the limit.
LEMMA FewerOpen ==
    ASSUME NEW S, NEW T, IsFiniteSet(S), T \subseteq S, Cardinality(S) <= Concurrency
    PROVE  IsFiniteSet(T) /\ Cardinality(T) <= Concurrency
<1>1. Concurrency \in Nat
  BY LimitAssumption
<1> QED BY <1>1, FS_Subset, FS_CardinalityType

LEMMA OneMoreOpen ==
    ASSUME NEW S, NEW T, NEW l, IsFiniteSet(S), T \subseteq S \union {l}, Cardinality(S) < Concurrency
    PROVE  IsFiniteSet(T) /\ Cardinality(T) <= Concurrency
<1>1. Concurrency \in Nat
  BY LimitAssumption
<1>2. IsFiniteSet(S \union {l}) /\ Cardinality(S \union {l}) <= Cardinality(S) + 1
  <2>1. Cardinality(S) \in Nat
    BY FS_CardinalityType
  <2>2. /\ IsFiniteSet(S \union {l})
        /\ Cardinality(S \union {l}) = IF l \in S THEN Cardinality(S) ELSE Cardinality(S) + 1
    BY FS_AddElement
  <2> QED BY <2>1, <2>2
<1> QED BY <1>1, <1>2, FS_Subset, FS_CardinalityType

LEMMA StartKeeps ==
    ASSUME IInv, NEW i \in Invocation, NEW p, Start(i, p)
    PROVE  IInv'
<1> DEFINE waiting == [l \in Labels(p) |-> [Unheard EXCEPT !.server = ServerOf(p, l)]]
<1>1. \A l \in Labels(p) : /\ waiting[l].state = "waiting"
                            /\ {"state", "identity", "steady"} \subseteq DOMAIN waiting[l]
                            /\ waiting[l].identity = Identity(waiting[l].identity)
  BY DEF Unheard, OfflineIdentity, Identity
<1>2. \/ /\ pc' = [pc EXCEPT ![i] = "ended"] /\ exit' = [exit EXCEPT ![i] = "1"]
         /\ UNCHANGED <<pins, fetch>>
      \/ /\ file.kind # "damaged"
         /\ pc' = [pc EXCEPT ![i] = "listing"] /\ UNCHANGED exit
         /\ pins' = [pins EXCEPT ![i] = file.book]
         /\ fetch' = [fetch EXCEPT ![i] = waiting]
  BY DEF Start, End
<1>3. /\ pc[i] = "idle" /\ plan' = [plan EXCEPT ![i] = p]
      /\ UNCHANGED <<serving, file, temp, report, changes, books, shown>>
  BY DEF Start
<1> HIDE DEF waiting
<1>4. Domains'
  BY <1>2, <1>3 DEF IInv, Domains
<1>5. \A j \in Invocation : Open(j)' \subseteq Open(j)
  <2> SUFFICES ASSUME NEW j \in Invocation, NEW l \in Open(j)' PROVE l \in Open(j)
    OBVIOUS
  <2>1. fetch'[j] = fetch[j] \/ (j = i /\ fetch'[j] = waiting)
    BY <1>2 DEF IInv, Domains
  <2>2. DOMAIN waiting = Labels(p)
    BY DEF waiting
  <2> QED BY <1>1, <2>1, <2>2 DEF Open
<1>6. \A j \in Invocation : IsFiniteSet(Open(j)') /\ Cardinality(Open(j)') <= Concurrency
  BY <1>5, FewerOpen DEF IInv, TypeOK, Fetching
<1>7. TypeOK'
  BY <1>2, <1>3, <1>6 DEF IInv, TypeOK, Domains
<1>8. Fetching'
  <2> SUFFICES ASSUME NEW j \in Invocation
               PROVE  /\ pc'[j] = "listing" => DOMAIN fetch'[j] = Labels(plan'[j])
                      /\ \A l \in DOMAIN fetch'[j] :
                            /\ {"state", "identity", "steady"} \subseteq DOMAIN fetch'[j][l]
                            /\ fetch'[j][l].identity = Identity(fetch'[j][l].identity)
    BY <1>6 DEF Fetching
  <2>1. DOMAIN waiting = Labels(p)
    BY DEF waiting
  <2>2. CASE j = i
    BY <1>1, <1>2, <1>3, <2>1, <2>2 DEF IInv, TypeOK, Domains, Fetching
  <2>3. CASE j # i
    BY <1>2, <1>3, <2>3 DEF IInv, TypeOK, Domains, Fetching
  <2> QED BY <2>2, <2>3
<1>9. Loading'
  BY <1>2, <1>3 DEF IInv, TypeOK, Domains, Loading, Active
<1>10. Reporting'
  BY <1>2, <1>3 DEF IInv, TypeOK, Domains, Reporting, Saving
<1> QED BY <1>4, <1>7, <1>8, <1>9, <1>10 DEF IInv

\* A new answer about one server.
LEMMA AnswerKeeps ==
    ASSUME IInv, NEW i \in Invocation, NEW l \in DOMAIN fetch[i], NEW answer,
           Fetch(i, l, answer), ListingOnly,
           {"state", "identity", "steady"} \subseteq DOMAIN answer,
           answer.identity = Identity(answer.identity),
           \/ answer.state # "open" \/ fetch[i][l].state = "open"
           \/ Cardinality(Open(i)) < Concurrency
    PROVE  IInv'
<1>1. /\ DOMAIN fetch' = Invocation
      /\ \A j \in Invocation \ {i} : fetch'[j] = fetch[j]
      /\ DOMAIN fetch'[i] = DOMAIN fetch[i] /\ fetch'[i][l] = answer
      /\ \A m \in DOMAIN fetch[i] \ {l} : fetch'[i][m] = fetch[i][m]
  BY DEF Fetch, IInv, Domains
<1>2. \A j \in Invocation : IsFiniteSet(Open(j)') /\ Cardinality(Open(j)') <= Concurrency
  <2> SUFFICES ASSUME NEW j \in Invocation
               PROVE  IsFiniteSet(Open(j)') /\ Cardinality(Open(j)') <= Concurrency
    OBVIOUS
  <2>1. IsFiniteSet(Open(j)) /\ Cardinality(Open(j)) <= Concurrency
    BY DEF IInv, TypeOK, Fetching
  <2>2. CASE Open(j)' \subseteq Open(j)
    BY <2>1, <2>2, FewerOpen
  <2>3. CASE j = i /\ Cardinality(Open(i)) < Concurrency
    <3>1. Open(i)' \subseteq Open(i) \union {l}
      BY <1>1 DEF Open
    <3> QED BY <2>1, <2>3, <3>1, OneMoreOpen
  <2> QED BY <1>1, <2>2, <2>3 DEF Open
<1>3. TypeOK'
  BY <1>2 DEF IInv, TypeOK, ListingOnly
<1>4. Domains'
  BY <1>1 DEF IInv, Domains, ListingOnly
<1>5. Fetching'
  BY <1>1, <1>2 DEF IInv, Fetching, ListingOnly
<1>6. Loading'
  BY DEF IInv, Loading, ListingOnly
<1>7. Reporting'
  BY DEF IInv, Reporting, ListingOnly, Told
<1> QED BY <1>3, <1>4, <1>5, <1>6, <1>7 DEF IInv

LEMMA ListingKeeps ==
    ASSUME IInv, NEW i \in Invocation, NEW l \in DOMAIN fetch[i],
           Connect(i, l) \/ ListPage(i, l) \/ TimeOut(i, l)
    PROVE  IInv'
<1> DEFINE got == fetch[i][l]
<1>1. {"state", "identity", "steady"} \subseteq DOMAIN got /\ got.identity = Identity(got.identity)
  BY DEF IInv, Fetching
<1>2. /\ {"state", "identity", "steady"} \subseteq DOMAIN Failed(got)
      /\ Failed(got).state = "failed" /\ Failed(got).identity = Identity(Failed(got).identity)
  BY DEF Failed, Unheard, OfflineIdentity, Identity
<1>3. CASE Connect(i, l)
  <2> DEFINE offer == serving[got.server]
             opened == [got EXCEPT !.state = "open", !.identity = Identity(offer.identity),
                                   !.instructions = offer.instructions]
  <2>1. /\ ListingOnly /\ Cardinality(Open(i)) < Concurrency
        /\ Fetch(i, l, opened) \/ Fetch(i, l, Failed(got))
    BY <1>3 DEF Connect
  <2>2. {"state", "identity", "steady"} \subseteq DOMAIN opened
    BY <1>1
  <2>3. opened.identity = Identity(opened.identity)
    BY <1>1 DEF Identity
  <2> HIDE DEF opened
  <2> QED BY <1>2, <2>1, <2>2, <2>3, AnswerKeeps
<1>4. CASE ListPage(i, l)
  <2> DEFINE answer == NextPage(got, serving[got.server])
  <2>1. Fetch(i, l, answer) /\ ListingOnly /\ got.state = "open"
    BY <1>4 DEF ListPage
  <2>2. {"state", "identity", "steady"} \subseteq DOMAIN answer /\ answer.identity = Identity(answer.identity)
    <3>1. \A state, page, tools :
            LET next == [got EXCEPT !.state = state, !.page = page, !.tools = tools]
            IN {"state", "identity", "steady"} \subseteq DOMAIN next /\ next.identity = got.identity
      BY <1>1
    <3> QED BY <1>1, <1>2, <3>1 DEF NextPage
  <2> HIDE DEF answer
  <2> QED BY <2>1, <2>2, AnswerKeeps
<1>5. CASE TimeOut(i, l)
  <2>1. Fetch(i, l, Failed(got)) /\ ListingOnly
    BY <1>5 DEF TimeOut
  <2> QED BY <1>2, <2>1, AnswerKeeps
<1> QED BY <1>3, <1>4, <1>5

LEMMA ReportKeeps ==
    ASSUME IInv, NEW i \in Invocation, Report(i)
    PROVE  IInv'
<1>1. PICK r : /\ r = BuildReport(plan[i], fetch[i], pins[i])
               /\ report' = [report EXCEPT ![i] = r]
               /\ shown' = shown \union {<<l, r.snapshots[l]>> : l \in DOMAIN r.snapshots}
               /\ \/ pc' = [pc EXCEPT ![i] = "saving"] /\ UNCHANGED exit
                  \/ End(i, ExitStatus(plan[i], r))
  BY DEF Report
<1>2. /\ pc[i] = "listing"
      /\ UNCHANGED <<serving, file, temp, plan, pins, fetch, changes, books>>
  BY DEF Report
<1>3. ExitStatus(plan[i], r) # "none"
  BY DEF ExitStatus
<1>4. Open(i)' = Open(i) /\ \A j \in Invocation : Open(j)' = Open(j)
  BY <1>2 DEF Open
<1>5. TypeOK'
  BY <1>1, <1>2, <1>3, <1>4 DEF IInv, TypeOK, End, Domains
<1>6. Domains'
  BY <1>1, <1>2 DEF IInv, Domains, End
<1>7. Fetching'
  BY <1>1, <1>2, <1>4 DEF IInv, TypeOK, Fetching, End
<1>8. Loading'
  BY <1>1, <1>2 DEF IInv, TypeOK, Loading, Active, End
<1>9. Reporting'
  <2> SUFFICES ASSUME NEW j \in Invocation, pc'[j] \in Saving
               PROVE  \A l \in DOMAIN report'[j].snapshots : Told(pins[j], report'[j], l, shown')
    BY <1>2 DEF Reporting
  <2>1. CASE j = i
    <3>1. \A l \in DOMAIN pins[i] : IsSnapshot(pins[i][l])
      BY <1>2 DEF IInv, Loading, Active
    <3>2. \A l \in Labels(plan[i]) : fetch[i][l].identity = Identity(fetch[i][l].identity)
      BY <1>2 DEF IInv, Fetching
    <3>3. \A l \in DOMAIN r.snapshots : <<l, r.snapshots[l]>> \in shown'
      BY <1>1
    <3>4. \A l \in DOMAIN r.snapshots : Told(pins[i], r, l, shown')
      BY <1>1, <3>1, <3>2, <3>3, ReportsTell
    <3>5. report'[i] = r
      BY <1>1 DEF IInv, Domains
    <3> QED BY <2>1, <3>4, <3>5
  <2>2. CASE j # i
    <3>1. report'[j] = report[j] /\ pc[j] \in Saving
      BY <1>1, <2>2 DEF IInv, Domains, TypeOK, End
    <3> QED BY <1>1, <3>1 DEF IInv, Reporting, Told
  <2> QED BY <2>1, <2>2
<1> QED BY <1>5, <1>6, <1>7, <1>8, <1>9 DEF IInv

\* What an invocation does to itself alone once it has reported, and what it does to the file.
LEMMA SavingKeeps ==
    ASSUME IInv, NEW i \in Invocation, WriteTemp(i) \/ SaveFails(i)
    PROVE  IInv'
<1>1. /\ pc[i] \in Saving
      /\ UNCHANGED <<serving, file, plan, pins, fetch, report, changes, books, shown>>
      /\ \/ /\ pc' = [pc EXCEPT ![i] = "replacing"] /\ temp' = temp \union {i} /\ UNCHANGED exit
         \/ /\ pc' = [pc EXCEPT ![i] = "ended"] /\ temp' = temp \ {i}
            /\ exit' = [exit EXCEPT ![i] = "1"]
  BY DEF WriteTemp, SaveFails, End, Saving, invocation
<1>2. \A j \in Invocation : Open(j)' = Open(j)
  BY <1>1 DEF Open
<1>3. TypeOK'
  BY <1>1, <1>2 DEF IInv, TypeOK, Domains, Saving
<1>4. Domains'
  BY <1>1 DEF IInv, Domains
<1>5. Fetching'
  BY <1>1, <1>2 DEF IInv, TypeOK, Fetching
<1>6. Loading'
  BY <1>1 DEF IInv, TypeOK, Loading, Active, Saving
<1>7. Reporting'
  BY <1>1 DEF IInv, TypeOK, Reporting, Saving, Told
<1> QED BY <1>3, <1>4, <1>5, <1>6, <1>7 DEF IInv

LEMMA ReplaceKeeps ==
    ASSUME IInv, NEW i \in Invocation, Replace(i)
    PROVE  IInv'
<1> DEFINE saved == Repinned(pins[i], report[i])
           status == ExitStatus(plan[i], report[i])
<1>1. /\ pc[i] = "replacing" /\ file' = File(saved) /\ books' = books \union {file'}
      /\ temp' = temp \ {i} /\ pc' = [pc EXCEPT ![i] = "ended"]
      /\ exit' = [exit EXCEPT ![i] = status]
      /\ UNCHANGED <<serving, plan, pins, fetch, report, changes, shown>>
  BY DEF Replace, End
<1>2. status # "none"
  BY DEF ExitStatus
<1>3. \A j \in Invocation : Open(j)' = Open(j)
  BY <1>1 DEF Open
<1>4. file'.kind = "book" /\ file'.book = saved
  BY <1>1 DEF File
<1>5. \A l \in DOMAIN saved : IsSnapshot(saved[l])
  <2>1. \A l \in DOMAIN pins[i] : IsSnapshot(pins[i][l])
    BY <1>1 DEF IInv, Loading, Active
  <2>2. \A l \in DOMAIN report[i].snapshots : IsSnapshot(report[i].snapshots[l])
    BY <1>1 DEF IInv, Reporting, Saving, Told
  <2> QED BY <2>1, <2>2 DEF Repinned
<1> HIDE DEF saved, status
<1>6. TypeOK'
  BY <1>1, <1>2, <1>3, <1>4 DEF IInv, TypeOK, Domains
<1>7. Domains'
  BY <1>1 DEF IInv, Domains
<1>8. Fetching'
  BY <1>1, <1>3 DEF IInv, TypeOK, Fetching
<1>9. Loading'
  BY <1>1, <1>4, <1>5 DEF IInv, TypeOK, Loading, Active
<1>10. Reporting'
  BY <1>1 DEF IInv, TypeOK, Reporting, Saving, Told
<1> QED BY <1>6, <1>7, <1>8, <1>9, <1>10 DEF IInv

LEMMA KillKeeps ==
    ASSUME IInv, NEW i \in Invocation, Kill(i)
    PROVE  IInv'
<1>1. /\ pc[i] \in Active /\ pc' = [pc EXCEPT ![i] = "killed"]
      /\ pins' = [pins EXCEPT ![i] = <<>>] /\ fetch' = [fetch EXCEPT ![i] = <<>>]
      /\ report' = [report EXCEPT ![i] = NoReport]
      /\ UNCHANGED <<serving, file, temp, plan, exit, changes, books, shown>>
  BY DEF Kill, Active
<1>2. \A j \in Invocation : Open(j)' \subseteq Open(j)
  BY <1>1 DEF Open, IInv, Domains
<1>3. \A j \in Invocation : IsFiniteSet(Open(j)') /\ Cardinality(Open(j)') <= Concurrency
  BY <1>2, FewerOpen DEF IInv, TypeOK, Fetching
<1>4. TypeOK'
  BY <1>1, <1>3 DEF IInv, TypeOK, Domains, Active
<1>5. Domains'
  BY <1>1 DEF IInv, Domains
<1>6. Fetching'
  BY <1>1, <1>3 DEF IInv, TypeOK, Fetching, Domains
<1>7. Loading'
  BY <1>1 DEF IInv, TypeOK, Loading, Active, Domains
<1>8. Reporting'
  BY <1>1 DEF IInv, TypeOK, Reporting, Saving, Told, Domains
<1> QED BY <1>4, <1>5, <1>6, <1>7, <1>8 DEF IInv

LEMMA ChangeKeeps ==
    ASSUME IInv, NEW s \in Server, Change(s)
    PROVE  IInv'
<1>1. /\ \E offer \in Offers[s] : serving' = [serving EXCEPT ![s] = offer]
      /\ fetch' = [i \in Invocation |-> [l \in DOMAIN fetch[i] |->
                    IF fetch[i][l].server = s /\ fetch[i][l].state = "open"
                    THEN [fetch[i][l] EXCEPT !.steady = FALSE] ELSE fetch[i][l]]]
      /\ UNCHANGED <<file, temp, pc, plan, pins, report, exit, books, shown>>
  BY DEF Change
<1>2. \A i \in Invocation :
        /\ DOMAIN fetch'[i] = DOMAIN fetch[i]
        /\ \A l \in DOMAIN fetch[i] : \/ fetch'[i][l] = fetch[i][l]
                                     \/ fetch'[i][l] = [fetch[i][l] EXCEPT !.steady = FALSE]
  BY <1>1
<1>3. \A i \in Invocation : \A l \in DOMAIN fetch[i] :
        /\ DOMAIN fetch'[i][l] = DOMAIN fetch[i][l]
        /\ fetch'[i][l].state = fetch[i][l].state /\ fetch'[i][l].identity = fetch[i][l].identity
  <2> SUFFICES ASSUME NEW i \in Invocation, NEW l \in DOMAIN fetch[i]
               PROVE  /\ DOMAIN fetch'[i][l] = DOMAIN fetch[i][l]
                      /\ fetch'[i][l].state = fetch[i][l].state
                      /\ fetch'[i][l].identity = fetch[i][l].identity
    OBVIOUS
  <2>1. {"state", "identity", "steady"} \subseteq DOMAIN fetch[i][l]
    BY DEF IInv, Fetching
  <2>2. CASE fetch'[i][l] = [fetch[i][l] EXCEPT !.steady = FALSE]
    BY <2>1, <2>2
  <2> QED BY <1>2, <2>2
<1>4. \A i \in Invocation : Open(i)' = Open(i)
  BY <1>2, <1>3 DEF Open
<1>5. TypeOK'
  BY <1>1, <1>4 DEF IInv, TypeOK, Domains
<1>6. Domains'
  BY <1>1 DEF IInv, Domains
<1>7. Fetching'
  BY <1>1, <1>2, <1>3, <1>4 DEF IInv, Fetching
<1>8. Loading'
  BY <1>1 DEF IInv, Loading
<1>9. Reporting'
  BY <1>1 DEF IInv, Reporting, Told
<1> QED BY <1>5, <1>6, <1>7, <1>8, <1>9 DEF IInv

LEMMA Inductive == IInv /\ [Next]_vars => IInv'
<1> SUFFICES ASSUME IInv, [Next]_vars PROVE IInv'
  OBVIOUS
<1>1. CASE \E i \in Invocation : \E p \in Plans[i] : Start(i, p)
  BY <1>1, StartKeeps
<1>2. CASE \E i \in Invocation : \E l \in DOMAIN fetch[i] :
            Connect(i, l) \/ ListPage(i, l) \/ TimeOut(i, l)
  BY <1>2, ListingKeeps
<1>3. CASE \E i \in Invocation : Report(i)
  BY <1>3, ReportKeeps
<1>4. CASE \E i \in Invocation : WriteTemp(i) \/ SaveFails(i)
  BY <1>4, SavingKeeps
<1>5. CASE \E i \in Invocation : Replace(i)
  BY <1>5, ReplaceKeeps
<1>6. CASE \E i \in Invocation : Kill(i)
  BY <1>6, KillKeeps
<1>7. CASE \E s \in Server : Change(s)
  BY <1>7, ChangeKeeps
<1>8. CASE UNCHANGED vars
  <2>1. \A i \in Invocation : Open(i)' = Open(i)
    BY <1>8 DEF vars, Open
  <2> QED BY <1>8, <2>1 DEF vars, IInv, TypeOK, Domains, Fetching, Loading, Reporting, Told
<1> QED BY <1>1, <1>2, <1>3, <1>4, <1>5, <1>6, <1>7, <1>8 DEF Next

THEOREM Invariance == Spec => []IInv
<1> QED BY Initially, Inductive, PTL DEF Spec

-----------------------------------------------------------------------------
\* The shape of the state: an invocation that has ended, and only it, has an exit status;
\* a temporary file has a writer; no more servers are listed at once than are allowed.
THEOREM TypeCorrect == Spec => []TypeOK
<1> QED BY Invariance, PTL DEF IInv

(***************************************************************************)
(* PinFile.pin: a save changes the pin of a server only if its report has  *)
(* called the server drifted or not pinned.                                *)
(***************************************************************************)
THEOREM RepinsAreTold == Spec => NoSilentRepin
<1> DEFINE Loud == \A i \in Invocation : pc[i] = "replacing" /\ exit'[i] # "none" /\ file' # file =>
                \A l \in DOMAIN pins[i] \union DOMAIN file'.book :
                    \/ Same(pins[i], file'.book, l)
                    \/ /\ l \in DOMAIN report[i].status \cap DOMAIN file'.book
                       /\ report[i].status[l] \in {"drifted", "not_pinned"}
<1>1. IInv /\ [Next]_vars => [Loud]_vars
  <2> SUFFICES ASSUME IInv, Next, NEW i \in Invocation,
                      pc[i] = "replacing", exit'[i] # "none", file' # file,
                      NEW l \in DOMAIN pins[i] \union DOMAIN file'.book
               PROVE  \/ Same(pins[i], file'.book, l)
                      \/ /\ l \in DOMAIN report[i].status \cap DOMAIN file'.book
                         /\ report[i].status[l] \in {"drifted", "not_pinned"}
    OBVIOUS
  <2>1. PICK j \in Invocation : Replace(j)
    BY DEF Next, Start, Connect, ListPage, TimeOut, ListingOnly, Report, WriteTemp, SaveFails,
           Kill, Change
  <2>2. exit[i] = "none"
    BY DEF IInv, TypeOK
  <2>3. j = i
    BY <2>1, <2>2 DEF Replace, End, IInv, Domains
  <2>4. file'.book = Repinned(pins[i], report[i])
    BY <2>1, <2>3 DEF Replace, File
  <2>5. \A m \in DOMAIN report[i].snapshots : Told(pins[i], report[i], m, shown)
    BY DEF IInv, Reporting, Saving
  <2> QED BY <2>4, <2>5 DEF Repinned, Same, Told
<1> QED BY <1>1, Invariance, PTL DEF Spec, NoSilentRepin

(***************************************************************************)
(* Saves: a version of the book with some entries replaced by snapshots    *)
(* that were shown.                                                        *)
(***************************************************************************)
LEMMA EntriesAreAFunction ==
    ASSUME NEW f, NEW entries,
           \A e \in entries : \E x \in DOMAIN f : e = <<x, f[x]>>,
           \A x \in DOMAIN f : <<x, f[x]>> \in entries
    PROVE  /\ {e[1] : e \in entries} = DOMAIN f
           /\ \A n \in DOMAIN f : (CHOOSE e \in entries : e[1] = n)[2] = f[n]
<1>1. \A e \in entries : e[1] \in DOMAIN f /\ e[2] = f[e[1]]
  OBVIOUS
<1>2. \A n \in DOMAIN f : \E e \in entries : e[1] = n
  <2> TAKE n \in DOMAIN f
  <2>1. <<n, f[n]>> \in entries /\ <<n, f[n]>>[1] = n
    OBVIOUS
  <2> QED BY <2>1
<1>3. {e[1] : e \in entries} = DOMAIN f
  BY <1>1, <1>2
<1>4. ASSUME NEW n \in DOMAIN f PROVE (CHOOSE e \in entries : e[1] = n)[2] = f[n]
  <2> DEFINE e == CHOOSE d \in entries : d[1] = n
  <2>1. e \in entries /\ e[1] = n
    BY <1>2
  <2> HIDE DEF e
  <2>2. e[2] = f[n]
    BY <1>1, <2>1
  <2> QED BY <2>2 DEF e
<1>5. \A n \in DOMAIN f : (CHOOSE e \in entries : e[1] = n)[2] = f[n]
  BY <1>4
<1> QED BY <1>3, <1>5

LEMMA ReplaceSaves ==
    ASSUME IInv, NEW i \in Invocation, Replace(i)
    PROVE  PB!Save
<1> DEFINE snaps == report[i].snapshots
           entries == {<<l, snaps[l]>> : l \in DOMAIN snaps}
           new == [n \in {e[1] : e \in entries} |-> (CHOOSE e \in entries : e[1] = n)[2]]
           past == {b.book : b \in books}
<1>1. /\ pc[i] = "replacing" /\ file' = File(Repinned(pins[i], report[i]))
      /\ books' = books \union {file'} /\ shown' = shown
  BY DEF Replace
<1>2. file.kind # "damaged" /\ pins[i] \in past
  BY <1>1 DEF IInv, Loading, Active
<1>3. file'.kind = "book" /\ file'.book = Repinned(pins[i], report[i])
  BY <1>1 DEF File
<1>4. entries \in SUBSET shown
  BY <1>1 DEF IInv, Reporting, Saving, Told
<1>5. /\ \A e \in entries : \E l \in DOMAIN snaps : e = <<l, snaps[l]>>
      /\ \A l \in DOMAIN snaps : <<l, snaps[l]>> \in entries
  OBVIOUS
<1>6. \A e, f \in entries : e[1] = f[1] => e = f
  OBVIOUS
<1> HIDE DEF entries, snaps
<1>7. /\ {e[1] : e \in entries} = DOMAIN snaps
      /\ \A n \in DOMAIN snaps : (CHOOSE e \in entries : e[1] = n)[2] = snaps[n]
  BY <1>5, EntriesAreAFunction
<1>8. DOMAIN new = DOMAIN snaps /\ \A n \in DOMAIN snaps : new[n] = snaps[n]
  BY <1>7
<1> HIDE DEF new
<1>9. Repinned(pins[i], report[i]) = PB!Over(pins[i], new)
  BY <1>8 DEF Repinned, PB!Over, snaps
<1>10. {b.book : b \in books}' = past \union {file'.book}
  BY <1>1
<1>11. (file.kind # "damaged")' = (file.kind # "damaged")
  BY <1>2, <1>3
<1> HIDE DEF past
<1> QED BY <1>1, <1>2, <1>3, <1>4, <1>6, <1>9, <1>10, <1>11 DEF PB!Save, new, past

\* What no step touches but Replace, and Report.
LEMMA OthersKeepTheFile ==
    ASSUME Next, ~\E i \in Invocation : Replace(i)
    PROVE  UNCHANGED <<file, books>> /\ shown \subseteq shown'
BY DEF Next, Start, Connect, ListPage, TimeOut, ListingOnly, Report, WriteTemp, SaveFails, Kill,
       Change, invocation

THEOREM InspectionImplementsPinBook == Spec => ImplementsPinBook
<1>1. Init => PB!Init
  BY DEF Init, PB!Init
<1>2. IInv /\ [Next]_vars => [PB!Next]_(PB!vars)
  <2> SUFFICES ASSUME IInv, [Next]_vars PROVE PB!Next \/ UNCHANGED PB!vars
    OBVIOUS
  <2>1. CASE \E i \in Invocation : Replace(i)
    BY <2>1, ReplaceSaves DEF PB!Next
  <2>2. CASE Next /\ ~\E i \in Invocation : Replace(i)
    BY <2>2, OthersKeepTheFile DEF PB!Next, PB!Show
  <2>3. CASE UNCHANGED vars
    BY <2>3 DEF vars, PB!vars
  <2> QED BY <2>1, <2>2, <2>3
<1> QED BY <1>1, <1>2, Invariance, PTL DEF Spec, ImplementsPinBook, PB!Spec

-----------------------------------------------------------------------------
(***************************************************************************)
(* The labels: as many as there are entries, and all of them different.    *)
(***************************************************************************)
LabelsFor(e) == {<<e.name>>, <<e.name, e.client>>} \union {<<e.name, e.client, n>> : n \in Nat}

\* Of more numbers than there are labels taken, one makes a label that is not.
LEMMA SomeNumberIsFree ==
    ASSUME NEW taken, IsFiniteSet(taken), NEW a, NEW b
    PROVE  \E n \in 2..(Cardinality(taken) + 2) : <<a, b, n>> \notin taken
<1> SUFFICES ASSUME \A n \in 2..(Cardinality(taken) + 2) : <<a, b, n>> \in taken PROVE FALSE
  OBVIOUS
<1> DEFINE k == Cardinality(taken)
           numbers == 2..(k + 2)
           f == [n \in numbers |-> <<a, b, n>>]
<1>1. k \in Nat
  BY FS_CardinalityType
<1>2. Cardinality(numbers) = k + 1
  BY <1>1, FS_Interval
<1>3. f \in Injection(numbers, taken)
  <2>1. f \in [numbers -> taken]
    OBVIOUS
  <2>2. \A m, n \in numbers : f[m] = f[n] => m = n
    OBVIOUS
  <2> QED BY <2>1, <2>2 DEF Injection, IsInjective
<1>4. Cardinality(numbers) <= k
  <2> HIDE DEF f, numbers
  <2> QED BY <1>3, FS_Injection
<1> QED BY <1>1, <1>2, <1>4

LEMMA FreshIsFree ==
    ASSUME NEW taken, IsFiniteSet(taken), NEW e
    PROVE  FreshLabel(taken, e) \in LabelsFor(e) \ taken
<1> DEFINE free == {n \in 2..(Cardinality(taken) + 2) : <<e.name, e.client, n>> \notin taken}
           least == CHOOSE n \in free : \A m \in free : n <= m
<1>0. Cardinality(taken) \in Nat
  BY FS_CardinalityType
<1>1. free # {} /\ free \in SUBSET Nat
  <2>1. \E n \in 2..(Cardinality(taken) + 2) : <<e.name, e.client, n>> \notin taken
    BY SomeNumberIsFree
  <2> QED BY <1>0, <2>1
<1>2. \E n \in free : \A m \in free : n <= m
  <2> HIDE DEF free
  <2> QED BY <1>1, LeastNumber
<1>3. least \in free
  <2> HIDE DEF free
  <2> QED BY <1>2
<1>4. <<e.name, e.client, least>> \notin taken /\ least \in Nat
  <2> HIDE DEF least
  <2> QED BY <1>1, <1>3
<1> HIDE DEF least, free
<1>5. FreshLabel(taken, e) \in {<<e.name>>, <<e.name, e.client>>, <<e.name, e.client, least>>}
      /\ FreshLabel(taken, e) \notin taken
  BY <1>4 DEF FreshLabel, least, free
<1> QED BY <1>4, <1>5 DEF LabelsFor

\* What an entry that is on becomes.
EntriesOf(p) ==
    {[name |-> e.name, server |-> e.server, client |-> c.client] :
        e \in UNION {Range(d.entries) : d \in {x \in Range(p.configs) : x.readable}},
        c \in Range(p.configs)}
OnEntries(p) == {e \in EntriesOf(p) : e.server \in Server}

LEMMA PlansAreLists ==
    ASSUME NEW p \in UNION Range(Plans)
    PROVE  /\ IsSeq(p.configs)
           /\ \A c \in Range(p.configs) : c.readable => IsSeq(c.entries) /\
                \A e \in Range(c.entries) : e.kind = "on" => e.server \in Server
BY PlanAssumption DEF IsList, IsSeq

LEMMA EntriesAreListed ==
    ASSUME NEW p \in UNION Range(Plans), NEW c \in Range(p.configs)
    PROVE  Entries1(c) \in Seq(OnEntries(p))
<1> DEFINE V == OnEntries(p)
           entry(e) == [name |-> e.name, server |-> e.server, client |-> c.client]
           one(e) == IF e.kind = "on" THEN <<entry(e)>> ELSE <<>>
           parts == [i \in DOMAIN c.entries |-> one(c.entries[i])]
<1>1. CASE ~c.readable
  BY <1>1 DEF Entries1
<1>2. CASE c.readable
  <2>1. IsSeq(c.entries) /\ \A e \in Range(c.entries) : e.kind = "on" => e.server \in Server
    BY <1>2, PlansAreLists
  <2>2. Len(c.entries) \in Nat /\ DOMAIN c.entries = 1..Len(c.entries)
    BY <2>1, SeqShape
  <2>3. \A e \in Range(c.entries) : entry(e) \in EntriesOf(p)
    BY <1>2 DEF EntriesOf
  <2>4. \A e \in Range(c.entries) : e.kind = "on" => entry(e) \in V
    <3>1. \A e : entry(e).server = e.server
      OBVIOUS
    <3> HIDE DEF entry
    <3> QED BY <2>1, <2>3, <3>1 DEF OnEntries
  <2>5. \A e \in Range(c.entries) : one(e) \in Seq(V)
    <3> HIDE DEF V, entry
    <3> QED BY <2>4
  <2>6. \A i \in DOMAIN c.entries : c.entries[i] \in Range(c.entries)
    BY DEF Range
  <2>7. \A i \in 1..Len(c.entries) : parts[i] \in Seq(V)
    <3> HIDE DEF V, one
    <3> QED BY <2>2, <2>5, <2>6
  <2> HIDE DEF one, V
  <2>8. DOMAIN parts = 1..Len(c.entries) /\ parts = [i \in 1..Len(c.entries) |-> parts[i]]
    BY <2>2
  <2>9. IsSeq(parts)
    <3> HIDE DEF parts
    <3> QED BY <2>2, <2>8, FunctionIsSeq
  <2>10. Len(parts) = Len(c.entries)
    BY <2>2, <2>8, <2>9, SeqShape
  <2>11. SequenceOf(parts, V)
    BY <2>7, <2>9, <2>10 DEF SequenceOf
  <2>12. FlattenSeq(parts) \in Seq(V)
    <3> HIDE DEF parts
    <3> QED BY <2>11, FlattenFacts
  <2> QED BY <1>2, <2>12 DEF Entries1, one, V
<1> QED BY <1>1, <1>2

LEMMA LoadedAreEntries ==
    ASSUME NEW p \in UNION Range(Plans)
    PROVE  Loaded(p) \in Seq(OnEntries(p))
<1> DEFINE V == OnEntries(p)
           parts == [i \in DOMAIN p.configs |-> Entries1(p.configs[i])]
<1>1. IsSeq(p.configs)
  BY PlansAreLists
<1>2. Len(p.configs) \in Nat /\ DOMAIN p.configs = 1..Len(p.configs)
  BY <1>1, SeqShape
<1>3. \A i \in DOMAIN p.configs : p.configs[i] \in Range(p.configs)
  BY DEF Range
<1> HIDE DEF V
<1>4. \A i \in 1..Len(p.configs) : parts[i] \in Seq(V)
  BY <1>2, <1>3, EntriesAreListed DEF V
<1>5. DOMAIN parts = 1..Len(p.configs) /\ parts = [i \in 1..Len(p.configs) |-> parts[i]]
  BY <1>2
<1>6. Loaded(p) = FlattenSeq(parts)
  BY DEF Loaded
<1> HIDE DEF parts
<1>7. IsSeq(parts)
  BY <1>2, <1>5, FunctionIsSeq
<1>8. Len(parts) = Len(p.configs)
  BY <1>2, <1>5, <1>7, SeqShape
<1>9. SequenceOf(parts, V)
  BY <1>4, <1>7, <1>8 DEF SequenceOf
<1> QED BY <1>6, <1>9, FlattenFacts DEF V

SpecsFor(p) ==
    {[label |-> l, server |-> e.server] : l \in UNION {LabelsFor(d) : d \in OnEntries(p)},
                                          e \in OnEntries(p)}
LabelsOnce(specs) == \A i, j \in DOMAIN specs : specs[i].label = specs[j].label => i = j
Distinct(p) == {specs \in Seq(SpecsFor(p)) : LabelsOnce(specs)}

LEMMA OneMoreLabel ==
    ASSUME NEW p, NEW specs \in Distinct(p), NEW e \in OnEntries(p)
    PROVE  LET more == WithSpec(specs, e)
           IN /\ more \in Distinct(p) /\ Len(more) = Len(specs) + 1
              /\ more[Len(specs) + 1].server = e.server
              /\ \A j \in 1..Len(specs) : more[j] = specs[j]
<1> DEFINE n == Len(specs)
           taken == {s.label : s \in Range(specs)}
           new == [label |-> FreshLabel(taken, e), server |-> e.server]
           more == WithSpec(specs, e)
<1>0. /\ specs \in Seq(SpecsFor(p)) /\ LabelsOnce(specs)
      /\ n \in Nat /\ DOMAIN specs = 1..n
  BY DEF Distinct
<1>1. IsFiniteSet(taken)
  <2> DEFINE f == [j \in 1..n |-> specs[j].label]
  <2>1. taken = {f[j] : j \in 1..n}
    BY <1>0 DEF Range
  <2>2. IsFiniteSet(1..n)
    BY <1>0, FS_Interval
  <2> HIDE DEF taken
  <2>3. f \in Surjection(1..n, taken)
    BY <2>1 DEF Surjection
  <2> HIDE DEF f
  <2> QED BY <2>2, <2>3, FS_Surjection
<1>2. new.label \in LabelsFor(e) \ taken /\ new.server = e.server
  <2> HIDE DEF taken
  <2> QED BY <1>1, FreshIsFree
<1>3. new \in SpecsFor(p)
  <2>1. FreshLabel(taken, e) \in UNION {LabelsFor(d) : d \in OnEntries(p)}
    <3> HIDE DEF taken
    <3> QED BY <1>2
  <2> HIDE DEF taken
  <2> QED BY <2>1 DEF SpecsFor
<1>4. more = Append(specs, new)
  BY DEF WithSpec
<1>5. \A j \in 1..n : specs[j].label \in taken
  BY <1>0 DEF Range
<1> HIDE DEF new, taken, more
<1>6. /\ more \in Seq(SpecsFor(p)) /\ Len(more) = n + 1 /\ DOMAIN more = 1..(n + 1)
      /\ more[n + 1] = new /\ \A j \in 1..n : more[j] = specs[j]
  BY <1>0, <1>3, <1>4
<1> HIDE DEF n
<1>7. LabelsOnce(more)
  <2> SUFFICES ASSUME NEW i \in 1..(n + 1), NEW j \in 1..(n + 1), more[i].label = more[j].label
               PROVE  i = j
    BY <1>6 DEF LabelsOnce
  <2>1. \A k \in 1..(n + 1) : k \in 1..n \/ k = n + 1
    BY <1>0
  <2>2. CASE i \in 1..n /\ j \in 1..n
    BY <1>0, <1>6, <2>2 DEF LabelsOnce
  <2>3. CASE i \in 1..n /\ j = n + 1
    BY <1>2, <1>5, <1>6, <2>3
  <2>4. CASE i = n + 1 /\ j \in 1..n
    BY <1>2, <1>5, <1>6, <2>4
  <2> QED BY <2>1, <2>2, <2>3, <2>4
<1>8. more \in Distinct(p)
  BY <1>6, <1>7 DEF Distinct
<1> QED BY <1>2, <1>6, <1>8 DEF n, more

LEMMA SpecsAreLabelled ==
    ASSUME NEW p \in UNION Range(Plans)
    PROVE  /\ UniqueSpecs(p) \in Distinct(p)
           /\ Len(UniqueSpecs(p)) = Len(Loaded(p))
           /\ \A j \in 1..Len(Loaded(p)) : UniqueSpecs(p)[j].server = Loaded(p)[j].server
<1> DEFINE N == Len(Loaded(p))
           F(k) == [n \in 0..N |-> IF n = 0 THEN <<>> ELSE WithSpec(k[n - 1], Loaded(p)[n])]
           specs == CHOOSE k : k = F(k)
           V == Distinct(p)
           step == [q \in (1..N) \X V |-> WithSpec(q[2], Loaded(p)[q[1]])]
<1>0. N \in Nat /\ \A n \in 1..N : Loaded(p)[n] \in OnEntries(p)
  BY LoadedAreEntries
<1>1. UniqueSpecs(p) = specs[N]
  BY DEF UniqueSpecs
<1> HIDE DEF N
<1>2. <<>> \in V
  BY DEF Distinct, LabelsOnce
<1>3. ASSUME NEW n \in 1..N, NEW v \in V
      PROVE  step[<<n, v>>] = WithSpec(v, Loaded(p)[n]) /\ step[<<n, v>>] \in V
  <2>1. step[<<n, v>>] = WithSpec(v, Loaded(p)[n])
    <3> HIDE DEF V
    <3> QED OBVIOUS
  <2> HIDE DEF step
  <2> QED BY <1>0, <2>1, OneMoreLabel
<1> HIDE DEF V, step
<1>4. Loop(N, V, <<>>, step)
  BY <1>0, <1>2, <1>3 DEF Loop
<1>5. PICK h \in [0..N -> V] : LoopSolution(h, N, <<>>, step)
  BY <1>4, LoopRecursion
<1>6. h[0] = <<>> /\ \A n \in 1..N : h[n] = WithSpec(h[n - 1], Loaded(p)[n])
  <2> SUFFICES ASSUME NEW n \in 1..N PROVE h[n] = WithSpec(h[n - 1], Loaded(p)[n])
    BY <1>5 DEF LoopSolution
  <2>1. h[n] = step[<<n, h[n - 1]>>] /\ n - 1 \in 0..N
    BY <1>0, <1>5 DEF LoopSolution
  <2>2. h[n - 1] \in V
    BY <1>5, <2>1
  <2> QED BY <1>3, <2>1, <2>2
<1>7. h = F(h)
  <2>1. \A n \in 0..N : h[n] = IF n = 0 THEN <<>> ELSE WithSpec(h[n - 1], Loaded(p)[n])
    BY <1>0, <1>6
  <2> QED BY <1>5, <2>1
<1>8. specs = F(specs)
  <2> HIDE DEF F
  <2> QED BY <1>7, Zenon
<1>9. \A n \in 0..N : specs[n] = IF n = 0 THEN <<>> ELSE WithSpec(specs[n - 1], Loaded(p)[n])
  <2> HIDE DEF specs
  <2>1. \A n \in 0..N : F(specs)[n] = IF n = 0 THEN <<>> ELSE WithSpec(specs[n - 1], Loaded(p)[n])
    OBVIOUS
  <2> HIDE DEF F
  <2> QED BY <1>8, <2>1, Zenon
<1> HIDE DEF specs, F
<1> DEFINE Right(n) == /\ specs[n] \in V /\ Len(specs[n]) = n
                       /\ \A j \in 1..n : specs[n][j].server = Loaded(p)[j].server
           Q == {n \in Nat : n <= N => Right(n)}
<1>10. 0 \in Q
  BY <1>0, <1>2, <1>9
<1>11. ASSUME NEW n \in Nat, n \in Q PROVE n + 1 \in Q
  <2> SUFFICES ASSUME n + 1 <= N PROVE Right(n + 1)
    OBVIOUS
  <2>1. n + 1 \in 1..N /\ n + 1 \in 0..N /\ n + 1 # 0 /\ (n + 1) - 1 = n /\ n <= N
    BY <1>0
  <2>2. specs[n + 1] = WithSpec(specs[n], Loaded(p)[n + 1])
    BY <1>9, <2>1
  <2>3. Right(n)
    BY <1>11, <2>1
  <2>4. Loaded(p)[n + 1] \in OnEntries(p)
    BY <1>0, <2>1
  <2>5. /\ specs[n + 1] \in V /\ Len(specs[n + 1]) = n + 1
        /\ specs[n + 1][n + 1].server = Loaded(p)[n + 1].server
        /\ \A j \in 1..n : specs[n + 1][j] = specs[n][j]
    <3>1. PICK v \in Distinct(p) : v = specs[n] /\ Len(v) = n
      BY <2>3 DEF V
    <3>2. PICK e \in OnEntries(p) : e = Loaded(p)[n + 1]
      BY <2>4
    <3>3. PICK more : more = WithSpec(v, e)
      OBVIOUS
    <3>4. /\ more \in Distinct(p) /\ Len(more) = n + 1 /\ more[n + 1].server = e.server
          /\ \A j \in 1..n : more[j] = v[j]
      <4>1. /\ more \in Distinct(p) /\ Len(more) = Len(v) + 1
            /\ more[Len(v) + 1].server = e.server
            /\ \A j \in 1..Len(v) : more[j] = v[j]
        BY <3>3, OneMoreLabel, Zenon
      <4> QED BY <3>1, <4>1
    <3> QED BY <2>2, <3>1, <3>2, <3>3, <3>4 DEF V
  <2>6. \A j \in 1..(n + 1) : j \in 1..n \/ j = n + 1
    OBVIOUS
  <2> QED BY <2>3, <2>5, <2>6
<1>12. Nat \subseteq Q
  <2> HIDE DEF Q
  <2> QED BY <1>10, <1>11, NumberInduction
<1>13. Right(N)
  BY <1>0, <1>12
<1> QED BY <1>1, <1>13 DEF N, V

(***************************************************************************)
(* A label stands for one server, the one its entry is about, and unless   *)
(* --server selects some, every entry has one.                             *)
(***************************************************************************)
LEMMA LabelsStandForServers ==
    ASSUME NEW p \in UNION Range(Plans)
    PROVE  /\ \A l \in Labels(p) : ServerOf(p, l) \in Server
           /\ p.only = {} => \A e \in Range(Loaded(p)) :
                                \E l \in Labels(p) : ServerOf(p, l) = e.server
<1> DEFINE specs == UniqueSpecs(p)
<1>1. /\ specs \in Seq(SpecsFor(p)) /\ LabelsOnce(specs) /\ Len(specs) = Len(Loaded(p))
      /\ \A j \in 1..Len(Loaded(p)) : specs[j].server = Loaded(p)[j].server
  BY SpecsAreLabelled DEF Distinct
<1>2. Specs(p) = {s \in Range(specs) : Selected(p, s.label)}
  BY DEF Specs, AllSpecs
<1> HIDE DEF specs
<1>3. \A s \in SpecsFor(p) : s.server \in Server
  BY DEF SpecsFor, OnEntries
<1>4. \A s \in Range(specs) : s.server \in Server
  BY <1>1, <1>3 DEF Range
<1>5. \A s, t \in Range(specs) : s.label = t.label => s = t
  BY <1>1 DEF Range, LabelsOnce
<1>6. ASSUME NEW s \in Specs(p) PROVE s.label \in Labels(p) /\ ServerOf(p, s.label) = s.server
  <2> DEFINE c == CHOOSE t \in Specs(p) : t.label = s.label
  <2>1. c \in Specs(p) /\ c.label = s.label
    OBVIOUS
  <2> HIDE DEF c
  <2>2. c = s
    BY <1>2, <1>5, <2>1
  <2> QED BY <2>2 DEF c, ServerOf, Labels
<1>7. \A l \in Labels(p) : ServerOf(p, l) \in Server
  BY <1>2, <1>4, <1>6 DEF Labels
<1>8. ASSUME p.only = {}, NEW e \in Range(Loaded(p))
      PROVE  \E l \in Labels(p) : ServerOf(p, l) = e.server
  <2>1. PICK j \in 1..Len(Loaded(p)) : Loaded(p)[j] = e
    BY LoadedAreEntries DEF Range
  <2>2. specs[j] \in Range(specs)
    BY <1>1 DEF Range
  <2>3. specs[j] \in Specs(p)
    BY <1>2, <1>8, <2>2 DEF Selected
  <2> QED BY <1>1, <1>6, <2>1, <2>3
<1> QED BY <1>7, <1>8

-----------------------------------------------------------------------------
(***************************************************************************)
(* What has been gathered of a server: while its listing is open and it    *)
(* has not changed, the first pages of what it offers; once it is listed,  *)
(* all of them.                                                            *)
(***************************************************************************)
UpOffers == {o \in UNION {Offers[s] : s \in Server} : o.up}
Advertised == UNION {Range(page) : page \in UNION {Range(o.pages) : o \in UpOffers}}
FetchFields == {"state", "server", "page", "tools", "steady", "identity", "instructions"}

SoFar(got, offer) ==
    /\ got.identity = offer.identity
    /\ ~offer.loops => /\ got.page <= Len(offer.pages)
                       /\ \E h : /\ PrefixesOf(h, offer.pages, Advertised)
                                 /\ got.tools = h[got.page]
Whole(got) ==
    \E offer \in Offers[got.server] :
        /\ offer.up /\ ~offer.loops
        /\ got.tools = FlattenSeq(offer.pages) /\ got.identity = offer.identity

Shaped(got) ==
    /\ FetchFields \subseteq DOMAIN got
    /\ got.server \in Server /\ got.page \in Nat /\ got.tools \in Seq(Advertised)
    /\ got.instructions \subseteq ToolText /\ got.steady \in BOOLEAN
    /\ got.state \in {"waiting", "open", "listed", "failed"}
Gathered(got, offered) ==
    /\ Shaped(got)
    /\ got.state = "waiting" => got.page = 0 /\ got.tools = <<>>
    /\ got.state = "open" /\ got.steady => SoFar(got, offered[got.server])
    /\ got.state = "listed" => Len(got.tools) <= MaxTools /\ (got.steady => Whole(got))

Gathering ==
    \A i \in Invocation :
        /\ \A l \in DOMAIN fetch[i] : Gathered(fetch[i][l], serving)
        /\ pc[i] \in Active =>
            /\ plan[i] \in Plans[i]
            /\ \A l \in DOMAIN fetch[i] : fetch[i][l].server = ServerOf(plan[i], l)

\* A page of what is offered is a list of advertised tools.
LEMMA PagesAreListings ==
    ASSUME NEW s \in Server, NEW offer \in Offers[s], offer.up
    PROVE  /\ IsSeq(offer.pages) /\ SequenceOf(offer.pages, Advertised)
           /\ offer.loops => 1 \in 1..Len(offer.pages)
           /\ offer.identity = Identity(offer.identity) /\ offer.instructions \subseteq ToolText
<1>1. /\ offer.identity = Identity(offer.identity) /\ offer.instructions \subseteq ToolText
      /\ IsSeq(offer.pages) /\ \A page \in Range(offer.pages) : IsSeq(page)
      /\ offer.loops => offer.pages # <<>>
  BY OfferAssumption DEF IsListing, IsList, IsSeq
<1>2. Len(offer.pages) \in Nat /\ DOMAIN offer.pages = 1..Len(offer.pages)
  BY <1>1, SeqShape
<1>3. ASSUME NEW i \in 1..Len(offer.pages) PROVE offer.pages[i] \in Seq(Advertised)
  <2>1. offer.pages[i] \in Range(offer.pages)
    BY <1>2 DEF Range
  <2>2. offer \in UpOffers
    BY DEF UpOffers
  <2>3. Range(offer.pages[i]) \subseteq Advertised
    BY <2>1, <2>2 DEF Advertised
  <2>4. offer.pages[i] \in Seq(Range(offer.pages[i]))
    BY <1>1, <2>1 DEF IsSeq
  <2> QED BY <2>3, <2>4
<1>4. SequenceOf(offer.pages, Advertised)
  BY <1>1, <1>3 DEF SequenceOf
<1>5. offer.loops => 1 \in 1..Len(offer.pages)
  <2> SUFFICES ASSUME offer.loops PROVE Len(offer.pages) # 0
    BY <1>2
  <2>1. offer.pages # <<>> /\ offer.pages \in Seq(Range(offer.pages))
    BY <1>1 DEF IsSeq
  <2> QED BY <2>1
<1> QED BY <1>1, <1>4, <1>5

LEMMA NothingGathered ==
    ASSUME NEW s \in Server, NEW state \in {"waiting", "failed"}, NEW offered
    PROVE  Gathered([Unheard EXCEPT !.state = state, !.server = s], offered)
<1>1. <<>> \in Seq(Advertised)
  OBVIOUS
<1> QED BY <1>1 DEF Gathered, Shaped, FetchFields, Unheard

LEMMA WaitingIsGathered ==
    ASSUME NEW s \in Server, NEW offered
    PROVE  /\ Gathered([Unheard EXCEPT !.server = s], offered)
           /\ [Unheard EXCEPT !.server = s].server = s
<1>1. <<>> \in Seq(Advertised)
  OBVIOUS
<1> QED BY <1>1 DEF Gathered, Shaped, FetchFields, Unheard

\* A server that is not asked any further.
LEMMA FailedIsGathered ==
    ASSUME NEW got, got.server \in Server, NEW offered
    PROVE  Gathered(Failed(got), offered)
BY NothingGathered DEF Failed

LEMMA ConnectionIsGathered ==
    ASSUME NEW offered, NEW got, Gathered(got, offered), got.state = "waiting",
           NEW offer, offer = offered[got.server], offer \in Offers[got.server], offer.up
    PROVE  Gathered([got EXCEPT !.state = "open", !.identity = Identity(offer.identity),
                                !.instructions = offer.instructions], offered)
<1> DEFINE new == [got EXCEPT !.state = "open", !.identity = Identity(offer.identity),
                              !.instructions = offer.instructions]
<1>1. Shaped(got) /\ got.page = 0 /\ got.tools = <<>>
  BY DEF Gathered
<1>2. offer.identity = Identity(offer.identity) /\ offer.instructions \subseteq ToolText
      /\ SequenceOf(offer.pages, Advertised)
  BY <1>1, PagesAreListings DEF Shaped
<1>3. /\ DOMAIN new = DOMAIN got
      /\ new.state = "open" /\ new.identity = offer.identity /\ new.instructions = offer.instructions
      /\ new.server = got.server /\ new.page = 0 /\ new.tools = <<>> /\ new.steady = got.steady
  BY <1>1, <1>2 DEF Shaped, FetchFields
<1> HIDE DEF new
<1>4. Shaped(new)
  BY <1>1, <1>2, <1>3 DEF Shaped
<1>5. SoFar(new, offer)
  <2>1. PICK h : PrefixesOf(h, offer.pages, Advertised)
    BY <1>2, PrefixesExist
  <2>2. h[0] = <<>>
    BY <2>1 DEF PrefixesOf
  <2>3. 0 <= Len(offer.pages)
    BY <1>2, SeqShape DEF SequenceOf
  <2> QED BY <1>3, <2>1, <2>2, <2>3 DEF SoFar
<1> QED BY <1>3, <1>4, <1>5 DEF Gathered, new

LEMMA PageIsOfTheServer ==
    ASSUME NEW got, Shaped(got), NEW offer
    PROVE  NextPage(got, offer).server = got.server
<1> DEFINE page == got.page + 1
           tools == got.tools \o offer.pages[IF offer.loops THEN 1 ELSE page]
           more == offer.loops \/ page < Len(offer.pages)
           new == [got EXCEPT !.state = IF more THEN "open" ELSE "listed",
                              !.page = page, !.tools = tools]
<1>1. NextPage(got, offer) \in {Failed(got), new}
  BY DEF NextPage
<1>2. new.server = got.server
  BY DEF Shaped, FetchFields
<1>3. Failed(got).server = got.server
  BY DEF Failed, Unheard
<1> HIDE DEF new
<1> QED BY <1>1, <1>2, <1>3

LEMMA PageIsGathered ==
    ASSUME NEW offered, NEW got, Gathered(got, offered), got.state = "open",
           NEW offer, offer = offered[got.server], offer \in Offers[got.server]
    PROVE  Gathered(NextPage(got, offer), offered)
<1> DEFINE page == got.page + 1
           read == offer.pages[IF offer.loops THEN 1 ELSE page]
           tools == got.tools \o read
           more == offer.loops \/ page < Len(offer.pages)
           new == [got EXCEPT !.state = IF more THEN "open" ELSE "listed",
                              !.page = page, !.tools = tools]
<1>1. Shaped(got)
  BY DEF Gathered
<1>2. CASE NextPage(got, offer) = Failed(got)
  BY <1>1, <1>2, FailedIsGathered DEF Shaped
<1>3. CASE NextPage(got, offer) # Failed(got)
  <2>1. /\ NextPage(got, offer) = new
        /\ offer.up /\ ~(~offer.loops /\ page > Len(offer.pages)) /\ ~(Len(tools) > MaxTools)
    BY <1>3 DEF NextPage
  <2>2. SequenceOf(offer.pages, Advertised) /\ (offer.loops => 1 \in 1..Len(offer.pages))
    BY <1>1, <2>1, PagesAreListings DEF Shaped
  <2>3. Len(offer.pages) \in Nat /\ got.page \in Nat
    BY <1>1, <2>2, SeqShape DEF SequenceOf, Shaped
  <2>4. read \in Seq(Advertised)
    BY <2>1, <2>2, <2>3 DEF SequenceOf
  <2>5. tools \in Seq(Advertised)
    <3> HIDE DEF read
    <3> QED BY <1>1, <2>4 DEF Shaped
  <2> HIDE DEF tools
  <2>6. Len(tools) <= MaxTools
    <3>1. MaxTools \in Nat /\ Len(tools) \in Nat
      BY <2>5, LimitAssumption
    <3> QED BY <2>1, <3>1
  <2>7. /\ DOMAIN new = DOMAIN got
        /\ new.state = (IF more THEN "open" ELSE "listed") /\ new.page = page /\ new.tools = tools
        /\ new.server = got.server /\ new.steady = got.steady
        /\ new.identity = got.identity /\ new.instructions = got.instructions
    BY <1>1 DEF Shaped, FetchFields
  <2> HIDE DEF new
  <2>8. Shaped(new)
    BY <1>1, <2>3, <2>5, <2>7 DEF Shaped
  <2>9. ASSUME got.steady, ~offer.loops
        PROVE  /\ page \in 1..Len(offer.pages) /\ got.identity = offer.identity
               /\ \E h : PrefixesOf(h, offer.pages, Advertised) /\ tools = h[page]
    <3>1. SoFar(got, offer)
      BY <2>9 DEF Gathered
    <3>2. PICK h : PrefixesOf(h, offer.pages, Advertised) /\ got.tools = h[got.page]
      BY <2>9, <3>1 DEF SoFar
    <3>3. page \in 1..Len(offer.pages) /\ page - 1 = got.page
      BY <2>1, <2>3, <2>9
    <3>4. tools = h[page]
      BY <2>9, <3>2, <3>3 DEF PrefixesOf, tools
    <3> QED BY <2>9, <3>1, <3>2, <3>3, <3>4 DEF SoFar
  <2>10. ASSUME new.steady PROVE new.state = "open" => SoFar(new, offer)
    <3>1. new.identity = offer.identity
      BY <2>7, <2>10 DEF Gathered, SoFar
    <3> QED BY <2>3, <2>7, <2>9, <2>10, <3>1 DEF SoFar
  <2>11. ASSUME new.steady, new.state = "listed" PROVE Whole(new)
    <3>1. ~offer.loops /\ ~(page < Len(offer.pages))
      BY <2>7, <2>11
    <3>2. PICK h : PrefixesOf(h, offer.pages, Advertised) /\ tools = h[page]
      BY <2>7, <2>9, <2>11, <3>1
    <3>3. page = Len(offer.pages)
      BY <2>3, <2>7, <2>9, <2>11, <3>1
    <3>4. tools = FlattenSeq(offer.pages)
      BY <2>2, <3>2, <3>3, FlattenIsLast
    <3> QED BY <2>1, <2>7, <2>9, <2>11, <3>1, <3>4 DEF Whole
  <2>12. new.state # "waiting"
    BY <2>7
  <2> HIDE DEF more, page
  <2>13. Gathered(new, offered)
    BY <2>6, <2>7, <2>8, <2>10, <2>11, <2>12 DEF Gathered
  <2> QED BY <2>1, <2>13
<1> QED BY <1>2, <1>3

LEMMA GatheringInit == Init => Gathering
BY DEF Init, Gathering, Active

LEMMA StartGathers ==
    ASSUME IInv, Gathering, NEW i \in Invocation, NEW p \in Plans[i], Start(i, p)
    PROVE  Gathering'
<1> DEFINE waiting == [l \in Labels(p) |-> [Unheard EXCEPT !.server = ServerOf(p, l)]]
<1>0. p \in UNION Range(Plans)
  BY PlanAssumption DEF Range
<1>1. ASSUME NEW l \in Labels(p)
      PROVE  waiting[l].server = ServerOf(p, l) /\ Gathered(waiting[l], serving)
  <2>1. ServerOf(p, l) \in Server
    BY <1>0, LabelsStandForServers
  <2> QED BY <2>1, WaitingIsGathered
<1>2. \/ /\ pc' = [pc EXCEPT ![i] = "ended"] /\ UNCHANGED fetch
      \/ /\ pc' = [pc EXCEPT ![i] = "listing"] /\ fetch' = [fetch EXCEPT ![i] = waiting]
  BY DEF Start, End
<1>3. DOMAIN waiting = Labels(p)
  OBVIOUS
<1> HIDE DEF waiting
<1>4. plan' = [plan EXCEPT ![i] = p] /\ UNCHANGED serving /\ pc[i] = "idle"
  BY DEF Start
<1> SUFFICES ASSUME NEW j \in Invocation
             PROVE  /\ \A l \in DOMAIN fetch'[j] : Gathered(fetch'[j][l], serving)
                    /\ pc'[j] \in Active =>
                        /\ plan'[j] \in Plans[j]
                        /\ \A l \in DOMAIN fetch'[j] : fetch'[j][l].server = ServerOf(plan'[j], l)
  BY <1>4 DEF Gathering
<1>5. CASE j = i
  BY <1>1, <1>2, <1>3, <1>4, <1>5 DEF Gathering, IInv, TypeOK, Domains, Active
<1>6. CASE j # i
  BY <1>2, <1>4, <1>6 DEF Gathering, IInv, TypeOK, Domains
<1> QED BY <1>5, <1>6

LEMMA AnswerGathers ==
    ASSUME IInv, Gathering, NEW i \in Invocation, NEW l \in DOMAIN fetch[i], NEW answer,
           Fetch(i, l, answer), ListingOnly,
           Gathered(answer, serving), answer.server = fetch[i][l].server
    PROVE  Gathering'
<1>1. /\ \A j \in Invocation \ {i} : fetch'[j] = fetch[j]
      /\ DOMAIN fetch'[i] = DOMAIN fetch[i] /\ fetch'[i][l] = answer
      /\ \A m \in DOMAIN fetch[i] \ {l} : fetch'[i][m] = fetch[i][m]
  BY DEF Fetch, IInv, Domains
<1>2. UNCHANGED <<serving, pc, plan>>
  BY DEF ListingOnly
<1> SUFFICES ASSUME NEW j \in Invocation
             PROVE  /\ \A m \in DOMAIN fetch'[j] : Gathered(fetch'[j][m], serving)
                    /\ pc[j] \in Active =>
                        /\ plan[j] \in Plans[j]
                        /\ \A m \in DOMAIN fetch'[j] : fetch'[j][m].server = ServerOf(plan[j], m)
  BY <1>2 DEF Gathering
<1>3. CASE j = i
  BY <1>1, <1>3 DEF Gathering
<1>4. CASE j # i
  BY <1>1, <1>4 DEF Gathering
<1> QED BY <1>3, <1>4

LEMMA ListingGathers ==
    ASSUME IInv, Gathering, NEW i \in Invocation, NEW l \in DOMAIN fetch[i],
           Connect(i, l) \/ ListPage(i, l) \/ TimeOut(i, l)
    PROVE  Gathering'
<1> DEFINE got == fetch[i][l]
           offer == serving[got.server]
           opened == [got EXCEPT !.state = "open", !.identity = Identity(offer.identity),
                                 !.instructions = offer.instructions]
<1>1. Gathered(got, serving) /\ Shaped(got) /\ got.server \in Server /\ offer \in Offers[got.server]
  BY DEF Gathering, Gathered, Shaped, IInv, TypeOK
<1>2. Gathered(Failed(got), serving) /\ Failed(got).server = got.server
  BY <1>1, FailedIsGathered DEF Failed, Unheard
<1>3. CASE Connect(i, l)
  <2>1. /\ got.state = "waiting" /\ ListingOnly
        /\ \/ offer.up /\ Fetch(i, l, opened)
           \/ Fetch(i, l, Failed(got))
    BY <1>3 DEF Connect
  <2>2. CASE offer.up /\ Fetch(i, l, opened)
    <3>1. Gathered(opened, serving)
      BY <1>1, <2>1, <2>2, ConnectionIsGathered
    <3>2. opened.server = got.server
      BY <1>1 DEF Shaped, FetchFields
    <3> HIDE DEF opened
    <3> QED BY <2>1, <2>2, <3>1, <3>2, AnswerGathers
  <2>3. CASE Fetch(i, l, Failed(got))
    BY <1>2, <2>1, <2>3, AnswerGathers
  <2> QED BY <2>1, <2>2, <2>3
<1>4. CASE ListPage(i, l)
  <2>1. Fetch(i, l, NextPage(got, offer)) /\ ListingOnly /\ got.state = "open"
    BY <1>4 DEF ListPage
  <2>2. Gathered(NextPage(got, offer), serving)
    BY <1>1, <2>1, PageIsGathered
  <2>3. NextPage(got, offer).server = got.server
    BY <1>1, PageIsOfTheServer
  <2> QED BY <2>1, <2>2, <2>3, AnswerGathers
<1>5. CASE TimeOut(i, l)
  BY <1>2, <1>5, AnswerGathers DEF TimeOut
<1> QED BY <1>3, <1>4, <1>5

LEMMA ChangeGathers ==
    ASSUME IInv, Gathering, NEW s \in Server, Change(s)
    PROVE  Gathering'
<1> DEFINE Altered(got) == IF got.server = s /\ got.state = "open"
                           THEN [got EXCEPT !.steady = FALSE] ELSE got
<1>1. /\ \E offer : serving' = [serving EXCEPT ![s] = offer]
      /\ fetch' = [i \in Invocation |-> [l \in DOMAIN fetch[i] |-> Altered(fetch[i][l])]]
      /\ UNCHANGED <<pc, plan>>
  BY DEF Change
<1>2. \A i \in Invocation : /\ DOMAIN fetch'[i] = DOMAIN fetch[i]
                            /\ \A l \in DOMAIN fetch[i] : fetch'[i][l] = Altered(fetch[i][l])
  <2> HIDE DEF Altered
  <2> QED BY <1>1
<1>3. \A t \in Server \ {s} : serving'[t] = serving[t]
  BY <1>1 DEF IInv, Domains
<1>4. ASSUME NEW got, Gathered(got, serving)
      PROVE  Gathered(Altered(got), serving') /\ Altered(got).server = got.server
  <2>1. Shaped(got)
    BY <1>4 DEF Gathered
  <2>2. CASE got.server = s /\ got.state = "open"
    <3> DEFINE new == [got EXCEPT !.steady = FALSE]
    <3>1. /\ DOMAIN new = DOMAIN got /\ new.steady = FALSE
          /\ \A f \in FetchFields \ {"steady"} : new[f] = got[f]
      BY <2>1 DEF Shaped, FetchFields
    <3> HIDE DEF new
    <3>2. /\ new.state = "open" /\ new.server = got.server /\ new.page = got.page
          /\ new.tools = got.tools /\ new.instructions = got.instructions
      BY <2>2, <3>1 DEF FetchFields
    <3>3. Gathered(new, serving')
      BY <2>1, <3>1, <3>2 DEF Gathered, Shaped
    <3> QED BY <2>2, <3>2, <3>3 DEF new
  <2>3. CASE got.server = s /\ got.state # "open"
    BY <1>4, <2>1, <2>3 DEF Gathered
  <2>4. CASE got.server # s
    <3>1. serving'[got.server] = serving[got.server]
      BY <1>3, <2>1, <2>4 DEF Shaped
    <3> QED BY <1>4, <2>4, <3>1 DEF Gathered
  <2> QED BY <2>2, <2>3, <2>4
<1> HIDE DEF Altered
<1>5. ASSUME NEW i \in Invocation, NEW l \in DOMAIN fetch[i]
      PROVE  Gathered(fetch'[i][l], serving') /\ fetch'[i][l].server = fetch[i][l].server
  <2>1. Gathered(fetch[i][l], serving)
    BY DEF Gathering
  <2> QED BY <1>2, <1>4, <2>1
<1> SUFFICES ASSUME NEW j \in Invocation
             PROVE  /\ \A m \in DOMAIN fetch'[j] : Gathered(fetch'[j][m], serving')
                    /\ pc[j] \in Active =>
                        /\ plan[j] \in Plans[j]
                        /\ \A m \in DOMAIN fetch'[j] : fetch'[j][m].server = ServerOf(plan[j], m)
  BY <1>1 DEF Gathering
<1> QED BY <1>2, <1>5 DEF Gathering

\* What an invocation does once every server has been heard, or when it is killed.
LEMMA OthersGather ==
    ASSUME IInv, Gathering, NEW i \in Invocation,
           Report(i) \/ WriteTemp(i) \/ Replace(i) \/ SaveFails(i) \/ Kill(i)
    PROVE  Gathering'
<1>1. /\ UNCHANGED <<serving, plan>>
      /\ fetch' = fetch \/ fetch' = [fetch EXCEPT ![i] = <<>>]
      /\ \E state : pc' = [pc EXCEPT ![i] = state]
      /\ pc[i] \in Active
  BY DEF Report, WriteTemp, Replace, SaveFails, Kill, End, invocation, Active
<1>2. ASSUME NEW j \in Invocation
      PROVE  /\ fetch'[j] = fetch[j] \/ fetch'[j] = <<>>
             /\ pc'[j] \in Active => pc[j] \in Active
  BY <1>1 DEF IInv, TypeOK, Domains
<1> QED BY <1>1, <1>2 DEF Gathering

LEMMA GatheringStep == IInv /\ Gathering /\ [Next]_vars => Gathering'
<1> SUFFICES ASSUME IInv, Gathering, [Next]_vars PROVE Gathering'
  OBVIOUS
<1>1. CASE \E i \in Invocation : \E p \in Plans[i] : Start(i, p)
  BY <1>1, StartGathers
<1>2. CASE \E i \in Invocation : \E l \in DOMAIN fetch[i] :
            Connect(i, l) \/ ListPage(i, l) \/ TimeOut(i, l)
  BY <1>2, ListingGathers
<1>3. CASE \E i \in Invocation :
            Report(i) \/ WriteTemp(i) \/ Replace(i) \/ SaveFails(i) \/ Kill(i)
  BY <1>3, OthersGather
<1>4. CASE \E s \in Server : Change(s)
  BY <1>4, ChangeGathers
<1>5. CASE UNCHANGED vars
  BY <1>5 DEF vars, Gathering
<1> QED BY <1>1, <1>2, <1>3, <1>4, <1>5 DEF Next

LEMMA GatheringInvariant == Spec => [](IInv /\ Gathering)
<1> QED BY Initially, Inductive, GatheringInit, GatheringStep, PTL DEF Spec

(***************************************************************************)
(* inspection/client.py: what was accepted of a server that did not change *)
(* meanwhile is all it offers, page after page, and never too much.        *)
(***************************************************************************)
THEOREM ListingsAreComplete == Spec => []AcceptedIsComplete
<1>1. Gathering => AcceptedIsComplete
  <2> SUFFICES ASSUME Gathering, NEW i \in Invocation, NEW l \in DOMAIN fetch[i],
                      fetch[i][l].state = "listed"
               PROVE  LET got == fetch[i][l]
                      IN /\ Len(got.tools) <= MaxTools
                         /\ got.steady => \E offer \in Offers[got.server] :
                              /\ offer.up /\ ~offer.loops
                              /\ <<got.tools, got.identity>> = <<FlattenSeq(offer.pages), offer.identity>>
    BY DEF AcceptedIsComplete
  <2> QED BY DEF Gathering, Gathered, Whole
<1> QED BY <1>1, GatheringInvariant, PTL

-----------------------------------------------------------------------------
(***************************************************************************)
(* The severity of what is found: a grade of the scale, and no other for   *)
(* a tool as it is stored than for the tool as it was listed.              *)
(***************************************************************************)
LEMMA MaxIsHighest ==
    ASSUME NEW S \in SUBSET SeverityRank, NEW d \in SeverityRank
    PROVE  /\ MaxSeverity(S, d) \in SeverityRank
           /\ \A s \in S : s <= MaxSeverity(S, d)
<1>1. CASE S = {}
  BY <1>1 DEF MaxSeverity
<1>2. CASE S # {}
  <2> DEFINE above == {4 - s : s \in S}
  <2>1. above \in SUBSET Nat /\ above # {}
    BY <1>2 DEF SeverityRank, Info, Critical
  <2>2. PICK m \in above : \A k \in above : m <= k
    BY <2>1, LeastNumber
  <2>3. PICK s \in S : m = 4 - s
    BY <2>2
  <2>4. ASSUME NEW t \in S PROVE t <= s
    <3>1. m <= 4 - t
      BY <2>2
    <3> QED BY <2>3, <3>1 DEF SeverityRank, Info, Critical
  <2> HIDE DEF above
  <2> QED BY <1>2, <2>4 DEF MaxSeverity
<1> QED BY <1>1, <1>2

LEMMA RulesAreGraded ==
    ASSUME NEW id \in {r[1] : r \in PatternRules}
    PROVE  RuleSeverity(id) \in SeverityRank
<1> DEFINE rule == CHOOSE r \in PatternRules : r[1] = id
<1>1. rule \in PatternRules
  OBVIOUS
<1>2. RuleSeverity(id) = Calibrate(rule[2], rule[3])
  BY DEF RuleSeverity
<1> HIDE DEF rule
<1>3. rule[2] \in SeverityRank /\ rule[3] \in Nat
  BY <1>1 DEF PatternRules, SeverityRank, Info, Low, Medium, High, Critical
<1> QED BY <1>2, <1>3 DEF Calibrate, Shift, SeverityRank, Info, Critical

\* A text whose hits are rules of the catalogue.
Known(site) == site.text.hits \subseteq {r[1] : r \in PatternRules}
Graded(F) == \A f \in F : f.severity \in SeverityRank

LEMMA TextIsGraded ==
    ASSUME NEW s, Known(s), NEW name
    PROVE  Graded(ScanPatterns(s, name)) /\ Graded(ScanHiddenUnicode(s, name))
<1>1. Graded(ScanPatterns(s, name))
  BY RulesAreGraded DEF ScanPatterns, Found, Known, Graded
<1>2. Graded(ScanHiddenUnicode(s, name))
  BY DEF ScanHiddenUnicode, Found, Graded, SeverityRank, Info, Medium, High, Critical
<1> QED BY <1>1, <1>2

LEMMA CapabilitiesAreGraded ==
    ASSUME NEW tool
    PROVE  Graded(CheckCapabilities(tool)) /\ Graded(CheckHighRiskCapabilities(tool))
<1> USE DEF SeverityRank, Info, Low, Medium, High, Critical
<1>1. ASSUME NEW f \in CheckCapabilities(tool) PROVE f.severity \in SeverityRank
  <2>1. \E severity \in {Medium, High} : \E at :
            f = Found("MA-021", "excessive_permission", severity, tool.name, at)
    BY DEF CheckCapabilities
  <2> QED BY <2>1 DEF Found
<1>2. ASSUME NEW f \in CheckHighRiskCapabilities(tool) PROVE f.severity \in SeverityRank
  <2>1. \E b \in {Medium, High}, c \in {25, 90} : \E at :
            f = Found("MA-022", "excessive_permission", Calibrate(b, c), tool.name, at)
    BY DEF CheckHighRiskCapabilities
  <2>2. \A b \in {Medium, High}, c \in {25, 90} : Calibrate(b, c) \in SeverityRank
    BY DEF Calibrate, Shift
  <2> QED BY <2>1, <2>2 DEF Found
<1> QED BY <1>1, <1>2 DEF Graded

LEMMA SchemaIsGraded ==
    ASSUME NEW tool
    PROVE  Graded(CheckSchemaRisk(tool))
<1> USE DEF SeverityRank, Info, Low, Medium, High, Critical
<1>1. ASSUME NEW p, NEW f \in CheckParameter(tool, p) PROVE f.severity \in SeverityRank
  BY DEF CheckParameter, Found
<1> QED BY <1>1 DEF CheckSchemaRisk, Found, Graded

LEMMA ToolsAreGraded ==
    ASSUME NEW tool, \A s \in TextSites(tool) : Known(s), NEW siblings
    PROVE  Graded(AnalyzeTool(tool, siblings))
<1> DEFINE others == [n \in DOMAIN siblings \ {tool.name} |-> siblings[n]]
           scanned == UNION {ScanSite(s, tool, others) : s \in TextSites(tool)}
           findings == scanned \union CheckLength(tool) \union CheckPurposeMismatch(tool)
                       \union CheckCapabilities(tool) \union CheckHighRiskCapabilities(tool)
                       \union CheckSchemaRisk(tool)
<1>1. ASSUME NEW s \in TextSites(tool) PROVE Graded(ScanSite(s, tool, others))
  <2>1. Graded(ScanPatterns(s, tool.name)) /\ Graded(ScanHiddenUnicode(s, tool.name))
    BY TextIsGraded
  <2>2. ASSUME NEW f \in ScanCrossTool(s, tool, others) PROVE f.severity \in SeverityRank
    <3>1. PICK ref : f \in {Found("MA-009", "cross_tool_reference", severity, tool.name, s.at) :
                              severity \in JudgeReference(ref, tool, others)}
      BY DEF ScanCrossTool
    <3>2. JudgeReference(ref, tool, others) \subseteq SeverityRank
      BY DEF JudgeReference, SeverityRank, Info, Medium, High, Critical
    <3> QED BY <3>1, <3>2 DEF Found
  <2> QED BY <2>1, <2>2 DEF ScanSite, Graded
<1>2. Graded(scanned)
  BY <1>1 DEF Graded
<1> HIDE DEF scanned
<1>3. Graded(CheckLength(tool)) /\ Graded(CheckPurposeMismatch(tool))
  BY DEF CheckLength, CheckPurposeMismatch, Found, Graded,
         SeverityRank, Info, Low, Medium, Critical
<1>4. Graded(findings)
  BY <1>2, <1>3, CapabilitiesAreGraded, SchemaIsGraded DEF Graded
<1>5. AnalyzeTool(tool, siblings) = WithCompound(tool, findings)
  BY DEF AnalyzeTool, scanned
<1> HIDE DEF findings
<1>6. Graded(WithCompound(tool, findings))
  BY <1>4 DEF WithCompound, Found, Graded, SeverityRank, Info, Critical
<1> QED BY <1>5, <1>6

-----------------------------------------------------------------------------
\* The rules see the same of two pieces of text, and of a tool nothing that they do not see of another.
Twin(s, x) ==
    /\ s.at = x.at /\ s.kind = x.kind /\ s.region = x.region
    /\ s.text.words = x.text.words /\ s.text.hits = x.text.hits
    /\ s.text.refs = x.text.refs /\ s.text.hidden = x.text.hidden
SeenIn(sites, others) == \A s \in sites : \E x \in others : Twin(s, x)
LongIn(prose, others) == (\E d \in prose : d.long) => \E e \in others : e.long
WordsIn(prose, others) == \A d \in prose : \E e \in others : e.words = d.words
SameParams(u, t) ==
    /\ DOMAIN u.params = DOMAIN t.params
    /\ \A p \in DOMAIN t.params : /\ u.params[p].type = t.params[p].type
                                  /\ u.params[p].restricted = t.params[p].restricted
SameFlags(u, t) ==
    /\ u.name = t.name /\ u.open = t.open /\ u.depth = t.depth
    /\ u.outputDepth = t.outputDepth /\ u.hints = t.hints /\ u.caps = t.caps
ShowsNoMore(u, t) ==
    /\ SameFlags(u, t) /\ SameParams(u, t)
    /\ SeenIn(TextSites(u), TextSites(t))
    /\ LongIn(u.description, t.description)
    /\ WordsIn(t.title, u.title)

LEMMA SameCapabilities ==
    ASSUME NEW u, NEW t, SameFlags(u, t), SameParams(u, t)
    PROVE  /\ Declared(u) = Declared(t) /\ InferredFromName(u) = InferredFromName(t)
           /\ InferredFromSchema(u) = InferredFromSchema(t) /\ Effective(u) = Effective(t)
           /\ CheckCapabilities(u) = CheckCapabilities(t)
           /\ CheckHighRiskCapabilities(u) = CheckHighRiskCapabilities(t)
           /\ CheckSchemaRisk(u) = CheckSchemaRisk(t)
<1>1. /\ Declared(u) = Declared(t) /\ InferredFromName(u) = InferredFromName(t)
      /\ InferredFromSchema(u) = InferredFromSchema(t)
  BY DEF SameFlags, SameParams, Declared, InferredFromName, InferredFromSchema
<1>2. \A h, v : Hinted(u, h, v) = Hinted(t, h, v)
  BY DEF SameFlags, Hinted
<1>3. Effective(u) = Effective(t) /\ ClaimsReadOnly(u) = ClaimsReadOnly(t)
  BY <1>1, <1>2 DEF Effective, ClaimsReadOnly
<1>4. u.name = t.name
  BY DEF SameFlags
<1>5. CheckCapabilities(u) = CheckCapabilities(t)
  <2>1. CheckCapabilities(u) \subseteq CheckCapabilities(t)
    BY <1>1, <1>2, <1>3, <1>4 DEF CheckCapabilities
  <2>2. CheckCapabilities(t) \subseteq CheckCapabilities(u)
    BY <1>1, <1>2, <1>3, <1>4 DEF CheckCapabilities
  <2> QED BY <2>1, <2>2
<1>6. CheckHighRiskCapabilities(u) = CheckHighRiskCapabilities(t)
  <2> DEFINE stated(x, c) == c \in Declared(x) \/ (c = "delete" /\ Hinted(x, "destructiveHint", TRUE))
             finding(x, c) ==
                Found("MA-022", "excessive_permission",
                      Calibrate(IF c = "execute" THEN High ELSE Medium,
                                IF stated(x, c) THEN 90 ELSE 25), x.name,
                      IF stated(x, c) THEN <<"_meta", "capabilities">> ELSE <<"name">>)
  <2>1. \A x : CheckHighRiskCapabilities(x) = {finding(x, c) : c \in Effective(x) \cap HighRisk}
    BY DEF CheckHighRiskCapabilities
  <2>2. \A c : stated(u, c) <=> stated(t, c)
    BY <1>1, <1>2
  <2> HIDE DEF stated
  <2>3. \A c : finding(u, c) = finding(t, c)
    BY <1>4, <2>2
  <2> HIDE DEF finding
  <2>4. \A c : c \in Effective(u) \cap HighRisk <=> c \in Effective(t) \cap HighRisk
    BY <1>3
  <2>5. ASSUME NEW f \in CheckHighRiskCapabilities(u) PROVE f \in CheckHighRiskCapabilities(t)
    <3>1. PICK c \in Effective(u) \cap HighRisk : f = finding(u, c)
      BY <2>1
    <3> QED BY <2>1, <2>3, <2>4, <3>1
  <2>6. ASSUME NEW f \in CheckHighRiskCapabilities(t) PROVE f \in CheckHighRiskCapabilities(u)
    <3>1. PICK c \in Effective(t) \cap HighRisk : f = finding(t, c)
      BY <2>1
    <3> QED BY <2>1, <2>3, <2>4, <3>1
  <2> QED BY <2>5, <2>6
<1>7. \A p \in DOMAIN t.params : CheckParameter(u, p) = CheckParameter(t, p)
  <2> SUFFICES ASSUME NEW p \in DOMAIN t.params PROVE CheckParameter(u, p) = CheckParameter(t, p)
    OBVIOUS
  <2>1. u.params[p].type = t.params[p].type /\ u.params[p].restricted = t.params[p].restricted
    BY DEF SameParams
  <2>2. CASE t.params[p].type = "other" \/ t.params[p].restricted
    BY <2>1, <2>2 DEF CheckParameter
  <2>3. CASE ~(t.params[p].type = "other" \/ t.params[p].restricted)
    <3>1. ~(u.params[p].type = "other" \/ u.params[p].restricted)
      BY <2>1, <2>3
    <3>2. CheckParameter(u, p) \subseteq CheckParameter(t, p)
      BY <1>4, <2>1, <2>3, <3>1 DEF CheckParameter
    <3>3. CheckParameter(t, p) \subseteq CheckParameter(u, p)
      BY <1>4, <2>1, <2>3, <3>1 DEF CheckParameter
    <3> QED BY <3>2, <3>3
  <2> QED BY <2>2, <2>3
<1>8. DOMAIN u.params = DOMAIN t.params
  BY DEF SameParams
<1>9. UNION {CheckParameter(u, p) : p \in DOMAIN u.params}
        = UNION {CheckParameter(t, p) : p \in DOMAIN t.params}
  BY <1>7, <1>8, Zenon
<1>10. CheckSchemaRisk(u) = CheckSchemaRisk(t)
  BY <1>4, <1>9, Zenon DEF SameFlags, CheckSchemaRisk
<1> QED BY <1>1, <1>3, <1>5, <1>6, <1>10

\* Findings of the same rules and severities, wherever they are.
AllIn(F, G) == \A f \in F : \E g \in G : g.rule = f.rule /\ g.severity = f.severity

LEMMA SiteShowsNoMore ==
    ASSUME NEW s, NEW x, Twin(s, x), NEW u, NEW t, u.name = t.name,
           NEW us, NEW ts, DOMAIN us = DOMAIN ts,
           \A n \in DOMAIN ts : Effective(us[n]) = Effective(ts[n])
    PROVE  AllIn(ScanSite(s, u, us), ScanSite(x, t, ts))
<1>1. ScanPatterns(s, u.name) = ScanPatterns(x, t.name)
  BY Zenon DEF Twin, ScanPatterns
<1>2. ScanHiddenUnicode(s, u.name) = ScanHiddenUnicode(x, t.name)
  BY Zenon DEF Twin, ScanHiddenUnicode
<1>3. \A ref : JudgeReference(ref, u, us) = JudgeReference(ref, t, ts)
  <2> TAKE ref
  <2>1. CASE ref \notin DOMAIN ts
    BY <2>1 DEF JudgeReference
  <2>2. CASE ref \in DOMAIN ts
    <3>1. ref \in DOMAIN us /\ Effective(us[ref]) = Effective(ts[ref])
      BY <2>2
    <3>2. CASE Effective(ts[ref]) \cap HighRisk # {}
      BY <2>2, <3>1, <3>2 DEF JudgeReference
    <3>3. CASE Effective(ts[ref]) \cap HighRisk = {}
      <4>1. Effective(us[ref]) \cap HighRisk = {}
        BY <3>1, <3>3
      <4> QED BY <2>2, <3>1, <3>3, <4>1 DEF JudgeReference
    <3> QED BY <3>2, <3>3
  <2> QED BY <2>1, <2>2
<1>4. ScanCrossTool(s, u, us) = ScanCrossTool(x, t, ts)
  <2> DEFINE seen(z, site, y, siblings) ==
                {Found("MA-009", "cross_tool_reference", severity, y.name, site.at) :
                    severity \in JudgeReference(z, y, siblings)}
  <2>1. \A z : seen(z, s, u, us) = seen(z, x, t, ts)
    BY <1>3 DEF Twin
  <2>2. ScanCrossTool(s, u, us) =
            UNION {seen(z, s, u, us) : z \in s.text.refs \ (GenericReferents \union {u.name})}
    BY DEF ScanCrossTool
  <2>3. ScanCrossTool(x, t, ts) =
            UNION {seen(z, x, t, ts) : z \in x.text.refs \ (GenericReferents \union {t.name})}
    BY DEF ScanCrossTool
  <2> HIDE DEF seen
  <2> QED BY <2>1, <2>2, <2>3 DEF Twin
<1>5. ScanSite(s, u, us) = ScanSite(x, t, ts)
  BY <1>1, <1>2, <1>4, Zenon DEF Twin, ScanSite
<1> QED BY <1>5 DEF AllIn

LEMMA PurposeShowsNoMore ==
    ASSUME NEW u, NEW t, ShowsNoMore(u, t)
    PROVE  AllIn(CheckPurposeMismatch(u), CheckPurposeMismatch(t))
<1>1. Declared(u) = Declared(t) /\ InferredFromName(u) = InferredFromName(t) /\ u.name = t.name
  BY SameCapabilities DEF ShowsNoMore, SameFlags
<1>2. UNION {DomainsOf(x.words) : x \in t.title} \subseteq UNION {DomainsOf(x.words) : x \in u.title}
  <2> SUFFICES ASSUME NEW x \in t.title, NEW d \in DomainsOf(x.words)
               PROVE  \E y \in u.title : d \in DomainsOf(y.words)
    OBVIOUS
  <2>1. PICK y \in u.title : y.words = x.words
    BY DEF ShowsNoMore, WordsIn
  <2> QED BY <2>1
<1>3. DeclaredDomains(t) \subseteq DeclaredDomains(u)
  <2> DEFINE implied(x) == {ImpliedDomain[c] : c \in (Declared(x) \union InferredFromName(x))
                                                        \cap DOMAIN ImpliedDomain}
  <2>1. implied(u) = implied(t) /\ DomainsOf(Tokens[u.name]) = DomainsOf(Tokens[t.name])
    BY <1>1, Zenon
  <2>2. \A x : DeclaredDomains(x) =
            DomainsOf(Tokens[x.name]) \union (UNION {DomainsOf(y.words) : y \in x.title})
                \union implied(x)
    BY Zenon DEF DeclaredDomains
  <2> HIDE DEF implied
  <2> QED BY <1>2, <2>1, <2>2
<1>4. ASSUME NEW d, NEW s \in Mentions(u, d) PROVE Mentions(t, d) # {}
  <2>1. s \in TextSites(u) /\ s.kind \notin {"tool_name", "tool_title"} /\ s.region # "meta"
        /\ d \in DomainsOf(s.text.words)
    BY DEF Mentions
  <2>2. PICK x \in TextSites(t) : Twin(s, x)
    BY <2>1 DEF ShowsNoMore, SeenIn
  <2>3. x \in Mentions(t, d)
    BY <2>1, <2>2 DEF Mentions, Twin
  <2> QED BY <2>3
<1>5. SUFFICES ASSUME NEW f \in CheckPurposeMismatch(u)
               PROVE  \E g \in CheckPurposeMismatch(t) : g.rule = f.rule /\ g.severity = f.severity
  BY DEF AllIn
<1> DEFINE grade(d) == IF d = "network" THEN Low ELSE Medium
           finding(x, d) == Found("MA-020", "purpose_mismatch", grade(d), x.name,
                                  FirstMention(Mentions(x, d)).at)
<1>6. PICK d \in HighRiskDomains \ DeclaredDomains(u) : Mentions(u, d) # {} /\ f = finding(u, d)
  BY DEF CheckPurposeMismatch
<1>7. d \in HighRiskDomains \ DeclaredDomains(t) /\ Mentions(t, d) # {}
  BY <1>3, <1>4, <1>6
<1>8. finding(t, d) \in CheckPurposeMismatch(t)
  BY <1>7 DEF CheckPurposeMismatch
<1>9. finding(t, d).rule = f.rule /\ finding(t, d).severity = f.severity
  BY <1>6 DEF Found
<1> QED BY <1>8, <1>9

LEMMA StrongIsFinite == IsFiniteSet(StrongPoisoning)
<1>1. IsFiniteSet({"MA-001"})
  BY FS_EmptySet, FS_AddElement
<1>2. IsFiniteSet({"MA-001", "MA-003"})
  BY <1>1, FS_AddElement
<1>3. IsFiniteSet({"MA-001", "MA-003", "MA-004"})
  BY <1>2, FS_AddElement
<1>4. IsFiniteSet({"MA-001", "MA-003", "MA-004", "MA-005"})
  BY <1>3, FS_AddElement
<1>5. IsFiniteSet({"MA-001", "MA-003", "MA-004", "MA-005", "MA-006"})
  BY <1>4, FS_AddElement
<1>6. IsFiniteSet({"MA-001", "MA-003", "MA-004", "MA-005", "MA-006", "MA-008"})
  BY <1>5, FS_AddElement
<1> QED BY <1>6, FS_AddElement DEF StrongPoisoning

LEMMA ToolShowsNoMore ==
    ASSUME NEW u, NEW t, ShowsNoMore(u, t), NEW us, NEW ts, DOMAIN us = DOMAIN ts,
           \A n \in DOMAIN ts : Effective(us[n]) = Effective(ts[n])
    PROVE  AllIn(AnalyzeTool(u, us), AnalyzeTool(t, ts))
<1> DEFINE others(x, siblings) == [n \in DOMAIN siblings \ {x.name} |-> siblings[n]]
           scanned(x, siblings) == UNION {ScanSite(s, x, others(x, siblings)) : s \in TextSites(x)}
           findings(x, siblings) ==
               scanned(x, siblings) \union CheckLength(x) \union CheckPurposeMismatch(x)
                   \union CheckCapabilities(x) \union CheckHighRiskCapabilities(x)
                   \union CheckSchemaRisk(x)
<1>1. u.name = t.name
  BY DEF ShowsNoMore, SameFlags
<1>2. AllIn(scanned(u, us), scanned(t, ts))
  <2> SUFFICES ASSUME NEW s \in TextSites(u), NEW f \in ScanSite(s, u, others(u, us))
               PROVE  \E g \in scanned(t, ts) : g.rule = f.rule /\ g.severity = f.severity
    BY DEF AllIn
  <2>1. PICK x \in TextSites(t) : Twin(s, x)
    BY DEF ShowsNoMore, SeenIn
  <2> DEFINE a == others(u, us)
             b == others(t, ts)
  <2>2. DOMAIN a = DOMAIN b /\ \A n \in DOMAIN b : Effective(a[n]) = Effective(b[n])
    BY <1>1
  <2> HIDE DEF a, b
  <2>3. AllIn(ScanSite(s, u, a), ScanSite(x, t, b))
    BY <1>1, <2>1, <2>2, SiteShowsNoMore
  <2> QED BY <2>3 DEF AllIn, a, b
<1>3. AllIn(CheckLength(u), CheckLength(t))
  <2> SUFFICES ASSUME NEW f \in CheckLength(u)
               PROVE  \E g \in CheckLength(t) : g.rule = f.rule /\ g.severity = f.severity
    BY DEF AllIn
  <2>1. f = Found("MA-012", "tool_poisoning", Low, u.name, <<"description">>)
        /\ \E d \in u.description : d.long
    BY DEF CheckLength
  <2>2. PICK e \in t.description : e.long
    BY <2>1 DEF ShowsNoMore, LongIn
  <2>3. f \in CheckLength(t)
    BY <1>1, <2>1, <2>2 DEF CheckLength
  <2> QED BY <2>3
<1>4. AllIn(CheckPurposeMismatch(u), CheckPurposeMismatch(t))
  BY PurposeShowsNoMore
<1>5. /\ CheckCapabilities(u) = CheckCapabilities(t)
      /\ CheckHighRiskCapabilities(u) = CheckHighRiskCapabilities(t)
      /\ CheckSchemaRisk(u) = CheckSchemaRisk(t)
  BY SameCapabilities DEF ShowsNoMore
<1>6. /\ AnalyzeTool(u, us) = WithCompound(u, findings(u, us))
      /\ AnalyzeTool(t, ts) = WithCompound(t, findings(t, ts))
  BY Zenon DEF AnalyzeTool
<1> HIDE DEF scanned
<1>7. AllIn(findings(u, us), findings(t, ts))
  BY <1>2, <1>3, <1>4, <1>5 DEF AllIn
<1> HIDE DEF findings
<1>8. ASSUME NEW F, NEW G, AllIn(F, G)
      PROVE  AllIn(WithCompound(u, F), WithCompound(t, G))
  <2> DEFINE rules(H) == {h.rule : h \in H} \cap StrongPoisoning
  <2>1. rules(F) \subseteq rules(G)
    BY <1>8 DEF AllIn
  <2>2. IsFiniteSet(rules(G))
    BY StrongIsFinite, FS_Subset
  <2>3. Cardinality(rules(F)) <= Cardinality(rules(G))
        /\ Cardinality(rules(F)) \in Nat /\ Cardinality(rules(G)) \in Nat
    BY <2>1, <2>2, FS_Subset, FS_CardinalityType
  <2>4. Cardinality(rules(F)) >= 3 => Cardinality(rules(G)) >= 3
    BY <2>3
  <2>5. \A H, x : WithCompound(x, H) =
            H \union {f \in {Found("MA-090", "tool_poisoning", Critical, x.name, <<"tool">>)} :
                        Cardinality(rules(H)) >= 3}
    BY Zenon DEF WithCompound
  <2> HIDE DEF rules
  <2> SUFFICES ASSUME NEW f \in WithCompound(u, F)
               PROVE  \E g \in WithCompound(t, G) : g.rule = f.rule /\ g.severity = f.severity
    BY DEF AllIn
  <2>6. CASE f \in F
    BY <1>8, <2>5, <2>6 DEF AllIn
  <2>7. CASE f \notin F
    <3>1. f = Found("MA-090", "tool_poisoning", Critical, t.name, <<"tool">>)
          /\ Cardinality(rules(F)) >= 3
      BY <1>1, <2>5, <2>7
    <3>2. f \in WithCompound(t, G)
      BY <2>4, <2>5, <3>1
    <3> QED BY <3>2
  <2> QED BY <2>6, <2>7
<1> QED BY <1>6, <1>7, <1>8

-----------------------------------------------------------------------------
(***************************************************************************)
(* What is stored of a tool shows the rules no more than the tool itself.  *)
(***************************************************************************)

\* A definition normalised, written out.
Normal(t) ==
    [name |-> t.name, title |-> NormalizeProse(t.title),
     description |-> NormalizeProse(t.description), params |-> NormalizeParams(t.params),
     required |-> Sorted(t.required), open |-> t.open, depth |-> t.depth,
     output |-> NormalizeProse(t.output), outputDepth |-> t.outputDepth, hints |-> t.hints,
     caps |-> t.caps, dropped |-> t.dropped, meta |-> t.meta]
LEMMA NormalForm == ASSUME NEW t, WellFormed(t) PROVE NormalizeTool(t) = Normal(t)
<1> DEFINE u == NormalizeTool(t)
           fields == {"name", "title", "description", "params", "required", "open", "depth",
                      "output", "outputDepth", "hints", "caps", "dropped", "meta"}
<1>1. t = [f \in fields |-> t[f]]
  BY DEF WellFormed
<1>2. u = [f \in fields |-> u[f]]
  BY <1>1 DEF NormalizeTool
<1>3. \A f \in fields : f \in DOMAIN t
  BY <1>1
<1>4. /\ u.title = NormalizeProse(t.title) /\ u.description = NormalizeProse(t.description)
      /\ u.output = NormalizeProse(t.output) /\ u.params = NormalizeParams(t.params)
      /\ u.required = Sorted(t.required)
  BY <1>3 DEF NormalizeTool
<1>5. /\ u.name = t.name /\ u.open = t.open /\ u.depth = t.depth
      /\ u.outputDepth = t.outputDepth /\ u.hints = t.hints /\ u.caps = t.caps
      /\ u.dropped = t.dropped /\ u.meta = t.meta
  BY <1>3 DEF NormalizeTool
<1> HIDE DEF u
<1>6. \A f \in fields : u[f] = Normal(t)[f]
  BY <1>4, <1>5 DEF Normal
<1>7. Normal(t) = [f \in fields |-> Normal(t)[f]]
  BY DEF Normal
<1>8. u = Normal(t)
  BY <1>2, <1>6, <1>7
<1> QED BY <1>8 DEF u

LEMMA SortedHasNoOthers ==
    ASSUME NEW S, NEW list \in Seq(S)
    PROVE  ToSet(Sorted(list)) \subseteq ToSet(list)
<1>1. list \in Reorderings(list)
  <2> DEFINE id == [i \in DOMAIN list |-> i]
  <2>1. id \in Bijection(DOMAIN list, DOMAIN list)
    BY DEF Bijection, Injection, Surjection, IsInjective
  <2>2. list = [i \in DOMAIN list |-> list[id[i]]]
    OBVIOUS
  <2> QED BY <2>1, <2>2 DEF Reorderings
<1>2. Sorted(list) \in Reorderings(list)
  BY <1>1 DEF Sorted
<1>3. PICK p \in Bijection(DOMAIN list, DOMAIN list) : Sorted(list) = [i \in DOMAIN list |-> list[p[i]]]
  BY <1>2 DEF Reorderings
<1>4. \A i \in DOMAIN list : p[i] \in DOMAIN list
  BY DEF Bijection, Injection
<1> QED BY <1>3, <1>4 DEF ToSet

\* White space aside, a text says what it said.
LEMMA ProseIsTwin ==
    ASSUME NEW prose \in SUBSET ToolText, NEW y \in NormalizeProse(prose)
    PROVE  \E z \in prose : /\ y.words = z.words /\ y.hits = z.hits /\ y.refs = z.refs
                            /\ y.hidden = z.hidden /\ (y.long <=> z.long)
BY DEF NormalizeProse, NormalizeText, ToolText

LEMMA ProseStaysTyped ==
    ASSUME NEW prose \in SUBSET ToolText
    PROVE  NormalizeProse(prose) \in SUBSET ToolText
BY DEF NormalizeProse, NormalizeText, ToolText

ProseSites(at, kind, region, prose) == {Site(at, kind, region, y) : y \in prose}
LEMMA ProseShowsNoMore ==
    ASSUME NEW prose \in SUBSET ToolText, NEW at, NEW kind, NEW region
    PROVE  SeenIn(ProseSites(at, kind, region, NormalizeProse(prose)),
                  ProseSites(at, kind, region, prose))
<1> SUFFICES ASSUME NEW y \in NormalizeProse(prose)
             PROVE  \E z \in prose : Twin(Site(at, kind, region, y), Site(at, kind, region, z))
  BY DEF SeenIn, ProseSites
<1>1. PICK z \in prose : /\ y.words = z.words /\ y.hits = z.hits /\ y.refs = z.refs
                         /\ y.hidden = z.hidden
  BY ProseIsTwin
<1> QED BY <1>1 DEF Twin, Site

\* The sites of a definition, by where they come from.
NameSites(tool) ==
    {Site(<<"name">>, "tool_name", "tool", NameText(tool.name))}
    \union {Site(<<"input", p>>, "param_name", "input", NameText(p)) : p \in DOMAIN tool.params}
    \union {Site(<<"required", p>>, "required_name", "input", NameText(p)) :
                p \in ToSet(tool.required)}
ParamSites(tool, p) ==
    ProseSites(<<"input", p, "description">>, "param_description", "input",
               tool.params[p].description)
MetaSites(tool) ==
    ProseSites(<<"_meta", "dropped">>, "meta_value", "meta", tool.dropped)
    \union ProseSites(<<"_meta">>, "meta_value", "meta", tool.meta)
LEMMA SitesComeFrom ==
    ASSUME NEW tool
    PROVE  TextSites(tool) =
             NameSites(tool)
             \union ProseSites(<<"title">>, "tool_title", "tool", tool.title)
             \union ProseSites(<<"description">>, "tool_description", "tool", tool.description)
             \union (UNION {ParamSites(tool, p) : p \in DOMAIN tool.params})
             \union ProseSites(<<"output">>, "output_description", "output", tool.output)
             \union MetaSites(tool)
BY DEF TextSites, NameSites, ProseSites, ParamSites, MetaSites

LEMMA WellFormedFields ==
    ASSUME NEW t, WellFormed(t)
    PROVE  /\ {t.title, t.description, t.output, t.dropped, t.meta} \subseteq SUBSET ToolText
           /\ t.required \in Seq(DOMAIN Tokens)
           /\ \A p \in DOMAIN t.params : /\ t.params[p] \in ToolParam
                                         /\ t.params[p].description \in SUBSET ToolText
BY DEF WellFormed, ToolParam

LEMMA TypedSitesAreKnown ==
    ASSUME NEW tool,
           {tool.title, tool.description, tool.output, tool.dropped, tool.meta} \subseteq SUBSET ToolText,
           \A p \in DOMAIN tool.params : tool.params[p].description \in SUBSET ToolText
    PROVE  \A s \in TextSites(tool) : Known(s)
<1>1. \A y \in ToolText : y.hits \subseteq {r[1] : r \in PatternRules}
  BY DEF ToolText
<1>2. \A n : NameText(n).hits \subseteq {r[1] : r \in PatternRules}
  BY DEF NameText
<1>3. ASSUME NEW at, NEW kind, NEW region, NEW prose \in SUBSET ToolText,
             NEW s \in ProseSites(at, kind, region, prose)
      PROVE  Known(s)
  BY <1>1 DEF ProseSites, Site, Known
<1>4. ASSUME NEW s \in NameSites(tool) PROVE Known(s)
  BY <1>2 DEF NameSites, Site, Known
<1>5. ASSUME NEW p \in DOMAIN tool.params, NEW s \in ParamSites(tool, p) PROVE Known(s)
  BY <1>3 DEF ParamSites
<1> SUFFICES ASSUME NEW s \in TextSites(tool) PROVE Known(s)
  OBVIOUS
<1>6. CASE s \in ProseSites(<<"title">>, "tool_title", "tool", tool.title)
  BY <1>3, <1>6
<1>7. CASE s \in ProseSites(<<"description">>, "tool_description", "tool", tool.description)
  BY <1>3, <1>7
<1>8. CASE s \in ProseSites(<<"output">>, "output_description", "output", tool.output)
  BY <1>3, <1>8
<1>9. CASE s \in MetaSites(tool)
  BY <1>3, <1>9 DEF MetaSites
<1> QED BY <1>4, <1>5, <1>6, <1>7, <1>8, <1>9, SitesComeFrom

LEMMA StoredShowsNoMore ==
    ASSUME NEW t, WellFormed(t)
    PROVE  /\ ShowsNoMore(NormalizeTool(t), t)
           /\ \A s \in TextSites(NormalizeTool(t)) : Known(s)
<1> DEFINE norm == NormalizeTool(t)
<1>1. norm = Normal(t)
  BY NormalForm
<1>2. PICK u : u = norm
  OBVIOUS
<1>3. /\ u.name = t.name /\ u.open = t.open /\ u.depth = t.depth
      /\ u.outputDepth = t.outputDepth /\ u.hints = t.hints /\ u.caps = t.caps
      /\ u.title = NormalizeProse(t.title) /\ u.description = NormalizeProse(t.description)
      /\ u.output = NormalizeProse(t.output) /\ u.dropped = t.dropped /\ u.meta = t.meta
      /\ u.params = NormalizeParams(t.params) /\ u.required = Sorted(t.required)
  BY <1>1, <1>2 DEF Normal
<1> HIDE DEF norm
<1>4. /\ {t.title, t.description, t.output, t.dropped, t.meta} \subseteq SUBSET ToolText
      /\ t.required \in Seq(DOMAIN Tokens)
      /\ \A p \in DOMAIN t.params : /\ t.params[p] \in ToolParam
                                    /\ t.params[p].description \in SUBSET ToolText
  BY WellFormedFields
<1>5. /\ DOMAIN u.params = DOMAIN t.params
      /\ \A p \in DOMAIN t.params :
            /\ u.params[p].description = NormalizeProse(t.params[p].description)
            /\ u.params[p].type = t.params[p].type
            /\ u.params[p].restricted = t.params[p].restricted
  BY <1>3, <1>4 DEF NormalizeParams, ToolParam
<1>6. ASSUME NEW at, NEW kind, NEW region, NEW prose \in SUBSET ToolText
      PROVE  SeenIn(ProseSites(at, kind, region, NormalizeProse(prose)),
                    ProseSites(at, kind, region, prose))
  BY ProseShowsNoMore
<1>7. SeenIn(TextSites(u), TextSites(t))
  <2> SUFFICES ASSUME NEW s \in TextSites(u) PROVE \E x \in TextSites(t) : Twin(s, x)
    BY DEF SeenIn
  <2>1. CASE s \in NameSites(u) \union MetaSites(u)
    <3>1. ToSet(u.required) \subseteq ToSet(t.required)
      BY <1>3, <1>4, SortedHasNoOthers
    <3>2. NameSites(u) \subseteq NameSites(t)
      BY <1>3, <1>5, <3>1 DEF NameSites
    <3>3. s \in TextSites(t)
      BY <1>3, <2>1, <3>2, SitesComeFrom DEF MetaSites
    <3> QED BY <3>3 DEF Twin
  <2>2. CASE s \in ProseSites(<<"title">>, "tool_title", "tool", u.title)
    <3>1. \E x \in ProseSites(<<"title">>, "tool_title", "tool", t.title) : Twin(s, x)
      BY <1>3, <1>4, <1>6, <2>2 DEF SeenIn
    <3> QED BY <3>1, SitesComeFrom
  <2>3. CASE s \in ProseSites(<<"description">>, "tool_description", "tool", u.description)
    <3>1. \E x \in ProseSites(<<"description">>, "tool_description", "tool", t.description) : Twin(s, x)
      BY <1>3, <1>4, <1>6, <2>3 DEF SeenIn
    <3> QED BY <3>1, SitesComeFrom
  <2>4. CASE s \in ProseSites(<<"output">>, "output_description", "output", u.output)
    <3>1. \E x \in ProseSites(<<"output">>, "output_description", "output", t.output) : Twin(s, x)
      BY <1>3, <1>4, <1>6, <2>4 DEF SeenIn
    <3> QED BY <3>1, SitesComeFrom
  <2>5. CASE \E p \in DOMAIN u.params : s \in ParamSites(u, p)
    <3>1. PICK p \in DOMAIN t.params : s \in ParamSites(u, p)
      BY <1>5, <2>5
    <3>2. \E x \in ParamSites(t, p) : Twin(s, x)
      BY <1>4, <1>5, <1>6, <3>1 DEF SeenIn, ParamSites
    <3> QED BY <3>2, SitesComeFrom
  <2> QED BY <2>1, <2>2, <2>3, <2>4, <2>5, SitesComeFrom
<1>8. LongIn(u.description, t.description)
  <2> SUFFICES ASSUME NEW d \in u.description, d.long PROVE \E e \in t.description : e.long
    BY DEF LongIn
  <2>1. PICK e \in t.description : d.long <=> e.long
    BY <1>3, <1>4, ProseIsTwin
  <2> QED BY <2>1
<1>9. WordsIn(t.title, u.title)
  <2> SUFFICES ASSUME NEW d \in t.title PROVE \E e \in u.title : e.words = d.words
    BY DEF WordsIn
  <2>1. NormalizeText(d) \in u.title
    BY <1>3 DEF NormalizeProse
  <2>2. NormalizeText(d).words = d.words
    BY <1>4 DEF NormalizeText, ToolText
  <2> QED BY <2>1, <2>2
<1>10. ShowsNoMore(u, t)
  BY <1>3, <1>5, <1>7, <1>8, <1>9 DEF ShowsNoMore, SameFlags, SameParams
<1>11. \A s \in TextSites(u) : Known(s)
  <2>1. {u.title, u.description, u.output, u.dropped, u.meta} \subseteq SUBSET ToolText
    BY <1>3, <1>4, ProseStaysTyped
  <2>2. \A p \in DOMAIN u.params : u.params[p].description \in SUBSET ToolText
    BY <1>4, <1>5, ProseStaysTyped
  <2> QED BY <2>1, <2>2, TypedSitesAreKnown
<1> QED BY <1>2, <1>10, <1>11 DEF norm

-----------------------------------------------------------------------------
(***************************************************************************)
(* The severity of a drift.                                                *)
(***************************************************************************)
KnownTool(tool) == \A s \in TextSites(tool) : Known(s)

LEMMA IntroducedIsGraded ==
    ASSUME NEW F, Graded(F)
    PROVE  IntroducedSeverity(F) \in SeverityRank
<1> DEFINE other == {IF f.severity > High THEN High ELSE f.severity : f \in F \ ContentFindings(F)}
           capped == MaxSeverity(other, Info)
           susp == SuspicionSeverity(F)
<1>1. other \in SUBSET SeverityRank /\ Info \in SeverityRank
  BY DEF Graded, SeverityRank, Info, High, Critical
<1>2. susp \in SeverityRank
  BY DEF SuspicionSeverity, SeverityRank, Info, High, Critical
<1>3. IntroducedSeverity(F) = MaxSeverity({susp, capped}, Info)
  BY DEF IntroducedSeverity
<1> HIDE DEF other
<1>4. capped \in SeverityRank
  BY <1>1, MaxIsHighest
<1> HIDE DEF susp, capped
<1>5. {susp, capped} \in SUBSET SeverityRank
  BY <1>2, <1>4
<1> QED BY <1>1, <1>3, <1>5, MaxIsHighest

LEMMA GradesAreSeverities ==
    ASSUME NEW old, NEW new, \A n \in DOMAIN new.tools : KnownTool(new.tools[n])
    PROVE  Grades(old, new) \in SUBSET SeverityRank
<1> USE DEF SeverityRank, Info, Low, Medium, High, Critical
<1>1. ASSUME NEW n \in Added(old, new)
      PROVE  AddedSeverity(new.tools[n], AtLeastMedium(AnalyzeTool(new.tools[n], new.tools)))
                \in SeverityRank
  <2> DEFINE found == AtLeastMedium(AnalyzeTool(new.tools[n], new.tools))
  <2>1. Graded(AnalyzeTool(new.tools[n], new.tools))
    BY ToolsAreGraded DEF Added, KnownTool
  <2>2. Graded(found)
    BY <2>1 DEF Graded, AtLeastMedium
  <2> HIDE DEF found
  <2>3. IntroducedSeverity(found) \in SeverityRank
    BY <2>2, IntroducedIsGraded
  <2>4. AddedSeverity(new.tools[n], found) \in SeverityRank
    BY <2>3 DEF AddedSeverity
  <2> QED BY <2>4 DEF found
<1>2. ASSUME NEW n \in Changed(old, new)
      PROVE  ToolSeverity(old.tools[n], new.tools[n], new.tools) \in SeverityRank
  <2> DEFINE introduced == IntroducedFindings(old.tools[n], new.tools[n], new.tools)
             fields == MaxSeverity({c[2] : c \in FieldChanges(old.tools[n], new.tools[n])}, Low)
             brought == IntroducedSeverity(introduced)
  <2>1. Graded(AnalyzeTool(new.tools[n], new.tools))
    BY ToolsAreGraded DEF Changed, KnownTool
  <2>2. Graded(introduced)
    BY <2>1 DEF IntroducedFindings, AtLeastMedium, Graded
  <2>3. {c[2] : c \in FieldChanges(old.tools[n], new.tools[n])} \in SUBSET SeverityRank
    BY DEF FieldChanges
  <2>4. ToolSeverity(old.tools[n], new.tools[n], new.tools) = MaxSeverity({fields, brought}, Low)
    BY DEF ToolSeverity
  <2>5. fields \in SeverityRank
    BY <2>3, MaxIsHighest
  <2> HIDE DEF introduced, fields
  <2>6. brought \in SeverityRank
    BY <2>2, IntroducedIsGraded
  <2> HIDE DEF brought
  <2>7. {fields, brought} \in SUBSET SeverityRank
    BY <2>5, <2>6
  <2> QED BY <2>4, <2>7, MaxIsHighest
<1>3. \A c \in IdentityChanges(old.identity, new.identity) : c[2] \in SeverityRank
  BY DEF IdentityChanges
<1> QED BY <1>1, <1>2, <1>3 DEF Grades

LEMMA DriftIsGraded ==
    ASSUME NEW old, NEW new, \A n \in DOMAIN new.tools : KnownTool(new.tools[n])
    PROVE  /\ CompareSnapshots(old, new).severity \in SeverityRank
           /\ ~CompareSnapshots(old, new).drifted => CompareSnapshots(old, new).severity = Info
           /\ CompareSnapshots(old, new).drifted \in BOOLEAN
<1>1. Grades(old, new) \in SUBSET SeverityRank /\ Info \in SeverityRank
  BY GradesAreSeverities DEF SeverityRank, Info, Critical
<1>2. MaxSeverity(Grades(old, new), Info) \in SeverityRank
  BY <1>1, MaxIsHighest
<1>3. Grades(old, new) = {} => MaxSeverity(Grades(old, new), Info) = Info
  BY DEF MaxSeverity
<1> QED BY <1>2, <1>3 DEF CompareSnapshots, ReportOf

-----------------------------------------------------------------------------
(***************************************************************************)
(* The findings of a report: all of them are graded, and what is found in  *)
(* a snapshot was found in the listing that it is made of.                 *)
(***************************************************************************)
ListedWell(tools) == \A i \in DOMAIN tools : WellFormed(tools[i])

LEMMA NamedAreListed ==
    ASSUME NEW tools, ListedWell(tools)
    PROVE  \A n \in DOMAIN ByName(tools) : WellFormed(ByName(tools)[n])
<1> SUFFICES ASSUME NEW n \in DOMAIN ByName(tools) PROVE WellFormed(ByName(tools)[n])
  OBVIOUS
<1>1. \E t \in ToSet(tools) : t.name = n
  BY DEF ByName, ToSet
<1>2. ByName(tools)[n] = CHOOSE t \in ToSet(tools) : t.name = n
  BY DEF ByName
<1>3. ByName(tools)[n] \in ToSet(tools)
  BY <1>1, <1>2
<1> QED BY <1>3 DEF ListedWell, ToSet

LEMMA SnapshotShowsNoMore ==
    ASSUME NEW tools, ListedWell(tools), NEW id
    PROVE  LET now == BuildSnapshot(tools, id)
               named == ByName(tools)
           IN /\ DOMAIN now.tools = DOMAIN named
              /\ \A n \in DOMAIN named :
                    /\ KnownTool(now.tools[n]) /\ KnownTool(named[n])
                    /\ AllIn(AnalyzeTool(now.tools[n], now.tools), AnalyzeTool(named[n], named))
<1> DEFINE now == BuildSnapshot(tools, id)
           stored == now.tools
           named == ByName(tools)
<1>1. DOMAIN stored = DOMAIN named /\ \A n \in DOMAIN named : stored[n] = NormalizeTool(named[n])
  BY DEF BuildSnapshot
<1>2. \A n \in DOMAIN named : WellFormed(named[n])
  BY NamedAreListed
<1> HIDE DEF now, stored, named
<1>3. ASSUME NEW n \in DOMAIN named
      PROVE  /\ ShowsNoMore(stored[n], named[n]) /\ KnownTool(stored[n]) /\ KnownTool(named[n])
             /\ Effective(stored[n]) = Effective(named[n])
  <2>1. ShowsNoMore(stored[n], named[n]) /\ KnownTool(stored[n])
    BY <1>1, <1>2, StoredShowsNoMore DEF KnownTool
  <2>2. WellFormed(named[n])
    BY <1>2
  <2>3. KnownTool(named[n])
    BY <2>2, WellFormedFields, TypedSitesAreKnown DEF KnownTool
  <2>4. Effective(stored[n]) = Effective(named[n])
    BY <2>1, SameCapabilities DEF ShowsNoMore
  <2> QED BY <2>1, <2>3, <2>4
<1>4. ASSUME NEW n \in DOMAIN named
      PROVE  AllIn(AnalyzeTool(stored[n], stored), AnalyzeTool(named[n], named))
  BY <1>1, <1>3, ToolShowsNoMore
<1> QED BY <1>1, <1>3, <1>4 DEF now, stored, named

LEMMA ShadowingIsGraded ==
    ASSUME NEW servers, NEW order
    PROVE  Graded(DetectShadowing(servers, order))
<1> USE DEF SeverityRank, Info, Low, Medium, High, Critical
<1>1. ASSUME NEW f \in SharedNames(servers) PROVE f.severity \in SeverityRank
  <2>1. \E severity \in {Medium, High} : \E n : f = Found("SH-001", "shadowing", severity, n, <<"tools", n>>)
    BY DEF SharedNames
  <2> QED BY <2>1 DEF Found
<1>2. ASSUME NEW a, NEW b, NEW f \in PairFindings(a, b) PROVE f.severity \in SeverityRank
  BY DEF PairFindings, Found
<1> QED BY <1>1, <1>2 DEF DetectShadowing, Graded

LEMMA InstructionsAreGraded ==
    ASSUME NEW heard, heard.instructions \subseteq ToolText
    PROVE  Graded(InstructionFindings(heard))
<1>1. ASSUME NEW text \in ToolText, NEW at PROVE Graded(AnalyzeText(text, at))
  <2> DEFINE site == Site(at, "tool_response", "response", text)
             seen == ScanPatterns(site, "none") \union ScanHiddenUnicode(site, "none")
  <2>1. Known(site)
    BY DEF Site, Known, ToolText
  <2>2. Graded(seen)
    BY <2>1, TextIsGraded DEF Graded
  <2>3. \A f \in seen : f = [f EXCEPT !.category = f.category] /\ "severity" \in DOMAIN f
    BY DEF ScanPatterns, ScanHiddenUnicode, Found
  <2>4. AnalyzeText(text, at) = {[f EXCEPT !.category = "response_injection"] : f \in seen}
    BY DEF AnalyzeText
  <2> HIDE DEF seen
  <2> QED BY <2>2, <2>3, <2>4 DEF Graded
<1>2. ASSUME NEW text \in ToolText, NEW at, NEW f \in AnalyzeText(text, at)
      PROVE  "severity" \in DOMAIN f
  BY DEF AnalyzeText, ScanPatterns, ScanHiddenUnicode, Found
<1>3. ASSUME NEW text \in ToolText, NEW at, NEW f \in AnalyzeText(text, at)
      PROVE  [f EXCEPT !.category = "tool_poisoning"].severity \in SeverityRank
  BY <1>1, <1>2 DEF Graded
<1> QED BY <1>3 DEF InstructionFindings, Graded

-----------------------------------------------------------------------------
(***************************************************************************)
(* What a report with the status 0 says, whatever was fetched: every label *)
(* was heard, and nothing found under it reaches the threshold.            *)
(***************************************************************************)
HeardWell(p, got) == \A l \in Labels(p) : Shaped(got[l])

LEMMA HeardIsListed ==
    ASSUME NEW p \in UNION Range(Plans), NEW got, HeardWell(p, got),
           NEW l \in Labels(p) \union OfflineLabels(p)
    PROVE  /\ ListedWell(Heard(p, got, l).tools)
           /\ Heard(p, got, l).instructions \subseteq ToolText
<1>1. CASE l \in OfflineLabels(p)
  <2> DEFINE f == CHOOSE g \in p.offline : <<g.stem>> = l
  <2>1. \E g \in p.offline : <<g.stem>> = l
    BY <1>1 DEF OfflineLabels
  <2>2. f \in p.offline
    BY <2>1
  <2>3. OfflineTools(p, l) = f.tools
    BY DEF OfflineTools
  <2> HIDE DEF f
  <2>4. f.tools \in Seq(Range(f.tools)) /\ \A t \in Range(f.tools) : WellFormed(t)
    BY <2>2, PlanAssumption DEF IsListing, IsList
  <2>5. ListedWell(f.tools)
    BY <2>4 DEF ListedWell, Range
  <2> QED BY <1>1, <2>3, <2>5 DEF Heard
<1>2. CASE l \notin OfflineLabels(p)
  <2>1. Shaped(got[l]) /\ Heard(p, got, l) = got[l]
    BY <1>2 DEF Heard, HeardWell
  <2>2. got[l].tools \in Seq(Advertised) /\ got[l].instructions \subseteq ToolText
    BY <2>1 DEF Shaped
  <2>3. ASSUME NEW t \in Advertised PROVE WellFormed(t)
    <3>1. PICK s \in Server : \E offer \in Offers[s] :
            /\ offer.up
            /\ \E page \in Range(offer.pages) : t \in Range(page)
      BY DEF Advertised, UpOffers
    <3> QED BY <3>1, OfferAssumption, Zenon DEF IsListing
  <2>4. \A i \in DOMAIN got[l].tools : got[l].tools[i] \in Advertised
    BY <2>2
  <2> QED BY <2>1, <2>2, <2>3, <2>4 DEF ListedWell
<1> QED BY <1>1, <1>2

Ok(p, got) == {l \in Labels(p) \union OfflineLabels(p) : ServerOk(p, got, l)}
NamedTools(p, got) == [l \in Ok(p, got) |-> ByName(Heard(p, got, l).tools)]

LEMMA SnapshotsAreKnown ==
    ASSUME NEW p \in UNION Range(Plans), NEW got, HeardWell(p, got), NEW l \in Ok(p, got)
    PROVE  LET now == SnapshotOf(p, got, l)
               named == NamedTools(p, got)[l]
           IN /\ DOMAIN now.tools = DOMAIN named
              /\ \A n \in DOMAIN named :
                    /\ KnownTool(now.tools[n]) /\ KnownTool(named[n])
                    /\ AllIn(AnalyzeTool(now.tools[n], now.tools), AnalyzeTool(named[n], named))
<1>1. ListedWell(Heard(p, got, l).tools)
  BY HeardIsListed DEF Ok
<1>2. NamedTools(p, got)[l] = ByName(Heard(p, got, l).tools)
  BY DEF NamedTools
<1>3. SnapshotOf(p, got, l) = BuildSnapshot(Heard(p, got, l).tools, Heard(p, got, l).identity)
  BY DEF SnapshotOf
<1> QED BY <1>1, <1>2, <1>3, SnapshotShowsNoMore

LEMMA FindingsAreOf ==
    ASSUME NEW p, NEW got, NEW book
    PROVE  Findings(p, got, book) =
             AnalyzeServers(NamedTools(p, got))
             \union (UNION {InstructionFindings(Heard(p, got, l)) : l \in Ok(p, got)})
             \union (UNION {DriftFindings(book[l], SnapshotOf(p, got, l)) :
                            l \in Ok(p, got) \cap DOMAIN book})
BY Zenon DEF Findings, Ok, NamedTools

LEMMA FindingsAreGraded ==
    ASSUME NEW p \in UNION Range(Plans), NEW got, HeardWell(p, got), NEW book
    PROVE  Graded(Findings(p, got, book))
<1> DEFINE servers == NamedTools(p, got)
<1>1. DOMAIN servers = Ok(p, got)
  BY DEF NamedTools
<1>2. ASSUME NEW l \in Ok(p, got) PROVE Graded(AnalyzeServer(servers[l]))
  <2>1. \A n \in DOMAIN servers[l] : KnownTool(servers[l][n])
    BY SnapshotsAreKnown
  <2> HIDE DEF servers
  <2>2. \A n \in DOMAIN servers[l] : Graded(AnalyzeTool(servers[l][n], servers[l]))
    BY <2>1, ToolsAreGraded DEF KnownTool
  <2> QED BY <2>2 DEF AnalyzeServer, Graded
<1> HIDE DEF servers
<1>3. Graded(AnalyzeServers(servers))
  <2>1. Graded(DetectShadowing(servers, SetToSeq(DOMAIN servers)))
    BY ShadowingIsGraded
  <2> QED BY <1>1, <1>2, <2>1 DEF AnalyzeServers, Graded
<1>4. ASSUME NEW l \in Ok(p, got) PROVE Graded(InstructionFindings(Heard(p, got, l)))
  BY HeardIsListed, InstructionsAreGraded DEF Ok
<1>5. ASSUME NEW l \in Ok(p, got) PROVE Graded(DriftFindings(book[l], SnapshotOf(p, got, l)))
  <2> DEFINE now == SnapshotOf(p, got, l)
             named == NamedTools(p, got)[l]
  <2>1. DOMAIN now.tools = DOMAIN named /\ \A n \in DOMAIN named : KnownTool(now.tools[n])
    BY SnapshotsAreKnown
  <2> HIDE DEF now, named
  <2>2. \A n \in DOMAIN now.tools : KnownTool(now.tools[n])
    BY <2>1
  <2>3. CompareSnapshots(book[l], now).severity \in SeverityRank
    BY <2>2, DriftIsGraded
  <2>4. \A f \in DriftFindings(book[l], now) : f = DriftFinding(CompareSnapshots(book[l], now))
    BY DEF DriftFindings
  <2>5. DriftFinding(CompareSnapshots(book[l], now)).severity = CompareSnapshots(book[l], now).severity
    BY DEF DriftFinding, Found
  <2>6. Graded(DriftFindings(book[l], now))
    BY <2>3, <2>4, <2>5 DEF Graded
  <2> QED BY <2>6 DEF now
<1> QED BY <1>3, <1>4, <1>5, FindingsAreOf DEF Graded, servers

\* What a report with the status 0 says of a label.
Passed(p, book, r, l) ==
    /\ l \in DOMAIN r.snapshots
    /\ LET now == r.snapshots[l]
       IN /\ \A n \in DOMAIN now.tools : \A f \in AnalyzeTool(now.tools[n], now.tools) :
                f.severity < p.fail_on
          /\ l \in DOMAIN book => CompareSnapshots(book[l], now).severity < p.fail_on

LEMMA CleanReportPasses ==
    ASSUME NEW p \in UNION Range(Plans), NEW got, HeardWell(p, got), NEW book, NEW r,
           r = BuildReport(p, got, book), ExitStatus(p, r) = "0"
    PROVE  \A l \in Labels(p) \union OfflineLabels(p) :
              ServerOk(p, got, l) /\ l \in DOMAIN r.status /\ Passed(p, book, r, l)
<1> DEFINE found == Findings(p, got, book)
           grades == {f.severity : f \in found}
<1>1. /\ r.highest = MaxSeverity(grades, Info)
      /\ DOMAIN r.status = Labels(p) \union OfflineLabels(p)
      /\ DOMAIN r.snapshots = Ok(p, got)
      /\ \A l \in Labels(p) \union OfflineLabels(p) : r.status[l] = PinStatus(p, got, l, book)
      /\ \A l \in Ok(p, got) : r.snapshots[l] = SnapshotOf(p, got, l)
  BY DEF BuildReport, Ok
<1>2. (\A l \in DOMAIN r.status : r.status[l] # "not_checked") /\ ~(r.highest >= p.fail_on)
  BY DEF ExitStatus
<1>3. Graded(found) /\ Info \in SeverityRank
  BY FindingsAreGraded DEF SeverityRank, Info, Critical
<1>4. grades \in SUBSET SeverityRank
  BY <1>3 DEF Graded
<1>5. r.highest \in SeverityRank /\ \A s \in grades : s <= r.highest
  BY <1>1, <1>3, <1>4, MaxIsHighest
<1>6. p.fail_on \in Low..(Critical + 1)
  BY PlanAssumption
<1>7. \A f \in found : f.severity \in SeverityRank /\ f.severity < p.fail_on
  BY <1>2, <1>4, <1>5, <1>6 DEF SeverityRank, Info, Low, Critical
<1> HIDE DEF found, grades
<1> SUFFICES ASSUME NEW l \in Labels(p) \union OfflineLabels(p)
             PROVE  ServerOk(p, got, l) /\ l \in DOMAIN r.status /\ Passed(p, book, r, l)
  OBVIOUS
<1>8. ServerOk(p, got, l) /\ l \in Ok(p, got)
  BY <1>1, <1>2 DEF PinStatus, Ok
<1> DEFINE now == SnapshotOf(p, got, l)
           named == NamedTools(p, got)[l]
<1>9. /\ DOMAIN now.tools = DOMAIN named
      /\ \A n \in DOMAIN named :
            /\ KnownTool(now.tools[n])
            /\ AllIn(AnalyzeTool(now.tools[n], now.tools), AnalyzeTool(named[n], named))
  BY <1>8, SnapshotsAreKnown
<1>10. AnalyzeServers(NamedTools(p, got)) \subseteq found
  BY FindingsAreOf DEF found
<1>11. AnalyzeServer(named) \subseteq found
  BY <1>8, <1>10 DEF AnalyzeServers, NamedTools
<1>12. ASSUME l \in DOMAIN book, CompareSnapshots(book[l], now).drifted
       PROVE  DriftFinding(CompareSnapshots(book[l], now)) \in found
  <2>1. DriftFinding(CompareSnapshots(book[l], now)) \in DriftFindings(book[l], now)
    BY <1>12 DEF DriftFindings
  <2> QED BY <1>8, <1>12, <2>1, FindingsAreOf DEF found
<1> HIDE DEF now, named
<1>13. ASSUME NEW n \in DOMAIN now.tools, NEW f \in AnalyzeTool(now.tools[n], now.tools)
       PROVE  f.severity < p.fail_on
  <2>1. PICK g \in AnalyzeTool(named[n], named) : g.severity = f.severity
    BY <1>9 DEF AllIn
  <2>2. g \in found
    BY <1>9, <1>11 DEF AnalyzeServer
  <2> QED BY <1>7, <2>1, <2>2
<1>14. ASSUME l \in DOMAIN book
       PROVE  CompareSnapshots(book[l], now).severity < p.fail_on
  <2> DEFINE drift == CompareSnapshots(book[l], now)
  <2>1. /\ ~drift.drifted => drift.severity = Info
    BY <1>9, DriftIsGraded
  <2>2. CASE drift.drifted
    <3>1. DriftFinding(drift).severity = drift.severity
      BY DEF DriftFinding, Found
    <3>2. DriftFinding(drift) \in found
      BY <1>12, <1>14, <2>2
    <3> QED BY <1>7, <3>1, <3>2
  <2>3. CASE ~drift.drifted
    BY <1>6, <2>1, <2>3 DEF Info, Low, Critical
  <2> QED BY <2>2, <2>3
<1>15. r.snapshots[l] = now /\ l \in DOMAIN r.snapshots /\ l \in DOMAIN r.status
  BY <1>1, <1>8 DEF now
<1> QED BY <1>8, <1>13, <1>14, <1>15 DEF Passed

-----------------------------------------------------------------------------
(***************************************************************************)
(* What holds of an invocation from the moment its report has the status   *)
(* 0: nothing of what it fetched is open, so that no server can change it  *)
(* any more, and its report is of what it fetched.                         *)
(***************************************************************************)
Clean(status, place, p, r) == status = "0" \/ (place \in Saving /\ ExitStatus(p, r) = "0")
AllListed(p, got) ==
    p.only = {} => \A e \in Range(Loaded(p)) :
        \E l \in Labels(p) : /\ got[l].server = e.server
                             /\ got[l].state = "listed" \/ l \in OfflineLabels(p)
Checked(p, got, book, r) ==
    /\ DOMAIN got = Labels(p) /\ \A l \in DOMAIN got : got[l].state \in {"listed", "failed"}
    /\ AllListed(p, got)
    /\ \A l \in DOMAIN r.status : Passed(p, book, r, l)
CleanIsChecked ==
    \A i \in Invocation : Clean(exit[i], pc[i], plan[i], report[i]) =>
        Checked(plan[i], fetch[i], pins[i], report[i])

LEMMA CleanReportIsChecked ==
    ASSUME NEW p \in UNION Range(Plans), NEW got, NEW book, NEW r,
           HeardWell(p, got), DOMAIN got = Labels(p),
           \A l \in DOMAIN got : got[l].state \in {"listed", "failed"},
           \A l \in DOMAIN got : got[l].server = ServerOf(p, l),
           r = BuildReport(p, got, book), ExitStatus(p, r) = "0"
    PROVE  Checked(p, got, book, r)
<1>1. \A l \in Labels(p) \union OfflineLabels(p) :
        ServerOk(p, got, l) /\ l \in DOMAIN r.status /\ Passed(p, book, r, l)
  BY CleanReportPasses
<1>2. DOMAIN r.status = Labels(p) \union OfflineLabels(p)
  BY DEF BuildReport
<1>3. AllListed(p, got)
  <2> SUFFICES ASSUME p.only = {}, NEW e \in Range(Loaded(p))
               PROVE  \E l \in Labels(p) : /\ got[l].server = e.server
                                           /\ got[l].state = "listed" \/ l \in OfflineLabels(p)
    BY DEF AllListed
  <2>1. PICK l \in Labels(p) : ServerOf(p, l) = e.server
    BY LabelsStandForServers
  <2>2. got[l].state = "listed" \/ l \in OfflineLabels(p)
    BY <1>1 DEF ServerOk, Heard
  <2> QED BY <2>1, <2>2
<1> QED BY <1>1, <1>2, <1>3 DEF Checked

LEMMA CleanInit == Init => CleanIsChecked
BY DEF Init, CleanIsChecked, Clean, Saving

\* Steps that make no report, and leave what the others have.
LEMMA UncleanKeeps ==
    ASSUME IInv, CleanIsChecked, NEW i \in Invocation,
           \A j \in Invocation \ {i} :
                /\ exit'[j] = exit[j] /\ pc'[j] = pc[j] /\ plan'[j] = plan[j]
                /\ fetch'[j] = fetch[j] /\ pins'[j] = pins[j] /\ report'[j] = report[j],
           Clean(exit'[i], pc'[i], plan'[i], report'[i]) =>
                Checked(plan'[i], fetch'[i], pins'[i], report'[i])
    PROVE  CleanIsChecked'
<1> SUFFICES ASSUME NEW j \in Invocation, Clean(exit'[j], pc'[j], plan'[j], report'[j])
             PROVE  Checked(plan'[j], fetch'[j], pins'[j], report'[j])
  BY DEF CleanIsChecked
<1>1. CASE j = i
  BY <1>1
<1>2. CASE j # i
  BY <1>2 DEF CleanIsChecked
<1> QED BY <1>1, <1>2

LEMMA StartIsClean ==
    ASSUME IInv, CleanIsChecked, NEW i \in Invocation, NEW p \in Plans[i], Start(i, p)
    PROVE  CleanIsChecked'
<1>1. /\ pc[i] = "idle" /\ plan' = [plan EXCEPT ![i] = p] /\ UNCHANGED report
      /\ \/ /\ pc' = [pc EXCEPT ![i] = "ended"] /\ exit' = [exit EXCEPT ![i] = "1"]
            /\ UNCHANGED <<pins, fetch>>
         \/ /\ pc' = [pc EXCEPT ![i] = "listing"] /\ UNCHANGED exit
            /\ \E got, book : /\ fetch' = [fetch EXCEPT ![i] = got]
                              /\ pins' = [pins EXCEPT ![i] = book]
  BY DEF Start, End
<1>2. exit[i] = "none"
  BY <1>1 DEF IInv, TypeOK
<1>3. ~Clean(exit'[i], pc'[i], plan'[i], report'[i])
  BY <1>1, <1>2 DEF Clean, Saving, IInv, TypeOK, Domains
<1>4. \A j \in Invocation \ {i} :
         /\ exit'[j] = exit[j] /\ pc'[j] = pc[j] /\ plan'[j] = plan[j]
         /\ fetch'[j] = fetch[j] /\ pins'[j] = pins[j] /\ report'[j] = report[j]
  BY <1>1 DEF IInv, TypeOK, Domains
<1> QED BY <1>3, <1>4, UncleanKeeps

LEMMA ListingIsClean ==
    ASSUME IInv, CleanIsChecked, NEW i \in Invocation, NEW l \in DOMAIN fetch[i],
           Connect(i, l) \/ ListPage(i, l) \/ TimeOut(i, l)
    PROVE  CleanIsChecked'
<1>1. /\ pc[i] = "listing" /\ UNCHANGED <<pc, plan, pins, report, exit>>
      /\ \E got : fetch' = [fetch EXCEPT ![i] = got]
  <2>1. /\ pc[i] = "listing" /\ ListingOnly /\ \E answer : Fetch(i, l, answer)
    BY DEF Connect, ListPage, TimeOut
  <2> QED BY <2>1 DEF ListingOnly, Fetch
<1>2. exit[i] = "none"
  BY <1>1 DEF IInv, TypeOK
<1>3. ~Clean(exit'[i], pc'[i], plan'[i], report'[i])
  BY <1>1, <1>2 DEF Clean, Saving
<1>4. \A j \in Invocation \ {i} :
         /\ exit'[j] = exit[j] /\ pc'[j] = pc[j] /\ plan'[j] = plan[j]
         /\ fetch'[j] = fetch[j] /\ pins'[j] = pins[j] /\ report'[j] = report[j]
  BY <1>1 DEF IInv, TypeOK, Domains
<1> QED BY <1>3, <1>4, UncleanKeeps

LEMMA ReportIsClean ==
    ASSUME IInv, Gathering, CleanIsChecked, NEW i \in Invocation, Report(i)
    PROVE  CleanIsChecked'
<1>1. PICK r : /\ r = BuildReport(plan[i], fetch[i], pins[i])
               /\ report' = [report EXCEPT ![i] = r]
               /\ \/ pc' = [pc EXCEPT ![i] = "saving"] /\ UNCHANGED exit
                  \/ /\ pc' = [pc EXCEPT ![i] = "ended"]
                     /\ exit' = [exit EXCEPT ![i] = ExitStatus(plan[i], r)]
  BY DEF Report, End
<1>2. pc[i] = "listing" /\ Heeded(i) /\ UNCHANGED <<plan, pins, fetch>>
  BY DEF Report
<1>3. exit[i] = "none"
  BY <1>2 DEF IInv, TypeOK
<1>4. \A j \in Invocation \ {i} :
         /\ exit'[j] = exit[j] /\ pc'[j] = pc[j] /\ plan'[j] = plan[j]
         /\ fetch'[j] = fetch[j] /\ pins'[j] = pins[j] /\ report'[j] = report[j]
  BY <1>1, <1>2 DEF IInv, TypeOK, Domains
<1>5. report'[i] = r /\ plan'[i] = plan[i] /\ fetch'[i] = fetch[i] /\ pins'[i] = pins[i]
  BY <1>1, <1>2 DEF IInv, Domains
<1>6. ASSUME Clean(exit'[i], pc'[i], plan'[i], report'[i])
      PROVE  Checked(plan[i], fetch[i], pins[i], r)
  <2>1. ExitStatus(plan[i], r) = "0"
    BY <1>1, <1>3, <1>5, <1>6 DEF Clean, Saving, IInv, TypeOK, Domains
  <2>2. plan[i] \in Plans[i] /\ \A l \in DOMAIN fetch[i] : Gathered(fetch[i][l], serving)
        /\ fetch[i][l].server = ServerOf(plan[i], l)
    BY <1>2 DEF Gathering, Active
  <2>3. plan[i] \in UNION Range(Plans)
    BY <2>2, PlanAssumption DEF Range
  <2>4. DOMAIN fetch[i] = Labels(plan[i])
    BY <1>2 DEF IInv, Fetching
  <2>5. HeardWell(plan[i], fetch[i])
    BY <2>2, <2>4 DEF HeardWell, Gathered
  <2>6. \A l \in DOMAIN fetch[i] : fetch[i][l].state \in {"listed", "failed"}
    BY <1>2 DEF Heeded
  <2>7. \A l \in DOMAIN fetch[i] : fetch[i][l].server = ServerOf(plan[i], l)
    BY <2>2
  <2> QED BY <1>1, <2>1, <2>3, <2>4, <2>5, <2>6, <2>7, CleanReportIsChecked
<1> QED BY <1>4, <1>5, <1>6, UncleanKeeps

LEMMA SavingIsClean ==
    ASSUME IInv, CleanIsChecked, NEW i \in Invocation,
           WriteTemp(i) \/ Replace(i) \/ SaveFails(i)
    PROVE  CleanIsChecked'
<1>1. /\ pc[i] \in Saving /\ UNCHANGED <<plan, pins, fetch, report>>
      /\ \/ pc' = [pc EXCEPT ![i] = "replacing"] /\ UNCHANGED exit
         \/ /\ pc' = [pc EXCEPT ![i] = "ended"]
            /\ exit' = [exit EXCEPT ![i] = ExitStatus(plan[i], report[i])]
         \/ /\ pc' = [pc EXCEPT ![i] = "ended"] /\ exit' = [exit EXCEPT ![i] = "1"]
  BY DEF WriteTemp, Replace, SaveFails, End, Saving, invocation
<1>2. \A j \in Invocation \ {i} :
         /\ exit'[j] = exit[j] /\ pc'[j] = pc[j] /\ plan'[j] = plan[j]
         /\ fetch'[j] = fetch[j] /\ pins'[j] = pins[j] /\ report'[j] = report[j]
  BY <1>1 DEF IInv, TypeOK, Domains
<1>3. ASSUME Clean(exit'[i], pc'[i], plan'[i], report'[i])
      PROVE  Clean(exit[i], pc[i], plan[i], report[i])
  BY <1>1, <1>3 DEF Clean, Saving, IInv, TypeOK, Domains
<1>4. Clean(exit'[i], pc'[i], plan'[i], report'[i]) =>
         Checked(plan'[i], fetch'[i], pins'[i], report'[i])
  BY <1>1, <1>3 DEF CleanIsChecked
<1> QED BY <1>2, <1>4, UncleanKeeps

LEMMA KillIsClean ==
    ASSUME IInv, CleanIsChecked, NEW i \in Invocation, Kill(i)
    PROVE  CleanIsChecked'
<1>1. /\ pc[i] \in Active /\ pc' = [pc EXCEPT ![i] = "killed"] /\ UNCHANGED <<plan, exit>>
      /\ pins' = [pins EXCEPT ![i] = <<>>] /\ fetch' = [fetch EXCEPT ![i] = <<>>]
      /\ report' = [report EXCEPT ![i] = NoReport]
  BY DEF Kill, Active
<1>2. ~Clean(exit'[i], pc'[i], plan'[i], report'[i])
  BY <1>1 DEF Clean, Saving, Active, IInv, TypeOK
<1>3. \A j \in Invocation \ {i} :
         /\ exit'[j] = exit[j] /\ pc'[j] = pc[j] /\ plan'[j] = plan[j]
         /\ fetch'[j] = fetch[j] /\ pins'[j] = pins[j] /\ report'[j] = report[j]
  BY <1>1 DEF IInv, TypeOK, Domains
<1> QED BY <1>2, <1>3, UncleanKeeps

LEMMA ChangeIsClean ==
    ASSUME IInv, CleanIsChecked, NEW s \in Server, Change(s)
    PROVE  CleanIsChecked'
<1>1. /\ fetch' = [i \in Invocation |-> [l \in DOMAIN fetch[i] |->
                    IF fetch[i][l].server = s /\ fetch[i][l].state = "open"
                    THEN [fetch[i][l] EXCEPT !.steady = FALSE] ELSE fetch[i][l]]]
      /\ UNCHANGED <<pc, plan, pins, report, exit>>
  BY DEF Change
<1> SUFFICES ASSUME NEW i \in Invocation, Clean(exit[i], pc[i], plan[i], report[i])
             PROVE  Checked(plan[i], fetch'[i], pins[i], report[i])
  BY <1>1 DEF CleanIsChecked
<1>2. Checked(plan[i], fetch[i], pins[i], report[i])
  BY DEF CleanIsChecked
<1>3. /\ DOMAIN fetch'[i] = DOMAIN fetch[i]
      /\ \A l \in DOMAIN fetch[i] : fetch'[i][l] = fetch[i][l]
  BY <1>1, <1>2 DEF Checked
<1>4. DOMAIN fetch[i] = Labels(plan[i])
  BY <1>2 DEF Checked
<1>5. AllListed(plan[i], fetch'[i])
  BY <1>2, <1>3, <1>4 DEF Checked, AllListed
<1> QED BY <1>2, <1>3, <1>4, <1>5 DEF Checked

LEMMA CleanStep == IInv /\ Gathering /\ CleanIsChecked /\ [Next]_vars => CleanIsChecked'
<1> SUFFICES ASSUME IInv, Gathering, CleanIsChecked, [Next]_vars PROVE CleanIsChecked'
  OBVIOUS
<1>1. CASE \E i \in Invocation : \E p \in Plans[i] : Start(i, p)
  BY <1>1, StartIsClean
<1>2. CASE \E i \in Invocation : \E l \in DOMAIN fetch[i] :
            Connect(i, l) \/ ListPage(i, l) \/ TimeOut(i, l)
  BY <1>2, ListingIsClean
<1>3. CASE \E i \in Invocation : Report(i)
  BY <1>3, ReportIsClean
<1>4. CASE \E i \in Invocation : WriteTemp(i) \/ Replace(i) \/ SaveFails(i)
  BY <1>4, SavingIsClean
<1>5. CASE \E i \in Invocation : Kill(i)
  BY <1>5, KillIsClean
<1>6. CASE \E s \in Server : Change(s)
  BY <1>6, ChangeIsClean
<1>7. CASE UNCHANGED vars
  BY <1>7 DEF vars, CleanIsChecked
<1> QED BY <1>1, <1>2, <1>3, <1>4, <1>5, <1>6, <1>7 DEF Next

(***************************************************************************)
(* cli/main.py: whatever the servers and the other invocations do, an      *)
(* exit status of 0 means that every server asked for was listed to the    *)
(* end and nothing it advertises, or changed since it was pinned, reaches  *)
(* --fail-on.                                                              *)
(***************************************************************************)
THEOREM CleanExitsAreChecked == Spec => []CleanExitMeansChecked
<1>1. CleanIsChecked => CleanExitMeansChecked
  <2> SUFFICES ASSUME CleanIsChecked, NEW i \in Invocation, exit[i] = "0"
               PROVE  /\ AllListed(plan[i], fetch[i])
                      /\ \A l \in DOMAIN report[i].status : Passed(plan[i], pins[i], report[i], l)
    BY Zenon DEF CleanExitMeansChecked, AllListed, Passed
  <2>1. Clean(exit[i], pc[i], plan[i], report[i])
    BY DEF Clean
  <2> QED BY <2>1 DEF CleanIsChecked, Checked
<1> QED BY <1>1, GatheringInvariant, CleanInit, CleanStep, PTL DEF Spec
=============================================================================
