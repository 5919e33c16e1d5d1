-------------------------- MODULE BenchmarkProofs ---------------------------
(***************************************************************************)
(* What the orchestrator promises of a run over any adapters and cases,    *)
(* with any third-party adapters: one answer for every pair, in order,     *)
(* whatever fails, each failure explained in its own trace, no listing     *)
(* scored that the scanner did not scan, every event kept, verdicts drawn  *)
(* from the pair's own evidence, and counts that add up to the pairs.      *)
(***************************************************************************)
EXTENDS Benchmark, InductionFacts

-----------------------------------------------------------------------------
(***************************************************************************)
(* Positions in order: the k-th of a set is the k-th of any initial        *)
(* segment of it that has k members.                                       *)
(***************************************************************************)
LEMMA NthOfSegment ==
    ASSUME NEW S \in SUBSET Nat, NEW T \in SUBSET S, IsFiniteSet(T),
           \A i \in T, j \in S : j <= i => j \in T,
           NEW k \in 1..Cardinality(T),
           \A i \in S : IsFiniteSet({j \in S : j <= i})
    PROVE  Nth(S, k) = Nth(T, k)
<1> DEFINE Below(R, i) == {j \in R : j <= i}
<1>1. \A i \in T : Below(S, i) = Below(T, i)
  <2> SUFFICES ASSUME NEW i \in T, NEW j PROVE j \in Below(S, i) <=> j \in Below(T, i)
    OBVIOUS
  <2>1. j \in S /\ j <= i => j \in T
    OBVIOUS
  <2>2. T \subseteq S
    OBVIOUS
  <2> QED BY <2>1, <2>2
<1>2. ASSUME NEW i \in S \ T PROVE Cardinality(Below(S, i)) # k
  <2>1. T \union {i} \subseteq Below(S, i)
    <3>1. \A j \in T : j <= i
      BY <1>2
    <3> QED BY <3>1, <1>2
  <2>2. Cardinality(T \union {i}) = Cardinality(T) + 1 /\ Cardinality(T) \in Nat
    BY <1>2, FS_AddElement, FS_CardinalityType
  <2>3. Cardinality(T \union {i}) <= Cardinality(Below(S, i))
    BY <2>1, FS_Subset
  <2>4. Cardinality(Below(S, i)) \in Nat
    BY FS_CardinalityType
  <2> QED BY <2>2, <2>3, <2>4
<1>3. {i \in S : Cardinality(Below(S, i)) = k} = {i \in T : Cardinality(Below(T, i)) = k}
  <2>1. \A i \in T : Cardinality(Below(S, i)) = Cardinality(Below(T, i))
    BY <1>1
  <2> HIDE DEF Below
  <2> QED BY <1>2, <2>1
<1> QED BY <1>3 DEF Nth

LEMMA NthOfNext ==
    ASSUME NEW T \in SUBSET Nat, IsFiniteSet(T), NEW n \in Nat, \A i \in T : i < n
    PROVE  /\ Cardinality(T \union {n}) = Cardinality(T) + 1
           /\ Nth(T \union {n}, Cardinality(T) + 1) = n
<1> DEFINE S == T \union {n}
           Below(i) == {j \in S : j <= i}
<1>1. n \notin T /\ Cardinality(T) \in Nat
  BY FS_CardinalityType
<1>2. Cardinality(S) = Cardinality(T) + 1
  BY <1>1, FS_AddElement
<1>3. Below(n) = S
  <2>1. \A j \in S : j <= n
    <3> SUFFICES ASSUME NEW j \in S PROVE j <= n
      OBVIOUS
    <3>1. j \in Nat /\ (j < n \/ j = n)
      OBVIOUS
    <3> QED BY <3>1
  <2> QED BY <2>1
<1>4. ASSUME NEW i \in T PROVE Cardinality(Below(i)) # Cardinality(T) + 1
  <2>1. Below(i) \subseteq T
    BY <1>4
  <2>2. Cardinality(Below(i)) <= Cardinality(T) /\ Cardinality(Below(i)) \in Nat
    BY <2>1, FS_Subset, FS_CardinalityType
  <2> QED BY <1>1, <2>2
<1>5. {i \in S : Cardinality(Below(i)) = Cardinality(T) + 1} = {n}
  <2>1. Cardinality(Below(n)) = Cardinality(T) + 1
    BY <1>2, <1>3
  <2> HIDE DEF Below
  <2> QED BY <1>4, <2>1
<1>6. Nth(S, Cardinality(T) + 1) \in {n}
  BY <1>5 DEF Nth
<1> QED BY <1>2, <1>6

-----------------------------------------------------------------------------
(***************************************************************************)
(* The invariant.                                                          *)
(***************************************************************************)
InFlight == {"prepare", "execute", "verify", "cleanup"}
Status == {"completed", "skipped", "error"}
PlayFields == {"truth", "findings", "approvals", "events", "detected", "blocked", "adapter", "case"}

Shapes ==
    /\ IsSeq(results) /\ IsSeq(traces) /\ IsSeq(played) /\ IsSeq(events) /\ ids \in Nat
    /\ DOMAIN work = {"trace", "listed", "play", "result"}
    /\ DOMAIN work.play = PlayFields

\* Where the run is, and how far.
Flow ==
    /\ stage \in {"starting", "rejected"} => results = <<>> /\ traces = <<>>
    /\ stage = "rejected" => Unknown # {}
    /\ stage \notin {"starting", "rejected"} => Unknown = {}
    /\ stage \in InFlight => Len(results) < Pairs /\ Case.enabled
    /\ stage = "finished" => Len(results) = Pairs
    /\ cancelled => stage \in {"boundary", "finished"}

\* Every result, and the one in hand, is the answer of its pair.
Answers ==
    /\ \A i \in DOMAIN results : NamedForPair(i)
    /\ stage = "cleanup" =>
        LET r == work.result[1]
        IN /\ \/ Adapter \in ThirdParty /\ r.status = "completed"
              \/ r.adapter = Adapter /\ r.case = Case.id
           /\ r.status \in Status /\ ~PassedOver(r)
           /\ r.kinds \subseteq EvidenceKind /\ r.findings \subseteq Finding

\* The traces are those of the pairs tried, their ids two apart.
Tracing ==
    /\ IsFiniteSet(Traced) /\ Len(traces) = Cardinality(Traced)
    /\ \A k \in DOMAIN traces :
           LET n == Nth(Traced, k)
           IN /\ n \in Traced /\ traces[k].trace = 2 * k + 1
              /\ traces[k].adapter = AdapterAt(n) /\ traces[k].case = CaseAt(n).id
              /\ traces[k].status = results[n].status
    /\ \A i \in Traced : CaseAt(i).enabled
    /\ \A i \in DOMAIN results \ Traced :
           CaseAt(i).enabled => cancelled /\ \A j \in Traced : j < i
    /\ stage = "starting" => ids = 0
    /\ stage \in {"boundary", "finished"} => ids = 2 * Len(traces) + 2
    /\ stage \in InFlight => ids = 2 * Len(traces) + 4 /\ work.trace = ids - 1

\* An error is in the trace of a pair that has failed, and in no other.
Errors(t) == {e \in EventsForTrace(t) : e.type = "error"}
Explains(errors, status) == IF status = "completed" THEN errors = {} ELSE Cardinality(errors) = 1
Explained ==
    /\ \A i \in DOMAIN events : events[i].trace \in 0..ids
    /\ \A k \in DOMAIN traces : Explains(Errors(traces[k].trace), traces[k].status)
    /\ stage \in {"prepare", "execute", "verify"} => Errors(work.trace) = {}
    /\ stage = "cleanup" => Explains(Errors(work.trace), work.result[1].status)

\* What the scanner finds in the first n listings of a scenario.
FoundIn(id, n) == UNION {FindingsFromOutput(Reports[ListingsOf(id)[k]]) : k \in 1..n}
FoundInAll(id) == FoundIn(id, Len(ListingsOf(id)))
Scans ==
    /\ IsFiniteSet(DOMAIN cache)
    /\ \A l \in DOMAIN cache : cache[l] \in Printed(l)
    /\ stage \in {"prepare", "execute", "verify"} /\ Adapter = "cisco-mcp-scanner" =>
        /\ stage = "prepare" => work.listed = 0 /\ work.play.findings = {}
        /\ stage = "execute" => /\ work.listed <= Len(ListingsOf(Case.id))
                               /\ work.play.findings = FoundIn(Case.id, work.listed)
        /\ stage = "verify" => work.play.findings = FoundInAll(Case.id)
    /\ \A i \in DOMAIN results :
        results[i].status = "completed" /\ AdapterAt(i) = "cisco-mcp-scanner" =>
            results[i].findings = FoundInAll(CaseAt(i).id)
    /\ stage = "cleanup" /\ work.result[1].status = "completed" /\ Adapter = "cisco-mcp-scanner" =>
        work.result[1].findings = FoundInAll(Case.id)

IInv == TypeOK /\ Shapes /\ Flow /\ Answers /\ Tracing /\ Explained /\ Scans

-----------------------------------------------------------------------------
(***************************************************************************)
(* Plans and records.                                                      *)
(***************************************************************************)
LEMMA SelectedFromCorpus ==
    ASSUME plan \in Plans
    PROVE  IsSeq(Selected) /\ Range(Selected) \subseteq Range(plan.corpus)
<1> DEFINE V == Range(plan.corpus)
           ss == [i \in DOMAIN plan.corpus |->
                     IF plan.corpus[i].id \in plan.wanted THEN <<plan.corpus[i]>> ELSE <<>>]
<1>1. plan.corpus \in Seq(V)
  BY PlanAssumption
<1>2. IsSeq(plan.corpus)
  BY <1>1, SeqOfAnything
<1>3. DOMAIN plan.corpus = 1..Len(plan.corpus) /\ Len(plan.corpus) \in Nat
  BY <1>2, SeqShape
<1>4. Selected \in Seq(V)
  <2>1. CASE plan.wanted = {}
    BY <1>1, <2>1 DEF Selected, Select
  <2>2. CASE plan.wanted # {}
    <3>1. ASSUME NEW i \in DOMAIN plan.corpus PROVE ss[i] \in Seq(V)
      <4>1. plan.corpus[i] \in V
        BY DEF Range
      <4> HIDE DEF V
      <4>2. <<plan.corpus[i]>> \in Seq(V) /\ <<>> \in Seq(V)
        BY <4>1
      <4> QED BY <4>2
    <3>2. ss \in Seq(Seq(V))
      <4>1. ss \in [1..Len(plan.corpus) -> Seq(V)]
        BY <1>3, <3>1
      <4> HIDE DEF ss
      <4> QED BY <1>3, <4>1
    <3>3. SequenceOf(ss, V)
      <4> HIDE DEF ss, V
      <4>1. IsSeq(ss)
        BY <3>2, SeqOfAnything
      <4>2. \A i \in 1..Len(ss) : ss[i] \in Seq(V)
        BY <3>2
      <4> QED BY <4>1, <4>2 DEF SequenceOf
    <3>4. FlattenSeq(ss) \in Seq(V)
      <4> HIDE DEF ss, V
      <4> QED BY <3>3, FlattenFacts
    <3>5. Selected = FlattenSeq(ss)
      BY <2>2 DEF Selected, Select
    <3> QED BY <3>4, <3>5
  <2> QED BY <2>1, <2>2
<1> HIDE DEF V
<1>5. IsSeq(Selected)
  BY <1>4, SeqOfAnything
<1>6. \A i \in DOMAIN Selected : Selected[i] \in V
  BY <1>4
<1>7. Range(Selected) \subseteq V
  BY <1>6 DEF Range
<1> QED BY <1>5, <1>7 DEF V

LEMMA ListingsAreSequences == \A id : IsSeq(ListingsOf(id))
<1> SUFFICES ASSUME NEW id PROVE IsSeq(ListingsOf(id))
  OBVIOUS
<1>1. CASE id \in DOMAIN Listings
  BY <1>1, ListingsAssumption DEF ListingsOf, IsSeq
<1>2. CASE id \notin DOMAIN Listings
  BY <1>2 DEF ListingsOf, IsSeq
<1> QED BY <1>1, <1>2

LEMMA PairsAreNatural ==
    ASSUME plan \in Plans
    PROVE  Pairs \in Nat /\ Len(Selected) \in Nat
<1>1. plan.adapters \in Seq(Range(plan.adapters)) /\ plan.corpus \in Seq(Range(plan.corpus))
  BY PlanAssumption
<1>2. Len(plan.adapters) \in Nat /\ Len(plan.corpus) \in Nat
  BY <1>1
<1>3. Len(Selected) \in Nat
  BY SelectedFromCorpus, SeqShape
<1> QED BY <1>2, <1>3 DEF Pairs

LEMMA TracedIsFinite ==
    ASSUME IsSeq(results)
    PROVE  /\ Traced \subseteq 1..Len(results) /\ IsFiniteSet(Traced)
           /\ \A i \in Nat, S \in SUBSET Nat : IsFiniteSet({j \in S : j <= i})
<1>1. Traced \subseteq 1..Len(results)
  BY SeqShape DEF Traced
<1>2. IsFiniteSet(1..Len(results))
  BY SeqShape, FS_Interval
<1>3. ASSUME NEW i \in Nat, NEW S \in SUBSET Nat PROVE IsFiniteSet({j \in S : j <= i})
  <2>1. IsFiniteSet(0..i)
    BY FS_Interval
  <2>2. {j \in S : j <= i} \subseteq 0..i
    <3> SUFFICES ASSUME NEW j \in S, j <= i PROVE j \in 0..i
      OBVIOUS
    <3>1. j \in Nat
      OBVIOUS
    <3> QED BY <3>1
  <2> QED BY <2>1, <2>2, FS_Subset
<1> QED BY <1>1, <1>2, <1>3, FS_Subset

\* What a record adds to the events of a trace.
LEMMA RecordedEvents ==
    ASSUME IsSeq(events), NEW batch, IsSeq(batch), NEW lost, Record(batch, lost), NEW t
    PROVE  /\ IsSeq(events')
           /\ \A e \in Errors(t)' : e \in Errors(t)
                  \/ \E i \in DOMAIN batch : /\ batch[i].trace = t /\ batch[i].type = "error"
                                            /\ e = Numbered(batch[i], sequence + i)
           /\ Errors(t) \subseteq Errors(t)'
           /\ \A i \in DOMAIN batch : batch[i].trace = t /\ batch[i].type = "error"
                  => Numbered(batch[i], sequence + i) \in Errors(t)'
           /\ \A i \in DOMAIN events' : \/ \E j \in DOMAIN events : events'[i].trace = events[j].trace
                                        \/ \E j \in DOMAIN batch : events'[i].trace = batch[j].trace
<1> DEFINE new == [i \in DOMAIN batch |-> Numbered(batch[i], sequence + i)]
<1>1. events' = events \o new
  BY DEF Record
<1>2. IsSeq(new) /\ Len(new) = Len(batch) /\ DOMAIN new = DOMAIN batch
      /\ \A i \in DOMAIN batch : new[i] = Numbered(batch[i], sequence + i)
  <2> DEFINE S == {Numbered(batch[i], sequence + i) : i \in DOMAIN batch}
  <2>1. DOMAIN batch = 1..Len(batch) /\ Len(batch) \in Nat
    BY SeqShape
  <2>2. new \in [1..Len(batch) -> S]
    BY <2>1
  <2>3. new \in Seq(S)
    BY <2>1, <2>2
  <2>4. DOMAIN new = 1..Len(batch) /\ \A i \in DOMAIN batch : new[i] = Numbered(batch[i], sequence + i)
    BY <2>1
  <2> HIDE DEF new, S
  <2>5. Len(new) = Len(batch)
    BY <2>1, <2>3, <2>4
  <2>6. IsSeq(new)
    BY <2>3, SeqOfAnything
  <2> QED BY <2>1, <2>4, <2>5, <2>6
<1> HIDE DEF new
<1>3. /\ IsSeq(events') /\ Len(events') = Len(events) + Len(batch)
      /\ \A i \in 1..Len(events) : events'[i] = events[i]
      /\ \A i \in 1..Len(batch) : events'[Len(events) + i] = new[i]
  <2>1. /\ IsSeq(events \o new) /\ Len(events \o new) = Len(events) + Len(new)
        /\ \A i \in 1..Len(events) : (events \o new)[i] = events[i]
        /\ \A i \in 1..Len(new) : (events \o new)[Len(events) + i] = new[i]
    <3>1. IsSeq(events) /\ IsSeq(new)
      BY <1>2
    <3> QED BY <3>1, ConcatIsSeq
  <2> QED BY <1>1, <1>2, <2>1
<1>4. /\ DOMAIN events = 1..Len(events) /\ DOMAIN events' = 1..(Len(events) + Len(batch))
      /\ DOMAIN batch = 1..Len(batch) /\ Len(events) \in Nat /\ Len(batch) \in Nat
  BY <1>3, SeqShape
<1>5. \A i \in DOMAIN events' : \/ i \in DOMAIN events /\ events'[i] = events[i]
                               \/ \E j \in DOMAIN batch : events'[i] = new[j]
  <2> SUFFICES ASSUME NEW i \in DOMAIN events', i \notin DOMAIN events
               PROVE  \E j \in DOMAIN batch : events'[i] = new[j]
    BY <1>3, <1>4
  <2>1. i - Len(events) \in 1..Len(batch) /\ Len(events) + (i - Len(events)) = i
    BY <1>4
  <2> QED BY <1>3, <1>4, <2>1
<1>6. \A i \in DOMAIN batch : /\ Len(events) + i \in DOMAIN events'
                             /\ events'[Len(events) + i] = new[i]
  BY <1>3, <1>4
<1>7. \A i \in DOMAIN events : i \in DOMAIN events' /\ events'[i] = events[i]
  BY <1>3, <1>4
<1>8. \A i \in DOMAIN batch : new[i].trace = batch[i].trace /\ new[i].type = batch[i].type
  BY <1>2 DEF Numbered
<1>9. \A e : e \in Errors(t)' <=> \E i \in DOMAIN events' : /\ e = events'[i] /\ events'[i].trace = t
                                                          /\ e.type = "error"
  BY DEF Errors, EventsForTrace
<1>10. \A e : e \in Errors(t) <=> \E i \in DOMAIN events : /\ e = events[i] /\ events[i].trace = t
                                                        /\ e.type = "error"
  BY DEF Errors, EventsForTrace
<1>11. ASSUME NEW e \in Errors(t)', e \notin Errors(t)
       PROVE  \E i \in DOMAIN batch : /\ batch[i].trace = t /\ batch[i].type = "error"
                                     /\ e = Numbered(batch[i], sequence + i)
  <2>1. PICK i \in DOMAIN events' : e = events'[i] /\ events'[i].trace = t /\ e.type = "error"
    BY <1>9, <1>11
  <2>2. PICK j \in DOMAIN batch : events'[i] = new[j]
    BY <1>5, <1>10, <1>11, <2>1
  <2> QED BY <1>2, <1>8, <2>1, <2>2
<1>12. Errors(t) \subseteq Errors(t)'
  BY <1>7, <1>9, <1>10
<1>13. \A i \in DOMAIN batch : batch[i].trace = t /\ batch[i].type = "error"
                  => Numbered(batch[i], sequence + i) \in Errors(t)'
  BY <1>2, <1>6, <1>8, <1>9
<1> QED BY <1>3, <1>5, <1>8, <1>11, <1>12, <1>13

-----------------------------------------------------------------------------
(***************************************************************************)
(* What does not change.                                                   *)
(***************************************************************************)
LEMMA SamePlan ==
    ASSUME plan' = plan
    PROVE  /\ Selected' = Selected /\ Pairs' = Pairs /\ Unknown' = Unknown
           /\ \A n : AdapterAt(n)' = AdapterAt(n) /\ CaseAt(n)' = CaseAt(n)
BY DEF Selected, Pairs, Unknown, AdapterAt, CaseAt

LEMMA SamePair ==
    ASSUME plan' = plan, results' = results
    PROVE  Adapter' = Adapter /\ Case' = Case /\ Traced' = Traced
BY SamePlan DEF Adapter, Case, Traced

LEMMA SameErrors ==
    ASSUME events' = events
    PROVE  \A t : Errors(t)' = Errors(t)
BY DEF Errors, EventsForTrace

LEMMA SamePrinted == \A l : Printed(l)' = Printed(l)
BY DEF Printed, ToolRows

\* A step that concerns no result, no trace and no event.
LEMMA QuietKeeps ==
    ASSUME IInv, plan' = plan, results' = results, traces' = traces, cancelled' = cancelled,
           ids' = ids, events' = events, played' = played, stage' = stage, work' = work,
           cache' = cache, cancel' \in BOOLEAN, cancelled => cancel', installed' \in BOOLEAN
    PROVE  IInv'
<1>1. TypeOK'
  BY SamePlan DEF IInv, TypeOK
<1>2. Shapes'
  BY DEF IInv, Shapes
<1>3. Flow'
  BY SamePlan, SamePair DEF IInv, Flow
<1>4. Answers'
  BY SamePlan, SamePair DEF IInv, Answers, PassedOver, NamedForPair
<1>5. Tracing'
  BY SamePlan, SamePair DEF IInv, Tracing
<1>6. Explained'
  BY SameErrors DEF IInv, Explained
<1>7. Scans'
  BY SamePlan, SamePair, SamePrinted DEF IInv, Scans
<1> QED BY <1>1, <1>2, <1>3, <1>4, <1>5, <1>6, <1>7 DEF IInv

-----------------------------------------------------------------------------
(***************************************************************************)
(* The beginning of a run, and its boundaries.                             *)
(***************************************************************************)
LEMMA Initially == Init => IInv
<1> SUFFICES ASSUME Init PROVE IInv
  OBVIOUS
<1>1. /\ results = <<>> /\ traces = <<>> /\ played = <<>> /\ events = <<>> /\ cache = Empty
      /\ stage = "starting" /\ work = Idle /\ ids = 0 /\ cancel = FALSE /\ cancelled = FALSE
      /\ plan \in Plans /\ installed = TRUE
  BY DEF Init, ScannerInit, EvidenceInit
<1>2. IsSeq(<<>>) /\ DOMAIN <<>> = {} /\ Len(<<>>) = 0
  BY DEF IsSeq
<1>3. Traced = {}
  BY <1>1, <1>2 DEF Traced
<1>4. DOMAIN cache = {} /\ Cardinality(DOMAIN cache) = 0
  BY <1>1, FS_EmptySet DEF Empty
<1>5. TypeOK
  <2>1. 0 \in 0..Pairs
    BY <1>1, PairsAreNatural
  <2>2. /\ work.trace = 0 /\ work.listed = 0 /\ work.result = <<>>
        /\ work.play.findings = {} /\ work.play.approvals = 0
    BY <1>1 DEF Idle, NoPlay
  <2>3. Cardinality(DOMAIN cache) <= MaxCache
    BY <1>4, CacheAssumption
  <2>4. work.trace \in 0..ids /\ work.listed \in Nat /\ Len(results) \in 0..Pairs /\ Len(played) = Len(results)
    BY <1>1, <1>2, <2>1, <2>2
  <2>5. stage = "cleanup" <=> work.result # <<>>
    BY <1>1, <2>2
  <2>6. work.trace # 0 <=> stage \in {"prepare", "execute", "verify", "cleanup"}
    BY <1>1, <2>2
  <2>7. work.play.findings \subseteq Finding /\ work.play.approvals \in Nat
    BY <2>2
  <2>8. DOMAIN results = {}
    BY <1>1, <1>2
  <2> QED BY <1>1, <2>3, <2>4, <2>5, <2>6, <2>7, <2>8 DEF TypeOK
<1>6. Shapes
  BY <1>1, <1>2 DEF Shapes, Idle, NoPlay, PlayFields
<1>7. Flow
  BY <1>1 DEF Flow, InFlight
<1>8. Answers
  BY <1>1, <1>2 DEF Answers
<1>9. Tracing
  BY <1>1, <1>2, <1>3, FS_EmptySet DEF Tracing, InFlight
<1>10. Explained
  BY <1>1, <1>2 DEF Explained
<1>11. Scans
  BY <1>1, <1>2, <1>4, FS_EmptySet DEF Scans
<1> QED BY <1>5, <1>6, <1>7, <1>8, <1>9, <1>10, <1>11 DEF IInv

\* A record of one event.
LEMMA OneEvent ==
    ASSUME IsSeq(events), NEW e, NEW lost, Record(<<e>>, lost)
    PROVE  /\ IsSeq(events')
           /\ \A t : t # e.trace \/ e.type # "error" => Errors(t)' = Errors(t)
           /\ e.type = "error" /\ Errors(e.trace) = {} => Cardinality(Errors(e.trace)') = 1
           /\ \A i \in DOMAIN events' : \/ \E j \in DOMAIN events : events'[i].trace = events[j].trace
                                        \/ events'[i].trace = e.trace
<1>1. IsSeq(<<e>>) /\ DOMAIN <<e>> = {1} /\ <<e>>[1] = e
  <2>1. <<e>> \in Seq({e})
    OBVIOUS
  <2>2. IsSeq(<<e>>)
    BY <2>1, SeqOfAnything
  <2>3. DOMAIN <<e>> = 1..1 /\ <<e>>[1] = e
    OBVIOUS
  <2> QED BY <2>2, <2>3
<1>2. ASSUME NEW t, t # e.trace \/ e.type # "error" PROVE Errors(t)' = Errors(t)
  <2>1. Errors(t) \subseteq Errors(t)'
    BY <1>1, RecordedEvents
  <2>2. \A d \in Errors(t)' : d \in Errors(t)
    BY <1>1, <1>2, RecordedEvents
  <2> QED BY <2>1, <2>2
<1>3. ASSUME e.type = "error", Errors(e.trace) = {} PROVE Cardinality(Errors(e.trace)') = 1
  <2> DEFINE d == Numbered(e, sequence + 1)
  <2>1. \A x \in Errors(e.trace)' : x \in Errors(e.trace) \/ x = d
    BY <1>1, RecordedEvents
  <2>2. d \in Errors(e.trace)'
    BY <1>1, <1>3, RecordedEvents
  <2> HIDE DEF d
  <2>3. Errors(e.trace)' = {d}
    BY <1>3, <2>1, <2>2
  <2> QED BY <2>3, FS_Singleton
<1>4. IsSeq(events')
  BY <1>1, RecordedEvents
<1>5. \A i \in DOMAIN events' : \/ \E j \in DOMAIN events : events'[i].trace = events[j].trace
                               \/ events'[i].trace = e.trace
  BY <1>1, RecordedEvents
<1> QED BY <1>2, <1>3, <1>4, <1>5

LEMMA StartKeeps == ASSUME IInv, Start PROVE IInv'
<1>1. /\ stage = "starting" /\ UNCHANGED <<listing, answered, work, scannerVars>>
      /\ \/ Unknown # {} /\ stage' = "rejected" /\ events' = events /\ ids' = ids
         \/ /\ Unknown = {} /\ stage' = "boundary" /\ ids' = ids + 2
            /\ \E lost : Record(<<Event(RunTrace, "run_started", "orchestrator", None)>>, lost)
  BY DEF Start, RecordNothing, NewTrace
<1>2. /\ plan' = plan /\ results' = results /\ traces' = traces /\ cancelled' = cancelled
      /\ cancel' = cancel /\ played' = played /\ work' = work /\ cache' = cache /\ installed' = installed
  BY <1>1 DEF listing, answered, scannerVars
<1>3. /\ IsSeq(events') /\ \A t : Errors(t)' = Errors(t)
      /\ \A i \in DOMAIN events' : events'[i].trace \in 0..ids'
  <2>1. CASE events' = events /\ ids' = ids
    BY <2>1, SameErrors DEF IInv, Shapes, Explained
  <2>2. CASE ids' = ids + 2 /\ \E lost : Record(<<Event(RunTrace, "run_started", "orchestrator", None)>>, lost)
    <3> DEFINE e == Event(RunTrace, "run_started", "orchestrator", None)
    <3>1. e.trace = 1 /\ e.type # "error"
      BY DEF Event, RunTrace
    <3> HIDE DEF e
    <3>2. PICK lost : Record(<<e>>, lost)
      BY <2>2 DEF e
    <3>3. IsSeq(events)
      BY DEF IInv, Shapes
    <3>4. IsSeq(events') /\ \A t : Errors(t)' = Errors(t)
      BY <3>1, <3>2, <3>3, OneEvent
    <3>5. \A i \in DOMAIN events' : \/ \E j \in DOMAIN events : events'[i].trace = events[j].trace
                                   \/ events'[i].trace = 1
      BY <3>1, <3>2, <3>3, OneEvent
    <3> QED BY <2>2, <3>4, <3>5 DEF IInv, Shapes, Explained
  <2> QED BY <1>1, <2>1, <2>2
<1>4. TypeOK'
  BY <1>1, <1>2, SamePlan DEF IInv, TypeOK, Shapes
<1>5. Shapes'
  BY <1>1, <1>2, <1>3 DEF IInv, Shapes
<1>6. Flow'
  BY <1>1, <1>2, SamePlan DEF IInv, Flow, InFlight
<1>7. Answers'
  BY <1>1, <1>2, SamePlan DEF IInv, Answers, NamedForPair
<1>8. Tracing'
  BY <1>1, <1>2, SamePlan, SamePair, SeqShape DEF IInv, Flow, Tracing, Shapes, InFlight
<1>9. Explained'
  BY <1>1, <1>2, <1>3 DEF IInv, Explained
<1>10. Scans'
  BY <1>1, <1>2, SamePlan, SamePrinted DEF IInv, Scans
<1> QED BY <1>4, <1>5, <1>6, <1>7, <1>8, <1>9, <1>10 DEF IInv

-----------------------------------------------------------------------------
(***************************************************************************)
(* A pair in flight.                                                       *)
(***************************************************************************)
LEMMA MovesOn ==
    ASSUME IInv, UNCHANGED <<listing, answered>>, stage' \in InFlight,
           \/ stage \in InFlight /\ ids' = ids /\ work'.trace = work.trace
           \/ AtBoundary /\ ~cancel /\ Case.enabled /\ ids' = ids + 2 /\ work'.trace = ids + 1
    PROVE  /\ Flow' /\ Tracing'
           /\ work'.trace \in 0..ids' /\ work'.trace # 0 /\ ids' \in Nat /\ ids <= ids'
           /\ \A i \in DOMAIN results : NamedForPair(i)'
<1>1. /\ plan' = plan /\ results' = results /\ traces' = traces /\ cancelled' = cancelled
      /\ cancel' = cancel /\ played' = played
  BY DEF listing, answered
<1>2. /\ Pairs' = Pairs /\ Unknown' = Unknown /\ Adapter' = Adapter /\ Case' = Case
      /\ Traced' = Traced /\ \A n : AdapterAt(n)' = AdapterAt(n) /\ CaseAt(n)' = CaseAt(n)
  BY <1>1, SamePlan, SamePair
<1>3. Len(traces) \in Nat /\ ids \in Nat
  BY SeqShape DEF IInv, Shapes
<1>4. stage \in InFlight \union {"boundary"} /\ ~cancelled
  BY DEF IInv, Flow, TypeOK, AtBoundary, InFlight
<1>5. Flow'
  BY <1>1, <1>2, <1>4 DEF IInv, Flow, InFlight, AtBoundary
<1>6. ids' = 2 * Len(traces) + 4 /\ work'.trace = ids' - 1
  <2>1. CASE stage \in InFlight /\ ids' = ids /\ work'.trace = work.trace
    BY <2>1 DEF IInv, Tracing
  <2>2. CASE AtBoundary /\ ids' = ids + 2 /\ work'.trace = ids + 1
    <3>1. ids = 2 * Len(traces) + 2
      BY <2>2 DEF IInv, Tracing, AtBoundary
    <3> QED BY <1>3, <2>2, <3>1
  <2> QED BY <2>1, <2>2
<1>7. Tracing'
  BY <1>1, <1>2, <1>4, <1>6 DEF IInv, Tracing, InFlight
<1>8. \A i \in DOMAIN results : NamedForPair(i)'
  BY <1>1, <1>2 DEF IInv, Answers, NamedForPair
<1> QED BY <1>3, <1>5, <1>6, <1>7, <1>8

\* The parts of a step in flight that every such step has in common.
LEMMA InFlightType ==
    ASSUME IInv, UNCHANGED <<listing, answered>>, stage' \in InFlight,
           work'.trace \in 0..ids', work'.trace # 0,
           work'.listed \in Nat, work'.play.findings \subseteq Finding, work'.play.approvals \in Nat,
           stage' = "cleanup" <=> work'.result # <<>>,
           Cardinality(DOMAIN cache') <= MaxCache, installed' \in BOOLEAN
    PROVE  TypeOK'
<1>1. /\ plan' = plan /\ results' = results /\ traces' = traces /\ cancelled' = cancelled
      /\ cancel' = cancel /\ played' = played
  BY DEF listing, answered
<1>2. Pairs' = Pairs
  BY <1>1, SamePlan
<1> QED BY <1>1, <1>2 DEF IInv, TypeOK, InFlight

LEMMA CaseBeginsKeeps == ASSUME IInv, CaseBegins PROVE IInv'
<1>1. /\ AtBoundary /\ ~cancel /\ Case.enabled /\ stage' = "prepare"
      /\ work' = [Idle EXCEPT !.trace = ids + 1] /\ ids' = ids + 2 /\ events' = events
      /\ UNCHANGED <<listing, answered, scannerVars>>
  BY DEF CaseBegins, NewTraceId, NewTrace, RecordNothing
<1>2. /\ work'.trace = ids + 1 /\ work'.listed = 0 /\ work'.play = NoPlay /\ work'.result = <<>>
      /\ DOMAIN work' = {"trace", "listed", "play", "result"}
  BY <1>1 DEF Idle
<1>3. /\ NoPlay.findings = {} /\ NoPlay.approvals = 0
      /\ DOMAIN NoPlay = PlayFields
  BY DEF NoPlay, PlayFields
<1>4. /\ plan' = plan /\ results' = results /\ traces' = traces /\ cancelled' = cancelled
      /\ cancel' = cancel /\ played' = played /\ cache' = cache /\ installed' = installed
  BY <1>1 DEF listing, answered, scannerVars
<1>5. /\ Flow' /\ Tracing' /\ work'.trace \in 0..ids' /\ work'.trace # 0 /\ ids' \in Nat
      /\ \A i \in DOMAIN results : NamedForPair(i)'
  BY <1>1, <1>2, MovesOn DEF InFlight
<1>6. TypeOK'
  BY <1>1, <1>2, <1>3, <1>4, <1>5, InFlightType DEF InFlight, IInv, TypeOK
<1>7. Shapes'
  BY <1>1, <1>2, <1>3, <1>4, <1>5 DEF IInv, Shapes
<1>8. Answers'
  BY <1>1, <1>4, <1>5 DEF Answers
<1>9. Explained'
  <2>1. Errors(ids + 1) = {}
    BY DEF IInv, Shapes, Explained, Errors, EventsForTrace
  <2> QED BY <1>1, <1>2, <1>4, <1>5, <2>1, SameErrors DEF IInv, Shapes, Explained
<1>10. Scans'
  BY <1>1, <1>2, <1>3, <1>4, SamePlan, SamePair, SamePrinted DEF IInv, Scans
<1> QED BY <1>5, <1>6, <1>7, <1>8, <1>9, <1>10 DEF IInv

LEMMA EarlierTraces ==
    ASSUME IInv, stage \in InFlight, NEW k \in DOMAIN traces
    PROVE  traces[k].trace # work.trace
<1>1. Len(traces) \in Nat /\ k \in 1..Len(traces)
  BY SeqShape DEF IInv, Shapes
<1>2. traces[k].trace = 2 * k + 1
  BY DEF IInv, Tracing
<1>3. ids = 2 * Len(traces) + 4 /\ work.trace = ids - 1
  BY DEF IInv, Tracing
<1> QED BY <1>1, <1>2, <1>3

\* What is recorded before an exception: events of a guard, in the trace of the case.
LEMMA BegunIsHarmless ==
    ASSUME IInv, NEW before \in Begun
    PROVE  /\ IsSeq(before)
           /\ \A i \in DOMAIN before : before[i].type # "error" /\ before[i].trace = work.trace
<1>1. CASE before = <<>>
  BY <1>1 DEF IsSeq
<1>2. ASSUME NEW play \in PlaysHere, NEW n \in DOMAIN play.events,
             before = Stamped(SubSeq(play.events, 1, n))
      PROVE  /\ IsSeq(before)
             /\ \A i \in DOMAIN before : before[i].type # "error" /\ before[i].trace = work.trace
  <2> DEFINE S == Range(play.events)
             list == SubSeq(play.events, 1, n)
  <2>1. play.events \in Seq(S) /\ \A i \in DOMAIN play.events : play.events[i].type # "error"
    BY PlaysAssumption DEF PlaysHere
  <2> HIDE DEF S
  <2>2. n \in 1..Len(play.events) /\ Len(play.events) \in Nat /\ DOMAIN play.events = 1..Len(play.events)
    BY <2>1
  <2>3. /\ DOMAIN list = 1..n
        /\ \A i \in 1..n : i \in DOMAIN play.events /\ list[i] = play.events[i]
    BY <2>1, <2>2
  <2> HIDE DEF list
  <2>4. DOMAIN before = 1..n /\ before = [i \in 1..n |-> before[i]] /\ n \in Nat
    BY <1>2, <2>2, <2>3 DEF Stamped, list
  <2>5. \A i \in 1..n : before[i].type = list[i].type /\ before[i].trace = work.trace
    BY <1>2, <2>3 DEF Stamped, Event, list
  <2> QED BY <2>1, <2>3, <2>4, <2>5, FunctionIsSeq
<1> QED BY <1>1, <1>2 DEF Begun

\* A record that ends with the error of a trace which had none.
LEMMA LastIsError ==
    ASSUME IsSeq(events), NEW before, IsSeq(before), NEW e, e.type = "error", NEW lost,
           \A i \in DOMAIN before : before[i].type # "error" /\ before[i].trace = e.trace,
           Record(Append(before, e), lost)
    PROVE  /\ IsSeq(events')
           /\ \A t : t # e.trace => Errors(t)' = Errors(t)
           /\ Errors(e.trace) = {} => Cardinality(Errors(e.trace)') = 1
           /\ \A i \in DOMAIN events' : \/ \E j \in DOMAIN events : events'[i].trace = events[j].trace
                                        \/ events'[i].trace = e.trace
<1> DEFINE batch == Append(before, e)
           n == Len(before) + 1
<1>1. /\ IsSeq(batch) /\ Len(batch) = n /\ batch[n] = e
      /\ \A i \in 1..Len(before) : batch[i] = before[i]
  BY AppendIsSeq
<1>2. Len(before) \in Nat /\ DOMAIN before = 1..Len(before) /\ DOMAIN batch = 1..n
  BY <1>1, SeqShape
<1> HIDE DEF batch
<1>3. Record(batch, lost)
  BY DEF batch
<1>4. \A i \in DOMAIN batch : batch[i].trace = e.trace /\ (batch[i].type = "error" => i = n)
  <2> SUFFICES ASSUME NEW i \in DOMAIN batch
               PROVE  batch[i].trace = e.trace /\ (batch[i].type = "error" => i = n)
    OBVIOUS
  <2>1. i = n \/ i \in DOMAIN before
    BY <1>2
  <2> QED BY <1>1, <1>2, <2>1
<1>5. n \in DOMAIN batch
  BY <1>2
<1> HIDE DEF n
<1>6. ASSUME NEW t, t # e.trace PROVE Errors(t)' = Errors(t)
  <2>1. Errors(t) \subseteq Errors(t)' /\ \A d \in Errors(t)' : d \in Errors(t)
    BY <1>1, <1>3, <1>4, <1>6, RecordedEvents
  <2> QED BY <2>1
<1>7. ASSUME Errors(e.trace) = {} PROVE Cardinality(Errors(e.trace)') = 1
  <2> DEFINE d == Numbered(batch[n], sequence + n)
  <2>1. \A x \in Errors(e.trace)' : x \in Errors(e.trace) \/ x = d
    BY <1>1, <1>3, <1>4, RecordedEvents
  <2>2. d \in Errors(e.trace)'
    BY <1>1, <1>3, <1>4, <1>5, RecordedEvents
  <2> HIDE DEF d
  <2>3. Errors(e.trace)' = {d}
    BY <1>7, <2>1, <2>2
  <2> QED BY <2>3, FS_Singleton
<1>8. /\ IsSeq(events')
      /\ \A i \in DOMAIN events' : \/ \E j \in DOMAIN events : events'[i].trace = events[j].trace
                                   \/ events'[i].trace = e.trace
  BY <1>1, <1>3, <1>4, RecordedEvents
<1> QED BY <1>6, <1>7, <1>8

LEMMA GivesUpKeeps ==
    ASSUME IInv, stage \in {"prepare", "execute"}, NEW status \in {"skipped", "error"},
           NEW reason \in {"unavailable", "failed"}, NEW before \in Begun,
           GivesUp(before, status, reason),
           IsFiniteSet(DOMAIN cache'), \A l \in DOMAIN cache' : cache'[l] \in Printed(l),
           Cardinality(DOMAIN cache') <= MaxCache, installed' \in BOOLEAN
    PROVE  IInv'
<1> DEFINE r == NoResult(Adapter, Case, status, reason)
           e == Event(work.trace, "error", "orchestrator", None)
<1>1. /\ stage' = "cleanup" /\ work' = [work EXCEPT !.result = <<r>>, !.play = NoPlay]
      /\ ids' = ids /\ UNCHANGED <<listing, answered>> /\ \E lost : Record(Append(before, e), lost)
  BY DEF GivesUp
<1>2. /\ work'.trace = work.trace /\ work'.listed = work.listed /\ work'.play = NoPlay
      /\ work'.result = <<r>> /\ DOMAIN work' = {"trace", "listed", "play", "result"}
  BY <1>1 DEF IInv, Shapes
<1>3. /\ NoPlay.findings = {} /\ NoPlay.approvals = 0
      /\ DOMAIN NoPlay = PlayFields
  BY DEF NoPlay, PlayFields
<1>4. /\ r.adapter = Adapter /\ r.case = Case.id /\ r.status = status /\ r.reason = reason
      /\ r.kinds = {} /\ r.findings = {}
  BY DEF NoResult
<1>5. e.trace = work.trace /\ e.type = "error"
  BY DEF Event
<1> HIDE DEF r, e
<1>6. /\ plan' = plan /\ results' = results /\ traces' = traces /\ cancelled' = cancelled
      /\ cancel' = cancel /\ played' = played
  BY <1>1 DEF listing, answered
<1>7. /\ Flow' /\ Tracing' /\ work'.trace \in 0..ids' /\ work'.trace # 0
      /\ \A i \in DOMAIN results : NamedForPair(i)'
  BY <1>1, <1>2, MovesOn DEF InFlight
<1>8. TypeOK'
  <2>1. work'.listed \in Nat /\ work'.play.findings \subseteq Finding /\ work'.play.approvals \in Nat
    BY <1>2, <1>3 DEF IInv, TypeOK
  <2>2. stage' = "cleanup" /\ work'.result # <<>>
    BY <1>1, <1>2
  <2> QED BY <1>1, <1>7, <2>1, <2>2, InFlightType DEF InFlight
<1>9. IsSeq(events) /\ ids \in Nat
  BY DEF IInv, Shapes
<1>10. /\ IsSeq(events') /\ \A t : t # work.trace => Errors(t)' = Errors(t)
       /\ Errors(work.trace) = {} => Cardinality(Errors(work.trace)') = 1
       /\ \A i \in DOMAIN events' : \/ \E j \in DOMAIN events : events'[i].trace = events[j].trace
                                    \/ events'[i].trace = work.trace
  BY <1>1, <1>5, <1>9, BegunIsHarmless, LastIsError
<1>11. Shapes'
  BY <1>1, <1>2, <1>3, <1>6, <1>9, <1>10 DEF IInv, Shapes
<1>12. Adapter' = Adapter /\ Case' = Case
  BY <1>6, SamePair
<1>13. work'.result[1] = r
  BY <1>2
<1>14. Answers'
  BY <1>1, <1>4, <1>6, <1>7, <1>12, <1>13 DEF Answers, PassedOver, Status
<1>15. Explained'
  <2>1. \A i \in DOMAIN events' : events'[i].trace \in 0..ids'
    BY <1>1, <1>2, <1>7, <1>10 DEF IInv, Explained
  <2>2. Cardinality(Errors(work.trace)') = 1
    BY <1>10 DEF IInv, Explained
  <2>3. \A k \in DOMAIN traces : traces[k].trace # work.trace
    BY EarlierTraces DEF InFlight
  <2>4. \A k \in DOMAIN traces : Explains(Errors(traces[k].trace), traces[k].status)'
    BY <1>6, <1>10, <2>3 DEF IInv, Explained, Explains
  <2>5. Explains(Errors(work.trace)', r.status)
    BY <1>4, <2>2 DEF Explains
  <2> QED BY <1>1, <1>2, <1>6, <1>13, <2>1, <2>4, <2>5 DEF Explained
<1>16. Scans'
  <2>1. \A l \in DOMAIN cache' : cache'[l] \in Printed(l)'
    BY SamePrinted DEF IInv, Scans
  <2> QED BY <1>1, <1>4, <1>6, <1>13, <2>1, SamePlan DEF IInv, Scans
<1> QED BY <1>7, <1>8, <1>11, <1>14, <1>15, <1>16 DEF IInv

\* A step in flight that records no error.
LEMMA NoErrorKeeps ==
    ASSUME IInv, UNCHANGED <<listing, answered, ids>>,
           stage \in {"prepare", "execute", "verify"}, stage' \in InFlight,
           work'.trace = work.trace,
           IsSeq(events'), \A t : Errors(t)' = Errors(t),
           \A i \in DOMAIN events' : \/ \E j \in DOMAIN events : events'[i].trace = events[j].trace
                                   \/ events'[i].trace = work.trace,
           stage' = "cleanup" => work'.result[1].status = "completed"
    PROVE  Explained'
<1>1. traces' = traces /\ ids' = ids
  BY DEF answered
<1>2. work.trace \in 0..ids
  BY DEF IInv, TypeOK
<1>3. \A i \in DOMAIN events' : events'[i].trace \in 0..ids'
  BY <1>1, <1>2 DEF IInv, Explained
<1>4. \A k \in DOMAIN traces : Explains(Errors(traces[k].trace), traces[k].status)'
  BY <1>1 DEF IInv, Explained, Explains
<1>5. Errors(work.trace)' = {}
  BY DEF IInv, Explained
<1> QED BY <1>1, <1>3, <1>4, <1>5 DEF Explained, Explains

LEMMA PrepareKeeps == ASSUME IInv, Prepare PROVE IInv'
<1>1. /\ stage = "prepare" /\ stage' = "execute" /\ events' = events /\ work' = work /\ ids' = ids
      /\ UNCHANGED <<listing, answered, scannerVars>>
  BY DEF Prepare, RecordNothing
<1>2. /\ plan' = plan /\ results' = results /\ traces' = traces /\ cancelled' = cancelled
      /\ cancel' = cancel /\ played' = played /\ cache' = cache /\ installed' = installed
  BY <1>1 DEF listing, answered, scannerVars
<1>3. /\ Flow' /\ Tracing' /\ work'.trace \in 0..ids' /\ work'.trace # 0
      /\ \A i \in DOMAIN results : NamedForPair(i)'
  BY <1>1, MovesOn DEF InFlight
<1>4. TypeOK'
  BY <1>1, <1>2, <1>3, InFlightType DEF InFlight, IInv, TypeOK
<1>5. Shapes'
  BY <1>1, <1>2 DEF IInv, Shapes
<1>6. Answers'
  BY <1>1, <1>2, <1>3 DEF Answers
<1>7. Explained'
  BY <1>1, <1>2, NoErrorKeeps, SameErrors DEF InFlight, IInv, Shapes
<1>8. Scans'
  <2>1. FoundIn(Case.id, 0) = {}
    BY DEF FoundIn
  <2>2. Len(ListingsOf(Case.id)) \in Nat
    BY ListingsAreSequences, SeqShape
  <2>3. Adapter' = Adapter /\ Case' = Case
    BY <1>2, SamePair
  <2>4. Adapter = "cisco-mcp-scanner" =>
            /\ work.listed <= Len(ListingsOf(Case.id))
            /\ work.play.findings = FoundIn(Case.id, work.listed)
    <3> SUFFICES ASSUME Adapter = "cisco-mcp-scanner"
                 PROVE  /\ work.listed <= Len(ListingsOf(Case.id))
                        /\ work.play.findings = FoundIn(Case.id, work.listed)
      OBVIOUS
    <3>1. work.listed = 0 /\ work.play.findings = {}
      BY <1>1 DEF IInv, Scans
    <3>2. work.listed <= Len(ListingsOf(Case.id))
      BY <2>2, <3>1
    <3> QED BY <2>1, <3>1, <3>2
  <2>5. \A l \in DOMAIN cache' : cache'[l] \in Printed(l)'
    BY <1>2, SamePrinted DEF IInv, Scans
  <2>6. \A i \in DOMAIN results' :
            results'[i].status = "completed" /\ AdapterAt(i)' = "cisco-mcp-scanner" =>
                results'[i].findings = FoundInAll(CaseAt(i)'.id)
    BY <1>2, SamePlan DEF IInv, Scans
  <2>7. Adapter' = "cisco-mcp-scanner" =>
            /\ work'.listed <= Len(ListingsOf(Case'.id))
            /\ work'.play.findings = FoundIn(Case'.id, work'.listed)
    BY <1>1, <2>3, <2>4
  <2>8. IsFiniteSet(DOMAIN cache')
    BY <1>2 DEF IInv, Scans
  <2> QED BY <1>1, <2>5, <2>6, <2>7, <2>8 DEF Scans
<1> QED BY <1>3, <1>4, <1>5, <1>6, <1>7, <1>8 DEF IInv

\* Events that a guard recorded, stamped with the trace of the case.
LEMMA HarmlessEvents ==
    ASSUME IsSeq(events), NEW batch, IsSeq(batch), NEW lost, Record(batch, lost), NEW t,
           \A i \in DOMAIN batch : batch[i].type # "error" /\ batch[i].trace = t
    PROVE  /\ IsSeq(events') /\ \A u : Errors(u)' = Errors(u)
           /\ \A i \in DOMAIN events' : \/ \E j \in DOMAIN events : events'[i].trace = events[j].trace
                                        \/ events'[i].trace = t
<1>1. ASSUME NEW u PROVE Errors(u)' = Errors(u)
  <2>1. Errors(u) \subseteq Errors(u)'
    BY RecordedEvents
  <2>2. \A e \in Errors(u)' : e \in Errors(u)
    BY RecordedEvents
  <2> QED BY <2>1, <2>2
<1>2. IsSeq(events')
  BY RecordedEvents
<1>3. \A i \in DOMAIN events' : \/ \E j \in DOMAIN events : events'[i].trace = events[j].trace
                               \/ events'[i].trace = t
  BY RecordedEvents
<1> QED BY <1>1, <1>2, <1>3

LEMMA PlayKeeps ==
    ASSUME IInv, NEW play \in PlaysHere, PlayScenario(play)
    PROVE  IInv'
<1> DEFINE batch == Stamped(play.events)
           done == [play EXCEPT !.findings = play.findings \union work.play.findings]
<1>1. /\ stage = "execute" /\ stage' = "verify" /\ work' = [work EXCEPT !.play = done] /\ ids' = ids
      /\ Adapter = "cisco-mcp-scanner" => work.listed = Len(ListingsOf(Case.id))
      /\ UNCHANGED <<listing, answered, scannerVars>> /\ \E lost : Record(batch, lost)
  BY DEF PlayScenario
<1>2. /\ DOMAIN play = PlayFields
      /\ play.findings \subseteq Finding /\ play.approvals \in Nat
      /\ play.events \in Seq(Range(play.events))
      /\ \A i \in DOMAIN play.events : play.events[i].type # "error"
      /\ Adapter = "cisco-mcp-scanner" => play.findings = {}
  BY PlaysAssumption DEF PlaysHere, PlayFields
<1>3. /\ DOMAIN done = PlayFields
      /\ done.findings = play.findings \union work.play.findings /\ done.approvals = play.approvals
  BY <1>2
<1>4. /\ IsSeq(batch)
      /\ \A i \in DOMAIN batch : batch[i].type # "error" /\ batch[i].trace = work.trace
  <2>1. IsSeq(play.events)
    BY <1>2 DEF IsSeq
  <2>2. DOMAIN batch = 1..Len(play.events) /\ Len(play.events) \in Nat
    BY <2>1, SeqShape DEF Stamped
  <2>3. batch = [i \in DOMAIN batch |-> batch[i]]
    BY DEF Stamped
  <2>4. \A i \in DOMAIN batch : batch[i].type # "error" /\ batch[i].trace = work.trace
    BY <1>2 DEF Stamped, Event
  <2> HIDE DEF batch
  <2> QED BY <2>2, <2>3, <2>4, FunctionIsSeq
<1> HIDE DEF batch, done
<1>5. /\ work'.trace = work.trace /\ work'.listed = work.listed /\ work'.play = done
      /\ work'.result = work.result /\ DOMAIN work' = {"trace", "listed", "play", "result"}
  BY <1>1 DEF IInv, Shapes
<1>6. /\ plan' = plan /\ results' = results /\ traces' = traces /\ cancelled' = cancelled
      /\ cancel' = cancel /\ played' = played /\ cache' = cache /\ installed' = installed
  BY <1>1 DEF listing, answered, scannerVars
<1>7. /\ Flow' /\ Tracing' /\ work'.trace \in 0..ids' /\ work'.trace # 0
      /\ \A i \in DOMAIN results : NamedForPair(i)'
  BY <1>1, <1>5, MovesOn DEF InFlight
<1>8. TypeOK'
  <2>1. work'.listed \in Nat /\ work'.play.findings \subseteq Finding /\ work'.play.approvals \in Nat
    BY <1>2, <1>3, <1>5 DEF IInv, TypeOK
  <2>2. stage' = "cleanup" <=> work'.result # <<>>
    BY <1>1, <1>5 DEF IInv, TypeOK
  <2>3. Cardinality(DOMAIN cache') <= MaxCache /\ installed' \in BOOLEAN
    BY <1>6 DEF IInv, TypeOK
  <2> QED BY <1>1, <1>7, <2>1, <2>2, <2>3, InFlightType DEF InFlight
<1>9. /\ IsSeq(events') /\ \A t : Errors(t)' = Errors(t)
      /\ \A i \in DOMAIN events' : \/ \E j \in DOMAIN events : events'[i].trace = events[j].trace
                                   \/ events'[i].trace = work.trace
  BY <1>1, <1>4, HarmlessEvents DEF IInv, Shapes
<1>10. Shapes'
  BY <1>1, <1>3, <1>5, <1>6, <1>9 DEF IInv, Shapes
<1>11. Answers'
  BY <1>1, <1>6, <1>7 DEF Answers
<1>12. Explained'
  BY <1>1, <1>5, <1>9, NoErrorKeeps DEF InFlight
<1>13. Scans'
  <2>1. Adapter = "cisco-mcp-scanner" => work'.play.findings = FoundInAll(Case.id)
    BY <1>1, <1>2, <1>3, <1>5 DEF IInv, Scans, FoundInAll
  <2> QED BY <1>1, <1>6, <2>1, SamePlan, SamePair, SamePrinted DEF IInv, Scans
<1> QED BY <1>7, <1>8, <1>10, <1>11, <1>12, <1>13 DEF IInv

-----------------------------------------------------------------------------
(***************************************************************************)
(* The scanner.                                                            *)
(***************************************************************************)

\* Of what is printed of a listing, only its whole report has every tool scanned.
LEMMA ScannedIsComplete ==
    ASSUME NEW l \in DOMAIN Reports, NEW rows \in Printed(l), Scanned(rows)
    PROVE  rows = Reports[l]
<1> SUFFICES ASSUME NEW r \in ToolRows(Reports[l]),
                    rows = (Reports[l] \ {r}) \union {[r EXCEPT !.status = "failed", !.threats = {}]}
             PROVE  FALSE
  BY DEF Printed
<1> DEFINE failed == [r EXCEPT !.status = "failed", !.threats = {}]
<1>1. r.item = "tool" /\ DOMAIN r = {"item", "tool", "status", "severity", "threats"}
  BY ReportsAssumption DEF ToolRows
<1>2. failed.item = "tool" /\ failed.status = "failed" /\ failed \in rows
  BY <1>1
<1> HIDE DEF failed
<1> QED BY <1>2 DEF Scanned, ToolRows, None

LEMMA FindingsAreFindings == \A rows : FindingsFromOutput(rows) \subseteq Finding
<1> SUFFICES ASSUME NEW rows, NEW r \in ToolRows(rows), NEW f \in RowFindings(r) PROVE f \in Finding
  BY DEF FindingsFromOutput
<1>1. PICK t \in r.threats :
        f = [category |-> ThreatCategory(t), severity |-> ScannerSeverity(r.severity),
             matched |-> TRUE, metadata |-> FALSE, cites |-> TRUE, keys |-> {"other"}]
  BY DEF RowFindings
<1>2. ThreatCategory(t) \in Category
  BY DEF ThreatCategory, Category
<1>3. ScannerSeverity(r.severity) \in SeverityRank
  BY DEF ScannerSeverity, SeverityRank
<1> QED BY <1>1, <1>2, <1>3 DEF Finding

LEMMA CacheKeeps ==
    ASSUME IInv, NEW l, NEW rows, RunScanner(l, rows)
    PROVE  /\ rows \in Printed(l) /\ IsFiniteSet(DOMAIN cache') /\ Cardinality(DOMAIN cache') <= MaxCache
           /\ \A m \in DOMAIN cache' : cache'[m] \in Printed(m)
           /\ installed' = installed
<1>1. /\ IsFiniteSet(DOMAIN cache) /\ Cardinality(DOMAIN cache) <= MaxCache
      /\ \A m \in DOMAIN cache : cache[m] \in Printed(m)
  BY DEF IInv, TypeOK, Scans
<1>2. installed' = installed
  BY DEF RunScanner
<1>3. CASE l \in DOMAIN cache
  BY <1>1, <1>2, <1>3 DEF RunScanner
<1>4. CASE l \notin DOMAIN cache
  <2> DEFINE kept == IF Cardinality(DOMAIN cache) >= MaxCache THEN {} ELSE DOMAIN cache
  <2>1. /\ rows \in Printed(l)
        /\ cache' = [m \in kept \union {l} |-> IF m = l THEN rows ELSE cache[m]]
    BY <1>4 DEF RunScanner, Remembered
  <2>2. kept \subseteq DOMAIN cache /\ l \notin kept
    BY <1>4
  <2>3. IsFiniteSet(kept) /\ Cardinality(kept) < MaxCache
    <3>1. Cardinality(DOMAIN cache) \in Nat /\ MaxCache \in Nat /\ MaxCache > 0
      BY <1>1, FS_CardinalityType, CacheAssumption
    <3>2. CASE Cardinality(DOMAIN cache) >= MaxCache
      BY <3>1, <3>2, FS_EmptySet
    <3>3. CASE ~(Cardinality(DOMAIN cache) >= MaxCache)
      BY <1>1, <3>1, <3>3
    <3> QED BY <3>2, <3>3
  <2> HIDE DEF kept
  <2>4. Cardinality(kept \union {l}) = Cardinality(kept) + 1 /\ IsFiniteSet(kept \union {l})
    BY <2>2, <2>3, FS_AddElement
  <2>5. Cardinality(kept) \in Nat /\ MaxCache \in Nat
    BY <2>3, FS_CardinalityType, CacheAssumption
  <2>6. DOMAIN cache' = kept \union {l}
    BY <2>1
  <2>7. Cardinality(kept \union {l}) <= MaxCache
    BY <2>3, <2>4, <2>5
  <2>8. \A m \in DOMAIN cache' : cache'[m] \in Printed(m)
    BY <1>1, <2>1, <2>2
  <2> QED BY <1>2, <2>1, <2>4, <2>6, <2>7, <2>8
<1> QED BY <1>3, <1>4

LEMMA FoundInNext ==
    ASSUME NEW id, NEW n \in Nat
    PROVE  FoundIn(id, n + 1) = FoundIn(id, n) \union FindingsFromOutput(Reports[ListingsOf(id)[n + 1]])
<1> DEFINE F(k) == FindingsFromOutput(Reports[ListingsOf(id)[k]])
<1>1. \A k \in 1..(n + 1) : k \in 1..n \/ k = n + 1
  OBVIOUS
<1>2. \A k \in 1..n : k \in 1..(n + 1)
  OBVIOUS
<1>3. n + 1 \in 1..(n + 1)
  OBVIOUS
<1> HIDE DEF F
<1>4. UNION {F(k) : k \in 1..(n + 1)} = (UNION {F(k) : k \in 1..n}) \union F(n + 1)
  BY <1>1, <1>2, <1>3
<1> QED BY <1>4 DEF FoundIn, F

\* What the scanner was asked for, and the events of what it found there.
LEMMA ScannedListing ==
    ASSUME IInv, Scanning, NEW rows, ScanListing(rows)
    PROVE  LET l == ListingsOf(Case.id)[work.listed + 1]
               found == FindingsFromOutput(rows)
           IN /\ l \in DOMAIN Reports /\ rows \in Printed(l)
              /\ IsFiniteSet(DOMAIN cache') /\ Cardinality(DOMAIN cache') <= MaxCache
              /\ \A m \in DOMAIN cache' : cache'[m] \in Printed(m)
              /\ installed' \in BOOLEAN
              /\ Scanned(rows) =>
                     /\ found = FindingsFromOutput(Reports[l]) /\ Cardinality(found) \in Nat
                     /\ IsSeq([i \in 1..Cardinality(found) |->
                                  Event(work.trace, "static_finding", Adapter, None)])
<1> DEFINE id == Case.id
           n == work.listed + 1
           l == ListingsOf(id)[n]
           found == FindingsFromOutput(rows)
           batch == [i \in 1..Cardinality(found) |-> Event(work.trace, "static_finding", Adapter, None)]
<1>1. /\ stage = "execute" /\ Adapter = "cisco-mcp-scanner" /\ work.listed < Len(ListingsOf(id))
      /\ RunScanner(l, rows)
  BY DEF Scanning, ScanListing
<1>2. work.listed \in Nat
  BY DEF IInv, TypeOK
<1>3. IsSeq(ListingsOf(id)) /\ Len(ListingsOf(id)) \in Nat /\ DOMAIN ListingsOf(id) = 1..Len(ListingsOf(id))
  BY ListingsAreSequences, SeqShape
<1>4. l \in DOMAIN Reports
  <2>1. n \in DOMAIN ListingsOf(id)
    BY <1>1, <1>2, <1>3
  <2>2. id \in DOMAIN Listings
    BY <2>1 DEF ListingsOf
  <2>3. l \in Range(Listings[id])
    BY <2>1, <2>2 DEF ListingsOf, Range
  <2> QED BY <2>2, <2>3, ListingsAssumption
<1>5. /\ rows \in Printed(l) /\ IsFiniteSet(DOMAIN cache') /\ Cardinality(DOMAIN cache') <= MaxCache
      /\ \A m \in DOMAIN cache' : cache'[m] \in Printed(m)
      /\ installed' \in BOOLEAN
  BY <1>1, CacheKeeps DEF IInv, TypeOK
<1>6. ASSUME Scanned(rows)
      PROVE  found = FindingsFromOutput(Reports[l]) /\ Cardinality(found) \in Nat /\ IsSeq(batch)
  <2>1. found = FindingsFromOutput(Reports[l]) /\ Cardinality(found) \in Nat
    BY <1>4, <1>5, <1>6, ScannedIsComplete, ReportsAssumption, FS_CardinalityType
  <2>2. batch = [i \in 1..Cardinality(found) |-> batch[i]] /\ DOMAIN batch = 1..Cardinality(found)
    OBVIOUS
  <2>3. IsSeq(batch)
    <3> HIDE DEF batch, found
    <3> QED BY <2>1, <2>2, FunctionIsSeq
  <2> QED BY <2>1, <2>3
<1> QED BY <1>4, <1>5, <1>6

LEMMA ScanKeeps ==
    ASSUME IInv, Scanning, NEW rows, ScanListing(rows)
    PROVE  IInv'
<1> DEFINE id == Case.id
           n == work.listed + 1
           l == ListingsOf(id)[n]
           found == FindingsFromOutput(rows)
           batch == [i \in 1..Cardinality(found) |-> Event(work.trace, "static_finding", Adapter, None)]
<1>1. /\ stage = "execute" /\ Adapter = "cisco-mcp-scanner" /\ work.listed < Len(ListingsOf(id))
      /\ RunScanner(l, rows)
  BY DEF Scanning, ScanListing
<1>2. /\ work.listed \in Nat /\ work.play.findings \subseteq Finding
      /\ work.play.findings = FoundIn(id, work.listed)
      /\ work.play.approvals \in Nat
  BY <1>1 DEF IInv, TypeOK, Scans
<1>3. IsSeq(ListingsOf(id)) /\ Len(ListingsOf(id)) \in Nat /\ DOMAIN ListingsOf(id) = 1..Len(ListingsOf(id))
  BY ListingsAreSequences, SeqShape
<1>4. l \in DOMAIN Reports
  BY ScannedListing
<1>5. /\ rows \in Printed(l) /\ IsFiniteSet(DOMAIN cache') /\ Cardinality(DOMAIN cache') <= MaxCache
      /\ \A m \in DOMAIN cache' : cache'[m] \in Printed(m)
      /\ installed' \in BOOLEAN
  BY ScannedListing
<1>6. CASE ~Scanned(rows)
  <2>1. \E before \in Begun : GivesUp(before, "error", "failed")
    BY <1>6 DEF ScanListing
  <2> HIDE DEF id, n, l, found, batch
  <2> QED BY <1>1, <1>5, <2>1, GivesUpKeeps
<1>7. CASE Scanned(rows)
  <2>1. /\ work' = [work EXCEPT !.listed = work.listed + 1,
                                !.play.findings = work.play.findings \union found]
        /\ \E lost : Record(batch, lost)
        /\ UNCHANGED <<listing, answered, stage, ids>>
    BY <1>7 DEF ScanListing
  <2>2. found = FindingsFromOutput(Reports[l]) /\ Cardinality(found) \in Nat
    BY <1>7, ScannedListing
  <2>3. /\ work'.trace = work.trace /\ work'.listed = n /\ work'.result = work.result
        /\ work'.play = [work.play EXCEPT !.findings = work.play.findings \union found]
        /\ DOMAIN work' = {"trace", "listed", "play", "result"}
    BY <2>1 DEF IInv, Shapes
  <2>4. /\ work'.play.findings = work.play.findings \union found
        /\ work'.play.approvals = work.play.approvals
        /\ DOMAIN work'.play = PlayFields
    BY <2>3 DEF IInv, Shapes
  <2>5. found \subseteq Finding
    BY FindingsAreFindings
  <2>6. IsSeq(batch) /\ \A i \in DOMAIN batch : batch[i].type # "error" /\ batch[i].trace = work.trace
    <3>1. \A i \in DOMAIN batch : batch[i].type # "error" /\ batch[i].trace = work.trace
      BY DEF Event
    <3>2. IsSeq(batch)
      BY <1>7, ScannedListing
    <3> QED BY <3>1, <3>2
  <2>7. FoundIn(id, n) = FoundIn(id, work.listed) \union found
    BY <1>2, <2>2, FoundInNext
  <2>8. n \in Nat /\ n <= Len(ListingsOf(id))
    BY <1>1, <1>2, <1>3
  <2> HIDE DEF id, n, l, found, batch
  <2>9. /\ plan' = plan /\ results' = results /\ traces' = traces /\ cancelled' = cancelled
        /\ cancel' = cancel /\ played' = played /\ stage' = stage /\ ids' = ids
    BY <2>1 DEF listing, answered
  <2>10. /\ Flow' /\ Tracing' /\ work'.trace \in 0..ids' /\ work'.trace # 0
         /\ \A i \in DOMAIN results : NamedForPair(i)'
    BY <1>1, <2>1, <2>3, MovesOn DEF InFlight
  <2>11. TypeOK'
    <3>1. work'.listed \in Nat /\ work'.play.findings \subseteq Finding /\ work'.play.approvals \in Nat
      BY <1>2, <2>3, <2>4, <2>5, <2>8
    <3>2. stage' = "cleanup" <=> work'.result # <<>>
      BY <2>3, <2>9 DEF IInv, TypeOK
    <3> QED BY <1>1, <1>5, <2>1, <2>10, <3>1, <3>2, InFlightType DEF InFlight
  <2>12. /\ IsSeq(events') /\ \A t : Errors(t)' = Errors(t)
         /\ \A i \in DOMAIN events' : \/ \E j \in DOMAIN events : events'[i].trace = events[j].trace
                                      \/ events'[i].trace = work.trace
    BY <2>1, <2>6, HarmlessEvents DEF IInv, Shapes
  <2>13. Shapes'
    BY <2>3, <2>4, <2>9, <2>12 DEF IInv, Shapes
  <2>14. Answers'
    BY <1>1, <2>9, <2>10 DEF Answers
  <2>15. Explained'
    BY <1>1, <2>1, <2>3, <2>9, <2>12, NoErrorKeeps DEF InFlight
  <2>16. Scans'
    <3>1. \A m \in DOMAIN cache' : cache'[m] \in Printed(m)'
      BY <1>5, SamePrinted
    <3>2. Adapter' = Adapter /\ Case'.id = id
      BY <2>9, SamePair DEF id
    <3>3. work'.listed <= Len(ListingsOf(id)) /\ work'.play.findings = FoundIn(id, work'.listed)
      BY <1>2, <2>3, <2>4, <2>7, <2>8
    <3>4. \A i \in DOMAIN results' :
              results'[i].status = "completed" /\ AdapterAt(i)' = "cisco-mcp-scanner" =>
                  results'[i].findings = FoundInAll(CaseAt(i)'.id)
      BY <2>9, SamePlan DEF IInv, Scans
    <3> QED BY <1>1, <1>5, <2>9, <3>1, <3>2, <3>3, <3>4 DEF Scans
  <2> QED BY <2>10, <2>11, <2>13, <2>14, <2>15, <2>16 DEF IInv
<1> QED BY <1>6, <1>7

-----------------------------------------------------------------------------
(***************************************************************************)
(* The verdict, and the end of a pair.                                     *)
(***************************************************************************)
LEMMA KindsAreKinds ==
    ASSUME NEW f, NEW e, NEW c
    PROVE  KindsPresent(f, e, c) \subseteq EvidenceKind
BY DEF KindsPresent, FindingKinds, EventKinds

LEMMA VerifyKeeps == ASSUME IInv, Verify PROVE IInv'
<1> DEFINE r == Finalize(Case, Claimed, work.play.truth, EvidenceOfCase, plan.min_severity,
                         work.play.approvals)
<1>1. /\ stage = "verify" /\ stage' = "cleanup" /\ work' = [work EXCEPT !.result = <<r>>]
      /\ events' = events /\ ids' = ids /\ UNCHANGED <<listing, answered, scannerVars>>
  BY DEF Verify, RecordNothing
<1>2. /\ Adapter \in ThirdParty \/ (Claimed.adapter = Adapter /\ Claimed.case = Case.id)
      /\ Claimed.findings = work.play.findings
  BY DEF Claimed, Claim
<1>3. /\ Adapter \in ThirdParty \/ (r.adapter = Adapter /\ r.case = Case.id)
      /\ r.status = "completed" /\ ~PassedOver(r)
      /\ r.findings = work.play.findings /\ r.kinds \subseteq EvidenceKind
  <2>1. /\ r.adapter = Claimed.adapter /\ r.case = Claimed.case /\ r.status = "completed"
        /\ r.findings = Claimed.findings
        /\ r.kinds = KindsPresent(Claimed.findings, EvidenceOfCase, Claimed.adapter)
    BY DEF Finalize
  <2> HIDE DEF r
  <2> QED BY <1>2, <2>1, KindsAreKinds DEF PassedOver
<1> HIDE DEF r
<1>4. /\ work'.trace = work.trace /\ work'.listed = work.listed /\ work'.play = work.play
      /\ work'.result = <<r>> /\ DOMAIN work' = {"trace", "listed", "play", "result"}
  BY <1>1 DEF IInv, Shapes
<1>5. /\ plan' = plan /\ results' = results /\ traces' = traces /\ cancelled' = cancelled
      /\ cancel' = cancel /\ played' = played /\ cache' = cache /\ installed' = installed
  BY <1>1 DEF listing, answered, scannerVars
<1>6. /\ Flow' /\ Tracing' /\ work'.trace \in 0..ids' /\ work'.trace # 0
      /\ \A i \in DOMAIN results : NamedForPair(i)'
  BY <1>1, <1>4, MovesOn DEF InFlight
<1>7. TypeOK'
  <2>1. work'.listed \in Nat /\ work'.play.findings \subseteq Finding /\ work'.play.approvals \in Nat
    BY <1>4 DEF IInv, TypeOK
  <2>2. stage' = "cleanup" /\ work'.result # <<>>
    BY <1>1, <1>4
  <2>3. Cardinality(DOMAIN cache') <= MaxCache /\ installed' \in BOOLEAN
    BY <1>5 DEF IInv, TypeOK
  <2> QED BY <1>1, <1>6, <2>1, <2>2, <2>3, InFlightType DEF InFlight
<1>8. Shapes'
  BY <1>1, <1>4, <1>5 DEF IInv, Shapes
<1>9. Adapter' = Adapter /\ Case' = Case
  BY <1>5, SamePair
<1>10. work'.result[1] = r
  BY <1>4
<1>11. Answers'
  BY <1>1, <1>3, <1>5, <1>6, <1>9, <1>10 DEF Answers, PassedOver, Status, IInv, TypeOK
<1>12. Explained'
  BY <1>1, <1>3, <1>4, <1>10, SameErrors, NoErrorKeeps DEF InFlight, IInv, Shapes
<1>13. Scans'
  <2>1. \A l \in DOMAIN cache' : cache'[l] \in Printed(l)'
    BY <1>5, SamePrinted DEF IInv, Scans
  <2>2. Adapter = "cisco-mcp-scanner" => r.findings = FoundInAll(Case.id)
    BY <1>1, <1>3 DEF IInv, Scans
  <2> QED BY <1>1, <1>5, <1>9, <1>10, <2>1, <2>2, SamePlan DEF IInv, Scans
<1> QED BY <1>6, <1>7, <1>8, <1>11, <1>12, <1>13 DEF IInv

\* One result more.
LEMMA OneMoreResult ==
    ASSUME IInv, plan' = plan, NEW r, results' = Append(results, r)
    PROVE  LET n == Len(results) + 1
           IN /\ IsSeq(results') /\ Len(results') = n /\ results'[n] = r /\ n \in Nat
              /\ DOMAIN results' = DOMAIN results \union {n} /\ DOMAIN results = 1..Len(results)
              /\ \A i \in DOMAIN results : results'[i] = results[i] /\ i < n
              /\ Traced' = IF PassedOver(r) THEN Traced ELSE Traced \union {n}
              /\ Adapter = AdapterAt(n) /\ Case = CaseAt(n)
<1> DEFINE n == Len(results) + 1
<1>1. IsSeq(results) /\ Len(results) \in Nat /\ DOMAIN results = 1..Len(results)
  BY SeqShape DEF IInv, Shapes
<1>2. /\ IsSeq(results') /\ Len(results') = n /\ results'[n] = r
      /\ \A i \in 1..Len(results) : results'[i] = results[i]
  BY <1>1, AppendIsSeq
<1>3. DOMAIN results' = 1..n
  BY <1>2, SeqShape
<1>4. DOMAIN results' = DOMAIN results \union {n} /\ \A i \in DOMAIN results : i < n
  BY <1>1, <1>3
<1>5. n \notin DOMAIN results
  BY <1>1
<1>6. Traced' = {i \in DOMAIN results' : ~PassedOver(results'[i])}
  BY DEF Traced, PassedOver
<1>7. Traced' = IF PassedOver(r) THEN Traced ELSE Traced \union {n}
  BY <1>1, <1>2, <1>4, <1>5, <1>6 DEF Traced
<1> QED BY <1>1, <1>2, <1>4, <1>7 DEF Adapter, Case

LEMMA PassOverKeeps ==
    ASSUME IInv, AtBoundary, NEW reason \in {"cancelled", "disabled"}, PassOver(reason),
           \/ cancel /\ cancelled' = TRUE
           \/ ~Case.enabled /\ cancelled' = cancelled
    PROVE  IInv'
<1> DEFINE r == NoResult(Adapter, Case, "skipped", reason)
           n == Len(results) + 1
<1>1. /\ results' = Append(results, r) /\ played' = Append(played, NoPlay)
      /\ UNCHANGED <<listing, stage, work, traces, scannerVars, evidence>>
  BY DEF PassOver
<1>2. /\ plan' = plan /\ traces' = traces /\ cancel' = cancel /\ stage' = stage /\ work' = work
      /\ cache' = cache /\ installed' = installed /\ events' = events /\ ids' = ids
  BY <1>1 DEF listing, scannerVars, evidence
<1>3. /\ r.adapter = Adapter /\ r.case = Case.id /\ r.status = "skipped" /\ PassedOver(r)
      /\ r.kinds = {} /\ r.findings = {}
  BY DEF NoResult, PassedOver
<1> HIDE DEF r
<1>4. /\ IsSeq(results') /\ Len(results') = n /\ results'[n] = r /\ n \in Nat
      /\ DOMAIN results' = DOMAIN results \union {n} /\ DOMAIN results = 1..Len(results)
      /\ \A i \in DOMAIN results : results'[i] = results[i] /\ i < n
      /\ Traced' = Traced /\ Adapter = AdapterAt(n) /\ Case = CaseAt(n)
  BY <1>1, <1>2, <1>3, OneMoreResult
<1>5. /\ IsSeq(played') /\ Len(played') = Len(played) + 1
  BY <1>1, AppendIsSeq DEF IInv, Shapes
<1>6. /\ Pairs' = Pairs /\ Unknown' = Unknown
      /\ \A i : AdapterAt(i)' = AdapterAt(i) /\ CaseAt(i)' = CaseAt(i)
  BY <1>2, SamePlan
<1>7. stage = "boundary" /\ Len(results) < Pairs /\ Len(results) \in Nat /\ Pairs \in Nat
  BY <1>4, PairsAreNatural, SeqShape DEF AtBoundary, IInv, TypeOK, Shapes
<1> HIDE DEF n
<1>8. TypeOK'
  <2>1. Len(results') \in 0..Pairs' /\ Len(played') = Len(results')
    BY <1>4, <1>5, <1>6, <1>7 DEF n, IInv, TypeOK
  <2>2. \A i \in DOMAIN results' :
           /\ results'[i].status \in {"completed", "skipped", "error"}
           /\ results'[i].kinds \subseteq EvidenceKind /\ results'[i].findings \subseteq Finding
    BY <1>3, <1>4 DEF IInv, TypeOK
  <2>3. cancelled' \in BOOLEAN /\ (cancelled' => cancel')
    <3>1. cancelled \in BOOLEAN /\ (cancelled => cancel)
      BY DEF IInv, TypeOK
    <3>2. CASE cancel /\ cancelled' = TRUE
      BY <1>2, <3>2
    <3>3. CASE cancelled' = cancelled
      BY <1>2, <3>1, <3>3
    <3> QED BY <3>2, <3>3
  <2> QED BY <1>2, <2>1, <2>2, <2>3 DEF IInv, TypeOK
<1>9. Shapes'
  BY <1>2, <1>4, <1>5 DEF IInv, Shapes
<1>10. Flow'
  BY <1>2, <1>6, <1>7 DEF IInv, Flow, InFlight
<1>11. Answers'
  BY <1>2, <1>3, <1>4, <1>6, <1>7 DEF IInv, Answers, NamedForPair
<1>12. Tracing'
  <2>1. \A k \in DOMAIN traces : Nth(Traced, k) \in DOMAIN results
    BY DEF IInv, Tracing, Traced
  <2>2. \A k \in DOMAIN traces' :
           LET m == Nth(Traced', k)
           IN /\ m \in Traced' /\ traces'[k].trace = 2 * k + 1
              /\ traces'[k].adapter = AdapterAt(m) /\ traces'[k].case = CaseAt(m).id
              /\ traces'[k].status = results'[m].status
    BY <1>2, <1>4, <1>6, <2>1 DEF IInv, Tracing
  <2>3. \A i \in Traced' : CaseAt(i)'.enabled
    BY <1>4, <1>6 DEF IInv, Tracing
  <2>4. \A i \in DOMAIN results' \ Traced' :
           CaseAt(i)'.enabled => cancelled' /\ \A j \in Traced' : j < i
    <3> SUFFICES ASSUME NEW i \in DOMAIN results' \ Traced', CaseAt(i)'.enabled
                 PROVE  cancelled' /\ \A j \in Traced' : j < i
      OBVIOUS
    <3>1. CASE i = n
      BY <1>4, <1>6, <3>1 DEF Traced
    <3>2. CASE i # n
      <4>1. i \in DOMAIN results \ Traced /\ CaseAt(i).enabled
        BY <1>4, <1>6, <3>2
      <4>2. cancelled /\ \A j \in Traced : j < i
        BY <4>1 DEF IInv, Tracing
      <4> QED BY <1>4, <4>2
    <3> QED BY <3>1, <3>2
  <2>5. /\ IsFiniteSet(Traced') /\ Len(traces') = Cardinality(Traced')
        /\ stage' = "boundary" /\ ids' = 2 * Len(traces') + 2
    BY <1>2, <1>4, <1>7 DEF IInv, Tracing
  <2> QED BY <1>6, <2>2, <2>3, <2>4, <2>5 DEF Tracing, InFlight
<1>13. Explained'
  BY <1>2, SameErrors DEF IInv, Explained, Explains
<1>14. Scans'
  BY <1>2, <1>3, <1>4, <1>6, <1>7, SamePrinted DEF IInv, Scans
<1> QED BY <1>8, <1>9, <1>10, <1>11, <1>12, <1>13, <1>14 DEF IInv

LEMMA CleanupKeeps ==
    ASSUME IInv, NEW raised \in BOOLEAN, Cleanup(raised)
    PROVE  IInv'
<1> DEFINE r == work.result[1]
           n == Len(results) + 1
           t == [trace |-> work.trace, adapter |-> Adapter, case |-> Case.id, status |-> r.status]
           N == Len(traces) + 1
<1>1. /\ stage = "cleanup" /\ stage' = "boundary" /\ work' = Idle
      /\ results' = Append(results, r) /\ played' = Append(played, work.play)
      /\ traces' = Append(traces, t) /\ events' = events /\ ids' = ids
      /\ UNCHANGED <<listing, cancelled, scannerVars>>
  BY DEF Cleanup, RecordNothing
<1>2. /\ t.trace = work.trace /\ t.adapter = Adapter /\ t.case = Case.id /\ t.status = r.status
  OBVIOUS
<1>3. /\ \/ Adapter \in ThirdParty /\ r.status = "completed"
         \/ r.adapter = Adapter /\ r.case = Case.id
      /\ r.status \in Status /\ ~PassedOver(r)
      /\ r.kinds \subseteq EvidenceKind /\ r.findings \subseteq Finding
  BY <1>1 DEF IInv, Answers
<1> HIDE DEF r, t
<1>4. /\ plan' = plan /\ cancel' = cancel /\ cancelled' = cancelled /\ cache' = cache
      /\ installed' = installed
  BY <1>1 DEF listing, scannerVars
<1>5. /\ IsSeq(results') /\ Len(results') = n /\ results'[n] = r /\ n \in Nat
      /\ DOMAIN results' = DOMAIN results \union {n} /\ DOMAIN results = 1..Len(results)
      /\ \A i \in DOMAIN results : results'[i] = results[i] /\ i < n
      /\ Traced' = Traced \union {n} /\ Adapter = AdapterAt(n) /\ Case = CaseAt(n)
  BY <1>1, <1>3, <1>4, OneMoreResult
<1>6. /\ IsSeq(played') /\ Len(played') = Len(played) + 1
  BY <1>1, AppendIsSeq DEF IInv, Shapes
<1>7. /\ IsSeq(traces') /\ Len(traces') = N /\ traces'[N] = t
      /\ \A k \in 1..Len(traces) : traces'[k] = traces[k]
  BY <1>1, AppendIsSeq DEF IInv, Shapes
<1>8. /\ Len(traces) \in Nat /\ DOMAIN traces = 1..Len(traces) /\ DOMAIN traces' = 1..N
  BY <1>7, SeqShape DEF IInv, Shapes
<1>9. /\ Pairs' = Pairs /\ Unknown' = Unknown
      /\ \A i : AdapterAt(i)' = AdapterAt(i) /\ CaseAt(i)' = CaseAt(i)
  BY <1>4, SamePlan
<1>10. /\ Len(results) < Pairs /\ Len(results) \in Nat /\ Pairs \in Nat /\ Case.enabled
       /\ Unknown = {} /\ ~cancelled
  BY <1>1, <1>5, PairsAreNatural, SeqShape DEF InFlight, Flow, IInv, TypeOK, Shapes
<1>11. ids = 2 * Len(traces) + 4 /\ work.trace = ids - 1 /\ ids \in Nat
  BY <1>1 DEF IInv, Tracing, InFlight, Shapes
<1>12. /\ work'.trace = 0 /\ work'.listed = 0 /\ work'.play = NoPlay /\ work'.result = <<>>
       /\ DOMAIN work' = {"trace", "listed", "play", "result"}
  BY <1>1 DEF Idle
<1>13. /\ NoPlay.findings = {} /\ NoPlay.approvals = 0
       /\ DOMAIN NoPlay = PlayFields
  BY DEF NoPlay, PlayFields
<1>14. TypeOK'
  <2>1. Len(results') \in 0..Pairs' /\ Len(played') = Len(results')
    BY <1>5, <1>6, <1>9, <1>10 DEF IInv, TypeOK
  <2>2. \A i \in DOMAIN results' :
           /\ results'[i].status \in {"completed", "skipped", "error"}
           /\ results'[i].kinds \subseteq EvidenceKind /\ results'[i].findings \subseteq Finding
    BY <1>3, <1>5 DEF IInv, TypeOK, Status
  <2>3. /\ work'.trace \in 0..ids' /\ work'.listed \in Nat
        /\ work'.play.findings \subseteq Finding /\ work'.play.approvals \in Nat
    BY <1>1, <1>11, <1>12, <1>13
  <2>4. plan' \in Plans /\ cancel' \in BOOLEAN /\ cancelled' \in BOOLEAN /\ (cancelled' => cancel')
        /\ Cardinality(DOMAIN cache') <= MaxCache /\ installed' \in BOOLEAN
    BY <1>4 DEF IInv, TypeOK
  <2> QED BY <1>1, <1>12, <2>1, <2>2, <2>3, <2>4 DEF TypeOK
<1>15. Shapes'
  BY <1>1, <1>5, <1>6, <1>7, <1>12, <1>13 DEF IInv, Shapes
<1>16. Flow'
  BY <1>1, <1>9, <1>10 DEF Flow, InFlight
<1>17. Answers'
  <2>1. \A i \in DOMAIN results' : NamedForPair(i)'
    BY <1>3, <1>5, <1>9 DEF IInv, Answers, NamedForPair
  <2> QED BY <1>1, <2>1 DEF Answers
<1>18. /\ Traced \subseteq DOMAIN results /\ Traced \in SUBSET Nat /\ IsFiniteSet(Traced)
       /\ Len(traces) = Cardinality(Traced)
       /\ \A i \in Nat, S \in SUBSET Nat : IsFiniteSet({j \in S : j <= i})
  <2>1. Traced \subseteq DOMAIN results
    BY DEF Traced
  <2>2. \A i \in Nat, S \in SUBSET Nat : IsFiniteSet({j \in S : j <= i})
    BY TracedIsFinite DEF IInv, Shapes
  <2>3. DOMAIN results \subseteq Nat
    BY <1>5
  <2> QED BY <2>1, <2>2, <2>3 DEF IInv, Tracing
<1>19. Cardinality(Traced') = N /\ Nth(Traced', N) = n
  <2>1. \A i \in Traced : i < n
    BY <1>5, <1>18
  <2> HIDE DEF n
  <2> QED BY <1>5, <1>18, <2>1, NthOfNext
<1>20. \A k \in 1..Len(traces) : Nth(Traced', k) = Nth(Traced, k)
  <2> SUFFICES ASSUME NEW k \in 1..Len(traces) PROVE Nth(Traced', k) = Nth(Traced, k)
    OBVIOUS
  <2> DEFINE S == Traced'
  <2>1. S \in SUBSET Nat /\ Traced \in SUBSET S
    BY <1>5, <1>18
  <2>2. \A i \in Traced, j \in S : j <= i => j \in Traced
    <3> SUFFICES ASSUME NEW i \in Traced, NEW j \in S, j <= i PROVE j \in Traced
      OBVIOUS
    <3>1. i < n /\ i \in Nat /\ j \in Nat /\ (j \in Traced \/ j = n)
      BY <1>5, <1>18, <2>1
    <3> QED BY <1>5, <3>1
  <2>3. \A i \in S : IsFiniteSet({j \in S : j <= i})
    BY <1>18, <2>1
  <2> HIDE DEF S
  <2>4. k \in 1..Cardinality(Traced)
    BY <1>18
  <2>5. Nth(S, k) = Nth(Traced, k)
    BY <1>18, <2>1, <2>2, <2>3, <2>4, NthOfSegment
  <2> QED BY <2>5 DEF S
<1>21. Tracing'
  <2>1. \A k \in 1..Len(traces) :
           /\ Nth(Traced, k) \in Traced /\ Nth(Traced, k) \in DOMAIN results
           /\ traces[k].trace = 2 * k + 1
           /\ traces[k].adapter = AdapterAt(Nth(Traced, k))
           /\ traces[k].case = CaseAt(Nth(Traced, k)).id
           /\ traces[k].status = results[Nth(Traced, k)].status
    BY <1>8, <1>18 DEF IInv, Tracing
  <2>2. \A k \in DOMAIN traces' :
           LET m == Nth(Traced', k)
           IN /\ m \in Traced' /\ traces'[k].trace = 2 * k + 1
              /\ traces'[k].adapter = AdapterAt(m) /\ traces'[k].case = CaseAt(m).id
              /\ traces'[k].status = results'[m].status
    <3> SUFFICES ASSUME NEW k \in DOMAIN traces'
                 PROVE  LET m == Nth(Traced', k)
                        IN /\ m \in Traced' /\ traces'[k].trace = 2 * k + 1
                           /\ traces'[k].adapter = AdapterAt(m)
                           /\ traces'[k].case = CaseAt(m).id
                           /\ traces'[k].status = results'[m].status
      OBVIOUS
    <3>1. CASE k = N
      <4>1. n \in Traced' /\ Nth(Traced', k) = n /\ traces'[k] = t /\ results'[n] = r
        BY <1>5, <1>7, <1>19, <3>1
      <4>2. t.trace = 2 * k + 1
        BY <1>2, <1>8, <1>11, <3>1
      <4> QED BY <1>2, <1>5, <1>9, <4>1, <4>2
    <3>2. CASE k # N
      <4>1. k \in 1..Len(traces)
        BY <1>8, <3>2
      <4>2. Nth(Traced', k) = Nth(Traced, k) /\ traces'[k] = traces[k]
            /\ results'[Nth(Traced, k)] = results[Nth(Traced, k)]
        BY <1>5, <1>7, <1>20, <2>1, <4>1
      <4> QED BY <1>5, <1>9, <2>1, <4>1, <4>2
    <3> QED BY <3>1, <3>2
  <2>3. \A i \in Traced' : CaseAt(i)'.enabled
    BY <1>5, <1>9, <1>10 DEF IInv, Tracing
  <2>4. \A i \in DOMAIN results' \ Traced' :
           CaseAt(i)'.enabled => cancelled' /\ \A j \in Traced' : j < i
    BY <1>5, <1>9, <1>10 DEF IInv, Tracing
  <2>5. /\ IsFiniteSet(Traced') /\ Len(traces') = Cardinality(Traced')
        /\ stage' = "boundary" /\ ids' = 2 * Len(traces') + 2
    <3>1. IsFiniteSet(Traced')
      BY <1>5, <1>18, FS_AddElement
    <3> QED BY <1>1, <1>7, <1>8, <1>11, <1>19, <3>1
  <2> QED BY <1>9, <2>2, <2>3, <2>4, <2>5 DEF Tracing, InFlight
<1>22. Explained'
  <2>1. \A k \in DOMAIN traces' : Explains(Errors(traces'[k].trace), traces'[k].status)
    <3>1. Explains(Errors(t.trace), t.status)
      BY <1>1, <1>2 DEF IInv, Explained, r
    <3>2. \A k \in DOMAIN traces : Explains(Errors(traces[k].trace), traces[k].status)
      BY DEF IInv, Explained
    <3> SUFFICES ASSUME NEW k \in DOMAIN traces'
                 PROVE  Explains(Errors(traces'[k].trace), traces'[k].status)
      OBVIOUS
    <3>3. k = N \/ k \in 1..Len(traces)
      BY <1>8
    <3> QED BY <1>7, <1>8, <3>1, <3>2, <3>3
  <2>2. \A k \in DOMAIN traces' : Explains(Errors(traces[k].trace), traces[k].status)'
    <3>1. \A t1 : Errors(t1)' = Errors(t1)
      BY <1>1, SameErrors
    <3> QED BY <2>1, <3>1 DEF Explains
  <2> QED BY <1>1, <2>2 DEF IInv, Explained, Explains
<1>23. Scans'
  <2>1. \A i \in DOMAIN results' :
            results'[i].status = "completed" /\ AdapterAt(i)' = "cisco-mcp-scanner" =>
                results'[i].findings = FoundInAll(CaseAt(i)'.id)
    <3> SUFFICES ASSUME NEW i \in DOMAIN results', results'[i].status = "completed",
                        AdapterAt(i)' = "cisco-mcp-scanner"
                 PROVE  results'[i].findings = FoundInAll(CaseAt(i)'.id)
      OBVIOUS
    <3>1. CASE i = n
      BY <1>1, <1>3, <1>5, <1>9, <3>1 DEF IInv, Scans, r
    <3>2. CASE i \in DOMAIN results
      BY <1>5, <1>9, <3>2 DEF IInv, Scans
    <3> QED BY <1>5, <3>1, <3>2
  <2>2. IsFiniteSet(DOMAIN cache') /\ \A l \in DOMAIN cache' : cache'[l] \in Printed(l)'
    BY <1>4, SamePrinted DEF IInv, Scans
  <2> QED BY <1>1, <2>1, <2>2 DEF Scans
<1> QED BY <1>14, <1>15, <1>16, <1>17, <1>21, <1>22, <1>23 DEF IInv

LEMMA FinishKeeps == ASSUME IInv, Finish PROVE IInv'
<1> DEFINE e == Event(RunTrace, "run_completed", "orchestrator", None)
<1>1. /\ stage = "boundary" /\ Len(results) = Pairs /\ stage' = "finished"
      /\ \E lost : Record(<<e>>, lost)
      /\ UNCHANGED <<plan, work, cancel, answered, ids, scannerVars>>
  BY DEF Finish
<1>2. e.trace = 1 /\ e.type # "error"
  BY DEF Event, RunTrace
<1> HIDE DEF e
<1>3. /\ plan' = plan /\ results' = results /\ traces' = traces /\ cancelled' = cancelled
      /\ cancel' = cancel /\ played' = played /\ work' = work /\ ids' = ids
      /\ cache' = cache /\ installed' = installed
  BY <1>1 DEF answered, scannerVars
<1>4. IsSeq(events) /\ Len(traces) \in Nat /\ ids = 2 * Len(traces) + 2
  BY <1>1, SeqShape DEF IInv, Shapes, Tracing
<1>5. /\ IsSeq(events') /\ \A t : Errors(t)' = Errors(t)
      /\ \A i \in DOMAIN events' : \/ \E j \in DOMAIN events : events'[i].trace = events[j].trace
                                   \/ events'[i].trace = 1
  BY <1>1, <1>2, <1>4, OneEvent
<1>6. \A i \in DOMAIN events' : events'[i].trace \in 0..ids'
  BY <1>3, <1>4, <1>5 DEF IInv, Explained
<1>7. TypeOK'
  BY <1>1, <1>3, SamePlan DEF IInv, TypeOK
<1>8. Shapes'
  BY <1>3, <1>5 DEF IInv, Shapes
<1>9. Flow'
  BY <1>1, <1>3, SamePlan DEF IInv, Flow, InFlight
<1>10. Answers'
  BY <1>1, <1>3, SamePlan DEF IInv, Answers, NamedForPair
<1>11. Tracing'
  BY <1>1, <1>3, SamePlan, SamePair DEF IInv, Tracing, InFlight
<1>12. Explained'
  BY <1>1, <1>3, <1>5, <1>6 DEF IInv, Explained, Explains
<1>13. Scans'
  BY <1>1, <1>3, SamePlan, SamePrinted DEF IInv, Scans
<1> QED BY <1>7, <1>8, <1>9, <1>10, <1>11, <1>12, <1>13 DEF IInv

-----------------------------------------------------------------------------
(***************************************************************************)
(* The theorems.                                                           *)
(***************************************************************************)
LEMMA WorkKeeps == ASSUME IInv, Work PROVE IInv'
<1>1. CASE Start
  BY <1>1, StartKeeps
<1>2. CASE CaseCancelled
  <2>1. AtBoundary /\ PassOver("cancelled") /\ cancel /\ cancelled' = TRUE
    BY <1>2 DEF CaseCancelled
  <2> QED BY <2>1, PassOverKeeps
<1>3. CASE CaseDisabled
  <2>1. AtBoundary /\ PassOver("disabled") /\ ~Case.enabled /\ cancelled' = cancelled
    BY <1>3 DEF CaseDisabled
  <2> QED BY <2>1, PassOverKeeps
<1>4. CASE CaseBegins
  BY <1>4, CaseBeginsKeeps
<1>5. ASSUME UNCHANGED scannerVars
      PROVE  /\ IsFiniteSet(DOMAIN cache') /\ \A l \in DOMAIN cache' : cache'[l] \in Printed(l)
             /\ Cardinality(DOMAIN cache') <= MaxCache /\ installed' \in BOOLEAN
  BY <1>5 DEF scannerVars, IInv, TypeOK, Scans
<1>6. CASE PrepareUnavailable
  <2>1. stage = "prepare" /\ GivesUp(<<>>, "skipped", "unavailable") /\ UNCHANGED scannerVars
    BY <1>6 DEF PrepareUnavailable
  <2>2. <<>> \in Begun
    BY DEF Begun
  <2> QED BY <1>5, <2>1, <2>2, GivesUpKeeps
<1>7. CASE PrepareFails
  <2>1. stage = "prepare" /\ GivesUp(<<>>, "error", "failed") /\ UNCHANGED scannerVars
    BY <1>7 DEF PrepareFails
  <2>2. <<>> \in Begun
    BY DEF Begun
  <2> QED BY <1>5, <2>1, <2>2, GivesUpKeeps
<1>8. CASE Prepare
  BY <1>8, PrepareKeeps
<1>9. CASE stage = "execute" /\ \E play \in PlaysHere : PlayScenario(play)
  BY <1>9, PlayKeeps
<1>10. CASE ExecuteFails
  <2>1. /\ stage = "execute" /\ UNCHANGED scannerVars
        /\ \E before \in Begun : GivesUp(before, "error", "failed")
    BY <1>10 DEF ExecuteFails
  <2> QED BY <1>5, <2>1, GivesUpKeeps
<1>11. CASE Scan
  <2>1. Scanning /\ \E rows : ScanListing(rows)
    BY <1>11 DEF Scan
  <2> QED BY <2>1, ScanKeeps
<1>12. CASE ScanFails
  <2>1. /\ stage = "execute" /\ UNCHANGED scannerVars
        /\ \E before \in Begun : GivesUp(before, "error", "failed")
    BY <1>12 DEF ScanFails, Scanning, ScannerFails
  <2> QED BY <1>5, <2>1, GivesUpKeeps
<1>13. CASE Verify
  BY <1>13, VerifyKeeps
<1>14. CASE \E raised \in BOOLEAN : Cleanup(raised)
  BY <1>14, CleanupKeeps
<1>15. CASE Finish
  BY <1>15, FinishKeeps
<1>16. CASE ExecuteUnavailable
  <2>1. /\ stage = "execute" /\ UNCHANGED scannerVars
        /\ \E before \in Begun : GivesUp(before, "skipped", "unavailable")
    BY <1>16 DEF ExecuteUnavailable
  <2> QED BY <1>5, <2>1, GivesUpKeeps
<1> QED BY <1>1, <1>2, <1>3, <1>4, <1>6, <1>7, <1>8, <1>9, <1>10, <1>11, <1>12, <1>13, <1>14,
           <1>15, <1>16 DEF Work

LEMMA Inductive == ASSUME IInv, [Next]_vars PROVE IInv'
<1>1. CASE Work
  BY <1>1, WorkKeeps
<1>2. CASE Cancel
  <2>1. /\ plan' = plan /\ results' = results /\ traces' = traces /\ cancelled' = cancelled
        /\ ids' = ids /\ events' = events /\ played' = played /\ stage' = stage /\ work' = work
        /\ cache' = cache /\ installed' = installed /\ cancel' = TRUE
    BY <1>2 DEF Cancel, answered, scannerVars, evidence
  <2>2. installed' \in BOOLEAN
    BY <2>1 DEF IInv, TypeOK
  <2> QED BY <2>1, <2>2, QuietKeeps
<1>3. CASE ScannerChanges
  <2>1. /\ plan' = plan /\ results' = results /\ traces' = traces /\ cancelled' = cancelled
        /\ ids' = ids /\ events' = events /\ played' = played /\ stage' = stage /\ work' = work
        /\ cache' = cache /\ installed' = ~installed /\ cancel' = cancel
    BY <1>3 DEF ScannerChanges, Reinstall, listing, answered, evidence
  <2>2. installed' \in BOOLEAN /\ cancel' \in BOOLEAN /\ (cancelled => cancel')
    BY <2>1 DEF IInv, TypeOK
  <2> QED BY <2>1, <2>2, QuietKeeps
<1>4. CASE UNCHANGED vars
  <2>1. /\ plan' = plan /\ results' = results /\ traces' = traces /\ cancelled' = cancelled
        /\ ids' = ids /\ events' = events /\ played' = played /\ stage' = stage /\ work' = work
        /\ cache' = cache /\ installed' = installed /\ cancel' = cancel
    BY <1>4 DEF vars, scannerVars, evidence
  <2>2. installed' \in BOOLEAN /\ cancel' \in BOOLEAN /\ (cancelled => cancel')
    BY <2>1 DEF IInv, TypeOK
  <2> QED BY <2>1, <2>2, QuietKeeps
<1> QED BY <1>1, <1>2, <1>3, <1>4 DEF Next

\* The invariant holds of every run of the orchestrator (benchmark/orchestrator.py).
THEOREM Invariance == Spec => []IInv
<1>1. Init => IInv
  BY Initially
<1>2. IInv /\ [Next]_vars => IInv'
  BY Inductive
<1> QED BY <1>1, <1>2, PTL DEF Spec

\* Every variable of the orchestrator keeps its type, and its scanner's cache its limit.
THEOREM TypeCorrect == Spec => []TypeOK
<1>1. IInv => TypeOK
  BY DEF IInv
<1> QED BY <1>1, Invariance, PTL

(***************************************************************************)
(* Whatever prepare, execute, verification and cleanup do, every pair      *)
(* visited has one result, in the order of the loops and, unless a user's  *)
(* adapter named its own, under the pair's name; its trace always is under *)
(* that name; and a pair without a verdict has exactly one error in its    *)
(* trace (run and _run_one).                                               *)
(***************************************************************************)
THEOREM EveryPairHasItsAnswer == Spec => []EveryPairIsAnswered
<1>1. IInv => EveryPairIsAnswered
  <2> SUFFICES ASSUME IInv PROVE EveryPairIsAnswered
    OBVIOUS
  <2>1. OneResultPerPair
    BY DEF IInv, Answers, Flow, Tracing, OneResultPerPair
  <2>2. FailureIsExplained
    BY DEF IInv, Explained, Explains, Errors, FailureIsExplained
  <2> QED BY <2>1, <2>2 DEF EveryPairIsAnswered
<1> QED BY <1>1, Invariance, PTL

(***************************************************************************)
(* A trace id is a function of the plan alone: the k-th pair with an       *)
(* enabled case has it, whatever failed before (util.ids, the run's id     *)
(* source).                                                                *)
(***************************************************************************)
THEOREM TraceIdsDependOnThePlan == Spec => []TraceIdsReproduce
<1>1. IInv => TraceIdsReproduce
  <2> SUFFICES ASSUME IInv, NEW k \in DOMAIN traces
               PROVE  LET n == Nth({m \in 1..Pairs : CaseAt(m).enabled}, k)
                      IN /\ traces[k].adapter = AdapterAt(n) /\ traces[k].case = CaseAt(n).id
                         /\ traces[k].trace = 2 * k + 1
    BY DEF TraceIdsReproduce
  <2> DEFINE enabled == {m \in 1..Pairs : CaseAt(m).enabled}
  <2>1. /\ IsSeq(results) /\ DOMAIN results = 1..Len(results) /\ Len(results) \in 0..Pairs
        /\ Pairs \in Nat /\ Len(results) \in Nat
    BY SeqShape, PairsAreNatural DEF IInv, Shapes, TypeOK
  <2>2. /\ Traced \subseteq 1..Len(results) /\ IsFiniteSet(Traced)
        /\ \A i \in Nat, S \in SUBSET Nat : IsFiniteSet({j \in S : j <= i})
    BY <2>1, TracedIsFinite
  <2>3. \A i \in Traced : CaseAt(i).enabled /\ i \in 1..Pairs
    BY <2>1, <2>2 DEF IInv, Tracing
  <2>4. enabled \in SUBSET Nat /\ Traced \in SUBSET enabled
    BY <2>3
  <2>5. \A i \in Traced, j \in enabled : j <= i => j \in Traced
    <3> SUFFICES ASSUME NEW i \in Traced, NEW j \in enabled, j <= i, j \notin Traced PROVE FALSE
      OBVIOUS
    <3>1. j \in DOMAIN results /\ i \in Nat /\ j \in Nat
      BY <2>1, <2>2, <2>3
    <3>2. i < j
      BY <3>1 DEF IInv, Tracing
    <3> QED BY <3>1, <3>2
  <2>6. \A i \in enabled : IsFiniteSet({j \in enabled : j <= i})
    BY <2>2, <2>4
  <2>7. k \in 1..Cardinality(Traced)
    BY SeqShape DEF IInv, Shapes, Tracing
  <2> HIDE DEF enabled
  <2>8. Nth(enabled, k) = Nth(Traced, k)
    BY <2>2, <2>4, <2>5, <2>6, <2>7, NthOfSegment
  <2>9. LET n == Nth(Traced, k)
        IN /\ traces[k].adapter = AdapterAt(n) /\ traces[k].case = CaseAt(n).id
           /\ traces[k].trace = 2 * k + 1
    BY DEF IInv, Tracing
  <2> QED BY <2>8, <2>9 DEF enabled
<1> QED BY <1>1, Invariance, PTL

(***************************************************************************)
(* A completed case of the external scanner has the findings of every      *)
(* listing of its scenario, however often the cache was emptied (scan and  *)
(* _remember of benchmark/cisco_scanner.py).                               *)
(***************************************************************************)
THEOREM ScoredMeansScanned == Spec => []NotScannedIsNotMissed
<1>1. IInv => NotScannedIsNotMissed
  <2>1. \A id : FoundInAll(id) = UNION {FindingsFromOutput(Reports[l]) : l \in Range(ListingsOf(id))}
    <3> SUFFICES ASSUME NEW id
                 PROVE  FoundInAll(id) =
                          UNION {FindingsFromOutput(Reports[l]) : l \in Range(ListingsOf(id))}
      OBVIOUS
    <3>1. DOMAIN ListingsOf(id) = 1..Len(ListingsOf(id))
      BY ListingsAreSequences, SeqShape
    <3>2. \A l : l \in Range(ListingsOf(id)) <=>
                   \E n \in 1..Len(ListingsOf(id)) : l = ListingsOf(id)[n]
      BY <3>1 DEF Range
    <3> DEFINE F(l) == FindingsFromOutput(Reports[l])
    <3> HIDE DEF F
    <3>3. UNION {F(ListingsOf(id)[n]) : n \in 1..Len(ListingsOf(id))} =
            UNION {F(l) : l \in Range(ListingsOf(id))}
      BY <3>2
    <3> QED BY <3>3 DEF F, FoundInAll, FoundIn
  <2> QED BY <2>1 DEF IInv, Scans, NotScannedIsNotMissed
<1> QED BY <1>1, Invariance, PTL

-----------------------------------------------------------------------------
(***************************************************************************)
(* The abstract run.                                                       *)
(***************************************************************************)
due == IF Unknown = {} THEN Pairs ELSE 0
answers == [i \in DOMAIN results |-> results[i].status]

LEMMA AnswersAreSeq ==
    ASSUME IInv
    PROVE  /\ IsSeq(answers) /\ Len(answers) = Len(results) /\ Len(results) \in Nat
           /\ DOMAIN results = 1..Len(results)
<1>1. Len(results) \in Nat /\ DOMAIN results = 1..Len(results)
  BY SeqShape DEF IInv, Shapes
<1>2. DOMAIN answers = 1..Len(results) /\ answers = [i \in 1..Len(results) |-> answers[i]]
  BY <1>1 DEF answers
<1> HIDE DEF answers
<1>3. IsSeq(answers)
  BY <1>1, <1>2, FunctionIsSeq
<1>4. Len(answers) \in Nat /\ DOMAIN answers = 1..Len(answers)
  BY <1>3, SeqShape
<1>5. Len(answers) = Len(results)
  BY <1>1, <1>2, <1>4
<1> QED BY <1>1, <1>3, <1>5

LEMMA OneAnswerMore ==
    ASSUME IInv, plan' = plan, NEW r, results' = Append(results, r)
    PROVE  answers' = Append(answers, r.status)
<1>1. /\ IsSeq(answers) /\ Len(answers) = Len(results) /\ Len(results) \in Nat
      /\ DOMAIN results = 1..Len(results)
  BY AnswersAreSeq
<1>2. /\ Len(results') = Len(results) + 1 /\ results'[Len(results) + 1] = r
      /\ DOMAIN results' = DOMAIN results \union {Len(results) + 1}
      /\ \A i \in DOMAIN results : results'[i] = results[i]
  BY OneMoreResult
<1> DEFINE more == Append(answers, r.status)
<1>3. /\ IsSeq(more) /\ Len(more) = Len(answers) + 1 /\ more[Len(answers) + 1] = r.status
      /\ \A i \in 1..Len(answers) : more[i] = answers[i]
  BY <1>1, AppendIsSeq
<1> HIDE DEF more
<1>4. DOMAIN more = DOMAIN results' /\ more = [i \in DOMAIN more |-> more[i]]
  BY <1>1, <1>2, <1>3 DEF IsSeq
<1>5. \A i \in DOMAIN results' : more[i] = results'[i].status
  BY <1>1, <1>2, <1>3 DEF answers
<1>6. answers' = [i \in DOMAIN results' |-> results'[i].status]
  BY DEF answers
<1> QED BY <1>4, <1>5, <1>6 DEF more

LEMMA AnswerStep ==
    ASSUME IInv, plan' = plan, stage \in {"boundary", "cleanup"}, stage' = "boundary",
           Len(results) < Pairs, NEW r, results' = Append(results, r),
           NEW s \in Status, r.status = s, cancelled => s = "skipped",
           \/ s = "skipped" /\ cancelled' = TRUE
           \/ cancelled' = cancelled
    PROVE  Promise!Next
<1>1. answers' = Append(answers, s)
  BY OneAnswerMore
<1>2. Len(answers) = Len(results)
  BY AnswersAreSeq
<1>3. due = Pairs /\ due' = due
  BY SamePlan DEF IInv, Flow, due
<1>4. ~Over /\ Over' = Over
  BY DEF Over
<1>5. cancelled' \in IF s = "skipped" THEN {TRUE, cancelled} ELSE {cancelled}
  <2>1. CASE s = "skipped" /\ cancelled' = TRUE
    BY <2>1
  <2>2. CASE cancelled' = cancelled
    BY <2>2
  <2> QED BY <2>1, <2>2
<1>6. Promise!Answer(s)
  BY <1>1, <1>2, <1>3, <1>4, <1>5 DEF Promise!Answer, due, answers
<1> QED BY <1>6 DEF Promise!Next, Promise!Status, Status

LEMMA CloseStep ==
    ASSUME IInv, plan' = plan, ~Over, Over', results' = results, cancelled' = cancelled,
           Len(results) = due
    PROVE  Promise!Close
<1>1. Len(answers) = Len(results) /\ answers' = answers
  BY AnswersAreSeq DEF answers
<1>2. due' = due
  BY SamePlan DEF due
<1>3. Over' = TRUE
  BY DEF Over
<1> QED BY <1>1, <1>2, <1>3 DEF Promise!Close, due, answers

LEMMA SameAnswers ==
    ASSUME plan' = plan, results' = results, cancelled' = cancelled, Over' = Over
    PROVE  UNCHANGED Promise!planVars
<1>1. due' = due /\ answers' = answers
  BY SamePlan DEF due, answers
<1> QED BY <1>1 DEF Promise!planVars, due, answers

LEMMA PlanStep == ASSUME IInv, [Next]_vars PROVE [Promise!Next]_(Promise!planVars)
<1>1. CASE Start
  <2>1. /\ stage = "starting" /\ plan' = plan /\ results' = results /\ cancelled' = cancelled
        /\ \/ Unknown # {} /\ stage' = "rejected"
           \/ Unknown = {} /\ stage' = "boundary"
    BY <1>1 DEF Start, listing, answered
  <2>2. CASE Unknown = {}
    BY <2>1, <2>2, SameAnswers DEF Over
  <2>3. CASE Unknown # {}
    <3>1. Len(results) = due
      BY <2>1, <2>3 DEF IInv, Flow, due
    <3>2. ~Over /\ Over'
      BY <2>1, <2>3 DEF Over
    <3> QED BY <2>1, <3>1, <3>2, CloseStep DEF Promise!Next
  <2> QED BY <2>2, <2>3
<1>2. ASSUME NEW reason \in {"cancelled", "disabled"}, AtBoundary, PassOver(reason),
             \/ cancelled' = TRUE
             \/ cancelled' = cancelled
      PROVE  Promise!Next
  <2> DEFINE r == NoResult(Adapter, Case, "skipped", reason)
  <2>1. /\ plan' = plan /\ results' = Append(results, r) /\ stage = "boundary" /\ stage' = stage
        /\ Len(results) < Pairs
    BY <1>2 DEF PassOver, listing, AtBoundary
  <2>2. r.status = "skipped"
    BY DEF NoResult
  <2> HIDE DEF r
  <2> QED BY <1>2, <2>1, <2>2, AnswerStep DEF Status
<1>3. CASE CaseCancelled
  <2>1. AtBoundary /\ PassOver("cancelled") /\ cancelled' = TRUE
    BY <1>3 DEF CaseCancelled
  <2> QED BY <1>2, <2>1
<1>4. CASE CaseDisabled
  <2>1. AtBoundary /\ PassOver("disabled") /\ cancelled' = cancelled
    BY <1>4 DEF CaseDisabled
  <2> QED BY <1>2, <2>1
<1>5. ASSUME UNCHANGED <<listing, answered>>, ~Over, ~Over' PROVE UNCHANGED Promise!planVars
  BY <1>5, SameAnswers DEF listing, answered, Over
<1>6. ASSUME NEW before, NEW status, NEW reason, GivesUp(before, status, reason), ~Over
      PROVE  UNCHANGED Promise!planVars
  <2>1. UNCHANGED <<listing, answered>> /\ ~Over'
    BY <1>6 DEF GivesUp, Over
  <2> QED BY <1>5, <1>6, <2>1
<1>7. CASE CaseBegins
  <2>1. UNCHANGED <<listing, answered>> /\ ~Over /\ ~Over'
    BY <1>7 DEF CaseBegins, AtBoundary, Over
  <2> QED BY <1>5, <2>1
<1>8. CASE PrepareUnavailable
  BY <1>6, <1>8 DEF PrepareUnavailable, Over
<1>9. CASE PrepareFails
  BY <1>6, <1>9 DEF PrepareFails, Over
<1>10. CASE ExecuteFails \/ ExecuteUnavailable
  BY <1>6, <1>10 DEF ExecuteFails, ExecuteUnavailable, Over
<1>11. CASE ScanFails
  BY <1>6, <1>11 DEF ScanFails, Scanning, Over
<1>12. CASE Prepare
  <2>1. UNCHANGED <<listing, answered>> /\ ~Over /\ ~Over'
    BY <1>12 DEF Prepare, Over
  <2> QED BY <1>5, <2>1
<1>13. ASSUME NEW play, PlayScenario(play) PROVE UNCHANGED Promise!planVars
  <2>1. UNCHANGED <<listing, answered>> /\ ~Over /\ ~Over'
    BY <1>13 DEF PlayScenario, Over
  <2> QED BY <1>5, <2>1
<1>14. CASE Scan
  <2>1. PICK rows : Scanning /\ ScanListing(rows)
    BY <1>14 DEF Scan
  <2>2. ~Over
    BY <2>1 DEF Scanning, Over
  <2>3. CASE Scanned(rows)
    <3>1. UNCHANGED <<listing, answered>> /\ stage' = stage
      BY <2>1, <2>3 DEF ScanListing
    <3> QED BY <1>5, <2>2, <3>1 DEF Over
  <2>4. CASE ~Scanned(rows)
    <3>1. \E before \in Begun : GivesUp(before, "error", "failed")
      BY <2>1, <2>4 DEF ScanListing
    <3> QED BY <1>6, <2>2, <3>1
  <2> QED BY <2>3, <2>4
<1>15. CASE Verify
  <2>1. UNCHANGED <<listing, answered>> /\ ~Over /\ ~Over'
    BY <1>15 DEF Verify, Over
  <2> QED BY <1>5, <2>1
<1>16. ASSUME NEW raised \in BOOLEAN, Cleanup(raised) PROVE Promise!Next
  <2> DEFINE r == work.result[1]
  <2>1. /\ plan' = plan /\ results' = Append(results, r) /\ stage = "cleanup" /\ stage' = "boundary"
        /\ cancelled' = cancelled
    BY <1>16 DEF Cleanup, listing
  <2>2. r.status \in Status /\ Len(results) < Pairs /\ ~cancelled
    BY <2>1 DEF IInv, Answers, Flow, InFlight
  <2> HIDE DEF r
  <2> QED BY <2>1, <2>2, AnswerStep
<1>17. CASE Finish
  <2>1. /\ stage = "boundary" /\ stage' = "finished" /\ plan' = plan /\ results' = results
        /\ cancelled' = cancelled /\ Len(results) = Pairs
    BY <1>17 DEF Finish, answered
  <2>2. Len(results) = due /\ ~Over /\ Over'
    BY <2>1 DEF IInv, Flow, due, Over
  <2> QED BY <2>1, <2>2, CloseStep DEF Promise!Next
<1>18. CASE Cancel
  BY <1>18, SameAnswers DEF Cancel, answered, Over
<1>19. CASE ScannerChanges
  BY <1>19, SameAnswers DEF ScannerChanges, listing, answered, Over
<1>20. CASE UNCHANGED vars
  BY <1>20, SameAnswers DEF vars, Over
<1>21. CASE Work
  BY <1>1, <1>3, <1>4, <1>7, <1>8, <1>9, <1>10, <1>11, <1>12, <1>13, <1>14, <1>15, <1>16, <1>17,
     <1>21 DEF Work
<1> QED BY <1>18, <1>19, <1>20, <1>21 DEF Next

(***************************************************************************)
(* The orchestrator, with its failures, its scanner and its evidence, is   *)
(* the run of BenchmarkPlan: every pair due is answered once, in order,    *)
(* and a run that saw the cancel event only skips from then on.            *)
(***************************************************************************)
THEOREM BenchmarkImplementsPlan == Spec => ImplementsPlan
<1>1. Init => Promise!Init
  <2> SUFFICES ASSUME Init PROVE Promise!Init
    OBVIOUS
  <2>1. plan \in Plans /\ results = <<>> /\ cancelled = FALSE /\ stage = "starting"
    BY DEF Init
  <2>2. due \in Nat
    BY <2>1, PairsAreNatural DEF due
  <2>3. answers = <<>> /\ Over = FALSE
    BY <2>1 DEF answers, Over
  <2> QED BY <2>1, <2>2, <2>3 DEF Promise!Init, due, answers
<1>2. IInv /\ [Next]_vars => [Promise!Next]_(Promise!planVars)
  BY PlanStep
<1> QED BY <1>1, <1>2, Invariance, PTL DEF Spec, ImplementsPlan, Promise!Spec

-----------------------------------------------------------------------------
Increasing(s) == \A i, j \in DOMAIN s : i < j => s[i] < s[j]

\* What a subscriber hears of a batch: the new numbers in order, without those that are missed.
LEMMA DeliveredInOrder ==
    ASSUME NEW batch, IsSeq(batch), sequence \in Nat, NEW missed
    PROVE  /\ Delivered(batch, missed) \in Seq(Nat)
           /\ Increasing(Delivered(batch, missed))
           /\ Range(Delivered(batch, missed)) = (sequence + 1 .. sequence + Len(batch)) \ missed
<1> DEFINE n == Len(batch)
           F(k) == [i \in 0..n |-> IF i = 0 THEN <<>>
                                   ELSE IF sequence + i \in missed THEN k[i - 1]
                                   ELSE Append(k[i - 1], sequence + i)]
           kept == CHOOSE k : k = F(k)
           step == [p \in (0..n) \X Seq(Nat) |->
                       IF sequence + p[1] \in missed THEN p[2] ELSE Append(p[2], sequence + p[1])]
<1>0. n \in Nat
  BY SeqShape
<1>1. Delivered(batch, missed) = kept[n]
  BY DEF Delivered
<1>2. Loop(n, Seq(Nat), <<>>, step)
  <2>1. <<>> \in Seq(Nat)
    OBVIOUS
  <2>2. \A i \in 1..n : i \in 0..n /\ sequence + i \in Nat
    BY <1>0
  <2>3. \A i \in 0..n : \A v \in Seq(Nat) :
            step[<<i, v>>] = IF sequence + i \in missed THEN v ELSE Append(v, sequence + i)
    OBVIOUS
  <2> HIDE DEF step, n
  <2>4. ASSUME NEW i \in 1..n, NEW v \in Seq(Nat) PROVE step[<<i, v>>] \in Seq(Nat)
    <3>1. Append(v, sequence + i) \in Seq(Nat)
      BY <2>2
    <3> QED BY <2>2, <2>3, <3>1
  <2> QED BY <1>0, <2>1, <2>4 DEF Loop
<1>3. PICK h \in [0..n -> Seq(Nat)] : LoopSolution(h, n, <<>>, step)
  BY <1>2, LoopRecursion
<1>4. h = F(h)
  <2>1. \A i \in 1..n : h[i] = step[<<i, h[i - 1]>>] /\ h[i - 1] \in Seq(Nat) /\ i \in 0..n
    <3> HIDE DEF step, F
    <3>1. \A i \in 1..n : i \in 0..n /\ i - 1 \in 0..n
      BY <1>0
    <3> QED BY <1>3, <3>1 DEF LoopSolution
  <2>2. \A i \in 1..n : h[i] = IF sequence + i \in missed THEN h[i - 1]
                               ELSE Append(h[i - 1], sequence + i)
    BY <2>1
  <2>3. h[0] = <<>> /\ \A i \in 0..n : i # 0 => i \in 1..n
    BY <1>0, <1>3 DEF LoopSolution
  <2>4. \A i \in 0..n : h[i] = F(h)[i]
    BY <2>2, <2>3
  <2>5. DOMAIN h = 0..n /\ h = [i \in 0..n |-> h[i]] /\ F(h) = [i \in 0..n |-> F(h)[i]]
    BY <1>3
  <2> HIDE DEF F
  <2> QED BY <2>4, <2>5, Zenon
<1>5. kept = F(kept)
  <2> HIDE DEF F
  <2> QED BY <1>4, Zenon
<1>6. /\ kept[0] = <<>>
      /\ \A i \in 1..n : kept[i] = IF sequence + i \in missed THEN kept[i - 1]
                                   ELSE Append(kept[i - 1], sequence + i)
  <2> HIDE DEF kept
  <2>1. /\ F(kept)[0] = <<>>
        /\ \A i \in 1..n : F(kept)[i] = IF sequence + i \in missed THEN kept[i - 1]
                                        ELSE Append(kept[i - 1], sequence + i)
    BY <1>0
  <2> HIDE DEF F
  <2> QED BY <1>5, <2>1, Zenon
<1> HIDE DEF kept, F, step
<1> DEFINE Upto(i) == (sequence + 1 .. sequence + i) \ missed
           Fits(s, i) == s \in Seq(Nat) /\ Increasing(s) /\ Range(s) = Upto(i)
           Q == {i \in Nat : i <= n => Fits(kept[i], i)}
<1>7. 0 \in Q
  <2>1. <<>> \in Seq(Nat) /\ Increasing(<<>>) /\ Range(<<>>) = {}
    BY DEF Increasing, Range
  <2>2. Upto(0) = {}
    OBVIOUS
  <2> HIDE DEF Upto
  <2> QED BY <1>6, <2>1, <2>2
<1>8. ASSUME NEW i \in Nat, i \in Q PROVE i + 1 \in Q
  <2> SUFFICES ASSUME i + 1 <= n PROVE Fits(kept[i + 1], i + 1)
    OBVIOUS
  <2>0. i <= n /\ i + 1 \in 1..n /\ (i + 1) - 1 = i
    BY <1>0
  <2>1. Fits(kept[i], i)
    BY <1>8, <2>0
  <2>2. kept[i + 1] = IF sequence + (i + 1) \in missed THEN kept[i]
                      ELSE Append(kept[i], sequence + (i + 1))
    BY <1>6, <2>0
  <2>3. CASE sequence + (i + 1) \in missed
    <3>1. Upto(i + 1) = Upto(i)
      BY <2>3
    <3> HIDE DEF Upto
    <3> QED BY <2>1, <2>2, <2>3, <3>1
  <2>4. CASE sequence + (i + 1) \notin missed
    <3> DEFINE s == kept[i]
               x == sequence + (i + 1)
    <3>1. s \in Seq(Nat) /\ Increasing(s) /\ Range(s) = Upto(i) /\ x \in Nat
      BY <2>1
    <3>2. Upto(i + 1) = Upto(i) \union {x} /\ \A y \in Upto(i) : y < x
      BY <2>4
    <3>3. kept[i + 1] = Append(s, x)
      BY <2>2, <2>4
    <3> HIDE DEF Upto, s, x
    <3>4. /\ Append(s, x) \in Seq(Nat) /\ Len(Append(s, x)) = Len(s) + 1
          /\ Append(s, x)[Len(s) + 1] = x /\ \A j \in 1..Len(s) : Append(s, x)[j] = s[j]
          /\ DOMAIN s = 1..Len(s) /\ DOMAIN Append(s, x) = 1..(Len(s) + 1) /\ Len(s) \in Nat
      BY <3>1
    <3> DEFINE t == Append(s, x)
    <3>5. \A j \in 1..Len(s) : s[j] < x
      <4>1. \A j \in 1..Len(s) : s[j] \in Range(s)
        BY <3>4 DEF Range
      <4> QED BY <3>1, <3>2, <4>1
    <3> HIDE DEF t
    <3>6. Increasing(t)
      <4> SUFFICES ASSUME NEW a \in DOMAIN t, NEW b \in DOMAIN t, a < b PROVE t[a] < t[b]
        BY DEF Increasing
      <4>1. a \in 1..Len(s) /\ (b \in 1..Len(s) \/ b = Len(s) + 1)
        BY <3>4 DEF t
      <4>2. t[a] = s[a]
        BY <3>4, <4>1 DEF t
      <4>3. CASE b \in 1..Len(s)
        BY <3>1, <3>4, <4>1, <4>2, <4>3 DEF Increasing, t
      <4>4. CASE b = Len(s) + 1
        BY <3>4, <3>5, <4>1, <4>2, <4>4 DEF t
      <4> QED BY <4>1, <4>3, <4>4
    <3>7. Range(t) = Range(s) \union {x}
      <4>1. /\ DOMAIN t = 1..(Len(s) + 1) /\ t[Len(s) + 1] = x
            /\ \A j \in 1..Len(s) : t[j] = s[j]
        BY <3>4 DEF t
      <4>2. ASSUME NEW y \in Range(t) PROVE y \in Range(s) \/ y = x
        <5>1. PICK j \in 1..(Len(s) + 1) : y = t[j]
          BY <4>1 DEF Range
        <5>2. CASE j = Len(s) + 1
          BY <4>1, <5>1, <5>2
        <5>3. CASE j \in 1..Len(s)
          BY <3>4, <4>1, <5>1, <5>3 DEF Range
        <5> QED BY <3>4, <5>2, <5>3
      <4>3. x \in Range(t)
        <5>1. Len(s) + 1 \in DOMAIN t
          BY <3>4, <4>1
        <5> QED BY <4>1, <5>1 DEF Range
      <4>4. ASSUME NEW y \in Range(s) PROVE y \in Range(t)
        <5>1. PICK j \in 1..Len(s) : y = s[j]
          BY <3>4 DEF Range
        <5>2. j \in 1..(Len(s) + 1)
          BY <3>4
        <5> QED BY <4>1, <5>1, <5>2 DEF Range
      <4> QED BY <4>2, <4>3, <4>4
    <3>8. t \in Seq(Nat) /\ kept[i + 1] = t
      BY <3>3, <3>4 DEF t
    <3> QED BY <3>1, <3>2, <3>6, <3>7, <3>8
  <2> QED BY <2>3, <2>4
<1>9. Nat \subseteq Q
  <2> HIDE DEF Q
  <2> QED BY <1>7, <1>8, NumberInduction
<1>10. n \in Q /\ n <= n
  BY <1>0, <1>9
<1> QED BY <1>1, <1>10

(***************************************************************************)
(* The evidence: the numbers of the events, and who heard of which.        *)
(***************************************************************************)
Hearers == {d \in Subscriber \X (1..sequence) : d[2] \in Range(heard[d[1]])}
Heard ==
    /\ sequence \in Nat /\ subscriber_errors \in Nat /\ heard \in [Subscriber -> Seq(Nat)]
    /\ sequence = Len(events)
    /\ \A i \in DOMAIN events : events[i].sequence = i
    /\ \A s \in Subscriber : Increasing(heard[s]) /\ Range(heard[s]) \subseteq 1..sequence
    /\ Cardinality(Hearers) + subscriber_errors = Cardinality(Subscriber) * sequence

LEMMA IncreasingConcat ==
    ASSUME NEW s \in Seq(Nat), NEW t \in Seq(Nat), Increasing(s), Increasing(t), NEW n \in Nat,
           \A x \in Range(s) : x <= n, \A x \in Range(t) : n < x
    PROVE  Increasing(s \o t) /\ Range(s \o t) = Range(s) \union Range(t)
<1> DEFINE u == s \o t
<1>1. /\ u \in Seq(Nat) /\ Len(s) \in Nat /\ Len(t) \in Nat
      /\ DOMAIN s = 1..Len(s) /\ DOMAIN t = 1..Len(t) /\ DOMAIN u = 1..(Len(s) + Len(t))
      /\ \A i \in 1..Len(s) : u[i] = s[i]
      /\ \A i \in 1..Len(t) : u[Len(s) + i] = t[i]
  OBVIOUS
<1> HIDE DEF u
<1>2. ASSUME NEW i \in DOMAIN u
      PROVE  \/ i \in DOMAIN s /\ u[i] = s[i] /\ u[i] \in Range(s)
             \/ /\ i > Len(s) /\ i - Len(s) \in DOMAIN t /\ u[i] = t[i - Len(s)]
                /\ u[i] \in Range(t)
  <2>1. CASE i \in 1..Len(s)
    BY <1>1, <2>1 DEF Range
  <2>2. CASE i > Len(s)
    <3>1. i - Len(s) \in 1..Len(t) /\ Len(s) + (i - Len(s)) = i
      BY <1>1, <2>2
    <3>2. u[i] = t[i - Len(s)]
      BY <1>1, <3>1
    <3> QED BY <1>1, <2>2, <3>1, <3>2 DEF Range
  <2> QED BY <1>1, <2>1, <2>2
<1>3. Increasing(u)
  <2> SUFFICES ASSUME NEW i \in DOMAIN u, NEW j \in DOMAIN u, i < j PROVE u[i] < u[j]
    BY DEF Increasing
  <2>0. i \in Nat /\ j \in Nat
    BY <1>1
  <2>1. CASE i \in DOMAIN s /\ j \in DOMAIN s /\ u[i] = s[i] /\ u[j] = s[j]
    BY <2>1 DEF Increasing
  <2>2. CASE u[i] \in Range(s) /\ u[j] \in Range(t)
    <3>1. u[i] \in Nat /\ u[j] \in Nat
      BY <1>1
    <3> QED BY <2>2, <3>1
  <2>3. CASE i > Len(s) /\ j > Len(s)
    <3> DEFINE a == i - Len(s)
               b == j - Len(s)
    <3>1. a \in DOMAIN t /\ b \in DOMAIN t /\ a < b /\ u[i] = t[a] /\ u[j] = t[b]
      BY <1>1, <1>2, <2>0, <2>3
    <3> HIDE DEF a, b
    <3> QED BY <3>1 DEF Increasing
  <2>4. i > Len(s) => j > Len(s)
    BY <1>1, <2>0
  <2> QED BY <1>2, <2>1, <2>2, <2>3, <2>4
<1>4. \A x \in Range(u) : x \in Range(s) \/ x \in Range(t)
  BY <1>2 DEF Range
<1>5. ASSUME NEW x \in Range(s) PROVE x \in Range(u)
  <2>1. PICK i \in 1..Len(s) : x = s[i]
    BY <1>1 DEF Range
  <2>2. i \in DOMAIN u
    BY <1>1
  <2> QED BY <1>1, <2>1, <2>2 DEF Range
<1>6. ASSUME NEW x \in Range(t) PROVE x \in Range(u)
  <2>1. PICK i \in 1..Len(t) : x = t[i]
    BY <1>1 DEF Range
  <2>2. Len(s) + i \in DOMAIN u
    BY <1>1
  <2> QED BY <1>1, <2>1, <2>2 DEF Range
<1> QED BY <1>3, <1>4, <1>5, <1>6 DEF u

LEMMA HandledInOrder ==
    ASSUME NEW batch, IsSeq(batch), sequence \in Nat, NEW s,
           NEW lost, lost \subseteq Subscriber \X (sequence + 1 .. sequence + Len(batch))
    PROVE  /\ Handled(batch, s, lost) \in Seq(Nat)
           /\ Increasing(Handled(batch, s, lost))
           /\ Range(Handled(batch, s, lost)) = {n \in sequence + 1 .. sequence + Len(batch) :
                                                   <<s, n>> \notin lost}
<1> DEFINE missed == {d[2] : d \in {m \in lost : m[1] = s}}
           new == sequence + 1 .. sequence + Len(batch)
<1>1. Handled(batch, s, lost) = Delivered(batch, missed)
  BY DEF Handled
<1>2. ASSUME NEW n \in new PROVE n \in missed <=> <<s, n>> \in lost
  <2>1. ASSUME n \in missed PROVE <<s, n>> \in lost
    <3>1. PICK d \in lost : d[1] = s /\ d[2] = n
      BY <2>1
    <3>2. d = <<d[1], d[2]>>
      OBVIOUS
    <3> QED BY <3>1, <3>2
  <2>2. ASSUME <<s, n>> \in lost PROVE n \in missed
    BY <2>2
  <2> QED BY <2>1, <2>2
<1> HIDE DEF missed
<1>3. new \ missed = {n \in new : <<s, n>> \notin lost}
  BY <1>2
<1> QED BY <1>1, <1>3, DeliveredInOrder

LEMMA NothingRecorded == ASSUME Heard, RecordNothing PROVE Heard'
BY DEF Heard, RecordNothing, Hearers, Increasing, Range

LEMMA RecordKeeps ==
    ASSUME IsSeq(events), Heard, NEW batch, IsSeq(batch), NEW lost, Record(batch, lost)
    PROVE  Heard'
<1> DEFINE n == Len(batch)
           new == sequence + 1 .. sequence + n
           more == (Subscriber \X new) \ lost
<1>0. n \in Nat /\ sequence \in Nat /\ sequence' = sequence + n /\ sequence' \in Nat
  BY SeqShape DEF Heard, Record
<1>1. lost \subseteq Subscriber \X new
  BY DEF Record
<1>2. ASSUME NEW s \in Subscriber
      PROVE  /\ heard'[s] \in Seq(Nat) /\ Increasing(heard'[s])
             /\ Range(heard'[s]) = Range(heard[s]) \union {k \in new : <<s, k>> \notin lost}
             /\ Range(heard'[s]) \subseteq 1..sequence'
  <2> DEFINE old == heard[s]
             add == Handled(batch, s, lost)
             heardNow == {k \in new : <<s, k>> \notin lost}
  <2>1. heard'[s] = old \o add
    BY DEF Record
  <2>2. add \in Seq(Nat) /\ Increasing(add) /\ Range(add) = heardNow
    BY <1>0, <1>1, HandledInOrder
  <2>3. old \in Seq(Nat) /\ Increasing(old) /\ Range(old) \subseteq 1..sequence
    BY DEF Heard
  <2>4. \A x \in 1..sequence : x <= sequence /\ x \in 1..sequence'
    BY <1>0
  <2>5. \A x \in heardNow : sequence < x /\ x \in 1..sequence'
    BY <1>0
  <2>6. old \o add \in Seq(Nat)
    BY <2>2, <2>3
  <2> HIDE DEF old, add, heardNow
  <2>7. /\ \A x \in Range(old) : x <= sequence /\ x \in 1..sequence'
        /\ \A x \in Range(add) : sequence < x /\ x \in 1..sequence'
    BY <2>2, <2>3, <2>4, <2>5
  <2>8. Increasing(old \o add) /\ Range(old \o add) = Range(old) \union Range(add)
    BY <1>0, <2>2, <2>3, <2>7, IncreasingConcat
  <2> QED BY <2>1, <2>2, <2>6, <2>7, <2>8 DEF old, heardNow
<1>3. heard' \in [Subscriber -> Seq(Nat)]
  <2>1. heard' = [s \in Subscriber |-> heard[s] \o Handled(batch, s, lost)]
    BY DEF Record
  <2> QED BY <1>2, <2>1
<1>4. sequence' = Len(events') /\ \A i \in DOMAIN events' : events'[i].sequence = i
  <2> DEFINE add == [i \in DOMAIN batch |-> Numbered(batch[i], sequence + i)]
  <2>1. events' = events \o add /\ DOMAIN batch = 1..n
    BY SeqShape DEF Record
  <2>2. add = [i \in 1..n |-> add[i]] /\ DOMAIN add = 1..n
    BY <2>1
  <2>3. \A i \in 1..n : add[i].sequence = sequence + i
    BY <2>1 DEF Numbered
  <2>4. IsSeq(add)
    <3> HIDE DEF add
    <3> QED BY <1>0, <2>2, FunctionIsSeq
  <2>5. Len(add) = n
    <3> HIDE DEF add
    <3>1. Len(add) \in Nat /\ 1..Len(add) = 1..n
      BY <2>2, <2>4, SeqShape
    <3> QED BY <1>0, <3>1
  <2> HIDE DEF add
  <2>6. /\ IsSeq(events \o add) /\ Len(events \o add) = Len(events) + n
        /\ \A i \in 1..Len(events) : (events \o add)[i] = events[i]
        /\ \A i \in 1..n : (events \o add)[Len(events) + i] = add[i]
    BY <2>4, <2>5, ConcatIsSeq
  <2>7. Len(events) = sequence /\ \A i \in 1..sequence : events[i].sequence = i
    BY SeqShape DEF Heard
  <2>8. DOMAIN events' = 1..(sequence + n)
    BY <2>1, <2>6, <2>7, SeqShape
  <2>9. ASSUME NEW i \in DOMAIN events' PROVE events'[i].sequence = i
    <3>1. CASE i \in 1..sequence
      BY <2>1, <2>6, <2>7, <3>1
    <3>2. CASE i \notin 1..sequence
      <4>1. i - sequence \in 1..n /\ sequence + (i - sequence) = i
        BY <1>0, <2>8, <3>2
      <4> QED BY <2>1, <2>3, <2>6, <2>7, <4>1
    <3> QED BY <3>1, <3>2
  <2> QED BY <1>0, <2>1, <2>6, <2>7, <2>9
<1>5. Hearers' = Hearers \union more /\ Hearers \cap more = {}
  <2>1. \A k \in 1..sequence' : k \in 1..sequence \/ k \in new
    BY <1>0
  <2>2. /\ 1..sequence \subseteq 1..sequence' /\ new \subseteq 1..sequence'
        /\ \A k \in 1..sequence : k \notin new
    BY <1>0
  <2>3. \A s \in Subscriber : Range(heard[s]) \subseteq 1..sequence
    BY DEF Heard
  <2>4. \A s \in Subscriber : \A k : k \in Range(heard'[s]) <=>
            k \in Range(heard[s]) \/ (k \in new /\ <<s, k>> \notin lost)
    BY <1>2
  <2> HIDE DEF new
  <2>5. ASSUME NEW s \in Subscriber, NEW k
        PROVE  /\ <<s, k>> \in Hearers' <=> <<s, k>> \in Hearers \/ <<s, k>> \in more
               /\ ~(<<s, k>> \in Hearers /\ <<s, k>> \in more)
    <3>1. <<s, k>> \in Hearers <=> k \in 1..sequence /\ k \in Range(heard[s])
      BY DEF Hearers
    <3>2. <<s, k>> \in Hearers' <=> k \in 1..sequence' /\ k \in Range(heard'[s])
      BY DEF Hearers
    <3>3. <<s, k>> \in more <=> k \in new /\ <<s, k>> \notin lost
      OBVIOUS
    <3> HIDE DEF more
    <3> QED BY <2>1, <2>2, <2>3, <2>4, <3>1, <3>2, <3>3
  <2>6. \A d \in Hearers \union Hearers' \union more : d = <<d[1], d[2]>> /\ d[1] \in Subscriber
    BY DEF Hearers
  <2> HIDE DEF more
  <2> QED BY <2>5, <2>6
<1>6. IsFiniteSet(Subscriber \X new) /\ Cardinality(Subscriber \X new) = Cardinality(Subscriber) * n
  <2>1. IsFiniteSet(new) /\ Cardinality(new) = n
    <3>1. sequence + 1 \in Int /\ sequence + n \in Int
      BY <1>0
    <3>2. IsFiniteSet(new) /\ Cardinality(new) =
             IF sequence + 1 > sequence + n THEN 0 ELSE (sequence + n) - (sequence + 1) + 1
      BY <3>1, FS_Interval
    <3> HIDE DEF new
    <3> QED BY <1>0, <3>2
  <2>2. IsFiniteSet(Subscriber)
    BY SubscriberAssumption
  <2> HIDE DEF new
  <2> QED BY <2>1, <2>2, ProductCardinality
<1>7. /\ IsFiniteSet(more) /\ IsFiniteSet(lost)
      /\ Cardinality(lost) \in Nat /\ Cardinality(more) \in Nat
      /\ Cardinality(more) + Cardinality(lost) = Cardinality(Subscriber) * n
  <2>1. more \cap lost = {} /\ more \union lost = Subscriber \X new
    BY <1>1
  <2>2. IsFiniteSet(more) /\ IsFiniteSet(lost)
    BY <1>1, <1>6, FS_Subset
  <2> HIDE DEF more, new
  <2> QED BY <1>6, <2>1, <2>2, DisjointCardinality, FS_CardinalityType
<1>8. IsFiniteSet(Hearers)
  <2>1. IsFiniteSet(Subscriber \X (1..sequence))
    <3>1. IsFiniteSet(1..sequence)
      BY <1>0, FS_Interval
    <3> QED BY <3>1, SubscriberAssumption, ProductCardinality
  <2>2. Hearers \subseteq Subscriber \X (1..sequence)
    BY DEF Hearers
  <2> QED BY <2>1, <2>2, FS_Subset
<1>9. Cardinality(Hearers') = Cardinality(Hearers) + Cardinality(more)
  <2> HIDE DEF more
  <2> QED BY <1>5, <1>7, <1>8, DisjointCardinality
<1>10. subscriber_errors' = subscriber_errors + Cardinality(lost) /\ subscriber_errors \in Nat
  BY DEF Record, Heard
<1>11. Cardinality(Hearers') + subscriber_errors' = Cardinality(Subscriber) * sequence'
  <2>1. Cardinality(Hearers) + subscriber_errors = Cardinality(Subscriber) * sequence
    BY DEF Heard
  <2>2. Cardinality(Subscriber) \in Nat /\ Cardinality(Hearers) \in Nat
    BY <1>8, SubscriberAssumption, FS_CardinalityType
  <2>3. Cardinality(Subscriber) * (sequence + n)
           = Cardinality(Subscriber) * sequence + Cardinality(Subscriber) * n
    BY <1>0, <2>2
  <2> HIDE DEF n, more
  <2> QED BY <1>0, <1>7, <1>9, <1>10, <2>1, <2>2, <2>3
<1>12. subscriber_errors' \in Nat
  BY <1>7, <1>10
<1> HIDE DEF n, new, more
<1> QED BY <1>0, <1>2, <1>3, <1>4, <1>11, <1>12 DEF Heard

-----------------------------------------------------------------------------
Records == RecordNothing \/ \E batch, lost : IsSeq(batch) /\ Record(batch, lost)

LEMMA OneIsSeq == ASSUME NEW e PROVE IsSeq(<<e>>)
<1>1. <<e>> \in Seq({e})
  OBVIOUS
<1> QED BY <1>1, SeqOfAnything

LEMMA GivesUpRecords ==
    ASSUME IInv, NEW before \in Begun, NEW status, NEW reason, GivesUp(before, status, reason)
    PROVE  Records
<1> DEFINE e == Event(work.trace, "error", "orchestrator", None)
<1>1. \E lost : Record(Append(before, e), lost)
  BY DEF GivesUp
<1> HIDE DEF e
<1>2. IsSeq(Append(before, e))
  BY BegunIsHarmless, AppendIsSeq
<1> QED BY <1>1, <1>2 DEF Records

\* Every step of the orchestrator records a list of events, or nothing.
LEMMA StepRecords == ASSUME IInv, [Next]_vars PROVE Records
<1>1. ASSUME NEW play \in PlaysHere, PlayScenario(play) PROVE Records
  <2>1. IsSeq(play.events)
    BY PlaysAssumption DEF PlaysHere, IsSeq
  <2>2. DOMAIN Stamped(play.events) = 1..Len(play.events) /\ Len(play.events) \in Nat
        /\ Stamped(play.events) = [i \in 1..Len(play.events) |-> Stamped(play.events)[i]]
    BY <2>1, SeqShape DEF Stamped
  <2>3. IsSeq(Stamped(play.events))
    BY <2>2, FunctionIsSeq
  <2> QED BY <1>1, <2>3 DEF PlayScenario, Records
<1>2. ASSUME NEW rows, Scanning, ScanListing(rows) PROVE Records
  <2> DEFINE batch == [i \in 1..Cardinality(FindingsFromOutput(rows)) |->
                          Event(work.trace, "static_finding", Adapter, None)]
  <2>1. CASE ~Scanned(rows)
    BY <1>2, <2>1, GivesUpRecords DEF ScanListing
  <2>2. CASE Scanned(rows)
    <3>1. IsSeq(batch)
      BY <1>2, <2>2, ScannedListing
    <3>2. \E lost \in Losses(batch) : Record(batch, lost)
      BY <1>2, <2>2 DEF ScanListing
    <3> QED BY <3>1, <3>2 DEF Records
  <2> QED BY <2>1, <2>2
<1>3. CASE Work
  <2>1. CASE Start
    BY <2>1, OneIsSeq DEF Start, Records
  <2>2. CASE CaseCancelled \/ CaseDisabled
    BY <2>2 DEF CaseCancelled, CaseDisabled, PassOver, evidence, Records, RecordNothing
  <2>3. CASE CaseBegins
    BY <2>3 DEF CaseBegins, Records
  <2>4. CASE PrepareUnavailable \/ PrepareFails \/ ExecuteFails \/ ExecuteUnavailable \/ ScanFails
    <3>1. <<>> \in Begun
      BY DEF Begun
    <3> QED BY <2>4, <3>1, GivesUpRecords
              DEF PrepareUnavailable, PrepareFails, ExecuteFails, ExecuteUnavailable, ScanFails
  <2>5. CASE Prepare \/ Verify \/ \E raised \in BOOLEAN : Cleanup(raised)
    BY <2>5 DEF Prepare, Verify, Cleanup, Records
  <2>6. CASE stage = "execute" /\ \E play \in PlaysHere : PlayScenario(play)
    BY <1>1, <2>6
  <2>7. CASE Scan
    BY <1>2, <2>7 DEF Scan
  <2>8. CASE Finish
    BY <2>8, OneIsSeq DEF Finish, Records
  <2> QED BY <1>3, <2>1, <2>2, <2>3, <2>4, <2>5, <2>6, <2>7, <2>8 DEF Work
<1>4. CASE Cancel \/ ScannerChanges \/ UNCHANGED vars
  BY <1>4 DEF Cancel, ScannerChanges, Reinstall, vars, evidence, Records, RecordNothing
<1> QED BY <1>3, <1>4 DEF Next

-----------------------------------------------------------------------------
LEMMA HeardInitially == Init => Heard
<1> SUFFICES ASSUME Init PROVE Heard
  OBVIOUS
<1>1. /\ events = <<>> /\ sequence = 0 /\ subscriber_errors = 0
      /\ heard = [s \in Subscriber |-> <<>>]
  BY DEF Init, EvidenceInit
<1>2. \A s \in Subscriber : heard[s] = <<>>
  BY <1>1
<1>3. <<>> \in Seq(Nat) /\ Increasing(<<>>) /\ Range(<<>>) = {}
  BY DEF Increasing, Range
<1>4. heard \in [Subscriber -> Seq(Nat)]
  BY <1>1, <1>3
<1>5. Hearers = {}
  BY <1>2, <1>3 DEF Hearers
<1>6. Cardinality(Hearers) = 0
  BY <1>5, FS_EmptySet
<1>7. Cardinality(Subscriber) * 0 = 0
  BY SubscriberAssumption, FS_CardinalityType
<1> QED BY <1>1, <1>2, <1>3, <1>4, <1>6, <1>7 DEF Heard

LEMMA HeardStep == ASSUME IInv, Heard, [Next]_vars PROVE Heard'
<1>1. IsSeq(events) /\ Records
  BY StepRecords DEF IInv, Shapes
<1> QED BY <1>1, NothingRecorded, RecordKeeps DEF Records

LEMMA HeardIsKept == ASSUME IInv, Heard PROVE EvidenceIsKept
<1> DEFINE reached == UNION {{<<s, heard[s][i]>> : i \in DOMAIN heard[s]} : s \in Subscriber}
<1>1. \A s \in Subscriber : \A n : <<s, n>> \in Hearers <=> n \in Range(heard[s])
  BY DEF Heard, Hearers
<1>2. \A s \in Subscriber : \A n : <<s, n>> \in reached <=> n \in Range(heard[s])
  <2>1. ASSUME NEW s \in Subscriber, NEW n, <<s, n>> \in reached PROVE n \in Range(heard[s])
    <3>1. PICK r \in Subscriber : <<s, n>> \in {<<r, heard[r][i]>> : i \in DOMAIN heard[r]}
      BY <2>1
    <3>2. PICK i \in DOMAIN heard[r] : <<s, n>> = <<r, heard[r][i]>>
      BY <3>1
    <3> QED BY <3>2 DEF Range
  <2>2. ASSUME NEW s \in Subscriber, NEW n \in Range(heard[s]) PROVE <<s, n>> \in reached
    <3>1. PICK i \in DOMAIN heard[s] : n = heard[s][i]
      BY DEF Range
    <3>2. <<s, n>> \in {<<s, heard[s][j]>> : j \in DOMAIN heard[s]}
      BY <3>1
    <3> QED BY <3>2
  <2> QED BY <2>1, <2>2
<1>3. \A d \in reached : \E s \in Subscriber : \E n : d = <<s, n>>
  OBVIOUS
<1>4. \A d \in Hearers : \E s \in Subscriber : \E n : d = <<s, n>>
  BY DEF Hearers
<1>5. reached = Hearers
  <2> HIDE DEF reached
  <2>1. ASSUME NEW d \in reached PROVE d \in Hearers
    <3>1. PICK s \in Subscriber : \E n : d = <<s, n>>
      BY <1>3
    <3>2. PICK n : d = <<s, n>>
      BY <3>1
    <3> QED BY <1>1, <1>2, <3>2
  <2>2. ASSUME NEW d \in Hearers PROVE d \in reached
    <3>1. PICK s \in Subscriber : \E n : d = <<s, n>>
      BY <1>4
    <3>2. PICK n : d = <<s, n>>
      BY <3>1
    <3> QED BY <1>1, <1>2, <3>2
  <2> QED BY <2>1, <2>2
<1>6. Cardinality(reached) + subscriber_errors = Cardinality(Subscriber) * Len(events)
  BY <1>5 DEF Heard
<1>7. \A s \in Subscriber : \A i, j \in DOMAIN heard[s] : i < j => heard[s][i] < heard[s][j]
  BY DEF Heard, Increasing
<1> QED BY <1>6, <1>7 DEF Heard, EvidenceIsKept

(***************************************************************************)
(* EventBus.publish: whatever subscribers fail, and at whichever events,   *)
(* every event is kept in its place, each subscriber hears its events in   *)
(* their order, and each failed delivery is counted.                       *)
(***************************************************************************)
THEOREM EvidenceSurvives == Spec => []EvidenceIsKept
<1>1. Init => IInv /\ Heard
  BY Initially, HeardInitially
<1>2. IInv /\ Heard /\ [Next]_vars => (IInv /\ Heard)'
  BY Inductive, HeardStep
<1>3. IInv /\ Heard => EvidenceIsKept
  BY HeardIsKept
<1> QED BY <1>1, <1>2, <1>3, PTL DEF Spec

-----------------------------------------------------------------------------
(***************************************************************************)
(* What a record adds to the events, by position.                          *)
(***************************************************************************)
LEMMA RecordExtends ==
    ASSUME IsSeq(events), Heard, NEW batch, IsSeq(batch), NEW lost, Record(batch, lost)
    PROVE  /\ IsSeq(events') /\ DOMAIN events' = 1..(Len(events) + Len(batch))
           /\ DOMAIN events = 1..Len(events) /\ DOMAIN batch = 1..Len(batch)
           /\ Len(events) \in Nat /\ Len(batch) \in Nat
           /\ \A i \in DOMAIN events : events'[i] = events[i]
           /\ \A k \in DOMAIN batch : /\ events'[Len(events) + k].trace = batch[k].trace
                                     /\ events'[Len(events) + k].type = batch[k].type
                                     /\ events'[Len(events) + k].source = batch[k].source
                                     /\ events'[Len(events) + k].decision = batch[k].decision
<1> DEFINE add == [i \in DOMAIN batch |-> Numbered(batch[i], sequence + i)]
<1>1. events' = events \o add /\ DOMAIN batch = 1..Len(batch) /\ Len(batch) \in Nat
  BY SeqShape DEF Record
<1>2. add = [i \in 1..Len(batch) |-> add[i]] /\ DOMAIN add = 1..Len(batch)
  BY <1>1
<1>3. \A k \in 1..Len(batch) : /\ add[k].trace = batch[k].trace /\ add[k].type = batch[k].type
                               /\ add[k].source = batch[k].source
                               /\ add[k].decision = batch[k].decision
  BY <1>1 DEF Numbered
<1>4. IsSeq(add) /\ Len(add) = Len(batch)
  <2> HIDE DEF add
  <2>1. IsSeq(add)
    BY <1>1, <1>2, FunctionIsSeq
  <2>2. Len(add) \in Nat /\ 1..Len(add) = 1..Len(batch)
    BY <1>2, <2>1, SeqShape
  <2> QED BY <1>1, <2>1, <2>2
<1> HIDE DEF add
<1>5. /\ IsSeq(events \o add) /\ Len(events \o add) = Len(events) + Len(batch)
      /\ \A i \in 1..Len(events) : (events \o add)[i] = events[i]
      /\ \A i \in 1..Len(batch) : (events \o add)[Len(events) + i] = add[i]
  BY <1>4, ConcatIsSeq
<1>6. Len(events) \in Nat /\ DOMAIN events = 1..Len(events)
  BY SeqShape
<1>7. DOMAIN events' = 1..(Len(events) + Len(batch))
  BY <1>1, <1>5, SeqShape
<1> QED BY <1>1, <1>3, <1>5, <1>6, <1>7

(***************************************************************************)
(* The decisions in a trace are those of the play.                         *)
(***************************************************************************)
DecisionsOf(t) == {i \in DOMAIN events : events[i].trace = t /\ events[i].type = "policy_decision"}
Holds(t, list, off) ==
    /\ \A k \in DOMAIN list :
          /\ off + k \in DOMAIN events /\ events[off + k].trace = t
          /\ events[off + k].type = list[k].type /\ events[off + k].source = list[k].source
          /\ events[off + k].decision = list[k].decision
    /\ \A i \in DecisionsOf(t) : i - off \in DOMAIN list
Shows(t, list) == IsSeq(list) /\ \E off \in Nat : Holds(t, list, off)

Claimable ==
    LET p == work.play
    IN /\ p.truth.blocked \in Nat /\ p.truth.withheld \in Nat
       /\ Adapter \in ThirdParty =>
              p.truth.blocked = 0 /\ p.truth.withheld = 0 /\ ~p.truth.known
       /\ Adapter \notin ThirdParty => ~p.blocked

\* Of what a user's adapter plays the runner sees nothing, and it prevents nothing.
Unseen(r, play, adapter) == adapter \in ThirdParty => ~play.truth.known /\ ~r.blocked
Supported(r, play, adapter, case) ==
    PreventionSeen(r, play, case) /\ DrawnFrom(r, play.events) /\ Unseen(r, play, adapter)
Verdicts ==
    /\ stage \in {"prepare", "execute"} => DecisionsOf(work.trace) = {}
    /\ stage = "verify" => Claimable /\ Shows(work.trace, work.play.events)
    /\ stage = "cleanup" /\ work.result[1].status = "completed" =>
           Supported(work.result[1], work.play, Adapter, Case)
    /\ \A i \in DOMAIN results : results[i].status = "completed" =>
           Supported(results[i], played[i], AdapterAt(i), CaseAt(i))

LEMMA NoMoreDecisions ==
    ASSUME IsSeq(events), Heard, NEW batch, IsSeq(batch), NEW lost, Record(batch, lost), NEW t,
           \A k \in DOMAIN batch : batch[k].type # "policy_decision"
    PROVE  DecisionsOf(t)' = DecisionsOf(t)
<1>1. /\ DOMAIN events' = 1..(Len(events) + Len(batch))
      /\ DOMAIN events = 1..Len(events) /\ DOMAIN batch = 1..Len(batch)
      /\ Len(events) \in Nat /\ Len(batch) \in Nat
      /\ \A i \in DOMAIN events : events'[i] = events[i]
      /\ \A k \in DOMAIN batch : events'[Len(events) + k].type = batch[k].type
  BY RecordExtends
<1>2. ASSUME NEW i \in DOMAIN events', events'[i].type = "policy_decision" PROVE i \in DOMAIN events
  <2> SUFFICES ASSUME i \notin DOMAIN events PROVE FALSE
    OBVIOUS
  <2>1. i - Len(events) \in DOMAIN batch /\ Len(events) + (i - Len(events)) = i
    BY <1>1
  <2> QED BY <1>1, <1>2, <2>1
<1>3. \A i \in DOMAIN events : i \in DOMAIN events'
  BY <1>1
<1> QED BY <1>1, <1>2, <1>3 DEF DecisionsOf

LEMMA PlayIsShown ==
    ASSUME IsSeq(events), Heard, NEW play, IsSeq(play.events), NEW lost,
           Record(Stamped(play.events), lost), DecisionsOf(work.trace) = {}, work'.trace = work.trace
    PROVE  Shows(work.trace, play.events)'
<1> DEFINE list == play.events
           batch == Stamped(list)
<1>0. PICK off \in Nat : off = Len(events)
  BY SeqShape
<1>1. DOMAIN list = 1..Len(list) /\ Len(list) \in Nat /\ DOMAIN batch = DOMAIN list
      /\ \A k \in DOMAIN list : /\ batch[k].trace = work.trace /\ batch[k].type = list[k].type
                               /\ batch[k].source = list[k].source
                               /\ batch[k].decision = list[k].decision
  BY SeqShape DEF Stamped, Event
<1>2. IsSeq(batch)
  <2>1. batch = [k \in 1..Len(list) |-> batch[k]]
    BY <1>1 DEF Stamped
  <2> HIDE DEF batch, list
  <2> QED BY <1>1, <2>1, FunctionIsSeq
<1> HIDE DEF list, batch
<1>3. Record(batch, lost) /\ IsSeq(list)
  BY DEF batch, list
<1>4. /\ DOMAIN events' = 1..(off + Len(batch)) /\ DOMAIN events = 1..off /\ off \in Nat
      /\ DOMAIN batch = 1..Len(batch) /\ Len(batch) \in Nat
      /\ \A i \in DOMAIN events : events'[i] = events[i]
      /\ \A k \in DOMAIN batch : /\ events'[off + k].trace = batch[k].trace
                                /\ events'[off + k].type = batch[k].type
                                /\ events'[off + k].source = batch[k].source
                                /\ events'[off + k].decision = batch[k].decision
  BY <1>0, <1>2, <1>3, RecordExtends
<1>5. ASSUME NEW k \in DOMAIN list
      PROVE  /\ off + k \in DOMAIN events' /\ events'[off + k].trace = work.trace
             /\ events'[off + k].type = list[k].type /\ events'[off + k].source = list[k].source
             /\ events'[off + k].decision = list[k].decision
  <2>1. k \in DOMAIN batch /\ off + k \in DOMAIN events'
    BY <1>1, <1>4
  <2> QED BY <1>1, <1>4, <2>1
<1>6. ASSUME NEW i \in DecisionsOf(work.trace)' PROVE i - off \in DOMAIN list
  <2>1. i \in DOMAIN events' /\ events'[i].trace = work.trace /\ events'[i].type = "policy_decision"
    BY DEF DecisionsOf
  <2>2. i \notin DOMAIN events
    BY <1>4, <2>1 DEF DecisionsOf
  <2> QED BY <1>1, <1>4, <2>1, <2>2
<1>7. Holds(work.trace, list, off)'
  BY <1>5, <1>6 DEF Holds
<1> QED BY <1>3, <1>7 DEF Shows, list

\* Each decision of the play is one event of the trace, and is counted once.
LEMMA DecidedByThePlay ==
    ASSUME IsSeq(events), Heard, NEW t, NEW list, Shows(t, list), NEW D
    PROVE  Decided(EventsForTrace(t), D) = Cardinality(Decides(list, D))
<1> PICK off \in Nat : Holds(t, list, off)
  BY DEF Shows
<1> DEFINE S == {e \in EventsForTrace(t) : e.type = "policy_decision" /\ e.decision \in D}
           K == Decides(list, D)
           f == [k \in K |-> events[off + k]]
<1>1. \A k \in K : /\ k \in DOMAIN list /\ off + k \in DOMAIN events /\ events[off + k].trace = t
                   /\ events[off + k].type = "policy_decision" /\ events[off + k].decision \in D
  BY DEF Holds, Decides
<1>2. \A i \in DOMAIN events : events[i].sequence = i
  BY DEF Heard
<1>3. DOMAIN list \subseteq Nat /\ IsFiniteSet(DOMAIN list)
  <2>1. DOMAIN list = 1..Len(list) /\ Len(list) \in Nat
    BY SeqShape DEF Shows
  <2> QED BY <2>1, FS_Interval
<1>4. IsFiniteSet(K)
  BY <1>3, FS_Subset DEF Decides
<1>5. f \in [K -> S]
  BY <1>1 DEF EventsForTrace
<1>6. \A a, b \in K : f[a] = f[b] => a = b
  <2> SUFFICES ASSUME NEW a \in K, NEW b \in K, f[a] = f[b] PROVE a = b
    OBVIOUS
  <2>1. off + a = off + b
    BY <1>1, <1>2
  <2> QED BY <1>1, <1>3, <2>1
<1>7. \A e \in S : \E k \in K : f[k] = e
  <2> SUFFICES ASSUME NEW e \in S PROVE \E k \in K : f[k] = e
    OBVIOUS
  <2>1. PICK i \in DOMAIN events : e = events[i] /\ events[i].trace = t
    BY DEF EventsForTrace
  <2>2. i \in DecisionsOf(t)
    BY <2>1 DEF DecisionsOf
  <2>3. i - off \in DOMAIN list
    BY <2>2 DEF Holds
  <2>4. i \in Nat /\ off + (i - off) = i
    BY <2>1, SeqShape
  <2>5. list[i - off].type = "policy_decision" /\ list[i - off].decision \in D
    BY <2>1, <2>3, <2>4 DEF Holds
  <2>6. i - off \in K
    BY <2>3, <2>5 DEF Decides
  <2> QED BY <2>1, <2>4, <2>6
<1> HIDE DEF f, S, K
<1>8. f \in Bijection(K, S)
  BY <1>5, <1>6, <1>7 DEF Bijection, Injection, Surjection, IsInjective
<1>9. Cardinality(S) = Cardinality(K)
  <2>1. ExistsBijection(K, S)
    BY <1>8 DEF ExistsBijection
  <2> QED BY <1>4, <2>1, FS_Bijection
<1> QED BY <1>9 DEF S, K, Decided

\* The results in hand keep their support.
LEMMA KeptSupport ==
    ASSUME Verdicts, plan' = plan, results' = results, played' = played
    PROVE  \A i \in DOMAIN results' : results'[i].status = "completed" =>
               Supported(results'[i], played'[i], AdapterAt(i)', CaseAt(i)')
BY SamePlan DEF Verdicts

LEMMA SameDecisions ==
    ASSUME events' = events
    PROVE  /\ \A t : DecisionsOf(t)' = DecisionsOf(t)
           /\ \A t, list : Shows(t, list) => Shows(t, list)'
<1>1. \A t : DecisionsOf(t)' = DecisionsOf(t)
  BY DEF DecisionsOf
<1>2. ASSUME NEW t, NEW list, Shows(t, list) PROVE Shows(t, list)'
  <2>1. PICK off \in Nat : Holds(t, list, off)
    BY <1>2 DEF Shows
  <2>2. Holds(t, list, off)'
    BY <1>1, <2>1 DEF Holds
  <2> QED BY <1>2, <2>2 DEF Shows
<1> QED BY <1>1, <1>2

\* A step between pairs.
LEMMA BetweenKeeps ==
    ASSUME Verdicts, stage' \notin InFlight, plan' = plan, results' = results, played' = played
    PROVE  Verdicts'
<1>1. \A i \in DOMAIN results' : results'[i].status = "completed" =>
          Supported(results'[i], played'[i], AdapterAt(i)', CaseAt(i)')
  BY KeptSupport
<1> QED BY <1>1 DEF Verdicts, InFlight

LEMMA QuietSupport ==
    ASSUME Verdicts, stage' = stage, work' = work, events' = events, plan' = plan,
           results' = results, played' = played
    PROVE  Verdicts'
<1>1. /\ \A t : DecisionsOf(t)' = DecisionsOf(t)
      /\ \A t, list : Shows(t, list) => Shows(t, list)'
  BY SameDecisions
<1>2. Adapter' = Adapter /\ Case' = Case
  BY SamePair
<1>3. \A i \in DOMAIN results' : results'[i].status = "completed" =>
          Supported(results'[i], played'[i], AdapterAt(i)', CaseAt(i)')
  BY KeptSupport
<1>4. Claimable => Claimable'
  BY <1>2 DEF Claimable
<1>5. stage' \in {"prepare", "execute"} => DecisionsOf(work.trace)' = {}
  BY <1>1 DEF Verdicts
<1>6. stage' = "verify" => Claimable' /\ Shows(work.trace, work.play.events)'
  BY <1>1, <1>4 DEF Verdicts
<1>7. stage' = "cleanup" /\ work'.result[1].status = "completed" =>
          Supported(work'.result[1], work'.play, Adapter', Case')
  BY <1>2 DEF Verdicts
<1> QED BY <1>3, <1>5, <1>6, <1>7 DEF Verdicts

LEMMA GivesUpSupport ==
    ASSUME IInv, Verdicts, NEW before, NEW status \in {"skipped", "error"}, NEW reason,
           GivesUp(before, status, reason)
    PROVE  Verdicts'
<1>1. /\ stage' = "cleanup" /\ plan' = plan /\ results' = results /\ played' = played
      /\ work'.result[1].status = status
  <2>1. work'.result = <<NoResult(Adapter, Case, status, reason)>>
    BY DEF GivesUp, IInv, Shapes
  <2> QED BY <2>1 DEF GivesUp, listing, answered, NoResult
<1>2. \A i \in DOMAIN results' : results'[i].status = "completed" =>
          Supported(results'[i], played'[i], AdapterAt(i)', CaseAt(i)')
  BY <1>1, KeptSupport
<1> QED BY <1>1, <1>2 DEF Verdicts

LEMMA BeginsSupport == ASSUME IInv, Verdicts, CaseBegins PROVE Verdicts'
<1>1. /\ stage' = "prepare" /\ plan' = plan /\ results' = results /\ played' = played
      /\ events' = events /\ work'.trace = ids + 1
  BY DEF CaseBegins, NewTraceId, NewTrace, RecordNothing, listing, answered, Idle
<1>2. \A i \in DOMAIN results' : results'[i].status = "completed" =>
          Supported(results'[i], played'[i], AdapterAt(i)', CaseAt(i)')
  BY <1>1, KeptSupport
<1>3. DecisionsOf(ids + 1) = {}
  BY DEF IInv, Shapes, Explained, DecisionsOf
<1>4. DecisionsOf(work.trace)' = {}
  BY <1>1, <1>3, SameDecisions
<1> QED BY <1>1, <1>2, <1>4 DEF Verdicts

LEMMA PrepareSupport == ASSUME IInv, Verdicts, Prepare PROVE Verdicts'
<1>1. /\ stage = "prepare" /\ stage' = "execute" /\ plan' = plan /\ results' = results
      /\ played' = played /\ events' = events /\ work' = work
  BY DEF Prepare, RecordNothing, listing, answered
<1>2. \A i \in DOMAIN results' : results'[i].status = "completed" =>
          Supported(results'[i], played'[i], AdapterAt(i)', CaseAt(i)')
  BY <1>1, KeptSupport
<1>3. DecisionsOf(work.trace)' = {}
  BY <1>1, SameDecisions DEF Verdicts
<1> QED BY <1>1, <1>2, <1>3 DEF Verdicts

LEMMA PlaySupport ==
    ASSUME IInv, Heard, Verdicts, NEW play \in PlaysHere, PlayScenario(play)
    PROVE  Verdicts'
<1> DEFINE done == [play EXCEPT !.findings = play.findings \union work.play.findings]
<1>1. /\ stage = "execute" /\ stage' = "verify" /\ work' = [work EXCEPT !.play = done]
      /\ plan' = plan /\ results' = results /\ played' = played
      /\ \E lost : Record(Stamped(play.events), lost)
  BY DEF PlayScenario, listing, answered
<1>2. /\ DOMAIN play = PlayFields
      /\ IsSeq(play.events) /\ play.truth.blocked \in Nat /\ play.truth.withheld \in Nat
      /\ Adapter \in ThirdParty => play.truth = NoTruth
      /\ Adapter \notin ThirdParty => ~play.blocked
  BY PlaysAssumption DEF PlaysHere, PlayFields, IsSeq
<1>3. /\ work'.trace = work.trace /\ work'.play = done
      /\ done.truth = play.truth /\ done.events = play.events /\ done.blocked = play.blocked
  BY <1>1, <1>2 DEF IInv, Shapes
<1> HIDE DEF done
<1>4. Shows(work.trace, play.events)'
  <2>1. IsSeq(events) /\ DecisionsOf(work.trace) = {}
    BY <1>1 DEF IInv, Shapes, Verdicts
  <2> QED BY <1>1, <1>2, <1>3, <2>1, PlayIsShown
<1>5. Shows(work.trace, work.play.events)'
  BY <1>3, <1>4
<1>6. Adapter' = Adapter
  BY <1>1, SamePair
<1>7. Claimable'
  <2>1. NoTruth.blocked = 0 /\ NoTruth.withheld = 0 /\ ~NoTruth.known
    BY DEF NoTruth
  <2> QED BY <1>2, <1>3, <1>6, <2>1 DEF Claimable
<1>8. \A i \in DOMAIN results' : results'[i].status = "completed" =>
          Supported(results'[i], played'[i], AdapterAt(i)', CaseAt(i)')
  BY <1>1, KeptSupport
<1> QED BY <1>1, <1>5, <1>7, <1>8 DEF Verdicts

LEMMA ScanSupport ==
    ASSUME IInv, Heard, Verdicts, Scanning, NEW rows, ScanListing(rows)
    PROVE  Verdicts'
<1> DEFINE batch == [i \in 1..Cardinality(FindingsFromOutput(rows)) |->
                        Event(work.trace, "static_finding", Adapter, None)]
<1>1. CASE ~Scanned(rows)
  BY <1>1, GivesUpSupport DEF ScanListing
<1>2. CASE Scanned(rows)
  <2>1. IsSeq(batch)
    BY <1>2, ScannedListing
  <2>2. /\ \E lost : Record(batch, lost)
        /\ stage = "execute" /\ stage' = "execute" /\ plan' = plan /\ results' = results
        /\ played' = played
        /\ work' = [work EXCEPT !.listed = work.listed + 1,
                                !.play.findings = work.play.findings \union FindingsFromOutput(rows)]
    BY <1>2 DEF Scanning, ScanListing, listing, answered
  <2>3. work'.trace = work.trace
    BY <2>2 DEF IInv, Shapes
  <2>4. \A k \in DOMAIN batch : batch[k].type # "policy_decision"
    BY DEF Event
  <2>5. IsSeq(events) /\ DecisionsOf(work.trace) = {}
    BY <2>2 DEF IInv, Shapes, Verdicts
  <2> HIDE DEF batch
  <2>6. DecisionsOf(work.trace)' = DecisionsOf(work.trace)
    BY <2>1, <2>2, <2>4, <2>5, NoMoreDecisions
  <2>7. \A i \in DOMAIN results' : results'[i].status = "completed" =>
            Supported(results'[i], played'[i], AdapterAt(i)', CaseAt(i)')
    BY <2>2, KeptSupport
  <2> QED BY <2>2, <2>3, <2>5, <2>6, <2>7 DEF Verdicts
<1> QED BY <1>1, <1>2

LEMMA VerdictIsSupported ==
    ASSUME IInv, Heard, Verdicts, stage = "verify"
    PROVE  Supported(Finalize(Case, Claimed, work.play.truth, EvidenceOfCase, plan.min_severity,
                              work.play.approvals), work.play, Adapter, Case)
<1> DEFINE p == work.play
           c == Claimed
           E == EvidenceOfCase
           r == Finalize(Case, c, p.truth, E, plan.min_severity, p.approvals)
<1>1. /\ r.blocked = Prevented(Case, c, p.truth)
      /\ r.mismatches = Mismatches(c, Prevented(Case, c, p.truth), p.truth)
      /\ r.policy_denials = Decided(E, {"deny", "quarantine"})
      /\ r.approvals_required = Decided(E, {"require_approval"})
      /\ r.kinds = KindsPresent(c.findings, E, c.adapter) /\ r.adapter = c.adapter
  BY DEF Finalize
<1> HIDE DEF r
<1>2. c.blocked <=> IF Adapter \in ThirdParty THEN p.blocked
                    ELSE p.truth.blocked > 0 \/ p.truth.withheld > 0
  BY DEF Claimed, Claim
<1>3. Claimable /\ Shows(work.trace, p.events)
  BY DEF Verdicts
<1>4. PreventionSeen(r, p, Case)
  <2> SUFFICES ASSUME IsAttack(Case)
               PROVE  /\ r.blocked <=> p.truth.known /\ p.truth.unsafe = {}
                      /\ (p.blocked \/ p.truth.blocked + p.truth.withheld > 0) /\ ~r.blocked
                            => r.mismatches \cap {"prevention", "unverified"} # {}
    BY DEF PreventionSeen
  <2>1. r.blocked <=> p.truth.known /\ p.truth.unsafe = {}
    BY <1>1 DEF Prevented
  <2>2. (p.blocked \/ p.truth.blocked + p.truth.withheld > 0) => c.blocked
    <3> HIDE DEF p, c
    <3> QED BY <1>2, <1>3 DEF Claimable, p
  <2>3. ASSUME c.blocked, ~r.blocked PROVE r.mismatches \cap {"prevention", "unverified"} # {}
    <3> DEFINE m == IF p.truth.known /\ p.truth.unsafe # {} THEN "prevention" ELSE "unverified"
    <3>1. m \in {"prevention", "unverified"}
      OBVIOUS
    <3> HIDE DEF c, p
    <3>2. m \in r.mismatches
      BY <1>1, <2>3 DEF Mismatches
    <3> QED BY <3>1, <3>2
  <2> QED BY <2>1, <2>2, <2>3
<1>5. IsSeq(events)
  BY DEF IInv, Shapes
<1>6. \A D : Decided(E, D) = Cardinality(Decides(p.events, D))
  BY <1>3, <1>5, DecidedByThePlay DEF EvidenceOfCase
<1>7. ASSUME "policy_decision" \in r.kinds
      PROVE  \E k \in DOMAIN p.events :
                 /\ p.events[k].type = "policy_decision" /\ p.events[k].decision # None
                 /\ p.events[k].source = r.adapter
  <2>1. PICK e \in E : /\ e.source = c.adapter /\ e.type = "policy_decision" /\ e.decision # None
    <3>1. \A f : "policy_decision" \notin FindingKinds(f)
      BY DEF FindingKinds
    <3>2. PICK e \in E : "policy_decision" \in EventKinds(e, c.adapter)
      <4> HIDE DEF c, E
      <4> QED BY <1>1, <1>7, <3>1 DEF KindsPresent
    <3> QED BY <3>2 DEF EventKinds
  <2>2. PICK i \in DOMAIN events : e = events[i] /\ events[i].trace = work.trace
    BY DEF EvidenceOfCase, EventsForTrace
  <2>3. PICK off \in Nat : Holds(work.trace, p.events, off)
    BY <1>3 DEF Shows
  <2>4. i \in DecisionsOf(work.trace)
    BY <2>1, <2>2 DEF DecisionsOf
  <2>5. i - off \in DOMAIN p.events
    BY <2>3, <2>4 DEF Holds
  <2>6. i \in Nat /\ off + (i - off) = i
    BY <1>5, <2>2, SeqShape
  <2>7. /\ events[i].type = p.events[i - off].type /\ events[i].source = p.events[i - off].source
        /\ events[i].decision = p.events[i - off].decision
    BY <2>3, <2>5, <2>6 DEF Holds
  <2> QED BY <1>1, <2>1, <2>2, <2>5, <2>7
<1>8. DrawnFrom(r, p.events)
  BY <1>1, <1>6, <1>7 DEF DrawnFrom
<1>9. Unseen(r, p, Adapter)
  <2> HIDE DEF p, c
  <2> QED BY <1>1, <1>3 DEF Claimable, Unseen, Prevented, p
<1> QED BY <1>4, <1>8, <1>9 DEF Supported, r

LEMMA VerifySupport == ASSUME IInv, Heard, Verdicts, Verify PROVE Verdicts'
<1> DEFINE r == Finalize(Case, Claimed, work.play.truth, EvidenceOfCase, plan.min_severity,
                         work.play.approvals)
<1>1. /\ stage = "verify" /\ stage' = "cleanup" /\ work' = [work EXCEPT !.result = <<r>>]
      /\ plan' = plan /\ results' = results /\ played' = played
  BY DEF Verify, listing, answered
<1> HIDE DEF r
<1>2. work'.result[1] = r /\ work'.play = work.play
  BY <1>1 DEF IInv, Shapes
<1>3. Supported(r, work.play, Adapter, Case)
  BY <1>1, VerdictIsSupported DEF r
<1>4. Adapter' = Adapter /\ Case' = Case
  BY <1>1, SamePair
<1>5. \A i \in DOMAIN results' : results'[i].status = "completed" =>
          Supported(results'[i], played'[i], AdapterAt(i)', CaseAt(i)')
  BY <1>1, KeptSupport
<1> QED BY <1>1, <1>2, <1>3, <1>4, <1>5 DEF Verdicts

LEMMA AppendSupport ==
    ASSUME IInv, Verdicts, plan' = plan, NEW r, NEW p, results' = Append(results, r),
           played' = Append(played, p), r.status = "completed" => Supported(r, p, Adapter, Case)
    PROVE  \A i \in DOMAIN results' : results'[i].status = "completed" =>
               Supported(results'[i], played'[i], AdapterAt(i)', CaseAt(i)')
<1> DEFINE n == Len(results) + 1
<1>1. /\ results'[n] = r /\ DOMAIN results' = DOMAIN results \union {n}
      /\ DOMAIN results = 1..Len(results)
      /\ \A i \in DOMAIN results : results'[i] = results[i] /\ i < n
      /\ Adapter = AdapterAt(n) /\ Case = CaseAt(n)
  BY OneMoreResult
<1>2. Len(played) = Len(results)
  BY DEF IInv, TypeOK
<1>3. played'[n] = p /\ \A i \in 1..Len(results) : played'[i] = played[i]
  BY <1>2, AppendIsSeq DEF IInv, Shapes
<1>4. \A i : AdapterAt(i)' = AdapterAt(i) /\ CaseAt(i)' = CaseAt(i)
  BY SamePlan
<1> HIDE DEF n
<1> QED BY <1>1, <1>3, <1>4 DEF Verdicts

LEMMA CleanupSupport == ASSUME IInv, Verdicts, NEW raised, Cleanup(raised) PROVE Verdicts'
<1>1. /\ stage = "cleanup" /\ stage' = "boundary" /\ plan' = plan
      /\ results' = Append(results, work.result[1]) /\ played' = Append(played, work.play)
  BY DEF Cleanup, listing
<1>2. work.result[1].status = "completed" => Supported(work.result[1], work.play, Adapter, Case)
  BY <1>1 DEF Verdicts
<1>3. \A i \in DOMAIN results' : results'[i].status = "completed" =>
          Supported(results'[i], played'[i], AdapterAt(i)', CaseAt(i)')
  BY <1>1, <1>2, AppendSupport
<1> QED BY <1>1, <1>3 DEF Verdicts

LEMMA PassOverSupport == ASSUME IInv, Verdicts, AtBoundary, NEW reason, PassOver(reason) PROVE Verdicts'
<1> DEFINE r == NoResult(Adapter, Case, "skipped", reason)
<1>1. /\ stage' = "boundary" /\ plan' = plan
      /\ results' = Append(results, r) /\ played' = Append(played, NoPlay)
  BY DEF AtBoundary, PassOver, listing
<1>2. r.status # "completed"
  BY DEF NoResult
<1> HIDE DEF r
<1>3. \A i \in DOMAIN results' : results'[i].status = "completed" =>
          Supported(results'[i], played'[i], AdapterAt(i)', CaseAt(i)')
  BY <1>1, <1>2, AppendSupport
<1> QED BY <1>1, <1>3 DEF Verdicts

LEMMA VerdictsStep == ASSUME IInv, Heard, Verdicts, [Next]_vars PROVE Verdicts'
<1>1. CASE Start
  BY <1>1, BetweenKeeps DEF Start, listing, answered, InFlight
<1>2. CASE CaseCancelled \/ CaseDisabled
  BY <1>2, PassOverSupport DEF CaseCancelled, CaseDisabled
<1>3. CASE CaseBegins
  BY <1>3, BeginsSupport
<1>4. CASE PrepareUnavailable \/ PrepareFails \/ ExecuteFails \/ ExecuteUnavailable \/ ScanFails
  BY <1>4, GivesUpSupport
     DEF PrepareUnavailable, PrepareFails, ExecuteFails, ExecuteUnavailable, ScanFails
<1>5. CASE Prepare
  BY <1>5, PrepareSupport
<1>6. CASE stage = "execute" /\ \E play \in PlaysHere : PlayScenario(play)
  BY <1>6, PlaySupport
<1>7. CASE Scan
  BY <1>7, ScanSupport DEF Scan
<1>8. CASE Verify
  BY <1>8, VerifySupport
<1>9. CASE \E raised \in BOOLEAN : Cleanup(raised)
  BY <1>9, CleanupSupport
<1>10. CASE Finish
  BY <1>10, BetweenKeeps DEF Finish, answered, InFlight
<1>11. CASE Cancel \/ ScannerChanges \/ UNCHANGED vars
  BY <1>11, QuietSupport DEF Cancel, ScannerChanges, vars, evidence, listing, answered
<1> QED BY <1>1, <1>2, <1>3, <1>4, <1>5, <1>6, <1>7, <1>8, <1>9, <1>10, <1>11 DEF Next, Work

-----------------------------------------------------------------------------
(***************************************************************************)
(* The cases by their ids.                                                 *)
(***************************************************************************)
\* No two cases of a corpus have the same id.
LEMMA IdsAreUnique ==
    ASSUME plan \in Plans, NEW c \in Range(plan.corpus), NEW d \in Range(plan.corpus), c.id = d.id
    PROVE  c = d
<1> DEFINE n == Len(plan.corpus)
           f == [i \in 1..n |-> plan.corpus[i].id]
           T == CaseIds(plan)
<1>1. IsSeq(plan.corpus) /\ Cardinality(T) = n
  BY PlanAssumption DEF IsSeq
<1>2. n \in Nat /\ DOMAIN plan.corpus = 1..n
  BY <1>1, SeqShape
<1>3. f \in Surjection(1..n, T)
  <2>1. f \in [1..n -> T]
    BY <1>2 DEF CaseIds, Range
  <2>2. \A t \in T : \E i \in 1..n : f[i] = t
    BY <1>2 DEF CaseIds, Range
  <2> HIDE DEF f, T, n
  <2> QED BY <2>1, <2>2 DEF Surjection
<1>4. IsFiniteSet(1..n) /\ Cardinality(1..n) = n
  BY <1>2, FS_Interval
<1>5. f \in Injection(1..n, T)
  <2> HIDE DEF f, T, n
  <2> QED BY <1>1, <1>3, <1>4, FS_Surjection
<1>6. \A i, j \in 1..n : f[i] = f[j] => i = j
  <2> HIDE DEF f, T
  <2> QED BY <1>5 DEF Injection, IsInjective
<1>7. PICK i \in 1..n : c = plan.corpus[i]
  BY <1>2 DEF Range
<1>8. PICK j \in 1..n : d = plan.corpus[j]
  BY <1>2 DEF Range
<1>9. f[i] = f[j]
  BY <1>7, <1>8
<1> HIDE DEF f
<1> QED BY <1>6, <1>7, <1>8, <1>9

LEMMA CaseOfPair ==
    ASSUME plan \in Plans, NEW i \in 1..Pairs
    PROVE  /\ CaseAt(i) \in Range(plan.corpus) /\ Cases[CaseAt(i).id] = CaseAt(i)
           /\ CaseAt(i).id \in DOMAIN Cases /\ AdapterAt(i) \in Range(plan.adapters)
<1>1. Pairs \in Nat /\ Len(Selected) \in Nat
  BY PairsAreNatural
<1>2. Len(plan.adapters) \in Nat /\ DOMAIN plan.adapters = 1..Len(plan.adapters)
  BY PlanAssumption, SeqShape DEF IsSeq
<1>3. Len(Selected) > 0
  BY <1>1, <1>2 DEF Pairs
<1>4. ((i - 1) % Len(Selected)) + 1 \in 1..Len(Selected)
  BY <1>1, <1>3
<1>5. CaseAt(i) \in Range(Selected)
  <2>1. ((i - 1) % Len(Selected)) + 1 \in DOMAIN Selected
    BY <1>4, SelectedFromCorpus, SeqShape
  <2> QED BY <2>1 DEF CaseAt, Range
<1>6. CaseAt(i) \in Range(plan.corpus) /\ Range(Selected) \subseteq Range(plan.corpus)
  BY <1>5, SelectedFromCorpus
<1>7. \A c \in Range(Selected) : c.id = CaseAt(i).id => c = CaseAt(i)
  BY <1>6, IdsAreUnique
<1>8. Cases[CaseAt(i).id] = CHOOSE c \in Range(Selected) : c.id = CaseAt(i).id
  BY <1>5 DEF Cases
<1>9. Cases[CaseAt(i).id] = CaseAt(i)
  BY <1>5, <1>7, <1>8
<1>10. ((i - 1) \div Len(Selected)) + 1 \in 1..Len(plan.adapters)
  <2> DEFINE s == Len(Selected)
             q == (i - 1) \div s
  <2>1. s \in Nat /\ s > 0 /\ i - 1 \in Nat /\ i - 1 < Len(plan.adapters) * s
    BY <1>1, <1>2, <1>3 DEF Pairs
  <2> HIDE DEF s
  <2>2. q \in Nat /\ q * s <= i - 1
    BY <2>1
  <2> HIDE DEF q
  <2>3. q * s < Len(plan.adapters) * s
    BY <2>1, <2>2, <1>2
  <2>4. q < Len(plan.adapters)
    BY <2>1, <2>2, <2>3, <1>2
  <2> QED BY <1>2, <2>2, <2>4 DEF q, s
<1>11. AdapterAt(i) \in Range(plan.adapters)
  BY <1>2, <1>10 DEF AdapterAt, Range
<1>12. CaseAt(i).id \in DOMAIN Cases
  BY <1>5 DEF Cases
<1> QED BY <1>6, <1>9, <1>11, <1>12

LEMMA CaseOfId ==
    ASSUME plan \in Plans, NEW id \in DOMAIN Cases
    PROVE  Cases[id] \in Range(plan.corpus)
<1>1. PICK c \in Range(Selected) : c.id = id
  BY DEF Cases
<1>2. Cases[id] = CHOOSE d \in Range(Selected) : d.id = id
  BY DEF Cases
<1>3. Cases[id] \in Range(Selected)
  BY <1>1, <1>2
<1> QED BY <1>3, SelectedFromCorpus

(***************************************************************************)
(* The metrics of one adapter, from any results.                           *)
(***************************************************************************)
LEMMA EvidenceIsFinite == IsFiniteSet(EvidenceKind)
<1> DEFINE A == {"tool_description"} \union {"detection_rule"}
           B == {"policy_decision"} \union {"tool_definition_hash"}
           C == {"drift_report"} \union {"data_flow_path"}
           D == {"response_excerpt"} \union {"event_trace"}
<1>1. \A x : IsFiniteSet({x})
  BY FS_Singleton
<1>2. IsFiniteSet(A) /\ IsFiniteSet(B) /\ IsFiniteSet(C) /\ IsFiniteSet(D)
  BY <1>1, FS_Union
<1>3. EvidenceKind = (A \union B) \union (C \union D)
  BY DEF EvidenceKind
<1> HIDE DEF A, B, C, D
<1>4. IsFiniteSet(A \union B) /\ IsFiniteSet(C \union D)
  BY <1>2, FS_Union
<1> QED BY <1>3, <1>4, FS_Union

\* What the metrics need of the results and of the cases.
Countable(rs, cases) ==
    /\ IsSeq(rs)
    /\ \A i \in DOMAIN rs :
           /\ rs[i].status \in Status
           /\ rs[i].case \in DOMAIN cases => Required(cases, rs[i]) \subseteq EvidenceKind

KnownOf(rs, cases, a) == Known(rs, cases, Of(rs, a))
DoneOf(rs, cases, a) == Scored(rs, Of(rs, a), cases)
AttacksOf(rs, cases, a) == Attacks(rs, cases, DoneOf(rs, cases, a))

LEMMA FiniteCounts ==
    ASSUME NEW rs, NEW cases, Countable(rs, cases), NEW a
    PROVE  /\ Of(rs, a) \subseteq DOMAIN rs /\ KnownOf(rs, cases, a) \subseteq Of(rs, a)
           /\ DoneOf(rs, cases, a) \subseteq KnownOf(rs, cases, a)
           /\ AttacksOf(rs, cases, a) \subseteq DoneOf(rs, cases, a)
           /\ IsFiniteSet(Of(rs, a)) /\ IsFiniteSet(KnownOf(rs, cases, a))
           /\ IsFiniteSet(DoneOf(rs, cases, a)) /\ IsFiniteSet(AttacksOf(rs, cases, a))
           /\ \A i \in KnownOf(rs, cases, a) : rs[i].case \in DOMAIN cases
<1>1. IsFiniteSet(DOMAIN rs)
  BY SeqShape, FS_Interval DEF Countable
<1>2. /\ Of(rs, a) \subseteq DOMAIN rs /\ KnownOf(rs, cases, a) \subseteq Of(rs, a)
      /\ DoneOf(rs, cases, a) \subseteq KnownOf(rs, cases, a)
      /\ AttacksOf(rs, cases, a) \subseteq DoneOf(rs, cases, a)
      /\ \A i \in KnownOf(rs, cases, a) : rs[i].case \in DOMAIN cases
  BY DEF Of, KnownOf, Known, DoneOf, Scored, With, AttacksOf, Attacks
<1>3. IsFiniteSet(Of(rs, a))
  BY <1>1, <1>2, FS_Subset
<1>4. IsFiniteSet(KnownOf(rs, cases, a))
  BY <1>2, <1>3, FS_Subset
<1>5. IsFiniteSet(DoneOf(rs, cases, a))
  BY <1>2, <1>4, FS_Subset
<1>6. IsFiniteSet(AttacksOf(rs, cases, a))
  BY <1>2, <1>5, FS_Subset
<1> QED BY <1>2, <1>3, <1>4, <1>5, <1>6

LEMMA ConfusionCounts ==
    ASSUME NEW rs, NEW cases, NEW S, IsFiniteSet(S)
    PROVE  LET c == Confusion(rs, cases, S)
               attacks == Attacks(rs, cases, S)
           IN /\ c.tp + c.fn = Cardinality(attacks)
              /\ c.fp + c.tn = Cardinality(S \ attacks)
<1> DEFINE attacks == Attacks(rs, cases, S)
           seen == Detected(rs, attacks)
           rest == S \ attacks
           alarms == {i \in rest : rs[i].false_positive}
<1>1. attacks \subseteq S /\ seen \subseteq attacks /\ alarms \subseteq rest
  BY DEF Attacks, Detected
<1>2. Confusion(rs, cases, S) =
          [tp |-> Cardinality(seen), fn |-> Cardinality(attacks \ seen),
           fp |-> Cardinality(alarms), tn |-> Cardinality(rest \ alarms)]
  BY DEF Confusion
<1> HIDE DEF attacks, seen, alarms
<1>3. ASSUME NEW T, NEW U, IsFiniteSet(T), U \subseteq T
      PROVE  Cardinality(U) + Cardinality(T \ U) = Cardinality(T)
  <2>1. IsFiniteSet(U) /\ IsFiniteSet(T \ U) /\ U \cap (T \ U) = {} /\ U \union (T \ U) = T
    BY <1>3, FS_Subset
  <2> QED BY <2>1, DisjointCardinality
<1>4. IsFiniteSet(attacks) /\ IsFiniteSet(rest)
  BY <1>1, FS_Subset
<1>5. /\ Cardinality(seen) + Cardinality(attacks \ seen) = Cardinality(attacks)
      /\ Cardinality(alarms) + Cardinality(rest \ alarms) = Cardinality(rest)
  BY <1>1, <1>3, <1>4
<1> QED BY <1>2, <1>5 DEF attacks

\* The evidence kinds that were present are no more than those that were required.
LEMMA EvidenceCounts ==
    ASSUME NEW rs, NEW cases, Countable(rs, cases), NEW S, IsFiniteSet(S), S \subseteq DOMAIN rs,
           \A i \in S : rs[i].case \in DOMAIN cases
    PROVE  Total([i \in S |-> Cardinality(Required(cases, rs[i]) \cap rs[i].kinds)])
               <= Total([i \in S |-> Cardinality(Required(cases, rs[i]))])
<1> DEFINE f == [i \in S |-> Cardinality(Required(cases, rs[i]) \cap rs[i].kinds)]
           g == [i \in S |-> Cardinality(Required(cases, rs[i]))]
<1>1. ASSUME NEW i \in S PROVE f[i] \in Nat /\ g[i] \in Nat /\ f[i] <= g[i]
  <2>1. IsFiniteSet(Required(cases, rs[i]))
    <3>1. i \in DOMAIN rs /\ rs[i].case \in DOMAIN cases
      OBVIOUS
    <3>2. Required(cases, rs[i]) \subseteq EvidenceKind
      BY <3>1 DEF Countable
    <3> HIDE DEF f, g
    <3> QED BY <3>2, EvidenceIsFinite, FS_Subset
  <2>2. IsFiniteSet(Required(cases, rs[i]) \cap rs[i].kinds)
        /\ Cardinality(Required(cases, rs[i]) \cap rs[i].kinds) <= Cardinality(Required(cases, rs[i]))
    BY <2>1, FS_Subset
  <2> QED BY <2>1, <2>2, FS_CardinalityType
<1>2. DOMAIN f = S /\ DOMAIN g = S
  OBVIOUS
<1> HIDE DEF f, g
<1>3. Summable(f, S) /\ Summable(g, S)
  BY <1>1 DEF Summable
<1>4. \A i \in S : f[i] <= g[i]
  BY <1>1
<1>5. SumFunctionOnSet(f, S) <= SumFunctionOnSet(g, S)
  BY <1>3, <1>4, SumMonotone
<1> QED BY <1>2, <1>5 DEF Total, f, g

\* Each case is counted in its own category.
LEMMA CategoryCounts ==
    ASSUME NEW rs, NEW cases, NEW own, NEW all, all = Known(rs, cases, own),
           IsFiniteSet(all), NEW done, done \subseteq all
    PROVE  LET m == CategoryMetrics(rs, cases, own, done)
           IN /\ Total([c \in DOMAIN m |-> m[c].coverage.den]) = Cardinality(all)
              /\ Total([c \in DOMAIN m |-> m[c].prevention.num])
                     = Cardinality(BlockedIn(rs, Attacks(rs, cases, done)))
<1> DEFINE m == CategoryMetrics(rs, cases, own, done)
           key == [i \in all |-> cases[rs[i].case].category]
           C == {cases[rs[i].case].category : i \in all}
           blocked == BlockedIn(rs, Attacks(rs, cases, done))
           f == [c \in DOMAIN m |-> m[c].coverage.den]
           g == [c \in DOMAIN m |-> m[c].prevention.num]
<1>1. DOMAIN m = C
  BY DEF CategoryMetrics
<1>2. \A i \in all : key[i] \in C
  OBVIOUS
<1>3. IsFiniteSet(C)
  <2>1. C = {key[i] : i \in all}
    OBVIOUS
  <2>2. key \in Surjection(all, C)
    <3>1. key \in [all -> C] /\ \A c \in C : \E i \in all : key[i] = c
      OBVIOUS
    <3> HIDE DEF key, C
    <3> QED BY <3>1 DEF Surjection
  <2> HIDE DEF key, C
  <2> QED BY <2>2, FS_Surjection
<1>4. blocked \subseteq all
  BY DEF BlockedIn, Attacks
<1>5. ASSUME NEW c \in C
      PROVE  /\ f[c] = Cardinality({i \in all : key[i] = c})
             /\ g[c] = Cardinality({i \in blocked : key[i] = c})
  <2> DEFINE inAll == InCategory(rs, cases, all, c)
             inDone == InCategory(rs, cases, done, c)
             attacks == Attacks(rs, cases, inDone)
  <2>1. inAll = {i \in all : key[i] = c}
    BY DEF InCategory
  <2>2. BlockedIn(rs, attacks) = {i \in blocked : key[i] = c}
    BY DEF InCategory, BlockedIn, Attacks
  <2>3. m[c].coverage.den = Cardinality(inAll) /\ m[c].prevention.num = Cardinality(BlockedIn(rs, attacks))
    <3>1. m[c] = [coverage |-> Share(inDone, inAll),
                  detection |-> Share(Detected(rs, attacks), attacks),
                  prevention |-> Share(BlockedIn(rs, attacks), attacks)]
      BY DEF CategoryMetrics
    <3> HIDE DEF m, inAll, inDone, attacks
    <3> QED BY <3>1 DEF Share, Ratio
  <2>4. f[c] = m[c].coverage.den /\ g[c] = m[c].prevention.num
    BY <1>1
  <2> HIDE DEF f, g, m, key, inAll, blocked
  <2> QED BY <2>1, <2>2, <2>3, <2>4
<1>6. DOMAIN f = C /\ DOMAIN g = C
  BY <1>1
<1> HIDE DEF m, key, C, blocked, f, g
<1>7. CountsByKey(f, all, C, key)
  BY <1>2, <1>5 DEF CountsByKey
<1>8. SumFunctionOnSet(f, C) = Cardinality(all)
  BY <1>3, <1>7, SumOfClasses
<1>9. CountsByKey(g, blocked, C, key)
  BY <1>2, <1>4, <1>5 DEF CountsByKey
<1>10. IsFiniteSet(blocked)
  BY <1>4, FS_Subset
<1>11. SumFunctionOnSet(g, C) = Cardinality(blocked)
  BY <1>3, <1>9, <1>10, SumOfClasses
<1> QED BY <1>6, <1>8, <1>11 DEF Total, f, g, m, blocked

\* Every result is completed, skipped or errored.
LEMMA StatusCounts ==
    ASSUME NEW rs, NEW S, IsFiniteSet(S), \A i \in S : rs[i].status \in Status
    PROVE  Cardinality(With(rs, S, "completed")) + Cardinality(With(rs, S, "skipped"))
               + Cardinality(With(rs, S, "error")) = Cardinality(S)
<1> DEFINE A == With(rs, S, "completed")
           B == With(rs, S, "skipped")
           C == With(rs, S, "error")
<1>1. A \subseteq S /\ B \subseteq S /\ C \subseteq S /\ (A \union B) \union C = S
      /\ A \cap B = {} /\ (A \union B) \cap C = {}
  BY DEF With, Status
<1> HIDE DEF A, B, C
<1>2. IsFiniteSet(A) /\ IsFiniteSet(B) /\ IsFiniteSet(C)
  BY <1>1, FS_Subset
<1>3. IsFiniteSet(A \union B) /\ Cardinality(A \union B) = Cardinality(A) + Cardinality(B)
  BY <1>1, <1>2, DisjointCardinality
<1>4. Cardinality((A \union B) \union C) = Cardinality(A \union B) + Cardinality(C)
  BY <1>1, <1>2, <1>3, DisjointCardinality
<1> QED BY <1>1, <1>3, <1>4 DEF A, B, C

(***************************************************************************)
(* What is published of a run.                                             *)
(***************************************************************************)
Published ==
    stage = "finished" =>
        /\ metrics = [a \in Range(plan.adapters) |-> AdapterMetrics(a, results, Cases)]
        /\ DOMAIN report # {} => report.cases =
               [a \in {results[i].adapter : i \in DOMAIN results} |-> Cardinality(Of(results, a))]

LEMMA PublishedInitially == ASSUME Init PROVE Published /\ Verdicts
<1>1. stage = "starting" /\ results = <<>>
  BY DEF Init
<1> QED BY <1>1 DEF Published, Verdicts

LEMMA PublishedStep == ASSUME IInv, Published, [Next]_vars PROVE Published'
<1>1. CASE Finish
  <2>1. /\ metrics' = [a \in Range(plan.adapters) |-> AdapterMetrics(a, results, Cases)]
        /\ \/ report' = Report(results, traces, events', cancelled)
           \/ report' = <<>>
        /\ plan' = plan /\ results' = results
    BY <1>1 DEF Finish, answered
  <2>2. Cases' = Cases
    BY <2>1, SamePlan DEF Cases
  <2>3. DOMAIN report' # {} =>
            report'.cases = [a \in {results[i].adapter : i \in DOMAIN results} |-> Cardinality(Of(results, a))]
    <3>1. CASE report' = Report(results, traces, events', cancelled)
      BY <3>1 DEF Report
    <3>2. CASE report' = <<>>
      BY <3>2
    <3> QED BY <2>1, <3>1, <3>2
  <2> QED BY <2>1, <2>2, <2>3 DEF Published
<1>2. CASE UNCHANGED vars
  <2>1. Cases' = Cases
    BY <1>2, SamePlan DEF Cases, vars
  <2> QED BY <1>2, <2>1 DEF Published, vars
<1>3. CASE Next /\ ~Finish
  <2>1. stage' # "finished"
    <3>1. CASE Start \/ CaseCancelled \/ CaseDisabled \/ CaseBegins
      BY <3>1 DEF Start, CaseCancelled, CaseDisabled, CaseBegins, PassOver, AtBoundary
    <3>2. CASE \/ PrepareUnavailable \/ PrepareFails \/ Prepare
               \/ ExecuteFails \/ ExecuteUnavailable \/ ScanFails
      BY <3>2 DEF PrepareUnavailable, PrepareFails, Prepare, ExecuteFails, ExecuteUnavailable,
                  ScanFails, GivesUp
    <3>3. CASE stage = "execute" /\ \E play \in PlaysHere : PlayScenario(play)
      BY <3>3 DEF PlayScenario
    <3>4. CASE Scan
      BY <3>4 DEF Scan, Scanning, ScanListing, GivesUp
    <3>5. CASE Verify \/ \E raised \in BOOLEAN : Cleanup(raised)
      BY <3>5 DEF Verify, Cleanup
    <3>6. CASE Cancel \/ ScannerChanges
      BY <3>6 DEF Cancel, ScannerChanges, Over, answered
    <3> QED BY <1>3, <3>1, <3>2, <3>3, <3>4, <3>5, <3>6 DEF Next, Work
  <2> QED BY <2>1 DEF Published
<1> QED BY <1>1, <1>2, <1>3

-----------------------------------------------------------------------------
LEMMA LedgerFollows == ASSUME IInv, Verdicts, Published PROVE ScoresFollowTheLedger
<1> SUFFICES ASSUME stage = "finished", NEW a \in DOMAIN metrics
             PROVE  LET m == metrics[a]
                        mine == {n \in 1..Pairs : results[n].adapter = a}
                        named == {n \in mine : results[n].case \in DOMAIN Cases}
                        scored == {n \in named : results[n].status = "completed"}
                        attacks == {n \in scored : IsAttack(Cases[results[n].case])}
                        seen == {n \in 1..Pairs :
                                    /\ AdapterAt(n) = a /\ results[n].status = "completed"
                                    /\ IsAttack(CaseAt(n))
                                    /\ played[n].truth.known /\ played[n].truth.unsafe = {}}
                        unscored == {n \in mine \ named : results[n].status = "completed"}
                    IN /\ m.prevention_rate.den = Cardinality(attacks)
                       /\ m.prevention_rate.num = Cardinality(seen)
                       /\ m.detection_rate.den = Cardinality(attacks)
                       /\ m.false_positive_rate.den = Cardinality(scored \ attacks)
                       /\ m.cases_completed + m.cases_skipped + m.cases_errored + Cardinality(unscored)
                             = Cardinality(mine)
                       /\ m.evidence_completeness_rate.num <= m.evidence_completeness_rate.den
                       /\ Total([c \in DOMAIN m.categories |-> m.categories[c].coverage.den])
                             = Cardinality(named)
                       /\ Total([c \in DOMAIN m.categories |-> m.categories[c].prevention.num])
                             = m.prevention_rate.num
                       /\ DOMAIN report # {} /\ mine # {} => report.cases[a] = Cardinality(mine)
  BY DEF ScoresFollowTheLedger
<1> DEFINE m == metrics[a]
           mine == {n \in 1..Pairs : results[n].adapter = a}
           named == {n \in mine : results[n].case \in DOMAIN Cases}
           scored == {n \in named : results[n].status = "completed"}
           attacks == {n \in scored : IsAttack(Cases[results[n].case])}
           seen == {n \in 1..Pairs :
                       /\ AdapterAt(n) = a /\ results[n].status = "completed"
                       /\ IsAttack(CaseAt(n))
                       /\ played[n].truth.known /\ played[n].truth.unsafe = {}}
           unscored == {n \in mine \ named : results[n].status = "completed"}
           own == Of(results, a)
           all == KnownOf(results, Cases, a)
           done == DoneOf(results, Cases, a)
           tried == AttacksOf(results, Cases, a)
           prevented == BlockedIn(results, tried)
           c0 == Confusion(results, Cases, done)
           byCat == CategoryMetrics(results, Cases, own, done)
           found == Total([i \in tried |-> Cardinality(Required(Cases, results[i]) \cap results[i].kinds)])
           wanted == Total([i \in tried |-> Cardinality(Required(Cases, results[i]))])
<1>1. plan \in Plans /\ IsSeq(results) /\ Len(results) = Pairs
      /\ \A i \in DOMAIN results : NamedForPair(i) /\ results[i].status \in Status
  BY DEF IInv, TypeOK, Shapes, Flow, Answers, Status
<1>2. DOMAIN results = 1..Pairs
  BY <1>1, SeqShape
<1>3. \A i \in 1..Pairs : CaseAt(i).id \in DOMAIN Cases /\ Cases[CaseAt(i).id] = CaseAt(i)
  BY <1>1, <1>2, CaseOfPair
<1>4. own = mine /\ all = named /\ done = scored /\ tried = attacks
  <2>1. own = mine
    BY <1>2 DEF Of
  <2>2. all = named
    BY <2>1 DEF KnownOf, Known
  <2>3. done = scored
    BY <2>2 DEF DoneOf, Scored, With, KnownOf
  <2>4. tried = attacks
    BY <2>3 DEF AttacksOf, Attacks
  <2> QED BY <2>1, <2>2, <2>3, <2>4
<1>5. Countable(results, Cases)
  <2>1. ASSUME NEW i \in DOMAIN results, results[i].case \in DOMAIN Cases
        PROVE  Required(Cases, results[i]) \subseteq EvidenceKind
    <3>1. Cases[results[i].case] \in Range(plan.corpus)
      BY <1>1, <2>1, CaseOfId
    <3> QED BY <1>1, <3>1, PlanAssumption DEF Required, ConsistentCase
  <2> QED BY <1>1, <2>1 DEF Countable
<1>6. /\ IsFiniteSet(own) /\ IsFiniteSet(all) /\ IsFiniteSet(done) /\ IsFiniteSet(tried)
      /\ own \subseteq DOMAIN results /\ all \subseteq own /\ done \subseteq all /\ tried \subseteq done
      /\ \A i \in all : results[i].case \in DOMAIN Cases
  BY <1>5, FiniteCounts
<1>7. m = AdapterMetrics(a, results, Cases)
  BY DEF Published
<1>8. /\ m.prevention_rate = Ratio(Cardinality(prevented), Cardinality(tried))
      /\ m.detection_rate = Ratio(c0.tp, c0.tp + c0.fn)
      /\ m.false_positive_rate = Ratio(c0.fp, c0.fp + c0.tn)
      /\ m.evidence_completeness_rate = Ratio(found, wanted)
      /\ m.cases_completed = Cardinality(done)
      /\ m.cases_skipped = Cardinality(With(results, own, "skipped"))
      /\ m.cases_errored = Cardinality(With(results, own, "error"))
      /\ m.categories = byCat
  <2> HIDE DEF m
  <2> QED BY <1>7, Zenon DEF AdapterMetrics, Share, DoneOf, AttacksOf
<1>9. prevented = seen
  <2>1. ASSUME NEW n \in 1..Pairs, results[n].status = "completed"
        PROVE  /\ results[n].adapter = a /\ results[n].case \in DOMAIN Cases
                  /\ IsAttack(Cases[results[n].case]) /\ results[n].blocked
                     => n \in seen
               /\ n \in seen => /\ results[n].adapter = a /\ results[n].case \in DOMAIN Cases
                                /\ IsAttack(Cases[results[n].case]) /\ results[n].blocked
    <3>1. /\ IsAttack(CaseAt(n)) =>
                (results[n].blocked <=> played[n].truth.known /\ played[n].truth.unsafe = {})
          /\ AdapterAt(n) \in ThirdParty => ~played[n].truth.known /\ ~results[n].blocked
      BY <1>2, <2>1 DEF Verdicts, Supported, PreventionSeen, Unseen
    <3>2. AdapterAt(n) \notin ThirdParty =>
              results[n].adapter = AdapterAt(n) /\ results[n].case = CaseAt(n).id
      BY <1>1, <1>2 DEF NamedForPair
    <3>3. CaseAt(n).id \in DOMAIN Cases /\ Cases[CaseAt(n).id] = CaseAt(n)
      BY <1>3
    <3>4. n \in seen <=> /\ AdapterAt(n) = a /\ IsAttack(CaseAt(n))
                         /\ played[n].truth.known /\ played[n].truth.unsafe = {}
      BY <2>1
    <3> HIDE DEF seen
    <3> QED BY <3>1, <3>2, <3>3, <3>4
  <2>2. \A n : n \in prevented <=>
                  /\ n \in 1..Pairs /\ results[n].status = "completed" /\ results[n].adapter = a
                  /\ results[n].case \in DOMAIN Cases /\ IsAttack(Cases[results[n].case])
                  /\ results[n].blocked
    BY <1>4 DEF BlockedIn
  <2>3. \A n : n \in seen => n \in 1..Pairs /\ results[n].status = "completed"
    OBVIOUS
  <2> HIDE DEF prevented, seen
  <2> QED BY <2>1, <2>2, <2>3
<1> HIDE DEF m, own, all, done, tried, c0, byCat, found, wanted
<1>10. /\ m.prevention_rate.num = Cardinality(prevented) /\ m.prevention_rate.den = Cardinality(tried)
       /\ m.detection_rate.den = c0.tp + c0.fn /\ m.false_positive_rate.den = c0.fp + c0.tn
       /\ m.evidence_completeness_rate.num = found /\ m.evidence_completeness_rate.den = wanted
  BY <1>8 DEF Ratio
<1>11. c0.tp + c0.fn = Cardinality(tried) /\ c0.fp + c0.tn = Cardinality(done \ tried)
  BY <1>6, ConfusionCounts DEF c0, tried, done, AttacksOf
<1>12. Cardinality(done) + m.cases_skipped + m.cases_errored + Cardinality(unscored) = Cardinality(own)
  <2>1. \A i \in own : results[i].status \in Status
    BY <1>1, <1>6
  <2>2. Cardinality(With(results, own, "completed")) + m.cases_skipped + m.cases_errored = Cardinality(own)
        /\ m.cases_skipped \in Nat /\ m.cases_errored \in Nat
    <3>1. With(results, own, "skipped") \subseteq own /\ With(results, own, "error") \subseteq own
      BY DEF With
    <3>2. Cardinality(With(results, own, "skipped")) \in Nat /\ Cardinality(With(results, own, "error")) \in Nat
      BY <1>6, <3>1, FS_Subset, FS_CardinalityType
    <3> QED BY <1>6, <1>8, <2>1, <3>2, StatusCounts
  <2>3. /\ With(results, own, "completed") = done \union unscored
        /\ done \cap unscored = {} /\ unscored \subseteq own
    BY <1>4 DEF With
  <2> HIDE DEF unscored
  <2>4. IsFiniteSet(unscored)
    BY <1>6, <2>3, FS_Subset
  <2>5. Cardinality(With(results, own, "completed")) = Cardinality(done) + Cardinality(unscored)
    BY <1>6, <2>3, <2>4, DisjointCardinality
  <2>6. Cardinality(done) \in Nat /\ Cardinality(unscored) \in Nat
    BY <1>6, <2>4, FS_CardinalityType
  <2> QED BY <2>2, <2>5, <2>6
<1>13. found <= wanted
  <2>1. tried \subseteq DOMAIN results /\ \A i \in tried : results[i].case \in DOMAIN Cases
    BY <1>6
  <2> QED BY <1>5, <1>6, <2>1, EvidenceCounts DEF found, wanted
<1>14. /\ Total([c \in DOMAIN byCat |-> byCat[c].coverage.den]) = Cardinality(all)
       /\ Total([c \in DOMAIN byCat |-> byCat[c].prevention.num]) = Cardinality(prevented)
  <2>1. all = Known(results, Cases, own)
    BY DEF all, own, KnownOf
  <2> QED BY <1>6, <2>1, CategoryCounts DEF byCat, tried, AttacksOf, done
<1>15. DOMAIN report # {} /\ mine # {} => report.cases[a] = Cardinality(own)
  <2> SUFFICES ASSUME DOMAIN report # {}, mine # {} PROVE report.cases[a] = Cardinality(own)
    OBVIOUS
  <2>1. PICK i \in DOMAIN results : results[i].adapter = a
    BY <1>2
  <2>2. a \in {results[j].adapter : j \in DOMAIN results}
    BY <2>1
  <2> QED BY <2>2 DEF Published, own
<1> HIDE DEF mine, named, scored, attacks, seen, unscored, prevented
<1>16. /\ m.prevention_rate.den = Cardinality(attacks)
       /\ m.detection_rate.den = Cardinality(attacks)
       /\ m.false_positive_rate.den = Cardinality(scored \ attacks)
       /\ m.evidence_completeness_rate.num <= m.evidence_completeness_rate.den
  BY <1>4, <1>10, <1>11, <1>13
<1>17. m.cases_completed + m.cases_skipped + m.cases_errored + Cardinality(unscored) = Cardinality(mine)
  BY <1>4, <1>8, <1>12
<1>18. /\ Total([c \in DOMAIN m.categories |-> m.categories[c].coverage.den]) = Cardinality(named)
       /\ Total([c \in DOMAIN m.categories |-> m.categories[c].prevention.num]) = m.prevention_rate.num
  BY <1>4, <1>8, <1>10, <1>14
<1>19. m.prevention_rate.num = Cardinality(seen)
  BY <1>9, <1>10
<1>20. DOMAIN report # {} /\ mine # {} => report.cases[a] = Cardinality(mine)
  BY <1>4, <1>15
<1> QED BY <1>16, <1>17, <1>18, <1>19, <1>20 DEF m, mine, named, scored, attacks, seen, unscored

(***************************************************************************)
(* A verdict rests on the ground truth and on the evidence of its own      *)
(* pair, whatever adapters claim, fail at or share the recorder with.      *)
(***************************************************************************)
THEOREM VerdictsAreSupported == Spec => []VerdictsAreSound
<1>1. Init => IInv /\ Heard /\ Verdicts
  BY Initially, HeardInitially, PublishedInitially
<1>2. IInv /\ Heard /\ Verdicts /\ [Next]_vars => (IInv /\ Heard /\ Verdicts)'
  BY Inductive, HeardStep, VerdictsStep
<1>3. Verdicts => VerdictsAreSound
  BY DEF Verdicts, VerdictsAreSound, PreventionIsVerified, VerdictIsOwn, Supported
<1> QED BY <1>1, <1>2, <1>3, PTL DEF Spec

(***************************************************************************)
(* What is published of an adapter counts every result that bears its name *)
(* once, for any number of adapters, cases and categories, and counts as   *)
(* prevented what the runner saw prevented in the adapter's own pairs,     *)
(* whatever the adapters that a user added call their results.             *)
(***************************************************************************)
THEOREM PublishedFollowsTheLedger == Spec => []ScoresFollowTheLedger
<1>1. Init => IInv /\ Heard /\ Verdicts /\ Published
  BY Initially, HeardInitially, PublishedInitially
<1>2. IInv /\ Heard /\ Verdicts /\ Published /\ [Next]_vars => (IInv /\ Heard /\ Verdicts /\ Published)'
  BY Inductive, HeardStep, VerdictsStep, PublishedStep
<1>3. IInv /\ Verdicts /\ Published => ScoresFollowTheLedger
  BY LedgerFollows
<1> QED BY <1>1, <1>2, <1>3, PTL DEF Spec
=============================================================================
