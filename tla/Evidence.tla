------------------------------ MODULE Evidence ------------------------------
(***************************************************************************)
(* runtime/recorder.py, event_bus.py and trace_context.py: the events of a *)
(* run, who heard of them, and the source of trace ids.  An event keeps    *)
(* its trace, type, source and decision.                                   *)
(***************************************************************************)
EXTENDS Naturals, Sequences, FiniteSets

CONSTANTS
    Subscriber,     \* who subscribed to the bus, the tracker first of all
    MaxErrors       \* bound: how often a subscriber may fail

ASSUME SubscriberAssumption ==
    "tracker" \in Subscriber /\ IsFiniteSet(Subscriber) /\ MaxErrors \in Nat

VARIABLES
    events,             \* Recorder._events
    sequence,           \* Recorder._sequence
    ids,                \* DeterministicIdSource._counter
    heard,              \* subscriber -> sequence numbers of the events it handled, in order
    subscriber_errors   \* EventBus.subscriber_errors

evidence == <<events, sequence, ids, heard, subscriber_errors>>

EvidenceInit ==
    /\ events = <<>> /\ sequence = 0 /\ ids = 0 /\ subscriber_errors = 0
    /\ heard = [s \in Subscriber |-> <<>>]

\* new_trace: one id for the trace, and one for its root span.
NewTraceId == ids + 1
NewTrace == ids' = ids + 2

Event(trace, type, source, decision) ==
    [trace |-> trace, type |-> type, source |-> source, decision |-> decision]

\* _record: the event with its number.
Numbered(e, n) ==
    [trace |-> e.trace, type |-> e.type, source |-> e.source, decision |-> e.decision,
     sequence |-> n]

\* The new events in order, without those that are missed.
Delivered(batch, missed) ==
    LET kept[i \in 0..Len(batch)] ==
            IF i = 0 THEN <<>>
            ELSE IF sequence + i \in missed THEN kept[i - 1]
            ELSE Append(kept[i - 1], sequence + i)
    IN kept[Len(batch)]

\* Plausible bug: a subscriber that fails keeps the event from the others.
HandledUntilFailure(batch, s, lost) == Delivered(batch, {d[2] : d \in lost})

\* The events of a list that one subscriber handles when it fails on those in `lost'.
Handled(batch, s, lost) == Delivered(batch, {d[2] : d \in {m \in lost : m[1] = s}})

(***************************************************************************)
(* record, for a list of events: each is numbered, stored, and only then   *)
(* published to every subscriber.  `lost' are the deliveries that fail.    *)
(* The number is drawn before the event is built: that building it does    *)
(* not fail, which would leave a gap, is taken from the callers.           *)
(***************************************************************************)
Record(batch, lost) ==
    /\ lost \subseteq Subscriber \X (sequence + 1 .. sequence + Len(batch))
    /\ subscriber_errors + Cardinality(lost) <= MaxErrors
    /\ sequence' = sequence + Len(batch)
    /\ events' = events \o [i \in DOMAIN batch |-> Numbered(batch[i], sequence + i)]
    /\ heard' = [s \in Subscriber |-> heard[s] \o Handled(batch, s, lost)]
    /\ subscriber_errors' = subscriber_errors + Cardinality(lost)

RecordNothing == UNCHANGED <<events, sequence, heard, subscriber_errors>>

EventsForTrace(trace) == {events[i] : i \in {j \in DOMAIN events : events[j].trace = trace}}

-----------------------------------------------------------------------------
\* What a subscriber may fail on: any of the events, if the bound still allows.
Losses(batch) ==
    {{}} \union {{d} : d \in IF subscriber_errors < MaxErrors
                             THEN Subscriber \X (sequence + 1 .. sequence + Len(batch)) ELSE {}}

(***************************************************************************)
(* Evidence survives whoever listens: the stored events are numbered       *)
(* without a gap, every subscriber has them in order, and each delivery    *)
(* that failed was counted (event_bus.py: "recording (not hiding)          *)
(* subscriber failures").                                                  *)
(***************************************************************************)
EvidenceIsKept ==
    /\ sequence = Len(events)
    /\ \A i \in DOMAIN events : events[i].sequence = i
    /\ \A s \in Subscriber : \A i, j \in DOMAIN heard[s] : i < j => heard[s][i] < heard[s][j]
    /\ LET reached == UNION {{<<s, heard[s][i]>> : i \in DOMAIN heard[s]} : s \in Subscriber}
       IN Cardinality(reached) + subscriber_errors = Cardinality(Subscriber) * Len(events)
=============================================================================
