----------------------------- MODULE EventServer -----------------------------
(***************************************************************************)
(* The event history of server/server.go behind the bus of engine/bus.go.  *)
(* Publish starts a goroutine per event for RecordEvent, so events arrive  *)
(* in any order; RecordEvent writes a ring buffer under the write lock;    *)
(* GET /events copies the buffer under the read lock and filters the copy  *)
(* after it has released it.  recorded is a history variable.              *)
(***************************************************************************)
EXTENDS Integers, Sequences, FiniteSets

CONSTANTS
    Types, AnyType, Limits, MaxEvents,  \* as in EventLog
    MaxSize,       \* the capacity of the ring buffer (event_buffer_size)
    MaxInFlight,   \* bound: goroutines of Publish running at a time
    Empty          \* the zero Event of a slot never written

ASSUME SizeAssumption == MaxSize \in Nat \ {0}

ASSUME CapAssumption == MaxEvents \in Nat /\ MaxInFlight \in Nat \ {0}

ASSUME LimitAssumption == Limits \subseteq Int /\ 0 \in Limits

Events == [id : 1..MaxEvents, type : Types]

ASSUME EmptyAssumption == Empty \notin Events

VARIABLES
    events,     \* the slots of the buffer
    head,       \* index of the oldest event
    size,       \* events stored
    inFlight,   \* events whose RecordEvent goroutine has not run
    published,  \* all events handed to the bus
    recorded,   \* the events recorded so far, oldest first
    request,    \* the request of GET /events being served
    copy,       \* the copy of the buffer taken for it
    reply,      \* what the last request got
    serving     \* a handler is between its lock and its reply

ringVars == <<events, head, size, recorded>>
busVars == <<inFlight, published>>
readerVars == <<request, copy, reply, serving>>
vars == <<ringVars, busVars, readerVars>>

Requests == [type : Types \union {AnyType}, limit : Limits]

NoRequest == [type |-> AnyType, limit |-> 0]

TypeOK ==
    /\ events \in [0..(MaxSize - 1) -> Events \union {Empty}]
    /\ head \in 0..(MaxSize - 1)
    /\ size \in 0..MaxSize
    /\ inFlight \in SUBSET Events
    /\ published \in SUBSET Events
    /\ recorded \in Seq(Events)
    /\ request \in Requests
    /\ copy \in Seq(Events)
    /\ reply \in Seq(Events)
    /\ serving \in BOOLEAN

Init ==
    /\ events = [i \in 0..(MaxSize - 1) |-> Empty]
    /\ head = 0
    /\ size = 0
    /\ inFlight = {}
    /\ published = {}
    /\ recorded = << >>
    /\ request = NoRequest
    /\ copy = << >>
    /\ reply = << >>
    /\ serving = FALSE

\* Bus.Publish: a goroutine that will call RecordEvent(event), at some time.
Publish(type) ==
    /\ Cardinality(published) < MaxEvents
    /\ Cardinality(inFlight) < MaxInFlight
    /\ LET event == [id |-> Cardinality(published) + 1, type |-> type]
       IN  /\ published' = published \union {event}
           /\ inFlight' = inFlight \union {event}
    /\ UNCHANGED <<ringVars, readerVars>>

\* The slot of the i-th stored event, and the slot after the newest.
Wrap(index) == index % MaxSize

Slot(i) == Wrap(head + i)

\* Mutant: one event more than there are slots.
StorePastEnd(event) ==
    IF size <= MaxSize
    THEN /\ events' = [events EXCEPT ![Slot(size)] = event]
         /\ size' = size + 1
         /\ UNCHANGED head
    ELSE /\ events' = [events EXCEPT ![head] = event]
         /\ head' = Wrap(head + 1)
         /\ UNCHANGED size

\* Mutant: the oldest event stays the oldest when it is overwritten.
StoreInPlace(event) ==
    IF size < MaxSize
    THEN /\ events' = [events EXCEPT ![Slot(size)] = event]
         /\ size' = size + 1
         /\ UNCHANGED head
    ELSE /\ events' = [events EXCEPT ![head] = event]
         /\ UNCHANGED <<head, size>>

\* Mutant: a full buffer drops the event.
StoreUnlessFull(event) ==
    IF size < MaxSize
    THEN /\ events' = [events EXCEPT ![Slot(size)] = event]
         /\ size' = size + 1
         /\ UNCHANGED head
    ELSE UNCHANGED <<events, head, size>>

Store(event) ==
    IF size < MaxSize
    THEN /\ events' = [events EXCEPT ![Slot(size)] = event]
         /\ size' = size + 1
         /\ UNCHANGED head
    ELSE /\ events' = [events EXCEPT ![head] = event]
         /\ head' = Wrap(head + 1)
         /\ UNCHANGED size

RecordEvent(event) ==
    /\ event \in inFlight
    /\ inFlight' = inFlight \ {event}
    /\ Store(event)
    /\ recorded' = Append(recorded, event)
    /\ UNCHANGED <<published, readerVars>>

\* Mutant: the slots in the order of the array.
SnapshotFromZero == [i \in 1..size |-> events[i - 1]]

Snapshot == [i \in 1..size |-> events[Slot(i - 1)]]

\* handleEvents, under the read lock.
TakeSnapshot(r) ==
    /\ ~serving
    /\ serving' = TRUE
    /\ request' = r
    /\ copy' = Snapshot
    /\ UNCHANGED <<ringVars, busVars, reply>>

\* The loop over the copy: n -> what it has kept of the first n events.
Filtered(all, type) ==
    LET filtered[n \in 0..Len(all)] ==
            IF n = 0 THEN << >>
            ELSE IF all[n].type = type THEN Append(filtered[n - 1], all[n])
            ELSE filtered[n - 1]
    IN  filtered

OfType(all, type) == IF type = AnyType THEN all ELSE Filtered(all, type)[Len(all)]

Limited(all, limit) ==
    IF limit > 0 /\ limit < Len(all)
    THEN SubSeq(all, Len(all) - limit + 1, Len(all))
    ELSE all

\* Mutant: the limit is applied before the filter.
LimitFirst(all, r) == OfType(Limited(all, r.limit), r.type)

Result(all, r) == Limited(OfType(all, r.type), r.limit)

\* handleEvents, after the unlock: filter by type, then apply the limit.
Reply ==
    /\ serving
    /\ serving' = FALSE
    /\ reply' = Result(copy, request)
    /\ request' = NoRequest
    /\ copy' = << >>
    /\ UNCHANGED <<ringVars, busVars>>

Next ==
    \/ \E type \in Types : Publish(type)
    \/ \E event \in inFlight : RecordEvent(event)
    \/ \E r \in Requests : TakeSnapshot(r)
    \/ Reply

Spec == Init /\ [][Next]_vars

\* Goroutines that can run are run.
FairSpec == Spec /\ WF_vars(\E event \in inFlight : RecordEvent(event))

-----------------------------------------------------------------------------
(* Properties.                                                             *)

Stored(n) == IF n < MaxSize THEN n ELSE MaxSize

\* Through any number of wrap-arounds the buffer holds the latest recorded
\* events, as many as fit, and snapshot() returns them oldest first.
RetainsLatest ==
    /\ size = Stored(Len(recorded))
    /\ Snapshot = SubSeq(recorded, Len(recorded) - size + 1, Len(recorded))

\* The buffer is in the order of recording, which is not that of publication:
\* an event can be recorded after events published later.  It is overtaken only
\* by events whose goroutines ran together with its own, so with at most
\* MaxInFlight of them a recorded event among the latest published is shown.
NewestKept ==
    \A event \in published \ inFlight :
        Cardinality(published) - event.id <= MaxSize - MaxInFlight =>
            \E i \in 1..size : Snapshot[i] = event

\* A reply lists its events in the order they were recorded.
ReplyInOrder ==
    \A i, j \in DOMAIN reply : i < j =>
        \E m, n \in DOMAIN recorded :
            m < n /\ recorded[m] = reply[i] /\ recorded[n] = reply[j]

\* The answer of the request: the moment it was taken is the moment that counts.
AnswerNow ==
    LET result == IF serving THEN Result(copy, request) ELSE reply
    IN  {result[i] : i \in DOMAIN result}

Log == INSTANCE EventLog WITH
    Retained <- MaxSize, log <- recorded, answer <- AnswerNow

\* Bus, ring buffer, filter and limit together keep the promise of EventLog,
\* although the copy is read after the lock is released.
ImplementsLog == Log!Spec

=============================================================================
