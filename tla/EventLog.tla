------------------------------ MODULE EventLog ------------------------------
(***************************************************************************)
(* What GET /events promises, apart from how the server keeps it: of the   *)
(* whole history of recorded events, a reader gets exactly the latest      *)
(* `retained` ones that match its type, and of those the latest `limit`.   *)
(* A published event is recorded once, at some later moment.               *)
(***************************************************************************)
EXTENDS Integers, Sequences, FiniteSets

CONSTANTS
    Types,      \* event types
    AnyType,    \* a request without ?type
    Retained,   \* how many events are kept
    Limits,     \* values of ?limit; 0 stands for none, and for no number
    MaxEvents   \* bound of the history: the ids are 1..MaxEvents

VARIABLES
    published,  \* id -> event, as handed to the bus
    log,        \* the events recorded so far, oldest first
    answer      \* the events the last request was answered with

Events == [id : 1..MaxEvents, type : Types]

Requests == [type : Types \union {AnyType}, limit : Limits]

Recorded == {log[i] : i \in DOMAIN log}

Matches(event, request) == request.type \in {AnyType, event.type}

\* The positions after i whose event matches too.
LaterMatches(i, request) ==
    {j \in DOMAIN log : j > i /\ Matches(log[j], request)}

Answer(request) ==
    {log[i] : i \in
        {i \in DOMAIN log :
            /\ i > Len(log) - Retained
            /\ Matches(log[i], request)
            /\ request.limit > 0 =>
                   Cardinality(LaterMatches(i, request)) < request.limit}}

Init ==
    /\ published = {}
    /\ log = << >>
    /\ answer = {}

Publish(type) ==
    /\ Cardinality(published) < MaxEvents
    /\ published' =
           published \union {[id |-> Cardinality(published) + 1, type |-> type]}
    /\ UNCHANGED <<log, answer>>

Record(event) ==
    /\ event \in published \ Recorded
    /\ log' = Append(log, event)
    /\ UNCHANGED <<published, answer>>

Query(request) ==
    /\ answer' = Answer(request)
    /\ UNCHANGED <<published, log>>

Next ==
    \/ \E type \in Types : Publish(type)
    \/ \E event \in published : Record(event)
    \/ \E request \in Requests : Query(request)

vars == <<published, log, answer>>

Spec == Init /\ [][Next]_vars /\ WF_vars(\E event \in published : Record(event))

=============================================================================
