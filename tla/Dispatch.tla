------------------------------ MODULE Dispatch ------------------------------
(***************************************************************************)
(* The rules engine of rules/rules.go behind the bus of engine/bus.go,     *)
(* with the retries of action/retry.go.  Each published event has a        *)
(* goroutine, a job here, that walks the rules in their order and tries    *)
(* the actions of those that match; jobs overlap, share only the failure   *)
(* counter, and are cut off when main returns.  A request of an action is  *)
(* an attempt that succeeds, fails or panics.  results is a history        *)
(* variable.                                                               *)
(***************************************************************************)
EXTENDS Integers, Sequences, FiniteSets

CONSTANTS
    Kids,      \* category ids of the family members
    Names,     \* what they are called
    NameOf,    \* kid -> name; two kids may have the same
    NoName,    \* the empty string
    Rules,     \* the rules of the configuration, in its order
    MaxJobs    \* bound: events published

ASSUME NameAssumption ==
    /\ NoName \notin Kids \union Names
    /\ NameOf \in [Kids -> Names]

ASSUME MaxJobsAssumption == MaxJobs \in Nat

ChoreTypes == {"chore.completed", "chore.uncompleted", "chore.all_completed"}

EventTypes == ChoreTypes \union {"reward.redeemed"}

\* kid: NoName when a chore or a reward is nobody's; named: the poller knew
\* the kid's name when it made the event.
Events ==
    {event \in [type : EventTypes, kid : Kids \union {NoName}, named : BOOLEAN] :
        event.named \/ event.type = "chore.all_completed" => event.kid \in Kids}

FieldNames == {"assignee_id", "assignee_name", "category_id", "child_name"}

\* The fields of Event.Data that are about the kid, as the detector fills them.
Data(event) ==
    LET name == IF event.named THEN NameOf[event.kid] ELSE NoName
    IN  IF event.type \in ChoreTypes
        THEN [f \in {"assignee_id", "assignee_name"} |->
                 IF f = "assignee_id" THEN event.kid ELSE name]
        ELSE [f \in {"category_id", "child_name"} |->
                 IF f = "category_id" THEN event.kid ELSE name]

Filters ==
    UNION {[S -> Kids \union Names \union {NoName}] : S \in SUBSET FieldNames}

\* actions: for each action of the rule its retry_attempts.
ASSUME RulesAssumption ==
    Rules \in Seq([event : EventTypes, filters : Filters, actions : Seq(Int)])

VARIABLES
    jobs,             \* the goroutines of HandleEvent, in order of publication
    actionFailures,   \* Engine.actionFailures
    ctxDone,          \* the signal context is cancelled
    ended,            \* main has returned, or the process has died
    results           \* job -> the action calls that have returned, in order

vars == <<jobs, actionFailures, ctxDone, ended, results>>

JobIds == DOMAIN jobs

JobStatuses == {"matching", "trying", "waiting", "done", "panicked"}

\* rule, action: the indices of the two loops; tries: attempts made so far.
Jobs == [event : Events, rule : Nat, action : Nat, tries : Nat, status : JobStatuses]

Results == [rule : Nat, action : Nat, tries : Nat, ok : BOOLEAN]

\* A job that tries or waits is at an action of the configuration.
TypeOK ==
    /\ jobs \in Seq(Jobs)
    /\ Len(jobs) <= MaxJobs
    /\ \A j \in JobIds : jobs[j].status \in {"trying", "waiting"} =>
           /\ jobs[j].rule \in DOMAIN Rules
           /\ jobs[j].action \in DOMAIN Rules[jobs[j].rule].actions
    /\ actionFailures \in Nat
    /\ ctxDone \in BOOLEAN
    /\ ended \in BOOLEAN
    /\ results \in Seq(Seq(Results))
    /\ Len(results) = Len(jobs)

Init ==
    /\ jobs = << >>
    /\ actionFailures = 0
    /\ ctxDone = FALSE
    /\ ended = FALSE
    /\ results = << >>

\* matchFilters.
MatchFilters(filters, data) ==
    \A key \in DOMAIN filters : key \in DOMAIN data /\ data[key] = filters[key]

Matches(rule, event) ==
    rule.event = event.type /\ MatchFilters(rule.filters, Data(event))

\* retry_attempts of the action job j is at.
Attempts(j) == Rules[jobs[j].rule].actions[jobs[j].action]

\* NewEngine wraps an action that has more than one attempt; retry.Retry then
\* allows Attempts - 1 retries.
Wrapped(j) == Attempts(j) > 1

\* Mutant: as many retries as attempts.
RetriesOneMore(j) == Wrapped(j) /\ jobs[j].tries < Attempts(j)

RetriesLeft(j) == Wrapped(j) /\ jobs[j].tries < Attempts(j) - 1

-----------------------------------------------------------------------------
(* HandleEvent.                                                            *)

\* Bus.Publish starts the goroutine.
Publish(event) ==
    /\ ~ended
    /\ Len(jobs) < MaxJobs
    /\ jobs' = Append(jobs, [event |-> event, rule |-> 1, action |-> 1,
                             tries |-> 0, status |-> "matching"])
    /\ results' = Append(results, << >>)
    /\ UNCHANGED <<actionFailures, ctxDone, ended>>

\* The head of the loop over the rules, and its end.
Matched(job) ==
    IF job.rule > Len(Rules) THEN [job EXCEPT !.status = "done"]
    ELSE IF Matches(Rules[job.rule], job.event) /\ Rules[job.rule].actions # << >>
         THEN [job EXCEPT !.status = "trying"]
         ELSE [job EXCEPT !.rule = @ + 1]

Match(j) ==
    /\ jobs[j].status = "matching"
    /\ jobs' = [jobs EXCEPT ![j] = Matched(@)]
    /\ UNCHANGED <<actionFailures, ctxDone, ended, results>>

\* Mutant: the loop over the actions runs past its end.
AdvancePastEnd(job) ==
    IF job.action <= Len(Rules[job.rule].actions)
    THEN [job EXCEPT !.action = @ + 1, !.tries = 0, !.status = "trying"]
    ELSE [job EXCEPT !.rule = @ + 1, !.action = 1, !.tries = 0,
                     !.status = "matching"]

\* The next action of the rule, or the next rule.
Advance(job) ==
    IF job.action < Len(Rules[job.rule].actions)
    THEN [job EXCEPT !.action = @ + 1, !.tries = 0, !.status = "trying"]
    ELSE [job EXCEPT !.rule = @ + 1, !.action = 1, !.tries = 0,
                     !.status = "matching"]

\* Mutant: an action that fails ends its rule.
ReturnOnError(j, tries, ok) ==
    /\ jobs' = [jobs EXCEPT ![j] =
           IF ok THEN Advance(@)
           ELSE [@ EXCEPT !.rule = @ + 1, !.action = 1, !.tries = 0,
                          !.status = "matching"]]
    /\ results' = [results EXCEPT ![j] = Append(@,
           [rule |-> jobs[j].rule, action |-> jobs[j].action,
            tries |-> tries, ok |-> ok])]
    /\ actionFailures' = IF ok THEN actionFailures ELSE actionFailures + 1
    /\ UNCHANGED <<ctxDone, ended>>

\* Execute of the action has returned.
Return(j, tries, ok) ==
    /\ jobs' = [jobs EXCEPT ![j] = Advance(@)]
    /\ results' = [results EXCEPT ![j] = Append(@,
           [rule |-> jobs[j].rule, action |-> jobs[j].action,
            tries |-> tries, ok |-> ok])]
    /\ actionFailures' = IF ok THEN actionFailures ELSE actionFailures + 1
    /\ UNCHANGED <<ctxDone, ended>>

Succeed(j) ==
    /\ jobs[j].status = "trying"
    /\ Return(j, jobs[j].tries + 1, TRUE)

\* Mutant: each attempt that fails is counted.
FailCountsAttempts(j) ==
    /\ jobs[j].status = "trying"
    /\ IF RetriesLeft(j)
       THEN /\ jobs' = [jobs EXCEPT ![j].tries = @ + 1, ![j].status = "waiting"]
            /\ actionFailures' = actionFailures + 1
            /\ UNCHANGED <<ctxDone, ended, results>>
       ELSE Return(j, jobs[j].tries + 1, FALSE)

\* Mutant: the attempts made are forgotten.
FailForgetsAttempts(j) ==
    /\ jobs[j].status = "trying"
    /\ IF RetriesLeft(j)
       THEN /\ jobs' = [jobs EXCEPT ![j].status = "waiting"]
            /\ UNCHANGED <<actionFailures, ctxDone, ended, results>>
       ELSE Return(j, jobs[j].tries + 1, FALSE)

\* An attempt failed: the last one, or the next waits for its delay.
Fail(j) ==
    /\ jobs[j].status = "trying"
    /\ IF RetriesLeft(j)
       THEN /\ jobs' = [jobs EXCEPT ![j].tries = @ + 1, ![j].status = "waiting"]
            /\ UNCHANGED <<actionFailures, ctxDone, ended, results>>
       ELSE Return(j, jobs[j].tries + 1, FALSE)

\* The delay is over; it may be so together with the cancellation.
TryAgain(j) ==
    /\ jobs[j].status = "waiting"
    /\ jobs' = [jobs EXCEPT ![j].status = "trying"]
    /\ UNCHANGED <<actionFailures, ctxDone, ended, results>>

\* retry.Retry gives up when the context is cancelled, in a wait or before an
\* attempt.
Abandon(j) ==
    /\ ctxDone
    /\ \/ jobs[j].status = "waiting"
       \/ jobs[j].status = "trying" /\ Wrapped(j)
    /\ Return(j, jobs[j].tries, FALSE)

\* The bus recovers a panic; the job ends without a result.
Panic(j) ==
    /\ jobs[j].status = "trying"
    /\ jobs' = [jobs EXCEPT ![j].status = "panicked"]
    /\ UNCHANGED <<actionFailures, ctxDone, ended, results>>

\* SIGINT or SIGTERM.
Cancel ==
    /\ ~ctxDone
    /\ ~ended
    /\ ctxDone' = TRUE
    /\ UNCHANGED <<jobs, actionFailures, ended, results>>

\* main returns after a signal without waiting for the jobs, or the process dies.
ProcessEnds ==
    /\ ~ended
    /\ ended' = TRUE
    /\ UNCHANGED <<jobs, actionFailures, ctxDone, results>>

Step(j) ==
    /\ ~ended
    /\ \/ Match(j)
       \/ Succeed(j)
       \/ Fail(j)
       \/ TryAgain(j)
       \/ Abandon(j)
       \/ Panic(j)

Next ==
    \/ \E event \in Events : Publish(event)
    \/ \E j \in JobIds : Step(j)
    \/ Cancel
    \/ ProcessEnds

Spec == Init /\ [][Next]_vars

\* Each goroutine is scheduled, and each attempt and each delay ends.
FairSpec == Spec /\ \A j \in 1..MaxJobs : WF_vars(j \in JobIds /\ Step(j))

-----------------------------------------------------------------------------
(* Properties.                                                             *)

Call(result) == <<result.rule, result.action>>

Before(c, d) == c[1] < d[1] \/ (c[1] = d[1] /\ c[2] < d[2])

\* The action calls that an event asks for.
Expected(event) ==
    UNION {{r} \X DOMAIN Rules[r].actions :
              r \in {r \in DOMAIN Rules : Matches(Rules[r], event)}}

Returned(j) == {Call(results[j][i]) : i \in DOMAIN results[j]}

\* However its attempts end, a job calls the actions of all rules that match
\* its event, and no others, one after the other in the order of the
\* configuration, up to the point it has reached: a failing action stops
\* neither its rule nor the rules after it.
AllActionsInOrder ==
    \A j \in JobIds :
        /\ \A i, k \in DOMAIN results[j] :
               i < k => Before(Call(results[j][i]), Call(results[j][k]))
        /\ Returned(j) = {c \in Expected(jobs[j].event) :
                             Before(c, <<jobs[j].rule, jobs[j].action>>)}

Failures ==
    UNION {{j} \X {i \in DOMAIN results[j] : ~results[j][i].ok} : j \in JobIds}

\* With any number of jobs at a time, /healthz reports one failure for each
\* action call that failed, however often it was tried, and no other.
FailuresCounted == actionFailures = Cardinality(Failures)

\* docs/actions.md: retry_attempts are the "total attempts (default: 1, no
\* retry)".  No call makes more, and as long as there was no signal, a call
\* fails only after all of them.
RetriesUsedUp ==
    \A j \in JobIds : \A i \in DOMAIN results[j] :
        LET result == results[j][i]
            attempts == Rules[result.rule].actions[result.action]
            total == IF attempts > 1 THEN attempts ELSE 1
        IN  /\ result.tries <= total
            /\ ~result.ok /\ ~ctxDone => result.tries = total

\* Every event is dealt with to the end, whatever fails and whatever the other
\* jobs wait for, unless the process ends first.
EveryJobEnds ==
    \A j \in 1..MaxJobs :
        j \in JobIds
            ~> (ended \/ (j \in JobIds /\ jobs[j].status \in {"done", "panicked"}))

\* docs/events.md lists category_id among the fields of chore.completed,
\* chore.uncompleted and chore.all_completed, and docs/actions.md says "Rules
\* can filter events by any field in the event data": a rule that filters a
\* chore event on the kid's category_id has its actions called.
CategoryFilterMatches ==
    \A j \in JobIds : jobs[j].status = "done" =>
        \A r \in DOMAIN Rules :
            (/\ Rules[r].event = jobs[j].event.type
             /\ Rules[r].filters = [f \in {"category_id"} |-> jobs[j].event.kid])
                => {r} \X DOMAIN Rules[r].actions \subseteq Returned(j)

=============================================================================
