-------------------------- MODULE Dispatch_proofs --------------------------
(***************************************************************************)
(* Proofs about Dispatch, for every configuration of rules, every number   *)
(* of events and every interleaving of their jobs: each job calls the      *)
(* actions it should, in order, uses up their attempts, and the shared     *)
(* counter counts each failed call once.                                   *)
(***************************************************************************)
EXTENDS Dispatch, SequenceTheorems, FiniteSetTheorems, TLAPS

-----------------------------------------------------------------------------
(* The rules and the calls they ask for.                                   *)

Total(r, a) ==
    IF Rules[r].actions[a] > 1 THEN Rules[r].actions[a] ELSE 1

Cursor(job) == <<job.rule, job.action>>

Reached(event, place) == {c \in Expected(event) : Before(c, place)}

LEMMA RuleFacts ==
    /\ Len(Rules) \in Nat
    /\ DOMAIN Rules = 1..Len(Rules)
    /\ \A r \in DOMAIN Rules :
          /\ Rules[r].actions \in Seq(Int)
          /\ Len(Rules[r].actions) \in Nat
          /\ DOMAIN Rules[r].actions = 1..Len(Rules[r].actions)
          /\ \A a \in DOMAIN Rules[r].actions : Total(r, a) \in Nat \ {0}
<1>1. Len(Rules) \in Nat /\ DOMAIN Rules = 1..Len(Rules)
  BY RulesAssumption
<1>2. ASSUME NEW r \in DOMAIN Rules
      PROVE  /\ Rules[r].actions \in Seq(Int)
             /\ Len(Rules[r].actions) \in Nat
             /\ DOMAIN Rules[r].actions = 1..Len(Rules[r].actions)
             /\ \A a \in DOMAIN Rules[r].actions : Total(r, a) \in Nat \ {0}
  <2>1. Rules[r] \in [event : EventTypes, filters : Filters, actions : Seq(Int)]
    BY <1>1, <1>2, RulesAssumption, ElementOfSeq
  <2>2. Rules[r].actions \in Seq(Int)
    BY <2>1
  <2>3. QED
    BY <2>2 DEF Total
<1>3. QED
  BY <1>1, <1>2

\* The calls an event asks for, one by one.
LEMMA ExpectedMember ==
    ASSUME NEW event
    PROVE  /\ \A r, a : <<r, a>> \in Expected(event) <=>
                 /\ r \in DOMAIN Rules
                 /\ Matches(Rules[r], event)
                 /\ a \in DOMAIN Rules[r].actions
           /\ \A c \in Expected(event) :
                 /\ c = <<c[1], c[2]>>
                 /\ c[1] \in 1..Len(Rules)
                 /\ c[2] \in 1..Len(Rules[c[1]].actions)
<1>1. \A r, a : <<r, a>> \in Expected(event) <=>
          /\ r \in DOMAIN Rules
          /\ Matches(Rules[r], event)
          /\ a \in DOMAIN Rules[r].actions
  BY DEF Expected
<1>2. \A c \in Expected(event) : c = <<c[1], c[2]>>
  BY DEF Expected
<1>3. QED
  BY <1>1, <1>2, RuleFacts

-----------------------------------------------------------------------------
(* One job.                                                                *)

Busy == {"trying", "waiting", "panicked"}

\* Where a job can be.
PlaceOK(job) ==
    /\ job.rule \in 1..(Len(Rules) + 1)
    /\ job.status \notin Busy => job.action = 1 /\ job.tries = 0
    /\ job.status = "done" => job.rule = Len(Rules) + 1
    /\ job.status \in Busy =>
           /\ job.rule \in DOMAIN Rules
           /\ job.action \in DOMAIN Rules[job.rule].actions
           /\ Matches(Rules[job.rule], job.event)
           /\ job.tries < Total(job.rule, job.action) \/ job.status = "panicked"
           /\ job.status = "waiting" => job.tries > 0

\* A rule that does not match, or has no action, adds nothing.
LEMMA SkipRule ==
    ASSUME NEW event, NEW r \in 1..Len(Rules),
           ~(Matches(Rules[r], event) /\ Rules[r].actions # << >>)
    PROVE  Reached(event, <<r + 1, 1>>) = Reached(event, <<r, 1>>)
<1>1. ASSUME NEW c \in Expected(event)
      PROVE  Before(c, <<r + 1, 1>>) <=> Before(c, <<r, 1>>)
  <2>1. c = <<c[1], c[2]>> /\ c[1] \in 1..Len(Rules)
        /\ c[2] \in 1..Len(Rules[c[1]].actions)
    BY <1>1, ExpectedMember
  <2>2. Len(Rules) \in Nat /\ Len(Rules[c[1]].actions) \in Nat
        /\ Rules[c[1]].actions \in Seq(Int)
    BY <2>1, RuleFacts
  <2>3. c[1] # r
    <3> SUFFICES ASSUME c[1] = r PROVE FALSE
      OBVIOUS
    <3>1. Matches(Rules[r], event)
      BY <1>1, <2>1, ExpectedMember
    <3>2. Rules[r].actions # << >>
      BY <2>1, <2>2
    <3>3. QED
      BY <3>1, <3>2
  <2>4. QED
    BY <2>1, <2>2, <2>3 DEF Before
<1>2. QED
  BY <1>1 DEF Reached

\* The next action, or the next rule, adds the call just made.
LEMMA AdvanceJob ==
    ASSUME NEW job \in Jobs, PlaceOK(job), job.status \in Busy
    PROVE  /\ Advance(job) \in Jobs
           /\ PlaceOK(Advance(job))
           /\ Advance(job).event = job.event
           /\ Cursor(job) \in Expected(job.event)
           /\ Reached(job.event, Cursor(Advance(job))) =
                 Reached(job.event, Cursor(job)) \union {Cursor(job)}
<1> DEFINE r == job.rule
           a == job.action
           n == Len(Rules[r].actions)
           next == Advance(job)
<1>1. /\ r \in 1..Len(Rules) /\ a \in 1..n /\ n \in Nat /\ Len(Rules) \in Nat
      /\ Matches(Rules[r], job.event)
  BY RuleFacts DEF PlaceOK
<1>2. /\ next.event = job.event /\ next.tries = 0
      /\ IF a < n THEN next.rule = r /\ next.action = a + 1 /\ next.status = "trying"
                  ELSE next.rule = r + 1 /\ next.action = 1 /\ next.status = "matching"
      /\ next \in Jobs
  <2>1. job \in [event : Events, rule : Nat, action : Nat, tries : Nat,
                  status : JobStatuses]
    BY DEF Jobs
  <2>2. CASE a < n
    <3>1. next = [event |-> job.event, rule |-> r, action |-> a + 1, tries |-> 0,
                  status |-> "trying"]
      BY <2>1, <2>2 DEF Advance
    <3>2. "trying" \in JobStatuses
      BY DEF JobStatuses
    <3>3. QED
      BY <1>1, <2>1, <2>2, <3>1, <3>2 DEF Jobs
  <2>3. CASE ~(a < n)
    <3>1. next = [event |-> job.event, rule |-> r + 1, action |-> 1, tries |-> 0,
                  status |-> "matching"]
      BY <2>1, <2>3 DEF Advance
    <3>2. "matching" \in JobStatuses
      BY DEF JobStatuses
    <3>3. QED
      BY <1>1, <2>1, <2>3, <3>1, <3>2 DEF Jobs
  <2>4. QED
    BY <2>2, <2>3
<1>3. PlaceOK(next)
  <2>1. CASE a < n
    <3>1. next.action \in DOMAIN Rules[r].actions /\ Total(r, next.action) > 0
      BY <1>1, <1>2, <2>1, RuleFacts
    <3>2. QED
      BY <1>1, <1>2, <2>1, <3>1, RuleFacts DEF PlaceOK, Busy
  <2>2. CASE ~(a < n)
    BY <1>1, <1>2, <2>2 DEF PlaceOK, Busy
  <2>3. QED
    BY <2>1, <2>2
<1>4. <<r, a>> \in Expected(job.event)
  BY <1>1, ExpectedMember, RuleFacts
<1>5. ASSUME NEW c \in Expected(job.event)
      PROVE  Before(c, <<next.rule, next.action>>) <=> Before(c, <<r, a>>) \/ c = <<r, a>>
  <2>1. /\ c = <<c[1], c[2]>> /\ c[1] \in Nat /\ c[2] \in Nat \ {0}
        /\ c[1] = r => c[2] <= n
    BY <1>1, <1>5, ExpectedMember, RuleFacts
  <2>2. c = <<r, a>> <=> c[1] = r /\ c[2] = a
    BY <2>1
  <2>3. CASE a < n
    BY <1>1, <1>2, <2>1, <2>2, <2>3 DEF Before
  <2>4. CASE ~(a < n)
    BY <1>1, <1>2, <2>1, <2>2, <2>4 DEF Before
  <2>5. QED
    BY <2>3, <2>4
<1>6. QED
  BY <1>2, <1>3, <1>4, <1>5 DEF Reached, Cursor

-----------------------------------------------------------------------------
(* All jobs.                                                               *)

\* What has returned is what has been reached, in order.
LogOK(job, log) ==
    /\ \A i, k \in DOMAIN log : i < k => Before(Call(log[i]), Call(log[k]))
    /\ {Call(log[i]) : i \in DOMAIN log} = Reached(job.event, Cursor(job))

\* A call used no more than its attempts, and fewer to fail only after a signal;
\* none at all only if it has retries.
ResultOK(result, cancelled) ==
    /\ result.tries <= Total(result.rule, result.action)
    /\ ~result.ok /\ ~cancelled => result.tries = Total(result.rule, result.action)
    /\ result.tries = 0 => cancelled /\ Total(result.rule, result.action) > 1

JobsInv ==
    /\ jobs \in Seq(Jobs)
    /\ Len(jobs) <= MaxJobs
    /\ results \in Seq(Seq(Results))
    /\ Len(results) = Len(jobs)
    /\ ctxDone \in BOOLEAN /\ ended \in BOOLEAN
    /\ \A j \in 1..Len(jobs) :
          /\ PlaceOK(jobs[j])
          /\ LogOK(jobs[j], results[j])
          /\ \A i \in DOMAIN results[j] : ResultOK(results[j][i], ctxDone)

CountInv ==
    /\ IsFiniteSet(Failures)
    /\ actionFailures = Cardinality(Failures)

\* A step that changes one job and not its log keeps the invariant if the job
\* stays in order.
LEMMA ChangeJob ==
    ASSUME JobsInv, NEW j \in 1..Len(jobs), NEW job \in Jobs,
           jobs' = [jobs EXCEPT ![j] = job],
           UNCHANGED <<results, ctxDone, ended>>,
           PlaceOK(job), job.event = jobs[j].event,
           Reached(job.event, Cursor(job)) = Reached(jobs[j].event, Cursor(jobs[j]))
    PROVE  JobsInv'
<1>1. /\ jobs' \in Seq(Jobs) /\ Len(jobs') = Len(jobs)
      /\ \A k \in 1..Len(jobs) : jobs'[k] = IF k = j THEN job ELSE jobs[k]
  BY ExceptSeq DEF JobsInv
<1>2. ASSUME NEW k \in 1..Len(jobs)
      PROVE  PlaceOK(jobs'[k]) /\ LogOK(jobs'[k], results[k])
  BY <1>1, <1>2 DEF JobsInv, LogOK
<1>3. QED
  BY <1>1, <1>2 DEF JobsInv

\* Execute of an action returns.
LEMMA ReturnJob ==
    ASSUME JobsInv, NEW j \in 1..Len(jobs), NEW tries \in Nat, NEW ok \in BOOLEAN,
           jobs[j].status \in Busy, Return(j, tries, ok),
           tries <= Total(jobs[j].rule, jobs[j].action),
           ~ok /\ ~ctxDone => tries = Total(jobs[j].rule, jobs[j].action),
           tries = 0 => ctxDone /\ Total(jobs[j].rule, jobs[j].action) > 1,
           UNCHANGED <<ctxDone, ended>>
    PROVE  JobsInv'
<1> DEFINE job == jobs[j]
           next == Advance(jobs[j])
           result == [rule |-> jobs[j].rule, action |-> jobs[j].action,
                      tries |-> tries, ok |-> ok]
           log == Append(results[j], result)
<1>1. job \in Jobs /\ PlaceOK(job) /\ LogOK(job, results[j]) /\ results[j] \in Seq(Results)
  BY ElementOfSeq DEF JobsInv
<1>2. /\ next \in Jobs /\ PlaceOK(next) /\ next.event = job.event
      /\ Cursor(job) \in Expected(job.event)
      /\ Reached(job.event, Cursor(next)) = Reached(job.event, Cursor(job)) \union {Cursor(job)}
  BY <1>1, AdvanceJob
<1>3. /\ jobs' \in Seq(Jobs) /\ Len(jobs') = Len(jobs)
      /\ \A k \in 1..Len(jobs) : jobs'[k] = IF k = j THEN next ELSE jobs[k]
  <2>1. jobs' = [jobs EXCEPT ![j] = next]
    BY DEF Return
  <2>2. QED
    BY <1>2, <2>1, ExceptSeq DEF JobsInv
<1>4. result \in Results
  BY <1>1 DEF Jobs, Results
<1>5. /\ log \in Seq(Results) /\ Len(log) = Len(results[j]) + 1
      /\ \A i \in 1..Len(results[j]) : log[i] = results[j][i]
      /\ log[Len(results[j]) + 1] = result
      /\ DOMAIN log = 1..(Len(results[j]) + 1)
      /\ DOMAIN results[j] = 1..Len(results[j]) /\ Len(results[j]) \in Nat
  BY <1>1, <1>4, AppendProperties, LenProperties
<1>6. /\ results' \in Seq(Seq(Results)) /\ Len(results') = Len(results)
      /\ \A k \in 1..Len(jobs) : results'[k] = IF k = j THEN log ELSE results[k]
  <2>1. results' = [results EXCEPT ![j] = log]
    BY DEF Return
  <2>2. QED
    BY <1>5, <2>1, ExceptSeq DEF JobsInv
<1>7. Call(result) = Cursor(job)
  BY DEF Call, Cursor
<1> HIDE DEF log, result, next
<1>8. LogOK(next, log)
  <2>1. \A i \in 1..Len(results[j]) : Before(Call(results[j][i]), Cursor(job))
    BY <1>1, <1>5 DEF LogOK, Reached
  <2>2. \A i, k \in DOMAIN log : i < k => Before(Call(log[i]), Call(log[k]))
    <3> SUFFICES ASSUME NEW i \in DOMAIN log, NEW k \in DOMAIN log, i < k
                 PROVE  Before(Call(log[i]), Call(log[k]))
      OBVIOUS
    <3>1. CASE k = Len(results[j]) + 1
      BY <1>5, <1>7, <2>1, <3>1
    <3>2. CASE k # Len(results[j]) + 1
      <4>1. i \in DOMAIN results[j] /\ k \in DOMAIN results[j]
        BY <1>5, <3>2
      <4>2. log[i] = results[j][i] /\ log[k] = results[j][k]
        BY <1>5, <4>1
      <4>3. QED
        BY <1>1, <4>1, <4>2 DEF LogOK
    <3>3. QED
      BY <3>1, <3>2
  <2>3. {Call(log[i]) : i \in DOMAIN log} =
           {Call(results[j][i]) : i \in DOMAIN results[j]} \union {Cursor(job)}
    BY <1>5, <1>7
  <2>4. QED
    BY <1>1, <1>2, <2>2, <2>3 DEF LogOK
<1>9. \A i \in DOMAIN log : ResultOK(log[i], ctxDone)
  <2>1. ResultOK(result, ctxDone)
    BY DEF ResultOK, result
  <2>2. \A i \in DOMAIN results[j] : ResultOK(results[j][i], ctxDone)
    BY DEF JobsInv
  <2>3. ASSUME NEW i \in DOMAIN log
        PROVE  ResultOK(log[i], ctxDone)
    <3>1. CASE i = Len(results[j]) + 1
      BY <1>5, <2>1, <3>1
    <3>2. CASE i # Len(results[j]) + 1
      <4>1. i \in DOMAIN results[j] /\ log[i] = results[j][i]
        BY <1>5, <2>3, <3>2
      <4>2. QED
        BY <2>2, <4>1
    <3>3. QED
      BY <3>1, <3>2
  <2>4. QED
    BY <2>3
<1>10. ASSUME NEW k \in 1..Len(jobs)
       PROVE  /\ PlaceOK(jobs'[k]) /\ LogOK(jobs'[k], results'[k])
              /\ \A i \in DOMAIN results'[k] : ResultOK(results'[k][i], ctxDone)
  BY <1>2, <1>3, <1>6, <1>8, <1>9, <1>10 DEF JobsInv
<1>11. QED
  BY <1>3, <1>6, <1>10 DEF JobsInv

-----------------------------------------------------------------------------
(* The actions keep the jobs in order.                                     *)

LEMMA PublishJobs ==
    ASSUME JobsInv, NEW event \in Events, Publish(event)
    PROVE  JobsInv'
<1> DEFINE job == [event |-> event, rule |-> 1, action |-> 1, tries |-> 0,
                   status |-> "matching"]
           n == Len(jobs)
<1>1. job \in Jobs
  BY DEF Jobs, JobStatuses
<1>2. /\ jobs' \in Seq(Jobs) /\ Len(jobs') = n + 1 /\ n \in Nat
      /\ \A k \in 1..n : jobs'[k] = jobs[k]
      /\ jobs'[n + 1] = job
  BY <1>1, AppendProperties, LenProperties DEF JobsInv, Publish
<1>3. << >> \in Seq(Results)
  BY EmptySeq
<1>4. /\ results' \in Seq(Seq(Results)) /\ Len(results') = n + 1
      /\ \A k \in 1..n : results'[k] = results[k]
      /\ results'[n + 1] = << >>
  BY <1>2, <1>3, AppendProperties, LenProperties DEF JobsInv, Publish
<1>5. PlaceOK(job)
  BY RuleFacts DEF PlaceOK, Busy
<1>6. LogOK(job, << >>)
  <2>1. Reached(event, <<1, 1>>) = {}
    <3>1. ASSUME NEW c \in Expected(event)
          PROVE  ~Before(c, <<1, 1>>)
      <4>1. c[1] \in Nat \ {0} /\ c[2] \in Nat \ {0}
        BY <3>1, ExpectedMember, RuleFacts
      <4>2. QED
        BY <4>1 DEF Before
    <3>2. QED
      BY <3>1 DEF Reached
  <2>2. {Call(<< >>[i]) : i \in DOMAIN << >>} = {} /\ DOMAIN << >> = {}
    OBVIOUS
  <2>3. job.event = event /\ Cursor(job) = <<1, 1>>
    BY DEF Cursor
  <2>4. QED
    BY <2>1, <2>2, <2>3 DEF LogOK
<1> HIDE DEF job
<1>7. ASSUME NEW k \in 1..(n + 1)
      PROVE  /\ PlaceOK(jobs'[k]) /\ LogOK(jobs'[k], results'[k])
             /\ \A i \in DOMAIN results'[k] : ResultOK(results'[k][i], ctxDone)
  <2>1. CASE k = n + 1
    <3>1. DOMAIN << >> = {}
      OBVIOUS
    <3>2. QED
      BY <1>2, <1>4, <1>5, <1>6, <2>1, <3>1
  <2>2. CASE k \in 1..n
    BY <1>2, <1>4, <2>2 DEF JobsInv
  <2>3. QED
    BY <1>2, <2>1, <2>2
<1>8. /\ n + 1 <= MaxJobs
      /\ ctxDone' \in BOOLEAN /\ ended' \in BOOLEAN /\ ctxDone' = ctxDone
  BY <1>2, MaxJobsAssumption DEF Publish, JobsInv
<1>9. QED
  BY <1>2, <1>4, <1>7, <1>8 DEF JobsInv

LEMMA MatchJobs ==
    ASSUME JobsInv, NEW j \in 1..Len(jobs), Match(j), ended' = ended
    PROVE  JobsInv'
<1> DEFINE old == jobs[j]
<1>1. /\ old \in Jobs /\ PlaceOK(old) /\ old.status = "matching"
      /\ old.action = 1 /\ old.tries = 0
      /\ old.rule \in 1..(Len(Rules) + 1) /\ Len(Rules) \in Nat
  BY ElementOfSeq, RuleFacts DEF JobsInv, Match, PlaceOK, Busy
<1>2. CASE old.rule > Len(Rules)
  <2> DEFINE job == [event |-> old.event, rule |-> old.rule, action |-> 1,
                     tries |-> 0, status |-> "done"]
  <2>1. job = [old EXCEPT !.status = "done"] /\ job \in Jobs
    BY <1>1 DEF Jobs, JobStatuses
  <2>2. jobs' = [jobs EXCEPT ![j] = job]
    BY <1>2, <2>1 DEF Match, Matched
  <2>3. PlaceOK(job) /\ Cursor(job) = Cursor(old)
    BY <1>1, <1>2 DEF PlaceOK, Busy, Cursor
  <2>4. QED
    BY <2>1, <2>2, <2>3, ChangeJob DEF Match
<1>3. CASE /\ old.rule \in 1..Len(Rules)
           /\ Matches(Rules[old.rule], old.event) /\ Rules[old.rule].actions # << >>
  <2> DEFINE job == [event |-> old.event, rule |-> old.rule, action |-> 1,
                     tries |-> 0, status |-> "trying"]
  <2>1. job = [old EXCEPT !.status = "trying"] /\ job \in Jobs
    BY <1>1 DEF Jobs, JobStatuses
  <2>2. jobs' = [jobs EXCEPT ![j] = job]
    <3>1. ~(old.rule > Len(Rules))
      BY <1>1, <1>3
    <3>2. QED
      BY <1>3, <2>1, <3>1 DEF Match, Matched
  <2>3. PlaceOK(job) /\ Cursor(job) = Cursor(old)
    <3>1. 1 \in DOMAIN Rules[old.rule].actions
      BY <1>3, RuleFacts, EmptySeq
    <3>2. 0 < Total(old.rule, 1)
      BY <1>3, <3>1, RuleFacts
    <3>3. QED
      BY <1>1, <1>3, <3>1, <3>2, RuleFacts DEF PlaceOK, Busy, Cursor
  <2>4. QED
    BY <2>1, <2>2, <2>3, ChangeJob DEF Match
<1>4. CASE /\ old.rule \in 1..Len(Rules)
           /\ ~(Matches(Rules[old.rule], old.event) /\ Rules[old.rule].actions # << >>)
  <2> DEFINE job == [event |-> old.event, rule |-> old.rule + 1, action |-> 1,
                     tries |-> 0, status |-> "matching"]
  <2>1. job = [old EXCEPT !.rule = @ + 1] /\ job \in Jobs
    BY <1>1 DEF Jobs, JobStatuses
  <2>2. jobs' = [jobs EXCEPT ![j] = job]
    <3>1. ~(old.rule > Len(Rules))
      BY <1>1, <1>4
    <3>2. QED
      BY <1>4, <2>1, <3>1 DEF Match, Matched
  <2>3. PlaceOK(job)
    BY <1>1, <1>4 DEF PlaceOK, Busy
  <2>4. Reached(old.event, <<old.rule + 1, 1>>) = Reached(old.event, <<old.rule, 1>>)
    BY <1>4, SkipRule
  <2>5. Reached(job.event, Cursor(job)) = Reached(old.event, Cursor(old))
    BY <1>1, <2>4 DEF Cursor
  <2>6. QED
    BY <2>1, <2>2, <2>3, <2>5, ChangeJob DEF Match
<1>5. QED
  BY <1>1, <1>2, <1>3, <1>4

LEMMA SetTries ==
    ASSUME NEW job \in Jobs, NEW tries \in Nat, NEW status \in JobStatuses,
           NEW next, next = [job EXCEPT !.tries = tries, !.status = status]
    PROVE  next = [event |-> job.event, rule |-> job.rule, action |-> job.action,
                   tries |-> tries, status |-> status]
BY DEF Jobs

LEMMA SameTries ==
    ASSUME jobs \in Seq(Jobs), NEW j \in 1..Len(jobs), NEW status \in JobStatuses
    PROVE  [jobs EXCEPT ![j].status = status] =
              [jobs EXCEPT ![j] = [@ EXCEPT !.tries = jobs[j].tries,
                                            !.status = status]]
<1>1. jobs[j] \in Jobs
  BY ElementOfSeq
<1>2. ASSUME NEW job \in Jobs, NEW one, NEW both,
             one = [job EXCEPT !.status = status],
             both = [job EXCEPT !.tries = job.tries, !.status = status]
      PROVE  one = both
  BY <1>2 DEF Jobs
<1>3. [jobs[j] EXCEPT !.status = status] =
         [jobs[j] EXCEPT !.tries = jobs[j].tries, !.status = status]
  BY <1>1, <1>2
<1>4. QED
  BY <1>3

\* A busy job that changes to another busy status at the same action.
LEMMA StatusJobs ==
    ASSUME JobsInv, NEW j \in 1..Len(jobs), jobs[j].status \in {"trying", "waiting"},
           NEW status \in Busy, NEW tries \in Nat,
           tries < Total(jobs[j].rule, jobs[j].action),
           status = "waiting" => tries > 0,
           jobs' = [jobs EXCEPT ![j] = [@ EXCEPT !.tries = tries, !.status = status]],
           UNCHANGED <<results, ctxDone, ended>>
    PROVE  JobsInv'
<1> DEFINE old == jobs[j]
           job == [event |-> old.event, rule |-> old.rule, action |-> old.action,
                   tries |-> tries, status |-> status]
<1>1. old \in Jobs /\ PlaceOK(old)
  BY ElementOfSeq DEF JobsInv
<1>2. job = [old EXCEPT !.tries = tries, !.status = status] /\ job \in Jobs
  <2>1. old \in [event : Events, rule : Nat, action : Nat, tries : Nat,
                  status : JobStatuses]
    BY <1>1 DEF Jobs
  <2>2. status \in JobStatuses
    BY DEF JobStatuses, Busy
  <2>3. job \in Jobs
    BY <2>1, <2>2 DEF Jobs
  <2>4. job = [old EXCEPT !.tries = tries, !.status = status]
    BY <1>1, <2>2, SetTries
  <2>5. QED
    BY <2>3, <2>4
<1>3. jobs' = [jobs EXCEPT ![j] = job]
  BY <1>2
<1>4. PlaceOK(job) /\ Cursor(job) = Cursor(old)
  BY <1>1 DEF PlaceOK, Busy, Cursor
<1>5. QED
  BY <1>2, <1>3, <1>4, ChangeJob

\* The attempts of a job's action, as retry.Retry counts them.
LEMMA AttemptFacts ==
    ASSUME JobsInv, NEW j \in 1..Len(jobs), jobs[j].status \in {"trying", "waiting"}
    PROVE  /\ jobs[j] \in Jobs /\ jobs[j].tries \in Nat
           /\ jobs[j].tries < Total(jobs[j].rule, jobs[j].action)
           /\ Total(jobs[j].rule, jobs[j].action) \in Nat
           /\ RetriesLeft(j) <=>
                 jobs[j].tries + 1 < Total(jobs[j].rule, jobs[j].action)
<1>1. jobs[j] \in Jobs /\ PlaceOK(jobs[j])
  BY ElementOfSeq DEF JobsInv
<1>2. /\ jobs[j].rule \in DOMAIN Rules
      /\ jobs[j].action \in DOMAIN Rules[jobs[j].rule].actions
      /\ jobs[j].tries < Total(jobs[j].rule, jobs[j].action)
      /\ jobs[j].tries \in Nat
  BY <1>1 DEF PlaceOK, Busy, Jobs
<1>3. Attempts(j) \in Int /\ Total(jobs[j].rule, jobs[j].action) \in Nat
  BY <1>2, RuleFacts, ElementOfSeq DEF Attempts
<1>4. QED
  BY <1>1, <1>2, <1>3 DEF RetriesLeft, Wrapped, Attempts, Total

LEMMA StepJobs ==
    ASSUME JobsInv, NEW j \in 1..Len(jobs), Step(j)
    PROVE  JobsInv'
<1> DEFINE tries == jobs[j].tries
           total == Total(jobs[j].rule, jobs[j].action)
<1>1. CASE Match(j)
  BY <1>1, MatchJobs DEF Match, Step, Succeed, Fail, TryAgain, Abandon, Panic, Return
<1>2. CASE jobs[j].status \in {"trying", "waiting"}
  <2>1. /\ tries \in Nat /\ total \in Nat /\ tries < total
        /\ RetriesLeft(j) <=> tries + 1 < total
        /\ jobs[j] \in Jobs /\ jobs[j].status \in Busy
    BY <1>2, AttemptFacts DEF Busy
  <2>2. CASE Succeed(j)
    <3>1. Return(j, tries + 1, TRUE)
      BY <2>2 DEF Succeed
    <3>2. UNCHANGED <<ctxDone, ended>>
      BY <3>1 DEF Return
    <3>3. tries + 1 \in Nat /\ tries + 1 <= total
      BY <2>1
    <3>4. ~TRUE /\ ~ctxDone => tries + 1 = total
      OBVIOUS
    <3>5. tries + 1 = 0 => ctxDone /\ total > 1
      BY <2>1
    <3>6. QED
      BY <2>1, <3>1, <3>2, <3>3, <3>4, <3>5, ReturnJob, Zenon
  <2>3. CASE Fail(j) /\ RetriesLeft(j)
    <3>1. /\ jobs' = [jobs EXCEPT ![j] = [@ EXCEPT !.tries = tries + 1,
                                                   !.status = "waiting"]]
          /\ UNCHANGED <<results, ctxDone, ended>>
      BY <2>3 DEF Fail
    <3>2. "waiting" \in Busy
      BY DEF Busy
    <3>3. tries + 1 \in Nat /\ tries + 1 < total /\ tries + 1 > 0
      BY <2>1, <2>3
    <3>4. QED
      BY <1>2, <3>1, <3>2, <3>3, StatusJobs, Zenon
  <2>4. CASE Fail(j) /\ ~RetriesLeft(j)
    <3>1. Return(j, tries + 1, FALSE)
      BY <2>4 DEF Fail
    <3>2. UNCHANGED <<ctxDone, ended>>
      BY <3>1 DEF Return
    <3>3. tries + 1 \in Nat /\ tries + 1 <= total /\ tries + 1 = total
      BY <2>1, <2>4
    <3>4. ~FALSE /\ ~ctxDone => tries + 1 = total
      BY <3>3
    <3>5. tries + 1 = 0 => ctxDone /\ total > 1
      BY <2>1
    <3>6. QED
      BY <2>1, <3>1, <3>2, <3>3, <3>4, <3>5, ReturnJob, Zenon
  <2>5. CASE TryAgain(j)
    <3>1. /\ jobs' = [jobs EXCEPT ![j] = [@ EXCEPT !.tries = tries,
                                                   !.status = "trying"]]
          /\ UNCHANGED <<results, ctxDone, ended>>
      BY <2>1, <2>5, SameTries DEF TryAgain
    <3>2. "trying" \in Busy
      BY DEF Busy
    <3>3. QED
      BY <1>2, <2>1, <3>1, <3>2, StatusJobs
  <2>6. CASE Abandon(j)
    <3>1. Return(j, tries, FALSE) /\ ctxDone
      BY <2>6 DEF Abandon
    <3>2. UNCHANGED <<ctxDone, ended>>
      BY <3>1 DEF Return
    <3>3. tries \in Nat /\ tries <= total
      BY <2>1
    <3>4. ~FALSE /\ ~ctxDone => tries = total
      BY <3>1
    <3>5. tries = 0 => ctxDone /\ total > 1
      <4>1. tries = 0 => Wrapped(j)
        <5>1. PlaceOK(jobs[j])
          BY DEF JobsInv
        <5>2. jobs[j].status = "waiting" => tries > 0
          BY <5>1 DEF PlaceOK, Busy
        <5>3. QED
          BY <2>1, <2>6, <5>2 DEF Abandon
      <4>2. QED
        BY <2>1, <2>6, <4>1, RuleFacts DEF Abandon, Wrapped, Attempts, Total
    <3>6. QED
      BY <2>1, <3>1, <3>2, <3>3, <3>4, <3>5, ReturnJob, Zenon
  <2>7. CASE Panic(j)
    <3>1. /\ jobs' = [jobs EXCEPT ![j] = [@ EXCEPT !.tries = tries,
                                                   !.status = "panicked"]]
          /\ UNCHANGED <<results, ctxDone, ended>>
      BY <2>1, <2>7, SameTries DEF Panic
    <3>2. "panicked" \in Busy
      BY DEF Busy
    <3>3. QED
      BY <1>2, <2>1, <3>1, <3>2, StatusJobs
  <2>8. QED
    BY <1>2, <2>2, <2>3, <2>4, <2>5, <2>6, <2>7 DEF Step, Match
<1>3. QED
  BY <1>1, <1>2 DEF Step, Succeed, Fail, TryAgain, Abandon, Panic

LEMMA JobsInvariant == Init /\ [][Next]_vars => []JobsInv
<1>1. Init => JobsInv
  <2> SUFFICES ASSUME Init PROVE JobsInv
    OBVIOUS
  <2>1. /\ jobs = << >> /\ results = << >> /\ Len(jobs) = 0 /\ Len(results) = 0
        /\ ctxDone \in BOOLEAN /\ ended \in BOOLEAN
    BY DEF Init
  <2>2. << >> \in Seq(Jobs) /\ << >> \in Seq(Seq(Results))
    BY EmptySeq
  <2>3. QED
    BY <2>1, <2>2, MaxJobsAssumption DEF JobsInv
<1>2. JobsInv /\ [Next]_vars => JobsInv'
  <2> SUFFICES ASSUME JobsInv, [Next]_vars PROVE JobsInv'
    OBVIOUS
  <2>1. CASE \E event \in Events : Publish(event)
    BY <2>1, PublishJobs
  <2>2. CASE \E j \in JobIds : Step(j)
    <3>1. JobIds = 1..Len(jobs)
      BY DEF JobIds, JobsInv
    <3>2. QED
      BY <2>2, <3>1, StepJobs
  <2>3. CASE Cancel
    BY <2>3 DEF Cancel, JobsInv, ResultOK
  <2>4. CASE ProcessEnds
    BY <2>4 DEF ProcessEnds, JobsInv
  <2>5. CASE UNCHANGED vars
    BY <2>5 DEF vars, JobsInv
  <2>6. QED
    BY <2>1, <2>2, <2>3, <2>4, <2>5 DEF Next
<1>3. QED
  BY <1>1, <1>2, PTL

-----------------------------------------------------------------------------
(* What a step leaves behind, for modules that compose Dispatch.           *)

\* At the end of the loops every call the event asks for has returned.
LEMMA DoneReturned ==
    ASSUME JobsInv, NEW j \in 1..Len(jobs), jobs[j].status = "done"
    PROVE  Returned(j) = Expected(jobs[j].event)
<1>1. /\ PlaceOK(jobs[j]) /\ LogOK(jobs[j], results[j])
      /\ jobs[j].rule = Len(Rules) + 1 /\ Len(Rules) \in Nat
  BY RuleFacts DEF JobsInv, PlaceOK
<1>2. \A c \in Expected(jobs[j].event) : Before(c, Cursor(jobs[j]))
  BY <1>1, ExpectedMember DEF Before, Cursor
<1> QED BY <1>1, <1>2 DEF LogOK, Returned, Reached

\* A job returns from a call at most once.
LEMMA ReturnIsNew ==
    ASSUME JobsInv, NEW j \in 1..Len(jobs), NEW tries \in Nat, NEW ok \in BOOLEAN,
           Return(j, tries, ok)
    PROVE  \E result \in Results :
               /\ results' = [results EXCEPT ![j] = Append(results[j], result)]
               /\ Call(result) \notin Returned(j)
<1> DEFINE result == [rule |-> jobs[j].rule, action |-> jobs[j].action,
                      tries |-> tries, ok |-> ok]
<1>1. jobs[j] \in Jobs /\ LogOK(jobs[j], results[j])
  BY ElementOfSeq DEF JobsInv
<1>2. result \in Results
  BY <1>1 DEF Jobs, Results
<1>3. results' = [results EXCEPT ![j] = Append(results[j], result)]
  BY DEF Return
<1>4. Call(result) = Cursor(jobs[j]) /\ ~Before(Cursor(jobs[j]), Cursor(jobs[j]))
  BY <1>1 DEF Call, Cursor, Before, Jobs
<1>5. Call(result) \notin Returned(j)
  BY <1>1, <1>4 DEF LogOK, Returned, Reached
<1> QED BY <1>2, <1>3, <1>5

LEMMA StepLeaves ==
    ASSUME JobsInv, NEW j \in 1..Len(jobs), Step(j)
    PROVE  /\ Len(jobs') = Len(jobs)
           /\ \A k \in 1..Len(jobs) : jobs'[k].event = jobs[k].event
           /\ actionFailures' \in {actionFailures, actionFailures + 1}
           /\ UNCHANGED ctxDone
           /\ \/ results' = results
              \/ \E result \in Results :
                    /\ results' = [results EXCEPT ![j] = Append(results[j], result)]
                    /\ Call(result) \notin Returned(j)
<1> DEFINE Changed == \E job : /\ jobs' = [jobs EXCEPT ![j] = job]
                               /\ job.event = jobs[j].event
           SameLogs == results' = results /\ actionFailures' = actionFailures
           NewResult == \E result \in Results :
                    /\ results' = [results EXCEPT ![j] = Append(results[j], result)]
                    /\ Call(result) \notin Returned(j)
<1>1. jobs \in Seq(Jobs) /\ jobs[j] \in Jobs
  BY ElementOfSeq DEF JobsInv
<1>2. ASSUME Changed
      PROVE  /\ Len(jobs') = Len(jobs)
             /\ \A k \in 1..Len(jobs) : jobs'[k].event = jobs[k].event
  BY <1>1, <1>2
<1>3. ASSUME NEW tries \in Nat, NEW ok \in BOOLEAN, Return(j, tries, ok)
      PROVE  /\ Changed /\ NewResult /\ UNCHANGED ctxDone
             /\ actionFailures' \in {actionFailures, actionFailures + 1}
  <2>1. Advance(jobs[j]).event = jobs[j].event
    BY <1>1 DEF Advance, Jobs
  <2>2. NewResult
    BY <1>3, ReturnIsNew
  <2> QED BY <1>3, <2>1, <2>2 DEF Return
<1>4. ASSUME NEW status, jobs' = [jobs EXCEPT ![j].status = status] \/
                         jobs' = [jobs EXCEPT ![j].tries = @ + 1, ![j].status = status]
      PROVE  Changed
  <2>1. CASE jobs' = [jobs EXCEPT ![j].status = status]
    <3>1. [jobs[j] EXCEPT !.status = status].event = jobs[j].event
      BY <1>1 DEF Jobs
    <3> QED BY <2>1, <3>1
  <2>2. CASE jobs' = [jobs EXCEPT ![j].tries = @ + 1, ![j].status = status]
    <3>1. [jobs[j] EXCEPT !.tries = jobs[j].tries + 1, !.status = status].event
             = jobs[j].event
      BY <1>1 DEF Jobs
    <3> QED BY <1>1, <2>2, <3>1
  <2> QED BY <1>4, <2>1, <2>2
<1>5. CASE Match(j)
  <2>1. Matched(jobs[j]).event = jobs[j].event
    BY <1>1 DEF Matched, Jobs
  <2>2. Changed /\ SameLogs /\ UNCHANGED ctxDone
    BY <1>5, <2>1 DEF Match
  <2> QED BY <1>2, <2>2
<1>6. CASE jobs[j].status \in {"trying", "waiting"}
  <2>1. jobs[j].tries \in Nat
    BY <1>1 DEF Jobs
  <2>2. CASE \E tries \in Nat, ok \in BOOLEAN : Return(j, tries, ok)
    BY <1>2, <1>3, <2>2
  <2>3. CASE Succeed(j) \/ (Fail(j) /\ ~RetriesLeft(j)) \/ Abandon(j)
    <3>1. Return(j, jobs[j].tries + 1, TRUE) \/ Return(j, jobs[j].tries + 1, FALSE)
             \/ Return(j, jobs[j].tries, FALSE)
      BY <2>3 DEF Succeed, Fail, Abandon
    <3>2. jobs[j].tries + 1 \in Nat
      BY <2>1
    <3> QED BY <2>1, <2>2, <3>1, <3>2
  <2>4. CASE Fail(j) /\ RetriesLeft(j)
    BY <1>2, <1>4, <2>4 DEF Fail
  <2>5. CASE TryAgain(j)
    BY <1>2, <1>4, <2>5 DEF TryAgain
  <2>6. CASE Panic(j)
    BY <1>2, <1>4, <2>6 DEF Panic
  <2> QED BY <1>6, <2>3, <2>4, <2>5, <2>6 DEF Step, Match
<1> QED BY <1>5, <1>6 DEF Step, Succeed, Fail, TryAgain, Abandon, Panic

-----------------------------------------------------------------------------
(* The failure counter.                                                    *)

LEMMA FailureMember ==
    ASSUME jobs \in Seq(Jobs)
    PROVE  \A x : x \in Failures <=>
              \E j \in 1..Len(jobs) : \E i \in DOMAIN results[j] :
                 x = <<j, i>> /\ ~results[j][i].ok
BY DEF Failures, JobIds

\* A return adds its failure, if it is one.
LEMMA ReturnFailures ==
    ASSUME JobsInv, JobsInv', NEW j \in 1..Len(jobs), NEW tries \in Nat,
           NEW ok \in BOOLEAN,
           Return(j, tries, ok)
    PROVE  LET call == <<j, Len(results[j]) + 1>>
           IN  /\ Failures' = IF ok THEN Failures ELSE Failures \union {call}
               /\ call \notin Failures
<1> DEFINE n == Len(results[j])
           result == [rule |-> jobs[j].rule, action |-> jobs[j].action,
                      tries |-> tries, ok |-> ok]
           call == <<j, n + 1>>
<1>1. /\ results \in Seq(Seq(Results)) /\ Len(results) = Len(jobs)
      /\ DOMAIN results = 1..Len(jobs) /\ Len(jobs) \in Nat
      /\ jobs \in Seq(Jobs)
  BY LenProperties DEF JobsInv
<1>2. \A k \in 1..Len(jobs) : /\ results[k] \in Seq(Results)
                              /\ DOMAIN results[k] = 1..Len(results[k])
                              /\ Len(results[k]) \in Nat
  BY <1>1, ElementOfSeq, LenProperties
<1>3. /\ jobs' \in Seq(Jobs) /\ Len(jobs') = Len(jobs)
      /\ \A k \in 1..Len(jobs) :
            results'[k] = IF k = j THEN Append(results[j], result) ELSE results[k]
  <2>1. Len(jobs') = Len(jobs) /\ jobs' \in Seq(Jobs)
    BY <1>1 DEF Return, JobsInv
  <2>2. results' = [results EXCEPT ![j] = Append(results[j], result)]
    BY DEF Return
  <2>3. QED
    BY <1>1, <2>1, <2>2
<1>4. /\ DOMAIN results'[j] = 1..(n + 1)
      /\ \A i \in 1..n : results'[j][i] = results[j][i]
      /\ results'[j][n + 1] = result
      /\ n \in Nat
  <2>1. result \in Results
    <3>1. jobs[j] \in Jobs
      BY <1>1, ElementOfSeq
    <3>2. QED
      BY <3>1 DEF Jobs, Results
  <2>2. result.ok = ok /\ results[j] \in Seq(Results)
    BY <1>2
  <2> DEFINE log == Append(results[j], result)
  <2>3. results'[j] = log
    BY <1>3
  <2> HIDE DEF result
  <2>4. /\ log \in Seq(Results) /\ Len(log) = n + 1
        /\ \A i \in 1..n : log[i] = results[j][i]
        /\ log[n + 1] = result
    BY <2>1, <2>2, AppendProperties
  <2> HIDE DEF log
  <2>5. DOMAIN log = 1..(n + 1)
    BY <2>4, LenProperties
  <2>6. QED
    BY <1>2, <2>3, <2>4, <2>5
<1>5. result.ok = ok
  OBVIOUS
<1> HIDE DEF n, result
<1>6. \A x : x \in Failures' <=>
         \E k \in 1..Len(jobs) : \E i \in DOMAIN results'[k] :
            x = <<k, i>> /\ ~results'[k][i].ok
  BY <1>3 DEF Failures, JobIds
<1>7. call \notin Failures
  BY <1>1, <1>2, <1>4, FailureMember DEF n
<1>8. ASSUME NEW x
      PROVE  x \in Failures' <=> x \in Failures \/ (~ok /\ x = call)
  <2>1. ASSUME x \in Failures' PROVE x \in Failures \/ (~ok /\ x = call)
    <3>1. PICK k \in 1..Len(jobs) :
             \E i \in DOMAIN results'[k] : x = <<k, i>> /\ ~results'[k][i].ok
      BY <1>6, <2>1
    <3>2. PICK i \in DOMAIN results'[k] : x = <<k, i>> /\ ~results'[k][i].ok
      BY <3>1
    <3>3. CASE k # j
      BY <1>1, <1>3, <3>2, <3>3, FailureMember
    <3>4. CASE k = j /\ i \in 1..n
      BY <1>1, <1>2, <1>4, <3>2, <3>4, FailureMember DEF n
    <3>5. CASE k = j /\ i = n + 1
      BY <1>4, <1>5, <3>2, <3>5
    <3>6. QED
      BY <1>4, <3>2, <3>3, <3>4, <3>5
  <2>2. ASSUME x \in Failures PROVE x \in Failures'
    <3>1. PICK k \in 1..Len(jobs) :
             \E i \in DOMAIN results[k] : x = <<k, i>> /\ ~results[k][i].ok
      BY <1>1, <2>2, FailureMember
    <3>2. PICK i \in DOMAIN results[k] : x = <<k, i>> /\ ~results[k][i].ok
      BY <3>1
    <3>3. CASE k # j
      BY <1>3, <1>6, <3>2, <3>3
    <3>4. CASE k = j
      <4>1. i \in 1..n /\ i \in DOMAIN results'[j]
        BY <1>2, <1>4, <3>2, <3>4 DEF n
      <4>2. QED
        BY <1>4, <1>6, <3>2, <3>4, <4>1
    <3>5. QED
      BY <3>3, <3>4
  <2>3. ASSUME ~ok, x = call PROVE x \in Failures'
    BY <1>4, <1>5, <1>6, <2>3
  <2>4. QED
    BY <2>1, <2>2, <2>3
<1>9. Failures' = IF ok THEN Failures ELSE Failures \union {call}
  BY <1>8
<1>10. QED
  BY <1>7, <1>9 DEF n

LEMMA ReturnCount ==
    ASSUME JobsInv, JobsInv', CountInv, NEW j \in 1..Len(jobs), NEW tries \in Nat,
           NEW ok \in BOOLEAN, Return(j, tries, ok)
    PROVE  CountInv'
<1> DEFINE call == <<j, Len(results[j]) + 1>>
<1>1. /\ Failures' = IF ok THEN Failures ELSE Failures \union {call}
      /\ call \notin Failures
  BY ReturnFailures
<1>2. actionFailures' = IF ok THEN actionFailures ELSE actionFailures + 1
  BY DEF Return
<1> HIDE DEF call
<1>3. CASE ok
  BY <1>1, <1>2, <1>3 DEF CountInv
<1>4. CASE ~ok
  <2>1. /\ IsFiniteSet(Failures \union {call})
        /\ Cardinality(Failures \union {call}) = Cardinality(Failures) + 1
    BY <1>1, FS_AddElement DEF CountInv
  <2>2. Failures' = Failures \union {call} /\ actionFailures' = actionFailures + 1
    BY <1>1, <1>2, <1>4
  <2>3. QED
    BY <2>1, <2>2 DEF CountInv
<1>5. QED
  BY <1>3, <1>4

\* What changes no log leaves the failures as they are.
LEMMA SameFailures ==
    ASSUME JobsInv, JobsInv', CountInv, Len(jobs') = Len(jobs),
           results' = results, actionFailures' = actionFailures
    PROVE  CountInv'
<1>1. JobIds = 1..Len(jobs) /\ JobIds' = 1..Len(jobs)
  BY LenProperties DEF JobIds, JobsInv
<1>2. Failures' = Failures
  BY <1>1 DEF Failures
<1>3. QED
  BY <1>2 DEF CountInv

LEMMA StepCount ==
    ASSUME JobsInv, JobsInv', CountInv, NEW j \in 1..Len(jobs), Step(j)
    PROVE  CountInv'
<1> DEFINE Silent == /\ Len(jobs') = Len(jobs)
                     /\ results' = results /\ actionFailures' = actionFailures
<1>1. jobs \in Seq(Jobs)
  BY DEF JobsInv
<1>2. CASE Match(j)
  <2>1. Silent
    BY <1>1, <1>2 DEF Match
  <2>2. QED
    BY <2>1, SameFailures
<1>3. CASE jobs[j].status \in {"trying", "waiting"}
  <2>1. jobs[j].tries \in Nat
    BY <1>3, AttemptFacts
  <2>2. CASE \E tries \in Nat, ok \in BOOLEAN : Return(j, tries, ok)
    BY <2>2, ReturnCount
  <2>3. CASE Silent
    BY <2>3, SameFailures
  <2>4. CASE Succeed(j)
    <3>1. Return(j, jobs[j].tries + 1, TRUE)
      BY <2>4 DEF Succeed
    <3>2. jobs[j].tries + 1 \in Nat
      BY <2>1
    <3>3. QED
      BY <2>2, <3>1, <3>2
  <2>5. CASE Fail(j) /\ RetriesLeft(j)
    <3>1. Silent
      BY <1>1, <2>5 DEF Fail
    <3>2. QED
      BY <2>3, <3>1
  <2>6. CASE Fail(j) /\ ~RetriesLeft(j)
    <3>1. Return(j, jobs[j].tries + 1, FALSE)
      BY <2>6 DEF Fail
    <3>2. jobs[j].tries + 1 \in Nat
      BY <2>1
    <3>3. QED
      BY <2>2, <3>1, <3>2
  <2>7. CASE TryAgain(j)
    <3>1. Silent
      BY <1>1, <2>7 DEF TryAgain
    <3>2. QED
      BY <2>3, <3>1
  <2>8. CASE Abandon(j)
    <3>1. Return(j, jobs[j].tries, FALSE)
      BY <2>8 DEF Abandon
    <3>2. QED
      BY <2>1, <2>2, <3>1
  <2>9. CASE Panic(j)
    <3>1. Silent
      BY <1>1, <2>9 DEF Panic
    <3>2. QED
      BY <2>3, <3>1
  <2>10. QED
    BY <1>3, <2>4, <2>5, <2>6, <2>7, <2>8, <2>9 DEF Step, Match
<1>4. QED
  BY <1>2, <1>3 DEF Step, Succeed, Fail, TryAgain, Abandon, Panic

LEMMA PublishCount ==
    ASSUME JobsInv, JobsInv', CountInv, NEW event \in Events, Publish(event)
    PROVE  CountInv'
<1> DEFINE n == Len(jobs)
<1>1. /\ jobs \in Seq(Jobs) /\ jobs' \in Seq(Jobs) /\ n \in Nat
      /\ Len(jobs') = n + 1 /\ Len(results) = n /\ results \in Seq(Seq(Results))
  BY LenProperties DEF JobsInv, Publish
<1>2. << >> \in Seq(Results) /\ results' = Append(results, << >>)
  BY EmptySeq DEF Publish
<1>3. /\ \A k \in 1..n : results'[k] = results[k]
      /\ results'[n + 1] = << >>
  BY <1>1, <1>2, AppendProperties
<1>4. \A x : x \in Failures' <=>
         \E k \in 1..(n + 1) : \E i \in DOMAIN results'[k] :
            x = <<k, i>> /\ ~results'[k][i].ok
  BY <1>1 DEF Failures, JobIds
<1>5. ASSUME NEW x PROVE x \in Failures' <=> x \in Failures
  <2>1. DOMAIN results'[n + 1] = {}
    BY <1>3
  <2>2. 1..(n + 1) = 1..n \union {n + 1}
    BY <1>1
  <2>3. \A y : y \in Failures <=>
           \E k \in 1..n : \E i \in DOMAIN results[k] :
              y = <<k, i>> /\ ~results[k][i].ok
    BY <1>1, FailureMember
  <2> HIDE DEF n
  <2>4. QED
    BY <1>3, <1>4, <2>1, <2>2, <2>3
<1>6. Failures' = Failures
  BY <1>5
<1>7. QED
  BY <1>6 DEF CountInv, Publish

\* Without jobs, nothing has failed.
LEMMA NothingCounted ==
    /\ jobs = << >> /\ actionFailures = 0 => CountInv
    /\ jobs' = << >> /\ actionFailures' = 0 => CountInv'
<1>1. /\ jobs = << >> => Failures = {}
      /\ jobs' = << >> => Failures' = {}
  BY DEF Failures, JobIds
<1> QED BY <1>1, FS_EmptySet DEF CountInv

LEMMA CountInvariant == Init /\ [][Next]_vars => []CountInv
<1>1. Init => CountInv
  BY NothingCounted DEF Init
<1>2. JobsInv /\ JobsInv' /\ CountInv /\ [Next]_vars => CountInv'
  <2> SUFFICES ASSUME JobsInv, JobsInv', CountInv, [Next]_vars PROVE CountInv'
    OBVIOUS
  <2>1. CASE \E event \in Events : Publish(event)
    BY <2>1, PublishCount
  <2>2. CASE \E j \in JobIds : Step(j)
    <3>1. JobIds = 1..Len(jobs)
      BY DEF JobIds, JobsInv
    <3>2. QED
      BY <2>2, <3>1, StepCount
  <2>3. CASE Cancel
    BY <2>3, SameFailures DEF Cancel
  <2>4. CASE ProcessEnds
    BY <2>4, SameFailures DEF ProcessEnds
  <2>5. CASE UNCHANGED vars
    BY <2>5, SameFailures DEF vars
  <2>6. QED
    BY <2>1, <2>2, <2>3, <2>4, <2>5 DEF Next
<1>3. QED
  BY <1>1, <1>2, JobsInvariant, PTL

-----------------------------------------------------------------------------
(* The theorems.                                                           *)

LEMMA JobsTyped ==
    ASSUME JobsInv, actionFailures \in Nat
    PROVE  TypeOK
<1>1. ASSUME NEW j \in JobIds, jobs[j].status \in {"trying", "waiting"}
      PROVE  /\ jobs[j].rule \in DOMAIN Rules
             /\ jobs[j].action \in DOMAIN Rules[jobs[j].rule].actions
  BY <1>1 DEF JobIds, JobsInv, PlaceOK, Busy
<1> QED BY <1>1 DEF TypeOK, JobsInv

LEMMA JobsOrdered ==
    ASSUME JobsInv
    PROVE  AllActionsInOrder
<1> SUFFICES ASSUME NEW j \in JobIds
             PROVE  /\ \A i, k \in DOMAIN results[j] :
                           i < k => Before(Call(results[j][i]), Call(results[j][k]))
                    /\ Returned(j) = {c \in Expected(jobs[j].event) :
                              Before(c, <<jobs[j].rule, jobs[j].action>>)}
  BY DEF AllActionsInOrder
<1>1. LogOK(jobs[j], results[j])
  BY DEF JobsInv, JobIds
<1> QED BY <1>1 DEF LogOK, Returned, Reached, Cursor

LEMMA JobsRetried ==
    ASSUME JobsInv
    PROVE  RetriesUsedUp
BY DEF JobsInv, RetriesUsedUp, JobIds, ResultOK, Total

LEMMA AllCounted ==
    ASSUME CountInv
    PROVE  FailuresCounted
BY DEF CountInv, FailuresCounted

LEMMA CountTyped ==
    ASSUME CountInv
    PROVE  actionFailures \in Nat
BY FS_CardinalityType DEF CountInv

\* Type correctness: a job that tries or waits is at an action of the
\* configuration, so that the loops of HandleEvent never run past their ends.
THEOREM DispatchTypeCorrect == Spec => []TypeOK
<1>1. JobsInv /\ CountInv => TypeOK
  BY JobsTyped, CountTyped
<1>2. QED
  BY <1>1, JobsInvariant, CountInvariant, PTL DEF Spec

\* Each job of HandleEvent calls exactly the actions of the rules that match
\* its event, in the order of the configuration, whatever fails on the way.
THEOREM CallsInOrder == Spec => []AllActionsInOrder
<1>1. JobsInv => AllActionsInOrder
  BY JobsOrdered
<1>2. QED
  BY <1>1, JobsInvariant, PTL DEF Spec

\* The counter behind /healthz is the number of action calls that failed, for
\* any number of jobs that count at the same time.
THEOREM EachFailureCounted == Spec => []FailuresCounted
<1>1. CountInv => FailuresCounted
  BY AllCounted
<1>2. QED
  BY <1>1, CountInvariant, PTL DEF Spec

\* No call makes more than its retry_attempts, and without a signal none fails
\* before it has used them up.
THEOREM AttemptsUsedUp == Spec => []RetriesUsedUp
<1>1. JobsInv => RetriesUsedUp
  BY JobsRetried
<1>2. QED
  BY <1>1, JobsInvariant, PTL DEF Spec

=============================================================================
