---------------------------- MODULE Bridge_proofs ----------------------------
(***************************************************************************)
(* Theorems about Bridge: the composition keeps what is proved of the      *)
(* poller alone, main's shutdown keeps bus and file together, and for any  *)
(* rules, any interleaving and any number of processes no announcement     *)
(* lacks its actions without a reason, nor gets them twice.                *)
(***************************************************************************)
EXTENDS Bridge, Poller_proofs, SequenceTheorems

\* What is proved of the rules engine, for the engine of the bridge.
DP == INSTANCE Dispatch_proofs WITH NoName <- NoKid, ended <- phase = "down"

LEMMA StepIsPollerStep == BridgeNext => [Next]_vars
<1> SUFFICES ASSUME BridgeNext PROVE [Next]_vars
  OBVIOUS
<1>1. CASE BridgePollStep
  <2>1. CASE (BeginPoll \/ AbortPoll \/ UpdateMemory \/ FinishPoll) /\ UNCHANGED bridgeVars
    BY <2>1 DEF Next, PollStep
  <2>2. CASE BridgeDetection
    <3>1. PICK chores \in ChoreLists \union {Failed},
               rewards \in RewardLists \union {Failed},
               categories \in (SUBSET Kids) \union {Failed} : Detect(chores, rewards, categories)
      BY <2>2 DEF BridgeDetection, BridgeDetect
    <3>2. Detection
      BY <3>1 DEF Detection
    <3> QED BY <3>2 DEF Next, PollStep
  <2>3. CASE \E e \in toPublish : BridgePublish(e)
    BY <2>3 DEF BridgePublish, Next, PollStep
  <2>4. CASE BridgeSave
    BY <2>4 DEF BridgeSave, Next, PollStep
  <2> QED BY <1>1, <2>1, <2>2, <2>3, <2>4 DEF BridgePollStep
<1>2. CASE BridgeExit
  BY <1>2 DEF BridgeExit, Next
<1>3. CASE \E j \in D!JobIds : HandlerStep(j)
  BY <1>3 DEF HandlerStep
<1>4. CASE MainStep
  <2>1. CASE BeginShutdown \/ StopPoller
    BY <2>1 DEF BeginShutdown, StopPoller
  <2>2. CASE Return
    BY <2>2 DEF Return, BridgeEnds, Next, Environment
  <2> QED BY <1>4, <2>1, <2>2 DEF MainStep
<1>5. CASE BridgeEnvironment
  BY <1>5 DEF BridgeEnvironment, BridgeStart, BridgeCancel, Crash, BridgeEnds,
              Next, Environment
<1> QED BY <1>1, <1>2, <1>3, <1>4, <1>5 DEF BridgeNext

\* Whatever the rules engine and main do in between, the poller of the bridge
\* behaves as Poller says, so that every theorem about Poller holds of it.
THEOREM PollerWithin == BridgeSpec => Spec
<1>1. BridgeInit => Init
  BY DEF BridgeInit
<1>2. [BridgeNext]_allVars => [Next]_vars
  BY StepIsPollerStep DEF allVars
<1> QED BY <1>1, <1>2, PTL DEF BridgeSpec, Spec

-----------------------------------------------------------------------------

\* Between saves a faultless process has in the file what it has in memory.
ShutdownInv ==
    /\ mainPhase = "draining" => phase = "exited"
    /\ faultless => lossless
    /\ faultless /\ phase \notin {"down", "saving"} => mem = disk

LEMMA ShutdownInvPreserved == ShutdownInv /\ [BridgeNext]_allVars => ShutdownInv'
<1> SUFFICES ASSUME ShutdownInv, [BridgeNext]_allVars PROVE ShutdownInv'
  OBVIOUS
<1> USE DEF ShutdownInv
<1>1. CASE (BeginPoll \/ AbortPoll \/ UpdateMemory \/ FinishPoll) /\ UNCHANGED bridgeVars
  BY <1>1 DEF BeginPoll, AbortPoll, UpdateMemory, FinishPoll, bridgeVars, storeVars,
              historyVars
<1>2. CASE BridgeDetection
  BY <1>2 DEF BridgeDetection, BridgeDetect, Detect, storeVars
<1>3. CASE \E e \in toPublish : BridgePublish(e)
  BY <1>3 DEF BridgePublish, Publish, storeVars
<1>4. CASE BridgeSave
  BY <1>4 DEF BridgeSave, Save, historyVars
<1>5. CASE BridgeExit
  BY <1>5 DEF BridgeExit, Exit, storeVars, historyVars, bridgeVars
<1>6. CASE \E j \in D!JobIds : HandlerStep(j)
  BY <1>6 DEF HandlerStep, vars, storeVars, historyVars
<1>7. CASE BeginShutdown
  BY <1>7 DEF BeginShutdown, vars, storeVars, historyVars
<1>8. CASE StopPoller
  BY <1>8 DEF StopPoller, vars, storeVars, historyVars
<1>9. CASE Return
  BY <1>9 DEF Return, BridgeEnds, ProcessEnds, NoJobs, SafePoint
<1>10. CASE BridgeStart
  BY <1>10 DEF BridgeStart, Start, Load
<1>11. CASE BridgeCancel
  BY <1>11 DEF BridgeCancel, Cancel, bridgeVars, storeVars, historyVars
<1>12. CASE Crash
  BY <1>12 DEF Crash, BridgeEnds, ProcessEnds, NoJobs
<1>13. CASE (SyncerSave \/ Midnight) /\ UNCHANGED bridgeVars
  BY <1>13 DEF SyncerSave, Midnight, bridgeVars, storeVars, historyVars
<1>14. CASE UNCHANGED allVars
  BY <1>14 DEF allVars, vars, storeVars, historyVars, bridgeVars
<1> QED
  BY <1>1, <1>2, <1>3, <1>4, <1>5, <1>6, <1>7, <1>8, <1>9, <1>10, <1>11, <1>12, <1>13,
     <1>14 DEF BridgeNext, BridgePollStep, MainStep, BridgeEnvironment

\* A bridge that is stopped by signals only, and whose file can be read and
\* written, never loses an event between the bus and the file.
THEOREM OrderlyStopsLoseNothing == BridgeSpec => []OrderlyIsLossless
<1>1. BridgeInit => ShutdownInv
  BY DEF BridgeInit, Init, ShutdownInv
<1>2. ShutdownInv => OrderlyIsLossless
  BY DEF ShutdownInv, OrderlyIsLossless
<1> QED BY <1>1, <1>2, ShutdownInvPreserved, PTL DEF BridgeSpec

-----------------------------------------------------------------------------
(* The rules engine of the bridge is that of Dispatch.                     *)

LEMMA EngineAssumptions ==
    DP!NameAssumption /\ DP!MaxJobsAssumption /\ DP!RulesAssumption
BY BridgeAssumption, KidAssumption
   DEF DP!NameAssumption, DP!MaxJobsAssumption, DP!RulesAssumption,
       DP!EventTypes, DP!Filters, DP!FieldNames, DP!ChoreTypes,
       D!EventTypes, D!Filters, D!FieldNames, D!ChoreTypes

LEMMA SameEvents ==
    /\ D!Events = DP!Events
    /\ \A event : D!Expected(event) = DP!Expected(event)
BY DEF D!Events, DP!Events, D!EventTypes, DP!EventTypes, D!ChoreTypes, DP!ChoreTypes,
       D!Expected, DP!Expected, D!Matches, DP!Matches, D!MatchFilters,
       DP!MatchFilters, D!Data, DP!Data

LEMMA SameType == DP!TypeOK => D!TypeOK
BY DEF D!TypeOK, DP!TypeOK, D!Jobs, DP!Jobs, D!JobIds, DP!JobIds, D!Results,
       DP!Results, D!JobStatuses, DP!JobStatuses, D!Events, DP!Events, D!EventTypes,
       DP!EventTypes, D!ChoreTypes, DP!ChoreTypes

LEMMA SameProperties ==
    /\ DP!AllActionsInOrder => D!AllActionsInOrder
    /\ DP!FailuresCounted => D!FailuresCounted
    /\ DP!RetriesUsedUp => D!RetriesUsedUp
<1>1. /\ D!JobIds = DP!JobIds
      /\ \A j : D!Returned(j) = DP!Returned(j)
      /\ \A r : D!Call(r) = DP!Call(r)
      /\ \A c, d : D!Before(c, d) <=> DP!Before(c, d)
  BY DEF D!JobIds, DP!JobIds, D!Returned, DP!Returned, D!Call, DP!Call, D!Before,
         DP!Before
<1>2. DP!AllActionsInOrder => D!AllActionsInOrder
  BY <1>1, SameEvents DEF D!AllActionsInOrder, DP!AllActionsInOrder
<1>3. DP!FailuresCounted => D!FailuresCounted
  <2>1. D!Failures = DP!Failures
    BY <1>1 DEF D!Failures, DP!Failures
  <2>2. \A S : D!Cardinality(S) = DP!Cardinality(S)
    BY DEF D!Cardinality, DP!Cardinality
  <2> QED BY <2>1, <2>2 DEF D!FailuresCounted, DP!FailuresCounted
<1>4. DP!RetriesUsedUp => D!RetriesUsedUp
  BY <1>1 DEF D!RetriesUsedUp, DP!RetriesUsedUp
<1> QED BY <1>2, <1>3, <1>4

LEMMA SamePublish == \A event : D!Publish(event) => DP!Publish(event)
BY DEF D!Publish, DP!Publish

LEMMA SameStep == \A j : D!Step(j) => DP!Step(j)
BY DEF D!Step, DP!Step, D!Match, DP!Match, D!Matched, DP!Matched, D!Matches,
       DP!Matches, D!MatchFilters, DP!MatchFilters, D!Data, DP!Data, D!ChoreTypes,
       DP!ChoreTypes, D!Succeed, DP!Succeed, D!Fail, DP!Fail, D!TryAgain, DP!TryAgain,
       D!Abandon, DP!Abandon, D!Panic, DP!Panic, D!Return, DP!Return, D!RetriesLeft,
       DP!RetriesLeft, D!Wrapped, DP!Wrapped, D!Attempts, DP!Attempts, D!Advance,
       DP!Advance

-----------------------------------------------------------------------------
(* The invariant of the composition.                                       *)

\* Each process has jobs of its own; without a process there are none.
EngineInv ==
    /\ DP!JobsInv
    /\ DP!CountInv
    /\ phase = "down" => jobs = << >>

\* The names known are those of the last list, and so are those of the events
\* on their way: no list comes between detection and publication.
NameInv ==
    /\ listed = childNames
    /\ phase = "down" => listed = {}
    /\ \A e \in toPublish :
          /\ e.named => e.kid \in Kids
          /\ Announces(e) => e.kid = e.subject /\ (e.named <=> e.kid \in listed)

Announcing == {j \in 1..Len(jobs) : Announces(jobs[j].event)}

\* A job for an announcement has the key of one.
KeyInv ==
    /\ jobKeys \in Seq(Keys)
    /\ Len(jobKeys) = Len(jobs)
    /\ \A j \in Announcing : jobKeys[j] \in announced

\* The calls of a job that have returned after an attempt.
Attempted(j) ==
    {DP!Call(results[j][i]) :
        i \in {i \in DOMAIN results[j] : results[j][i].tries > 0}}

\* What is owed is asked for by a job that has not attempted it, and after the
\* signal it does not depend on the context.
OwedInv ==
    /\ owed \subseteq Keys \X (Nat \X Nat)
    /\ \A due \in owed :
          /\ ctxDone => ~Retried(due[2])
          /\ \E j \in Announcing : /\ jobKeys[j] = due[1]
                                   /\ due[2] \in DP!Expected(jobs[j].event)
                                   /\ due[2] \notin Attempted(j)

\* While nothing was lost, an announcement has one job, over all processes,
\* and no calls but those of this job.
OnceInv ==
    lossless =>
        /\ \A j, k \in Announcing : jobKeys[j] = jobKeys[k] => j = k
        /\ \A j \in Announcing : \A made \in called :
              made[1] = jobKeys[j] => made[2] \in DP!Returned(j)

DeliveryInv ==
    /\ EngineInv
    /\ NameInv
    /\ KeyInv
    /\ OwedInv
    /\ called \subseteq announced \X (Nat \X Nat)
    /\ OnceInv

LEMMA DeliveryInit == BridgeInit => DeliveryInv
<1> SUFFICES ASSUME BridgeInit PROVE DeliveryInv
  OBVIOUS
<1>1. /\ jobs = << >> /\ results = << >> /\ jobKeys = << >> /\ Len(jobs) = 0
      /\ Len(results) = 0 /\ Announcing = {}
  BY DEF BridgeInit, Announcing
<1>2. /\ << >> \in Seq(DP!Jobs) /\ << >> \in Seq(Seq(DP!Results))
      /\ << >> \in Seq(Keys)
  OBVIOUS
<1>3. DP!JobsInv
  <2>1. 0 <= MaxJobs
    BY BridgeAssumption
  <2>2. ctxDone \in BOOLEAN /\ (phase = "down") \in BOOLEAN
    BY DEF BridgeInit, Init
  <2> QED BY <1>1, <1>2, <2>1, <2>2 DEF DP!JobsInv
<1>4. DP!CountInv
  BY <1>1, EngineAssumptions, DP!NothingCounted DEF BridgeInit
<1> QED BY <1>1, <1>2, <1>3, <1>4 DEF DeliveryInv, EngineInv, NameInv, KeyInv,
           OwedInv, OnceInv, BridgeInit, Init

-----------------------------------------------------------------------------
(* Steps that concern neither the jobs nor what was announced.             *)

LEMMA QuietStep ==
    ASSUME DeliveryInv, NameInv',
           UNCHANGED <<engineVars, jobKeys, called, announced>>,
           owed' \subseteq owed,
           ctxDone' => ctxDone \/ \A due \in owed' : ~Retried(due[2]),
           ctxDone' \in BOOLEAN, ctxDone => ctxDone' \/ phase = "down",
           phase' = "down" => phase = "down",
           lossless' => lossless
    PROVE  DeliveryInv'
<1>1. UNCHANGED <<jobs, actionFailures, results, jobKeys, called, announced>>
  BY DEF engineVars
<1>2. /\ Announcing' = Announcing
      /\ \A j : DP!Returned(j)' = DP!Returned(j) /\ Attempted(j)' = Attempted(j)
  BY <1>1 DEF Announcing, Announces, DP!Returned, DP!Call, Attempted
<1>3. EngineInv'
  <2>1. DP!JobsInv /\ (phase = "down" => jobs = << >>) /\ DP!CountInv'
    <3>1. DP!Failures' = DP!Failures
      BY <1>1 DEF DP!Failures, DP!JobIds
    <3> QED BY <1>1, <3>1 DEF DeliveryInv, EngineInv, DP!CountInv
  <2>2. CASE phase = "down"
    <3>1. Len(jobs) = 0
      BY <2>1, <2>2
    <3> QED BY <1>1, <2>1, <3>1 DEF DP!JobsInv, EngineInv
  <2>3. CASE phase # "down"
    <3>1. \A result : DP!ResultOK(result, ctxDone) => DP!ResultOK(result, ctxDone)'
      BY <1>1, <2>3 DEF DP!ResultOK
    <3>2. \A j : /\ DP!PlaceOK(jobs[j])' <=> DP!PlaceOK(jobs[j])
                 /\ DP!LogOK(jobs[j], results[j])' <=> DP!LogOK(jobs[j], results[j])
      BY <1>1
    <3>3. \A j \in 1..Len(jobs) : \A i \in DOMAIN results[j] :
             DP!ResultOK(results[j][i], ctxDone)'
      BY <1>1, <2>1, <3>1 DEF DP!JobsInv
    <3>4. (phase' = "down") \in BOOLEAN
      OBVIOUS
    <3> QED BY <1>1, <2>1, <2>3, <3>2, <3>3, <3>4 DEF DP!JobsInv, EngineInv
  <2> QED BY <2>2, <2>3
<1>4. KeyInv'
  BY <1>1, <1>2 DEF DeliveryInv, KeyInv
<1>5. OwedInv'
  <2>1. ASSUME NEW due \in owed'
        PROVE  \E j \in Announcing : /\ jobKeys[j] = due[1]
                                     /\ due[2] \in DP!Expected(jobs[j].event)
                                     /\ due[2] \notin Attempted(j)
    BY <2>1 DEF DeliveryInv, OwedInv
  <2>2. \A due : Retried(due[2])' = Retried(due[2])
    BY DEF Retried
  <2>3. \A due \in owed' : ctxDone' => ~Retried(due[2])
    BY DEF DeliveryInv, OwedInv
  <2> QED BY <1>1, <1>2, <2>1, <2>2, <2>3 DEF DeliveryInv, OwedInv
<1>6. OnceInv'
  BY <1>1, <1>2 DEF DeliveryInv, OnceInv
<1> QED BY <1>1, <1>3, <1>4, <1>5, <1>6 DEF DeliveryInv

-----------------------------------------------------------------------------
(* The poller's steps.                                                     *)

\* The names in the events of a poll are those known at its detection.
LEMMA DetectedNames ==
    ASSUME NEW chores \in ChoreLists, NEW rewards \in RewardLists,
           NEW now, NEW names \in SUBSET Kids,
           NEW e \in DetectedEvents(chores, rewards, now, names)
    PROVE  /\ e.named => e.kid \in Kids
           /\ Announces(e) => e.kid = e.subject /\ (e.named <=> e.kid \in names)
<1>1. \A type, subject, kid :
         /\ Event(type, subject, kid, names).type = type
         /\ Event(type, subject, kid, names).subject = subject
         /\ Event(type, subject, kid, names).kid = kid
         /\ Event(type, subject, kid, names).named <=> kid \in names
  BY DEF Event
<1>2. PICK type, subject, kid : /\ e = Event(type, subject, kid, names)
                                /\ type = "chore.all_completed" =>
                                      kid \in Kids /\ subject = kid
  <2>1. CASE \E c \in Completed(chores) :
                e = Event("chore.completed", c, chores[c].assignee, names)
    BY <2>1
  <2>2. CASE \E c \in Uncompleted(chores) :
                e = Event("chore.uncompleted", c, chores[c].assignee, names)
    BY <2>2
  <2>3. CASE \E k \in NewlyAllCompleted(chores, now) :
                e = Event("chore.all_completed", k, k, names)
    BY <2>3 DEF NewlyAllCompleted
  <2>4. CASE \E r \in Redeemed(rewards) :
                e = Event("reward.redeemed", r, rewards[r].category, names)
    BY <2>4
  <2> QED BY <2>1, <2>2, <2>3, <2>4 DEF DetectedEvents, ChoreEvents, RewardEvents
<1> QED BY <1>1, <1>2 DEF Announces

LEMMA NamesDetect ==
    ASSUME TypeOK, NameInv,
           NEW chores \in ChoreLists \union {Failed},
           NEW rewards \in RewardLists \union {Failed},
           NEW categories \in (SUBSET Kids) \union {Failed},
           BridgeDetect(chores, rewards, categories)
    PROVE  NameInv'
<1>1. /\ childNames' = IF categories = Failed THEN childNames ELSE categories
      /\ listed' = IF categories = Failed THEN listed ELSE categories
      /\ toPublish' = DetectedEvents(Listed(chores), Listed(rewards), today, childNames')
  BY DEF BridgeDetect, Detect, SetChildNames
<1>2. childNames' \in SUBSET Kids /\ listed' = childNames'
  BY <1>1 DEF NameInv, TypeOK
<1>3. Listed(chores) \in ChoreLists /\ Listed(rewards) \in RewardLists
  BY ListedTypes
<1>4. \A e : Announces(e)' <=> Announces(e)
  BY DEF Announces
<1>5. ASSUME NEW e \in toPublish'
      PROVE  /\ e.named => e.kid \in Kids
             /\ Announces(e) => e.kid = e.subject /\ (e.named <=> e.kid \in listed')
  BY <1>1, <1>2, <1>3, <1>5, DetectedNames
<1>6. phase' # "down"
  BY DEF BridgeDetect, Detect
<1> QED BY <1>2, <1>4, <1>5, <1>6 DEF NameInv

\* The steps that publish nothing and end nothing.
QuietAction ==
    \/ (BeginPoll \/ AbortPoll \/ UpdateMemory \/ FinishPoll) /\ UNCHANGED bridgeVars
    \/ BridgeDetection
    \/ BridgeSave
    \/ BridgeExit
    \/ BeginShutdown
    \/ StopPoller
    \/ BridgeStart
    \/ BridgeCancel
    \/ (SyncerSave \/ Midnight) /\ UNCHANGED bridgeVars
    \/ UNCHANGED allVars

LEMMA QuietDelivery ==
    ASSUME TypeOK, SafetyInv, DeliveryInv, QuietAction
    PROVE  DeliveryInv'
<1> DEFINE Quiet ==
        /\ UNCHANGED <<engineVars, jobKeys, called, announced>>
        /\ owed' \subseteq owed
        /\ ctxDone' => ctxDone \/ \A due \in owed' : ~Retried(due[2])
        /\ ctxDone' \in BOOLEAN /\ (ctxDone => ctxDone' \/ phase = "down")
        /\ phase' = "down" => phase = "down"
        /\ lossless' => lossless
    SameNames == /\ UNCHANGED <<listed, childNames>> /\ toPublish' \subseteq toPublish
                 /\ phase' = "down" => phase = "down"
<1>0. ctxDone \in BOOLEAN /\ NameInv
  BY DEF TypeOK, DeliveryInv
<1>1. ASSUME SameNames PROVE NameInv'
  BY <1>0, <1>1 DEF NameInv, Announces
<1>2. ASSUME Quiet, SameNames PROVE DeliveryInv'
  BY <1>1, <1>2, QuietStep
<1> HIDE DEF Quiet, SameNames
<1>3. CASE (BeginPoll \/ AbortPoll \/ UpdateMemory \/ FinishPoll) /\ UNCHANGED bridgeVars
  <2>1. Quiet /\ SameNames
    BY <1>0, <1>3 DEF Quiet, SameNames, BeginPoll, AbortPoll, UpdateMemory, FinishPoll,
       bridgeVars, storeVars, historyVars, pollVars, detectorVars, engineVars
  <2> QED BY <1>2, <2>1
<1>4. CASE BridgeDetection
  <2>1. PICK chores \in ChoreLists \union {Failed},
             rewards \in RewardLists \union {Failed},
             categories \in (SUBSET Kids) \union {Failed} : BridgeDetect(chores, rewards, categories)
    BY <1>4 DEF BridgeDetection
  <2>2. NameInv'
    BY <1>0, <2>1, NamesDetect
  <2>3. Quiet
    BY <1>0, <2>1 DEF Quiet, BridgeDetect, Detect
  <2> QED BY <2>2, <2>3, QuietStep DEF Quiet
<1>5. CASE BridgeSave \/ BridgeExit
  <2>1. Quiet /\ SameNames
    BY <1>0, <1>5 DEF Quiet, SameNames, BridgeSave, BridgeExit, Save, Exit, bridgeVars,
       storeVars, historyVars, pollVars, detectorVars, engineVars
  <2> QED BY <1>2, <2>1
<1>6. CASE BeginShutdown \/ StopPoller \/ UNCHANGED allVars
  <2>1. Quiet /\ SameNames
    BY <1>0, <1>6 DEF Quiet, SameNames, BeginShutdown, StopPoller, allVars, vars,
       bridgeVars, historyVars, pollVars, detectorVars, engineVars
  <2> QED BY <1>2, <2>1
<1>7. CASE BridgeStart
  <2>1. Quiet
    BY <1>0, <1>7 DEF Quiet, BridgeStart, Start
  <2>2. toPublish' = {} /\ listed' = {} /\ childNames' = {}
    BY <1>0, <1>7 DEF BridgeStart, Start, ImportState, pollVars, NameInv, SafetyInv, PhaseInv
  <2>3. NameInv'
    BY <2>2 DEF NameInv
  <2> QED BY <2>1, <2>3, QuietStep DEF Quiet
<1>8. CASE BridgeCancel
  <2>1. ctxDone' = TRUE
    BY <1>8 DEF BridgeCancel, Cancel
  <2>2. owed' = {due \in owed : ~Retried(due[2])}
    BY <1>8 DEF BridgeCancel
  <2>3. owed' \subseteq owed /\ \A due \in owed' : ~Retried(due[2])
    BY <2>2
  <2>4. Quiet /\ SameNames
    BY <1>8, <2>1, <2>3, Zenon DEF Quiet, SameNames, BridgeCancel, Cancel,
       historyVars, pollVars, detectorVars, engineVars
  <2> QED BY <1>2, <2>4
<1>9. CASE (SyncerSave \/ Midnight) /\ UNCHANGED bridgeVars
  <2>1. Quiet /\ SameNames
    BY <1>0, <1>9 DEF Quiet, SameNames, SyncerSave, Midnight, bridgeVars, historyVars,
       pollVars, detectorVars, engineVars
  <2> QED BY <1>2, <2>1
<1> QED BY <1>3, <1>4, <1>5, <1>6, <1>7, <1>8, <1>9 DEF QuietAction

-----------------------------------------------------------------------------
(* The bus: a new job.                                                     *)

\* What the bus hands over is an event of the rules engine.
LEMMA EventHanded ==
    ASSUME TypeOK, NameInv, NEW e \in toPublish
    PROVE  /\ [type |-> e.type, kid |-> e.kid, named |-> e.named] \in DP!Events
           /\ e.kid \in Kids \union {NoKid}
           /\ Announces(e) => e.kid \in Kids
<1>1. e \in Events
  BY DEF TypeOK
<1>2. e.type \in EventTypes /\ e.subject \in Subjects(e.type)
  BY <1>1, EventParts
<1>3. e.kid \in Kids \union {NoKid} /\ e.named \in BOOLEAN
  BY <1>1 DEF Events
<1>4. Announces(e) => e.kid \in Kids
  BY <1>2 DEF NameInv, Announces, Subjects
<1>5. e.type = "chore.all_completed" => e.kid \in Kids
  BY <1>4 DEF Announces
<1>6. e.type \in DP!EventTypes
  BY <1>2 DEF EventTypes, DP!EventTypes, DP!ChoreTypes
<1>7. e.named => e.kid \in Kids
  BY DEF NameInv
<1> QED BY <1>3, <1>4, <1>5, <1>6, <1>7 DEF DP!Events

\* The sequences that grow by one.
LEMMA PublishGrows ==
    ASSUME TypeOK, SafetyInv, DeliveryInv, NEW e \in toPublish, BridgePublish(e)
    PROVE  /\ DP!JobsInv' /\ DP!CountInv' /\ Len(jobs') = Len(jobs) + 1
           /\ jobs'[Len(jobs) + 1].event = [type |-> e.type, kid |-> e.kid,
                                             named |-> e.named]
           /\ \A k \in 1..Len(jobs) : jobs'[k] = jobs[k] /\ jobKeys'[k] = jobKeys[k]
           /\ \A k \in 1..Len(jobs) : DP!Returned(k)' = DP!Returned(k)
           /\ \A k : k = Len(jobs) + 1 => DP!Returned(k)' = {} /\ Attempted(k)' = {}
           /\ \A k \in 1..Len(jobs) : Attempted(k)' = Attempted(k)
           /\ jobKeys' \in Seq(Keys) /\ Len(jobKeys') = Len(jobs) + 1
           /\ jobKeys'[Len(jobs) + 1] = Key(e)
           /\ Key(e) \in Keys
<1> DEFINE n == Len(jobs)
           event == [type |-> e.type, kid |-> e.kid, named |-> e.named]
           job == [event |-> event, rule |-> 1, action |-> 1, tries |-> 0,
                   status |-> "matching"]
<1>1. /\ DP!JobsInv /\ jobs \in Seq(DP!Jobs) /\ n \in Nat
      /\ results \in Seq(Seq(DP!Results)) /\ Len(results) = n
      /\ jobKeys \in Seq(Keys) /\ Len(jobKeys) = n
  <2>1. DP!JobsInv /\ KeyInv
    BY DEF DeliveryInv, EngineInv
  <2>2. /\ jobs \in Seq(DP!Jobs) /\ results \in Seq(Seq(DP!Results)) /\ Len(results) = n
    BY <2>1 DEF DP!JobsInv
  <2> QED BY <2>1, <2>2 DEF KeyInv
<1>2. event \in DP!Events /\ e.kid \in Kids \union {NoKid}
  BY EventHanded DEF DeliveryInv
<1>3. Key(e) \in Keys
  <2>1. phase = "publishing"
    BY DEF BridgePublish, Publish
  <2>2. today \in 1..day /\ day \in 1..MaxDay /\ MaxDay \in Nat
    BY <2>1, BoundAssumption DEF TypeOK, SafetyInv, PhaseInv, InPoll, Days
  <2>3. today \in Days
    BY <2>2 DEF Days
  <2> QED BY <1>2, <2>3 DEF Key, Keys
<1>4. /\ DP!Publish(event) /\ jobs' = Append(jobs, job) /\ results' = Append(results, << >>)
      /\ jobKeys' = Append(jobKeys, Key(e))
  BY SamePublish DEF BridgePublish, DP!Publish
<1>5. DP!JobsInv' /\ DP!CountInv'
  <2>1. DP!JobsInv'
    BY <1>1, <1>2, <1>4, EngineAssumptions, DP!PublishJobs
  <2> QED BY <1>1, <1>2, <1>4, <2>1, EngineAssumptions, DP!PublishCount
             DEF DeliveryInv, EngineInv
<1> HIDE DEF event
<1>6. /\ Len(jobs') = n + 1 /\ jobs'[n + 1] = job
      /\ \A k \in 1..n : jobs'[k] = jobs[k]
  BY <1>1, <1>4
<1>7. /\ results'[n + 1] = << >> /\ \A k \in 1..n : results'[k] = results[k]
  BY <1>1, <1>4
<1>8. /\ jobKeys' \in Seq(Keys) /\ Len(jobKeys') = n + 1 /\ jobKeys'[n + 1] = Key(e)
      /\ \A k \in 1..n : jobKeys'[k] = jobKeys[k]
  BY <1>1, <1>3, <1>4
<1>9. job.event = event
  OBVIOUS
<1> HIDE DEF job
<1>10. /\ \A k \in 1..n : DP!Returned(k)' = DP!Returned(k)
       /\ \A k : k = n + 1 => DP!Returned(k)' = {} /\ Attempted(k)' = {}
       /\ \A k \in 1..n : Attempted(k)' = Attempted(k)
  <2>1. ASSUME NEW k \in 1..n
        PROVE  DP!Returned(k)' = DP!Returned(k) /\ Attempted(k)' = Attempted(k)
    BY <1>7 DEF DP!Returned, DP!Call, Attempted
  <2>2. ASSUME NEW k, k = n + 1 PROVE DP!Returned(k)' = {} /\ Attempted(k)' = {}
    <3>1. DOMAIN results'[k] = {}
      BY <1>7, <2>2
    <3> QED BY <3>1 DEF DP!Returned, Attempted
  <2> QED BY <2>1, <2>2
<1> QED BY <1>3, <1>5, <1>6, <1>8, <1>9, <1>10 DEF event

\* What is owed for an announcement is what its event asks for.
LEMMA CallsForJob ==
    ASSUME NEW event, NEW kid, NEW call \in CallsFor(kid),
           event = [type |-> "chore.all_completed", kid |-> kid,
                    named |-> kid \in listed]
    PROVE  /\ call \in DP!Expected(event) /\ call \in Nat \X Nat
           /\ ctxDone => ~Retried(call)
<1>1. call \in D!Expected(event) /\ (ctxDone => ~Retried(call))
  BY DEF CallsFor
<1>2. call \in DP!Expected(event)
  BY <1>1, SameEvents
<1>3. call = <<call[1], call[2]>> /\ call[1] \in Nat /\ call[2] \in Nat
  BY <1>2, EngineAssumptions, DP!ExpectedMember, DP!RuleFacts
<1> QED BY <1>1, <1>2, <1>3

LEMMA PublishDelivery ==
    ASSUME TypeOK, SafetyInv, DeliveryInv, NEW e \in toPublish, BridgePublish(e)
    PROVE  DeliveryInv'
<1> DEFINE n == Len(jobs)
<1>1. /\ DP!JobsInv' /\ DP!CountInv' /\ Len(jobs') = n + 1
      /\ jobs'[n + 1].event = [type |-> e.type, kid |-> e.kid, named |-> e.named]
      /\ \A k \in 1..n : jobs'[k] = jobs[k] /\ jobKeys'[k] = jobKeys[k]
      /\ \A k \in 1..n : DP!Returned(k)' = DP!Returned(k)
      /\ \A k : k = n + 1 => DP!Returned(k)' = {} /\ Attempted(k)' = {}
      /\ \A k \in 1..n : Attempted(k)' = Attempted(k)
      /\ jobKeys' \in Seq(Keys) /\ Len(jobKeys') = n + 1
      /\ jobKeys'[n + 1] = Key(e) /\ Key(e) \in Keys
  BY PublishGrows
<1>2. n \in Nat /\ Len(jobs') = n + 1 /\ phase = "publishing"
  BY <1>1 DEF DeliveryInv, EngineInv, DP!JobsInv, BridgePublish, Publish
<1>3. /\ UNCHANGED <<phase, ctxDone, called, listed, childNames, lossless>>
      /\ toPublish' \subseteq toPublish
      /\ Owe(e)
  BY DEF BridgePublish, Publish, detectorVars, D!Publish
<1>4. Announcing' = IF Announces(e) THEN Announcing \union {n + 1} ELSE Announcing
  <2>1. 1..(n + 1) = 1..n \union {n + 1}
    BY <1>2
  <2>2. Announcing' = {j \in 1..(n + 1) : Announces(jobs'[j].event)}
    BY <1>1 DEF Announcing, Announces
  <2>3. Announces(jobs'[n + 1].event) <=> Announces(e)
    BY <1>1 DEF Announces
  <2> QED BY <1>1, <2>1, <2>2, <2>3 DEF Announcing
<1>5. n + 1 \notin Announcing /\ Announcing \subseteq 1..n
  BY <1>2 DEF Announcing
<1>6. ASSUME Announces(e)
      PROVE  /\ Key(e) = <<today, e.subject>>
             /\ e.kid = e.subject /\ (e.named <=> e.subject \in listed)
  BY <1>6 DEF DeliveryInv, NameInv, Key
<1>7. announced' = IF Announces(e) THEN announced \union {Key(e)} ELSE announced
  BY <1>6 DEF BridgePublish, Publish, Announces
<1>8. Announces(e) /\ lossless => Key(e) \notin announced
  <2>1. phase = "publishing" /\ (lossless => AllCompletedWaiting \intersect announced = {})
    BY <1>2 DEF SafetyInv, LosslessInv
  <2>2. Announces(e) => <<today, e.subject>> \in AllCompletedWaiting
    BY DEF Announces, AllCompletedWaiting
  <2> QED BY <1>6, <2>1, <2>2
<1> HIDE DEF n
<1>9. EngineInv' /\ NameInv'
  BY <1>1, <1>2, <1>3 DEF DeliveryInv, EngineInv, NameInv, Announces
<1>10. KeyInv'
  <2>1. ASSUME NEW j \in Announcing' PROVE jobKeys'[j] \in announced'
    <3>1. CASE j \in Announcing
      BY <1>1, <1>5, <1>7, <3>1 DEF DeliveryInv, KeyInv
    <3>2. CASE j = n + 1 /\ Announces(e)
      BY <1>1, <1>7, <3>2
    <3> QED BY <1>4, <2>1, <3>1, <3>2
  <2> QED BY <1>1, <2>1 DEF KeyInv
<1>11. called' \subseteq announced' \X (Nat \X Nat)
  BY <1>3, <1>7 DEF DeliveryInv
<1>12. OwedInv'
  <2>1. ASSUME NEW call \in CallsFor(e.subject), Announces(e)
        PROVE  /\ call \in Nat \X Nat
               /\ call \in DP!Expected(jobs'[n + 1].event)
               /\ ctxDone => ~Retried(call)
    <3>1. e.type = "chore.all_completed" /\ e.named \in BOOLEAN
      BY <2>1, EventParts DEF TypeOK, Events, Announces
    <3>2. jobs'[n + 1].event = [type |-> "chore.all_completed", kid |-> e.subject,
                                named |-> e.subject \in listed]
      BY <1>1, <1>6, <2>1, <3>1
    <3> QED BY <2>1, <3>2, CallsForJob
  <2>2. owed' = IF Announces(e) THEN owed \union ({Key(e)} \X CallsFor(e.subject))
                ELSE owed
    BY <1>3 DEF Owe
  <2>3. ASSUME NEW due \in owed
        PROVE  /\ due \in Keys \X (Nat \X Nat)
               /\ ctxDone => ~Retried(due[2])
               /\ \E j \in Announcing' : /\ jobKeys'[j] = due[1]
                                         /\ due[2] \in DP!Expected(jobs'[j].event)
                                         /\ due[2] \notin Attempted(j)'
    <3>1. PICK j \in Announcing : /\ jobKeys[j] = due[1]
                                  /\ due[2] \in DP!Expected(jobs[j].event)
                                  /\ due[2] \notin Attempted(j)
      BY <2>3 DEF DeliveryInv, OwedInv
    <3>2. j \in Announcing' /\ jobs'[j] = jobs[j] /\ jobKeys'[j] = jobKeys[j]
          /\ Attempted(j)' = Attempted(j)
      BY <1>1, <1>4, <1>5, <3>1
    <3> QED BY <2>3, <3>1, <3>2 DEF DeliveryInv, OwedInv
  <2>4. ASSUME NEW call \in CallsFor(e.subject), Announces(e), NEW due, due = <<Key(e), call>>
        PROVE  /\ due \in Keys \X (Nat \X Nat)
               /\ ctxDone => ~Retried(due[2])
               /\ \E j \in Announcing' : /\ jobKeys'[j] = due[1]
                                         /\ due[2] \in DP!Expected(jobs'[j].event)
                                         /\ due[2] \notin Attempted(j)'
    <3>1. due[1] = Key(e) /\ due[2] = call
      BY <2>4
    <3>2. \A k : k = n + 1 => /\ k \in Announcing' /\ jobKeys'[k] = Key(e)
                             /\ call \in DP!Expected(jobs'[k].event)
                             /\ Attempted(k)' = {}
      BY <1>1, <1>4, <2>1, <2>4
    <3>3. /\ due \in Keys \X (Nat \X Nat)
          /\ ctxDone => ~Retried(due[2])
      BY <1>1, <2>1, <2>4, <3>1
    <3> QED BY <3>1, <3>2, <3>3
  <2>5. ASSUME NEW due \in owed'
        PROVE  /\ due \in Keys \X (Nat \X Nat)
               /\ ctxDone => ~Retried(due[2])
               /\ \E j \in Announcing' : /\ jobKeys'[j] = due[1]
                                         /\ due[2] \in DP!Expected(jobs'[j].event)
                                         /\ due[2] \notin Attempted(j)'
    <3>1. CASE due \in owed
      BY <2>3, <3>1
    <3>2. CASE Announces(e) /\ due \in {Key(e)} \X CallsFor(e.subject)
      <4>1. PICK call \in CallsFor(e.subject) : due = <<Key(e), call>>
        BY <3>2
      <4> QED BY <2>4, <3>2, <4>1
    <3> QED BY <2>2, <2>5, <3>1, <3>2
  <2> QED BY <1>3, <2>5 DEF OwedInv, Retried
<1>13. OnceInv'
  <2> SUFFICES ASSUME lossless
               PROVE  /\ \A j, k \in Announcing' : jobKeys'[j] = jobKeys'[k] => j = k
                      /\ \A j \in Announcing' : \A made \in called :
                            made[1] = jobKeys'[j] => made[2] \in DP!Returned(j)'
    BY <1>3 DEF OnceInv
  <2>1. \A j \in Announcing : jobKeys'[j] = jobKeys[j] /\ jobKeys[j] \in announced
    BY <1>1, <1>5 DEF DeliveryInv, KeyInv
  <2>2. \A j, k \in Announcing' : jobKeys'[j] = jobKeys'[k] => j = k
    BY <1>1, <1>4, <1>8, <2>1 DEF DeliveryInv, OnceInv
  <2>3. \A made \in called : made[1] \in announced
    BY DEF DeliveryInv
  <2>4. ASSUME NEW j \in Announcing', NEW made \in called, made[1] = jobKeys'[j]
        PROVE  made[2] \in DP!Returned(j)'
    <3>1. CASE j \in Announcing
      <4>1. made[2] \in DP!Returned(j) /\ j \in 1..n
        BY <1>5, <2>1, <2>4, <3>1 DEF DeliveryInv, OnceInv
      <4> QED BY <1>1, <4>1
    <3>2. CASE j = n + 1 /\ Announces(e)
      BY <1>1, <1>8, <2>3, <2>4, <3>2
    <3> QED BY <1>4, <2>4, <3>1, <3>2
  <2> QED BY <2>2, <2>4
<1> QED BY <1>9, <1>10, <1>11, <1>12, <1>13 DEF DeliveryInv

-----------------------------------------------------------------------------
(* The handlers: calls that return.                                        *)

\* NewCalls by its elements.
LEMMA NewCallsMember ==
    \A x : x \in NewCalls <=>
        \E k \in DOMAIN results \intersect DOMAIN results' :
            /\ Announces(jobs[k].event)
            /\ \E i \in DOMAIN results'[k] \ DOMAIN results[k] :
                  /\ results'[k][i].tries > 0
                  /\ x = <<jobKeys[k], DP!Call(results'[k][i])>>
<1>1. \A r : DP!Call(r) = <<r.rule, r.action>>
  BY DEF DP!Call
<1>2. ASSUME NEW k, NEW x
      PROVE  x \in {jobKeys[k]} \X
                     {<<results'[k][i].rule, results'[k][i].action>> :
                         i \in {i \in DOMAIN results'[k] \ DOMAIN results[k] :
                                    results'[k][i].tries > 0}}
                <=> \E i \in DOMAIN results'[k] \ DOMAIN results[k] :
                       /\ results'[k][i].tries > 0
                       /\ x = <<jobKeys[k], DP!Call(results'[k][i])>>
  <2> DEFINE added == {i \in DOMAIN results'[k] \ DOMAIN results[k] :
                           results'[k][i].tries > 0}
             calls == {<<results'[k][i].rule, results'[k][i].action>> : i \in added}
  <2>1. \A c : c \in calls <=> \E i \in added : c = DP!Call(results'[k][i])
    BY <1>1
  <2> HIDE DEF calls
  <2>2. x \in {jobKeys[k]} \X calls <=> \E c \in calls : x = <<jobKeys[k], c>>
    OBVIOUS
  <2>3. (\E c \in calls : x = <<jobKeys[k], c>>)
           <=> \E i \in added : x = <<jobKeys[k], DP!Call(results'[k][i])>>
    BY <2>1
  <2> QED BY <2>2, <2>3 DEF calls
<1> QED BY <1>2 DEF NewCalls

\* What a step of a handler adds: the calls that have returned grow, by at most
\* one that had not; it is a new call if an attempt was made.
HandlerAdds(j, new) ==
    /\ new \in SUBSET (Nat \X Nat)
    /\ new \intersect DP!Returned(j) = {}
    /\ new \subseteq DP!Returned(j)'
    /\ NewCalls = IF j \in Announcing THEN {jobKeys[j]} \X new ELSE {}
    /\ \A k \in 1..Len(jobs) :
          /\ DP!Returned(k) \subseteq DP!Returned(k)'
          /\ Attempted(k)' = IF k = j THEN Attempted(k) \union new ELSE Attempted(k)

LEMMA HandlerCalls ==
    ASSUME DeliveryInv, NEW j \in 1..Len(jobs), HandlerStep(j)
    PROVE  \E new : HandlerAdds(j, new)
<1>1. /\ DP!JobsInv /\ results \in Seq(Seq(DP!Results)) /\ Len(results) = Len(jobs)
      /\ Len(jobs) \in Nat /\ DOMAIN results = 1..Len(jobs)
  BY DEF DeliveryInv, EngineInv, DP!JobsInv
<1>2. DP!Step(j)
  BY SameStep DEF HandlerStep
<1>3. \/ results' = results
      \/ \E result \in DP!Results :
            /\ results' = [results EXCEPT ![j] = Append(results[j], result)]
            /\ DP!Call(result) \notin DP!Returned(j)
  BY <1>1, <1>2, EngineAssumptions, DP!StepLeaves
<1>4. CASE results' = results
  <2>1. NewCalls = {}
    BY <1>4, NewCallsMember
  <2>2. \A k : DP!Returned(k)' = DP!Returned(k) /\ Attempted(k)' = Attempted(k)
    BY <1>4 DEF DP!Returned, DP!Call, Attempted
  <2> QED BY <2>1, <2>2 DEF HandlerAdds
<1>5. ASSUME NEW result \in DP!Results,
             results' = [results EXCEPT ![j] = Append(results[j], result)],
             DP!Call(result) \notin DP!Returned(j)
      PROVE  \E new : HandlerAdds(j, new)
  <2> DEFINE call == DP!Call(result)
             new == IF result.tries > 0 THEN {call} ELSE {}
             log == Append(results[j], result)
             m == Len(results[j])
  <2>1. call \in Nat \X Nat
    BY DEF DP!Call, DP!Results
  <2>2. /\ m \in Nat /\ DOMAIN results[j] = 1..m /\ DOMAIN log = 1..(m + 1)
        /\ log[m + 1] = result /\ \A i \in 1..m : log[i] = results[j][i]
    <3>1. results[j] \in Seq(DP!Results)
      BY <1>1, ElementOfSeq
    <3> QED BY <3>1, AppendProperties, LenProperties
  <2>3. /\ DOMAIN results' = 1..Len(jobs)
        /\ \A k \in 1..Len(jobs) : results'[k] = IF k = j THEN log ELSE results[k]
    BY <1>1, <1>5
  <2> HIDE DEF log, m
  <2>4. 1..(m + 1) = 1..m \union {m + 1}
    BY <2>2
  <2>5. /\ DP!Returned(j)' = DP!Returned(j) \union {call}
        /\ Attempted(j)' = Attempted(j) \union new
    <3>1. DP!Returned(j)' = {DP!Call(log[i]) : i \in 1..(m + 1)}
      BY <2>2, <2>3 DEF DP!Returned, DP!Call
    <3>2. DP!Returned(j) = {DP!Call(results[j][i]) : i \in 1..m}
      BY <2>2 DEF DP!Returned
    <3>3. Attempted(j)' =
             {DP!Call(log[i]) : i \in {i \in 1..(m + 1) : log[i].tries > 0}}
      BY <2>2, <2>3 DEF Attempted, DP!Call
    <3>4. Attempted(j) =
             {DP!Call(results[j][i]) : i \in {i \in 1..m : results[j][i].tries > 0}}
      BY <2>2 DEF Attempted
    <3> HIDE DEF call
    <3>5. DP!Returned(j)' = DP!Returned(j) \union {call}
      BY <2>2, <2>4, <3>1, <3>2 DEF call
    <3>6. \A c : c \in Attempted(j)' <=> c \in Attempted(j) \/ c \in new
      BY <2>2, <2>4, <3>3, <3>4 DEF call
    <3> QED BY <3>5, <3>6
  <2>6. ASSUME NEW k \in 1..Len(jobs), k # j
        PROVE  DP!Returned(k)' = DP!Returned(k) /\ Attempted(k)' = Attempted(k)
    BY <2>3, <2>6 DEF DP!Returned, DP!Call, Attempted
  <2>7. NewCalls = IF j \in Announcing THEN {jobKeys[j]} \X new ELSE {}
    <3>1. j \in Announcing <=> Announces(jobs[j].event)
      BY DEF Announcing
    <3>2. DOMAIN log \ DOMAIN results[j] = {m + 1}
      BY <2>2
    <3>3. \A x : x \in NewCalls <=>
             j \in Announcing /\ result.tries > 0 /\ x = <<jobKeys[j], call>>
      <4>1. results'[j] = log
        BY <2>3
      <4>2. \A k \in 1..Len(jobs) : k # j => DOMAIN results'[k] \ DOMAIN results[k] = {}
        BY <2>3
      <4>3. \A x : x \in NewCalls <=>
               /\ Announces(jobs[j].event)
               /\ \E i \in DOMAIN log \ DOMAIN results[j] :
                     log[i].tries > 0 /\ x = <<jobKeys[j], DP!Call(log[i])>>
        BY <1>1, <2>3, <4>1, <4>2, NewCallsMember
      <4> QED BY <2>2, <3>1, <3>2, <4>3
    <3> HIDE DEF call
    <3> QED BY <3>3
  <2>8. /\ new \in SUBSET (Nat \X Nat) /\ new \intersect DP!Returned(j) = {}
        /\ new \subseteq {call}
    BY <1>5, <2>1
  <2> HIDE DEF call, new
  <2>9. HandlerAdds(j, new)
    BY <2>5, <2>6, <2>7, <2>8 DEF HandlerAdds
  <2> QED BY <2>9
<1> QED BY <1>3, <1>4, <1>5

LEMMA HandlerDelivery ==
    ASSUME DeliveryInv, NEW j \in 1..Len(jobs), HandlerStep(j)
    PROVE  DeliveryInv'
<1>1. PICK new : HandlerAdds(j, new)
  BY HandlerCalls
<1>2. /\ UNCHANGED <<phase, ctxDone, announced, lossless, childNames, toPublish>>
      /\ UNCHANGED <<jobKeys, listed>>
      /\ owed' = owed \ NewCalls
      /\ called' = called \union NewCalls
      /\ DP!Step(j)
  BY SameStep DEF HandlerStep, vars, historyVars, pollVars, detectorVars
<1>3. /\ Len(jobs') = Len(jobs)
      /\ \A k \in 1..Len(jobs) : jobs'[k].event = jobs[k].event
      /\ DP!JobsInv' /\ DP!CountInv'
  <2>1. DP!JobsInv' /\ DP!JobsInv /\ DP!CountInv
    BY <1>2, EngineAssumptions, DP!StepJobs DEF DeliveryInv, EngineInv
  <2>2. DP!CountInv'
    BY <1>2, <2>1, EngineAssumptions, DP!StepCount
  <2> QED BY <1>2, <2>1, <2>2, EngineAssumptions, DP!StepLeaves
<1>4. Announcing' = Announcing /\ Announcing \subseteq 1..Len(jobs)
  BY <1>3 DEF Announcing, Announces
<1>5. EngineInv' /\ NameInv'
  <2>1. phase # "down"
    BY <1>3 DEF DeliveryInv, EngineInv
  <2> QED BY <1>2, <1>3, <2>1 DEF DeliveryInv, EngineInv, NameInv, Announces
<1>6. KeyInv'
  BY <1>2, <1>3, <1>4 DEF DeliveryInv, KeyInv
<1>7. called' \subseteq announced' \X (Nat \X Nat)
  BY <1>1, <1>2 DEF DeliveryInv, KeyInv, HandlerAdds
<1>8. OwedInv'
  <2>1. ASSUME NEW due \in owed'
        PROVE  \E k \in Announcing : /\ jobKeys[k] = due[1]
                                     /\ due[2] \in DP!Expected(jobs[k].event)
                                     /\ due[2] \notin Attempted(k)'
    <3>1. due \in owed /\ due \notin NewCalls /\ due = <<due[1], due[2]>>
      BY <1>2, <2>1 DEF DeliveryInv, OwedInv
    <3>2. PICK k \in Announcing : /\ jobKeys[k] = due[1]
                                  /\ due[2] \in DP!Expected(jobs[k].event)
                                  /\ due[2] \notin Attempted(k)
      BY <3>1 DEF DeliveryInv, OwedInv
    <3>3. k = j => due[2] \notin new
      BY <1>1, <3>1, <3>2 DEF HandlerAdds
    <3>4. due[2] \notin Attempted(k)'
      BY <1>1, <1>4, <3>2, <3>3 DEF HandlerAdds
    <3> QED BY <3>2, <3>4
  <2>2. \A due \in owed' : ctxDone => ~Retried(due[2])
    BY <1>2 DEF DeliveryInv, OwedInv
  <2>3. owed' \subseteq Keys \X (Nat \X Nat)
    BY <1>2 DEF DeliveryInv, OwedInv
  <2> QED BY <1>2, <1>3, <1>4, <2>1, <2>2, <2>3 DEF OwedInv, Retried
<1>9. OnceInv'
  <2> SUFFICES ASSUME lossless
               PROVE  /\ \A i, k \in Announcing : jobKeys[i] = jobKeys[k] => i = k
                      /\ \A k \in Announcing : \A made \in called' :
                            made[1] = jobKeys[k] => made[2] \in DP!Returned(k)'
    BY <1>2, <1>4 DEF OnceInv
  <2>1. \A i, k \in Announcing : jobKeys[i] = jobKeys[k] => i = k
    BY DEF DeliveryInv, OnceInv
  <2>2. ASSUME NEW k \in Announcing, NEW made \in called', made[1] = jobKeys[k]
        PROVE  made[2] \in DP!Returned(k)'
    <3>1. CASE made \in called
      BY <1>1, <1>4, <2>2, <3>1 DEF DeliveryInv, OnceInv, HandlerAdds
    <3>2. CASE made \in NewCalls
      <4>1. j \in Announcing /\ made[1] = jobKeys[j] /\ made[2] \in new
        BY <1>1, <3>2 DEF HandlerAdds
      <4> QED BY <1>1, <1>4, <2>1, <2>2, <4>1 DEF HandlerAdds
    <3> QED BY <1>2, <2>2, <3>1, <3>2
  <2> QED BY <2>1, <2>2
<1> QED BY <1>5, <1>6, <1>7, <1>8, <1>9 DEF DeliveryInv

-----------------------------------------------------------------------------
(* The end of a process.                                                   *)

LEMMA EndDelivery ==
    ASSUME DeliveryInv, BridgeEnds
    PROVE  DeliveryInv'
<1>1. /\ jobs' = << >> /\ results' = << >> /\ actionFailures' = 0 /\ jobKeys' = << >>
      /\ listed' = {} /\ childNames' = {} /\ owed' = {} /\ toPublish' = {}
      /\ ctxDone' = FALSE
      /\ UNCHANGED <<called, announced>>
  BY DEF BridgeEnds, NoJobs, ProcessEnds, ImportState
<1>2. /\ Len(jobs') = 0 /\ Len(results') = 0 /\ Len(jobKeys') = 0 /\ Announcing' = {}
  BY <1>1 DEF Announcing
<1>3. EngineInv'
  <2>1. /\ << >> \in Seq(DP!Jobs) /\ << >> \in Seq(Seq(DP!Results))
        /\ 0 <= MaxJobs
    BY BridgeAssumption
  <2>2. ctxDone' \in BOOLEAN /\ (phase' = "down") \in BOOLEAN
    BY <1>1
  <2>3. DP!JobsInv'
    BY <1>1, <1>2, <2>1, <2>2 DEF DP!JobsInv
  <2> QED BY <1>1, <2>3, EngineAssumptions, DP!NothingCounted DEF EngineInv
<1>4. NameInv' /\ KeyInv' /\ OwedInv' /\ OnceInv'
  BY <1>1, <1>2 DEF NameInv, KeyInv, OwedInv, OnceInv
<1> QED BY <1>1, <1>3, <1>4 DEF DeliveryInv

-----------------------------------------------------------------------------
(* The theorems.                                                           *)

LEMMA DeliveryNext ==
    ASSUME TypeOK, SafetyInv, DeliveryInv, [BridgeNext]_allVars
    PROVE  DeliveryInv'
<1>1. CASE QuietAction
  BY <1>1, QuietDelivery
<1>2. CASE \E e \in toPublish : BridgePublish(e)
  BY <1>2, PublishDelivery
<1>3. CASE \E j \in D!JobIds : HandlerStep(j)
  <2>1. D!JobIds = 1..Len(jobs)
    BY DEF D!JobIds, DeliveryInv, EngineInv, DP!JobsInv
  <2> QED BY <1>3, <2>1, HandlerDelivery
<1>4. CASE Return \/ Crash
  BY <1>4, EndDelivery DEF Return, Crash, DeliveryInv
<1> QED BY <1>1, <1>2, <1>3, <1>4 DEF QuietAction, BridgeNext, BridgePollStep,
           MainStep, BridgeEnvironment

\* The inductive invariant of the composition, on top of that of the poller:
\* which announcement each job is for, which names it was told, what it still
\* owes, and what has been called for it in any process.
THEOREM DeliveryInvariant == BridgeSpec => []DeliveryInv
<1>1. BridgeSpec => [](TypeOK /\ SafetyInv)
  BY PollerWithin, SafetyInvariant, PTL
<1>2. TypeOK /\ SafetyInv /\ DeliveryInv /\ [BridgeNext]_allVars => DeliveryInv'
  BY DeliveryNext
<1> QED BY <1>1, <1>2, DeliveryInit, PTL DEF BridgeSpec

MainTypes ==
    /\ mainPhase \in {"serving", "stopping", "draining"}
    /\ listed \in SUBSET Kids
    /\ faultless \in BOOLEAN

LEMMA MainTypesNext == MainTypes /\ [BridgeNext]_allVars => MainTypes'
<1> SUFFICES ASSUME MainTypes, [BridgeNext]_allVars PROVE MainTypes'
  OBVIOUS
<1> USE DEF MainTypes
<1>1. CASE BridgeNext
  <2>1. CASE BridgePollStep
    BY <2>1 DEF BridgePollStep, bridgeVars, BridgeDetection, BridgeDetect,
                BridgePublish, BridgeSave
  <2>2. CASE BridgeExit
    BY <2>2 DEF BridgeExit, bridgeVars
  <2>3. CASE \E j \in D!JobIds : HandlerStep(j)
    BY <2>3 DEF HandlerStep
  <2>4. CASE MainStep
    BY <2>4 DEF MainStep, BeginShutdown, StopPoller, Return, BridgeEnds, NoJobs
  <2>5. CASE BridgeEnvironment
    BY <2>5 DEF BridgeEnvironment, BridgeStart, BridgeCancel, Crash, BridgeEnds,
                NoJobs, bridgeVars
  <2> QED BY <1>1, <2>1, <2>2, <2>3, <2>4, <2>5 DEF BridgeNext
<1>2. CASE UNCHANGED allVars
  BY <1>2 DEF allVars, bridgeVars
<1> QED BY <1>1, <1>2

\* Type correctness of the composition: among others, a handler's key is a day
\* and a kid, and it is at an action of the configuration.
THEOREM BridgeTypeCorrect == BridgeSpec => []BridgeTypeOK
<1>1. BridgeInit => MainTypes
  BY DEF BridgeInit, MainTypes
<1>2. TypeOK /\ DeliveryInv /\ MainTypes => BridgeTypeOK
  <2> SUFFICES ASSUME TypeOK, DeliveryInv, MainTypes PROVE BridgeTypeOK
    OBVIOUS
  <2>1. DP!JobsInv /\ actionFailures \in Nat
    BY EngineAssumptions, DP!CountTyped DEF DeliveryInv, EngineInv
  <2>2. D!TypeOK
    BY <2>1, EngineAssumptions, DP!JobsTyped, SameType
  <2>3. called \subseteq Keys \X (Nat \X Nat)
    <3>1. announced \subseteq Keys
      BY DEF TypeOK, Keys
    <3> QED BY <3>1 DEF DeliveryInv
  <2> QED BY <2>2, <2>3 DEF BridgeTypeOK, DeliveryInv, KeyInv, OwedInv, MainTypes
<1> QED BY <1>1, <1>2, MainTypesNext, PollerWithin, TypeCorrect, DeliveryInvariant, PTL
           DEF BridgeSpec

\* A handler that is done owes nothing.
LEMMA DoneOwesNothing ==
    ASSUME DeliveryInv, NEW due \in owed, NEW j \in Announcing,
           due[2] \in DP!Expected(jobs[j].event), due[2] \notin Attempted(j)
    PROVE  jobs[j].status # "done"
<1> SUFFICES ASSUME jobs[j].status = "done" PROVE FALSE
  OBVIOUS
<1>1. j \in 1..Len(jobs) /\ DP!JobsInv
  BY DEF Announcing, DeliveryInv, EngineInv
<1>2. DP!Returned(j) = DP!Expected(jobs[j].event)
  BY <1>1, EngineAssumptions, DP!DoneReturned
<1>3. PICK i \in DOMAIN results[j] : due[2] = DP!Call(results[j][i])
  BY <1>2 DEF DP!Returned
<1>4. ~(results[j][i].tries > 0)
  BY <1>3 DEF Attempted
<1>5. results[j][i].tries = 0
  <2>1. results[j] \in Seq(DP!Results)
    BY <1>1, ElementOfSeq DEF DP!JobsInv
  <2>2. results[j][i] \in DP!Results
    BY <2>1, ElementOfSeq
  <2> QED BY <1>4, <2>2 DEF DP!Results
<1>6. DP!ResultOK(results[j][i], ctxDone)
  BY <1>1 DEF DP!JobsInv
<1>7. ctxDone /\ Retried(due[2])
  BY <1>3, <1>5, <1>6 DEF DP!ResultOK, DP!Total, DP!Call, Retried
<1> QED BY <1>7 DEF DeliveryInv, OwedInv

\* Whatever a process owes of the calls that its announcements ask for has a
\* handler at work on them, for any rules, lists of categories and signals: a
\* handler that ends has attempted every call it could be expected to.
THEOREM NoActionMissed == BridgeSpec => []NothingMissed
<1>1. DeliveryInv => NothingMissed
  <2> SUFFICES ASSUME DeliveryInv, NEW due \in owed
               PROVE  \E j \in D!JobIds : /\ Handles(j, due[1])
                                          /\ jobs[j].status # "done"
    BY DEF NothingMissed
  <2>1. PICK j \in Announcing : /\ jobKeys[j] = due[1]
                                /\ due[2] \in DP!Expected(jobs[j].event)
                                /\ due[2] \notin Attempted(j)
    BY DEF DeliveryInv, OwedInv
  <2>2. j \in D!JobIds /\ Handles(j, due[1])
    BY <2>1 DEF Announcing, Handles, D!JobIds, DeliveryInv, EngineInv, DP!JobsInv
  <2> QED BY <2>1, <2>2, DoneOwesNothing
<1> QED BY <1>1, DeliveryInvariant, PTL

\* Results that stay where they are make no call.
LEMMA NoNewCalls ==
    ASSUME \A k \in DOMAIN results \intersect DOMAIN results' : results'[k] = results[k]
    PROVE  NewCalls = {}
BY NewCallsMember

\* While no stop lost anything, no step of any process calls an action that
\* was already called for the same kid and day.
THEOREM CalledAtMostOnce == BridgeSpec => ActionOnce
<1>1. ASSUME DeliveryInv, [BridgeNext]_allVars, lossless
      PROVE  NewCalls \intersect called = {}
  <2>0. /\ results \in Seq(Seq(DP!Results)) /\ DOMAIN results = 1..Len(jobs)
        /\ D!JobIds = 1..Len(jobs)
    BY <1>1 DEF DeliveryInv, EngineInv, DP!JobsInv, D!JobIds
  <2>1. CASE \E j \in D!JobIds : HandlerStep(j)
    <3>1. PICK j \in 1..Len(jobs) : HandlerStep(j)
      BY <2>0, <2>1
    <3>2. PICK new : HandlerAdds(j, new)
      BY <1>1, <3>1, HandlerCalls
    <3> QED BY <1>1, <3>2 DEF DeliveryInv, OnceInv, HandlerAdds
  <2>2. CASE \E e \in toPublish : BridgePublish(e)
    <3>1. results' = Append(results, << >>)
      BY <2>2 DEF BridgePublish, D!Publish
    <3>2. \A k \in DOMAIN results : results'[k] = results[k]
      BY <2>0, <3>1
    <3> QED BY <3>2, NoNewCalls
  <2>3. CASE Return \/ Crash
    <3>1. DOMAIN results' = {}
      BY <2>3 DEF Return, Crash, BridgeEnds, NoJobs
    <3> QED BY <3>1, NoNewCalls
  <2>4. CASE results' = results
    BY <2>4, NoNewCalls
  <2> QED BY <1>1, <2>1, <2>2, <2>3, <2>4 DEF BridgeNext, BridgePollStep, BridgeDetection,
             BridgeDetect, BridgeSave, BridgeExit, MainStep, BeginShutdown, StopPoller,
             BridgeEnvironment, BridgeStart, BridgeCancel, bridgeVars, engineVars, allVars
<1>2. DeliveryInv /\ [BridgeNext]_allVars
         => [lossless => NewCalls \intersect called = {}]_allVars
  BY <1>1
<1> QED BY <1>2, DeliveryInvariant, PTL DEF BridgeSpec, ActionOnce

\* The rules engine of each process of the bridge does what Dispatch promises:
\* its calls in order, its failures counted, its attempts used up.
THEOREM EngineWithin ==
    BridgeSpec => [](D!AllActionsInOrder /\ D!FailuresCounted /\ D!RetriesUsedUp)
<1>1. DeliveryInv => D!AllActionsInOrder /\ D!FailuresCounted /\ D!RetriesUsedUp
  <2> SUFFICES ASSUME DP!JobsInv, DP!CountInv
               PROVE  D!AllActionsInOrder /\ D!FailuresCounted /\ D!RetriesUsedUp
    BY DEF DeliveryInv, EngineInv
  <2>1. DP!AllActionsInOrder
    BY EngineAssumptions, DP!JobsOrdered
  <2>2. DP!FailuresCounted
    BY EngineAssumptions, DP!AllCounted
  <2>3. DP!RetriesUsedUp
    BY EngineAssumptions, DP!JobsRetried
  <2> QED BY <2>1, <2>2, <2>3, SameProperties
<1> QED BY <1>1, DeliveryInvariant, PTL


\* As long as a process lives, each of its steps is one of Dispatch or does not
\* concern the rules engine: a publication by the poller is one of an event that
\* Dispatch knows, and the signal context is the same for both.
THEOREM DispatchWithin ==
    BridgeSpec => [][phase # "down" /\ phase' # "down" => [D!Next]_(D!vars)]_allVars
<1>1. ASSUME TypeOK, DeliveryInv, [BridgeNext]_allVars, phase # "down", phase' # "down"
      PROVE  [D!Next]_(D!vars)
  <2>1. ASSUME NEW e \in toPublish, BridgePublish(e) PROVE D!Next
    <3>1. [type |-> e.type, kid |-> e.kid, named |-> e.named] \in D!Events
      BY <1>1, EventHanded, SameEvents DEF DeliveryInv
    <3> QED BY <2>1, <3>1 DEF BridgePublish, D!Next
  <2>2. CASE \E j \in D!JobIds : HandlerStep(j)
    BY <2>2 DEF HandlerStep, D!Next
  <2>3. CASE BridgeCancel
    <3>1. D!Cancel
      BY <1>1, <2>3 DEF BridgeCancel, Cancel, bridgeVars, engineVars, D!Cancel
    <3> QED BY <3>1 DEF D!Next
  <2>4. CASE UNCHANGED <<jobs, actionFailures, results, ctxDone>>
    BY <1>1, <2>4 DEF D!vars
  <2>5. CASE BridgePollStep \/ BridgeExit
    <3>1. CASE BridgeDetection
      BY <2>4, <3>1 DEF BridgeDetection, BridgeDetect, Detect, engineVars
    <3>2. CASE BridgeSave
      BY <2>4, <3>2 DEF BridgeSave, Save, engineVars
    <3>3. CASE (BeginPoll \/ AbortPoll \/ UpdateMemory \/ FinishPoll) /\ UNCHANGED bridgeVars
      BY <2>4, <3>3 DEF BeginPoll, AbortPoll, UpdateMemory, FinishPoll, bridgeVars,
                        engineVars
    <3>4. CASE BridgeExit
      BY <2>4, <3>4 DEF BridgeExit, Exit, bridgeVars, engineVars
    <3> QED BY <2>1, <2>5, <3>1, <3>2, <3>3, <3>4 DEF BridgePollStep
  <2>6. CASE MainStep
    <3>1. CASE BeginShutdown \/ StopPoller
      BY <2>4, <3>1 DEF BeginShutdown, StopPoller, vars, engineVars
    <3>2. CASE Return
      BY <1>1, <3>2 DEF Return, BridgeEnds, ProcessEnds
    <3> QED BY <2>6, <3>1, <3>2 DEF MainStep
  <2>7. CASE BridgeStart \/ Crash
    BY <1>1, <2>7 DEF BridgeStart, Start, Crash, BridgeEnds, ProcessEnds
  <2>8. CASE (SyncerSave \/ Midnight) /\ UNCHANGED bridgeVars
    BY <2>4, <2>8 DEF SyncerSave, Midnight, bridgeVars, engineVars
  <2>9. CASE UNCHANGED allVars
    BY <2>4, <2>9 DEF allVars, vars, bridgeVars, engineVars
  <2> QED BY <1>1, <2>2, <2>3, <2>5, <2>6, <2>7, <2>8, <2>9
             DEF BridgeNext, BridgeEnvironment
<1>2. TypeOK /\ DeliveryInv /\ [BridgeNext]_allVars
         => [phase # "down" /\ phase' # "down" => [D!Next]_(D!vars)]_allVars
  BY <1>1
<1> QED BY <1>2, PollerWithin, TypeCorrect, DeliveryInvariant, PTL DEF BridgeSpec

=============================================================================
