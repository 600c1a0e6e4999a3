------------------------------- MODULE Poller -------------------------------
(***************************************************************************)
(* The poll loop of engine/poller.go around the detector, with the state   *)
(* it persists through state/state.go, and the life of the process: start, *)
(* signal, graceful exit, crash, restart.  One poll goes through the       *)
(* phases                                                                  *)
(*                                                                         *)
(*    select -> fetching -> publishing -> saving -> counting -> select     *)
(*                                                                         *)
(* and a crash, a cancellation, midnight or the photo syncer's save of the *)
(* same file may fall between any two of them.  told, announced,           *)
(* rewardSeen, restored and lossless are history variables: no action      *)
(* reads them.                                                             *)
(***************************************************************************)
EXTENDS Detector

CONSTANTS
    MaxDay,      \* bound of the clock: the days are 1..MaxDay
    CounterCap   \* bound of the /stats counters, which saturate there

ASSUME FiniteAssumption ==
    IsFiniteSet(Chores) /\ IsFiniteSet(Rewards) /\ IsFiniteSet(Kids)

ASSUME BoundAssumption == MaxDay \in Nat \ {0} /\ CounterCap \in Nat

VARIABLES
    phase,         \* where the poll goroutine is; "down": no process
    ctxDone,       \* the signal context is cancelled
    day,           \* the wall clock
    today,         \* the day poll() took at its start; 0 between polls
    allEvents,     \* the events of the current poll
    toPublish,     \* those of them not handed to the bus yet
    apiErrors,     \* failed calls of the current poll
    mem,           \* Store.state, the poller's part
    disk,          \* the state file
    totalPolls, pollErrors, eventsByType,   \* PollerStats
    told,          \* chore -> did the last event say it is done
    announced,     \* <<day, kid>> whose all_completed was ever published
    rewardSeen,    \* reward -> state in the last response, of any process
    restored,      \* the state file was read when this process started
    lossless       \* every stop so far was with nothing left to save

storeVars == <<mem, disk>>
statsVars == <<totalPolls, pollErrors, eventsByType>>
pollVars == <<today, allEvents, toPublish, apiErrors>>
historyVars == <<told, announced, rewardSeen, restored, lossless>>
vars == <<detectorVars, phase, ctxDone, day, pollVars, storeVars, statsVars,
          historyVars>>

Days == 1..MaxDay

Phases == {"down", "starting", "select", "fetching", "publishing", "saving",
           "counting", "exited"}

Running == phase \notin {"down", "exited"}

SavedStates ==
    [chores  : [Chores -> Statuses \union {NoEntry}],
     rewards : [Rewards -> RewardStates \union {NoEntry}],
     fired   : SUBSET (Days \X Kids)]

Bump(counter, n, cap) == IF counter + n > cap THEN cap ELSE counter + n

Err(response) == IF response = Failed THEN 1 ELSE 0

TypeOK ==
    /\ ExportState \in SavedStates
    /\ childNames \in SUBSET Kids
    /\ phase \in Phases
    /\ ctxDone \in BOOLEAN
    /\ day \in Days
    /\ today \in 0..MaxDay
    /\ allEvents \in SUBSET Events
    /\ toPublish \in SUBSET allEvents
    /\ apiErrors \in 0..3
    /\ mem \in SavedStates
    /\ disk \in SavedStates
    /\ totalPolls \in 0..CounterCap
    /\ pollErrors \in 0..(3 * CounterCap)
    /\ eventsByType \in [EventTypes -> 0..CounterCap]
    /\ told \in [Chores -> BOOLEAN]
    /\ announced \in SUBSET (Days \X Kids)
    /\ rewardSeen \in [Rewards -> RewardStates \union {NoEntry}]
    /\ restored \in BOOLEAN
    /\ lossless \in BOOLEAN

\* No process yet and no state file, which loads as the empty state.
Init ==
    /\ choreStatuses = EmptyState.chores
    /\ rewardRedeemed = EmptyState.rewards
    /\ allCompletedFired = {}
    /\ childNames = {}
    /\ phase = "down"
    /\ ctxDone = FALSE
    /\ day = 1
    /\ today = 0
    /\ allEvents = {}
    /\ toPublish = {}
    /\ apiErrors = 0
    /\ mem = EmptyState
    /\ disk = EmptyState
    /\ totalPolls = 0
    /\ pollErrors = 0
    /\ eventsByType = [t \in EventTypes |-> 0]
    /\ told = [c \in Chores |-> FALSE]
    /\ announced = {}
    /\ rewardSeen = EmptyState.rewards
    /\ restored = TRUE
    /\ lossless = TRUE

-----------------------------------------------------------------------------
(* The poll loop.                                                          *)

\* loop: the first poll comes at once, the others when select picks the ticker.
BeginPoll ==
    /\ phase \in {"starting", "select"}
    /\ phase' = "fetching"
    /\ today' = day
    /\ CleanupOldEntries(day)
    /\ UNCHANGED <<choreStatuses, rewardRedeemed, childNames, ctxDone, day,
                   allEvents, toPublish, apiErrors, storeVars, statsVars,
                   historyVars>>

\* Mutant: a poll that was aborted starts again at once.
AbortAndPollAgain ==
    /\ phase = "fetching"
    /\ ctxDone
    /\ phase' = "starting"
    /\ today' = 0
    /\ totalPolls' = Bump(totalPolls, 1, CounterCap)
    /\ UNCHANGED <<detectorVars, ctxDone, day, allEvents, toPublish, apiErrors,
                   storeVars, pollErrors, eventsByType, historyVars>>

\* The three calls are back but the context was cancelled: drop the answers.
AbortPoll ==
    /\ phase = "fetching"
    /\ ctxDone
    /\ phase' = "select"
    /\ today' = 0
    /\ totalPolls' = Bump(totalPolls, 1, CounterCap)
    /\ UNCHANGED <<detectorVars, ctxDone, day, allEvents, toPublish, apiErrors,
                   storeVars, pollErrors, eventsByType, historyVars>>

\* Mutant: a poll without any answer is not counted.
DetectUncounted(chores, rewards, categories) ==
    /\ phase = "fetching"
    /\ ~ctxDone
    /\ phase' = "publishing"
    /\ apiErrors' = Err(chores) + Err(rewards) + Err(categories)
    /\ totalPolls' = IF apiErrors' = 3 THEN totalPolls
                     ELSE Bump(totalPolls, 1, CounterCap)
    /\ SetChildNames(categories)
    /\ DetectChores(Listed(chores), today)
    /\ DetectRewards(Listed(rewards))
    /\ allEvents' =
           DetectedEvents(Listed(chores), Listed(rewards), today, childNames')
    /\ toPublish' = allEvents'
    /\ rewardSeen' = [r \in Rewards |-> IF r \in DOMAIN Listed(rewards)
                                        THEN rewards[r].state
                                        ELSE rewardSeen[r]]
    /\ UNCHANGED <<ctxDone, day, today, storeVars, pollErrors, eventsByType,
                   told, announced, restored, lossless>>

\* The three calls are back, each with an answer or an error.
Detect(chores, rewards, categories) ==
    /\ phase = "fetching"
    /\ ~ctxDone
    /\ phase' = "publishing"
    /\ totalPolls' = Bump(totalPolls, 1, CounterCap)
    /\ apiErrors' = Err(chores) + Err(rewards) + Err(categories)
    /\ SetChildNames(categories)
    /\ DetectChores(Listed(chores), today)
    /\ DetectRewards(Listed(rewards))
    /\ allEvents' =
           DetectedEvents(Listed(chores), Listed(rewards), today, childNames')
    /\ toPublish' = allEvents'
    /\ rewardSeen' = [r \in Rewards |-> IF r \in DOMAIN Listed(rewards)
                                        THEN rewards[r].state
                                        ELSE rewardSeen[r]]
    /\ UNCHANGED <<ctxDone, day, today, storeVars, pollErrors, eventsByType,
                   told, announced, restored, lossless>>

\* allEvents lists the chores, then the kids, then the rewards.
Rank(e) == CASE e.type = "reward.redeemed" -> 2
             [] e.type = "chore.all_completed" -> 1
             [] OTHER -> 0

\* The bus starts a goroutine per subscriber, so it takes the event at once.
Publish(e) ==
    /\ phase = "publishing"
    /\ e \in toPublish
    /\ \A f \in toPublish : Rank(e) <= Rank(f)
    /\ toPublish' = toPublish \ {e}
    /\ told' = [c \in Chores |->
                   IF e.subject = c /\ e.type = "chore.completed" THEN TRUE
                   ELSE IF e.subject = c /\ e.type = "chore.uncompleted" THEN FALSE
                   ELSE told[c]]
    /\ announced' = IF e.type = "chore.all_completed"
                    THEN announced \union {<<today, e.subject>>}
                    ELSE announced
    /\ UNCHANGED <<detectorVars, phase, ctxDone, day, today, allEvents,
                   apiErrors, storeVars, statsVars, rewardSeen, restored,
                   lossless>>

\* Mutant: the state is persisted before the events are published.
UpdateMemoryFirst ==
    /\ phase = "publishing"
    /\ allEvents # {}
    /\ phase' = "saving"
    /\ mem' = ExportState
    /\ UNCHANGED <<detectorVars, ctxDone, day, pollVars, disk, statsVars,
                   historyVars>>

\* UpdateState, first half: under the lock; only a poll with events gets here.
UpdateMemory ==
    /\ phase = "publishing"
    /\ toPublish = {}
    /\ allEvents # {}
    /\ phase' = "saving"
    /\ mem' = ExportState
    /\ UNCHANGED <<detectorVars, ctxDone, day, pollVars, disk, statsVars,
                   historyVars>>

\* UpdateState, second half: Save, whose error is logged and forgotten.
Save ==
    /\ phase = "saving"
    /\ phase' = "counting"
    /\ \/ disk' = mem
       \/ UNCHANGED disk
    /\ UNCHANGED <<detectorVars, ctxDone, day, pollVars, mem, statsVars,
                   historyVars>>

\* The events of one type; a poll has at most one per subject.
CountOf(type) ==
    Cardinality({e.subject : e \in {e \in allEvents : e.type = type}})

\* The last critical section of poll(), reached directly without events.
FinishPoll ==
    /\ \/ phase = "counting"
       \/ phase = "publishing" /\ allEvents = {}
    /\ phase' = "select"
    /\ pollErrors' = Bump(pollErrors, apiErrors, 3 * CounterCap)
    /\ eventsByType' = [t \in EventTypes |->
                           Bump(eventsByType[t], CountOf(t), CounterCap)]
    /\ today' = 0
    /\ allEvents' = {}
    /\ toPublish' = {}
    /\ apiErrors' = 0
    /\ UNCHANGED <<detectorVars, ctxDone, day, storeVars, totalPolls,
                   historyVars>>

\* select picks ctx.Done, or stop, which main closes after ctx.Done only.
Exit ==
    /\ phase = "select"
    /\ ctxDone
    /\ phase' = "exited"
    /\ UNCHANGED <<detectorVars, ctxDone, day, pollVars, storeVars, statsVars,
                   historyVars>>

-----------------------------------------------------------------------------
(* The process and its environment.                                        *)

\* The poll found nothing that a restart would not find in the state file.
SafePoint ==
    /\ mem = disk
    /\ phase = "publishing" => allEvents = {}

\* Store.Load: a file that cannot be read leaves the new store empty.
Load ==
    /\ restored' \in BOOLEAN
    /\ mem' = IF restored' THEN disk ELSE EmptyState

\* main goes on whether Load failed or not; NewPoller restores the detector.
Start ==
    /\ phase = "down"
    /\ phase' = "starting"
    /\ ctxDone' = FALSE
    /\ Load
    /\ lossless' = (lossless /\ restored')
    /\ ImportState(mem')
    /\ UNCHANGED <<day, pollVars, disk, statsVars, told, announced, rewardSeen>>

\* SIGINT or SIGTERM.
Cancel ==
    /\ Running
    /\ ~ctxDone
    /\ ctxDone' = TRUE
    /\ UNCHANGED <<detectorVars, phase, day, pollVars, storeVars, statsVars,
                   historyVars>>

\* main returns after the loop has exited, or the process dies anywhere before.
ProcessEnds ==
    /\ phase # "down"
    /\ phase' = "down"
    /\ ctxDone' = FALSE
    /\ ImportState(EmptyState)
    /\ mem' = EmptyState
    /\ today' = 0
    /\ allEvents' = {}
    /\ toPublish' = {}
    /\ apiErrors' = 0
    /\ totalPolls' = 0
    /\ pollErrors' = 0
    /\ eventsByType' = [t \in EventTypes |-> 0]
    /\ lossless' = (lossless /\ SafePoint)
    /\ UNCHANGED <<day, disk, told, announced, rewardSeen, restored>>

\* The photo syncer's UpdateState saves the whole Store.state, our part too.
SyncerSave ==
    /\ phase # "down"
    /\ disk' = mem
    /\ UNCHANGED <<detectorVars, phase, ctxDone, day, pollVars, mem, statsVars,
                   historyVars>>

Midnight ==
    /\ day < MaxDay
    /\ day' = day + 1
    /\ UNCHANGED <<detectorVars, phase, ctxDone, pollVars, storeVars, statsVars,
                   historyVars>>

\* Each of the three lists may lack any item, the categories any kid.
Detection ==
    \E chores \in ChoreLists \union {Failed},
       rewards \in RewardLists \union {Failed},
       categories \in (SUBSET Kids) \union {Failed} : Detect(chores, rewards, categories)

PollStep ==
    \/ BeginPoll
    \/ AbortPoll
    \/ Detection
    \/ \E e \in toPublish : Publish(e)
    \/ UpdateMemory
    \/ Save
    \/ FinishPoll

Environment == Start \/ Cancel \/ ProcessEnds \/ SyncerSave \/ Midnight

Next == PollStep \/ Exit \/ Environment

Spec == Init /\ [][Next]_vars

\* API calls and saves return, the ticker ticks, and select, which picks among
\* its ready cases at random, does not pass over ctx.Done for ever.
Fairness == WF_vars(PollStep) /\ SF_vars(Exit)

FairSpec == Spec /\ Fairness

-----------------------------------------------------------------------------
(* Properties.                                                             *)

\* The keys older than this day can no longer matter to a poll.
Horizon == IF today = 0 THEN day ELSE today

Current(keys) == {key \in keys : key[1] >= Horizon}

\* poll() saves only when it has events, and a failed save is not retried.
\* Whenever the file is what Store holds and no events wait to be exported, a
\* restart would nevertheless decide as this process would: the file agrees
\* on which chores are done and which all_completed have fired, and knows
\* every redemption the process knows.
RestartSafe ==
    (phase # "down" /\ SafePoint) =>
        /\ \A c \in Chores : Done(disk.chores[c]) <=> Done(choreStatuses[c])
        /\ Current(disk.fired) = Current(allCompletedFired)
        /\ \A r \in Rewards :
               rewardRedeemed[r] = "redeemed" => disk.rewards[r] = "redeemed"

\* Persist comes after publish: whatever crash or failed save, the state file
\* never claims an all_completed that was not handed to the bus.
SavedWereAnnounced == disk.fired \subseteq announced

AllCompletedWaiting ==
    {<<today, e.subject>> : e \in {e \in toPublish : e.type = "chore.all_completed"}}

\* As long as every process so far was stopped with nothing left to save,
\* chore.all_completed is published once per kid and day, over all processes.
AllCompletedOnce == lossless => AllCompletedWaiting \intersect announced = {}

\* Even after crashes: a process that could read the state file does not
\* repeat an all_completed the file holds.
SavedNotRepeated == restored => AllCompletedWaiting \intersect disk.fired = {}

ChoreEventsWaiting(c, type) ==
    {e \in toPublish : e.subject = c /\ e.type = type}

\* As long as every process was stopped with nothing left to save, what the
\* subscribers were told of a chore is what the detector last saw, but for the
\* event on its way: completed and uncompleted strictly alternate over all
\* processes, and none is missing after a poll.
ToldAsSeen ==
    (lossless /\ phase # "down") =>
        \A c \in Chores :
            /\ Done(choreStatuses[c]) /\ ~told[c]
                  <=> ChoreEventsWaiting(c, "chore.completed") # {}
            /\ ~Done(choreStatuses[c]) /\ told[c]
                  <=> ChoreEventsWaiting(c, "chore.uncompleted") # {}

\* A reader of /stats between the two critical sections of poll() never sees
\* more failed calls than three per poll counted.
StatsBounded == pollErrors <= 3 * totalPolls

\* A signal is answered: the loop ends although select may pick the ticker.
ShutdownCompletes == ctxDone ~> ~Running

\* A completion that was detected reaches the bus unless the process dies.
CompletionPublished ==
    \A c \in Chores :
        (lossless /\ Done(choreStatuses[c]) /\ ~told[c])
            ~> (told[c] \/ phase = "down")

\* docs/events.md: chore.all_completed "fires once per kid per day".
AllCompletedOncePerDay == AllCompletedWaiting \intersect announced = {}

\* docs/events.md: reward.redeemed says "A reward was redeemed".  A reward the
\* bridge saw open and then sees redeemed is announced, at least while every
\* process was stopped with nothing left to save.
RedemptionsAnnounced ==
    [][\A r \in Rewards :
          (lossless /\ rewardSeen[r] = "open" /\ rewardSeen'[r] = "redeemed") =>
              \E e \in allEvents' : e.type = "reward.redeemed" /\ e.subject = r]_vars

=============================================================================
