---------------------------- MODULE Poller_proofs ----------------------------
(***************************************************************************)
(* Proofs about Poller: type correctness, and one inductive invariant that *)
(* implies each safety invariant TLC checks, for every set of chores,      *)
(* rewards and kids, every bound, and any number of crashes, failed saves  *)
(* and restarts.                                                           *)
(***************************************************************************)
EXTENDS Poller, FiniteSetTheorems, TLAPS

InPoll == phase \in {"fetching", "publishing", "saving", "counting"}

\* What the phase says of the locals of poll().
PhaseInv ==
    /\ IF InPoll THEN today \in 1..day ELSE today = 0
    /\ ~InPoll => allEvents = {}
    /\ phase = "fetching" => allEvents = {}
    /\ phase # "publishing" => toPublish = {}

\* A poll has one event of a type about a subject.
UniqueInv ==
    \A e, f \in toPublish :
        e.type = f.type /\ e.subject = f.subject => e = f

\* Nothing reaches memory or file before the bus, nor ahead of the clock.
AnnouncedInv ==
    /\ \A key \in announced : key[1] <= day
    /\ mem.fired \subseteq announced
    /\ disk.fired \subseteq announced
    /\ allCompletedFired \subseteq announced \union AllCompletedWaiting
    /\ AllCompletedWaiting \subseteq allCompletedFired

\* The detector holds events Store.state does not know of.
Unsaved == phase = "publishing" /\ allEvents # {}

\* Store.state would make the same decisions as the detector.
MemoryInv ==
    (phase # "down" /\ ~Unsaved) =>
        /\ \A c \in Chores : Done(mem.chores[c]) <=> Done(choreStatuses[c])
        /\ Current(mem.fired) = Current(allCompletedFired)
        /\ \A r \in Rewards :
               rewardRedeemed[r] = "redeemed" => mem.rewards[r] = "redeemed"

\* What is saved, or about to be, is not announced again.
NoRepeatInv ==
    phase # "down" =>
        /\ Current(mem.fired) \subseteq allCompletedFired
        /\ AllCompletedWaiting \intersect mem.fired = {}
        /\ restored => /\ Current(disk.fired) \subseteq allCompletedFired
                       /\ AllCompletedWaiting \intersect disk.fired = {}

\* While no stop lost anything: every key announced is known, in the process
\* or, when there is none, in the file; and so is every chore that was told.
LosslessInv ==
    lossless =>
        IF phase = "down"
        THEN /\ Current(announced) \subseteq disk.fired
             /\ \A c \in Chores : told[c] <=> Done(disk.chores[c])
        ELSE /\ Current(announced) \subseteq allCompletedFired
             /\ AllCompletedWaiting \intersect announced = {}
             /\ ToldAsSeen

StatsInv ==
    /\ pollErrors <= 3 * totalPolls
    /\ pollErrors + apiErrors <= 3 * totalPolls \/ totalPolls = CounterCap

SafetyInv ==
    /\ PhaseInv
    /\ UniqueInv
    /\ AnnouncedInv
    /\ MemoryInv
    /\ NoRepeatInv
    /\ LosslessInv
    /\ StatsInv

-----------------------------------------------------------------------------
(* Type correctness.                                                       *)

\* What the API may answer; the detector is handed Listed(response).
LEMMA ListedTypes ==
    ASSUME NEW chores \in ChoreLists \union {Failed},
           NEW rewards \in RewardLists \union {Failed}
    PROVE  /\ Listed(chores) \in ChoreLists
           /\ Listed(rewards) \in RewardLists
<1>1. [i \in {} |-> i] \in [{} -> ChoreViews] /\ [i \in {} |-> i] \in [{} -> RewardViews]
  OBVIOUS
<1>2. [i \in {} |-> i] \in ChoreLists /\ [i \in {} |-> i] \in RewardLists
  BY <1>1 DEF ChoreLists, RewardLists
<1>3. QED
  BY <1>2, FailedAssumption DEF Listed

\* A listed item is a known id, seen in one of the views.
LEMMA ListMembers ==
    /\ \A list \in ChoreLists :
          /\ DOMAIN list \in SUBSET Chores
          /\ \A c \in DOMAIN list : list[c] \in ChoreViews
    /\ \A list \in RewardLists :
          /\ DOMAIN list \in SUBSET Rewards
          /\ \A r \in DOMAIN list : list[r] \in RewardViews
BY DEF ChoreLists, RewardLists

LEMMA EventMember ==
    ASSUME NEW type \in EventTypes, NEW names, NEW subject \in Subjects(type),
           NEW kid \in Kids \union {NoKid}
    PROVE  Event(type, subject, kid, names) \in Events
BY DEF Event, Events

LEMMA EventParts ==
    ASSUME NEW e \in Events
    PROVE  e.type \in EventTypes /\ e.subject \in Subjects(e.type)
BY DEF Events

LEMMA EventTypeOK ==
    ASSUME NEW chores \in ChoreLists, NEW rewards \in RewardLists,
           NEW now, NEW names
    PROVE  DetectedEvents(chores, rewards, now, names) \subseteq Events
<1>1. \A c \in DOMAIN chores : c \in Chores /\ chores[c].assignee \in Kids \union {NoKid}
  BY ListMembers, ViewAssumption
<1>2. \A r \in DOMAIN rewards : r \in Rewards /\ rewards[r].category \in Kids \union {NoKid}
  BY ListMembers, RewardViewAssumption
<1>3. ChoreEvents(chores, now, names) \subseteq Events
  <2>1. \A c \in Completed(chores) :
           Event("chore.completed", c, chores[c].assignee, names) \in Events
    BY <1>1, EventMember DEF Completed, EventTypes, Subjects
  <2>2. \A c \in Uncompleted(chores) :
           Event("chore.uncompleted", c, chores[c].assignee, names) \in Events
    BY <1>1, EventMember DEF Uncompleted, EventTypes, Subjects
  <2>3. \A k \in NewlyAllCompleted(chores, now) :
           Event("chore.all_completed", k, k, names) \in Events
    BY EventMember DEF NewlyAllCompleted, EventTypes, Subjects
  <2>4. QED
    BY <2>1, <2>2, <2>3 DEF ChoreEvents
<1>4. RewardEvents(rewards, names) \subseteq Events
  <2>1. \A r \in Redeemed(rewards) :
           Event("reward.redeemed", r, rewards[r].category, names) \in Events
    BY <1>2, EventMember DEF Redeemed, EventTypes, Subjects
  <2>2. QED
    BY <2>1 DEF RewardEvents
<1>5. QED
  BY <1>3, <1>4 DEF DetectedEvents

LEMMA CountType ==
    ASSUME allEvents \in SUBSET Events, NEW type
    PROVE  CountOf(type) \in Nat
<1> DEFINE Counted == {e.subject : e \in {e \in allEvents : e.type = type}}
<1>1. Counted \in SUBSET (Chores \union Rewards \union Kids)
  BY EventParts DEF EventTypes, Subjects
<1>2. IsFiniteSet(Chores \union Rewards \union Kids)
  <2>1. IsFiniteSet(Chores \union Rewards)
    BY FiniteAssumption, FS_Union
  <2>2. QED
    BY <2>1, FiniteAssumption, FS_Union
<1>3. QED
  BY <1>1, <1>2, FS_Subset, FS_CardinalityType DEF CountOf

LEMMA BumpType ==
    ASSUME NEW cap \in Nat, NEW counter \in 0..cap, NEW n \in Nat
    PROVE  Bump(counter, n, cap) \in 0..cap
BY DEF Bump

LEMMA EmptyStateType == EmptyState \in SavedStates
BY DEF EmptyState, SavedStates

LEMMA TypeInit == Init => TypeOK /\ PhaseInv
<1> SUFFICES ASSUME Init PROVE TypeOK /\ PhaseInv
  OBVIOUS
<1>1. ExportState = EmptyState
  BY DEF Init, ExportState, EmptyState
<1>2. day \in Days /\ today \in 0..MaxDay /\ totalPolls \in 0..CounterCap
      /\ pollErrors \in 0..(3 * CounterCap) /\ apiErrors \in 0..3
  BY BoundAssumption DEF Init, Days
<1>3. eventsByType \in [EventTypes -> 0..CounterCap]
  BY BoundAssumption DEF Init
<1>4. rewardSeen \in [Rewards -> RewardStates \union {NoEntry}]
  BY DEF Init, EmptyState
<1>5. TypeOK
  BY <1>1, <1>2, <1>3, <1>4, EmptyStateType DEF Init, TypeOK, Phases
<1>6. PhaseInv
  BY DEF Init, PhaseInv, InPoll
<1>7. QED
  BY <1>5, <1>6

LEMMA TypeDetect ==
    ASSUME TypeOK, PhaseInv,
           NEW chores \in ChoreLists \union {Failed},
           NEW rewards \in RewardLists \union {Failed},
           NEW categories \in (SUBSET Kids) \union {Failed},
           Detect(chores, rewards, categories)
    PROVE  TypeOK'
<1> DEFINE cs == Listed(chores)
           rs == Listed(rewards)
<1>1. cs \in ChoreLists /\ rs \in RewardLists
  BY ListedTypes
<1>2. choreStatuses' \in [Chores -> Statuses \union {NoEntry}]
  <2>1. choreStatuses \in [Chores -> Statuses \union {NoEntry}]
    BY DEF TypeOK, ExportState, SavedStates
  <2>2. QED
    BY <1>1, <2>1, ListMembers, ViewAssumption DEF Detect, DetectChores
<1>3. rewardRedeemed' \in [Rewards -> RewardStates \union {NoEntry}]
  <2>1. rewardRedeemed \in [Rewards -> RewardStates \union {NoEntry}]
    BY DEF TypeOK, ExportState, SavedStates
  <2>2. QED
    BY <1>1, <2>1, ListMembers, RewardViewAssumption DEF Detect, DetectRewards
<1>4. allCompletedFired' \in SUBSET (Days \X Kids)
  <2>1. today \in Days
    BY DEF TypeOK, PhaseInv, InPoll, Detect, Days
  <2>2. NewlyAllCompleted(cs, today) \subseteq Kids
    BY DEF NewlyAllCompleted
  <2>3. allCompletedFired \in SUBSET (Days \X Kids)
    BY DEF TypeOK, ExportState, SavedStates
  <2>4. QED
    BY <2>1, <2>2, <2>3 DEF Detect, DetectChores
<1>5. childNames' \in SUBSET Kids
  BY DEF TypeOK, Detect, SetChildNames
<1>6. allEvents' \in SUBSET Events /\ toPublish' \in SUBSET allEvents'
  BY <1>1, EventTypeOK DEF Detect
<1>7. apiErrors' \in 0..3
  BY DEF Detect, Err
<1>8. totalPolls' \in 0..CounterCap
  BY BumpType, BoundAssumption DEF TypeOK, Detect
<1>9. rewardSeen' \in [Rewards -> RewardStates \union {NoEntry}]
  <2>1. rewardSeen \in [Rewards -> RewardStates \union {NoEntry}]
    BY DEF TypeOK
  <2>2. \A r \in DOMAIN rs : rs[r] = rewards[r]
    BY DEF Listed
  <2>3. QED
    BY <1>1, <2>1, <2>2, ListMembers, RewardViewAssumption DEF Detect
<1>10. QED
  BY <1>2, <1>3, <1>4, <1>5, <1>6, <1>7, <1>8, <1>9
  DEF Detect, TypeOK, ExportState, SavedStates, Phases, storeVars

\* Every step keeps the types and the shape of the phases.
LEMMA TypeNext ==
    ASSUME TypeOK, PhaseInv, [Next]_vars
    PROVE  TypeOK' /\ PhaseInv'
<1>0. /\ day \in 1..MaxDay /\ today \in 0..MaxDay /\ MaxDay \in Nat
      /\ CounterCap \in Nat
  BY BoundAssumption DEF TypeOK, Days
<1>1. CASE BeginPoll
  <2>1. allCompletedFired' \in SUBSET (Days \X Kids)
    BY <1>1 DEF TypeOK, ExportState, SavedStates, BeginPoll, CleanupOldEntries
  <2>2. TypeOK'
    BY <1>1, <1>0, <2>1 DEF TypeOK, ExportState, SavedStates, Phases, BeginPoll,
                       storeVars, statsVars, historyVars
  <2>3. PhaseInv'
    BY <1>1, <1>0 DEF BeginPoll, PhaseInv, InPoll
  <2>4. QED
    BY <2>2, <2>3
<1>2. CASE AbortPoll
  <2>1. totalPolls' \in 0..CounterCap
    BY <1>2, <1>0, BumpType DEF TypeOK, AbortPoll
  <2>2. TypeOK'
    BY <1>2, <1>0, <2>1 DEF TypeOK, ExportState, Phases, AbortPoll, detectorVars,
                       storeVars, historyVars
  <2>3. PhaseInv'
    BY <1>2, <1>0 DEF AbortPoll, PhaseInv, InPoll
  <2>4. QED
    BY <2>2, <2>3
<1>3. CASE Detection
  <2>1. PICK chores \in ChoreLists \union {Failed},
             rewards \in RewardLists \union {Failed},
             categories \in (SUBSET Kids) \union {Failed} : Detect(chores, rewards, categories)
    BY <1>3 DEF Detection
  <2>2. TypeOK'
    BY <2>1, TypeDetect
  <2>3. PhaseInv'
    BY <2>1 DEF Detect, PhaseInv, InPoll
  <2>4. QED
    BY <2>2, <2>3
<1>4. ASSUME NEW e \in toPublish, Publish(e)
      PROVE  TypeOK' /\ PhaseInv'
  <2>1. today \in Days /\ phase = "publishing"
    BY <1>4, <1>0 DEF Publish, PhaseInv, InPoll, Days
  <2>2. e.type = "chore.all_completed" => announced' \in SUBSET (Days \X Kids)
    <3>1. e \in Events
      BY DEF TypeOK
    <3>2. e.type = "chore.all_completed" => e.subject \in Kids
      BY <3>1, EventParts DEF Subjects
    <3>3. QED
      BY <1>4, <2>1, <3>2 DEF TypeOK, Publish
  <2>3. told' \in [Chores -> BOOLEAN]
    BY <1>4 DEF TypeOK, Publish
  <2>4. TypeOK'
    BY <1>4, <2>2, <2>3 DEF TypeOK, ExportState, Publish, detectorVars,
                            storeVars, statsVars
  <2>5. PhaseInv'
    BY <1>4, <2>1 DEF Publish, PhaseInv, InPoll
  <2>6. QED
    BY <2>4, <2>5
<1>5. CASE UpdateMemory
  BY <1>5 DEF UpdateMemory, TypeOK, PhaseInv, InPoll, ExportState, Phases,
              detectorVars, pollVars, statsVars, historyVars
<1>6. CASE Save
  BY <1>6 DEF Save, TypeOK, PhaseInv, InPoll, ExportState, Phases,
              detectorVars, pollVars, statsVars, historyVars
<1>7. CASE FinishPoll
  <2>1. apiErrors \in Nat /\ 3 * CounterCap \in Nat
    BY <1>0 DEF TypeOK
  <2>2. pollErrors' \in 0..(3 * CounterCap)
    BY <1>7, <2>1, BumpType DEF TypeOK, FinishPoll
  <2>3. eventsByType' \in [EventTypes -> 0..CounterCap]
    <3>1. allEvents \in SUBSET Events
      BY DEF TypeOK
    <3>2. \A t \in EventTypes : Bump(eventsByType[t], CountOf(t), CounterCap)
                                     \in 0..CounterCap
      BY <3>1, <1>0, CountType, BumpType DEF TypeOK
    <3>3. QED
      BY <1>7, <3>2 DEF FinishPoll
  <2>4. TypeOK'
    BY <1>7, <1>0, <2>2, <2>3 DEF FinishPoll, TypeOK, ExportState, Phases,
                             detectorVars, storeVars, historyVars
  <2>5. PhaseInv'
    BY <1>7, <1>0 DEF FinishPoll, PhaseInv, InPoll
  <2>6. QED
    BY <2>4, <2>5
<1>8. CASE Exit
  BY <1>8 DEF Exit, TypeOK, PhaseInv, InPoll, ExportState, Phases,
              detectorVars, pollVars, storeVars, statsVars, historyVars
<1>9. CASE Start
  <2>1. mem' \in SavedStates
    BY <1>9, EmptyStateType DEF Start, Load, TypeOK
  <2>2. ExportState' = mem'
    BY <1>9, <2>1 DEF Start, Load, ImportState, ExportState, SavedStates
  <2>3. TypeOK'
    BY <1>9, <2>1, <2>2 DEF Start, Load, TypeOK, ImportState, Phases, pollVars, statsVars
  <2>4. PhaseInv'
    BY <1>9 DEF Start, Load, PhaseInv, InPoll, pollVars
  <2>5. QED
    BY <2>3, <2>4
<1>10. CASE Cancel
  BY <1>10 DEF Cancel, TypeOK, PhaseInv, InPoll, ExportState,
               detectorVars, pollVars, storeVars, statsVars, historyVars
<1>11. CASE ProcessEnds
  <2>1. ExportState' = EmptyState
    BY <1>11 DEF ProcessEnds, ImportState, ExportState, EmptyState
  <2>2. eventsByType' \in [EventTypes -> 0..CounterCap]
    BY <1>11, <1>0 DEF ProcessEnds
  <2>3. TypeOK'
    <3>1. /\ today' \in 0..MaxDay /\ totalPolls' \in 0..CounterCap
          /\ pollErrors' \in 0..(3 * CounterCap) /\ apiErrors' \in 0..3
      BY <1>11, <1>0 DEF ProcessEnds
    <3>2. allEvents' \in SUBSET Events /\ toPublish' \in SUBSET allEvents'
      BY <1>11 DEF ProcessEnds
    <3>3. childNames' \in SUBSET Kids /\ mem' \in SavedStates
      BY <1>11, EmptyStateType DEF ProcessEnds, ImportState
    <3>4. QED
      BY <1>11, <2>1, <2>2, <3>1, <3>2, <3>3, EmptyStateType
      DEF ProcessEnds, TypeOK, Phases
  <2>4. PhaseInv'
    BY <1>11 DEF ProcessEnds, PhaseInv, InPoll
  <2>5. QED
    BY <2>3, <2>4
<1>12. CASE SyncerSave
  BY <1>12 DEF SyncerSave, TypeOK, PhaseInv, InPoll, ExportState,
               detectorVars, pollVars, statsVars, historyVars
<1>13. CASE Midnight
  BY <1>13, <1>0 DEF Midnight, TypeOK, PhaseInv, InPoll, ExportState, Days,
               detectorVars, pollVars, storeVars, statsVars, historyVars
<1>14. CASE UNCHANGED vars
  BY <1>14 DEF vars, TypeOK, PhaseInv, InPoll, ExportState,
               detectorVars, pollVars, storeVars, statsVars, historyVars
<1>15. QED
  BY <1>1, <1>2, <1>3, <1>4, <1>5, <1>6, <1>7, <1>8, <1>9, <1>10, <1>11,
     <1>12, <1>13, <1>14 DEF Next, PollStep, Environment

\* Every variable keeps its type in every behaviour of the poller, for every
\* family, every response of the API and every bound (NewPoller, poll, Load).
THEOREM TypeCorrect == Spec => []TypeOK
<1>1. Init => TypeOK /\ PhaseInv
  BY TypeInit
<1>2. TypeOK /\ PhaseInv /\ [Next]_vars => (TypeOK /\ PhaseInv)'
  BY TypeNext
<1>3. QED
  BY <1>1, <1>2, PTL DEF Spec

-----------------------------------------------------------------------------
(* What one poll detects.                                                  *)

\* The events of a type are those of the detector's set for that type, one
\* per subject.
LEMMA DetectedByType ==
    ASSUME NEW chores \in ChoreLists, NEW rewards \in RewardLists,
           NEW now, NEW names
    PROVE  LET D == DetectedEvents(chores, rewards, now, names) IN
           /\ {e.subject : e \in {e \in D : e.type = "chore.completed"}}
                 = Completed(chores)
           /\ {e.subject : e \in {e \in D : e.type = "chore.uncompleted"}}
                 = Uncompleted(chores)
           /\ {e.subject : e \in {e \in D : e.type = "chore.all_completed"}}
                 = NewlyAllCompleted(chores, now)
           /\ {e.subject : e \in {e \in D : e.type = "reward.redeemed"}}
                 = Redeemed(rewards)
           /\ \A e, f \in D : e.type = f.type /\ e.subject = f.subject => e = f
<1> DEFINE D == DetectedEvents(chores, rewards, now, names)
<1>1. \A e : e \in D <=>
         \/ \E c \in Completed(chores) :
               e = Event("chore.completed", c, chores[c].assignee, names)
         \/ \E c \in Uncompleted(chores) :
               e = Event("chore.uncompleted", c, chores[c].assignee, names)
         \/ \E k \in NewlyAllCompleted(chores, now) :
               e = Event("chore.all_completed", k, k, names)
         \/ \E r \in Redeemed(rewards) :
               e = Event("reward.redeemed", r, rewards[r].category, names)
  BY DEF DetectedEvents, ChoreEvents, RewardEvents
<1>2. \A t, s, k : Event(t, s, k, names).type = t /\ Event(t, s, k, names).subject = s
  BY DEF Event
<1> HIDE DEF D
<1>3. {e.subject : e \in {e \in D : e.type = "chore.completed"}} = Completed(chores)
  BY <1>1, <1>2
<1>4. {e.subject : e \in {e \in D : e.type = "chore.uncompleted"}} = Uncompleted(chores)
  BY <1>1, <1>2
<1>5. {e.subject : e \in {e \in D : e.type = "chore.all_completed"}}
         = NewlyAllCompleted(chores, now)
  BY <1>1, <1>2
<1>6. {e.subject : e \in {e \in D : e.type = "reward.redeemed"}} = Redeemed(rewards)
  BY <1>1, <1>2
<1>7. \A e, f \in D : e.type = f.type /\ e.subject = f.subject => e = f
  BY <1>1, <1>2
<1>8. QED
  BY <1>3, <1>4, <1>5, <1>6, <1>7 DEF D

\* A poll takes over the statuses listed, so exactly the chores with an event
\* change sides between done and not done.
LEMMA DetectFlips ==
    ASSUME TypeOK, NEW chores \in ChoreLists, DetectChores(chores, today),
           NEW c \in Chores
    PROVE  /\ c \in Completed(chores) <=> Done(choreStatuses'[c]) /\ ~Done(choreStatuses[c])
           /\ c \in Uncompleted(chores) <=> ~Done(choreStatuses'[c]) /\ Done(choreStatuses[c])
<1>1. choreStatuses'[c] = IF c \in DOMAIN chores THEN chores[c].status ELSE choreStatuses[c]
  BY DEF DetectChores
<1>2. QED
  BY <1>1 DEF Completed, Uncompleted

LEMMA WaitingAfterDetect ==
    ASSUME TypeOK,
           NEW chores \in ChoreLists \union {Failed},
           NEW rewards \in RewardLists \union {Failed},
           NEW categories \in (SUBSET Kids) \union {Failed},
           Detect(chores, rewards, categories)
    PROVE  /\ AllCompletedWaiting' = {today} \X NewlyAllCompleted(Listed(chores), today)
           /\ allCompletedFired' = allCompletedFired \union AllCompletedWaiting'
           /\ \A c \in Chores :
                 /\ ChoreEventsWaiting(c, "chore.completed")' # {} <=>
                       Done(choreStatuses'[c]) /\ ~Done(choreStatuses[c])
                 /\ ChoreEventsWaiting(c, "chore.uncompleted")' # {} <=>
                       ~Done(choreStatuses'[c]) /\ Done(choreStatuses[c])
           /\ allEvents' = {} =>
                 \A r \in Rewards : rewardRedeemed'[r] = "redeemed" =>
                                        rewardRedeemed[r] = "redeemed"
           /\ UniqueInv'
<1> DEFINE cs == Listed(chores)
           rs == Listed(rewards)
<1>1. cs \in ChoreLists /\ rs \in RewardLists
  BY ListedTypes
<1>2. /\ allEvents' = DetectedEvents(cs, rs, today, childNames')
      /\ toPublish' = allEvents'
      /\ today' = today
      /\ DetectChores(cs, today)
      /\ DetectRewards(rs)
  BY DEF Detect
<1>3. /\ {e.subject : e \in {e \in toPublish' : e.type = "chore.completed"}} = Completed(cs)
      /\ {e.subject : e \in {e \in toPublish' : e.type = "chore.uncompleted"}} = Uncompleted(cs)
      /\ {e.subject : e \in {e \in toPublish' : e.type = "chore.all_completed"}}
            = NewlyAllCompleted(cs, today)
      /\ {e.subject : e \in {e \in toPublish' : e.type = "reward.redeemed"}} = Redeemed(rs)
      /\ \A e, f \in toPublish' : e.type = f.type /\ e.subject = f.subject => e = f
  BY <1>1, <1>2, DetectedByType
<1>4. AllCompletedWaiting' = {today} \X NewlyAllCompleted(cs, today)
  <2>1. AllCompletedWaiting' =
           {<<today, k>> : k \in {e.subject : e \in
                {e \in toPublish' : e.type = "chore.all_completed"}}}
    BY <1>2 DEF AllCompletedWaiting
  <2>2. QED
    BY <1>3, <2>1
<1>5. allCompletedFired' = allCompletedFired \union AllCompletedWaiting'
  BY <1>2, <1>4 DEF DetectChores
<1>6. ASSUME NEW c \in Chores
      PROVE  /\ ChoreEventsWaiting(c, "chore.completed")' # {} <=> c \in Completed(cs)
             /\ ChoreEventsWaiting(c, "chore.uncompleted")' # {} <=> c \in Uncompleted(cs)
  BY <1>3 DEF ChoreEventsWaiting
<1>7. ASSUME allEvents' = {}, NEW r \in Rewards, rewardRedeemed'[r] = "redeemed"
      PROVE  rewardRedeemed[r] = "redeemed"
  <2>1. r \notin Redeemed(rs)
    BY <1>2, <1>3, <1>7
  <2>2. rewardRedeemed'[r] = IF r \in DOMAIN rs THEN rs[r].state ELSE rewardRedeemed[r]
    BY <1>2 DEF DetectRewards
  <2>3. QED
    BY <1>7, <2>1, <2>2 DEF Redeemed
<1>8. QED
  BY <1>1, <1>2, <1>3, <1>4, <1>5, <1>6, <1>7, DetectFlips DEF UniqueInv

\* Publishing an event takes it, and no other of its type and subject, away.
LEMMA WaitingAfterPublish ==
    ASSUME TypeOK, UniqueInv, NEW e \in toPublish, Publish(e)
    PROVE  /\ UniqueInv'
           /\ AllCompletedWaiting' =
                 IF e.type = "chore.all_completed"
                 THEN AllCompletedWaiting \ {<<today, e.subject>>}
                 ELSE AllCompletedWaiting
           /\ \A key \in AllCompletedWaiting : key \in AllCompletedWaiting' \union announced'
           /\ announced' \subseteq announced \union AllCompletedWaiting
           /\ announced \subseteq announced'
           /\ AllCompletedWaiting' \intersect announced' \subseteq
                 AllCompletedWaiting \intersect announced
<1>1. toPublish' = toPublish \ {e} /\ today' = today
  BY DEF Publish
<1>2. UniqueInv'
  BY <1>1 DEF UniqueInv
<1>3. \A key : key \in AllCompletedWaiting' <=>
         \E f \in toPublish \ {e} : f.type = "chore.all_completed" /\ key = <<today, f.subject>>
  BY <1>1 DEF AllCompletedWaiting
<1>4. \A key : key \in AllCompletedWaiting <=>
         \E f \in toPublish : f.type = "chore.all_completed" /\ key = <<today, f.subject>>
  BY DEF AllCompletedWaiting
<1>5. AllCompletedWaiting' =
         IF e.type = "chore.all_completed"
         THEN AllCompletedWaiting \ {<<today, e.subject>>}
         ELSE AllCompletedWaiting
  <2>1. CASE e.type = "chore.all_completed"
    <3>1. \A f \in toPublish \ {e} : f.type = "chore.all_completed" =>
             f.subject # e.subject
      BY <2>1 DEF UniqueInv
    <3>2. <<today, e.subject>> \notin AllCompletedWaiting'
      BY <1>3, <3>1
    <3>3. QED
      BY <1>3, <1>4, <2>1, <3>2
  <2>2. CASE e.type # "chore.all_completed"
    BY <1>3, <1>4, <2>2
  <2>3. QED
    BY <2>1, <2>2
<1>6. announced' = IF e.type = "chore.all_completed"
                   THEN announced \union {<<today, e.subject>>}
                   ELSE announced
  BY DEF Publish
<1>7. e.type = "chore.all_completed" => <<today, e.subject>> \in AllCompletedWaiting
  BY <1>4
<1>8. QED
  BY <1>2, <1>5, <1>6, <1>7

LEMMA WaitingEmpty ==
    /\ toPublish = {} => AllCompletedWaiting = {}
    /\ toPublish' = {} => AllCompletedWaiting' = {}
    /\ \A c, type : toPublish = {} => ChoreEventsWaiting(c, type) = {}
    /\ \A c, type : toPublish' = {} => ChoreEventsWaiting(c, type)' = {}
BY DEF AllCompletedWaiting, ChoreEventsWaiting

-----------------------------------------------------------------------------
(* The invariant behind the safety properties.                             *)

LEMMA SafetyInit == Init => SafetyInv
<1> SUFFICES ASSUME Init PROVE SafetyInv
  OBVIOUS
<1>1. PhaseInv
  BY TypeInit
<1>2. UniqueInv /\ MemoryInv /\ NoRepeatInv /\ StatsInv
  BY BoundAssumption DEF Init, UniqueInv, MemoryInv, NoRepeatInv, StatsInv
<1>3. AnnouncedInv
  BY WaitingEmpty DEF Init, AnnouncedInv, EmptyState
<1>4. \A c \in Chores : told[c] <=> Done(disk.chores[c])
  BY DEF Init, EmptyState, Done
<1>5. LosslessInv
  BY <1>4 DEF Init, LosslessInv, Current
<1>6. QED
  BY <1>1, <1>2, <1>3, <1>5 DEF SafetyInv

LEMMA SafetyBeginPoll ==
    ASSUME TypeOK, SafetyInv, BeginPoll
    PROVE  SafetyInv'
<1>0. /\ day \in Nat /\ Horizon = day /\ Horizon' = day
      /\ toPublish = {} /\ toPublish' = {} /\ allEvents = {}
      /\ phase # "down" /\ phase' # "down" /\ ~Unsaved /\ ~Unsaved'
  BY DEF TypeOK, Days, SafetyInv, PhaseInv, InPoll, BeginPoll, Horizon, Unsaved
<1>1. AllCompletedWaiting = {} /\ AllCompletedWaiting' = {}
  BY <1>0, WaitingEmpty
<1>2. PhaseInv'
  BY TypeNext DEF SafetyInv, Next, PollStep
<1>3. UniqueInv'
  BY <1>0 DEF UniqueInv
<1>4. AnnouncedInv'
  BY <1>1 DEF SafetyInv, AnnouncedInv, BeginPoll, CleanupOldEntries, storeVars,
              historyVars
\* No key is ahead of the clock, so the clean-up drops only keys of the past.
<1>5. \A key \in announced : key[1] \in Nat /\ key[1] <= day
  BY DEF TypeOK, Days, SafetyInv, AnnouncedInv
<1>6. ASSUME NEW keys \in SUBSET announced
      PROVE  {key \in keys : key[1] >= day} = {key \in keys : key[1] = day}
  BY <1>0, <1>5
<1>7. /\ mem.fired \subseteq announced /\ disk.fired \subseteq announced
      /\ allCompletedFired \subseteq announced
      /\ mem' = mem /\ disk' = disk /\ announced' = announced
      /\ allCompletedFired' = {key \in allCompletedFired : key[1] = day}
      /\ choreStatuses' = choreStatuses /\ rewardRedeemed' = rewardRedeemed
      /\ told' = told /\ lossless' = lossless /\ restored' = restored
  BY <1>1 DEF SafetyInv, AnnouncedInv, BeginPoll, CleanupOldEntries, storeVars,
              historyVars
<1>8. /\ Current(mem.fired)' = {key \in mem.fired : key[1] = day}
      /\ Current(disk.fired)' = {key \in disk.fired : key[1] = day}
      /\ Current(announced)' = {key \in announced : key[1] = day}
      /\ Current(allCompletedFired)' = {key \in allCompletedFired : key[1] = day}
      /\ Current(mem.fired) = {key \in mem.fired : key[1] = day}
      /\ Current(disk.fired) = {key \in disk.fired : key[1] = day}
      /\ Current(announced) = {key \in announced : key[1] = day}
      /\ Current(allCompletedFired) = {key \in allCompletedFired : key[1] = day}
  BY <1>0, <1>6, <1>7 DEF Current
<1>9. MemoryInv'
  BY <1>0, <1>7, <1>8 DEF SafetyInv, MemoryInv
<1>10. NoRepeatInv'
  BY <1>0, <1>1, <1>7, <1>8 DEF SafetyInv, NoRepeatInv
<1>11. LosslessInv'
  <2>1. ToldAsSeen => ToldAsSeen'
    BY <1>0, <1>7, WaitingEmpty DEF ToldAsSeen
  <2>2. QED
    BY <1>0, <1>1, <1>7, <1>8, <2>1 DEF SafetyInv, LosslessInv
<1>12. StatsInv'
  BY DEF SafetyInv, StatsInv, BeginPoll, statsVars
<1>13. QED
  BY <1>2, <1>3, <1>4, <1>9, <1>10, <1>11, <1>12 DEF SafetyInv

\* The steps that only move the phase or the clock on: nothing is detected,
\* published, exported or saved, and fewer keys are current than before.
LEMMA SafetyMoveOn ==
    ASSUME TypeOK, SafetyInv, [Next]_vars, StatsInv',
           UNCHANGED <<choreStatuses, rewardRedeemed, allCompletedFired, mem, disk,
                       told, announced, restored, lossless, toPublish>>,
           toPublish # {} => today' = today,
           Horizon \in Int, Horizon' \in Int, Horizon' >= Horizon, day' >= day,
           phase = "down" <=> phase' = "down",
           Unsaved => Unsaved'
    PROVE  SafetyInv'
<1>1. TypeOK' /\ PhaseInv'
  BY TypeNext DEF SafetyInv
<1>2. AllCompletedWaiting' = AllCompletedWaiting
  BY WaitingEmpty DEF AllCompletedWaiting
<1>3. \A key \in announced : key[1] \in Int
  BY DEF TypeOK, Days
<1>4. day \in Int /\ day' \in Int
  BY <1>1 DEF TypeOK, Days
<1>5. AnnouncedInv'
  BY <1>2, <1>3, <1>4 DEF SafetyInv, AnnouncedInv
<1>6. /\ \A key \in mem.fired : key[1] \in Int
      /\ \A key \in disk.fired : key[1] \in Int
      /\ \A key \in allCompletedFired : key[1] \in Int
  BY DEF TypeOK, ExportState, SavedStates, Days
<1>7. /\ Current(mem.fired)' = {key \in Current(mem.fired) : key[1] >= Horizon'}
      /\ Current(disk.fired)' = {key \in Current(disk.fired) : key[1] >= Horizon'}
      /\ Current(announced)' = {key \in Current(announced) : key[1] >= Horizon'}
      /\ Current(allCompletedFired)' =
             {key \in Current(allCompletedFired) : key[1] >= Horizon'}
  BY <1>3, <1>6 DEF Current
<1>8. MemoryInv'
  BY <1>7 DEF SafetyInv, MemoryInv
<1>9. NoRepeatInv'
  BY <1>2, <1>7 DEF SafetyInv, NoRepeatInv
<1>10. ToldAsSeen => ToldAsSeen'
  BY DEF ToldAsSeen, ChoreEventsWaiting
<1>11. LosslessInv'
  BY <1>2, <1>7, <1>10 DEF SafetyInv, LosslessInv
<1>12. UniqueInv'
  BY DEF SafetyInv, UniqueInv
<1>13. QED
  BY <1>1, <1>5, <1>8, <1>9, <1>11, <1>12 DEF SafetyInv

LEMMA SafetyQuietSteps ==
    ASSUME TypeOK, SafetyInv,
           \/ AbortPoll \/ FinishPoll \/ Exit \/ Cancel \/ Midnight
           \/ UNCHANGED vars
    PROVE  SafetyInv'
<1>0. /\ day \in Nat /\ today \in Nat /\ CounterCap \in Nat
      /\ totalPolls \in Nat /\ pollErrors \in Nat /\ apiErrors \in 0..3
      /\ pollErrors <= 3 * CounterCap /\ totalPolls <= CounterCap
      /\ today <= day
  BY BoundAssumption DEF TypeOK, Days, SafetyInv, PhaseInv, InPoll
<1>1. CASE AbortPoll
  <2>1. StatsInv'
    BY <1>0, <1>1 DEF AbortPoll, SafetyInv, StatsInv, Bump
  <2>2. /\ UNCHANGED <<choreStatuses, rewardRedeemed, allCompletedFired, mem, disk,
                       told, announced, restored, lossless, toPublish, day>>
        /\ phase = "fetching" /\ phase' = "select" /\ today' = 0 /\ toPublish = {}
    BY <1>1 DEF AbortPoll, detectorVars, storeVars, historyVars, SafetyInv, PhaseInv
  <2>3. Horizon \in Int /\ Horizon' \in Int /\ Horizon' >= Horizon
    BY <1>0, <2>2 DEF Horizon
  <2>4. QED
    BY <1>0, <1>1, <2>1, <2>2, <2>3, SafetyMoveOn DEF Next, PollStep, Unsaved
<1>2. CASE FinishPoll
  <2>1. StatsInv'
    BY <1>0, <1>2 DEF FinishPoll, SafetyInv, StatsInv, Bump
  <2>2. /\ UNCHANGED <<choreStatuses, rewardRedeemed, allCompletedFired, mem, disk,
                       told, announced, restored, lossless, toPublish, day>>
        /\ phase # "down" /\ phase' = "select" /\ today' = 0 /\ toPublish = {} /\ ~Unsaved
    BY <1>2 DEF FinishPoll, detectorVars, storeVars, historyVars, SafetyInv,
                PhaseInv, TypeOK, Unsaved
  <2>3. Horizon \in Int /\ Horizon' \in Int /\ Horizon' >= Horizon
    BY <1>0, <2>2 DEF Horizon
  <2>4. QED
    BY <1>0, <1>2, <2>1, <2>2, <2>3, SafetyMoveOn DEF Next, PollStep
<1>3. CASE Exit \/ Cancel \/ Midnight \/ UNCHANGED vars
  <2>1. /\ UNCHANGED <<choreStatuses, rewardRedeemed, allCompletedFired, mem, disk,
                       told, announced, restored, lossless, toPublish, today,
                       allEvents, apiErrors, pollErrors, totalPolls>>
        /\ day' = day \/ day' = day + 1
    BY <1>3 DEF Exit, Cancel, Midnight, vars, detectorVars, storeVars, statsVars,
                pollVars, historyVars
  <2>2. phase = "down" <=> phase' = "down"
    BY <1>3 DEF Exit, Cancel, Midnight, vars
  <2>3. Unsaved => Unsaved'
    BY <1>3, <2>1 DEF Exit, Cancel, Midnight, vars, Unsaved
  <2>4. StatsInv'
    BY <2>1 DEF SafetyInv, StatsInv
  <2>5. Horizon \in Int /\ Horizon' \in Int /\ Horizon' >= Horizon /\ day' >= day
    BY <1>0, <2>1 DEF Horizon
  <2>6. [Next]_vars
    BY <1>3 DEF Next, Environment
  <2>7. QED
    BY <2>1, <2>2, <2>3, <2>4, <2>5, <2>6, SafetyMoveOn
<1>4. QED
  BY <1>1, <1>2, <1>3

LEMMA SafetyDetect ==
    ASSUME TypeOK, SafetyInv,
           NEW chores \in ChoreLists \union {Failed},
           NEW rewards \in RewardLists \union {Failed},
           NEW categories \in (SUBSET Kids) \union {Failed},
           Detect(chores, rewards, categories)
    PROVE  SafetyInv'
<1> DEFINE newly == NewlyAllCompleted(Listed(chores), today)
<1>0. Detection /\ [Next]_vars
  BY DEF Detection, Next, PollStep
<1>1. TypeOK' /\ PhaseInv'
  BY <1>0, TypeNext DEF SafetyInv
<1>2. /\ phase = "fetching" /\ phase' = "publishing"
      /\ UNCHANGED <<mem, disk, told, announced, restored, lossless, today, day>>
      /\ toPublish' = allEvents' /\ toPublish = {}
      /\ today \in Nat \ {0}
  BY DEF Detect, storeVars, SafetyInv, PhaseInv, InPoll, TypeOK
<1>3. Horizon = today /\ Horizon' = today
  BY <1>2 DEF Horizon
<1>4. /\ AllCompletedWaiting' = {today} \X newly
      /\ allCompletedFired' = allCompletedFired \union AllCompletedWaiting'
      /\ AllCompletedWaiting = {}
  BY <1>2, WaitingAfterDetect, WaitingEmpty
\* The keys waiting are current ones that had not fired.
<1>5. \A key \in AllCompletedWaiting' : key[1] = today /\ key \notin allCompletedFired
  BY <1>4 DEF NewlyAllCompleted
<1>6. UniqueInv'
  BY WaitingAfterDetect
<1>7. AnnouncedInv'
  BY <1>2, <1>4 DEF SafetyInv, AnnouncedInv
<1>8. MemoryInv'
  <2>1. CASE allEvents' = {}
    <3>1. AllCompletedWaiting' = {} /\ allCompletedFired' = allCompletedFired
      BY <1>2, <1>4, <2>1, WaitingEmpty
    <3>2. \A c \in Chores : Done(choreStatuses'[c]) <=> Done(choreStatuses[c])
      BY <1>2, <2>1, WaitingAfterDetect, WaitingEmpty
    <3>3. \A r \in Rewards : rewardRedeemed'[r] = "redeemed" =>
                                rewardRedeemed[r] = "redeemed"
      BY <2>1, WaitingAfterDetect
    <3>4. QED
      BY <1>2, <1>3, <3>1, <3>2, <3>3 DEF SafetyInv, MemoryInv, Unsaved, Current
  <2>2. CASE allEvents' # {}
    BY <1>2, <2>2 DEF MemoryInv, Unsaved
  <2>3. QED
    BY <2>1, <2>2
<1>9. NoRepeatInv'
  <2>1. \A key \in AllCompletedWaiting' : key[1] >= Horizon
    BY <1>2, <1>3, <1>5
  <2>2. /\ Current(mem.fired)' = Current(mem.fired)
        /\ Current(disk.fired)' = Current(disk.fired)
    BY <1>2, <1>3 DEF Current
  <2>3. Current(mem.fired) \subseteq allCompletedFired
    BY <1>2 DEF SafetyInv, NoRepeatInv
  <2>4. AllCompletedWaiting' \intersect mem.fired = {}
    BY <1>5, <2>1, <2>3 DEF Current
  <2>5. restored => AllCompletedWaiting' \intersect disk.fired = {}
    BY <1>2, <1>5, <2>1 DEF Current, SafetyInv, NoRepeatInv
  <2>6. QED
    BY <1>2, <1>4, <2>2, <2>3, <2>4, <2>5 DEF SafetyInv, NoRepeatInv
<1>10. LosslessInv'
  <2>1. SUFFICES ASSUME lossless PROVE LosslessInv'
    BY <1>2 DEF LosslessInv
  <2>2. Current(announced) \subseteq allCompletedFired /\ ToldAsSeen
    BY <1>2, <2>1 DEF SafetyInv, LosslessInv
  <2>3. Current(announced)' = Current(announced)
    BY <1>2, <1>3 DEF Current
  <2>4. \A key \in AllCompletedWaiting' : key \notin announced
    BY <1>2, <1>3, <1>5, <2>2 DEF Current
  <2>5. \A c \in Chores : told[c] <=> Done(choreStatuses[c])
    <3>1. told \in [Chores -> BOOLEAN]
      BY DEF TypeOK
    <3>2. QED
      BY <1>2, <2>1, <2>2, <3>1, WaitingEmpty DEF ToldAsSeen
  <2>6. ToldAsSeen'
    <3>1. \A c \in Chores : told'[c] <=> Done(choreStatuses[c])
      BY <1>2, <2>5
    <3>2. QED
      BY <3>1, WaitingAfterDetect DEF ToldAsSeen
  <2>7. QED
    BY <1>2, <1>4, <2>2, <2>3, <2>4, <2>6 DEF LosslessInv
<1>11. StatsInv'
  <2>1. /\ totalPolls \in 0..CounterCap /\ pollErrors \in Nat /\ CounterCap \in Nat
        /\ apiErrors' \in 0..3 /\ pollErrors' = pollErrors
        /\ totalPolls' = Bump(totalPolls, 1, CounterCap)
    BY <1>1, BoundAssumption DEF TypeOK, Detect
  <2>2. pollErrors <= 3 * totalPolls
    BY DEF SafetyInv, StatsInv
  <2>3. totalPolls' = totalPolls + 1 \/ totalPolls' = CounterCap
    BY <2>1 DEF Bump
  <2>4. totalPolls' \in Nat /\ totalPolls' >= totalPolls
    BY <2>1 DEF Bump
  <2>5. QED
    BY <2>1, <2>2, <2>3, <2>4 DEF StatsInv
<1>12. QED
  BY <1>1, <1>6, <1>7, <1>8, <1>9, <1>10, <1>11 DEF SafetyInv

LEMMA SafetyPublish ==
    ASSUME TypeOK, SafetyInv, NEW e \in toPublish, Publish(e)
    PROVE  SafetyInv'
<1>0. [Next]_vars
  BY DEF Next, PollStep
<1>1. TypeOK' /\ PhaseInv'
  BY <1>0, TypeNext DEF SafetyInv
<1>2. /\ phase = "publishing" /\ phase' = "publishing"
      /\ UNCHANGED <<choreStatuses, rewardRedeemed, allCompletedFired, mem, disk,
                     restored, lossless, today, day, allEvents>>
      /\ today \in 1..day /\ day \in Nat
      /\ toPublish' = toPublish \ {e}
      /\ allEvents # {}
  BY DEF Publish, detectorVars, storeVars, SafetyInv, PhaseInv, InPoll, TypeOK, Days
<1>3. Horizon = today /\ Horizon' = today
  BY <1>2 DEF Horizon
<1>4. /\ UniqueInv'
      /\ AllCompletedWaiting' \subseteq AllCompletedWaiting
      /\ AllCompletedWaiting \subseteq AllCompletedWaiting' \union announced'
      /\ announced' \subseteq announced \union AllCompletedWaiting
      /\ announced \subseteq announced'
      /\ AllCompletedWaiting' \intersect announced' \subseteq
            AllCompletedWaiting \intersect announced
  BY WaitingAfterPublish DEF SafetyInv
<1>5. \A key \in AllCompletedWaiting : key[1] = today
  BY DEF AllCompletedWaiting
<1>6. AnnouncedInv'
  BY <1>2, <1>4, <1>5 DEF SafetyInv, AnnouncedInv
<1>7. MemoryInv'
  BY <1>2 DEF MemoryInv, Unsaved
<1>8. NoRepeatInv'
  <2>1. /\ Current(mem.fired)' = Current(mem.fired)
        /\ Current(disk.fired)' = Current(disk.fired)
    BY <1>2, <1>3 DEF Current
  <2>2. QED
    BY <1>2, <1>4, <2>1 DEF SafetyInv, NoRepeatInv
<1>9. LosslessInv'
  <2>1. SUFFICES ASSUME lossless PROVE LosslessInv'
    BY <1>2 DEF LosslessInv
  <2>2. /\ Current(announced) \subseteq allCompletedFired
        /\ AllCompletedWaiting \intersect announced = {}
        /\ ToldAsSeen
    BY <1>2, <2>1 DEF SafetyInv, LosslessInv
  <2>3. Current(announced)' \subseteq allCompletedFired'
    <3>1. AllCompletedWaiting \subseteq allCompletedFired
      BY DEF SafetyInv, AnnouncedInv
    <3>2. QED
      BY <1>2, <1>3, <1>4, <2>2, <3>1 DEF Current
  <2>4. ToldAsSeen'
    <3>1. SUFFICES ASSUME NEW c \in Chores
                   PROVE  /\ (Done(choreStatuses[c]) /\ ~told'[c]) <=>
                                ChoreEventsWaiting(c, "chore.completed")' # {}
                          /\ (~Done(choreStatuses[c]) /\ told'[c]) <=>
                                ChoreEventsWaiting(c, "chore.uncompleted")' # {}
      BY <1>2 DEF ToldAsSeen
    <3>2. /\ (Done(choreStatuses[c]) /\ ~told[c]) <=>
               ChoreEventsWaiting(c, "chore.completed") # {}
          /\ (~Done(choreStatuses[c]) /\ told[c]) <=>
               ChoreEventsWaiting(c, "chore.uncompleted") # {}
      BY <1>2, <2>1, <2>2 DEF ToldAsSeen
    <3>3. \A type : ChoreEventsWaiting(c, type)' = ChoreEventsWaiting(c, type) \ {e}
      BY <1>2 DEF ChoreEventsWaiting
    <3>4. CASE e.subject = c /\ e.type \in {"chore.completed", "chore.uncompleted"}
      <4>1. /\ e \in ChoreEventsWaiting(c, e.type)
            /\ \A f \in ChoreEventsWaiting(c, e.type) : f = e
        BY <3>4 DEF ChoreEventsWaiting, SafetyInv, UniqueInv
      <4>2. told'[c] = (e.type = "chore.completed")
        BY <3>4 DEF Publish
      <4>3. QED
        BY <3>2, <3>3, <3>4, <4>1, <4>2
    <3>5. CASE ~(e.subject = c /\ e.type \in {"chore.completed", "chore.uncompleted"})
      <4>1. told'[c] = told[c]
        BY <3>5 DEF Publish
      <4>2. /\ e \notin ChoreEventsWaiting(c, "chore.completed")
            /\ e \notin ChoreEventsWaiting(c, "chore.uncompleted")
        BY <3>5 DEF ChoreEventsWaiting
      <4>3. QED
        BY <3>2, <3>3, <4>1, <4>2
    <3>6. QED
      BY <3>4, <3>5
  <2>5. QED
    BY <1>2, <1>4, <2>2, <2>3, <2>4 DEF LosslessInv
<1>10. StatsInv'
  BY DEF Publish, SafetyInv, StatsInv, statsVars
<1>11. QED
  BY <1>1, <1>4, <1>6, <1>7, <1>8, <1>9, <1>10 DEF SafetyInv

\* UpdateState: memory takes over the detector, then the file takes over memory.
LEMMA SafetyStoreSteps ==
    ASSUME TypeOK, SafetyInv, UpdateMemory \/ Save \/ SyncerSave
    PROVE  SafetyInv'
<1>0. [Next]_vars
  BY DEF Next, PollStep, Environment
<1>1. TypeOK' /\ PhaseInv'
  BY <1>0, TypeNext DEF SafetyInv
<1>2. /\ UNCHANGED <<choreStatuses, rewardRedeemed, allCompletedFired, told,
                     announced, restored, lossless, today, day, toPublish,
                     allEvents, totalPolls, pollErrors, apiErrors>>
      /\ phase # "down" /\ phase' # "down"
  BY DEF UpdateMemory, Save, SyncerSave, detectorVars, pollVars, statsVars,
         historyVars
<1>3. /\ AllCompletedWaiting' = AllCompletedWaiting
      /\ Horizon' = Horizon
      /\ Current(announced)' = Current(announced)
      /\ Current(allCompletedFired)' = Current(allCompletedFired)
  BY <1>2 DEF AllCompletedWaiting, Horizon, Current
<1>4. \/ UpdateMemory /\ mem' = ExportState /\ disk' = disk /\ AllCompletedWaiting = {}
      \/ mem' = mem /\ disk' \in {mem, disk} /\ (Unsaved' <=> Unsaved)
  BY WaitingEmpty, <1>2 DEF UpdateMemory, Save, SyncerSave, Unsaved
<1>5. UniqueInv' /\ StatsInv'
  BY <1>2 DEF SafetyInv, UniqueInv, StatsInv
<1>6. AnnouncedInv'
  BY <1>2, <1>3, <1>4 DEF SafetyInv, AnnouncedInv, ExportState
<1>7. MemoryInv'
  <2>1. CASE UpdateMemory
    <3>1. /\ mem'.chores = choreStatuses /\ mem'.rewards = rewardRedeemed
          /\ mem'.fired = allCompletedFired
      BY <2>1 DEF UpdateMemory, ExportState
    <3>2. QED
      BY <1>2, <1>3, <3>1 DEF MemoryInv, Current
  <2>2. CASE mem' = mem /\ (Unsaved' <=> Unsaved)
    BY <1>2, <1>3, <2>2 DEF SafetyInv, MemoryInv, Current
  <2>3. QED
    BY <1>4, <2>1, <2>2
<1>8. NoRepeatInv'
  <2>1. /\ Current(mem.fired) \subseteq allCompletedFired
        /\ AllCompletedWaiting \intersect mem.fired = {}
        /\ restored => /\ Current(disk.fired) \subseteq allCompletedFired
                       /\ AllCompletedWaiting \intersect disk.fired = {}
    BY <1>2 DEF SafetyInv, NoRepeatInv
  <2>2. CASE mem' = ExportState /\ disk' = disk /\ AllCompletedWaiting = {}
    <3>1. mem'.fired = allCompletedFired
      BY <2>2 DEF ExportState
    <3>2. QED
      BY <1>2, <1>3, <2>1, <2>2, <3>1 DEF NoRepeatInv, Current
  <2>3. CASE mem' = mem /\ disk' \in {mem, disk}
    BY <1>2, <1>3, <2>1, <2>3 DEF NoRepeatInv, Current
  <2>4. QED
    BY <1>4, <2>2, <2>3
<1>9. ToldAsSeen => ToldAsSeen'
  BY <1>2 DEF ToldAsSeen, ChoreEventsWaiting
<1>10. LosslessInv'
  BY <1>2, <1>3, <1>9 DEF SafetyInv, LosslessInv
<1>11. QED
  BY <1>1, <1>5, <1>6, <1>7, <1>8, <1>10 DEF SafetyInv

LEMMA SafetyStart ==
    ASSUME TypeOK, SafetyInv, Start
    PROVE  SafetyInv'
<1>0. [Next]_vars
  BY DEF Next, Environment
<1>1. TypeOK' /\ PhaseInv'
  BY <1>0, TypeNext DEF SafetyInv
<1>2. /\ phase = "down" /\ phase' = "starting"
      /\ UNCHANGED <<disk, told, announced, today, day, toPublish, allEvents,
                     totalPolls, pollErrors, apiErrors>>
      /\ mem' = (IF restored' THEN disk ELSE EmptyState)
      /\ choreStatuses' = mem'.chores /\ rewardRedeemed' = mem'.rewards
      /\ allCompletedFired' = mem'.fired
      /\ lossless' = (lossless /\ restored') /\ restored' \in BOOLEAN
      /\ toPublish = {} /\ allEvents = {}
  BY DEF Start, Load, ImportState, pollVars, statsVars, SafetyInv, PhaseInv, InPoll
<1>3. AllCompletedWaiting = {} /\ AllCompletedWaiting' = {} /\ Horizon' = Horizon
  BY <1>2, WaitingEmpty DEF Horizon
<1>4. UniqueInv' /\ StatsInv'
  BY <1>2 DEF SafetyInv, UniqueInv, StatsInv
<1>5. mem'.fired \subseteq announced
  BY <1>2 DEF SafetyInv, AnnouncedInv, EmptyState
<1>6. AnnouncedInv'
  BY <1>2, <1>3, <1>5 DEF SafetyInv, AnnouncedInv
<1>7. MemoryInv' /\ NoRepeatInv'
  BY <1>2, <1>3 DEF MemoryInv, NoRepeatInv, Current
<1>8. LosslessInv'
  <2>1. SUFFICES ASSUME lossless' PROVE LosslessInv'
    BY DEF LosslessInv
  <2>2. /\ restored' /\ mem' = disk
        /\ Current(announced) \subseteq disk.fired
        /\ \A c \in Chores : told[c] <=> Done(disk.chores[c])
    BY <1>2, <2>1 DEF SafetyInv, LosslessInv
  <2>3. ToldAsSeen'
    BY <1>2, <2>2, WaitingEmpty DEF ToldAsSeen
  <2>4. QED
    BY <1>2, <1>3, <2>2, <2>3 DEF LosslessInv, Current
<1>9. QED
  BY <1>1, <1>4, <1>6, <1>7, <1>8 DEF SafetyInv

\* The one step that may lose something; at a safe point it does not.
LEMMA SafetyProcessEnds ==
    ASSUME TypeOK, SafetyInv, ProcessEnds
    PROVE  SafetyInv'
<1>0. [Next]_vars
  BY DEF Next, Environment
<1>1. TypeOK' /\ PhaseInv'
  BY <1>0, TypeNext DEF SafetyInv
<1>2. /\ phase # "down" /\ phase' = "down"
      /\ UNCHANGED <<disk, told, announced, day, restored>>
      /\ mem' = EmptyState /\ allCompletedFired' = {} /\ toPublish' = {}
      /\ lossless' = (lossless /\ SafePoint) /\ today' = 0
      /\ totalPolls' = 0 /\ pollErrors' = 0 /\ apiErrors' = 0
  BY DEF ProcessEnds, ImportState, EmptyState
<1>3. UniqueInv' /\ StatsInv' /\ MemoryInv' /\ NoRepeatInv'
  BY <1>2 DEF UniqueInv, StatsInv, MemoryInv, NoRepeatInv
<1>4. AnnouncedInv'
  BY <1>2, WaitingEmpty DEF SafetyInv, AnnouncedInv, EmptyState
<1>5. LosslessInv'
  <2>1. SUFFICES ASSUME lossless, SafePoint PROVE LosslessInv'
    BY <1>2 DEF LosslessInv
  <2>2. mem = disk /\ ~Unsaved /\ toPublish = {}
    BY <2>1 DEF SafePoint, Unsaved, TypeOK, SafetyInv, PhaseInv
  <2>3. /\ \A c \in Chores : Done(disk.chores[c]) <=> Done(choreStatuses[c])
        /\ Current(disk.fired) = Current(allCompletedFired)
    BY <1>2, <2>2 DEF SafetyInv, MemoryInv
  <2>4. Current(announced) \subseteq allCompletedFired /\ ToldAsSeen
    BY <1>2, <2>1 DEF SafetyInv, LosslessInv
  <2>5. Current(announced)' \subseteq disk'.fired
    <3>1. day \in Nat /\ today \in Nat /\ today <= day /\ Horizon' = day
      BY <1>2 DEF TypeOK, Days, SafetyInv, PhaseInv, InPoll, Horizon
    <3>2. Horizon \in Nat /\ Horizon <= Horizon'
      BY <3>1 DEF Horizon
    <3>3. \A key \in announced : key[1] \in Nat
      BY DEF TypeOK, Days
    <3>4. Current(announced)' \subseteq Current(announced)
      BY <1>2, <3>1, <3>2, <3>3 DEF Current
    <3>5. Current(announced) \subseteq Current(allCompletedFired)
      BY <2>4 DEF Current
    <3>6. QED
      BY <1>2, <2>3, <3>4, <3>5 DEF Current
  <2>6. \A c \in Chores : told[c] <=> Done(disk.chores[c])
    <3>1. told \in [Chores -> BOOLEAN]
      BY DEF TypeOK
    <3>2. QED
      BY <1>2, <2>1, <2>2, <2>3, <2>4, <3>1, WaitingEmpty DEF ToldAsSeen
  <2>7. QED
    BY <1>2, <2>5, <2>6 DEF LosslessInv
<1>6. QED
  BY <1>1, <1>3, <1>4, <1>5 DEF SafetyInv

\* The inductive invariant: every step of poll(), of the process and of its
\* environment keeps the detector, Store, the file and the bus in step.
THEOREM SafetyInvariant == Spec => [](TypeOK /\ SafetyInv)
<1>1. Init => TypeOK /\ SafetyInv
  BY TypeInit, SafetyInit
<1>2. ASSUME TypeOK, SafetyInv, [Next]_vars
      PROVE  TypeOK' /\ SafetyInv'
  <2>1. TypeOK'
    BY <1>2, TypeNext DEF SafetyInv
  <2>2. CASE BeginPoll
    BY <1>2, <2>1, <2>2, SafetyBeginPoll
  <2>3. CASE Detection
    BY <1>2, <2>1, <2>3, SafetyDetect DEF Detection
  <2>4. CASE \E e \in toPublish : Publish(e)
    BY <1>2, <2>1, <2>4, SafetyPublish
  <2>5. CASE UpdateMemory \/ Save \/ SyncerSave
    BY <1>2, <2>1, <2>5, SafetyStoreSteps
  <2>6. CASE Start
    BY <1>2, <2>1, <2>6, SafetyStart
  <2>7. CASE ProcessEnds
    BY <1>2, <2>1, <2>7, SafetyProcessEnds
  <2>8. CASE \/ AbortPoll \/ FinishPoll \/ Exit \/ Cancel \/ Midnight
             \/ UNCHANGED vars
    BY <1>2, <2>1, <2>8, SafetyQuietSteps
  <2>9. QED
    BY <1>2, <2>1, <2>2, <2>3, <2>4, <2>5, <2>6, <2>7, <2>8
    DEF Next, PollStep, Environment
<1>3. QED
  BY <1>1, <1>2, PTL DEF Spec

-----------------------------------------------------------------------------
(* What it means for the subscribers and for a restart.                    *)

\* Saving only polls with events, and never retrying a failed save, is enough
\* for a restart to lose nothing at a safe point (poll, NewPoller).
THEOREM RestartIsSafe == Spec => []RestartSafe
<1>1. SafetyInv => RestartSafe
  BY DEF SafetyInv, MemoryInv, Unsaved, RestartSafe, SafePoint
<1>2. QED
  BY <1>1, SafetyInvariant, PTL

\* The state file never runs ahead of the bus (poll publishes, then persists).
THEOREM FileBehindBus == Spec => []SavedWereAnnounced
<1>1. SafetyInv => SavedWereAnnounced
  BY DEF SafetyInv, AnnouncedInv, SavedWereAnnounced
<1>2. QED
  BY <1>1, SafetyInvariant, PTL

\* chore.all_completed comes once per kid and day, whatever the number of
\* restarts, as long as each stop had nothing left to save (DetectChores,
\* CleanupOldEntries).
THEOREM OncePerKidAndDay == Spec => []AllCompletedOnce
<1>1. TypeOK /\ SafetyInv => AllCompletedOnce
  BY WaitingEmpty DEF SafetyInv, PhaseInv, LosslessInv, AllCompletedOnce
<1>2. QED
  BY <1>1, SafetyInvariant, PTL

\* No crash makes a process that read the file repeat what the file holds.
THEOREM SavedStaysSaid == Spec => []SavedNotRepeated
<1>1. TypeOK /\ SafetyInv => SavedNotRepeated
  BY WaitingEmpty DEF SafetyInv, PhaseInv, NoRepeatInv, SavedNotRepeated
<1>2. QED
  BY <1>1, SafetyInvariant, PTL

\* Subscribers are told of every change the detector sees and of no other, in
\* strict alternation (detectChoreChange).
THEOREM SubscribersUpToDate == Spec => []ToldAsSeen
<1>1. SafetyInv => ToldAsSeen
  BY DEF SafetyInv, LosslessInv, ToldAsSeen
<1>2. QED
  BY <1>1, SafetyInvariant, PTL

\* At most three failed calls per poll at every moment /stats can be read.
THEOREM ErrorsBounded == Spec => []StatsBounded
<1>1. SafetyInv => StatsBounded
  BY DEF SafetyInv, StatsInv, StatsBounded
<1>2. QED
  BY <1>1, SafetyInvariant, PTL

=============================================================================
