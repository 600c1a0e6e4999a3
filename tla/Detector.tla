------------------------------ MODULE Detector ------------------------------
(***************************************************************************)
(* The change detector of engine/detector.go: it compares one response of  *)
(* the Skylight API with what it saw before and says which events happened.*)
(* The Go maps are total functions here, with NoEntry for a missing key; a *)
(* response is a function whose domain is the set of items listed, so the  *)
(* ids of one response are distinct, as the API's are.  Titles, points,    *)
(* icons and time stamps travel through unchanged and are left out.        *)
(***************************************************************************)
EXTENDS Integers, FiniteSets

CONSTANTS
    Chores,      \* chore ids
    Rewards,     \* reward ids
    Kids,        \* category ids of the family members
    NoKid,       \* the empty AssigneeID
    Statuses,    \* statuses of a chore
    Pending,     \* the one status that means "not done" (statusPending)
    ChoreViews,  \* what one listed chore may look like
    RewardViews, \* what one listed reward may look like
    NoEntry,     \* a key that is not in a Go map
    Failed       \* an API call that returned an error

ASSUME StatusAssumption == Pending \in Statuses /\ NoEntry \notin Statuses

ASSUME KidAssumption == NoKid \notin Kids

\* dueToday abstracts DueDate == today, the only use made of the due date.
ASSUME ViewAssumption ==
    ChoreViews \subseteq [status : Statuses, assignee : Kids \union {NoKid},
                          dueToday : BOOLEAN]

RewardStates == {"open", "redeemed"}

ASSUME RewardViewAssumption ==
    RewardViews \subseteq [state : RewardStates, category : Kids \union {NoKid}]

ASSUME SentinelAssumption == NoEntry \notin RewardStates

ChoreLists == UNION {[S -> ChoreViews] : S \in SUBSET Chores}

RewardLists == UNION {[S -> RewardViews] : S \in SUBSET Rewards}

ASSUME FailedAssumption ==
    /\ Failed \notin ChoreLists \union RewardLists
    /\ \A names \in SUBSET Kids : Failed # names

\* What the detector is given: nothing at all when the call failed, since a
\* failed call is not compared and stores nothing.
Listed(response) == IF response = Failed THEN [i \in {} |-> i] ELSE response

EventTypes == {"chore.completed", "chore.uncompleted",
               "chore.all_completed", "reward.redeemed"}

\* subject: the chore, the kid or the reward; named: whether the event
\* carries the name of the kid it is about or an empty string.
Subjects(type) ==
    CASE type \in {"chore.completed", "chore.uncompleted"} -> Chores
      [] type = "chore.all_completed" -> Kids
      [] type = "reward.redeemed" -> Rewards

Events == UNION {[type : {t}, subject : Subjects(t), kid : Kids \union {NoKid},
                  named : BOOLEAN] : t \in EventTypes}

Event(type, subject, kid, names) ==
    [type |-> type, subject |-> subject, kid |-> kid, named |-> kid \in names]

VARIABLES
    choreStatuses,      \* chore id -> last status seen
    rewardRedeemed,     \* reward id -> last state seen
    allCompletedFired,  \* the <<day, kid>> already announced
    childNames          \* the kids whose name is known

detectorVars ==
    <<choreStatuses, rewardRedeemed, allCompletedFired, childNames>>

\* A status the detector treats as done; an unknown chore is not done.
Done(status) == status \notin {Pending, NoEntry}

EmptyState ==
    [chores  |-> [c \in Chores |-> NoEntry],
     rewards |-> [r \in Rewards |-> NoEntry],
     fired   |-> {}]

\* Mutants: one of the three maps is not exported.
ExportWithoutFired ==
    [chores |-> choreStatuses, rewards |-> rewardRedeemed, fired |-> {}]

ExportWithoutRewards ==
    [chores |-> choreStatuses, rewards |-> EmptyState.rewards,
     fired |-> allCompletedFired]

ExportState ==
    [chores  |-> choreStatuses,
     rewards |-> rewardRedeemed,
     fired   |-> allCompletedFired]

\* Mutant: the announcements are not imported.
ImportWithoutFired(s) ==
    /\ choreStatuses' = s.chores
    /\ rewardRedeemed' = s.rewards
    /\ allCompletedFired' = {}
    /\ childNames' = {}

\* A new detector that takes over a saved state; the names start empty.
ImportState(s) ==
    /\ choreStatuses' = s.chores
    /\ rewardRedeemed' = s.rewards
    /\ allCompletedFired' = s.fired
    /\ childNames' = {}

\* Mutant: a chore seen for the first time is never a completion.
CompletedFromPending(list) ==
    {c \in DOMAIN list : Done(list[c].status) /\ choreStatuses[c] = Pending}

\* detectChoreChange: the chores that became done, and those that were undone.
Completed(list) ==
    {c \in DOMAIN list : Done(list[c].status) /\ ~Done(choreStatuses[c])}

Uncompleted(list) ==
    {c \in DOMAIN list : ~Done(list[c].status) /\ Done(choreStatuses[c])}

DueOf(list, kid) ==
    {c \in DOMAIN list : list[c].assignee = kid /\ list[c].dueToday}

\* Mutant: an all_completed is not remembered.
AllCompletedAgain(list, today) ==
    {k \in Kids : /\ DueOf(list, k) # {}
                  /\ \A c \in DueOf(list, k) : Done(list[c].status)}

\* Mutant: chores without an assignee count for somebody.
AllCompletedOfNobody(list, today) ==
    {k \in Kids \union {NoKid} :
        /\ DueOf(list, k) # {}
        /\ \A c \in DueOf(list, k) : Done(list[c].status)
        /\ <<today, k>> \notin allCompletedFired}

\* The kids with a chore due today and none left, not announced yet.
NewlyAllCompleted(list, today) ==
    {k \in Kids : /\ DueOf(list, k) # {}
                  /\ \A c \in DueOf(list, k) : Done(list[c].status)
                  /\ <<today, k>> \notin allCompletedFired}

\* The events of DetectChores, with the names known once names are set.
ChoreEvents(list, today, names) ==
    {Event("chore.completed", c, list[c].assignee, names) : c \in Completed(list)}
    \union
    {Event("chore.uncompleted", c, list[c].assignee, names) : c \in Uncompleted(list)}
    \union
    {Event("chore.all_completed", k, k, names) : k \in NewlyAllCompleted(list, today)}

Redeemed(list) ==
    {r \in DOMAIN list : /\ list[r].state = "redeemed"
                         /\ rewardRedeemed[r] # "redeemed"}

RewardEvents(list, names) ==
    {Event("reward.redeemed", r, list[r].category, names) : r \in Redeemed(list)}

DetectedEvents(chores, rewards, today, names) ==
    ChoreEvents(chores, today, names) \union RewardEvents(rewards, names)

DetectChores(list, today) ==
    /\ choreStatuses' =
           [c \in Chores |-> IF c \in DOMAIN list THEN list[c].status
                                                 ELSE choreStatuses[c]]
    /\ allCompletedFired' =
           allCompletedFired \union ({today} \X NewlyAllCompleted(list, today))

DetectRewards(list) ==
    rewardRedeemed' =
        [r \in Rewards |-> IF r \in DOMAIN list THEN list[r].state
                                               ELSE rewardRedeemed[r]]

\* Mutant: a list that did not arrive counts as an empty one.
SetChildNamesOrNone(categories) ==
    childNames' = IF categories = Failed THEN {} ELSE categories

\* The names of the last category list that arrived, and no others: a kid it
\* lacks, or lists with an empty name, has none.  A failed call keeps them.
SetChildNames(categories) ==
    childNames' = IF categories = Failed THEN childNames ELSE categories

CleanupOldEntries(today) ==
    allCompletedFired' = {key \in allCompletedFired : key[1] = today}

=============================================================================
