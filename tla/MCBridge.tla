------------------------------ MODULE MCBridge ------------------------------
(***************************************************************************)
(* A small instance of Bridge for TLC.                                     *)
(***************************************************************************)
EXTENDS Bridge, TLC

CONSTANTS c1, ann, Ann, done

KidNames == [k \in Kids |-> Ann]

\* A chore of today that is done.  What undoing it does is Poller's concern.
DoneChores == [status : {done}, assignee : Kids, dueToday : {TRUE}]

NoRewards == [state : RewardStates, category : Kids]

\* A retried action for one kid by name, and one without retries for any kid.
TwoRules ==
    <<[event |-> "chore.all_completed", filters |-> "assignee_name" :> Ann,
       actions |-> <<2>>],
      [event |-> "chore.all_completed", filters |-> << >>, actions |-> <<1>>]>>

=============================================================================
