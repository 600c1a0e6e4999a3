---------------------------- MODULE MCDispatch ----------------------------
(***************************************************************************)
(* Small instances of Dispatch for TLC.                                    *)
(***************************************************************************)
EXTENDS Dispatch, TLC

CONSTANTS ann, ben, Ann, Ben

KidNames == [k \in Kids |-> IF k = ann THEN Ann ELSE Ben]

\* A rule with a name filter, a retried and a plain action; one with an action
\* whose retry_attempts make no sense; and one for another type.
SomeRules ==
    <<[event |-> "chore.completed", filters |-> "assignee_name" :> Ann,
       actions |-> <<2, 1>>],
      [event |-> "chore.completed", filters |-> << >>, actions |-> <<0>>],
      [event |-> "reward.redeemed", filters |-> "category_id" :> ann,
       actions |-> <<3>>]>>

\* The filter of the documentation for the chores of one kid.
DocumentedRules ==
    <<[event |-> "chore.completed", filters |-> "category_id" :> ann,
       actions |-> <<1>>]>>

=============================================================================
