------------------------------ MODULE MCPoller ------------------------------
(***************************************************************************)
(* Small instances of Poller for TLC.                                      *)
(***************************************************************************)
EXTENDS Poller, TLC

CONSTANTS c1, c2, r1, ann, done

\* The kid's chores of today, and late ones, and nobody's chores of today.
KidChoreViews ==
    [status : Statuses, assignee : Kids, dueToday : BOOLEAN]
    \union [status : Statuses, assignee : {NoKid}, dueToday : {TRUE}]

\* One chore of today, in every status.
TodayChoreViews == [status : Statuses, assignee : Kids, dueToday : {TRUE}]

\* A late chore of nobody's, for the runs about rewards.
LooseChoreViews == [status : Statuses, assignee : {NoKid}, dueToday : {FALSE}]

\* Chores are interchangeable: every definition treats them alike.
ChoreSymmetry == Permutations(Chores)

AllRewardViews == [state : RewardStates, category : Kids]

=============================================================================
