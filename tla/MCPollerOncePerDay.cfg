SPECIFICATION Spec
CONSTANTS
    c1 = c1
    c2 = c2
    r1 = r1
    ann = ann
    done = done
    NoKid = NoKid
    Pending = Pending
    NoEntry = NoEntry
    Failed = Failed
    Chores = {c1}
    Rewards = {}
    Kids = {ann}
    Statuses = {Pending, done}
    ChoreViews <- TodayChoreViews
    RewardViews <- AllRewardViews
    MaxDay = 1
    CounterCap = 0
INVARIANT
    AllCompletedOncePerDay
