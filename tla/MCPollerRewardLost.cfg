SPECIFICATION Spec
CONSTANTS
    c1 = c1
    c2 = c2
    r1 = r1
    ann = ann
    done = done
    NoKid = NoKid
    Pending = Pending
    NoEntry = NoEntry
    Failed = Failed
    Chores = {c1}
    Rewards = {r1}
    Kids = {ann}
    Statuses = {Pending, done}
    ChoreViews <- LooseChoreViews
    RewardViews <- AllRewardViews
    MaxDay = 1
    CounterCap = 0
PROPERTY
    RedemptionsAnnounced
