SPECIFICATION Spec
CONSTANTS
    c1 = c1
    c2 = c2
    r1 = r1
    ann = ann
    done = done
    NoKid = NoKid
    Pending = Pending
    NoEntry = NoEntry
    Failed = Failed
    Chores = {c1, c2}
    Rewards = {}
    Kids = {ann}
    Statuses = {Pending, done}
    ChoreViews <- KidChoreViews
    RewardViews <- AllRewardViews
    MaxDay = 2
    CounterCap = 0
INVARIANTS
    TypeOK
    RestartSafe
    SavedWereAnnounced
    AllCompletedOnce
    SavedNotRepeated
    ToldAsSeen
SYMMETRY ChoreSymmetry
