SPECIFICATION BridgeFairSpec
CONSTANTS
    c1 = c1
    ann = ann
    Ann = Ann
    done = done
    NoKid = NoKid
    Pending = Pending
    NoEntry = NoEntry
    Failed = Failed
    Chores = {c1}
    Rewards = {}
    Kids = {ann}
    Names = {Ann}
    NameOf <- KidNames
    Statuses = {Pending, done}
    ChoreViews <- DoneChores
    RewardViews <- NoRewards
    MaxDay = 1
    CounterCap = 0
    Rules <- TwoRules
    MaxJobs = 2
INVARIANTS
    BridgeTypeOK
    NothingMissed
    OrderlyIsLossless
PROPERTIES
    ActionOnce
    ShutdownReturns
    AnnouncedSettles
