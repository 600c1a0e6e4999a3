SPECIFICATION FairSpec
CONSTANTS
    ann = ann
    ben = ben
    Ann = Ann
    Ben = Ben
    NoName = NoName
    Kids = {ann, ben}
    Names = {Ann, Ben}
    NameOf <- KidNames
    Rules <- SomeRules
    MaxJobs = 2
INVARIANTS
    TypeOK
    AllActionsInOrder
    FailuresCounted
    RetriesUsedUp
PROPERTIES
    EveryJobEnds
CHECK_DEADLOCK FALSE
