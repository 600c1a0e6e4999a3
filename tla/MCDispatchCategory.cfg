SPECIFICATION Spec
CONSTANTS
    ann = ann
    ben = ben
    Ann = Ann
    Ben = Ben
    NoName = NoName
    Kids = {ann}
    Names = {Ann, Ben}
    NameOf <- KidNames
    Rules <- DocumentedRules
    MaxJobs = 1
INVARIANT
    CategoryFilterMatches
CHECK_DEADLOCK FALSE
