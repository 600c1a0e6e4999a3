SPECIFICATION FairSpec
CONSTANTS
    p1 = p1
    p2 = p2
    NoFile = NoFile
    Files = {p1, p2}
    MaxSent = 2
INVARIANTS
    TypeOK
    SavedWereSent
    SentOnce
    MarksHandedOver
PROPERTIES
    NeverForgets
    EventuallySent
