SPECIFICATION Spec
CONSTANTS
    p1 = p1
    p2 = p2
    NoFile = NoFile
    Files = {p1}
    MaxSent = 2
INVARIANT
    NeverReuploads
