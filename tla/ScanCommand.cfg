\* Two commands, one midnight, one edit of the policy file.
SPECIFICATION Spec
CONSTANTS
    c1 = c1
    t1 = t1
    i1 = i1
    w1 = w1
    w2 = w2
    None = None
    Absent = Absent
    Malformed = Malformed
    CapId = {c1}
    Tool = {t1}
    Identity = {i1}
    IdentityOf <- Folded
    NonAscii <- NoNames
    Value <- Values
    Command = {w1, w2}
    Options <- SomeOptions
    Contents <- SomeContents
    Inventory <- OneCapability
    Score = 1
    MaxDay = 1
    MaxEdits = 1
INVARIANTS TypeOK ReportsAreInForce GateHolds ExitMatchesOutput
PROPERTIES RejectsForCause
SYMMETRY Symmetry
CHECK_DEADLOCK FALSE
