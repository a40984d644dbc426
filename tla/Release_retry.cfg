\* Three runs of two commits; no outside interference.
SPECIFICATION Spec
CONSTANTS
    Run = {r1, r2, r3}
    Sha = {s1, s2}
    NoSha = NoSha
    ReleaseId <- ReleaseIds
    MaxExternal = 0
INVARIANTS TypeOK Serialised PublishedIsWhole RetrySucceeds ResidueHasCause
PROPERTIES ImplementsAtomicRelease
CHECK_DEADLOCK FALSE
SYMMETRY Symmetry
