\* The documented race boundary: one outside change between a run's calls.
SPECIFICATION Spec
CONSTANTS
    Run = {r1, r2}
    Sha = {s1, s2}
    NoSha = NoSha
    ReleaseId <- ReleaseIds
    MaxExternal = 1
PROPERTIES GreenMeansOwned
CHECK_DEADLOCK FALSE
