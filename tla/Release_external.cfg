\* Two runs, and a privileged actor who may change releases between any two of
\* their calls, under fairness.
SPECIFICATION FairSpec
CONSTANTS
    Run = {r1, r2}
    Sha = {s1, s2}
    NoSha = NoSha
    ReleaseId <- ReleaseIds
    MaxExternal = 1
PROPERTIES RunsEnd DeletesOnlyItsOwn ImmutableIsFinal
CHECK_DEADLOCK FALSE
