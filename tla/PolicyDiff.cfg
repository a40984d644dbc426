\* Every pair of policies, with suppressions of the last rule only.
SPECIFICATION Spec
CONSTANTS
    c1 = c1
    twinA = twinA
    twinB = twinB
    odd = odd
    i1 = i1
    v1 = v1
    v2 = v2
    None = None
    CapId = {c1}
    Tool <- Names
    Identity = {i1}
    IdentityOf <- Folded
    NonAscii <- NoNames
    Value = {v1, v2}
    Policies <- TerminalPolicies
    Inventories <- SomeInventories
    Risks <- SomeRisks
    Days <- SomeDays
INVARIANTS TypeOK NoSilentWeakening
CHECK_DEADLOCK FALSE
