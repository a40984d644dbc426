\* The documented precedence, for every capability and tool name.
SPECIFICATION Spec
CONSTANTS
    c1 = c1
    twinA = twinA
    twinB = twinB
    other = other
    odd = odd
    foreign = foreign
    i1 = i1
    i2 = i2
    i3 = i3
    v1 = v1
    v2 = v2
    None = None
    CapId = {c1}
    Tool <- Names
    Identity = {i1, i2, i3}
    IdentityOf <- Folded
    NonAscii <- Foreign
    Value = {v1, v2}
    Policies <- SomePolicies
    Inventories <- SomeInventories
    Risks <- SomeRisks
    Days <- SomeDays
INVARIANTS ScopeIsEnforcedForEveryName
CHECK_DEADLOCK FALSE
