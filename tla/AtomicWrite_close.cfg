\* A close that fails: nothing else goes wrong.
SPECIFICATION Spec
CONSTANTS
    Writer = {w1, w2}
    TempName = {n1, n2}
    MaxAttempts = 2
    Faults <- CloseFaults
    MaxSwaps = 0
    MaxPowerLoss = 0
INVARIANTS NoTempLeft
CHECK_DEADLOCK FALSE
