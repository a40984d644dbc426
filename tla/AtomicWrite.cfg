\* Two overlapping writers, one outside swap, one power loss, two names.
SPECIFICATION Spec
CONSTANTS
    Writer = {w1, w2}
    TempName = {n1, n2}
    MaxAttempts = 2
    Faults <- MostFaults
    MaxSwaps = 1
    MaxPowerLoss = 1
INVARIANTS TypeOK NoTempLeft
PROPERTIES KeepsMode ReplacesOnlyWhatItChecked ImplementsAtomicFile
SYMMETRY Symmetry
CHECK_DEADLOCK FALSE
