SPECIFICATION Spec
CONSTANTS
    Devices <- BuildDevices
    Inputs <- FewInputs
    Conditions <- Repaired
INVARIANTS
    AutoFallsBack
CHECK_DEADLOCK FALSE
