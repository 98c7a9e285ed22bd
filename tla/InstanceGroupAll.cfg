SPECIFICATION Spec
CONSTANTS
    Devices <- BuildDevices
    Inputs <- FewInputs
    Conditions <- Repaired
INVARIANTS
    EmptyMeansAll
CHECK_DEADLOCK FALSE
