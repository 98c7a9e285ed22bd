SPECIFICATION Spec
CONSTANTS
    Devices <- BuildDevices
    Inputs <- FewInputs
    Conditions <- AsItStands
INVARIANTS
    QueryAnswers
CHECK_DEADLOCK FALSE
