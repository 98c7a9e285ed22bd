SPECIFICATION Spec
CONSTANTS
    Devices <- BuildDevices
    Inputs <- AllInputs
    Conditions <- BothConditions
INVARIANTS
    TypeOK
    ExplicitKept
    ValidatedComplete
    Idempotent
    PlacedAsPreferred
    CountAsPreferred
    AcceptedPlaceable
    DocumentedAccepted
CHECK_DEADLOCK FALSE
