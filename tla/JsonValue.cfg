SPECIFICATION Spec
CONSTANTS
    Values = {v1, v2, v3}
    Addresses <- MCAddresses
    Pools <- MCPools
    Names = {a, b}
    Scalars = {x}
    None = None
SYMMETRY Symmetry
CONSTRAINT Bounded
INVARIANTS
    TypeOK
    NodesOwned
    NodesUnshared
    OverwriteVisible
