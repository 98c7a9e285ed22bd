SPECIFICATION Spec
CONSTANTS
    s1 = s1
    s2 = s2
    None = None
    Width = 16
    Numerals <- SomeNumerals
    RuntimePrefix = "libtriton_"
    Slots <- SomeSlots
    Backends = {b1, b2, b3}
    Libs <- AllLibs
    FiniLibs <- AllLibs
    Loads <- SomeLoads
    FileSystems <- SomeFiles
    CommandLines <- SomeCommandLines
INVARIANTS
    TypeOK
    BackendInUse
    BackendFits
    PublishedSound
