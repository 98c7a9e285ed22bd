SPECIFICATION Spec
CONSTANTS
    Width = 8
    Numerals <- Numbers
    Dimensions <- ShapeDimensions
    MaxDims = 4
    BatchSizes <- Batches
    Sizes <- SomeSizes
    MaxShape = 3
    PathChars <- Characters
    MaxPath = 7
    Settings <- CommandLineSettings
    MaxSettings = 3
    TextChars <- NameChars
INVARIANTS
    SizesExact
    WildcardsMeet
    NamesRoundTrip
    PathsSplit
    SettingsResolved
CHECK_DEADLOCK FALSE
