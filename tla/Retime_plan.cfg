SPECIFICATION Spec
CONSTANTS
    Times <- TimesMain
    WavLengths <- WavsMain
    Lengths <- LengthsMain
    MaxCues = 3
    SubCap = 10
    GapCap = 100
    MaxBatch = 2
INVARIANTS
    TypeOK
    DriftBounded
    InPlace
    NothingSkipped
    WholeConcat
    EndsWithAudio
    TracksMatch
CHECK_DEADLOCK FALSE
