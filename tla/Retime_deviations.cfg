SPECIFICATION Spec
CONSTANTS
    Times <- TimesMain
    WavLengths <- WavsMain
    Lengths <- LengthsMain
    MaxCues = 3
    SubCap = 10
    GapCap = 100
    MaxBatch = 2
INVARIANT TracksAgree
\* or INVARIANT Placed
CHECK_DEADLOCK FALSE
