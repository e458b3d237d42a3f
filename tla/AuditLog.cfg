\* Two agents that may append to one file, failing writes, restarts, power cuts.
SPECIFICATION Spec
CONSTANTS
    Writer = {w1, w2}
    Body = {b1, b2}
    Torn = Torn
    MaxLines = 3
    PowerLoss = TRUE
SYMMETRY WriterSymmetry
INVARIANTS
    IInv
    NoFalseAlarm
    AckedAreKept
    TamperingShows
PROPERTY
    EvidenceStays
