\* A doubly mapped field, a stray key, an unwelcome row; a feed read once; two faults, then left alone.
SPECIFICATION QuietFairSpec
CONSTANTS
    mail = mail
    note = note
    Key = {k1, k2}
    Stray = {k3}
    Column = {1, 2, 3}
    Field = {mail, note}
    Fields <- MCFields
    v1 = v1
    v2 = v2
    Value = {v1, v2}
    Reading <- MCReading
    Unwelcome = {k2}
    Writeback = TRUE
    MaxEdits = 2
    MaxFaults = 2
INVARIANTS
    QuietInv
    TwoPassesHeal
    SummaryIsTrue
PROPERTIES
    WritesRoundTrip
    Converges
