\* What verify is documented to detect, against a record deleted at the end.
SPECIFICATION Spec
CONSTANTS
    Writer = {w1}
    Body = {b1}
    Torn = Torn
    MaxLines = 3
    PowerLoss = FALSE
INVARIANT
    DeletionShows
