\* What open() is documented to do, against a record that was only written in
\* part.
SPECIFICATION Spec
CONSTANTS
    Writer = {w1}
    Body = {b1}
    Torn = Torn
    MaxLines = 3
    PowerLoss = FALSE
INVARIANT
    OpenRecovers
