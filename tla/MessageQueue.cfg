\* Two sends with two attempts each and two receives of at most two messages.
SPECIFICATION Spec
CONSTANTS
    m1 = m1
    m2 = m2
    r1 = r1
    r2 = r2
    Messages <- MCMessages
    Receives <- MCReceives
    MaxAttempts = 2
    MaxBatch = 2
SYMMETRY MCSymmetry
INVARIANTS NoSilentLoss RepeatsAreExcused
PROPERTY ImplementsAtLeastOnce
