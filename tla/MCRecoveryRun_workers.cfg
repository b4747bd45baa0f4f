\* Two workers, far enough for a second investigation to be authorized.
SPECIFICATION Spec
CONSTANTS
    None = None
    Workers = {w1, w2}
    MaxVersion = 11
    MaxSteps = 2
    Times = {1, 2}
INVARIANTS TypeOK NothingSkipped
PROPERTY NeverOverwritten
SYMMETRY WorkerSymmetry
CHECK_DEADLOCK FALSE
