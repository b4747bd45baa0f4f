\* Every configuration of three environments, validated or listed.
SPECIFICATION Spec
CONSTANTS
    a = a
    b = b
    x = x
    y = y
    N = 3
    ServiceNames = {a, b}
    RunNames = {x, y}
    Entries <- MCEntries
    Directories <- MCDirectories
INVARIANTS TypeOK ListedOnce SourcesFirst NamesBreakTies ValidatedPlans
CHECK_DEADLOCK FALSE
