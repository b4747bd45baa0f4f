CONSTANTS
    MaxCommits = 3
    Overlap = TRUE
SPECIFICATION Spec
PROPERTIES NeverDiscards
