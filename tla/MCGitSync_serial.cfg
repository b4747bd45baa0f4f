CONSTANTS
    MaxCommits = 5
    Overlap = FALSE
SPECIFICATION Spec
PROPERTIES NeverDiscards Follows
