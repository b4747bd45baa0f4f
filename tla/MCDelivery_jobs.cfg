\* Two releases, one of them possibly a rollback, and three jobs.
SPECIFICATION Spec
CONSTANTS
    None = None
    Images = {a, b}
    Initial = a
    MaxReleases = 2
    MaxRuns = 3
    MaxEvents = 2
INVARIANTS TypeOK RollsBackToVerified ProdFromDev
PROPERTIES NeverBack MarkedIsSilent
CHECK_DEADLOCK FALSE
