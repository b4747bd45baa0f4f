\* A job is started again while its release is the current one.
SPECIFICATION Spec
CONSTANTS
    None = None
    Images = {a, b}
    Initial = a
    MaxReleases = 1
    MaxRuns = 2
    MaxEvents = 2
PROPERTY RetryKeepsSuccess
CHECK_DEADLOCK FALSE
