CONSTANTS
    Envs = {1, 2}
    Broken = {1}
    MaxVersion = 1
    None = None
SPECIFICATION Spec
INVARIANTS TypeOK KickPending
PROPERTIES TriggerStartsCycle Converges StopsWhenCancelled
CHECK_DEADLOCK FALSE
