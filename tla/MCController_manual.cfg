CONSTANTS
    Envs = {1, 2}
    Broken = {}
    MaxVersion = 1
    None = None
SPECIFICATION Spec
PROPERTIES ManualUntouched
CHECK_DEADLOCK FALSE
