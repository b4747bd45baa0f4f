\* Everything happens to one environment, while the other one is listed too.
SPECIFICATION Spec
CONSTANTS
    None = None
    dev = dev
    prod = prod
    api = api
    image = image
    other = other
    Envs = {dev, prod}
    Services = {api}
    Project <- MCProject
    RunName <- MCRunName
    Others = {"tool"}
    Images = {image, other}
    InitialImage = image
    Digest <- MCDigest
    Calls = {c}
    Shares <- OneOrTwo
    Busy = {dev}
    Running = {"tool"}
    MaxRevisions = 3
    DefaultLimit = 2
    MaxRows = 2
INVARIANTS TypeOK ViewsAgree DriftExplained
PROPERTY RollsBackAsPreviewed
CHECK_DEADLOCK FALSE
