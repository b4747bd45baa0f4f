\* A console divides traffic between a revision and the latest ready one.
SPECIFICATION Spec
CONSTANTS
    None = None
    dev = dev
    prod = prod
    api = api
    image = image
    other = other
    Envs = {dev, prod}
    Services = {api}
    Project <- MCProject
    RunName <- MCRunName
    Others = {"tool"}
    Images = {image, other}
    InitialImage = image
    Digest <- MCDigest
    Calls = {c}
    Shares <- Three
    Busy = {dev}
    Running = {"tool"}
    MaxRevisions = 3
    DefaultLimit = 2
    MaxRows = 2
INVARIANT StatusNamesLargest
CHECK_DEADLOCK FALSE
