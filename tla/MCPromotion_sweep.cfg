\* Two promotes at once: one commits what the other has staged.
SPECIFICATION Spec
CONSTANTS
    dev = dev
    prod = prod
    shared = shared
    own = own
    None = None
    Calls = {c1, c2}
    Services = {a, b}
    Digests = {d1, d2}
    AutoEnv = dev
    ManualEnvs = {prod}
    CopyEnvs = {prod}
    Repository <- TwoRepositories
    InitialDigest = d1
    ByHand = FALSE
    MaxCommits = 2
PROPERTY CommitsOnlyTargets
