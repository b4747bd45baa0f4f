\* A promote that fails between its writes and its commit, then a second try.
SPECIFICATION Spec
CONSTANTS
    dev = dev
    prod = prod
    shared = shared
    own = own
    None = None
    Calls = {c1}
    Services = {a, b}
    Digests = {d1, d2}
    AutoEnv = dev
    ManualEnvs = {prod}
    CopyEnvs = {prod}
    Repository <- TwoRepositories
    InitialDigest = d1
    ByHand = FALSE
    MaxCommits = 3
INVARIANT EmptyPlanMeansPromoted
