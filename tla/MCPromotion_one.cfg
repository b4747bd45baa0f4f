\* One promote at a time: everything the use case promises.
SPECIFICATION Spec
CONSTANTS
    dev = dev
    prod = prod
    shared = shared
    own = own
    None = None
    Calls = {c1}
    Services = {a, b}
    Digests = {d1, d2}
    AutoEnv = dev
    ManualEnvs = {prod}
    CopyEnvs = {prod}
    Repository <- TwoRepositories
    InitialDigest = d1
    ByHand = TRUE
    MaxCommits = 2
INVARIANTS
    TypeOK
    PromotedImagesExist
    HistoryMatchesCommit
PROPERTIES
    CommitsOnlyTargets
    ImplementsPromise
