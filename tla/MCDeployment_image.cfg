\* An image-only service: an apply and a rollback interleaved with Terraform.
SPECIFICATION Spec
CONSTANTS
    None = None
    Services = {s}
    Images = {i1, i2}
    ContainerSettings = {probe}
    TemplateSettings = {vpc}
    UnlistedSettings = {}
    ImageOnly = {s}
    Applies = {a1}
    Rollbacks = {r1}
    InitialImage = i1
    Overlap = TRUE
    OutsideAnytime = TRUE
    MayForce = FALSE
    MaxWrites = 3
INVARIANTS TypeOK TrafficServesReady
PROPERTIES ImageOnlyKeepsRest RollbackGoesBack ImplementsContract
