\* An image-only apply after a rollback, one call at a time.
SPECIFICATION Spec
CONSTANTS
    None = None
    Services = {s}
    Images = {i1, i2}
    ContainerSettings = {probe}
    TemplateSettings = {}
    UnlistedSettings = {}
    ImageOnly = {s}
    Applies = {a1}
    Rollbacks = {r1}
    InitialImage = i1
    Overlap = FALSE
    OutsideAnytime = FALSE
    MayForce = FALSE
    MaxWrites = 4
PROPERTY InSyncMeansServing
