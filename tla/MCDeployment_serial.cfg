\* Two services in full mode, one call after the other, while others
\* configure them.
SPECIFICATION Spec
CONSTANTS
    None = None
    Services = {s, t}
    Images = {i1, i2}
    ContainerSettings = {probe}
    TemplateSettings = {}
    UnlistedSettings = {}
    ImageOnly = {}
    Applies = {a1}
    Rollbacks = {r1}
    InitialImage = i1
    Overlap = FALSE
    OutsideAnytime = TRUE
    MayForce = TRUE
    MaxWrites = 2
PROPERTY InSyncMeansServing
SYMMETRY ServiceSymmetry
