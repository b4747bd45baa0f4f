\* Terraform adds a setting between the check and the update of a full apply.
SPECIFICATION Spec
CONSTANTS
    None = None
    Services = {s}
    Images = {i1, i2}
    ContainerSettings = {probe}
    TemplateSettings = {}
    UnlistedSettings = {}
    ImageOnly = {}
    Applies = {a1}
    Rollbacks = {}
    InitialImage = i1
    Overlap = FALSE
    OutsideAnytime = TRUE
    MayForce = FALSE
    MaxWrites = 4
PROPERTY ApplyRefusesToStrip
