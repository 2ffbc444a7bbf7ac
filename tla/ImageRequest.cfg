SPECIFICATION Spec
CONSTANTS
    MediaTypes <- Types
    Allowed = {"image/png", "image/x_y"}
    Tokens = {"image/png", "image/gif"}
    MaxBytes = 4
    StringLimit = 40
    HeaderLength = 20
    Bodies <- ImageBodies
INVARIANTS
    NoImageIsAServerError
    OnlyValidatedImagesLeave
    LabelsNameTheirImages
    GoodImagesAreSent
CHECK_DEADLOCK FALSE
