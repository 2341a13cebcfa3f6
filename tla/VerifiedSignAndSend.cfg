\* Up to three inclusions of the extrinsic, one program registered of two.
CONSTANTS
    Program = {p1, p2}
    Registered = {p1}
    MaxBlocks = 3
    MayVanish = TRUE
SPECIFICATION FairSpec
CHECK_DEADLOCK FALSE
INVARIANTS
    ResolvedMeansVerified
    RejectedHasCause
PROPERTIES
    SettlesUnlessDropped
