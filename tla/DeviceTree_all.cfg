CONSTANTS
    Image <- MCImage
    Bundled <- MCBundled
    MaxDumps = 2
SPECIFICATION Spec
INVARIANTS
    SuccessIsFresh
    ScriptMeansWholeTree
    OverlayFits
    RecoveryRootFits
    SectionsApart
    ImageUnderstood
CHECK_DEADLOCK FALSE
