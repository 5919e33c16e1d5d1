SPECIFICATION Spec
CONSTANTS
    Tokens <- NameWords
    NameHits <- HostileNames
    Skeleton <- NameSkeleton
    Near = {}
    MaxPairwise = 500
    Version <- VersionNames
    Listing <- Variants
    Identity <- Identities
    First <- FirstVersions
INVARIANTS
    DriftIsExact
    DangerIsHigh
    ChangesAreNamed
    SplittingDoesNotHide
