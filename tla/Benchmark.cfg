SPECIFICATION FairSpec
CONSTANTS
    Plans <- AllPlans
    Plays <- AllPlays
    Listings <- CaseListings
    ThirdParty = {"my-scanner"}
    Reports <- ScannerReports
    MaxCache = 1
    Subscriber = {"tracker", "exporter"}
    MaxErrors = 1
CHECK_DEADLOCK FALSE
INVARIANTS
    EveryPairIsAnswered
    TraceIdsReproduce
    VerdictsAreSound
    
    NotScannedIsNotMissed
    EvidenceIsKept
PROPERTIES
    ImplementsPlan
    RunEnds
