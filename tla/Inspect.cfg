SPECIFICATION FairSpec
CONSTANTS
    Tokens <- NameWords
    NameHits = {}
    Skeleton <- NameSkeleton
    Near <- NearNames
    MaxPairwise = 500
    Invocation = {"first", "second"}
    Server = {"A", "B"}
    Plans <- AllPlans
    Offers <- AllOffers
    FirstServing <- AtFirst
    FirstBooks <- Books
    MaxPages = 2
    MaxTools = 2
    Concurrency = 1
    MaxChanges = 1
    MaxKills = 1
CHECK_DEADLOCK FALSE
INVARIANTS
    CleanExitMeansChecked
    AcceptedIsComplete
PROPERTIES
    NoSilentRepin
    ImplementsPinBook
    ListingsEnd
