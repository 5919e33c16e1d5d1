SPECIFICATION Spec
CONSTANTS
    Lab <- REGISTRY
    Script <- LabScript
    Setup <- AllRuns
    Actor = {"alice", "simulated-operator", ""}
    SimulatedActor = "simulated-operator"
    Blank = ""
CHECK_DEADLOCK FALSE
INVARIANTS
    SecretsStayIn
    HostileTextStaysOut
    CallsAreCounted
    SideEffectsWereApproved
    ScoreMissesNothing
PROPERTIES
    DecisionsAreFinal
    StoppedStaysStopped
