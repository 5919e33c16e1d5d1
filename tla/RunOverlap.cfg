SPECIFICATION Spec
CONSTANTS
    api = api
    cli = cli
    q1 = q1
    q2 = q2
    q3 = q3
    c1 = c1
    r1 = r1
    r2 = r2
    Run = {r1}
    Request = {q1, q2, q3, c1}
    CliRequest = {c1}
    Process = {api, cli}
    Home <- MCHome
    Pairs = 2
    Faults = {"claim", "cancel", "run", "fail", "crash"}
    Exclusive = FALSE
    NoRun = NoRun
    NoEvent = NoEvent
CHECK_DEADLOCK FALSE
SYMMETRY HttpSymmetry
INVARIANTS
    RegistryNamesExecutor
    
    SignalIsHeeded
