SPECIFICATION FairSpec
CONSTANTS
    api = api
    cli = cli
    q1 = q1
    q2 = q2
    q3 = q3
    c1 = c1
    r1 = r1
    r2 = r2
    Run = {r1}
    Request = {q1, q2, q3}
    CliRequest = {}
    Process = {api, cli}
    Home <- MCHome
    Pairs = 2
    Faults = {"run"}
    Exclusive = FALSE
    NoRun = NoRun
    NoEvent = NoEvent
CHECK_DEADLOCK FALSE
PROPERTIES
    RunningSettles
    SignalCancels
