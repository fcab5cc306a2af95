CONSTANTS
    o1 = o1
    o2 = o2
    Ops = {o1, o2}
    Ways <- MCWays
    m2 = m2
    Mails = {m1, m2}
    MaxRequests = 3
    MaxFaults = 1
    NoOp = NoOp
    Bodies <- MCBodies
    MaxInflight = 1
    MaxLine = 3
    Capacity = 1
    WaitWorlds <- MCWaitWorlds
    Lag = 1
    i1 = i1
    i2 = i2
    Invocations = {i1, i2}
    Limits <- MCLimits
    AfterTool = {i2}
    MaxCalls = 1
    Cell = Cell
    Unset = Unset
SPECIFICATION Spec
INVARIANTS
    SyncCallsShown
    EffectOnce
    FramingExact
    HandedOutHeard
PROPERTIES
    
    RequestsEnd
    WaitResumes
CHECK_DEADLOCK FALSE
