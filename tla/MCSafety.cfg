CONSTANTS
    d = d
    s = s
    c1 = c1
    c2 = c2
    None = None
    Ops = {d, s}
    Callers = {c1, c2}
    Claimants = {"k"}
    Activations = {"a"}
    Capacity = 1
    Owned = {d}
    Publishing = {d}
    Unlimited = {s}
    ActivationOf <- MCActivation
    RoleOf <- MCRole
    Returns = {"ok", "err", "receipt", "interrupted"}
    Editors = {"e", "f"}
    Asyncs = {"a"}
    Scripts <- MCScripts
    Paths = {"p", "q"}
    Users = {"u", "v"}
    Logins = {"l", "m", "n"}
    FileOf <- MCFileOf
    Subjects = {"x", "y"}
    MaxGrants = 3
    MaxFaults = 1
    Agents <- MCAgents
    VerbWorlds <- MCVerbWorlds
    Tickets = {"a", "b", "c", "o", "w", "r"}
    Priority <- MCPriority
    Slots = 2
    MaxTurns = 4
    Histories <- MCHistories
    PageItems = 2
    ItemBudget = 3
    WireBytes = 4
SPECIFICATION MCSpec
INVARIANTS
    OwnerNeverBypassed
    NoStrandedClaim
    
    Recoverable
    AcknowledgedTruly
    
    AnswersTrue
    NothingPassedOver
PROPERTIES
    
    AdmittedInOrder
CHECK_DEADLOCK FALSE
