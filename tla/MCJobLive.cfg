CONSTANTS
    d = d
    e = e
    s = s
    None = None
    Ops = {d, s}
    Callers = {c1}
    Claimants = {}
    Activations = {"a"}
    Capacity = 1
    Owned = {d}
    Publishing = {s}
    Unlimited = {}
    ActivationOf <- MCActivation
    RoleOf <- MCRole
    Returns = {"ok"}
SPECIFICATION FairSpec
CHECK_DEADLOCK FALSE
INVARIANTS
    SignalOwed
PROPERTIES
    CancellationSettles
    CancelledPermitReturns
