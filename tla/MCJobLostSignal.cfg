CONSTANTS
    d = d
    e = e
    s = s
    None = None
    Ops = {d}
    Callers = {c1, c2}
    Claimants = {}
    Activations = {"a"}
    Capacity = 1
    Owned = {d}
    Publishing = {}
    Unlimited = {}
    ActivationOf <- MCActivation
    RoleOf <- MCRole
    Returns = {"ok", "receipt"}
SPECIFICATION Spec
CHECK_DEADLOCK FALSE
INVARIANT
    SignalOwed
