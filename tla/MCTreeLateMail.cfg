CONSTANTS
    Agents = {"root", "child"}
    Root = "root"
    Parent <- MCParent
    Stored = {"root", "child"}
    MaxMail = 1
    MaxTask = 2
    MayFail = FALSE
    MayStop = FALSE
SPECIFICATION Spec
INVARIANT LateMailHarmless
CHECK_DEADLOCK FALSE
