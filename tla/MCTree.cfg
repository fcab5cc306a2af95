CONSTANTS
    Agents = {"root", "child"}
    Root = "root"
    Parent <- MCParent
    Stored = {"root", "child"}
    MaxMail = 1
    MaxTask = 2
    MayFail = TRUE
    MayStop = TRUE
SPECIFICATION FairSpec
INVARIANT HeadOwned
INVARIANT ShutdownJoins
PROPERTY ShutdownEnds
CHECK_DEADLOCK FALSE
