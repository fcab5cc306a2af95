CONSTANTS
    Agents = {"root", "child"}
    Root = "root"
    Parent <- MCParent
    Stored = {"root"}
    MaxMail = 2
    MaxTask = 1
    MayFail = FALSE
    MayStop = FALSE
SPECIFICATION FairSpec
PROPERTY MailDelivered
CHECK_DEADLOCK FALSE
