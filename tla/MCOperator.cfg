CONSTANTS
    o1 = o1
    o2 = o2
    Ops = {o1, o2}
    Worlds <- MCWorlds
    Tasks = {"t1", "t2"}
    KeepSettled = 1
    NoCommand = NoCommand
    Keys = {"a", "b"}
    Rows = {"x"}
    Gone = "gone"
    Commands = {"c", "d", "e"}
    Items = {"i", "j", "k"}
    Topics = {{"rows"}, {"receipts"}, {"output"}}
    Limit = 2
    Buffer = 2
    Window = 1
    MaxSeq = 4
    MaxLosses = 1
    MaxBad = 1
    Journals <- MCJournals
    PageEntries = 2
    PageBytes = 2
    Keep = 3
    KeepBytes = 5
    MaxInterruptions = 2
SPECIFICATION Spec
INVARIANTS
    EvidenceTrue
    
    
PROPERTIES
    CommandsHappenOnce
    CommandsResolve
    CatchesUp
CHECK_DEADLOCK FALSE
