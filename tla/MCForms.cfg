CONSTANTS
    f1 = f1
    f2 = f2
    o1 = o1
    o2 = o2
    d1 = d1
    d2 = d2
    Forms = {f1, f2}
    Operations = {o1, o2}
    Drafts = {d1, d2}
    PageLimit = 1
    MaxReplies = 2
    None = None
SPECIFICATION MCSpec
INVARIANTS
    AnswerOfDraft
    RejectedNotPending
    PagesConsistent
PROPERTIES
    SubmissionSettles
    ViewNeverReopens
CHECK_DEADLOCK FALSE
