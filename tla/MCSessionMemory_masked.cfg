\* A file changes and is read again before the next prompt is built.
SPECIFICATION Spec
CONSTANTS
    p1 = p1
    p2 = p2
    m1 = m1
    f1 = f1
    earlier = earlier
    later = later
    Nobody = Nobody
    Procs <- OneProcess
    Paths <- OnePath
    Marks <- OneMark
    Facts <- OldAndNew
    SubjectOf <- SameSubject
    Legacy <- OldOnly
    MaxVersion = 1
    MaxCrashes = 0
    MaxRevision = 3
    SummaryLimit = 1
    WorkingLimit = 1
    Masks = TRUE
    Overlap = FALSE
    Tears = FALSE
INVARIANTS
    ShownIsFresh
