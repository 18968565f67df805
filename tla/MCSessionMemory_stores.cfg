\* Two processes have the same session open in a workspace with one legacy fact.
SPECIFICATION Spec
CONSTANTS
    p1 = p1
    p2 = p2
    m1 = m1
    f1 = f1
    earlier = earlier
    later = later
    Nobody = Nobody
    Procs <- TwoProcesses
    Paths <- OnePath
    Marks <- OneMark
    Facts <- OldAndNew
    SubjectOf <- SameSubject
    Legacy <- OldOnly
    MaxVersion = 1
    MaxCrashes = 1
    MaxRevision = 3
    SummaryLimit = 1
    WorkingLimit = 1
    Masks = FALSE
    Overlap = FALSE
    Tears = FALSE
SYMMETRY ProcSymmetry
INVARIANTS
    SavedIsKept
    ShownIsFresh
    LatestIsActive
