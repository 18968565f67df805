\* Two runs on a file of two units, and a plan that keeps one item of two.
SPECIFICATION Spec
CONSTANTS
    service = service
    tests = tests
    Paths <- OnePath
    Units = {1, 2}
    Items <- TwoItems
    MaxContent = 1
    MaxItems = 1
    Recent = 1
    Budget = 3
    MaxEvents = 3
    MaxBuilds = 2
    MaxBatch = 2
    MaxRuns = 2
INVARIANTS
    RefusedIsShown
    ShownIsCurrent
PROPERTY DecisionKept
