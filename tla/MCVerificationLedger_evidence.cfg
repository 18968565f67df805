\* Two checks, two paths; interrupts and restarts between calls.
SPECIFICATION Spec
CONSTANTS
    code = code
    test = test
    unit = unit
    lint = lint
    Paths <- TwoPaths
    TestPaths <- OneTest
    Checks <- TwoChecks
    MaxValidations = 2
    MaxUnverified = 1
    MaxRevisions = 2
    MaxTorn = 0
INVARIANTS
    TypeOK
    ReviewIsCurrent
PROPERTIES
    DeliveredIsTested
    NoFailureDelivered
