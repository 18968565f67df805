\* Two files, failing writes, interrupts and commands with descendants.
SPECIFICATION Spec
CONSTANTS
    lib = lib
    test = test
    Paths <- TwoPaths
    TestPath = test
    InitialText <- Text
    CommandText <- Written
    Edits <- ThreeEdits
    AllowedTools <- Tools
    Terms <- FiveTerms
    MaxCalls = 2
    MaxFaults = 1
    MaxInterrupts = 1
    MaxEscapes = 1
INVARIANTS
    PatchAtomic
    ChangesReported
    InterruptObeyed
    EvidenceOfThisRun
PROPERTIES
    CallEnds
