SPECIFICATION Spec
CONSTANTS
    p1 = p1
    p2 = p2
    s1 = s1
    s2 = s2
    Nobody = Nobody
    Procs <- TwoProcesses
    Sessions <- OneSession
    SessionOf <- SameSession
    Txns <- Two
    Runs <- Two
    AutoCommit = FALSE
    MaxCrashes = 0
    MaxFaults = 0
    Cli = TRUE
PROPERTY NoPhantomDelivery
