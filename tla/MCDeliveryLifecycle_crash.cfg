\* One process, which crashes twice and has two calls fail.
SPECIFICATION FairSpec
CONSTANTS
    p1 = p1
    p2 = p2
    s1 = s1
    s2 = s2
    Nobody = Nobody
    Procs <- OneProcess
    Sessions <- OneSession
    SessionOf <- SameSession
    Txns <- Two
    Runs <- Two
    AutoCommit = TRUE
    MaxCrashes = 2
    MaxFaults = 2
    Cli = TRUE
INVARIANTS
    CommitReported
PROPERTIES
    OrphansClosed
    RecoveryComplete
