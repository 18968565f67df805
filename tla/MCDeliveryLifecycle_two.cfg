\* Two processes with a session each, every command of the API, one crash and
\* two calls that fail.
SPECIFICATION Spec
CONSTANTS
    p1 = p1
    p2 = p2
    s1 = s1
    s2 = s2
    Nobody = Nobody
    Procs <- TwoProcesses
    Sessions <- TwoSessions
    SessionOf <- OwnSession
    Txns <- One
    Runs <- Two
    AutoCommit = FALSE
    MaxCrashes = 1
    MaxFaults = 2
    Cli = FALSE
SYMMETRY Exchange
INVARIANTS
    OrphanHasNoOwner
    DeliveredIsCommitted
    WorkIsReachable
    SessionOpens
