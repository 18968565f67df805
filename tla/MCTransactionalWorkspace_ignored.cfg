\* The change set creates a path that Git ignores in the source.
SPECIFICATION Spec
CONSTANTS
    a = a
    b = b
    link = link
    key = key
    redacted = redacted
    none = none
    Paths = {1, 2, 3}
    Contents = {a, key, redacted}
    None = none
    Links = {}
    Secrets = {key}
    Redacted = redacted
    Initial <- SecretFileIgnored
    IsGit = TRUE
    Ignored = {3}
    Unsafe = {}
    Normalized <- SameNames
    BlockReasons = {"verification_failed", "scope_constraint_violation"}
    Quiet = TRUE
    MaxSourceEdits = 0
    MaxShadowEdits = 1
    MaxCrashes = 0
    MaxFaults = 0
PROPERTY
    ConflictFreeCommit
CHECK_DEADLOCK FALSE
