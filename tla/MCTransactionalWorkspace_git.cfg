\* A Git work tree with a registered secret, edited by the user between steps.
SPECIFICATION Spec
CONSTANTS
    a = a
    b = b
    link = link
    key = key
    redacted = redacted
    none = none
    Paths = {1, 2, 3}
    Contents = {a, key}
    None = none
    Links = {}
    Secrets = {key}
    Redacted = a
    Initial <- SecretFileIgnored
    IsGit = TRUE
    Ignored = {3}
    Unsafe = {}
    Normalized <- SameNames
    BlockReasons = {"verification_failed", "scope_constraint_violation"}
    Quiet = TRUE
    MaxSourceEdits = 2
    MaxShadowEdits = 2
    MaxCrashes = 1
    MaxFaults = 1
INVARIANTS
    JournalBeforeSource
    ReviewedIsDelivered
    ResumableHasShadow
PROPERTIES
    NoUnseenOverwrite
    DeliversAtomically
CHECK_DEADLOCK FALSE
