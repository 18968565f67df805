\* A plain directory: a link, a file and a new file, changed in one commit;
\* fair processes settle it, whatever crashes in it.
SPECIFICATION FairSpec
CONSTANTS
    a = a
    b = b
    link = link
    key = key
    redacted = redacted
    none = none
    Paths = {1, 2, 3}
    Contents = {a, link}
    None = none
    Links = {link}
    Secrets = {}
    Redacted = a
    Initial <- LinkFileAbsent
    IsGit = FALSE
    Ignored = {}
    Unsafe = {}
    Normalized <- SameNames
    BlockReasons = {"verification_failed"}
    Quiet = TRUE
    MaxSourceEdits = 1
    MaxShadowEdits = 2
    MaxCrashes = 1
    MaxFaults = 2
INVARIANTS
    OriginalsKept
    UncertainNeverReopened
    DeliveryNeverDenied
    FailedCommitRestores
PROPERTIES
    DeliveryComplete
    DeliversAtomically
    CommitSettles
CHECK_DEADLOCK FALSE
