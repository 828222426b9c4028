CONSTANTS
    Drivers = {"sqlite", "postgres"}
    Fracs = {1}
    Actors = {a1, a2}
    MaxEntries = 4
    MaxInsert = 2
    PruneBatch = 2
    VerifyBatch = 2
    Hooks = {h1}
    KeyLists <- MCKeyLists
    MaxSecrets = 2
    MaxFires = 2
    MaxRestarts = 1
    None = None
    Providers = {p1}
    Admins = {s1}
    MaxStarts = 3
SYMMETRY MCSymmetry
SPECIFICATION MCSpec
INVARIANTS ChainIntact VerificationSound WebhooksHonoured SecretsSafe
PROPERTIES PrunedCounted ImplementsAuditLog
