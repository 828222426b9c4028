CONSTANTS
    Providers = {p1}
    Admins = {a1, a2}
    KeyLists <- MCKeyLists
    MaxSecrets = 2
    MaxStarts = 3
    None = None
SPECIFICATION Spec
INVARIANTS StartsAfterRotation
CHECK_DEADLOCK FALSE
