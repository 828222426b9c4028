CONSTANTS
    Challenges = {c1, c2}
    Requests = {r1, r2}
    None = None
    CodesPerBatch = 1
    MaxAttempts = 1
    MaxBatch = 1
    MaxNow = 1
SPECIFICATION Spec
INVARIANT RecoveryCodeLoginOnce
