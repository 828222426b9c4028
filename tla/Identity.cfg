CONSTANTS
    Users = {u1}
    SessionIds = {s1, s2}
    Tokens = {t1, t2, t3}
    Requests = {r1, r2}
    None = None
    TokenTTL = 1
    RefreshTTL = 2
    MaxPassword = 1
    Challenges = {s1, s2}
    CodesPerBatch = 1
    MaxAttempts = 2
    MaxBatch = 2
    MaxNow = 2
    Restarts = 1
SYMMETRY MCSymmetry
SPECIFICATION MCSpec
INVARIANTS TypeOK SingleRedemption DeadTokenRejected PasswordChangeEndsOthers
           DeactivatedGetsNoToken FactorsHold TokensHold
PROPERTIES RevokedIsFinal
