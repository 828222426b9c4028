CONSTANTS
    u1 = u1
    t1 = t1
    t2 = t2
    i1 = i1
    i2 = i2
    Instances = {i1, i2}
    Users = {u1}
    Tokens = {t1, t2}
    Owner <- MCOwner
    Requests = {r1, r2}
    None = None
    CacheTTL = 2
    MaxEntries = 1
    Setups <- MCSetups
    MaxVersion = 1
    Producers = {p1, p2}
    Cap = 2
    BatchSize = 2
    MaxEvents = 5
SPECIFICATION MCSpec
INVARIANTS EntryDiesWithToken StaleOnlyByRace SinkKeepsEvents
PROPERTIES EventuallyCurrent SinkProgress
