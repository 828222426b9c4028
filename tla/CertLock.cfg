CONSTANTS
    c1 = c1
    c2 = c2
    c3 = c3
    p1 = p1
    p2 = p2
    Procs = {p1, p2}
    Callers = {c1, c2, c3}
    ProcOf <- MCProcOf
    Owners = {o1, o2, o3}
    None = None
    TTL = 3
    Every = 1
    MaxFails = 1
SPECIFICATION FairSpec
INVARIANTS TypeOK MutualExclusion
PROPERTIES UnlockOwnOnly OrphanFreed
