CONSTANTS
    Nodes = {n1, n2}
    Clients = {c1}
    Keys = {k1, k2}
    Handlers = {h1, h2}
    None = None
    PoolSize = 2
    MaxRequests = 5
    Agents = {a1}
    Editors = {e1, e2}
    Tokens = {t1}
    Services = {1, 2}
    Ports = {p1, p2}
    Hosts = {x, y}
    MaxDrawn = 3
    MaxChanges = 2
SYMMETRY MCSymmetry
SPECIFICATION MCSpec
INVARIANTS AssignmentsApart PeersCurrent RevokedOut EnrolledOnce AgentInStep
