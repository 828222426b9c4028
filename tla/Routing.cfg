CONSTANTS
    Instances = {i1, i2}
    Hosts = {h1, h2}
    Services = {s1}
    Resolvers = {r1}
    Admins = {a1, a2}
    Wild = Wild
    None = None
    Setups <- MCSetups
    LocalTTL = 0
    SharedTTL = 1
    Capacity = 1
    BusCapacity = 1
    MaxVersion = 1
SYMMETRY MCSymmetry
SPECIFICATION Spec
INVARIANTS SuccessVisible StaleBounded
