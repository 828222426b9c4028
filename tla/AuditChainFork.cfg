CONSTANTS
    Drivers = {"postgres"}
    Fracs = {0}
    Actors = {a1, a2}
    MaxEntries = 4
    MaxInsert = 2
    PruneBatch = 2
    VerifyBatch = 2
SYMMETRY MCSymmetry
SPECIFICATION Spec
INVARIANT ChainIntactEverywhere
