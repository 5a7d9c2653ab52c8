CONSTANTS
    NoNode = NoNode
    NoPatch = NoPatch
    Patch = {a, b}
    NumParticles = 2
    MaxHits = 2
    MaxScans = 3
SPECIFICATION Spec
INVARIANTS OwnScansOnly
SYMMETRY Symmetry
CHECK_DEADLOCK FALSE
