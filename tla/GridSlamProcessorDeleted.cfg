CONSTANTS
    NoNode = NoNode
    NoPatch = NoPatch
    Patch = {a, b}
    NumParticles = 2
    MaxHits = 1
    MaxScans = 2
SPECIFICATION Spec
INVARIANTS NeverFails
SYMMETRY Symmetry
CHECK_DEADLOCK FALSE
