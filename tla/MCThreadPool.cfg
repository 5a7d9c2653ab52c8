CONSTANTS
    Workers = {w1, w2, w3}
    Owner = owner
    Idle = Idle
    i1 = i1
    i2 = i2
    i3 = i3
    i4 = i4
    Items <- MCItems
    Roots <- MCRoots
    Spawns <- MCSpawns
SPECIFICATION Spec
INVARIANTS NoLostWakeup
PROPERTIES PoolSpec PoolProgress
