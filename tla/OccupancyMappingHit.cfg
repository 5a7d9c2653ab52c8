CONSTANTS
    Width = 4
    Height = 4
    Unknown = 2
    MaxCount = 4
    Outside = {}
    MaxBeams = 1
SPECIFICATION Spec
INVARIANTS HitLeftOut
CHECK_DEADLOCK FALSE
