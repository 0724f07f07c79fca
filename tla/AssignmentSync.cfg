CONSTANTS
    a1 = a1
    a2 = a2
    a3 = a3
    b1 = b1
    Asg = {a1, a2, a3, b1}
    TeamAsg = {b1}
    UnknownRole = {a2}
    NoResource = {a3}
    PageSize = 1
    Revocable = {a1, a2, b1}
    MaxChanges = 2
    MaxFailures = 1
SPECIFICATION MCFairSpec
INVARIANTS
    ChangesJustified
PROPERTIES
    EventuallyMirrored
