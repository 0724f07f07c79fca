CONSTANTS
    Processes = {p, q}
    Objects = {o1, o2}
    Groups = {g}
    Ids = {a1, a2, a3}
    Usernames = {ann, bob}
    Emails = {e1}
    None = None
    Nobody = Nobody
    Excluded <- LastLogin
    Limit = {}
    MaxWork = 3
    MaxFaults = 1
SPECIFICATION Spec
SYMMETRY Symmetry
INVARIANTS
    ServerHasWhatIsSaved
    StreamTells
    RegistryFollows
CHECK_DEADLOCK FALSE
