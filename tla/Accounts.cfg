CONSTANTS
    N = N
    None = N
    UserIds = {1, 2, 3, 4}
    Procs = {p1, p2}
    Admins = {d1, d2}
    Auths <- MCAuths
    KindOf <- MCKindOf
    Accounts <- MCAccounts
    avatar1 = avatar1
    avatar2 = avatar2
    note = note
    Things = {avatar1, avatar2, note}
    SlotOf <- MCSlotOf
    SystemUser = "_system"
    Starts <- MCStarts
    MaxSuffix = 2
SYMMETRY Sym
SPECIFICATION Spec
INVARIANTS
    IdentitiesKept
    ThingsStayWithPerson
    AuthenticatorsServe
PROPERTIES
    SameUserAgain
CHECK_DEADLOCK FALSE
