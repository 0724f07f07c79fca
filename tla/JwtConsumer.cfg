SPECIFICATION MCSpec
CONSTANTS
    w1 = w1
    w2 = w2
    c1 = c1
    c2 = c2
    n1 = n1
    n2 = n2
    m1 = m1
    m2 = m2
    None = None
    Worker <- MCWorker
    Claim <- MCClaim
    Unknown <- OneUnknown
    Name <- MCName
    Mail <- MCMail
    InitOwn <- OwnName
    LocalGrant <- LocalRoles
    Superuser = TRUE
    MaxChanges = 1
    MaxFailures = 1
INVARIANTS
    NobodyFails
    StoresOneAnswer
    RefusedKeyWasRotated
PROPERTIES
    EventuallyInStep
