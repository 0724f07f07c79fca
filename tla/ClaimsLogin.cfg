\* One person, one authenticator, two processes.
SPECIFICATION MCSpec
CONSTANTS
    g = g
    a = a
    b = b
    v = v
    w = w
    sys = sys
    orgAdmin = orgAdmin
    orgMember = orgMember
    teamMember = teamMember
    objAdmin = objAdmin
    o = o
    q = q
    t = t
    inventory = inventory
    remoteJob = remoteJob
    byUuid = byUuid
    one = one
    two = two
    None = None
    Group = {g}
    Attr = {a, b}
    Value = {v, w}
    Hits <- Equal
    Role = {sys, orgAdmin, orgMember, teamMember, objAdmin}
    RoleKind <- Kinds
    Org = {o, q}
    Team = {t}
    Worker = {one, two}
    Configs <- MCConfigs
    Persons <- MCPersons
    Elsewhere = {inventory, remoteJob, byUuid}
    Remote = {remoteJob}
    Unkeyed = {byUuid}
    InitialDbs <- MCDbs
    MaxChanges = 1
    MaxFailures = 1
INVARIANTS
    ClaimsMean
    ReconciledRoles
PROPERTY
    EventuallyReconciled
