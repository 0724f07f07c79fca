CONSTANTS
    u1 = u1
    o1 = o1
    o2 = o2
    t1 = t1
    t2 = t2
    ns1 = ns1
    ns2 = ns2
    ci = ci
    tm = tm
    oa = oa
    na = na
    ca = ca
    NoObj = NoObj
    User = {u1}
    Obj = {o1, o2, t1, t2, ns1, ns2, ci}
    TypeOf <- MCTypeOf
    ParentType <- MCParentType
    RoleDef = {tm, oa, na, ca}
    RdType <- MCRdType
    Perm <- MCPerm
    CacheParentPermissions = TRUE
    InitObjs = {o1, o2, t1, ns1, ns2}
    InitParent <- MCInitParent
    InitPerms <- MCInitPerms
    MaxAssignments = 3
    Batches <- MCBatches
    PermEdits = {}
    Editable = {}
    Creatable = {ci, t2}
    Movable = {ns1, t2}
    Deletable = {ci, o1, t1, t2}
    DeferDeletable = {ns1, o1, t2}
    Nullable = {}
    Removable = {ca}
    DeferEnabled = TRUE
SPECIFICATION Spec
INVARIANTS
    TablesCoherent
    NoOrphanedRoles
