CONSTANTS
    u1 = u1
    o1 = o1
    o2 = o2
    t1 = t1
    t2 = t2
    t3 = t3
    inv = inv
    tm = tm
    oa = oa
    ia = ia
    NoObj = NoObj
    User = {u1}
    Obj = {o1, o2, t1, t2, t3, inv}
    TypeOf <- MCTypeOf
    ParentType <- MCParentType
    RoleDef = {tm, oa, ia}
    RdType <- MCRdType
    Perm <- MCPerm
    CacheParentPermissions = FALSE
    InitObjs = {o1, o2, t1, t2, t3, inv}
    InitParent <- MCInitParent
    InitPerms <- MCInitPerms
    MaxAssignments = 4
    Batches <- MCBatches
    PermEdits <- MCPermEdits
    Editable = {oa}
    Creatable = {}
    Movable = {}
    Deletable = {o1, t1, t2, t3}
    DeferDeletable = {}
    Nullable = {"inventory"}
    Removable = {}
    DeferEnabled = FALSE
SYMMETRY TeamSymmetry
CONSTRAINT Focus
SPECIFICATION Spec
INVARIANTS
    AccessMatchesAssignments
    RecomputeAllRepairs
PROPERTIES
    AccessIsMonotone
