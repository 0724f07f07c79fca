CONSTANTS
    su = su
    ed = ed
    ann = ann
    o1 = o1
    o2 = o2
    t1 = t1
    inv = inv
    new = new
    ext = ext
    oa = oa
    om = om
    tm = tm
    ia = ia
    ga = ga
    gr = gr
    oi = oi
    cr = cr
    NoObj = NoObj
    User = {su, ed, ann}
    Superuser = {su}
    Auditor = {}
    Obj = {o1, o2, t1, inv, new, ext}
    TypeOf <- MCTypeOf
    ParentType <- MCParentType
    RoleDef = {oa, om, tm, ia, ga, gr, oi, cr}
    Perm <- MCPerm
    CacheParentPermissions = FALSE
    Remote = {"group"}
    Shared = {"org", "team"}
    JwtManaged = {om}
    InitManaged = {oa, om, tm}
    CreatorRd <- MCCreatorRd
    CreatorActs = {"add", "change", "delete", "view"}
    InitObjs = {o1, o2, t1, inv, ext}
    InitParent <- MCParent
    InitRds = {oa, om, tm, ia, ga, gr, oi}
    InitPerms <- MCInitPerms
    InitType <- MCRdType
    Confs <- MCConfs
    Nullable = {"inventory"}
    PermSets <- MCPermSets
    Patchable = {ia, cr}
    Grants <- MCGrants
    Creatable = {new}
    Movable = {inv}
    MaxAssignments = 2
    MaxEdits = 1
SPECIFICATION Spec
INVARIANTS
    ChecksMean
    SharingIsSound
    AccessListsAgree
PROPERTIES
    CreatorOwns
CHECK_DEADLOCK FALSE
