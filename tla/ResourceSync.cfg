CONSTANTS
    o1 = o1
    o2 = o2
    o3 = o3
    t1 = t1
    u1 = u1
    x = x
    y = y
    z = z
    NoOrg = NoOrg
    Id = {o1, o2, o3, t1, u1}
    Name = {x, y, z}
    TypeOf <- MCTypeOf
    Retries = 1
    InitServer <- MCInitServer
    InitLocal <- MCInitLocal
    Owners = {"server"}
    Permanent = {o1, t1, u1}
    MaxChanges = 2
    MaxFailures = 1
SPECIFICATION MCSpec
PROPERTIES
    DeletesOnlyGone
    EventuallyInSync
