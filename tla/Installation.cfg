CONSTANTS
    Org = Org
    Team = Team
    Inv = Inv
    Job = Job
    Awx = Awx
    Models <- MCModels
    Organization = Org
    Old = Old
    Local = Local
    Shared = Shared
    None = None
    Paths <- MCPaths
    Starts <- MCStarts
    RemoteTypes <- MCRemoteTypes
    RemotePerms <- MCRemotePerms
    MaxTrouble = 1
SPECIFICATION Spec
INVARIANTS
    TypesFollowCode
    NothingPassedOver
PROPERTIES
    RolesMeanTheSame
    Installed
CHECK_DEADLOCK FALSE
