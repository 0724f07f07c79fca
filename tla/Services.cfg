CONSTANTS
    P1 = P1
    P2 = P2
    LockA = LockA
    LockB = LockB
    Id1 = Id1
    Root = Root
    Own = Own
    Usr = Usr
    App = App
    O1 = O1
    O2 = O2
    Nothing = Nothing
    Procs = {P1, P2}
    Ids = {Id1}
    Depth = 2
    Names = {LockA, LockB}
    KeyOf <- MCKeyOf
    Requests <- MCRequests
    MaxAsks = 3
    MaxFaults = 1
    Users = {Root, Own, Usr}
    Superusers = {Root}
    Auditors = {Usr}
    External = {Usr}
    Applications = {App}
    ApplicationUser <- MCApplicationUser
    Organizations = {O1, O2}
    OrgAdmins <- MCOrgAdmins
    Creators = {Root, Usr}
    OldTables <- MCOldTables
    OldSecrets = 2
    MaxSecrets = 4
    MaxFlight = 2
    MaxWork = 3
    Scopes <- MCScopes
    Null = Null
    Plugins <- MCPlugins
    MaxUpdates = 1
    AppSets <- MCAppSets
    Unset = Unset
    Offers <- MCOffers
    MaxOverrides = 1
    T1 = T1
    T2 = T2
    N1 = N1
    N2 = N2
    W1 = W1
    W2 = W2
    K1 = K1
    None = None
    Absent = Absent
    Threads = {T1, T2}
    InstanceOf <- MCInstanceOf
    Confs <- MCConfs
    Servers <- MCServers
    Operations = {"get", "set", "add", "delete", "clear"}
    MaxTrouble = 2
    Nodes = {N1, N2}
    Workers = {W1, W2}
    NodeOf <- MCNodeOf
    Keys = {K1}
    Dependents <- MCDependents
    Settings <- MCSettings
SPECIFICATION Spec
INVARIANTS
    CleanUnlessFailed
    TokensKeepTheirWord
    ConfigurationKept
    AcceptedIsUsable
    SettingsSettle
    OldValuesNeedARace
    CoherentWhenQuiet
PROPERTIES
    IsNamedLock
    EventuallyRecovered
CHECK_DEADLOCK FALSE
