CONSTANTS
    Workspace = {w1}
    MaxBindings = 2
    MaxFailures = 1
    Identity <- MCIdentity
    NoCredential = NoCredential
    Invalid = Invalid
    Request = {r1, r2}
    OAuth = TRUE
    Toolsets = {"core", "apis", "admin", "write"}
    Served <- MCServed
    TTL = 2
    MaxDelay = 1
    MaxReplicas = 1
    MaxChanges = 1
SPECIFICATION MCSpec
INVARIANTS
    ReadyMeansGranted
PROPERTIES
    ScopeFollowsRights
    ScaleIsExact
    EnabledGetsReady
CHECK_DEADLOCK FALSE
