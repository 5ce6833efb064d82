CONSTANTS
    c1 = c1
    c2 = c2
    e1 = e1
    e2 = e2
    alice = alice
    Subject = {alice, devs}
    LogicalCluster = {c1, c2}
    Endpoint = {e1, e2}
    NoEndpoint = NoEndpoint
    BindingKey <- MCBindingKey
    Binding <- MCBinding
    Unannotated = Unannotated
    FallbackCluster = c2
    InitialBinding <- MCInitialBinding
    EndpointFor <- MCEndpointFor
    MaxEvents = 2
SPECIFICATION MCSpec
INVARIANTS
    IInv
PROPERTIES
    NoFlicker
    ImplementsView
    ShardConverges
CHECK_DEADLOCK FALSE
