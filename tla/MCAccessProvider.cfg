CONSTANTS
    c1 = c1
    e1 = e1
    Subject <- MCSubject
    LogicalCluster = {c1}
    Endpoint = {e1}
    NoEndpoint = NoEndpoint
    BindingKey <- MCBindingKey
    RBACSubject <- MCRBACSubject
    EndpointFor <- MCEndpointFor
    InitialObject <- MCInitialObject
    MaxChanges = 2
SPECIFICATION ProviderSpec
INVARIANTS
    ProviderInv
PROPERTIES
    Converges
CHECK_DEADLOCK FALSE
