CONSTANTS
    p1 = p1
    c1 = c1
    c2 = c2
    x1 = x1
    x2 = x2
    Producer = {p1}
    Cluster = {c1, c2}
    Path = {x1, x2}
    PathOf <- MCPathOf
    Brought = {x1}
    Home <- MCHome
    Export <- MCExport
    NoPath = NoPath
    NoCluster = NoCluster
    MaxExports = 1
    MaxEvents = 1
    Database = {"d1"}
    Engine = {"postgres", "mysql"}
    EndpointOf <- MCEndpointOf
    NoEngine = ""
    MaxChanges = 4
SPECIFICATION MCSpec
INVARIANTS
    MarketplaceInv
    ReadyIsOfItsGeneration
CHECK_DEADLOCK FALSE
PROPERTIES
    MarketplaceSettles
    DatabasesGetReady
