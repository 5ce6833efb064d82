CONSTANTS
    Tenant = {t1}
    Title = {acme}
    NoTitle = NoTitle
    NoOwner = NoOwner
    NoWorkspace = NoWorkspace
    Strategy = "slug"
    Lagging = {"tenants", "workspaces"}
    MaxEvents = 2
SPECIFICATION Spec

    
PROPERTIES
    FinalizerHolds
    TenantsSettle
CHECK_DEADLOCK FALSE
