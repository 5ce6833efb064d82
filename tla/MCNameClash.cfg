CONSTANTS
    Tenant = {t1, t2}
    Title = {acme}
    NoTitle = NoTitle
    NoOwner = NoOwner
    NoWorkspace = NoWorkspace
    Strategy = "slug"
    Lagging = {"workspaces"}
    MaxEvents = 1
SPECIFICATION SafeSpec
SYMMETRY TenantSymmetry
INVARIANTS
    ReadyIsTrue
PROPERTIES
    DeletesOnlyItsOwn
CHECK_DEADLOCK FALSE
