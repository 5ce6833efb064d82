CONSTANTS
    t1 = t1
    t2 = t2
    w1 = w1
    w1b = w1b
    w2 = w2
    alice = alice
    bob = bob
    team = team
    Tenant = {t1, t2}
    Workspace = {w1, w1b, w2}
    Owner <- MCOwner
    Subject = {alice, bob, team}
    Project = {p1}
    TenantWide = TenantWide
    Role = {"admin", "view"}
    NoTenant = NoTenant
    NoWorkspace = NoWorkspace
    NoRole = NoRole
    User = {alice, bob}
    Identity <- MCIdentity
    FirstAdmin <- MCFirstAdmin
    MaxRequests = 3
SYMMETRY WorkspaceSymmetry
SPECIFICATION Spec
INVARIANTS
    IndexExact
    RolesAreLocal
    MembershipInv
PROPERTIES
    ImplementsDirectory
CHECK_DEADLOCK FALSE
