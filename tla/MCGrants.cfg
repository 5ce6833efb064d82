CONSTANTS
    Member = {m1}
    Project = {p1}
    Role = {view, admin}
    None = None
    AllProjects = AllProjects
    Scope = {AllProjects, p2}
    Lagging = TRUE
    MaxEvents = 1
SPECIFICATION Spec
INVARIANTS
    GrantsInv
PROPERTIES
    GrantsSettle
CHECK_DEADLOCK FALSE
