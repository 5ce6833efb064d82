CONSTANTS
    Request = {r1, r2}
    Key = {k1, k2}
    NoSet = NoSet
    MaxChanges = 3
    MaxBuilds = 3
    Handler = {h1}
    Consumer = {"c", "p2"}
    Provider = {"p1", "p2"}
    ExportName = {"s3"}
    Resource = {"buckets"}
    PathOf <- MCPathOf
    File <- MCFile
    RequireExportContent = TRUE
    MaxEdits = 2
    MaxReviews = 2
    Instance = {i1, i2}
    Slice = {"x"}
    Exports = {"s3", "db"}
    Workspace = "p1"
    Options <- MCOptions
    ServerPrefix <- MCPrefix
    ServerName = "ephemeral"
    Target = "c"
    MaxWrites = 3
    eu = "eu"
SYMMETRY HandlerSymmetry
SPECIFICATION MCSpec
INVARIANTS
    CacheInv
    AnswersAreCurrent
    RequestInv
    CleanPassPublishes
PROPERTIES
    HandedOutLive
