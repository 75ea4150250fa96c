SPECIFICATION Spec

CONSTANTS
    g1 = g1
    q1 = q1
    NULL = NULL
    Roles = {"STAFF"}
    Permissions = {"orders", "imports", "roles", "obsolete"}
    Users = {"STAFF"}
    Guards = {g1}
    Grantors = {q1}
    CacheTTL = 1
    MaxClock = 2
    Topics = {"technology", "programming"}
    Shelf <- MCShelf
    Suppliers = {"SUP-FAHASA"}
    FirstVariantIds = {8}
    MaxRuns = 2

INVARIANTS
    TypeOK
    AccessConverges
    RowsAreFoundAgain
    SellableIsBacked

PROPERTIES
    DecidedOnRecentGrants

\* The seed is started only so often: an instance may stop.
CHECK_DEADLOCK FALSE
