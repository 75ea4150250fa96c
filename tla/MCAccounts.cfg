SPECIFICATION Spec

CONSTANTS
    c1 = c1
    c2 = c2
    c3 = c3
    u1 = u1
    u2 = u2
    f1 = f1
    f2 = f2
    NULL = NULL
    Users = {u1, u2}
    InitialUsers = {u2}
    Fingerprints = {f1, f2}
    Calls = {c1, c2, c3}
    Kinds = {"login", "refresh", "logout", "change", "register", "verify", "resend", "forgot", "validate", "reset"}
    CodeTTL = 1
    SessionTTL = 0
    MaxClock = 1
    MaxFaults = 0
    MaxDevices = 1
    MaxPerDay = 2
    BlockWindow = 1
    MaxAttempts = 3
    MaxStalls = 1

SYMMETRY CallSymmetry

INVARIANTS
    TypeOK
    LinksOfOwner
    LimitsHold

PROPERTIES
    DeadStaysDead
    SpentLinks

\* The requests of an instance are finite: it may stop.
CHECK_DEADLOCK FALSE
