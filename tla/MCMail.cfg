SPECIFICATION FairSpec

CONSTANTS
    c1 = c1
    c2 = c2
    u1 = u1
    f1 = f1
    NULL = NULL
    Users = {u1}
    InitialUsers = {}
    Fingerprints = {f1}
    Calls = {c1, c2}
    Kinds = {"register", "verify", "resend", "forgot", "validate", "reset"}
    CodeTTL = 0
    SessionTTL = 0
    MaxClock = 1
    MaxFaults = 2
    MaxDevices = 1
    MaxPerDay = 1
    BlockWindow = 1
    MaxAttempts = 3
    MaxStalls = 1

INVARIANTS
    LinksMatchCodes

PROPERTIES
    MailSettles

\* The requests of an instance are finite: it may stop.
CHECK_DEADLOCK FALSE
