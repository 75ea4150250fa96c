SPECIFICATION Spec

CONSTANTS
    d1 = d1
    d2 = d2
    e1 = e1
    o1 = o1
    v1 = v1
    NULL = NULL
    Variants = {v1}
    Orders = {o1}
    Deliveries = {d1, d2}
    Events = {e1}
    Quantities = {1}
    Prices = {1}
    Amounts = {1, 2, 3}
    InitialStock <- TwoEach
    Kinds <- Transfers
    Expiring = {}
    DeskOrders = {o1}
    ShippingFee = 1
    OrderTTL = 3
    IntentTTL = 2
    MaxClock = 0
    MaxFaults = 1
    Concurrency = 2
    MaxStalls = 1
    MaxImports = 0

SYMMETRY DeliverySymmetry

INVARIANTS
    PaidIsBacked
    SettledIsRecorded

PROPERTIES
    LedgerSpec

\* The requests, jobs and deliveries of an instance are finite: it may stop.
CHECK_DEADLOCK FALSE
