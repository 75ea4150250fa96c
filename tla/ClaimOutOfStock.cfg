SPECIFICATION Spec

CONSTANTS
    e1 = e1
    o1 = o1
    o2 = o2
    v1 = v1
    NULL = NULL
    Variants = {v1}
    Orders = {o1, o2}
    Deliveries = {}
    Events = {e1}
    Quantities = {1}
    Prices = {1}
    Amounts = {1}
    InitialStock <- OneEach
    Kinds <- Users
    Expiring = {}
    DeskOrders = {}
    ShippingFee = 1
    OrderTTL = 3
    IntentTTL = 2
    MaxClock = 0
    MaxFaults = 0
    Concurrency = 2
    MaxStalls = 0
    MaxImports = 0

INVARIANTS
    OutOfStockIsRejected

\* The requests, jobs and deliveries of an instance are finite: it may stop.
CHECK_DEADLOCK FALSE
