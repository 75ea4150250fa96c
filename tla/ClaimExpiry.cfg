SPECIFICATION Spec

CONSTANTS
    e1 = e1
    o1 = o1
    v1 = v1
    NULL = NULL
    Variants = {v1}
    Orders = {o1}
    Deliveries = {}
    Events = {e1}
    Quantities = {1}
    Prices = {1}
    Amounts = {1}
    InitialStock <- TwoEach
    Kinds <- Users
    Expiring = {}
    DeskOrders = {}
    ShippingFee = 1
    OrderTTL = 1
    IntentTTL = 0
    MaxClock = 2
    MaxFaults = 0
    Concurrency = 2
    MaxStalls = 0
    MaxImports = 0

INVARIANTS
    ExpiryLeavesStock

\* The requests, jobs and deliveries of an instance are finite: it may stop.
CHECK_DEADLOCK FALSE
