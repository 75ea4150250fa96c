SPECIFICATION FairSpec

CONSTANTS
    d1 = d1
    e1 = e1
    o1 = o1
    v1 = v1
    NULL = NULL
    Variants = {v1}
    Orders = {o1}
    Deliveries = {d1}
    Events = {e1}
    Quantities = {1}
    Prices = {1}
    Amounts = {1, 2, 3}
    InitialStock <- TwoEach
    Kinds <- Transfers
    Expiring = {}
    DeskOrders = {o1}
    ShippingFee = 1
    OrderTTL = 3
    IntentTTL = 2
    MaxClock = 3
    MaxFaults = 0
    Concurrency = 2
    MaxStalls = 0
    MaxImports = 0

INVARIANTS
    PaidIsBacked

PROPERTIES
    ExactPaymentPays

\* The requests, jobs and deliveries of an instance are finite: it may stop.
CHECK_DEADLOCK FALSE
