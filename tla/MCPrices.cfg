SPECIFICATION Spec

CONSTANTS
    e1 = e1
    o1 = o1
    v1 = v1
    v2 = v2
    NULL = NULL
    Variants = {v1, v2}
    Orders = {o1}
    Deliveries = {}
    Events = {e1}
    Quantities = {1}
    Prices = {1, 2}
    Amounts = {1}
    InitialStock <- TwoEach
    Kinds <- AllKinds
    Expiring = {v1}
    DeskOrders = {o1}
    ShippingFee = 1
    OrderTTL = 3
    IntentTTL = 2
    MaxClock = 0
    MaxFaults = 1
    Concurrency = 2
    MaxStalls = 1
    MaxImports = 1

INVARIANTS
    TypeOK
    ItemsAddUp

\* The requests, jobs and deliveries of an instance are finite: it may stop.
CHECK_DEADLOCK FALSE
