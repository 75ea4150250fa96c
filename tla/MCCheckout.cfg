SPECIFICATION FairSpec

CONSTANTS
    e1 = e1
    o1 = o1
    o2 = o2
    v1 = v1
    NULL = NULL
    Variants = {v1}
    Orders = {o1, o2}
    Deliveries = {}
    Events = {e1}
    Quantities = {1}
    Prices = {1}
    Amounts = {1}
    InitialStock <- OneEach
    Kinds <- Users
    Expiring = {}
    DeskOrders = {}
    ShippingFee = 1
    OrderTTL = 3
    IntentTTL = 2
    MaxClock = 2
    MaxFaults = 1
    Concurrency = 1
    MaxStalls = 1
    MaxImports = 0

INVARIANTS
    ReservesOnce
    NoOverReservation

PROPERTIES
    JobSettles
    DueIsCancelled

\* The requests, jobs and deliveries of an instance are finite: it may stop.
CHECK_DEADLOCK FALSE
