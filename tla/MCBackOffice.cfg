SPECIFICATION Spec

CONSTANTS
    v1 = v1
    v2 = v2
    r1 = r1
    r2 = r2
    r3 = r3
    NULL = NULL
    Requests = {r1, r2, r3}
    Variants = {v1, v2}
    Codes = {"c1", "c2"}
    OrderBodies <- MCOrderBodies
    OldOrders <- MCOldOrders
    Deliveries <- MCDeliveries
    Grain = 2

SYMMETRY Symmetry

INVARIANTS
    TypeOK
    StockIsImported
    FullDeliveryCostsTheOrder
    PagesShowAll

PROPERTIES
    DecisionStands

\* Every request is made once: an instance may stop.
CHECK_DEADLOCK FALSE
