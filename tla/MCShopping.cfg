SPECIFICATION Spec

CONSTANTS
    c1 = c1
    c2 = c2
    c3 = c3
    u1 = u1
    g1 = g1
    v1 = v1
    NULL = NULL
    Users = {u1}
    Guests = {g1}
    Variants = {v1}
    Calls = {c1, c2, c3}
    Quantities = {1}
    Deltas <- OneMoreOrLess
    InactiveFor = 0
    MaxClock = 1
    Available = {0, 1, 2}

SYMMETRY CallSymmetry

INVARIANTS
    TypeOK
    OneOfEach
    NothingInvented

PROPERTIES
    MergeAddsUp
    ConvertedStays
    WishesAreOwn

\* The requests of an instance are finite: it may stop.
CHECK_DEADLOCK FALSE
