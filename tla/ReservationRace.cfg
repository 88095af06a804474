CONSTANTS
    Tx = {"t1", "t2"}
    Order = {"o1", "o2"}
    Lines <- MCLines
    Item = {"rose", "fern"}
    Ops = {"reserve", "release", "issue"}
    MaxQty = 1
    MaxStock = 2

SPECIFICATION Spec

INVARIANTS
    ReservationsFit

PROPERTIES
    CommitsKeepThePromise
    EveryRequestEnds

CHECK_DEADLOCK FALSE
