SPECIFICATION RaceSpec
CONSTANTS
    o1 = o1  a = a  l1 = l1  l2 = l2  s1 = s1  s2 = s2  r1 = r1  r2 = r2
    Counter = Counter
    Item = {a}
    Order = {o1}
    Line = {l1, l2}
    Sale = {s1, s2}
    LineOrder <- MCLineOrder
    LineItem <- MCLineItem
    LineQty <- MCLineQty
    SaleOrder <- MCSaleOrder
    Content <- MCContent
    Request = {r1, r2}
    OneKey = TRUE
    Kinds = {"reserveOrder", "setPlanned", "startPreparation", "updateActual", "markReady", "assembleOrder", "completeOrder", "cancelOrder", "createSale", "completeSale", "annulSale"}
    MaxStock = 2
    MaxEdits = 1
SYMMETRY Interchangeable
INVARIANTS OverlapsKeepTheStock
CHECK_DEADLOCK FALSE
