SPECIFICATION RaceSpec
CONSTANTS
    o1 = o1  a = a  l1 = l1  l2 = l2  s1 = s1  s2 = s2  r1 = r1  r2 = r2
    Counter = Counter
    Item = {a}
    Order = {o1}
    Line = {l1}
    Sale = {s1}
    LineOrder <- MCLineOrder
    LineItem <- MCLineItem
    LineQty <- MCLineQty
    SaleOrder <- MCSaleOrder
    Content <- MCContent
    Request = {r1, r2}
    OneKey = FALSE
    Kinds = {"createSale", "completeSale"}
    MaxStock = 2
    MaxEdits = 0
INVARIANTS SaleIssuesOnce
CHECK_DEADLOCK FALSE
