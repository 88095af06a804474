SPECIFICATION Spec
CONSTANTS
    o1 = o1  o2 = o2  a = a  b = b  l1 = l1  l2 = l2  l3 = l3  l4 = l4
    s1 = s1  s2 = s2  s3 = s3  d1 = d1  Counter = Counter
    LineOrder <- MCLineOrder
    LineItem <- MCLineItem
    LineQty <- MCLineQty
    SaleOrder <- MCSaleOrder
    Content <- MCContent
    Item = {a, b}
    Order = {o1, o2}
    Line = {l1, l2, l4}
    Sale = {s1, d1}
    MaxStock = 1
    MaxEdits = 1
INVARIANTS TypeOK HandedOverOnce PromisesHold
CHECK_DEADLOCK FALSE
