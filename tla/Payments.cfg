SPECIFICATION MCSpec
CONSTANTS
    p1 = p1  p2 = p2  p3 = p3
    w1 = w1  w2 = w2  w3 = w3  w4 = w4
    f1 = f1  f2 = f2  f3 = f3  f4 = f4
    o = o  o2 = o2  q1 = q1  q2 = q2
    k1 = k1  k2 = k2  k3 = k3
    Payment = {p1, p2, p3}
    Target = {o, o2}
    Sold = {}
    Row = {w1, w2, w3, w4}
    RowPayment <- MCRowPayment
    RowTarget <- MCRowTarget
    RowAmount <- MCRowAmount
    Refund = {f1, f2, f3, f4}
    RefundPayment <- MCRefundPayment
    RefundAmount <- MCRefundAmount
    Key = {k1, k2, k3}
    Presses <- MCPresses
    Request = {q1, q2}
    NoPrice = NoPrice
    Price = {2}
    Unsettled = {o}
SYMMETRY Interchangeable
INVARIANTS TypeOK LimitsHold MoneyPagesServe
PROPERTIES AnnulledForGood
CHECK_DEADLOCK FALSE
