SPECIFICATION MCSpec
CONSTANTS
    l1 = l1  l2 = l2  g1 = g1  g2 = g2  rose = rose  fern = fern  r1 = r1  r2 = r2
    Line = {l1, l2}
    Receipt = {g1, g2}
    Qty = {0, 1, 2}
    Good = {rose, fern}
    Paper = {"p1", "p2"}
    Loss = {"w1"}
    Press = {"k1", "k2"}
    NoPress = NoPress
    Slot = {r1, r2}
SYMMETRY Interchangeable
INVARIANTS TypeOK StatusTellsTruth StockIsOrdered PagesServe PostingsKeepStep
CHECK_DEADLOCK FALSE
