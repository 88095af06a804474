CONSTANTS
    l1 = l1
    l2 = l2
    Item = {"rose", "ribbon"}
    Batch <- MCBatch
    Receipt = {"g1", "g2"}
    Line <- MCLine
    Sale = {"s1"}
    Order = {}
    WriteOff = {"w1"}
    ItemOf <- MCItemOf
    ReceiptOf <- MCReceiptOf
    LineItem <- MCLineItem
    Composition <- MCComposition
    Revisable = {"g2"}
    MaxQty = 2
    MaxCorrected = 1

SPECIFICATION Spec

SYMMETRY Interchangeable

INVARIANTS
    TypeOK
    BooksAddUp
    ReservationsAreBacked
    BatchesAddUp

PROPERTIES
    KeepsPromise
