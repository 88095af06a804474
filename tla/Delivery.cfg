SPECIFICATION Spec
CONSTANTS
    j1 = j1  j2 = j2  c1 = c1  c2 = c2
    Job = {j1, j2}
    Courier = {c1, c2}
    NoCourier = NoCourier
SYMMETRY Interchangeable
INVARIANTS TypeOK JobsAgree
