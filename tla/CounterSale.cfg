SPECIFICATION CounterSpec
CONSTANTS
    f = f  m = m  b = b
    Part = {f, m}
    Bouquet = {b}
    Most <- MCMost
    Tag = {5}
    Retail <- MCRetail
    Terms <- MCTerms
    Splits <- MCSplits
    Rights <- MCRights
    MaxTries = 2
    OverridePercent = 20
    None = None
INVARIANTS CounterTypeOK SoldOnceAndPaid
PROPERTIES ChargedAsShown SubmissionEnds
CHECK_DEADLOCK FALSE
