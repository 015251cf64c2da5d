CONSTANTS
    t1 = t1  t2 = t2  t3 = t3  t4 = t4
    m1 = m1  m2 = m2  m3 = m3
    Tasks = {t1, t2, t3}
    Total = 3
    Window = 2
    Marks = {m1, m2, m3}
    Unmarked = m3
    Drawn <- Drawings
    MaxActive = 1
    NoRecord = NoRecord
    Unknown = Unknown
SYMMETRY Interchangeable
SPECIFICATION Spec
CHECK_DEADLOCK FALSE
INVARIANTS NoMarkedPageTwice DoneHoldsNothing NoDeadEnd TotalsCountRows
PROPERTY ImplementsPageRecord
