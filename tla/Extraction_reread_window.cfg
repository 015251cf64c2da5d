CONSTANTS
    t1 = t1  t2 = t2  t3 = t3  t4 = t4
    m1 = m1  m2 = m2  m3 = m3
    Tasks = {t1, t2, t3}
    Total = 2
    Window = 1
    Marks = {m1, m2, m3}
    Unmarked = m3
    Drawn <- ConnectionPages
    MaxActive = 1
    NoRecord = NoRecord
    Unknown = Unknown
SPECIFICATION Spec
CHECK_DEADLOCK FALSE
INVARIANT NoPageTwice
