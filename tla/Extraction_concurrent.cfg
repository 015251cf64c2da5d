CONSTANTS
    t1 = t1  t2 = t2  t3 = t3  t4 = t4
    m1 = m1  m2 = m2  m3 = m3
    Tasks = {t1, t2, t3}
    Total = 2
    Window = 1
    Marks = {m1, m2, m3}
    Unmarked = m3
    Drawn <- Drawings
    MaxActive = 2
    NoRecord = NoRecord
    Unknown = Unknown
SPECIFICATION FairSpec
CHECK_DEADLOCK FALSE
INVARIANTS TypeOK RecordIsTruthful RecordAgreesWithItself DoneMeansAllRead EvidenceWasCaptured
PROPERTY NeverStuckProcessing
