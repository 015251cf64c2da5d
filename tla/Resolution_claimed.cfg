CONSTANTS
    t1 = t1  t2 = t2  t3 = t3  d1 = d1
    k1 = k1  k2 = k2  run1 = run1  run2 = run2
    Tasks = {t1, t2, t3}
    Documents = {d1}
    Readings <- PartialReadings
    Connections = {k1, k2}
    Origins = {run1, run2}
    LeasesExpire = FALSE
    AnswersLost = FALSE
    None = None
    Never = Never
SPECIFICATION FairSpec
INVARIANT DeliveredIsVerified
PROPERTY ClaimIsFreed
CHECK_DEADLOCK FALSE
