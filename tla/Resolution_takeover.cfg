CONSTANTS
    t1 = t1  t2 = t2  t3 = t3  d1 = d1
    k1 = k1  k2 = k2  run1 = run1  run2 = run2
    Tasks = {t1, t2, t3}
    Documents = {d1}
    Readings <- OneReading
    Connections = {k1, k2}
    Origins = {run1, run2}
    LeasesExpire = TRUE
    AnswersLost = FALSE
    None = None
    Never = Never
SPECIFICATION Spec
SYMMETRY Interchangeable
INVARIANT DeliveredIsVerified
CHECK_DEADLOCK FALSE
