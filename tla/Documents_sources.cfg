CONSTANTS
    Contents = {a, b}
    Names = {m, n}
    Unusable = unusable
    Uploaded = m
    First = a
    Nothing = nothing
    Roles = {detail}
    UnknownRole = unknown
    Requests = {r1, r2}
    Tasks = {t1}
    Windows = 2
    MaxFiles = 1
    MaxReadings = 2
    MaxReviewed = 1
    MaxFaults = 1
SYMMETRY Symmetry
SPECIFICATION Spec
INVARIANTS
    SourceIsWhatItClaims
    OutcomeNamesItsBytes
    SelectionIsOwnReading
    SummaryDescribesTheSet
PROPERTIES
    RowsKeepWhatWasAsserted
    ImplementsSourceRegistry
CHECK_DEADLOCK FALSE
