CONSTANTS
    Contents = {a, b}
    Names = {m, n}
    Unusable = unusable
    Uploaded = m
    First = a
    Nothing = nothing
    Roles = {detail}
    UnknownRole = unknown
    Requests = {r1}
    Tasks = {t1}
    Windows = 1
    MaxFiles = 2
    MaxReadings = 2
    MaxReviewed = 0
    MaxFaults = 0
SPECIFICATION Spec
INVARIANT ReadProjectIsNotProcessing
CHECK_DEADLOCK FALSE
