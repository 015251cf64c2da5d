CONSTANTS
    Members <- MCMembers
    Known <- MCKnown
    Tolerance = 1
    ContactMargin = 2
    Nothing = nothing
    Misshapen = misshapen
    MaterialRequested = TRUE
    Count = 2
    Readings <- MCReadings
    RightAnswers <- MCRightAnswers
    OtherAnswers <- MCOtherAnswers
    Ids = {"C1", "C2"}
    Garbled = garbled
    MaxFaults = 2
SPECIFICATION Spec
INVARIANTS
    DrawnValuesAreDecided
    AttachedEndIsNearer
    RightAnswersRelease
PROPERTY ReleasedAsReviewed
CHECK_DEADLOCK FALSE
