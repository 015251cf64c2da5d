CONSTANTS
    First = 1
    Count = 3
    Slices <- MCSlices
    Unusable = unusable
    Untitled = untitled
    Unnumbered = unnumbered
    Drawings <- MCDrawings
    Shows <- MCShows
    FirstMember = "MEMBER_A"
    OtherMembers = {"MEMBER_B"}
    Substance = {"CONNECTION_LOCATION", "PLATE_INFORMATION", "HOLE_INFORMATION"}
    Others = {"TRACEABILITY"}
    Sheets <- MCSheets
    Garbled = garbled
    Nothing = nothing
    MaxCandidates = 2
    MaxJobs = 1
    MaxFaults = 0
SPECIFICATION Spec
CHECK_DEADLOCK FALSE
INVARIANT CompleteIsAccepted
