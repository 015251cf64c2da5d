CONSTANTS
    First = 1
    Count = 3
    Slices <- MCSlices
    Unusable = unusable
    Untitled = untitled
    Unnumbered = unnumbered
    Drawings <- MCDrawings
    Shows <- MCShows
    FirstMember = "MEMBER_A"
    OtherMembers = {"MEMBER_B"}
    Substance = {"CONNECTION_LOCATION", "PLATE_INFORMATION", "HOLE_INFORMATION"}
    Others = {"TRACEABILITY"}
    Sheets <- MCSheets
    Garbled = garbled
    Nothing = nothing
    MaxCandidates = 2
    MaxJobs = 2
    MaxFaults = 1
    Pages = {1, 2}
    Runs = {1, 2}
    Readable <- MCReadable
    NotARecord = notARecord
    Illegible = illegible
    Unstated = unstated
    Keys <- MCKeys
    Citable <- MCCitable
    TaskField <- MCTaskField
    MaxCaptures = 2
    MaxCitations = 3
    s1 = s1  s2 = s2
    Slots = {s1, s2}
    CapturedRows <- MCCaptured
    CatalogueRows <- MCCatalogue
    Dimensions = {"depth", "width"}
    Absent = absent
    Scrap = scrap
    Reports <- MCReports
    ReportedItems = {"MATERIAL_STATED", "MEMBERS_IDENTIFIED"}
    Printed = {"MEMBERS_IDENTIFIED"}
    Answers <- MCAnswers
    MaxMishaps = 1
    Stated <- MCStated
    Catalogues <- MCCatalogues
    Bare = bare
    NoSection = noSection
    NoMark = ""
    Timber <- MCTimber
    MaxEntries = 3
    MaxEdits = 1
SPECIFICATION SpecEvidence
SYMMETRY Interchangeable
CHECK_DEADLOCK FALSE
INVARIANTS EveryPageAccounted OnlyCapturedEvidence CompleteIsWhole WholeIsComplete
  AcceptedContradictsNothing CitedIsOwn DeliveredIsChosen ConfirmedIsAgreed
PROPERTIES EarlierEvidenceKept ConflictStands
