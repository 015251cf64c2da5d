---------------------------- MODULE PageCoverage ----------------------------
(***************************************************************************)
(* The page accounting of one PDF drawing set, as app/validation states    *)
(* it: what a coverage record says (page_coverage.py), which window is the *)
(* next one (page_windows.py), which failed page may be read again         *)
(* (parse_failures.py) and the status the persisted evidence supports      *)
(* (project_status.py).  Pure operators over records: no state.            *)
(***************************************************************************)
EXTENDS Integers, FiniteSets

CONSTANT Unknown        \* Python's None, where a page count is expected

ASSUME UnknownIsNoCount == Unknown \notin Int

Count == Nat \cup {Unknown}

Coverage == [total: Count, analysed: Nat, failed: Nat, notAnalysed: Count]

(***************************************************************************)
(* PageCoverage: the identity total = analysed + notAnalysed, and a        *)
(* complete reading.                                                       *)
(***************************************************************************)
IdentityHolds(c) ==
    /\ c.total # Unknown
    /\ c.notAnalysed # Unknown
    /\ c.analysed + c.notAnalysed = c.total

\* Mutant of IsComplete: pages that could not be parsed are forgotten.
IsCompleteThoughFailed(c) == IdentityHolds(c) /\ c.notAnalysed = 0

IsComplete(c) ==
    /\ IdentityHolds(c)
    /\ c.notAnalysed = 0
    /\ c.failed = 0

\* coverage_of: what one run that read the pages `read' (of which `failed'
\* could not be parsed) establishes.  Any inconsistency makes the total unknown.
CoverageOf(total, read, failed) ==
    IF /\ total \in Nat \ {0}
       /\ failed \subseteq read
       /\ read \subseteq 1..total
    THEN [total |-> total, analysed |-> Cardinality(read),
          failed |-> Cardinality(failed), notAnalysed |-> total - Cardinality(read)]
    ELSE [total |-> Unknown, analysed |-> Cardinality(read),
          failed |-> Cardinality(failed), notAnalysed |-> Unknown]

(***************************************************************************)
(* check_page_window.  A window is requested by its first and last page;   *)
(* either may be left out (NotRequested), and is then the derived one.     *)
(***************************************************************************)
Accepted == "ACCEPTED"

NotRequested == Unknown

Boundary(c) == c.analysed + 1

Lesser(a, b) == IF a <= b THEN a ELSE b

DerivedWindow(c, size) ==
    [first |-> Boundary(c), last |-> Lesser(Boundary(c) + size - 1, c.total)]

RequestedWindow(c, size, first, last) ==
    [first |-> IF first = NotRequested THEN DerivedWindow(c, size).first ELSE first,
     last  |-> IF last = NotRequested THEN DerivedWindow(c, size).last ELSE last]

\* Mutant of WindowRefusal: the boundary is not enforced, only the document's end.
WindowRefusalUnordered(c, size, first, last) ==
    LET w == RequestedWindow(c, size, first, last)
    IN  IF ~ IdentityHolds(c) THEN "COVERAGE_UNUSABLE"
        ELSE IF w.last < w.first \/ w.last > c.total THEN "WINDOW_MALFORMED"
        ELSE Accepted

WindowRefusal(c, size, first, last) ==
    LET w == RequestedWindow(c, size, first, last)
    IN  IF ~ IdentityHolds(c) THEN "COVERAGE_UNUSABLE"
        ELSE IF IsComplete(c) THEN "WINDOW_ALREADY_COMPLETE"
        ELSE IF first = NotRequested /\ Boundary(c) > c.total THEN "WINDOW_ALREADY_COMPLETE"
        ELSE IF w.first < 1 \/ w.last < 1 \/ w.last < w.first THEN "WINDOW_MALFORMED"
        ELSE IF w.last > c.total THEN "WINDOW_BEYOND_DOCUMENT"
        ELSE IF w.last > w.first + size - 1 THEN "WINDOW_TOO_LARGE"
        ELSE IF w.last < Boundary(c) THEN "WINDOW_BACKWARD"
        ELSE IF w.first < Boundary(c) THEN "WINDOW_OVERLAP"
        ELSE IF w.first > Boundary(c) THEN "WINDOW_SKIP"
        ELSE Accepted

\* Mutant of Accumulate: the window's length counted one too many.
AccumulateOnePast(c, w, failed) ==
    LET analysed == c.analysed + (w.last - w.first + 2)
    IN  [total |-> c.total, analysed |-> analysed,
         failed |-> c.failed + Cardinality(failed), notAnalysed |-> c.total - analysed]

\* accumulate_coverage: a committed record plus one window read in full.
Accumulate(c, w, failed) ==
    LET analysed == c.analysed + (w.last - w.first + 1)
    IN  [total |-> c.total, analysed |-> analysed,
         failed |-> c.failed + Cardinality(failed), notAnalysed |-> c.total - analysed]

(***************************************************************************)
(* check_retry_request, and the record of a page that was repaired.        *)
(***************************************************************************)
RetryRefusal(c, failures, page) ==
    IF page < 1 THEN "RETRY_PAGE_MALFORMED"
    ELSE IF ~ IdentityHolds(c) THEN "COVERAGE_UNUSABLE"
    ELSE IF Cardinality(failures) # c.failed THEN "RETRY_FAILURES_CONFLICT"
    ELSE IF page > c.total THEN "RETRY_PAGE_BEYOND_DOCUMENT"
    ELSE IF page \notin failures THEN "RETRY_PAGE_NOT_FAILED"
    ELSE Accepted

OneFailureFewer(c) == [c EXCEPT !.failed = @ - 1]

(***************************************************************************)
(* derive_project_status: "done" needs a complete reading, some evidence   *)
(* and no row held for review; anything else is "review".  `coverage' is a *)
(* set of at most one record, empty when the caller states none.  Sections *)
(* that matched nothing and evidence dropped from a DXF file hold a project *)
(* back as well and are left out: here more projects are "done", so that   *)
(* what is shown of every one of them holds of those the code calls so.    *)
(***************************************************************************)
\* Mutant of DerivedStatus: rows held for review are not looked at.
DerivedStatusUnreviewed(coverage, rows) ==
    IF (\E c \in coverage : IsComplete(c)) /\ rows # {} THEN "done" ELSE "review"

DerivedStatus(coverage, rows) ==
    IF /\ \E c \in coverage : IsComplete(c)
       /\ rows # {}
       /\ \A r \in rows : ~ r.held
    THEN "done"
    ELSE "review"
=============================================================================
