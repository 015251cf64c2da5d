-------------------------- MODULE ExtractionProofs --------------------------
(***************************************************************************)
(* For every document, window size, set of tasks and number of tasks in    *)
(* flight: the state is well typed, the committed record is never ahead of *)
(* the persisted evidence, and a project is "done" only when every page is *)
(* answered.  No fairness and no serial execution is assumed: tasks        *)
(* interleave at every call and stop at any of them.                       *)
(***************************************************************************)
EXTENDS Extraction, FiniteSetTheorems, TLAPS

-----------------------------------------------------------------------------
(* What check_page_window and check_retry_request accept, of every record and  *)
(* every request.                                                              *)

\* The whole refusal chain of check_page_window accepts exactly one shape of
\* explicit request: a window that starts at the first unread page, is no longer
\* than one window, and ends inside the document.
THEOREM AcceptedIsNextWindow ==
    ASSUME NEW c \in Coverage, NEW size \in Nat \ {0}, NEW first \in Int, NEW last \in Int
    PROVE  WindowRefusal(c, size, first, last) = Accepted
             <=> /\ IdentityHolds(c)
                 /\ first = Boundary(c)
                 /\ last \in first..(first + size - 1)
                 /\ last <= c.total
<1>1. /\ first # NotRequested
      /\ last # NotRequested
  BY UnknownIsNoCount DEF NotRequested
<1>2. RequestedWindow(c, size, first, last) = [first |-> first, last |-> last]
  BY <1>1 DEF RequestedWindow
<1>3. CASE ~ IdentityHolds(c)
  BY <1>3 DEF WindowRefusal, Accepted
<1>4. CASE IdentityHolds(c)
  <2>1. /\ c.total \in Nat
        /\ c.notAnalysed \in Nat
        /\ c.analysed \in Nat
        /\ c.analysed + c.notAnalysed = c.total
    BY <1>4 DEF IdentityHolds, Coverage, Count
  <2>2. CASE IsComplete(c)
    BY <1>4, <2>1, <2>2 DEF IsComplete, WindowRefusal, Accepted, Boundary
  <2>3. CASE ~ IsComplete(c)
    <3>1. WindowRefusal(c, size, first, last) = Accepted
            <=> ~ \/ first < 1 \/ last < 1 \/ last < first
                  \/ last > c.total
                  \/ last > first + size - 1
                  \/ last < Boundary(c)
                  \/ first < Boundary(c)
                  \/ first > Boundary(c)
      BY <1>1, <1>2, <1>4, <2>3 DEF WindowRefusal, Accepted
    <3>2. QED
      BY <1>4, <2>1, <3>1 DEF Boundary
  <2>4. QED
    BY <2>2, <2>3
<1>5. QED
  BY <1>3, <1>4

\* check_retry_request accepts only a page the record names as failed, of a
\* record that adds up and whose two lines agree.
THEOREM RetryNamesFailedPage ==
    ASSUME NEW c \in Coverage, NEW failures, NEW page \in Int,
           RetryRefusal(c, failures, page) = Accepted
    PROVE  /\ IdentityHolds(c)
           /\ Cardinality(failures) = c.failed
           /\ page \in failures
           /\ page \in 1..c.total
<1>1. /\ IdentityHolds(c) /\ Cardinality(failures) = c.failed /\ page \in failures
      /\ ~ (page < 1) /\ ~ (page > c.total)
  BY DEF RetryRefusal, Accepted
<1>2. c.total \in Nat
  BY <1>1 DEF IdentityHolds, Coverage, Count
<1>3. QED
  BY <1>1, <1>2

-----------------------------------------------------------------------------
(* Arithmetic of pages and windows. *)

LEMMA PagesAreCounts ==
    /\ Total \in Nat /\ Total >= 1
    /\ Window \in Nat /\ Window >= 1
    /\ Page \subseteq Nat
    /\ Unknown \notin Nat
BY TotalIsCount, WindowIsCount, UnknownIsNoCount DEF Page

\* A non-empty set of naturals has a least element.
LEMMA LeastExists ==
    ASSUME NEW S \in SUBSET Nat, S # {}
    PROVE  \E x \in S : \A y \in S : x <= y
<1>1. IsWellFoundedOn(OpToRel(<, Nat), Nat)
  BY NatLessThanWellFounded
<1>2. PICK x \in S : \A y \in S : ~ (<<y, x>> \in OpToRel(<, Nat))
  BY <1>1, WFMin
<1>3. \A y \in S : ~ (y < x)
  BY <1>2 DEF OpToRel
<1>4. QED
  BY <1>3

LEMMA UpTo ==
    ASSUME NEW n \in Nat
    PROVE  IsFiniteSet(1..n) /\ Cardinality(1..n) = n
<1>1. 1 \in Int /\ n \in Int
  OBVIOUS
<1>2. /\ IsFiniteSet(1..n)
      /\ Cardinality(1..n) = IF 1 > n THEN 0 ELSE n - 1 + 1
  BY <1>1, FS_Interval
<1>3. QED
  BY <1>2

LEMMA FirstWindowIsJob ==
    /\ FirstWindow \in Job
    /\ FirstWindow.first = 1
    /\ FirstWindow.last \in Page
    /\ FirstWindow.last <= Window
BY PagesAreCounts DEF FirstWindow, Job, Page, Lesser

LEMMA PagesOfJob ==
    ASSUME NEW j \in Job
    PROVE  /\ PagesOf(j) \subseteq Page
           /\ IsFiniteSet(PagesOf(j))
<1>1. j.first \in Page /\ j.last \in Page
  BY DEF Job
<1>2. j.first \in Int /\ j.last \in Int
  BY <1>1 DEF Page
<1>3. IsFiniteSet(j.first..j.last)
  BY <1>2, FS_Interval
<1>4. j.first..j.last \subseteq 1..Total
  BY <1>1, PagesAreCounts DEF Page
<1>5. QED
  BY <1>3, <1>4 DEF PagesOf, Page

\* What a window adds to a record, counted.
LEMMA FailedPagesCounted ==
    ASSUME NEW j \in Job, NEW r
    PROVE  /\ FailedPages(j, r) \subseteq PagesOf(j)
           /\ IsFiniteSet(FailedPages(j, r))
           /\ Cardinality(FailedPages(j, r)) \in Nat
<1>1. FailedPages(j, r) \subseteq PagesOf(j)
  BY DEF FailedPages
<1>2. IsFiniteSet(FailedPages(j, r))
  BY <1>1, PagesOfJob, FS_Subset
<1>3. QED
  BY <1>1, <1>2, FS_CardinalityType

-----------------------------------------------------------------------------
(* The rows a run makes of its reading. *)

\* A reading that was not parsed states nothing.
Sound(r) == \A p \in Page : ~ r[p].parsed => r[p].marks = {} /\ ~ r[p].connection

LEMMA MemberRowsTyped ==
    ASSUME NEW t \in Tasks, NEW j \in Job, NEW r \in [Page -> Reading]
    PROVE  /\ MemberRows(t, j, r) \subseteq MemberRow
           /\ \A m \in MemberRows(t, j, r) :
                m.task = t /\ m.page \in PagesOf(j) /\ m.mark \in r[m.page].marks
<1>1. \A p \in PagesOf(j) : p \in Page /\ r[p] \in Reading
  BY PagesOfJob
<1>2. \A p \in PagesOf(j) : r[p].marks \subseteq Marks /\ r[p].held \in BOOLEAN
  BY <1>1 DEF Reading
<1>3. QED
  BY <1>1, <1>2 DEF MemberRows, MemberRow

LEMMA MemberRowsFinite ==
    ASSUME NEW t \in Tasks, NEW j \in Job, NEW r \in [Page -> Reading]
    PROVE  IsFiniteSet(MemberRows(t, j, r))
<1> DEFINE S == MemberRows(t, j, r)
           D == PagesOf(j) \X Marks
           f == [m \in S |-> <<m.page, m.mark>>]
<1>1. IsFiniteSet(D)
  BY PagesOfJob, MarksAreFinite, FS_Product
<1>2. \A m \in S : m \in MemberRow /\ m.task = t /\ m.page \in PagesOf(j)
  BY MemberRowsTyped
<1>3. f \in [S -> D]
  BY <1>2 DEF MemberRow
<1>4. \A a, b \in S : f[a] = f[b] => a = b
  <2> SUFFICES ASSUME NEW a \in S, NEW b \in S, f[a] = f[b] PROVE a = b
    OBVIOUS
  <2>1. a.page = b.page /\ a.mark = b.mark
    OBVIOUS
  <2>2. a.held = b.held
    BY <2>1 DEF MemberRows
  <2>3. a.task = b.task
    BY <1>2
  <2>4. a \in MemberRow /\ b \in MemberRow
    BY <1>2
  <2>5. QED
    BY <2>1, <2>2, <2>3, <2>4 DEF MemberRow
<1>5. f \in Injection(S, D)
  BY <1>3, <1>4 DEF Injection, IsInjective
<1>6. QED
  BY <1>1, <1>5, FS_Injection

LEMMA ConnectionRowsTyped ==
    ASSUME NEW t \in Tasks, NEW j \in Job, NEW r \in [Page -> Reading]
    PROVE  /\ ConnectionRows(t, j, r) \subseteq ConnectionRow
           /\ \A c \in ConnectionRows(t, j, r) :
                c.task = t /\ c.page \in PagesOf(j) /\ r[c.page].connection
<1>1. \A p \in PagesOf(j) : p \in Page /\ r[p] \in Reading
  BY PagesOfJob
<1>2. \A p \in PagesOf(j) : r[p].held \in BOOLEAN
  BY <1>1 DEF Reading
<1>3. QED
  BY <1>1, <1>2 DEF ConnectionRows, ConnectionRow

LEMMA ConnectionRowsFinite ==
    ASSUME NEW t \in Tasks, NEW j \in Job, NEW r \in [Page -> Reading]
    PROVE  IsFiniteSet(ConnectionRows(t, j, r))
<1> DEFINE S == ConnectionRows(t, j, r)
           f == [c \in S |-> c.page]
<1>1. IsFiniteSet(PagesOf(j))
  BY PagesOfJob
<1>2. \A c \in S : c.page \in PagesOf(j)
  BY ConnectionRowsTyped
<1>3. f \in [S -> PagesOf(j)]
  BY <1>2
<1>4. \A a, b \in S : f[a] = f[b] => a = b
  BY DEF ConnectionRows
<1>5. f \in Injection(S, PagesOf(j))
  BY <1>3, <1>4 DEF Injection, IsInjective
<1>6. QED
  BY <1>1, <1>5, FS_Injection

\* Every mark a page states has a row of that run: its own, or the first page's.
LEMMA EveryMarkHasRow ==
    ASSUME NEW t \in Tasks, NEW j \in Job, NEW r \in [Page -> Reading],
           NEW p \in PagesOf(j), NEW m \in r[p].marks
    PROVE  \E row \in MemberRows(t, j, r) : row.task = t /\ row.mark = m
<1>1. p \in Page /\ r[p] \in Reading
  BY PagesOfJob
<1>2. m \in Marks
  BY <1>1 DEF Reading
<1>3. p \in Bearing(j, r, m) /\ Bearing(j, r, m) \in SUBSET Nat
  BY PagesOfJob, PagesAreCounts DEF Bearing
<1>4. PICK q \in Bearing(j, r, m) : \A o \in Bearing(j, r, m) : q <= o
  BY <1>3, LeastExists
<1>5. q \in PagesOf(j) /\ m \in r[q].marks
  BY DEF Bearing
<1>6. r[q].held \in BOOLEAN
  BY <1>5, PagesOfJob DEF Reading
<1> DEFINE alone == m = Unmarked \/ Bearing(j, r, m) = {IF m = Unmarked THEN p ELSE q}
           source == IF m = Unmarked THEN p ELSE q
           row == [task |-> t, page |-> source, mark |-> m, held |-> r[source].held /\ alone]
<1>7. source \in PagesOf(j) /\ m \in r[source].marks
  BY <1>5
<1>8. row.held \in BOOLEAN
  OBVIOUS
<1>9. row \in MemberRows(t, j, r)
  BY <1>2, <1>4, <1>7, <1>8 DEF MemberRows
<1>10. QED
  BY <1>9

-----------------------------------------------------------------------------
(* The evidence only grows, so what a record says of it stays true. *)

EvidenceIn(c, M, N) ==
    /\ \A m \in c.reading.marks : \E row \in M : row.task = c.task /\ row.mark = m
    /\ c.reading.connection => \E row \in N : row.task = c.task /\ row.page = c.page

AnsweredIn(p, C, M, N) ==
    \E c \in C : c.page = p /\ c.reading.parsed /\ EvidenceIn(c, M, N)

TruthfulIn(r, C, M, N) ==
    r # NoRecord =>
        \A p \in 1..r.coverage.analysed :
            /\ \E c \in C : c.page = p
            /\ p \notin r.failures => AnsweredIn(p, C, M, N)

LEMMA AnsweredGrows ==
    ASSUME NEW p, NEW C, NEW M, NEW N, NEW C2, NEW M2, NEW N2,
           C \subseteq C2, M \subseteq M2, N \subseteq N2, AnsweredIn(p, C, M, N)
    PROVE  AnsweredIn(p, C2, M2, N2)
<1>1. PICK c \in C : c.page = p /\ c.reading.parsed /\ EvidenceIn(c, M, N)
  BY DEF AnsweredIn
<1>2. EvidenceIn(c, M2, N2)
  BY <1>1 DEF EvidenceIn
<1>3. QED
  BY <1>1, <1>2 DEF AnsweredIn

LEMMA TruthfulGrows ==
    ASSUME NEW r, NEW C, NEW M, NEW N, NEW C2, NEW M2, NEW N2,
           C \subseteq C2, M \subseteq M2, N \subseteq N2, TruthfulIn(r, C, M, N)
    PROVE  TruthfulIn(r, C2, M2, N2)
BY AnsweredGrows DEF TruthfulIn

-----------------------------------------------------------------------------
(* The inductive invariant. *)

Planned == {"read", "open", "captures", "members", "connections", "set", "run", "summary"}

JobShape(t) ==
    /\ pc[t] # "idle" =>
        /\ job[t].kind = "extract" => job[t] = FirstWindow
        /\ job[t].kind = "retry" => job[t].last = job[t].first
    /\ pc[t] = "open" => ~ IsExtract(t)
    /\ pc[t] \in {"opened", "meta"} => IsExtract(t)
    /\ pc[t] \in {"members", "connections", "meta", "set", "summary"} => ~ StillUnread(t)

\* What a task planned on is a record that adds up, that is true of the
\* evidence, and that its own window or page fits.
PlanHolds(t) ==
    ~ IsExtract(t) /\ pc[t] \in Planned =>
        /\ plan[t].record \in Record
        /\ SelfConsistent(plan[t].record)
        /\ Truthful(plan[t].record)
        /\ plan[t].record.coverage.total = Total
        /\ IdentityHolds(plan[t].record.coverage)
        /\ job[t].kind = "continue" =>
            job[t].first = Boundary(plan[t].record.coverage) /\ job[t].first <= job[t].last
        /\ job[t].kind = "retry" => job[t].first \in plan[t].record.failures

\* What a task has persisted by the time it makes its next call.
Progress(t) ==
    /\ pc[t] \in {"members", "connections", "meta", "set", "run", "summary"} =>
        CaptureRows(t, job[t], reading[t]) \subseteq captures
    /\ pc[t] \in {"connections", "meta", "set", "run", "summary"} /\ ~ StillUnread(t) =>
        OwnMembers(t) \subseteq members
    /\ pc[t] \in {"meta", "set", "run", "summary"} /\ ~ StillUnread(t) =>
        OwnConnections(t) \subseteq connections

TaskInv(t) == JobShape(t) /\ PlanHolds(t) /\ Progress(t) /\ Sound(reading[t])

RowsFinite ==
    /\ IsFiniteSet(members)
    /\ IsFiniteSet(connections)
    /\ \A t \in Tasks : IsFiniteSet(plan[t].members) /\ IsFiniteSet(plan[t].connections)

PageCountsKnown == \A t \in Tasks : counters[t].pageCount \in {Total, Unknown}

RecordInv == RecordAgreesWithItself /\ RecordIsTruthful /\ DoneMeansAllRead

IInv ==
    /\ TypeOK
    /\ RowsFinite
    /\ PageCountsKnown
    /\ RecordInv
    /\ EvidenceWasCaptured
    /\ \A t \in Tasks : TaskInv(t)

\* The evidence tables are append-only.
Grows ==
    captures \subseteq captures' /\ members \subseteq members' /\ connections \subseteq connections'

LEMMA InitIInv == Init => IInv
<1> SUFFICES ASSUME Init PROVE IInv
  OBVIOUS
<1>1. TypeOK
  <2>1. [kind |-> "extract", first |-> 1, last |-> 1] \in Job
    BY PagesAreCounts DEF Job, Page
  <2>2. Unreadable \in Reading
    BY DEF Unreadable, Reading
  <2>3. \A t \in Tasks :
          [record |-> NoRecord, lineage |-> t, members |-> {}, connections |-> {}] \in Plan
    BY DEF Plan
  <2>4. [analysed |-> 0, total |-> Unknown, pageCount |-> Unknown] \in Counters
    BY DEF Counters, Count
  <2>5. QED
    BY <2>1, <2>2, <2>3, <2>4 DEF Init, TypeOK, Idle
<1>2. RowsFinite
  BY FS_EmptySet DEF Init, RowsFinite
<1>3. PageCountsKnown
  BY DEF Init, PageCountsKnown
<1>4. RecordInv
  BY DEF Init, RecordInv, RecordAgreesWithItself, SelfConsistent, RecordIsTruthful,
         Truthful, DoneMeansAllRead
<1>5. EvidenceWasCaptured
  BY DEF Init, EvidenceWasCaptured
<1>6. \A t \in Tasks : TaskInv(t)
  BY DEF Init, TaskInv, JobShape, PlanHolds, Progress, Sound, Planned, Unreadable
<1>7. QED
  BY <1>1, <1>2, <1>3, <1>4, <1>5, <1>6 DEF IInv

\* A step that leaves the project's record alone, or marks the project failed,
\* keeps what the record says true.
LEMMA RecordInvKept ==
    ASSUME RecordInv, Grows, record' = record,
           status' = status \/ status' = "failed"
    PROVE  RecordInv'
<1>1. RecordAgreesWithItself'
  BY DEF RecordInv, RecordAgreesWithItself, SelfConsistent
<1>2. RecordIsTruthful'
  <2>1. TruthfulIn(record, captures, members, connections)
    BY DEF RecordInv, RecordIsTruthful, Truthful, TruthfulIn, Answered, AnsweredIn,
           EvidenceOf, EvidenceIn
  <2>2. TruthfulIn(record, captures', members', connections')
    BY <2>1, TruthfulGrows DEF Grows
  <2>3. QED
    BY <2>2 DEF RecordIsTruthful, Truthful, TruthfulIn, Answered, AnsweredIn,
           EvidenceOf, EvidenceIn
<1>3. DoneMeansAllRead'
  <2>1. status' = "done" => \A p \in Page : AnsweredIn(p, captures, members, connections)
    BY DEF RecordInv, DoneMeansAllRead, Answered, AnsweredIn, EvidenceOf, EvidenceIn
  <2>2. status' = "done" => \A p \in Page : AnsweredIn(p, captures', members', connections')
    BY <2>1, AnsweredGrows DEF Grows
  <2>3. QED
    BY <2>2 DEF DoneMeansAllRead, Answered, AnsweredIn, EvidenceOf, EvidenceIn
<1>4. QED
  BY <1>1, <1>2, <1>3 DEF RecordInv

\* A plan stays good: the evidence it relied on is still there.
LEMMA PlanKept ==
    ASSUME NEW t \in Tasks, PlanHolds(t), Grows,
           job'[t] = job[t], plan'[t] = plan[t],
           ~ IsExtract(t) /\ pc'[t] \in Planned => pc[t] \in Planned
    PROVE  PlanHolds(t)'
<1>1. CASE ~ IsExtract(t) /\ pc'[t] \in Planned
  <2>1. TruthfulIn(plan[t].record, captures, members, connections)
    BY <1>1 DEF PlanHolds, Truthful, TruthfulIn, Answered, AnsweredIn, EvidenceOf, EvidenceIn
  <2>2. TruthfulIn(plan[t].record, captures', members', connections')
    BY <2>1, TruthfulGrows DEF Grows
  <2>3. Truthful(plan[t].record)'
    BY <2>2 DEF Truthful, TruthfulIn, Answered, AnsweredIn, EvidenceOf, EvidenceIn
  <2>4. SelfConsistent(plan[t].record)'
    BY <1>1 DEF PlanHolds, SelfConsistent
  <2>5. QED
    BY <1>1, <2>3, <2>4 DEF PlanHolds, IsExtract
<1>2. CASE ~ (~ IsExtract(t) /\ pc'[t] \in Planned)
  BY <1>2 DEF PlanHolds, IsExtract
<1>3. QED
  BY <1>1, <1>2

\* A task that takes no part in a step keeps its part of the invariant.
LEMMA TaskInvKept ==
    ASSUME NEW t \in Tasks, TaskInv(t), Grows,
           pc'[t] = pc[t], job'[t] = job[t], plan'[t] = plan[t], reading'[t] = reading[t]
    PROVE  TaskInv(t)'
<1>1. JobShape(t)'
  BY DEF TaskInv, JobShape, IsExtract, StillUnread
<1>2. PlanHolds(t)'
  BY PlanKept DEF TaskInv
<1>3. Progress(t)'
  BY DEF TaskInv, Progress, StillUnread, OwnMembers, OwnConnections, Grows
<1>4. Sound(reading[t])'
  BY DEF TaskInv, Sound
<1>5. QED
  BY <1>1, <1>2, <1>3, <1>4 DEF TaskInv

LEMMA OthersKept ==
    ASSUME NEW t \in Tasks, \A s \in Tasks : TaskInv(s), Grows,
           \A s \in Tasks \ {t} : /\ pc'[s] = pc[s] /\ job'[s] = job[s]
                                  /\ plan'[s] = plan[s] /\ reading'[s] = reading[s],
           TaskInv(t)'
    PROVE  \A s \in Tasks : TaskInv(s)'
<1> SUFFICES ASSUME NEW s \in Tasks PROVE TaskInv(s)'
  OBVIOUS
<1>1. CASE s = t
  BY <1>1
<1>2. CASE s # t
  BY <1>2, TaskInvKept
<1>3. QED
  BY <1>1, <1>2

LEMMA CapturedKept ==
    ASSUME EvidenceWasCaptured, captures \subseteq captures',
           members' = members, connections' = connections
    PROVE  EvidenceWasCaptured'
BY DEF EvidenceWasCaptured

-----------------------------------------------------------------------------
(* The record a task commits. *)

LEMMA NewRecordFits ==
    ASSUME IInv, NEW t \in Tasks, pc[t] \in {"set", "summary"}
    PROVE  /\ NewCoverage(t) \in Coverage
           /\ NewFailures(t) \subseteq Page
           /\ SelfConsistent([coverage |-> NewCoverage(t), failures |-> NewFailures(t)])
<1> DEFINE j == job[t]
           F == ReadFailures(t)
           r == plan[t].record
<1>1. /\ j \in Job /\ reading[t] \in [Page -> Reading] /\ JobShape(t) /\ PlanHolds(t)
      /\ counters[t].pageCount \in {Total, Unknown}
  BY DEF IInv, TypeOK, TaskInv, PageCountsKnown
<1>2. F \subseteq PagesOf(j) /\ IsFiniteSet(F) /\ Cardinality(F) \in Nat
  BY <1>1, FailedPagesCounted DEF ReadFailures
<1>3. j.first \in Nat /\ j.last \in Nat /\ j.first <= Total /\ j.last <= Total /\ j.first >= 1
  BY <1>1 DEF Job, Page
<1>4. CASE j.kind = "extract"
  <2>1. j.first = 1 /\ j.last >= 1
    BY <1>1, <1>4, FirstWindowIsJob DEF JobShape, Page
  <2>2. PagesOf(j) = 1..j.last /\ Cardinality(1..j.last) = j.last
    BY <1>3, <2>1, UpTo DEF PagesOf
  <2>3. NewCoverage(t) = CoverageOf(counters[t].pageCount, 1..j.last, F) /\ NewFailures(t) = F
    BY <1>4, <2>2 DEF NewCoverage, NewFailures, IsExtract
  <2>4. CASE counters[t].pageCount = Total
    <3>1. NewCoverage(t) = [total |-> Total, analysed |-> j.last,
                            failed |-> Cardinality(F), notAnalysed |-> Total - j.last]
      BY <1>2, <1>3, <2>2, <2>3, <2>4, PagesAreCounts DEF CoverageOf
    <3>2. NewCoverage(t) \in Coverage
      BY <1>2, <1>3, <3>1, PagesAreCounts DEF Coverage, Count
    <3>3. QED
      BY <1>2, <1>3, <2>2, <2>3, <3>1, <3>2, PagesAreCounts DEF SelfConsistent, Page
  <2>5. CASE counters[t].pageCount = Unknown
    <3>1. NewCoverage(t) = [total |-> Unknown, analysed |-> j.last,
                            failed |-> Cardinality(F), notAnalysed |-> Unknown]
      BY <2>2, <2>3, <2>5, PagesAreCounts DEF CoverageOf
    <3>2. NewCoverage(t) \in Coverage
      BY <1>2, <1>3, <3>1 DEF Coverage, Count
    <3>3. QED
      BY <1>2, <1>3, <2>2, <2>3, <3>1, <3>2, PagesAreCounts DEF SelfConsistent, Page
  <2>6. QED
    BY <1>1, <2>4, <2>5
<1>5. CASE j.kind # "extract"
  <2>1. /\ r \in Record /\ SelfConsistent(r) /\ r # NoRecord
        /\ r.coverage.total = Total /\ IdentityHolds(r.coverage)
        /\ j.kind = "continue" => j.first = r.coverage.analysed + 1 /\ j.first <= j.last
        /\ j.kind = "retry" => j.first \in r.failures
    BY <1>1, <1>5, NoRecordIsNone DEF PlanHolds, IsExtract, Planned, Boundary
  <2>2. /\ r.coverage \in Coverage /\ r.failures \subseteq Page
        /\ r.coverage.analysed \in Nat /\ r.coverage.failed \in Nat
        /\ r.coverage.analysed <= Total
        /\ r.coverage.notAnalysed = Total - r.coverage.analysed
        /\ r.failures \subseteq 1..r.coverage.analysed
        /\ r.coverage.failed = Cardinality(r.failures)
    BY <2>1 DEF Record, SelfConsistent, Coverage
  <2>3. IsFiniteSet(r.failures)
    <3>1. IsFiniteSet(1..r.coverage.analysed)
      BY <2>2, UpTo
    <3>2. QED
      BY <2>2, <3>1, FS_Subset
  <2>4. CASE j.kind = "continue"
    <3>1. /\ NewCoverage(t) = Accumulate(r.coverage, j, F)
          /\ NewFailures(t) = r.failures \cup F
      BY <2>4 DEF NewCoverage, NewFailures, IsExtract
    <3>2. NewCoverage(t) = [total |-> Total, analysed |-> j.last,
                            failed |-> Cardinality(r.failures) + Cardinality(F),
                            notAnalysed |-> Total - j.last]
      BY <1>3, <2>1, <2>2, <2>4, <3>1 DEF Accumulate
    <3>3. r.failures \cap F = {}
      BY <1>2, <1>3, <2>1, <2>2, <2>4 DEF PagesOf
    <3>4. Cardinality(r.failures \cup F) = Cardinality(r.failures) + Cardinality(F)
      BY <1>2, <2>2, <2>3, <3>3, FS_Union, FS_EmptySet
    <3>5. NewCoverage(t) \in Coverage
      BY <1>2, <1>3, <2>2, <3>2, PagesAreCounts DEF Coverage, Count
    <3>6. r.failures \cup F \subseteq 1..j.last
      BY <1>2, <1>3, <2>1, <2>2, <2>4 DEF PagesOf
    <3>7. QED
      BY <1>3, <3>1, <3>2, <3>4, <3>5, <3>6, PagesAreCounts DEF SelfConsistent, Page
  <2>5. CASE j.kind = "retry"
    <3>1. /\ NewCoverage(t) = OneFailureFewer(r.coverage)
          /\ NewFailures(t) = r.failures \ {j.first}
      BY <2>5 DEF NewCoverage, NewFailures, IsExtract
    <3>2. /\ Cardinality(r.failures \ {j.first}) = Cardinality(r.failures) - 1
          /\ IsFiniteSet(r.failures \ {j.first})
      BY <2>1, <2>3, <2>5, FS_RemoveElement
    <3>3. Cardinality(r.failures \ {j.first}) \in Nat
      BY <3>2, FS_CardinalityType
    <3>4. NewCoverage(t) \in Coverage
      BY <2>2, <3>1, <3>2, <3>3 DEF OneFailureFewer, Coverage
    <3>5. QED
      BY <2>1, <2>2, <3>1, <3>2, <3>3, <3>4 DEF SelfConsistent, OneFailureFewer, Coverage
  <2>6. QED
    BY <1>1, <1>5, <2>4, <2>5 DEF Job
<1>6. QED
  BY <1>4, <1>5

\* A page this task parsed is answered once its rows are all persisted.
LEMMA OwnPagesAnswered ==
    ASSUME IInv, NEW t \in Tasks, pc[t] = "summary", NEW p \in PagesOf(job[t])
    PROVE  /\ \E c \in captures : c.page = p
           /\ reading[t][p].parsed => AnsweredIn(p, captures, members, connections)
<1> DEFINE c == [task |-> t, page |-> p, reading |-> reading[t][p]]
<1>1. /\ job[t] \in Job /\ reading[t] \in [Page -> Reading]
      /\ JobShape(t) /\ Progress(t)
  BY DEF IInv, TypeOK, TaskInv
<1>2. c \in captures
  BY <1>1 DEF Progress, CaptureRows
<1>3. OwnMembers(t) \subseteq members /\ OwnConnections(t) \subseteq connections
  BY <1>1 DEF Progress, JobShape
<1>4. \A m \in reading[t][p].marks : \E row \in members : row.task = t /\ row.mark = m
  BY <1>1, <1>3, EveryMarkHasRow DEF OwnMembers
<1>5. reading[t][p].connection => \E row \in connections : row.task = t /\ row.page = p
  <2> SUFFICES ASSUME reading[t][p].connection
               PROVE  \E row \in connections : row.task = t /\ row.page = p
    OBVIOUS
  <2>1. reading[t][p].held \in BOOLEAN
    BY <1>1, PagesOfJob DEF Reading
  <2>2. [task |-> t, page |-> p, held |-> reading[t][p].held] \in OwnConnections(t)
    BY <2>1 DEF OwnConnections, ConnectionRows
  <2>3. QED
    BY <1>3, <2>2
<1>6. EvidenceIn(c, members, connections)
  BY <1>4, <1>5 DEF EvidenceIn
<1>7. QED
  BY <1>2, <1>6 DEF AnsweredIn

LEMMA NewRecordTruthful ==
    ASSUME IInv, NEW t \in Tasks, pc[t] = "summary"
    PROVE  TruthfulIn([coverage |-> NewCoverage(t), failures |-> NewFailures(t)],
                      captures, members, connections)
<1> DEFINE j == job[t]
           r == plan[t].record
           new == [coverage |-> NewCoverage(t), failures |-> NewFailures(t)]
<1>1. /\ j \in Job /\ reading[t] \in [Page -> Reading] /\ JobShape(t) /\ PlanHolds(t)
      /\ counters[t].pageCount \in {Total, Unknown} /\ ~ StillUnread(t)
  BY DEF IInv, TypeOK, TaskInv, PageCountsKnown, JobShape
<1>2. j.first \in Nat /\ j.last \in Nat /\ j.first <= Total /\ j.last <= Total /\ j.first >= 1
  BY <1>1 DEF Job, Page
<1>3. \A p \in PagesOf(j) :
        /\ \E c \in captures : c.page = p
        /\ reading[t][p].parsed => AnsweredIn(p, captures, members, connections)
  BY OwnPagesAnswered
<1> SUFFICES ASSUME NEW p \in 1..new.coverage.analysed
             PROVE  /\ \E c \in captures : c.page = p
                    /\ p \notin new.failures => AnsweredIn(p, captures, members, connections)
  BY DEF TruthfulIn
<1>4. CASE j.kind = "extract"
  <2>1. j.first = 1
    BY <1>1, <1>4, FirstWindowIsJob DEF JobShape
  <2>2. PagesOf(j) = 1..j.last /\ Cardinality(1..j.last) = j.last
    BY <1>2, <2>1, UpTo DEF PagesOf
  <2>3. new.coverage.analysed = j.last /\ new.failures = FailedPages(j, reading[t])
    BY <1>4, <2>2 DEF NewCoverage, NewFailures, IsExtract, CoverageOf, ReadFailures
  <2>4. p \in PagesOf(j)
    BY <2>2, <2>3
  <2>5. QED
    BY <1>3, <2>3, <2>4 DEF FailedPages
<1>5. CASE j.kind # "extract"
  <2>1. /\ r \in Record /\ TruthfulIn(r, captures, members, connections) /\ r # NoRecord
        /\ j.kind = "continue" => j.first = r.coverage.analysed + 1 /\ j.first <= j.last
        /\ j.kind = "retry" => j.first \in r.failures
    BY <1>1, <1>5, NoRecordIsNone DEF PlanHolds, IsExtract, Planned, Boundary,
       Truthful, TruthfulIn, Answered, AnsweredIn, EvidenceOf, EvidenceIn
  <2>2. r.coverage.analysed \in Nat
    BY <2>1 DEF Record, Coverage
  <2>3. \A q \in 1..r.coverage.analysed :
          /\ \E c \in captures : c.page = q
          /\ q \notin r.failures => AnsweredIn(q, captures, members, connections)
    BY <2>1 DEF TruthfulIn
  <2>4. CASE j.kind = "continue"
    <3>1. new.coverage.analysed = j.last /\ new.failures = r.failures \cup FailedPages(j, reading[t])
      BY <1>2, <2>1, <2>2, <2>4
      DEF NewCoverage, NewFailures, IsExtract, Accumulate, ReadFailures
    <3>2. p \in 1..r.coverage.analysed \/ p \in PagesOf(j)
      BY <1>2, <2>1, <2>2, <2>4, <3>1 DEF PagesOf
    <3>3. QED
      BY <1>3, <2>3, <3>1, <3>2 DEF FailedPages
  <2>5. CASE j.kind = "retry"
    <3>1. new.coverage.analysed = r.coverage.analysed /\ new.failures = r.failures \ {j.first}
      BY <2>1, <2>5 DEF NewCoverage, NewFailures, IsExtract, OneFailureFewer, Record, Coverage
    <3>2. j.first \in PagesOf(j) /\ reading[t][j.first].parsed
      BY <1>1, <1>2, <2>5 DEF PagesOf, JobShape, StillUnread
    <3>3. QED
      BY <1>3, <2>3, <3>1, <3>2
  <2>6. QED
    BY <1>1, <1>5, <2>4, <2>5 DEF Job
<1>6. QED
  BY <1>4, <1>5

-----------------------------------------------------------------------------
(* Each action keeps the invariant. *)

LEMMA RequestKeeps ==
    ASSUME IInv, NEW t \in Tasks, NEW j \in Job, Request(t, j),
           j.kind = "extract" => j = FirstWindow,
           j.kind = "retry" => j.last = j.first
    PROVE  IInv'
<1> USE DEF Request, project, lineage, evidence
<1>1. TypeOK'
  BY DEF IInv, TypeOK, Active
<1>2. Grows
  BY DEF Grows
<1>3. RecordInv'
  BY <1>2, RecordInvKept DEF IInv
<1>4. EvidenceWasCaptured'
  BY CapturedKept DEF IInv
<1>5. TaskInv(t)'
  BY DEF IInv, TypeOK, TaskInv, JobShape, PlanHolds, Planned, Progress, Sound
<1>6. \A s \in Tasks : TaskInv(s)'
  BY <1>2, <1>5, OthersKept DEF IInv, TypeOK
<1>7. RowsFinite' /\ PageCountsKnown'
  BY DEF IInv, RowsFinite, PageCountsKnown
<1>8. QED
  BY <1>1, <1>3, <1>4, <1>6, <1>7 DEF IInv

LEMMA OpenDrawingSetKeeps ==
    ASSUME IInv, NEW t \in Tasks, OpenDrawingSet(t)
    PROVE  IInv'
<1> USE DEF OpenDrawingSet, Goto, project, evidence
<1>1. TypeOK'
  BY DEF IInv, TypeOK, Active
<1>2. Grows
  BY DEF Grows
<1>3. RecordInv'
  BY <1>2, RecordInvKept DEF IInv
<1>4. EvidenceWasCaptured'
  BY CapturedKept DEF IInv
<1>5. TaskInv(t)'
  BY DEF IInv, TypeOK, TaskInv, JobShape, PlanHolds, Planned, Progress, Sound, IsExtract
<1>6. \A s \in Tasks : TaskInv(s)'
  BY <1>2, <1>5, OthersKept DEF IInv, TypeOK
<1>7. RowsFinite' /\ PageCountsKnown'
  BY DEF IInv, RowsFinite, PageCountsKnown
<1>8. QED
  BY <1>1, <1>3, <1>4, <1>6, <1>7 DEF IInv

\* What an accepted plan found in the store.
LEMMA AcceptedPlan ==
    ASSUME IInv, NEW j \in Job, j.kind # "extract", JobAccepted(j)
    PROVE  /\ record \in Record
           /\ record.coverage.total = Total
           /\ IdentityHolds(record.coverage)
           /\ j.kind = "continue" =>
                j.first = Boundary(record.coverage) /\ j.first <= j.last
           /\ j.kind = "retry" => j.first \in record.failures
<1>1. record \in Record
  BY DEF IInv, TypeOK, JobAccepted, ContinuationAccepted, RetryAccepted, CoverageRecorded
<1>2. record.coverage \in Coverage
  BY <1>1 DEF Record
<1>3. SelfConsistent(record) /\ record # NoRecord
  BY <1>1, NoRecordIsNone DEF IInv, RecordInv, RecordAgreesWithItself
<1>4. j.first \in Int /\ j.last \in Int
  BY DEF Job, Page
<1>5. CASE j.kind = "continue"
  <2>1. WindowRefusal(record.coverage, Window, j.first, j.last) = Accepted
    BY <1>5 DEF JobAccepted, ContinuationAccepted
  <2>2. /\ IdentityHolds(record.coverage)
        /\ j.first = Boundary(record.coverage)
        /\ j.last \in j.first..(j.first + Window - 1)
    BY <1>2, <1>4, <2>1, AcceptedIsNextWindow, WindowIsCount
  <2>3. QED
    BY <1>1, <1>3, <1>4, <1>5, <2>2 DEF SelfConsistent, IdentityHolds
<1>6. CASE j.kind = "retry"
  <2>1. RetryRefusal(record.coverage, record.failures, j.first) = Accepted
    BY <1>6 DEF JobAccepted, RetryAccepted
  <2>2. IdentityHolds(record.coverage) /\ j.first \in record.failures
    BY <1>2, <1>4, <2>1, RetryNamesFailedPage
  <2>3. QED
    BY <1>1, <1>3, <1>6, <2>2 DEF SelfConsistent, IdentityHolds
<1>7. QED
  BY <1>5, <1>6 DEF Job

LEMMA ReplanKeeps ==
    ASSUME IInv, NEW t \in Tasks, Replan(t)
    PROVE  IInv'
<1> USE DEF Replan, Goto, project, lineage, evidence
<1>1. Grows
  BY DEF Grows
<1>2. RecordInv'
  BY <1>1, RecordInvKept DEF IInv
<1>3. EvidenceWasCaptured'
  BY CapturedKept DEF IInv
<1>4. PageCountsKnown'
  BY DEF IInv, PageCountsKnown
<1>5. CASE ~ JobAccepted(job[t])
  <2>1. TypeOK' /\ RowsFinite'
    BY <1>5 DEF IInv, TypeOK, Ended, RowsFinite
  <2>2. TaskInv(t)'
    BY <1>5 DEF IInv, TypeOK, TaskInv, JobShape, PlanHolds, Planned, Progress, Sound, IsExtract
  <2>3. \A s \in Tasks : TaskInv(s)'
    BY <1>1, <1>5, <2>2, OthersKept DEF IInv, TypeOK
  <2>4. QED
    BY <1>2, <1>3, <1>4, <2>1, <2>3 DEF IInv
<1>6. CASE JobAccepted(job[t])
  <2>1. PICK l \in lineages : plan' = [plan EXCEPT ![t] = Snapshot(l)]
    BY <1>6
  <2>2. Snapshot(l) \in Plan
    BY DEF IInv, TypeOK, Snapshot, Plan
  <2>3. TypeOK'
    BY <1>6, <2>1, <2>2 DEF IInv, TypeOK, Active
  <2>4. RowsFinite'
    BY <2>1 DEF IInv, TypeOK, RowsFinite, Snapshot
  <2>5. plan'[t].record = record
    BY <2>1 DEF IInv, TypeOK, Snapshot
  <2>6. /\ record \in Record
        /\ record.coverage.total = Total
        /\ IdentityHolds(record.coverage)
        /\ job[t].kind = "continue" =>
                job[t].first = Boundary(record.coverage) /\ job[t].first <= job[t].last
        /\ job[t].kind = "retry" => job[t].first \in record.failures
    BY <1>6, AcceptedPlan DEF IInv, TypeOK, IsExtract
  <2>7. SelfConsistent(record) /\ Truthful(record)
    BY DEF IInv, RecordInv, RecordAgreesWithItself, RecordIsTruthful
  <2>8. PlanHolds(t)'
    <3>1. SelfConsistent(plan[t].record)'
      BY <2>5, <2>7 DEF SelfConsistent
    <3>2. Truthful(plan[t].record)'
      BY <2>5, <2>7 DEF Truthful, Answered, EvidenceOf
    <3>3. QED
      BY <2>5, <2>6, <3>1, <3>2 DEF PlanHolds, IsExtract
  <2>9. JobShape(t)' /\ Progress(t)' /\ Sound(reading[t])'
    BY <1>6 DEF IInv, TypeOK, TaskInv, JobShape, Progress, Sound
  <2>10. \A s \in Tasks : TaskInv(s)'
    BY <1>1, <1>6, <2>1, <2>8, <2>9, OthersKept DEF IInv, TypeOK, TaskInv
  <2>11. QED
    BY <1>2, <1>3, <1>4, <2>3, <2>4, <2>10 DEF IInv
<1>7. QED
  BY <1>5, <1>6

LEMMA ReadPagesKeeps ==
    ASSUME IInv, NEW t \in Tasks, ReadPages(t)
    PROVE  IInv'
<1> USE DEF ReadPages, Goto, project, lineage, evidence
<1>1. Grows
  BY DEF Grows
<1>2. RecordInv'
  BY <1>1, RecordInvKept DEF IInv
<1>3. EvidenceWasCaptured'
  BY CapturedKept DEF IInv
<1>4. PageCountsKnown' /\ RowsFinite'
  BY DEF IInv, PageCountsKnown, RowsFinite
<1>5. PICK r \in Answers(job[t]) :
        LET rows == MemberRows(t, job[t], r)
        IN  IF ~ IsExtract(t) /\ Collides(rows, plan[t].members)
            THEN pc' = [pc EXCEPT ![t] = "refused"] /\ UNCHANGED reading
            ELSE /\ reading' = [reading EXCEPT ![t] =
                        [p \in Page |-> IF p \in PagesOf(job[t]) THEN r[p] ELSE Unreadable]]
                 /\ pc' = [pc EXCEPT ![t] = IF IsExtract(t) THEN "captures" ELSE "open"]
  OBVIOUS
<1> DEFINE read == [p \in Page |-> IF p \in PagesOf(job[t]) THEN r[p] ELSE Unreadable]
<1>6. job[t] \in Job
  BY DEF IInv, TypeOK
<1>7. \A p \in PagesOf(job[t]) :
        \/ r[p] = Unreadable
        \/ r[p] \in Reading /\ r[p].parsed
  BY <1>6, PagesOfJob, DrawnIsReading DEF Answers
<1>8. Unreadable \in Reading /\ Unreadable.marks = {} /\ ~ Unreadable.connection
  BY DEF Unreadable, Reading
<1>9. read \in [Page -> Reading] /\ Sound(read)
  BY <1>7, <1>8 DEF Sound
<1>10. CASE /\ UNCHANGED reading
            /\ pc' = [pc EXCEPT ![t] = "refused"]
  <2>1. TypeOK'
    BY <1>10 DEF IInv, TypeOK, Ended
  <2>2. TaskInv(t)'
    BY <1>10 DEF IInv, TypeOK, TaskInv, JobShape, PlanHolds, Planned, Progress, Sound, IsExtract
  <2>3. \A s \in Tasks : TaskInv(s)'
    BY <1>1, <1>10, <2>2, OthersKept DEF IInv, TypeOK
  <2>4. QED
    BY <1>2, <1>3, <1>4, <2>1, <2>3 DEF IInv
<1>11. CASE /\ reading' = [reading EXCEPT ![t] = read]
            /\ pc' = [pc EXCEPT ![t] = IF IsExtract(t) THEN "captures" ELSE "open"]
  <2>1. TypeOK'
    BY <1>9, <1>11 DEF IInv, TypeOK, Active, Writing
  <2>2. reading'[t] = read /\ pc'[t] = (IF IsExtract(t) THEN "captures" ELSE "open")
    BY <1>11 DEF IInv, TypeOK
  <2>3. JobShape(t)' /\ Progress(t)'
    BY <2>2 DEF IInv, TaskInv, JobShape, Progress, IsExtract
  <2>4. PlanHolds(t)'
    BY <1>1, PlanKept DEF IInv, TaskInv, Planned
  <2>5. Sound(reading[t])'
    BY <1>9, <2>2 DEF Sound
  <2>6. \A s \in Tasks : TaskInv(s)'
    BY <1>1, <1>11, <2>3, <2>4, <2>5, OthersKept DEF IInv, TypeOK, TaskInv
  <2>7. QED
    BY <1>2, <1>3, <1>4, <2>1, <2>6 DEF IInv
<1>12. QED
  BY <1>5, <1>10, <1>11

\* The calls after the reading: the rows and the record change one at a time.
LEMMA CallKeeps ==
    ASSUME IInv, NEW t \in Tasks, Grows, pc[t] \in Active,
           TypeOK', RowsFinite', PageCountsKnown', RecordInv', EvidenceWasCaptured',
           UNCHANGED <<job, plan, reading>>,
           \A s \in Tasks \ {t} : pc'[s] = pc[s],
           ~ IsExtract(t) /\ pc'[t] \in Planned => pc[t] \in Planned,
           JobShape(t)', Progress(t)'
    PROVE  IInv'
<1>1. PlanHolds(t)'
  BY PlanKept DEF IInv, TaskInv
<1>2. Sound(reading[t])'
  BY DEF IInv, TaskInv, Sound
<1>3. \A s \in Tasks : TaskInv(s)'
  BY <1>1, <1>2, OthersKept DEF IInv, TaskInv
<1>4. QED
  BY <1>3 DEF IInv

LEMMA OpenDrawingKeeps ==
    ASSUME IInv, NEW t \in Tasks, OpenDrawing(t)
    PROVE  IInv'
<1> USE DEF OpenDrawing, Goto, project, evidence
<1>1. TypeOK'
  BY DEF IInv, TypeOK, Active
<1>2. Grows
  BY DEF Grows
<1>3. RecordInv' /\ EvidenceWasCaptured'
  BY <1>2, RecordInvKept, CapturedKept DEF IInv
<1>4. RowsFinite' /\ PageCountsKnown'
  BY DEF IInv, RowsFinite, PageCountsKnown
<1>5. IsExtract(t)
  BY DEF IInv, TaskInv, JobShape
<1>6. JobShape(t)' /\ Progress(t)'
  BY DEF IInv, TypeOK, TaskInv, JobShape, Progress, IsExtract
<1>7. pc[t] \in Active /\ \A s \in Tasks \ {t} : pc'[s] = pc[s]
  BY DEF IInv, TypeOK, Active
<1>8. QED
  BY <1>1, <1>2, <1>3, <1>4, <1>5, <1>6, <1>7, CallKeeps

LEMMA OpenRunKeeps ==
    ASSUME IInv, NEW t \in Tasks, OpenRun(t)
    PROVE  IInv'
<1> USE DEF OpenRun, Goto, project, evidence
<1>1. TypeOK'
  BY DEF IInv, TypeOK, Active, Writing
<1>2. Grows
  BY DEF Grows
<1>3. RecordInv' /\ EvidenceWasCaptured'
  BY <1>2, RecordInvKept, CapturedKept DEF IInv
<1>4. RowsFinite' /\ PageCountsKnown'
  BY DEF IInv, RowsFinite, PageCountsKnown
<1>5. JobShape(t)' /\ Progress(t)'
  BY DEF IInv, TypeOK, TaskInv, JobShape, Progress, IsExtract
<1>6. pc[t] \in Active /\ pc[t] \in Planned /\ \A s \in Tasks \ {t} : pc'[s] = pc[s]
  BY DEF IInv, TypeOK, Active, Planned
<1>7. QED
  BY <1>1, <1>2, <1>3, <1>4, <1>5, <1>6, CallKeeps

LEMMA RecordCapturesKeeps ==
    ASSUME IInv, NEW t \in Tasks, RecordCaptures(t)
    PROVE  IInv'
<1> USE DEF RecordCaptures, Goto, project, lineage
<1>1. job[t] \in Job /\ reading[t] \in [Page -> Reading]
  BY DEF IInv, TypeOK
<1>2. CaptureRows(t, job[t], reading[t]) \subseteq Capture
  BY <1>1, PagesOfJob DEF CaptureRows, Capture
<1>3. TypeOK'
  BY <1>2 DEF IInv, TypeOK, Active, Writing
<1>4. Grows
  BY DEF Grows
<1>5. RecordInv' /\ EvidenceWasCaptured'
  BY <1>4, RecordInvKept, CapturedKept DEF IInv, Grows
<1>6. RowsFinite' /\ PageCountsKnown'
  BY DEF IInv, RowsFinite, PageCountsKnown
<1>7. pc'[t] = (IF StillUnread(t) THEN "run" ELSE "members")
  BY DEF IInv, TypeOK
<1>8. JobShape(t)' /\ Progress(t)'
  BY <1>7 DEF IInv, TaskInv, JobShape, Progress, IsExtract, StillUnread
<1>9. pc[t] \in Active /\ pc[t] \in Planned /\ \A s \in Tasks \ {t} : pc'[s] = pc[s]
  BY DEF IInv, TypeOK, Active, Writing, Planned
<1>10. QED
  BY <1>3, <1>4, <1>5, <1>6, <1>8, <1>9, CallKeeps

\* The rows a task makes are of pages it parsed.
LEMMA OwnRowsParsed ==
    ASSUME IInv, NEW t \in Tasks
    PROVE  /\ OwnMembers(t) \subseteq MemberRow /\ IsFiniteSet(OwnMembers(t))
           /\ OwnConnections(t) \subseteq ConnectionRow /\ IsFiniteSet(OwnConnections(t))
           /\ \A row \in OwnMembers(t) \cup OwnConnections(t) :
                row.task = t /\ row.page \in PagesOf(job[t]) /\ reading[t][row.page].parsed
<1>1. job[t] \in Job /\ reading[t] \in [Page -> Reading] /\ Sound(reading[t])
  BY DEF IInv, TypeOK, TaskInv
<1>2. \A p \in PagesOf(job[t]) : p \in Page /\ reading[t][p].parsed \in BOOLEAN
  BY <1>1, PagesOfJob DEF Reading
<1>3. \A row \in OwnMembers(t) :
        row.task = t /\ row.page \in PagesOf(job[t]) /\ reading[t][row.page].marks # {}
  BY <1>1, MemberRowsTyped DEF OwnMembers
<1>4. \A row \in OwnConnections(t) :
        row.task = t /\ row.page \in PagesOf(job[t]) /\ reading[t][row.page].connection
  BY <1>1, ConnectionRowsTyped DEF OwnConnections
<1>5. \A row \in OwnMembers(t) \cup OwnConnections(t) : reading[t][row.page].parsed
  BY <1>1, <1>2, <1>3, <1>4 DEF Sound
<1>6. QED
  BY <1>1, <1>3, <1>4, <1>5, MemberRowsTyped, MemberRowsFinite, ConnectionRowsTyped,
     ConnectionRowsFinite DEF OwnMembers, OwnConnections

LEMMA OwnRowsCaptured ==
    ASSUME IInv, NEW t \in Tasks, pc[t] \in {"members", "connections"}
    PROVE  \A row \in OwnMembers(t) \cup OwnConnections(t) :
              \E c \in captures : c.task = row.task /\ c.page = row.page /\ c.reading.parsed
<1> SUFFICES ASSUME NEW row \in OwnMembers(t) \cup OwnConnections(t)
             PROVE  \E c \in captures : c.task = row.task /\ c.page = row.page /\ c.reading.parsed
  OBVIOUS
<1>1. row.task = t /\ row.page \in PagesOf(job[t]) /\ reading[t][row.page].parsed
  BY OwnRowsParsed
<1>2. [task |-> t, page |-> row.page, reading |-> reading[t][row.page]] \in captures
  BY <1>1 DEF IInv, TaskInv, Progress, CaptureRows
<1>3. QED
  BY <1>1, <1>2

LEMMA InsertMembersKeeps ==
    ASSUME IInv, NEW t \in Tasks, InsertMembers(t)
    PROVE  IInv'
<1> USE DEF InsertMembers, Goto, project, lineage
<1>1. OwnMembers(t) \subseteq MemberRow /\ IsFiniteSet(OwnMembers(t))
  BY OwnRowsParsed
<1>2. pc'[t] \in {"connections", "meta", "set"}
  BY DEF IInv, TypeOK, AfterEvidence
<1>3. TypeOK'
  BY <1>1, <1>2 DEF IInv, TypeOK, Active, Writing, AfterEvidence
<1>4. Grows
  BY DEF Grows
<1>5. RecordInv'
  BY <1>4, RecordInvKept DEF IInv
<1>6. EvidenceWasCaptured'
  BY OwnRowsCaptured DEF IInv, EvidenceWasCaptured
<1>7. RowsFinite' /\ PageCountsKnown'
  BY <1>1, FS_Union DEF IInv, RowsFinite, PageCountsKnown
<1>8. JobShape(t)'
  BY <1>2 DEF IInv, TypeOK, TaskInv, JobShape, IsExtract, StillUnread, AfterEvidence
<1>9. pc'[t] # "connections" => OwnConnections(t) = {}
  BY DEF IInv, TypeOK
<1>10. Progress(t)'
  BY <1>2, <1>9 DEF IInv, TaskInv, Progress, StillUnread, OwnMembers, OwnConnections
<1>11. pc[t] \in Active /\ pc[t] \in Planned /\ \A s \in Tasks \ {t} : pc'[s] = pc[s]
  BY DEF IInv, TypeOK, Active, Writing, Planned
<1>12. QED
  BY <1>3, <1>4, <1>5, <1>6, <1>7, <1>8, <1>10, <1>11, CallKeeps

LEMMA InsertConnectionKeeps ==
    ASSUME IInv, NEW t \in Tasks, InsertConnection(t)
    PROVE  IInv'
<1> USE DEF InsertConnection, Goto, project, lineage
<1>1. OwnConnections(t) \subseteq ConnectionRow
  BY OwnRowsParsed
<1>2. PICK c \in OwnConnections(t) : connections' = connections \cup {c}
  OBVIOUS
<1>3. pc'[t] \in {"connections", "meta", "set"}
  BY DEF IInv, TypeOK, AfterEvidence
<1>4. TypeOK'
  BY <1>1, <1>2, <1>3 DEF IInv, TypeOK, Active, Writing, AfterEvidence
<1>5. Grows
  BY <1>2 DEF Grows
<1>6. RecordInv'
  BY <1>5, RecordInvKept DEF IInv
<1>7. EvidenceWasCaptured'
  BY <1>2, OwnRowsCaptured DEF IInv, EvidenceWasCaptured
<1>8. RowsFinite' /\ PageCountsKnown'
  BY <1>2, FS_AddElement DEF IInv, RowsFinite, PageCountsKnown
<1>9. JobShape(t)'
  BY <1>3 DEF IInv, TypeOK, TaskInv, JobShape, IsExtract, StillUnread, AfterEvidence
<1>10. pc'[t] # "connections" => OwnConnections(t) \subseteq connections'
  BY DEF IInv, TypeOK
<1>11. Progress(t)'
  BY <1>3, <1>10 DEF IInv, TaskInv, Progress, StillUnread, OwnMembers, OwnConnections
<1>12. pc[t] \in Active /\ pc[t] \in Planned /\ \A s \in Tasks \ {t} : pc'[s] = pc[s]
  BY DEF IInv, TypeOK, Active, Writing, Planned
<1>13. QED
  BY <1>4, <1>5, <1>6, <1>7, <1>8, <1>9, <1>11, <1>12, CallKeeps

LEMMA UpdateDrawingMetaKeeps ==
    ASSUME IInv, NEW t \in Tasks, UpdateDrawingMeta(t)
    PROVE  IInv'
<1> USE DEF UpdateDrawingMeta, Goto, project, evidence
<1>1. PICK count \in {Total, Unknown} : counters' = [counters EXCEPT ![t].pageCount = count]
  OBVIOUS
<1>2. \A s \in Tasks : counters[s] \in Counters
  BY DEF IInv, TypeOK
<1>3. count \in Count
  BY PagesAreCounts DEF Count
<1>4. counters' \in [Tasks -> Counters] /\ PageCountsKnown'
  BY <1>1, <1>2, <1>3 DEF IInv, TypeOK, Counters, PageCountsKnown
<1>5. TypeOK'
  BY <1>4 DEF IInv, TypeOK, Active, Writing
<1>6. Grows
  BY DEF Grows
<1>7. RecordInv' /\ EvidenceWasCaptured'
  BY <1>6, RecordInvKept, CapturedKept DEF IInv
<1>8. RowsFinite'
  BY DEF IInv, RowsFinite
<1>9. JobShape(t)' /\ Progress(t)'
  BY DEF IInv, TypeOK, TaskInv, JobShape, Progress, IsExtract, StillUnread, OwnMembers,
         OwnConnections
<1>10. pc[t] \in Active /\ IsExtract(t) /\ \A s \in Tasks \ {t} : pc'[s] = pc[s]
  BY DEF IInv, TypeOK, TaskInv, JobShape, Active, Writing
<1>11. QED
  BY <1>4, <1>5, <1>6, <1>7, <1>8, <1>9, <1>10, CallKeeps

\* A record whose counts are complete leaves no page unanswered.
LEMMA CompleteRecordIsAllRead ==
    ASSUME NEW r, r.coverage \in Coverage, r.failures \subseteq Page,
           SelfConsistent(r), r # NoRecord, IsComplete(r.coverage),
           NEW C, NEW M, NEW N, TruthfulIn(r, C, M, N)
    PROVE  \A p \in Page : AnsweredIn(p, C, M, N)
<1>1. r.coverage.total = Total /\ r.coverage.analysed = Total /\ r.coverage.failed = 0
  BY PagesAreCounts DEF IsComplete, IdentityHolds, SelfConsistent, Coverage
<1>2. IsFiniteSet(r.failures)
  BY PagesAreCounts, UpTo, FS_Subset DEF Page
<1>3. r.failures = {}
  BY <1>1, <1>2, FS_EmptySet DEF SelfConsistent
<1>4. QED
  BY <1>1, <1>3 DEF TruthfulIn, Page

LEMMA UpdateSummaryKeeps ==
    ASSUME IInv, NEW t \in Tasks, UpdateSummary(t)
    PROVE  IInv'
<1> USE DEF UpdateSummary, Goto, lineage, evidence
<1> DEFINE new == [coverage |-> NewCoverage(t), failures |-> NewFailures(t)]
<1>1. /\ NewCoverage(t) \in Coverage /\ NewFailures(t) \subseteq Page
      /\ SelfConsistent(new) /\ TruthfulIn(new, captures, members, connections)
  BY NewRecordFits, NewRecordTruthful
<1>2. new \in Record /\ new # NoRecord
  BY <1>1, NoRecordIsNone DEF Record
<1>3. totals' \in [members: Nat, connections: Nat]
  <2>1. IsFiniteSet(OwnMembers(t)) /\ IsFiniteSet(OwnConnections(t))
    BY OwnRowsParsed
  <2>2. IsFiniteSet(CountedMembers(t)) /\ IsFiniteSet(CountedConnections(t))
    BY <2>1, FS_Union, FS_EmptySet
    DEF IInv, RowsFinite, CountedMembers, CountedConnections
  <2>3. QED
    BY <2>2, FS_CardinalityType
<1>4. status' \in {"review", "done"}
      /\ (status' = "done" => IsComplete(NewCoverage(t)))
  BY DEF SummaryStatus, DerivedStatus
<1>5. pc'[t] \in {"run", "report"} /\ (IsExtract(t) <=> pc'[t] = "run")
  BY DEF IInv, TypeOK
<1>6. TypeOK'
  BY <1>2, <1>3, <1>4, <1>5 DEF IInv, TypeOK, Active, Writing
<1>7. RecordInv'
  <2>1. record' = new
    OBVIOUS
  <2>2. RecordAgreesWithItself'
    BY <1>1, <2>1 DEF RecordAgreesWithItself, SelfConsistent
  <2>3. RecordIsTruthful'
    BY <1>1, <2>1 DEF RecordIsTruthful, Truthful, TruthfulIn, Answered, AnsweredIn,
       EvidenceOf, EvidenceIn
  <2>4. status' = "done" => \A p \in Page : AnsweredIn(p, captures, members, connections)
    BY <1>1, <1>2, <1>4, CompleteRecordIsAllRead
  <2>5. DoneMeansAllRead'
    BY <2>4 DEF DoneMeansAllRead, Answered, AnsweredIn, EvidenceOf, EvidenceIn
  <2>6. QED
    BY <2>2, <2>3, <2>5 DEF RecordInv
<1>8. Grows
  BY DEF Grows
<1>9. EvidenceWasCaptured' /\ RowsFinite' /\ PageCountsKnown'
  BY CapturedKept DEF IInv, RowsFinite, PageCountsKnown
<1>10. JobShape(t)' /\ Progress(t)'
  BY <1>5 DEF IInv, TaskInv, JobShape, Progress, IsExtract, StillUnread, OwnMembers,
         OwnConnections
<1>11. pc[t] \in Active /\ pc[t] \in Planned /\ \A s \in Tasks \ {t} : pc'[s] = pc[s]
  BY DEF IInv, TypeOK, Active, Writing, Planned
<1>12. QED
  BY <1>6, <1>7, <1>8, <1>9, <1>10, <1>11, CallKeeps

LEMMA UpdateDrawingSetKeeps ==
    ASSUME IInv, NEW t \in Tasks, UpdateDrawingSet(t)
    PROVE  IInv'
<1> USE DEF UpdateDrawingSet, Goto, project, evidence
<1> DEFINE l == IF IsExtract(t) THEN t ELSE plan[t].lineage
<1>1. NewCoverage(t).analysed \in Nat /\ NewCoverage(t).total \in Count
  BY NewRecordFits DEF Coverage
<1>2. l \in Tasks
  BY DEF IInv, TypeOK, Plan
<1>3. \A s \in Tasks : counters[s] \in Counters
  BY DEF IInv, TypeOK
<1>4. counters' = [counters EXCEPT ![l] =
            [@ EXCEPT !.analysed = NewCoverage(t).analysed, !.total = NewCoverage(t).total]]
  BY <1>2, <1>3 DEF IInv, TypeOK, Counters
<1>5. counters' \in [Tasks -> Counters] /\ PageCountsKnown'
  <2>1. [counters[l] EXCEPT !.analysed = NewCoverage(t).analysed,
                            !.total = NewCoverage(t).total] \in Counters
    BY <1>1, <1>2, <1>3 DEF Counters
  <2>2. counters' \in [Tasks -> Counters]
    BY <1>2, <1>3, <1>4, <2>1 DEF IInv, TypeOK
  <2>3. \A s \in Tasks : counters'[s].pageCount = counters[s].pageCount
    BY <1>2, <1>3, <1>4 DEF IInv, TypeOK, Counters
  <2>4. QED
    BY <2>2, <2>3 DEF IInv, PageCountsKnown
<1>6. pc'[t] \in {"run", "report"} /\ (~ IsExtract(t) <=> pc'[t] = "run")
  BY DEF IInv, TypeOK
<1>7. TypeOK'
  BY <1>5, <1>6 DEF IInv, TypeOK, Active, Writing
<1>8. Grows
  BY DEF Grows
<1>9. RecordInv' /\ EvidenceWasCaptured'
  BY <1>8, RecordInvKept, CapturedKept DEF IInv
<1>10. RowsFinite'
  BY DEF IInv, RowsFinite
<1>11. JobShape(t)' /\ Progress(t)'
  BY <1>6 DEF IInv, TypeOK, TaskInv, JobShape, Progress, IsExtract, StillUnread, OwnMembers,
         OwnConnections
<1>12. pc[t] \in Active /\ pc[t] \in Planned /\ \A s \in Tasks \ {t} : pc'[s] = pc[s]
  BY DEF IInv, TypeOK, Active, Writing, Planned
<1>13. QED
  BY <1>5, <1>7, <1>8, <1>9, <1>10, <1>11, <1>12, CallKeeps

LEMMA CompleteRunKeeps ==
    ASSUME IInv, NEW t \in Tasks, CompleteRun(t)
    PROVE  IInv'
<1> USE DEF CompleteRun, Goto, project, evidence
<1>1. pc'[t] = (CASE IsExtract(t) -> "set" [] StillUnread(t) -> "ended" [] OTHER -> "summary")
  BY DEF IInv, TypeOK
<1>2. /\ pc'[t] \in {"set", "ended", "summary"}
      /\ pc'[t] \in {"set", "summary"} => ~ StillUnread(t)
      /\ pc'[t] # "ended" \/ StillUnread(t)
  BY <1>1 DEF IsExtract, StillUnread
<1>3. TypeOK'
  BY <1>2 DEF IInv, TypeOK, Active, Writing, Ended
<1>4. Grows
  BY DEF Grows
<1>5. RecordInv' /\ EvidenceWasCaptured'
  BY <1>4, RecordInvKept, CapturedKept DEF IInv
<1>6. RowsFinite' /\ PageCountsKnown'
  BY DEF IInv, RowsFinite, PageCountsKnown
<1>7. JobShape(t)' /\ Progress(t)'
  BY <1>2 DEF IInv, TypeOK, TaskInv, JobShape, Progress, IsExtract, StillUnread, OwnMembers,
         OwnConnections
<1>8. pc[t] \in Active /\ pc[t] \in Planned /\ \A s \in Tasks \ {t} : pc'[s] = pc[s]
  BY DEF IInv, TypeOK, Active, Writing, Planned
<1>9. QED
  BY <1>3, <1>4, <1>5, <1>6, <1>7, <1>8, CallKeeps

\* A task that ends, however it ends, leaves the record and the evidence alone.
LEMMA EndKeeps ==
    ASSUME IInv, NEW t \in Tasks, pc[t] \in Active,
           NEW label \in Ended, Goto(t, label),
           UNCHANGED <<record, totals, lineages, counters, evidence, job, plan, reading>>,
           status' = status \/ status' = "failed",
           runs' \in [Tasks -> {"none", "running", "completed", "failed"}]
    PROVE  IInv'
<1> USE DEF Goto, evidence
<1>1. TypeOK'
  BY DEF IInv, TypeOK
<1>2. Grows
  BY DEF Grows
<1>3. RecordInv' /\ EvidenceWasCaptured'
  BY <1>2, RecordInvKept, CapturedKept DEF IInv
<1>4. RowsFinite' /\ PageCountsKnown'
  BY DEF IInv, RowsFinite, PageCountsKnown
<1>5. pc'[t] \in Ended /\ \A s \in Tasks \ {t} : pc'[s] = pc[s]
  BY DEF IInv, TypeOK
<1>6. JobShape(t)' /\ Progress(t)'
  BY <1>5 DEF IInv, TypeOK, TaskInv, JobShape, Progress, Ended, Active, Writing
<1>7. pc'[t] \notin Planned
  BY <1>5 DEF Ended, Planned
<1>8. QED
  BY <1>1, <1>2, <1>3, <1>4, <1>5, <1>6, <1>7, CallKeeps

LEMMA StoreReportKeeps ==
    ASSUME IInv, NEW t \in Tasks, StoreReport(t)
    PROVE  IInv'
<1>1. pc[t] \in Active /\ "ended" \in Ended
  BY DEF StoreReport, Active, Ended
<1>2. runs' \in [Tasks -> {"none", "running", "completed", "failed"}]
  BY DEF StoreReport, IInv, TypeOK, lineage
<1>3. QED
  BY <1>1, <1>2, EndKeeps DEF StoreReport, project, lineage

LEMMA FailExtractionKeeps ==
    ASSUME IInv, NEW t \in Tasks, FailExtraction(t)
    PROVE  IInv'
<1>1. runs' \in [Tasks -> {"none", "running", "completed", "failed"}]
  BY DEF FailExtraction, MarkRun, IInv, TypeOK
<1>2. "failed" \in Ended
  BY DEF Ended
<1>3. QED
  BY <1>1, <1>2, EndKeeps DEF FailExtraction

LEMMA StopKeeps ==
    ASSUME IInv, NEW t \in Tasks, Stop(t)
    PROVE  IInv'
<1>1. runs' \in [Tasks -> {"none", "running", "completed", "failed"}]
  BY DEF Stop, MarkRun, IInv, TypeOK
<1>2. \E label \in Ended : Goto(t, label)
  BY DEF Stop, Ended
<1>3. QED
  BY <1>1, <1>2, EndKeeps DEF Stop, project

LEMMA AskedKeeps ==
    ASSUME IInv, NEW t \in Tasks, Asked(t)
    PROVE  IInv'
<1>1. CASE RequestExtract(t)
  BY <1>1, FirstWindowIsJob, RequestKeeps DEF RequestExtract, FirstWindow
<1>2. CASE RequestContinue(t)
  <2>1. PICK first \in Page, last \in Page :
            Request(t, [kind |-> "continue", first |-> first, last |-> last])
    BY <1>2 DEF RequestContinue
  <2>2. [kind |-> "continue", first |-> first, last |-> last] \in Job
    BY DEF Job
  <2>3. QED
    BY <2>1, <2>2, RequestKeeps
<1>3. CASE RequestRetry(t)
  <2>1. PICK p \in Page : Request(t, [kind |-> "retry", first |-> p, last |-> p])
    BY <1>3 DEF RequestRetry
  <2>2. [kind |-> "retry", first |-> p, last |-> p] \in Job
    BY DEF Job
  <2>3. QED
    BY <2>1, <2>2, RequestKeeps
<1>4. QED
  BY <1>1, <1>2, <1>3 DEF Asked

LEMMA CallStepKeeps ==
    ASSUME IInv, NEW t \in Tasks, Call(t)
    PROVE  IInv'
BY OpenDrawingSetKeeps, OpenDrawingKeeps, ReplanKeeps, ReadPagesKeeps, OpenRunKeeps, RecordCapturesKeeps,
   InsertMembersKeeps, InsertConnectionKeeps, UpdateDrawingMetaKeeps, UpdateSummaryKeeps,
   UpdateDrawingSetKeeps, CompleteRunKeeps, StoreReportKeeps
DEF Call

LEMMA StutterKeeps ==
    ASSUME IInv, UNCHANGED vars
    PROVE  IInv'
<1> USE DEF vars, project, lineage, evidence, task
<1>1. Grows
  BY DEF Grows
<1>2. RecordInv' /\ EvidenceWasCaptured'
  BY <1>1, RecordInvKept, CapturedKept DEF IInv
<1>3. \A t \in Tasks : TaskInv(t)'
  BY <1>1, TaskInvKept DEF IInv
<1>4. TypeOK' /\ RowsFinite' /\ PageCountsKnown'
  BY DEF IInv, TypeOK, RowsFinite, PageCountsKnown
<1>5. QED
  BY <1>2, <1>3, <1>4 DEF IInv

-----------------------------------------------------------------------------
(***************************************************************************)
(* The theorems.                                                           *)
(***************************************************************************)

\* The inductive invariant holds of every reachable state, however many tasks
\* are in flight and wherever each stops.
THEOREM Inductive == Spec => []IInv
<1>1. Init => IInv
  BY InitIInv
<1>2. IInv /\ [Next]_vars => IInv'
  BY AskedKeeps, CallStepKeeps, FailExtractionKeeps, StopKeeps, StutterKeeps DEF Next
<1>3. QED
  BY <1>1, <1>2, PTL DEF Spec

\* Every row, record, counter and task state has its type (store rows and task
\* locals of app/pipeline.py).
THEOREM TypeCorrect == Spec => []TypeOK
<1>1. IInv => TypeOK
  BY DEF IInv
<1>2. QED
  BY <1>1, Inductive, PTL

\* The committed coverage record is never ahead of the evidence (the order of
\* writes in continue_pdf_extraction and retry_pdf_page).
THEOREM RecordTruth == Spec => []RecordIsTruthful
<1>1. IInv => RecordIsTruthful
  BY DEF IInv, RecordInv
<1>2. QED
  BY <1>1, Inductive, PTL

\* The two warnings lines of the record always agree (accumulate_coverage,
\* ParseFailures).
THEOREM RecordAgreement == Spec => []RecordAgreesWithItself
<1>1. IInv => RecordAgreesWithItself
  BY DEF IInv, RecordInv
<1>2. QED
  BY <1>1, Inductive, PTL

\* A project is "done" only when every page was read, parsed and evidenced
\* (derive_project_status and its callers).
THEOREM DoneIsComplete == Spec => []DoneMeansAllRead
<1>1. IInv => DoneMeansAllRead
  BY DEF IInv, RecordInv
<1>2. QED
  BY <1>1, Inductive, PTL

\* No engineering row without the parsed reading it came from
\* (_record_page_captures before insert_members and _persist_connections).
THEOREM RowsAreCaptured == Spec => []EvidenceWasCaptured
<1>1. IInv => EvidenceWasCaptured
  BY DEF IInv
<1>2. QED
  BY <1>1, Inductive, PTL
=============================================================================
