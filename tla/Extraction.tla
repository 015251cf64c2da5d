----------------------------- MODULE Extraction -----------------------------
(***************************************************************************)
(* Reading one project's PDF drawing set, as app/main.py schedules it and  *)
(* app/pipeline.py performs it.  A reviewer asks for                       *)
(*   "extract"   the first window of a new reading (run_extraction),       *)
(*   "continue"  the next unread window (run_continuation),                *)
(*   "retry"     one page named as failed to parse (run_retry),            *)
(* and each accepted request becomes a background task.  A task is a       *)
(* sequence of separate calls to a store with no transaction across them,  *)
(* so every call is an action here, tasks interleave, and a task can stop  *)
(* between any two calls.                                                  *)
(***************************************************************************)
EXTENDS PageCoverage

CONSTANTS
    Tasks,          \* background tasks, one per accepted request
    Total,          \* pages of the document
    Window,         \* MAX_PDF_PAGES: pages one invocation may read
    Marks,          \* member marks the drawing uses
    Unmarked,       \* the "?" mark of a member drawn without one
    Drawn,          \* Drawn[p]: what a parsed reading of page p may contain
    MaxActive,      \* tasks the reviewers keep in flight at once
    NoRecord        \* projects.warnings before any run wrote it

ASSUME TotalIsCount == Total \in Nat \ {0}
ASSUME WindowIsCount == Window \in Nat \ {0}

ASSUME MarksAreFinite == IsFiniteSet(Marks)

Page == 1..Total

Reading == [parsed: BOOLEAN, marks: SUBSET Marks, connection: BOOLEAN, held: BOOLEAN]

ASSUME DrawnIsReading ==
    Drawn \in [Page -> SUBSET {r \in Reading : r.parsed}]

Unreadable == [parsed |-> FALSE, marks |-> {}, connection |-> FALSE, held |-> FALSE]

Record == [coverage: Coverage, failures: SUBSET Page]

ASSUME NoRecordIsNone == NoRecord \notin Record

Job == [kind: {"extract", "continue", "retry"}, first: Page, last: Page]

Capture == [task: Tasks, page: Page, reading: Reading]
MemberRow == [task: Tasks, page: Page, mark: Marks, held: BOOLEAN]
ConnectionRow == [task: Tasks, page: Page, held: BOOLEAN]

Counters == [analysed: Nat, total: Count, pageCount: Count]

VARIABLES
    status,       \* projects.status
    record,       \* projects.warnings: the coverage line and the failures line
    totals,       \* projects.total_members and total_connections
    lineages,     \* tasks whose drawing set exists
    counters,     \* drawing_sets counters and drawings.page_count of a lineage
    runs,         \* analysis_runs.status of the run each task opened
    captures,     \* page_extraction_captures
    members,      \* steel_members
    connections,  \* connections
    pc,           \* the next call each task makes
    job,          \* what each task was asked to read
    plan,         \* what each task read from the store before it acted
    reading       \* what each task's vision calls returned, by page

project == <<status, record, totals>>
lineage == <<lineages, counters, runs>>
evidence == <<captures, members, connections>>
task == <<pc, job, plan, reading>>
vars == <<project, lineage, evidence, task>>

Plan == [record: Record \cup {NoRecord}, lineage: Tasks,
         members: SUBSET MemberRow, connections: SUBSET ConnectionRow]

Idle == {"idle"}
Writing == {"captures", "members", "connections", "meta", "summary", "run", "set"}
Active == {"queued", "opened", "read", "open", "report"} \cup Writing
Ended == {"ended", "refused", "failed", "cut"}

ActiveTasks == {t \in Tasks : pc[t] \in Active}

TypeOK ==
    /\ status \in {"processing", "review", "done", "failed"}
    /\ record \in Record \cup {NoRecord}
    /\ totals \in [members: Nat, connections: Nat]
    /\ lineages \subseteq Tasks
    /\ counters \in [Tasks -> Counters]
    /\ runs \in [Tasks -> {"none", "running", "completed", "failed"}]
    /\ captures \subseteq Capture
    /\ members \subseteq MemberRow
    /\ connections \subseteq ConnectionRow
    /\ pc \in [Tasks -> Idle \cup Active \cup Ended]
    /\ job \in [Tasks -> Job]
    /\ plan \in [Tasks -> Plan]
    /\ reading \in [Tasks -> [Page -> Reading]]

\* The project row exists, uploaded and waiting; nothing has read its file.
Init ==
    /\ status = "processing"
    /\ record = NoRecord
    /\ totals = [members |-> 0, connections |-> 0]
    /\ lineages = {}
    /\ counters = [t \in Tasks |-> [analysed |-> 0, total |-> Unknown, pageCount |-> Unknown]]
    /\ runs = [t \in Tasks |-> "none"]
    /\ captures = {}
    /\ members = {}
    /\ connections = {}
    /\ pc = [t \in Tasks |-> "idle"]
    /\ job = [t \in Tasks |-> [kind |-> "extract", first |-> 1, last |-> 1]]
    /\ plan = [t \in Tasks |-> [record |-> NoRecord, lineage |-> t,
                               members |-> {}, connections |-> {}]]
    /\ reading = [t \in Tasks |-> [p \in Page |-> Unreadable]]

-----------------------------------------------------------------------------
(***************************************************************************)
(* What a request is checked against: persisted state only.                *)
(***************************************************************************)

\* _source_lineage and the record-conflict checks: exactly one lineage, and its
\* counters say what the coverage record says.
LineageAgrees ==
    \E l \in lineages :
        /\ lineages = {l}
        /\ counters[l].analysed = record.coverage.analysed
        /\ counters[l].total = record.coverage.total
        /\ counters[l].pageCount \in {Unknown, record.coverage.total}

\* The two lines of the record can be read back, and name the same failures.
CoverageRecorded == record # NoRecord
FailuresAgree == Cardinality(record.failures) = record.coverage.failed

\* plan_continuation accepts pages first..last.
ContinuationAccepted(first, last) ==
    /\ CoverageRecorded
    /\ FailuresAgree
    /\ WindowRefusal(record.coverage, Window, first, last) = Accepted
    /\ LineageAgrees

\* evidence_rows_for_page: members and connections, never captures.
EvidenceOnPage(p) ==
    {m \in members : m.page = p} \cup {c \in connections : c.page = p}

\* plan_retry accepts page p.
RetryAccepted(p) ==
    /\ CoverageRecorded
    /\ RetryRefusal(record.coverage, record.failures, p) = Accepted
    /\ LineageAgrees
    /\ EvidenceOnPage(p) = {}

JobAccepted(j) ==
    \/ j.kind = "extract"
    \/ j.kind = "continue" /\ ContinuationAccepted(j.first, j.last)
    \/ j.kind = "retry" /\ RetryAccepted(j.first)

\* ContinuationPlan and RetryPlan: the persisted rows the task will add to.
Snapshot(l) == [record |-> record, lineage |-> l,
                members |-> members, connections |-> connections]

-----------------------------------------------------------------------------
(***************************************************************************)
(* What a task read, and the rows it makes of it.                          *)
(***************************************************************************)
PagesOf(j) == j.first..j.last

FailedPages(j, r) == {p \in PagesOf(j) : ~ r[p].parsed}

Bearing(j, r, m) == {p \in PagesOf(j) : m \in r[p].marks}

\* consolidate_members and _member_rows: one row per mark, from the first page
\* that bears it, confirmed when several pages do; unmarked members stay apart.
MemberRows(t, j, r) ==
    {row \in [task: {t}, page: PagesOf(j), mark: Marks, held: BOOLEAN] :
        LET onlyHere == row.mark = Unmarked \/ Bearing(j, r, row.mark) = {row.page}
        IN  /\ row.mark \in r[row.page].marks
            /\ row.mark # Unmarked => \A q \in Bearing(j, r, row.mark) : row.page <= q
            /\ row.held = (r[row.page].held /\ onlyHere)}

ConnectionRows(t, j, r) ==
    {row \in [task: {t}, page: PagesOf(j), held: BOOLEAN] :
        r[row.page].connection /\ row.held = r[row.page].held}

CaptureRows(t, j, r) ==
    {[task |-> t, page |-> p, reading |-> r[p]] : p \in PagesOf(j)}

\* Mutant of Collides: only the rows held for review are compared.
CollidesWithHeld(rows, persisted) ==
    {m.mark : m \in rows} \cap {m.mark : m \in {n \in persisted : n.held}} # {}

\* The mark collision: a mark read here is already persisted for the project.
Collides(rows, persisted) ==
    {m.mark : m \in rows} \cap {m.mark : m \in persisted} # {}
-----------------------------------------------------------------------------
(***************************************************************************)
(* The routes: a request answered from persisted state, then queued.       *)
(***************************************************************************)
FirstWindow == [kind |-> "extract", first |-> 1, last |-> Lesser(Total, Window)]

Request(t, j) ==
    /\ pc[t] = "idle"
    /\ Cardinality(ActiveTasks) < MaxActive
    /\ JobAccepted(j)
    /\ pc' = [pc EXCEPT ![t] = "queued"]
    /\ job' = [job EXCEPT ![t] = j]
    /\ UNCHANGED <<project, lineage, evidence, plan, reading>>

RequestExtract(t) == Request(t, FirstWindow)

RequestContinue(t) ==
    \E first, last \in Page :
        Request(t, [kind |-> "continue", first |-> first, last |-> last])

RequestRetry(t) ==
    \E p \in Page : Request(t, [kind |-> "retry", first |-> p, last |-> p])

-----------------------------------------------------------------------------
(***************************************************************************)
(* The background tasks.  Goto moves task t to its next call.              *)
(***************************************************************************)
Goto(t, label) == pc' = [pc EXCEPT ![t] = label]

IsExtract(t) == job[t].kind = "extract"

\* A retry whose page still cannot be read records the attempt and nothing else.
StillUnread(t) == job[t].kind = "retry" /\ ~ reading[t][job[t].first].parsed

\* parse_pdf_and_save: the drawing set of a new reading, then its drawing and run.
OpenDrawingSet(t) ==
    /\ pc[t] = "queued"
    /\ IsExtract(t)
    /\ lineages' = lineages \cup {t}
    /\ Goto(t, "opened")
    /\ UNCHANGED <<project, counters, runs, evidence, job, plan, reading>>

OpenDrawing(t) ==
    /\ pc[t] = "opened"
    /\ runs' = [runs EXCEPT ![t] = "running"]
    /\ Goto(t, "read")
    /\ UNCHANGED <<project, lineages, counters, evidence, job, plan, reading>>

\* continue_pdf_extraction and retry_pdf_page decide again before they read.
Replan(t) ==
    /\ pc[t] = "queued"
    /\ ~ IsExtract(t)
    /\ IF JobAccepted(job[t])
       THEN /\ \E l \in lineages : plan' = [plan EXCEPT ![t] = Snapshot(l)]
            /\ Goto(t, "read")
       ELSE /\ Goto(t, "refused")
            /\ UNCHANGED plan
    /\ UNCHANGED <<project, lineage, evidence, job, reading>>

\* analyze_pdf_pages: one vision call a page, each parsed or not.
Answers(j) ==
    {r \in [PagesOf(j) -> {Unreadable} \cup UNION {Drawn[p] : p \in PagesOf(j)}] :
        \A p \in PagesOf(j) : r[p] \in Drawn[p] \cup {Unreadable}}

ReadPages(t) ==
    /\ pc[t] = "read"
    /\ \E r \in Answers(job[t]) :
        LET rows == MemberRows(t, job[t], r)
        IN  IF ~ IsExtract(t) /\ Collides(rows, plan[t].members)
            THEN Goto(t, "refused") /\ UNCHANGED reading
            ELSE /\ reading' = [reading EXCEPT ![t] =
                        [p \in Page |-> IF p \in PagesOf(job[t]) THEN r[p] ELSE Unreadable]]
                 /\ Goto(t, IF IsExtract(t) THEN "captures" ELSE "open")
    /\ UNCHANGED <<project, lineage, evidence, job, plan>>

\* create_analysis_run, of a window or of a retried page.
OpenRun(t) ==
    /\ pc[t] = "open"
    /\ runs' = [runs EXCEPT ![t] = "running"]
    /\ Goto(t, "captures")
    /\ UNCHANGED <<project, lineages, counters, evidence, job, plan, reading>>

\* Mutant of RecordCaptures: one capture a page, the latest one.
RecordLatestCaptures(t) ==
    /\ pc[t] = "captures"
    /\ captures' = {c \in captures : c.page \notin PagesOf(job[t])}
                        \cup CaptureRows(t, job[t], reading[t])
    /\ Goto(t, IF StillUnread(t) THEN "run" ELSE "members")
    /\ UNCHANGED <<project, lineage, members, connections, job, plan, reading>>

\* _record_page_captures: the raw readings of the run, in one statement.
RecordCaptures(t) ==
    /\ pc[t] = "captures"
    /\ captures' = captures \cup CaptureRows(t, job[t], reading[t])
    /\ Goto(t, IF StillUnread(t) THEN "run" ELSE "members")
    /\ UNCHANGED <<project, lineage, members, connections, job, plan, reading>>

\* What follows the last evidence row.
AfterEvidence(t) == IF IsExtract(t) THEN "meta" ELSE "set"

OwnMembers(t) == MemberRows(t, job[t], reading[t])
OwnConnections(t) == ConnectionRows(t, job[t], reading[t])

\* Mutant of InsertMembers: the connections of the window are passed over.
InsertMembersOnly(t) ==
    /\ pc[t] = "members"
    /\ members' = members \cup OwnMembers(t)
    /\ Goto(t, AfterEvidence(t))
    /\ UNCHANGED <<project, lineage, captures, connections, job, plan, reading>>

\* insert_members: every member row of the run, in one statement.
InsertMembers(t) ==
    /\ pc[t] = "members"
    /\ members' = members \cup OwnMembers(t)
    /\ Goto(t, IF OwnConnections(t) = {} THEN AfterEvidence(t) ELSE "connections")
    /\ UNCHANGED <<project, lineage, captures, connections, job, plan, reading>>

\* _persist_connections: one connection after another, in page order.
InsertConnection(t) ==
    /\ pc[t] = "connections"
    /\ \E c \in OwnConnections(t) \ connections :
        /\ \A d \in OwnConnections(t) \ connections : c.page <= d.page
        /\ connections' = connections \cup {c}
    /\ Goto(t, IF OwnConnections(t) \subseteq connections' THEN AfterEvidence(t)
               ELSE "connections")
    /\ UNCHANGED <<project, lineage, captures, members, job, plan, reading>>

\* update_drawing_meta: the document's own page count, when it can be established.
UpdateDrawingMeta(t) ==
    /\ pc[t] = "meta"
    /\ \E count \in {Total, Unknown} :
        counters' = [counters EXCEPT ![t].pageCount = count]
    /\ Goto(t, "summary")
    /\ UNCHANGED <<project, lineages, runs, evidence, job, plan, reading>>

\* The record this task commits: of its own window, or of its plan's record
\* plus its own reading.
ReadFailures(t) == FailedPages(job[t], reading[t])

NewCoverage(t) ==
    CASE IsExtract(t) ->
            CoverageOf(counters[t].pageCount, PagesOf(job[t]), ReadFailures(t))
      [] job[t].kind = "continue" ->
            Accumulate(plan[t].record.coverage, job[t], ReadFailures(t))
      [] job[t].kind = "retry" ->
            OneFailureFewer(plan[t].record.coverage)

\* Mutant of NewFailures: the failures line is merged with the record as it is
\* at the commit, beside a coverage line counted from the plan.
NewFailuresOfRecord(t) ==
    CASE IsExtract(t) -> ReadFailures(t)
      [] job[t].kind = "continue" -> record.failures \cup ReadFailures(t)
      [] job[t].kind = "retry" -> record.failures \ {job[t].first}

NewFailures(t) ==
    CASE IsExtract(t) -> ReadFailures(t)
      [] job[t].kind = "continue" -> plan[t].record.failures \cup ReadFailures(t)
      [] job[t].kind = "retry" -> plan[t].record.failures \ {job[t].first}

\* Mutant of CountedMembers: a continuation counts its own window only.
CountedOwnMembers(t) == OwnMembers(t)

\* The rows a task counts: those its plan read and those it wrote itself.
CountedMembers(t) == OwnMembers(t) \cup (IF IsExtract(t) THEN {} ELSE plan[t].members)
CountedConnections(t) ==
    OwnConnections(t) \cup (IF IsExtract(t) THEN {} ELSE plan[t].connections)

SummaryStatus(t) == DerivedStatus({NewCoverage(t)}, CountedMembers(t) \cup CountedConnections(t))

\* update_project_summary: status, totals and both record lines in one write.
UpdateSummary(t) ==
    /\ pc[t] = "summary"
    /\ status' = SummaryStatus(t)
    /\ totals' = [members |-> Cardinality(CountedMembers(t)),
                  connections |-> Cardinality(CountedConnections(t))]
    /\ record' = [coverage |-> NewCoverage(t), failures |-> NewFailures(t)]
    /\ Goto(t, IF IsExtract(t) THEN "run" ELSE "report")
    /\ UNCHANGED <<lineage, evidence, job, plan, reading>>

\* Mutant of UpdateDrawingSet: a continuation updates counters nobody reads.
UpdateOwnDrawingSet(t) ==
    /\ pc[t] = "set"
    /\ LET c == NewCoverage(t)
       IN  counters' = [counters EXCEPT ![t].analysed = c.analysed, ![t].total = c.total]
    /\ Goto(t, IF IsExtract(t) THEN "report" ELSE "run")
    /\ UNCHANGED <<project, lineages, runs, evidence, job, plan, reading>>

\* update_drawing_set: the counters of the lineage the task adds to.
UpdateDrawingSet(t) ==
    /\ pc[t] = "set"
    /\ LET l == IF IsExtract(t) THEN t ELSE plan[t].lineage
           c == NewCoverage(t)
       IN  counters' = [counters EXCEPT ![l].analysed = c.analysed, ![l].total = c.total]
    /\ Goto(t, IF IsExtract(t) THEN "report" ELSE "run")
    /\ UNCHANGED <<project, lineages, runs, evidence, job, plan, reading>>

\* update_analysis_run(status="completed").
CompleteRun(t) ==
    /\ pc[t] = "run"
    /\ runs' = [runs EXCEPT ![t] = "completed"]
    /\ Goto(t, CASE IsExtract(t) -> "set" [] StillUnread(t) -> "ended" [] OTHER -> "summary")
    /\ UNCHANGED <<project, lineages, counters, evidence, job, plan, reading>>

\* build_and_store_report, the last call of a task that read something.
StoreReport(t) ==
    /\ pc[t] = "report"
    /\ Goto(t, "ended")
    /\ UNCHANGED <<project, lineage, evidence, job, plan, reading>>

\* A call of an extraction raises.  parse_pdf_and_save marks the run failed when
\* it raised inside _run_pipeline, a write that may raise in turn; run_extraction
\* marks the project failed.
InPipeline == {"read", "captures", "members", "connections", "meta", "summary"}

MarkRun(t) ==
    \/ UNCHANGED runs
    \/ /\ IsExtract(t) /\ pc[t] \in InPipeline
       /\ runs' = [runs EXCEPT ![t] = "failed"]

\* Mutant of FailExtraction: the exception is logged and nothing is marked.
FailExtractionUnmarked(t) ==
    /\ IsExtract(t)
    /\ pc[t] \in Active
    /\ Goto(t, "failed")
    /\ UNCHANGED <<project, lineage, evidence, job, plan, reading>>

FailExtraction(t) ==
    /\ IsExtract(t)
    /\ pc[t] \in Active
    /\ status' = "failed"
    /\ MarkRun(t)
    /\ Goto(t, "failed")
    /\ UNCHANGED <<record, totals, lineages, counters, evidence, job, plan, reading>>

\* A call of a continuation or of a retry raises (nothing is marked), or the
\* process running the task dies, or the write by which run_extraction marks the
\* project failed raises too: no later call is made.
Stop(t) ==
    /\ pc[t] \in Active
    /\ MarkRun(t)
    /\ Goto(t, CASE pc[t] \in Writing -> "cut" [] pc[t] = "report" -> "ended"
                 [] OTHER -> "refused")
    /\ UNCHANGED <<project, lineages, counters, evidence, job, plan, reading>>

-----------------------------------------------------------------------------
Call(t) ==
    \/ OpenDrawingSet(t) \/ OpenDrawing(t) \/ Replan(t) \/ ReadPages(t) \/ OpenRun(t)
    \/ RecordCaptures(t) \/ InsertMembers(t) \/ InsertConnection(t)
    \/ UpdateDrawingMeta(t) \/ UpdateSummary(t) \/ UpdateDrawingSet(t)
    \/ CompleteRun(t) \/ StoreReport(t)

Asked(t) == RequestExtract(t) \/ RequestContinue(t) \/ RequestRetry(t)

Next == \E t \in Tasks : Asked(t) \/ Call(t) \/ FailExtraction(t) \/ Stop(t)

Spec == Init /\ [][Next]_vars
(***************************************************************************)
(* With fairness: the task runner keeps running every task it has started, *)
(* the process does not die, and the write that marks a project failed is  *)
(* answered.                                                               *)
(***************************************************************************)
LiveNext ==
    \E t \in Tasks :
        Asked(t) \/ Call(t) \/ FailExtraction(t) \/ (~ IsExtract(t) /\ Stop(t))

FairSpec ==
    /\ Init
    /\ [][LiveNext]_vars
    /\ \A t \in Tasks : WF_vars(Call(t))

-----------------------------------------------------------------------------
(***************************************************************************)
(* Properties.                                                             *)
(***************************************************************************)

\* The members and connections a captured reading stated are persisted.
EvidenceOf(c) ==
    /\ \A m \in c.reading.marks : \E row \in members : row.task = c.task /\ row.mark = m
    /\ c.reading.connection =>
            \E row \in connections : row.task = c.task /\ row.page = c.page

\* Page p was read, parsed, and everything it stated is persisted.
Answered(p) ==
    \E c \in captures : c.page = p /\ c.reading.parsed /\ EvidenceOf(c)

Truthful(r) ==
    r # NoRecord =>
        \A p \in 1..r.coverage.analysed :
            /\ \E c \in captures : c.page = p
            /\ p \notin r.failures => Answered(p)

\* The committed record is never ahead of the evidence: each page it counts as
\* analysed was read, and each of them it does not name as failed has all its
\* evidence persisted, whatever tasks interleave and wherever they stop.  The
\* order of writes in pipeline.py, evidence first and coverage last, is for this.
RecordIsTruthful == Truthful(record)

SelfConsistent(r) ==
    r # NoRecord =>
        /\ r.coverage.total \in {Total, Unknown}
        /\ r.coverage.analysed <= Total
        /\ r.coverage.total = Total => r.coverage.notAnalysed = Total - r.coverage.analysed
        /\ r.failures \subseteq 1..r.coverage.analysed
        /\ r.coverage.failed = Cardinality(r.failures)

\* The two lines of the record never contradict each other: no sequence of
\* tasks leads to the failures conflict that check_retry_request refuses.
RecordAgreesWithItself == SelfConsistent(record)

\* derive_project_status and its callers: a project is "done" only when every
\* page of the document was read, parsed, and has its evidence persisted.
DoneMeansAllRead == status = "done" => \A p \in Page : Answered(p)

\* _record_page_captures comes first so that engineering rows never exist
\* without the reading they came from.
EvidenceWasCaptured ==
    \A row \in members \cup connections :
        \E c \in captures : c.task = row.task /\ c.page = row.page /\ c.reading.parsed

\* The drawing lineage a task adds rows to.
LineageOf(t) == IF IsExtract(t) THEN t ELSE plan[t].lineage

\* A page is not evidenced twice in one lineage.  The routes' docstrings claim
\* it of duplicate requests, the pipeline's comments of attempts cut short.
NoPageTwice ==
    \A a, b \in members \cup connections :
        a.page = b.page /\ LineageOf(a.task) = LineageOf(b.task) => a.task = b.task

\* What the mark collision achieves for requests answered one at a time: two
\* tasks evidence a page of one lineage only if their readings of it have no
\* mark in common, as when the page bears connections only.
NoMarkedPageTwice ==
    \A a, b \in members \cup connections :
        a.page = b.page /\ LineageOf(a.task) = LineageOf(b.task) /\ a.task # b.task =>
            reading[a.task][a.page].marks \cap reading[b.task][b.page].marks = {}

\* A project read into one lineage is not "done" while a persisted row is held
\* for review.
DoneHoldsNothing ==
    status = "done" /\ Cardinality(lineages) = 1 =>
        \A row \in members \cup connections : ~ row.held

Quiet == ActiveTasks = {} /\ Cardinality(lineages) = 1 /\ record # NoRecord
NothingCut == \A t \in Tasks : pc[t] \notin {"cut", "failed"}

\* When nothing runs and nothing was cut short, a reading can go on: the next
\* unread page is accepted for continuation and each failed page for retry.
NoDeadEnd ==
    Quiet /\ NothingCut /\ record.coverage.total # Unknown =>
        /\ record.coverage.notAnalysed > 0 =>
                \E last \in Page : ContinuationAccepted(Boundary(record.coverage), last)
        /\ \A p \in record.failures : RetryAccepted(p)

\* Then the project's totals also count exactly the rows persisted for it.
TotalsCountRows ==
    Quiet /\ NothingCut =>
        totals = [members |-> Cardinality(members), connections |-> Cardinality(connections)]

\* Answered one at a time, requests implement the abstract record: each accepted
\* window is the next one, each retry repairs one named page, nothing else moves.
Committed == record # NoRecord

Abstract == INSTANCE PageRecord WITH
    known <- Committed /\ record.coverage.total # Unknown,
    boundary <- IF Committed THEN record.coverage.analysed ELSE 0,
    failed <- IF Committed THEN record.failures ELSE {}

ImplementsPageRecord == Abstract!Spec

\* run_extraction's docstring: a failure at any step marks the project "failed"
\* instead of leaving it on "processing".
NeverStuckProcessing ==
    \A t \in Tasks : (pc[t] = "queued" /\ IsExtract(t)) ~> status # "processing"
=============================================================================
