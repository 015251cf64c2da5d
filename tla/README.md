# SteelSpec API in TLA+

A verification development of the SteelSpec backend (`src/app`, `src/supabase`): TLA+ modules
translated from the source, TLC configurations that check them on small instances, and TLAPS proofs
of the properties that should hold on every instance. Paths below are relative to `src/`.

## The system

The backend reads the PDF or DXF drawings of a steel structure, persists the members and connections
it finds, lets a reviewer settle what the drawings leave open, and delivers a fabrication drawing for
each connection that is settled. Its state lives in Postgres tables and Storage objects reached by
separate HTTP calls. No transaction spans two calls; the exceptions are a few SQL functions that are
atomic by themselves. FastAPI handlers run concurrently and queue background tasks.

| Component | State it keeps | Operations | What is hard, and what makes it correct |
|---|---|---|---|
| Extraction (`main.py`, `pipeline.py`, `engineering_data/repository.py`) | `projects` (status, totals, the two record lines in `warnings`), `drawing_sets`, `drawings`, `analysis_runs`, `page_extraction_captures`, `steel_members`, `connections` | extract, continue, retry | Tasks of a dozen store calls interleave, raise, or die. The record must never be ahead of the evidence; "done" must mean read. |
| Page accounting (`validation/`) | none: pure | coverage, next window, failed pages, derived status | Boundaries: no page skipped or counted twice. |
| Documents (`production_document_*.py`, `production_extraction_source.py`) | `project_documents`, Storage uploads | ingest, assert a role, select a lineage, resolve a source | An upload beside a row with no transaction; checks before writes. |
| Project summary (`pipeline.py`, `reconcile_project_summary`) | the `projects` row, which all readings share | reconcile | Read, then written, by readings that finish in any order. |
| Member validation (`validation/rules.py`, `engineering_data/section_matcher.py`) | the rows of a window | look up, set aside, consolidate | A disagreement between drawings of one mark must not vanish in the merge. |
| Review claim (`production_review/project_review_claim.py`, J44) | one lease per project | acquire or take over, release by token | A lease may end while its holder works. |
| Review chain (`engineering_data/connection_review_repository.py`, `cad_engine/connection_review_snapshot.py`, J22) | append-only revisions | record, read | Two writers at one head; readings that change between revisions. |
| Opening and resolving (`production_review_opening.py`, `production_review_resolution.py`) | nothing of their own: locals of one request | open, resolve | Claim, replay, upload, re-read, write, pointer, release are eight calls with no transaction. |
| Artifact and pointer (`production_fabrication_artifact.py`, `production_fabrication_pointer.py`) | one Storage object per connection, one column of `projects` | upload, point | The object is upserted before the revision exists. |
| Exception resolution and gate (`cad_engine/exception_resolution.py`, `automation_gate.py`, `resolution_rerun.py`) | the supplement of one connection | open tasks, take answers, decide | Which answers free a connection, and what they put on its drawing. |
| Connection geometry (`cad_engine/two_member_connection.py`, `connection_interface_consistency.py`, adapters) | none: pure | place, attach, validate | A tolerance that either end of a short member is within. |
| Project workflow (`cad_engine/project_workflow.py`, `fabrication_package.py`) and review session (`review_ui/session.py`) | one immutable value, module-level; drawing files; a package directory | submit, refresh, batch, accept, package | Read, then replaced, by threads; files written one by one. |
| Incremental analysis (`cad_engine/incremental_*.py`, `project_extraction_intake.py`) | what a caller carries from slice to slice | begin, continue, intake | The accounting of pages over gaps; records a caller may have changed. |
| Production coverage and acceptance (`cad_engine/production_coverage.py`, `production_acceptance.py`, `fabricator_acceptance.py`) | records of a job, a package and a fabricator's answers | process, package, review, evaluate | Each is a record of an earlier moment. |
| Evidence trail (`cad_engine/connection_scoped_evidence.py`, `candidate_origin_address.py`, `evidence_conflict_detection.py`, `production_recorded_readings.py`) | captures, citations, answers of one item | resolve a citation, detect a conflict | A page is read again; sources arrive in any order. |
| Catalogue conflict (`engineering_data/source_of_truth.py`, `cad_engine/catalogue_conflict_resolution.py`, `resolved_conflict_*.py`) | a conflict's record, a drawing, a delivery | detect, settle, draw, deliver, accept | Paths shared by conflicts; a copy and a manifest. |
| Readers, generators, identity, pages, reports | none, or files | | Pure, or pure I/O. |

Calls go one way: `main.py` authorizes, then calls the pipeline or the review routes, which call the
repositories. Components meet only in the store: extraction writes the captures from which the review
routes reconstruct a workflow, so a page read again changes what a review is compared with.
`PROJECT.json` lists every component, and the hazards of the code at their lines.

## The modules

| Module | Models |
|---|---|
| `PageCoverage` | `validation/page_coverage.py`, `page_windows.py`, `parse_failures.py`, `project_status.py` as operators |
| `PageRecord` | abstract: what the committed record of one drawing set promises |
| `Extraction` | routes and background tasks of `main.py` and `pipeline.py`, one action per store call |
| `ExtractionProofs`, `SerialProofs` | theorems: of overlapping requests, and of requests answered one at a time |
| `ReviewSnapshot` | what a revision holds, how the next one is made, replay, the resolver's acceptance, as operators |
| `ReviewChain` | abstract: what the recorded review of a project promises |
| `Resolution` | openings and resolutions with the claim, the chain, the stored drawings and the pointer, one action per call |
| `ResolutionProofs` | lemmas about `ReviewSnapshot`, theorems |
| `SourceRegistry` | abstract: what the upload boundary promises of paths and contents |
| `Documents` | uploads, extraction sources, readings of several documents and their summary, one action per call |
| `ConnectionGeometry` | the assembly of one end-plate connection and what its validation refuses, as operators |
| `ConnectionReview` | fields, provenance, blockers, questions, answers and the gate of one connection, as operators |
| `ProjectWorkflow` | the bound session, its submissions and refreshes, the batch, the accepted job and its package |
| `IncrementalAnalysis` | slices, their accumulation, digest and accounting, and the candidates made of them |
| `ProductionCoverage` | the job of those candidates, its files, package, fabricator's review, and the status of the whole |
| `EvidenceTrail` | an item's origin, the rules that resolve a citation, the state of a field under several sources |
| `ConflictDelivery` | a catalogue conflict from detection to the accepted delivery of its drawing |
| `MemberValidation` | from what the pages of a window state to the rows kept of it, with the live table of sections |
| `DocumentsProofs`, `ProjectWorkflowProofs`, `ProductionCoverageProofs`, `EvidenceTrailProofs`, `SectionProofs` | theorems; the last about `MemberValidation` and `ConflictDelivery` |
| `MCExtraction`, `MCResolution`, `MCDocuments`, `MCProjectWorkflow`, `MCProductionCoverage`, `MCEvidence` | the drawings, readings, answers and files TLC uses |

How they compose: `Extraction` EXTENDS `PageCoverage` and refines `PageRecord`; `Resolution` EXTENDS
`ReviewSnapshot` and refines `ReviewChain`; `Documents` refines `SourceRegistry`; `ProjectWorkflow` EXTENDS
`ConnectionReview`, which EXTENDS `ConnectionGeometry`; `ProductionCoverage` EXTENDS
`IncrementalAnalysis`. `MCEvidence` puts the last four components, which share no state, in one run:
`part` says which one a behaviour explores.

### Extraction and the code

A task is an accepted request. `pc[t]` names the next store call; the order of the labels is the order
of the calls:

- a first window (`parse_pdf_and_save`, `_run_pipeline`): `OpenDrawingSet`, `OpenDrawing` (with its
  run), `ReadPages`, `RecordCaptures`, `InsertMembers`, `InsertConnection` for each, `UpdateDrawingMeta`,
  `UpdateSummary`, `CompleteRun`, `UpdateDrawingSet`, `StoreReport`;
- a continuation or a retry: `Replan` (the second decision, on state read again), `ReadPages` (and
  the mark collision), `OpenRun`, `RecordCaptures`, `InsertMembers`, `InsertConnection`,
  `UpdateDrawingSet`, `CompleteRun`, `UpdateSummary`, `StoreReport`. A retry whose page still cannot
  be read stops after its captures and its run.

`plan[t]` is what the task read when it decided (`ContinuationPlan`, `RetryPlan`): it commits from that,
not from the store as it is then. That is where its hazards are. A task ends early through
`FailExtraction` (the handler of `run_extraction`) or `Stop` (a continuation or retry that raises and
marks nothing, a process that died, or a handler whose own write of "failed" raises in turn).

Abstractions. A page's reading is whether its response parsed, the marks and at most one connection it
bears and whether the validation holds its rows for review; `Drawn` says what each page may give, and an
unreadable response is always possible. `projects.warnings` is the pair of its two record lines. Members
that share a mark but are defined differently are held in the code; the model holds by page. Annotation
rows are written in the step of the captures and read by nothing modelled. One document per project; a
request that addresses it and one that does not are the same here. The state "processing" is written by
the uploading client, so `Init` has it. Several documents are `Documents`. Left out: the refusal for a
total the caller states wrongly, records older than the failures line, `drawing_sets.status`.
`DerivedStatus` leaves out two more reasons to stay in review, sections that matched nothing and evidence
dropped from a DXF file: a project is "done" more often here than in the code, so what is shown of a
"done" project holds of the code's.

### Resolution and the code

A request is one handler; `job[t]` what it asks, `work[t]` its locals, `outcome[t]` its answer. An
opening makes the calls `CheckUnopened`, `Reconstruct`, `Resume`, `BuildSnapshot`, `Persist`,
`ReadBack`; a resolution `Acquire`, `Reconstruct`, `Resume`, `Resolve`, `Upload`, `Recheck`,
`BuildSnapshot`, `Persist`, `Point`, `Release`. Each early answer goes through `Leave`, which for a
resolution is the `finally` that releases. `Raise` is an exception of a call that changed nothing.
`ExpireLease` and `ReadAgain` are the database clock and the extraction component.

`LeasesExpire = FALSE` restricts a run to requests that are faster than their lease (15 minutes);
`AnswersLost = TRUE` adds calls that took effect, or not, and raised. A write that took effect and raised
is answered "was not written", as one that did not; the outcome `"unanswered"` tells the two apart.
`chain[n + 1]` is revision `n`. `Diverges`, `Replayable` and `Resolvable` are the three comparisons that
decide what a request may build on: the builder's, the replay's, and the resolver's with its composite
gate.

Abstractions. A decision is AUTO or anything else: CONFIRM is recorded but never generated, as REVIEW.
The decision, and whether the drawing was generated and verified, are free choices. Package ids are a
fixed set; a document's readings give each of its connections an origin (run and position). The
document is named in every request. The evidence fingerprint and the check that an answer belongs to
a task of the connection are among the reasons to raise. Replay reads an append-only prefix, so it is one step.
The preflight of the claim can only refuse, which `Acquire` does too.

### Documents and the code

`upload[r]` is one POST of files, taken one by one: `RefuseFile`, `Deduplicate`, `StoreFile` or
`StoreRaises`, then the row. `create_project_document` is three calls, between which others move: the
bytes are looked up (`FindRow`, `MissRow`), a row is inserted (`InsertRow`, `InsertRaises`) and, when
that raised, they are looked up again (`FindRow`). The unique index refuses the second of two rows of one
content (`Inserted`); an insertion may also fail with or without effect (`InsertionRaised`), and when
a look-up raises or the second finds nothing (`RegisterRaises`) the exception leaves the loop. What a request
knows (`known`, `names`) is read once, when it starts, and forgotten with its last file (`Knowing`).

`task[t]` is a reading. A first one registers the bytes it downloaded by the same three calls
(`FindDocument`, `MissDocument`, `InsertDocument`, `InsertDocumentRaises`), then makes `OpenReading`,
`ReadWindow`, `WriteSummary`, `ReconcileRead` and `ReconcileWrite`, `Close` (its run) and `Count` (the
counters of the set); a continuation reads, then `Count`, `Close`, `WriteSummary` and the two of
reconciling. A first reading that raises while pages are read marks its run "failed"; raising after that,
as between `Close` and `Count`, it leaves what stands (`LeftReading`). Of a document that several readings
are of, the state of the one iterated last is taken, and they come in no order: `RunStates` has them all.
A reviewer's role is one step, a selection two (`choice` is the lineage that was checked).

Merged steps: the drawing set, the drawing and the run that `OpenReading` creates, of which an
exception leaves the first ones (`LeftReading`; a set left without a drawing names no document and is left out);
a window's captures and rows (`Extraction` takes them apart); the states and the rows that
`ReconcileRead` reads; the page count of the document, which nothing modelled reads, with `Count`. The failing
write of "failed" is in `Extraction` only. Equal hashes are equal bytes; a path is the file's name, the
owner and the project being fixed. `Uploaded` is the column of a project made before documents were rows.

### The workflow and the code

`ConnectionReview` derives, from what the model read (`ExtractionOf`) and what a person answered, the
value and owner of every field (`Value`, `HumanOwned`), the blockers, the questions (`Tasks`) and the
gate's decision. A form is one submission: an answer or none for each question of the connection. An
approval is a person's: the fallback to `persisted_review_status` is left out, because nothing in the
program states one. `ConnectionGeometry` is what stands behind a blocker of validation: coordinates along
the members (z) and across them (x, for both directions, which the code treats alike).

`ProjectWorkflow` keeps one immutable value, replaced by `SubmitBlocked`, `SubmitDrawn`, `SubmitFailed`
and, in two steps on another thread, `ReadForRefresh` and `BindRefreshed`. `Batch` is the path that
reruns, gates and draws all connections without a workflow value, into the same folder. `Accept` judges
a workflow value; `Deliver` reads the files again; `DeliverFails(q)` is a write that raises at copy q,
or at the manifest. A bad drawing is an unreadable file, or one without its members: the
verification compares identity, members and hole diameters, and nothing else of a file is told apart.

### Coverage, evidence, conflicts, validation and the code

`IncrementalAnalysis` carries `accumulated` between slices: pages, accounting and a digest, which is
modelled as the pages it was made of. A slice may be out of order, over a gap, hold a page twice, or a
page of another drawing. Each candidate carries the drawing number of the page numbered 1
(`DrawingNumberOf`), if that page was read; each page of the instance bears one or none.
`ProductionCoverage` starts a job of the candidates, processes each into a file, packages the accepted
job, puts the package before a fabricator and evaluates. Between these steps files and records are changed
(`MaxFaults`) and the workflow is started again (`MaxJobs`). Where several entries of a page are alike the
code pairs the last position left (`positions.pop()`); so does `PairedPosition`.

`EvidenceTrail`: a page is read by several runs, `MakeItem` records where an item came from, and each
citation is resolved by one of three rules when the item is shown. A page with an entry that cannot be
used makes the resolver raise, which is the state RAISED of a field. `ConflictDelivery`: each slot is a conflict
from `BuildConflict` through `ApplyResolution`, `Redecide`, `Draw`, `Deliver` and `Evaluate`; a
drawing's path is made of the two section names alone, so slots can collide; `Spoil` changes a file.
`ConflictDisclosed` and `AuthorityRecorded` leave out the cases (MISSING, CONTRADICTED) of a manifest that holds
no conflict, no source or other names: the manifest that is judged is the one that the builder wrote (`OnDisk`).
`MemberValidation`: entries are read into a window, `Validate` looks them up, sets aside what is not
steel and folds the entries of a mark; `EditCatalogue` changes the live table between windows. As in the
code, entries of one mark are compared by the section they matched and by how it was come by. Grades are not
compared, and entries that matched nothing fold into one row, held for review, whatever each of them says.

## Runs

| Run | Question | Instance |
|---|---|---|
| `extraction_serial` | What does a reading guarantee to a reviewer who waits for each answer, with failures and deaths at every call? | 3 requests, one at a time; 3 pages, windows of 2; 2 readings of the second page and 2 of the third; about 2,810,000 states |
| `extraction_concurrent` | Which guarantees survive tasks that overlap at every call, and does a queued extraction leave "processing"? | 3 requests, 2 at once; 2 pages, windows of 1 |
| `extraction_duplicate_request` | finding | 2 at once |
| `extraction_reread_window` | finding | one at a time; a page that bears a connection only |
| `resolution_review` | Do answers, pointer and record agree, and is the record the abstract chain, when leases end at any time, readings change and calls go unanswered? | 3 requests, 2 connections, 2 readings, origins that change; about 1,350,000 states |
| `resolution_claimed` | With a lease that outlives its request, is what is delivered what was verified, and is the claim freed? | 3 requests, 2 connections |
| `resolution_takeover` | finding | 3 requests |
| `documents_sources` | Do objects, rows, readings and the project row agree when uploads, readings and reviews overlap and stop at any call? | 2 uploads of one file, 1 task, 2 contents, 2 names, 2 readings of 2 windows, one call that fails; about 1,390,000 states |
| `documents_settled` | finding | one upload of 2 files, no call fails |
| `workflow_release` | Does a drawing show only what a person decided, do right answers free a connection, does a package hold what was reviewed? | 2 connections, 4 readings of the first, 2 faults; about 235,000 states |
| `evidence_complete` | What is COMPLETE, cited, delivered and confirmed: is it so? | four parts, below; about 509,000 states |
| `coverage_verdict` | finding | one job, no fault |

Why the bounds are enough. In extraction, two pages suffice for a boundary, a failed page and a repair,
three pages with windows of two for a first window, a shorter last one and a page past it; three requests
for an extraction, a continuation and a retry, or two continuations of one record. Every hazard listed is
a race of two tasks over what one of them read. A document of 3 pages has a first page with one clean
member, a second that may share the first one's mark and may be held, and a third that bears a connection,
with an unmarked member or with none. In resolution three requests are an opening and two rivals for the
next revision. More cannot succeed: see the disagreement on the next connection.

In documents (`MaxFiles`, `MaxReadings`, `MaxReviewed`, `MaxFaults`) every race is between two uploads of
the same bytes or the same name, or an upload and a reading, at any of the three calls of a registration;
the reading's windows are 2 so that a document may be left half read. One task at a time reads: two
readings that overlap over one project row are bounded out here, and are a finding's subject in
`Extraction`. `documents_settled` sends two files in one request, and reads one after the other.

In the workflow, of two connections the first has every kind of reading (right; an unknown mark and two
plates; wrong but plausible; no mark and a misshapen plate) and, for every question, wrong answers of each
shape the page lets a person submit. One answer of a form is wrong at a time. `Open1` and `Open2` name the
questions that may be left open: leaving one out blocks in the same way whichever it is. Coordinates are
small integers that keep the order of the code's tolerances: a short member within the tolerance of both
faces, a plate off its member, holes that leave the plate. `MaxFaults` (2) counts bad drawings, failed
writes, damaged files, refreshes and batches together, so that any two meet.

In `evidence_complete`: three pages, slices in order, out of order, over a gap, with a page twice, with
alike entries, failed, or of another drawing (`Slices`); jobs of more than `MaxCandidates` (2) candidates
are not started; `MaxJobs` (2) lets a package outlive its workflow; one fault. Two readings
(`MaxCaptures`) and three citations (`MaxCitations`) are the first, a second that disagrees and a third
after it. Two `Slots` between sections of one name share a path; one mishap (`MaxMishaps`). `MCReports`
has one report per drawing, so the check of a drawing's own text can fail only through a file that was
changed or drawn over. Three entries (`MaxEntries`) of a mark are two that disagree and one that agrees
with either; one edit (`MaxEdits`).

Interchangeable values are declared symmetric (tasks in the safety runs, upload requests, slots); no
run with a liveness property has symmetry. Deadlock is not checked because every run may end with all its
requests answered and its bounds reached.

What the properties are for:

- `RecordIsTruthful`, `DoneMeansAllRead`: evidence first, coverage last; the order of writes of
  `pipeline.py` holds whatever overlaps, fails or dies.
- `RecordAgreesWithItself`: the coverage and failures lines, on which the next request is decided,
  never contradict each other.
- `EvidenceWasCaptured`: the three paths each capture before they persist.
- `NoMarkedPageTwice`, `DoneHoldsNothing`, `NoDeadEnd`, `TotalsCountRows`, `ImplementsPageRecord`: what
  holds only while requests do not overlap. `NoDeadEnd` and `TotalsCountRows` also except a reading
  of which a task was cut short: nothing then repairs it.
- `NoPageTwice`: what the texts claim and the mark collision does not achieve, in two findings.
  `NoMarkedPageTwice` is what it does achieve.
- `NeverStuckProcessing`: the promise of the handler in `run_extraction`.
- `ImplementsReviewChain`: the routes refine the abstract chain with no help from the claim.
- `AnswersMatchChain`: successes and revisions are one to one, but for the answer of a write that was
  itself lost.
- `ConflictMeansMoved`: what a conflict tells its caller.
- `PointerIsBacked`, `DeliveredIsVerified`: no pointer without a drawing and an AUTO decision; and,
  while claims hold, the drawing is the verified one.
- `OnlyOwnRelease`, `ClaimIsFreed`: release by token, on every path out.
- `SourceIsWhatItClaims`, `OutcomeNamesItsBytes`, `ImplementsSourceRegistry`: an object and its row are
  two writes, the row three calls, and identity is by content. That a content has one row is part of the
  abstract registry.
- `SelectionIsOwnReading`, `RowsKeepWhatWasAsserted`: a selection checked in one call and written in
  another; a row that is registered again.
- `SummaryDescribesTheSet`: what the project row says once nothing is in progress.
- `DrawnValuesAreDecided`, `AttachedEndIsNearer`, `RightAnswersRelease`: the gate neither lets through a value
  nobody decided, nor an end that is the wrong one, nor holds back a connection answered rightly.
- `ReleasedAsReviewed`: a completed package, after refreshes, batches, damaged files and failed writes.
- `EveryPageAccounted`, `OnlyCapturedEvidence`: no slice loses, doubles or smuggles in a page.
- `EarlierEvidenceKept`: an earlier candidate keeps its entry and its id; and the code's own proof of it raises
  in one case exactly, when page 1 comes after candidates were made and bears a drawing number.
- `CompleteIsWhole`, `WholeIsComplete`: COMPLETE exactly when everything is there, both ways.
- `AcceptedContradictsNothing`: the fabricator's matrix of answers and evidence.
- `CitedIsOwn`, `ConflictStands`: a citation shows the entry its item was made of; a conflict is
  settled by a human or not at all.
- `DeliveredIsChosen`: an accepted delivery shows what the human chose for that very conflict.
- `ConfirmedIsAgreed`: a row that is not held for review has the section that every steel entry of its mark
  names, and a row that was read surely and is held has an issue that says why.

Fairness. The two live specifications (`FairSpec` of `Extraction` and of `Resolution`) assume that a
handler or task that started keeps making its calls (weak fairness on `Call(t)`: the event loop and its
thread pool run every task they accepted) and that the process does not die, which nothing in the code
recovers from: there is no restart of a queued task. `FairSpec` of `Extraction` also assumes that the
write by which a failed extraction is marked is answered: it is the last thing the handler does, and
nothing repeats it. Nothing is assumed of a lease, of a reviewer, or of any other call succeeding. The
other components promise nothing that must eventually happen: what they do next is up to a person or a
caller.

## Where the code and its texts disagree

Five have a run, and are findings in `PROJECT.json` with their lines.

1. Two continuation requests that both re-decide before either commits read one window twice
   (`extraction_duplicate_request`); `app/main.py:583-586` says they cannot.
2. A window whose pages bear connections and no marked member, cut short between its evidence and its
   coverage, is read again in full, with one request at a time (`extraction_reread_window`);
   `app/pipeline.py:934-936` says the next attempt detects it. The collision is of member marks.
3. A request whose lease ended overwrites the drawing another request recorded
   (`resolution_takeover`); `app/production_review_resolution.py:66-67` says correctness is not at stake.
4. A project whose documents were each read once, without a failure, is left on "processing"
   (`documents_settled`); `app/pipeline.py:2061-2062` says it can reach `review`. The first window reconciles
   while its own run is still "running", and nothing reconciles after.
5. A FAIL on the whole package makes the fabricator's result NOT_ACCEPTED, and the project is COMPLETE
   (`coverage_verdict`); `app/cad_engine/production_coverage.py:17-24` says COMPLETE ends in an acceptance.
   The result is matched by revision, package and drawings, and only REFUSED is refused.

More were met while modelling and have no run.

Extraction and documents:

- A retry that commits after an overlapping continuation moves the boundary back; `app/pipeline.py:1585`
  says it moves none. Requests that do not overlap repair without moving it (`ImplementsPageRecord`).
- Marks are one mark whatever their case within a window (`app/validation/rules.py:196`) and as written
  across windows (`app/pipeline.py:1404-1405`): "b1" after "B1" passes the collision check.
- An upload whose row raises leaves its object, whose name then refuses every retry of that file; of
  two uploads of the same bytes the one that lost the insertion answers "created" too.
- A document that was deduplicated keeps its first path, so a continuation of a reading made from the
  other path is refused (`app/pipeline.py:1138`) though the bytes are the same.
- Two documents that are read at once each write totals from a read that may precede the other's rows
  (`app/pipeline.py:2068`).

Review:

- After one recorded resolution no other connection of the project can be resolved through the route.
  `project_workflow_resumption.py:55-60` states the reason; nothing closes the gap.
- Resolving on a project whose review was never opened is answered as a conflict, "the project's review
  chain advanced" (`production_review_resolution.py:778`), though nobody wrote: the second disjunct
  of `ConflictMeansMoved` is this case.
- A write whose answer is lost is answered "was not written" (`production_review_resolution.py:803`):
  `AnswersMatchChain` counts it, as `"unanswered"`, among the requests that recorded.
- `tests/test_real_world_j47_production_review_route.py:1352-1357` says the route cannot record a
  review on any project. Since openings exist it can: `ImplementsReviewChain` is checked over revisions 0 and 1.
- The reconstruction starts its workflow with no member placements
  (`project_workflow_reconstruction.py:489`), so a replayed workflow cannot pass the geometry a live one passes.
- A refresh that overlaps a submission binds the workflow it read before it (`review_ui/session.py:320`):
  the revision falls, though `project_workflow.py:38-47` calls it monotonic. `ReleasedAsReviewed` holds
  all the same.
- `exception_resolution.py:503` offers to confirm a value "or replace it with your own value", but its
  answer only confirms; a malformed field (553-566) is acknowledged and never cleared; the docstring at
  1007-1009 says that confirming a field drops a supplied value for it. A confirmation that
  names no field raises TypeError.
- Two connections answered with one identity are drawn into one file. The package refuses them.
- A material left open, or acknowledged only, does not keep a connection from AUTO and keeps its job from
  acceptance.

Coverage, acceptance and delivery:

- Of a fabricator's answers, PACKAGE_COMPLETE may be NOT_APPLICABLE although its evidence is always
  PRESENT (`fabricator_acceptance.py:1251-1281`); the matrix at 79 says REFUSED.
- `analyze_incremental` raises for a slice that brings page 1, with a drawing number, after candidates of other
  pages were made (`incremental_analysis.py:423-431`): `project_extraction_intake.py:167` then gives that
  number to all of them. `incremental_continuation.py` accepts the slice.
- A drawing set whose first page is not 1 can never be COMPLETE; and a page captured as failed is
  never replaced by a later slice, so its set cannot be either.
- A package write that raises leaves the file it was writing, and an earlier manifest, behind. So does
  a delivery (`resolved_conflict_deliverable.py:869-890`), whose docstring (61) says "nothing partial".
- A file that cannot be verified at all counts as one that failed; the model does not tell them apart either.

## Proofs

Checked by tlapm for every value of the constants that satisfies the assumptions the modules name. They
are few: `Total` and `Window` positive, finitely many marks, `Drawn` a set of parsed readings for each
page, the values standing for None not among the things they stand beside; `TrailAssumption` (a reading's
entries have positions), `CatalogueAssumption` (a table row names a section, and the decimals of a size
have a least one), `DeliveryAssumption`, `SlicesAssumption` and `SheetsAssumption` (a slice is a sequence
of pages, a page has a sequence of entries, a sheet answers PASS, FAIL or NOT_APPLICABLE), and, for the
workflow, `RowsAssumption`, `ReadingsAssumption`, `AnswersAssumption` and `FieldsAssumption` (sizes are
numbers, lists are finite, an answer has its question's shape). Reading sets, numbers of tasks, requests
in flight, files, connections, documents, pages, catalogues and slots are arbitrary. TLC evaluates every
assumption on the instances of the runs. Where a theorem has a hypothesis of its own, it is the setting of
the run that checks the property, and is named below.

`ExtractionProofs`: an accepted window is the next one, inside the document and inside the limit;
an accepted retry names a page that the record holds as failed.
`TypeOK`, `RecordIsTruthful`, `RecordAgreesWithItself`, `DoneMeansAllRead` and
`EvidenceWasCaptured` are invariants of `Spec`. None is inductive. What a task commits is computed
from a plan that is long out of date, so the invariant also says, of every task, that its plan's
record was truthful and consistent, that the pages of its job continue that record, and, by the
label, which of its captures, members and connections are persisted already. Captures, members and
connections only grow, so that a record that was truthful once stays truthful
(lemmas on growth come first), and a task that commits extends a truthful plan by its own persisted window.
This is why an overlapping task can move the boundary back but never make the record a lie.

`SerialProofs`, with `MaxActive = 1`: `NoMarkedPageTwice`, `DoneHoldsNothing`, `TotalsCountRows`,
`NoDeadEnd` and the refinement of `PageRecord`. With overlapping tasks TLC refutes the first (in
`extraction_duplicate_request` the two readings share a mark), so the hypothesis is what the theorems are
about. `SInv` says what one request may rely on: since it planned, nothing in the store moved but by its
own writes, which the label lists. `MarkedPagesOnce` assumes nothing of what pages bear: two tasks that
both evidence a page read no mark in common on it, or the second would have collided with the rows of the
first. That it cannot say more is the finding of `extraction_reread_window`. `TotalsCountRows` and
`NoDeadEnd` speak, as in their runs, of calls that do not raise; the others hold wherever requests are cut
short.

`ResolutionProofs`: `TypeOK`, `PointerIsBacked`, `OnlyOwnRelease`, `ConflictMeansMoved`, and that
`Resolution` implements `ReviewChain` (`Refinement`). The invariant says of each request, by the label,
what its locals are founded on: the head it resumed at is a head the chain had (`HeadOf`), what it read is
the baseline of some evidence with the recorded states over it (`ReadOf`), what it built answers one
connection nobody had answered (`BuiltOf`), what is durable is stored (`DurableOf`), what it is about to
write was compared with the revision it follows (`ComparedOf`), and what it points at is recorded
(`PointingOf`). With the shape of the chain itself (`ChainStarts`, `ChainKeeps`) and `Pointed`, a write
that finds the chain at the length it was built for is a step of the abstract chain. The claim occurs
nowhere in that argument: as the code's comments say, J22 is the barrier, and the claim only spares work.
`AnswersMatchChain`, lost answers included, comes from `AnswersInv`, which counts the requests past their
write. `DeliveredIsVerified` has the hypotheses of its run (`AnswersLost = FALSE` and `LeasesExpire =
FALSE`; `resolution_takeover` shows that it fails without the second) and comes from `DeliveryInv`: here
the claim does the work. Only its holder moves the chain past the baseline (`CurrentOf`) and only its
holder uploads (`OwnDrawing`), and a resolution never answers a connection that is recorded already, so it
never overwrites the drawing that is pointed at (`NotYetPointed`).

`DocumentsProofs`: `SourceIsWhatItClaims`, `OutcomeNamesItsBytes`,
`SelectionIsOwnReading`, `RowsKeepWhatWasAsserted`, and the refinement of `SourceRegistry`, for any number
of uploads, files and tasks. `DocumentsInv` adds what each actor holds between its calls: an upload
about to register has its bytes at its path, a reading was opened from a path that
still holds what was read, a selection that was checked is still the document's own. All of it is
stable because objects are never overwritten and rows never deleted. The bounds are not used. The
refinement says which of two racing requests registers: an insertion is a step of the abstract registry or, when
the index refuses it or its call fails, a step that leaves it alone or registers without an answer.
`SummaryDescribesTheSet`, for one task at a time (`OneTask`), from `SummaryInv`: what the running reading has
counted by the time it reconciles, and that outside a reading the row is reconciled over
the readings there are. The total itself is opaque to the argument: equal sets of readings have equal totals.

`ProjectWorkflowProofs`: `DrawnValuesAreDecided`, `ReleasedAsReviewed`, `AttachedEndIsNearer` and
`RightAnswersRelease`. The first three need `WorkflowInv`: every record that the session, the refresh in
progress or the accepted job holds is the record of some form of that connection, with the decision the
gate took on that form and, once verified, the drawing the form calls for. A refresh that binds an older
workflow breaks every statement about the newest answers, and this is what it leaves standing. What the
gate makes of a form is then reasoned about operator by operator: a value is shown only if given or
confirmed; two ends that both align are told apart by the distance to the plate, for rows of any length;
and `RightAnswersRelease` goes through the blockers one question at a time. Its `RightAnswersAssumption`
says that the truth is a connection that can be built.

`ProductionCoverageProofs`: seven properties from one invariant, `CoverageInv`, in five parts.
`AnalysisInv`: the accounting is that of the digest, the digest has no page twice, and its pages are all
that was captured. `JobInv`: a job's intake is the one of some captured pages, and its revision counts its
processed results. `PackageInv`: the revision of a READY package is the number of its drawings.
`ReviewInv`: an accepted review is of a READY package and its revision. `FilesInv`: as long as no fault
was counted, drawings and copies lie where the records say. The two counts carry `CompleteIsWhole`:
nothing in `evaluate_production_coverage` compares the package with the candidates one by one, but its
drawings are among the candidates, it is of the job's revision, and so there are as many of them.
`WholeIsComplete` is proved for `First = 1`, and `CompleteStartsAtPageOne` shows why: the intake counts
the pages not analysed as the count less those read, so a set with another first page never gets to
COMPLETE (see the divergences above).

`ReadEntries` is recursive over the pages, and a fact about it needs an induction that the library states
with an operator parameter. `Induct` states it about sets instead, from `WFMin`: a set that holds 0 and
with each natural the next holds them all. From it come a solution of the recursion
(`CandidatesPageByPage`), that the candidates list the usable entries of the pages without repeating one
(`CandidatesEnumerate`), and that appended pages leave the candidates there are in their places
(`CandidatesKept`). `EarlierEvidenceKept` needs two things more. The drawing number that candidates carry
changes only when page 1 arrives (`NumberIsKept`). And which of several entries that read alike a
candidate is paired with. `Ranks` shows by the same induction that in a finite set of naturals every rank
is taken once, so two candidates of a page are never paired with one entry.

`AcceptedContradictsNothing` goes by cases on the item that is contradicted, because the two
judgements of the checklist depend on all the others.

`EvidenceTrailProofs`: `CitedIsOwn` from `TrailInv` (an item's position held, in the attempt it was
recorded in, the entry it was made of, and an attempt never changes), and `ConflictStands`: sources only
accumulate, and the state of a field is monotone in them until a human completes an answer.

`SectionProofs`: `ConfirmedIsAgreed` from `ValidationInv`, by following one mark through the fold; and
`DeliveredIsChosen` from `DeliveryInv`, which ties an accepted delivery to the copy, the copy to the
drawing result, and the result to the row its conflict's decision names.

Only model-checked: the two liveness properties (`NeverStuckProcessing`, `ClaimIsFreed`), which need
fairness and ENABLED. Every invariant and action property of a passing run is also a theorem.

## Not modelled

- Drawing and report generation, and the readers of DXF and of annotations: output from, or input to,
  finished data in one pass. The calls that store what they give are in `Extraction`.
- The plate, sections and solids in three axes: `ConnectionGeometry` keeps the axis on which the refusals
  are decided; the solid modeller is external.
- Identity, authorization and binding are decided before anything here starts, and every request is the owner's.
- Review pages and the wire format are read-only. Downloads and clients are I/O.
- The assistant session is display text: its modules name nothing that changes engineering state.
- Acceptance proofs and scripts exercise the others.
- Within modelled components: the texts of manifests, reports and records; the share of missing
  lengths and the classification of failures in validation; which captures stand, which is an input of
  `Resolution` (`Readings`); a continuation that raises with several documents (`Extraction` has it with one).

`PROJECT.json` gives every component with its status, and each hazard that no property covers with the reason.
