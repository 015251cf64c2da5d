------------------------- MODULE ProductionCoverage -------------------------
(***************************************************************************)
(* From captured pages to a project that is COMPLETE: the accumulated      *)
(* evidence of IncrementalAnalysis starts a job, whose connections are     *)
(* processed one by one into drawing files; the accepted job is packaged,  *)
(* the package is put before a fabricator, and evaluate_production_coverage *)
(* reads all of these records, and the files, and says what is done.       *)
(*                                                                         *)
(* A file is modelled by what it shows; equal hashes mean equal files.  A  *)
(* candidate, its drawing file and its copy in the package are the         *)
(* candidate's position in the intake.                                     *)
(***************************************************************************)
EXTENDS IncrementalAnalysis

CONSTANTS
    Drawings,       \* what a generated drawing can show
    Shows,          \* the evidence a drawing gives on each base item
    FirstMember, OtherMembers, \* the member rows of the checklist
    Substance,      \* the location, plate and hole items of the checklist
    Others,         \* the other base items: identities, units, traceability
    Sheets,         \* filled-in checklists a fabricator may hand back
    Garbled,        \* a file that is no drawing
    Nothing,        \* no file, no job, no package, no review
    MaxCandidates,  \* bound: candidates of a job
    MaxJobs,        \* bound: workflows started over it
    MaxFaults       \* bound: files and records that somebody changes

ASSUME BoundsAssumption == MaxCandidates \in Nat /\ MaxJobs \in Nat /\ MaxFaults \in Nat
ASSUME SheetsAssumption ==
    \A sheet \in Sheets : \A item \in DOMAIN sheet :
        sheet[item] \in {"PASS", "FAIL", "NOT_APPLICABLE"}
ASSUME FilesAssumption == Garbled \notin Drawings /\ Nothing \notin Drawings \union {Garbled}

VARIABLES
    job,        \* the ProjectWorkflowState over an intake
    jobs,       \* workflows started so far
    disk,       \* the drawing file of each candidate
    package,    \* the FabricationDrawingPackage last built
    folder,     \* the directory packages are written to
    review,     \* the FabricatorAcceptance last obtained
    faults      \* files and records changed so far

analysisVars == <<accumulated, captured>>
vars == <<accumulated, captured, job, jobs, disk, package, folder, review, faults>>

Ids == 1..MaxCandidates
Files == Drawings \union {Garbled, Nothing}

-----------------------------------------------------------------------------
(* The job. *)

Unprocessed == [outcome |-> "UNPROCESSED", drawing |-> Nothing]

Candidates == DOMAIN job.results

\* accept_production_job re-hashes the file behind each verified record.
AcceptedConnection(k) ==
    /\ job.results[k].outcome = "VERIFIED"
    /\ disk[k] = job.results[k].drawing

JobStatus ==
    IF Candidates # {} /\ \A k \in Candidates : AcceptedConnection(k)
    THEN "ACCEPTED" ELSE "NOT_ACCEPTED"

-----------------------------------------------------------------------------
(* The fabricator's checklist. *)

Members == {FirstMember} \union OtherMembers
BaseItems == Members \union Substance \union Others
Judgements == {"AMBIGUITY", "VISUAL_CONTRADICTION"}
ChecklistItems == BaseItems \union Judgements \union {"FABRICATION_BLOCKING"}

\* A member row the reviewer says the drawing does not have blocks nothing;
\* the first row cannot be said away.
BlockingItems(sheet) ==
    (Members \union Substance) \ {m \in OtherMembers : sheet[m] = "NOT_APPLICABLE"}

EvidenceStatus(drawing, item, sheet) ==
    CASE item = "FABRICATION_BLOCKING" ->
            IF \A other \in BlockingItems(sheet) : Shows[drawing][other] = "PRESENT"
            THEN "PRESENT" ELSE "MISSING"
      [] item \in Judgements ->
            IF \E other \in BaseItems : Shows[drawing][other] = "CONTRADICTED"
            THEN "CONTRADICTED" ELSE "PRESENT"
      [] OTHER -> Shows[drawing][item]

ReconcilesIfAbsent(drawing, sheet) ==   \* mutant: NOT_APPLICABLE over a contradiction
    \A item \in ChecklistItems :
        LET status == EvidenceStatus(drawing, item, sheet)
        IN  /\ sheet[item] = "PASS" => status = "PRESENT"
            /\ sheet[item] = "NOT_APPLICABLE" => status # "PRESENT"

\* The reconciliation matrix of answer and evidence.
Reconciles(drawing, sheet) ==
    \A item \in ChecklistItems :
        LET status == EvidenceStatus(drawing, item, sheet)
        IN  /\ sheet[item] = "PASS" => status = "PRESENT"
            /\ sheet[item] = "NOT_APPLICABLE" => status = "MISSING"

Verdict(sheet) ==
    IF \A item \in ChecklistItems : sheet[item] # "FAIL" THEN "ACCEPTED" ELSE "NOT_ACCEPTED"

-----------------------------------------------------------------------------
(* Starting and working a job. *)

InitCoverage ==
    /\ InitAnalysis
    /\ job = Nothing
    /\ jobs = 0
    /\ disk = [k \in Ids |-> Nothing]
    /\ package = Nothing
    /\ folder = [copies |-> [k \in Ids |-> Nothing], manifest |-> Nothing]
    /\ review = Nothing
    /\ faults = 0

Fault == faults < MaxFaults /\ faults' = faults + 1

\* Starting again forgets every answer; the files, the package and the
\* fabricator's result of the job before stay with their caller.
StartJob ==
    /\ accumulated # NoAnalysis
    /\ IsSound(accumulated)
    /\ jobs < MaxJobs
    /\ jobs' = jobs + 1
    /\ LET intake == Intake(accumulated.pages)
       IN  /\ Len(intake.candidates) <= MaxCandidates
           /\ job' = [intake |-> intake, revision |-> 0,
                      results |-> [k \in DOMAIN intake.candidates |-> Unprocessed]]
    /\ UNCHANGED <<analysisVars, disk, package, folder, review, faults>>

Processed(k, outcome, drawing) ==
    /\ job # Nothing
    /\ k \in Candidates
    /\ job.results[k] = Unprocessed
    /\ job' = [job EXCEPT !.revision = @ + 1,
                          !.results[k] = [outcome |-> outcome, drawing |-> drawing]]

\* A REVIEW decision, or a section family no drawing can be made of.
LeaveBlocked(k) ==
    /\ \E outcome \in {"BLOCKED_REVIEW", "UNSUPPORTED_FAMILY"} : Processed(k, outcome, Nothing)
    /\ UNCHANGED <<analysisVars, jobs, disk, package, folder, review, faults>>

DrawVerified(k, drawing) ==
    /\ Processed(k, "VERIFIED", drawing)
    /\ disk' = [disk EXCEPT ![k] = drawing]
    /\ UNCHANGED <<analysisVars, jobs, package, folder, review, faults>>

\* The file cannot be written, or does not show what it should.
DrawUnverified(k) ==
    /\ Fault
    /\ Processed(k, "UNVERIFIED", Nothing)
    /\ disk' = [disk EXCEPT ![k] = Garbled]
    /\ UNCHANGED <<analysisVars, jobs, package, folder, review>>

-----------------------------------------------------------------------------
(* Packaging. *)

Packaged(status, items) ==
    package' = [status |-> status, revision |-> job.revision, acceptance |-> JobStatus,
                items |-> items]

NoItems == [k \in {} |-> Nothing]
ItemsOfJob == [k \in Candidates |-> job.results[k].drawing]
ManifestOf(p) == [revision |-> p.revision, items |-> p.items]

BuildBlocked ==
    /\ job # Nothing
    /\ JobStatus = "NOT_ACCEPTED"
    /\ Packaged("BLOCKED", NoItems)
    /\ UNCHANGED <<analysisVars, job, jobs, disk, folder, review, faults>>

WrittenOver(copies) == [k \in Ids |-> IF k \in Candidates THEN job.results[k].drawing ELSE copies[k]]

BuildReady ==
    /\ job # Nothing
    /\ JobStatus = "ACCEPTED"
    /\ Packaged("READY", ItemsOfJob)
    /\ folder' = [copies |-> WrittenOver(folder.copies),
                  manifest |-> [revision |-> job.revision, items |-> ItemsOfJob]]
    /\ UNCHANGED <<analysisVars, job, jobs, disk, review, faults>>

\* A write raises: the copies written before it are removed, the file being
\* written stays as it is, and the package says BLOCKED.
BuildFails(q) ==
    /\ job # Nothing
    /\ JobStatus = "ACCEPTED"
    /\ Fault
    /\ Packaged("BLOCKED", ItemsOfJob)
    /\ LET removed == [k \in Ids |-> IF k \in Candidates /\ k < q THEN Nothing
                                     ELSE folder.copies[k]]
       IN  \/ /\ q \in Candidates
              /\ folder' = [folder EXCEPT !.copies = [removed EXCEPT ![q] = Garbled]]
           \/ /\ q \notin Candidates
              /\ folder' = [copies |-> removed, manifest |-> Garbled]
    /\ UNCHANGED <<analysisVars, job, jobs, disk, review>>

-----------------------------------------------------------------------------
(* The fabricator's review of the package as it lies in its directory. *)

Reviewed(status, verdicts) ==
    review' = [status |-> status, packageStatus |-> package.status,
               revision |-> package.revision, drawings |-> verdicts, seen |-> package.items]

Deliverable ==
    /\ package.status = "READY"
    /\ folder.manifest = ManifestOf(package)
    /\ \A k \in DOMAIN package.items : folder.copies[k] = package.items[k]

ReviewRefused ==
    /\ package # Nothing
    /\ ~Deliverable
    /\ Reviewed("REFUSED", NoItems)
    /\ UNCHANGED <<analysisVars, job, jobs, disk, package, folder, faults>>

\* One sheet per drawing, and one answer on the package as a whole.
ReviewPackage(sheets, packageAnswer) ==
    /\ package # Nothing
    /\ Deliverable
    /\ IF \A k \in DOMAIN package.items :
            /\ DOMAIN sheets[k] = ChecklistItems
            /\ Reconciles(package.items[k], sheets[k])
       THEN LET verdicts == [k \in DOMAIN package.items |-> Verdict(sheets[k])]
            IN  Reviewed(IF packageAnswer # "FAIL" /\ \A k \in DOMAIN verdicts : verdicts[k] = "ACCEPTED"
                         THEN "ACCEPTED" ELSE "NOT_ACCEPTED", verdicts)
       ELSE Reviewed("REFUSED", NoItems)
    /\ UNCHANGED <<analysisVars, job, jobs, disk, package, folder, faults>>

\* Somebody changes or deletes a drawing, a copy or the manifest.
Damage ==
    /\ Fault
    /\ \/ \E k \in Ids, left \in {Garbled, Nothing} :
            /\ disk[k] # Nothing
            /\ disk' = [disk EXCEPT ![k] = left]
            /\ UNCHANGED folder
       \/ \E k \in Ids, left \in {Garbled, Nothing} :
            /\ folder.copies[k] # left
            /\ folder' = [folder EXCEPT !.copies[k] = left]
            /\ UNCHANGED disk
    /\ UNCHANGED <<analysisVars, job, jobs, package, review>>

NextCoverage ==
    \/ /\ \E slice \in Slices : Begin(slice)
       /\ UNCHANGED <<job, jobs, disk, package, folder, review, faults>>
    \/ /\ \E slice \in Slices, expected \in Universe : Continue(slice, expected)
       /\ UNCHANGED <<job, jobs, disk, package, folder, review, faults>>
    \/ /\ Fault
       /\ Tamper
       /\ UNCHANGED <<job, jobs, disk, package, folder, review>>
    \/ StartJob
    \/ \E k \in Ids : LeaveBlocked(k)
    \/ \E k \in Ids, drawing \in Drawings : DrawVerified(k, drawing)
    \/ \E k \in Ids : DrawUnverified(k)
    \/ BuildBlocked
    \/ BuildReady
    \/ \E q \in 1..MaxCandidates + 1 : BuildFails(q)
    \/ ReviewRefused
    \/ /\ package # Nothing
       /\ \E sheets \in [DOMAIN package.items -> Sheets], answer \in {"PASS", "FAIL"} :
             ReviewPackage(sheets, answer)
    \/ Damage

Spec == InitCoverage /\ [][NextCoverage]_vars

-----------------------------------------------------------------------------
(* evaluate_production_coverage over the job, the package and the review. *)

IntakeAgreesBelowCount ==       \* mutant: the last page is taken to be past the end
    LET intake == job.intake
    IN  /\ intake.analysed \intersect intake.failed = {}
        /\ \A n \in intake.analysed \union intake.failed : 0 < n /\ n < intake.count

IntakeAgrees ==
    LET intake == job.intake
    IN  /\ intake.analysed \intersect intake.failed = {}
        /\ \A n \in intake.analysed \union intake.failed : 0 < n /\ n <= intake.count
        /\ Len(intake.pages) = Cardinality(intake.analysed) + Cardinality(intake.failed)
        /\ intake.notAnalysed + Len(intake.pages) = intake.count
        /\ \A k \in DOMAIN intake.candidates : intake.candidates[k].page \in intake.analysed

\* The file behind a verified record is there and hashes as it was recorded.
FileStands(k) == disk[k] # Nothing /\ disk[k] = job.results[k].drawing

\* A verified record stands only with its file, and only if it is accepted.
RecordsAgree ==
    \A k \in Candidates :
        job.results[k].outcome = "VERIFIED" => FileStands(k) /\ AcceptedConnection(k)

PackageAgreesByName ==          \* mutant: the packaged copies are not read again
    package # Nothing =>
        /\ package.revision = job.revision
        /\ package.acceptance = JobStatus
        /\ package.status = "READY" =>
              \A k \in DOMAIN package.items :
                 AcceptedConnection(k) /\ package.items[k] = job.results[k].drawing

PackageAgrees ==
    package # Nothing =>
        /\ package.revision = job.revision
        /\ package.acceptance = JobStatus
        /\ package.status = "READY" =>
              /\ DOMAIN package.items # {}
              /\ DOMAIN package.items \subseteq Candidates
              /\ \A k \in DOMAIN package.items :
                    /\ AcceptedConnection(k)
                    /\ package.items[k] = job.results[k].drawing
                    /\ folder.copies[k] = package.items[k]
              /\ \A k \in Ids : folder.copies[k] # Nothing => k \in DOMAIN package.items

ReviewAgrees ==
    review # Nothing =>
        /\ package # Nothing
        /\ review.status # "REFUSED"
        /\ review.packageStatus = package.status
        /\ review.revision = job.revision
        /\ DOMAIN review.drawings = DOMAIN package.items

Disposition(k) ==
    LET outcome == job.results[k].outcome
    IN  CASE outcome = "UNSUPPORTED_FAMILY" -> "BLOCKED"
          [] outcome # "VERIFIED" -> "UNRESOLVED"
          [] package = Nothing -> "PRODUCED"
          [] package.status # "READY" -> "PRODUCED"
          [] review = Nothing -> "PRODUCED"
          [] review.drawings[k] # "ACCEPTED" -> "PRODUCED"
          [] OTHER -> "COMPLETED"

\* One row for each candidate, with where it was discovered.
ConnectionRow(k) == [page |-> job.intake.candidates[k].page, disposition |-> Disposition(k)]

ConnectionRows == [k \in Candidates |-> ConnectionRow(k)]

\* One row for each captured page; one that did not parse lists no candidates.
PageRows ==
    {[number |-> n, status |-> "ANALYSED",
      candidates |-> {k \in Candidates : job.intake.candidates[k].page = n}] :
        n \in job.intake.analysed}
    \union {[number |-> n, status |-> "PARSE_FAILED", candidates |-> {}] : n \in job.intake.failed}

Contradicted == ~(IntakeAgrees /\ RecordsAgree /\ PackageAgrees /\ ReviewAgrees)

ProjectStatus ==
    IF Contradicted THEN "REFUSED"
    ELSE IF /\ job.intake.notAnalysed = 0
            /\ \A row \in PageRows : row.status = "ANALYSED"
            /\ Candidates # {}
            /\ \A k \in Candidates : ConnectionRows[k].disposition = "COMPLETED"
         THEN "COMPLETE" ELSE "INCOMPLETE"

-----------------------------------------------------------------------------
(* Properties. *)

\* A page of an accumulation a caller has changed never reaches a job: the job's
\* pages are captured pages (incremental_continuation's digest).
OnlyCapturedEvidence ==
    job # Nothing => PagesOf(job.intake.pages) \subseteq captured

(* A project is COMPLETE only when every page of the set was captured and   *)
(* parsed, and every connection entry on any of them has one candidate whose *)
(* verified drawing lies unchanged both where it was drawn and in the       *)
(* package, and was accepted: nothing disappears between the pages and the  *)
(* package, whatever was changed, restarted or left over on the way         *)
(* (production_coverage's three rules).                                     *)
EntriesOf(pages) ==
    UNION {{[page |-> page.number, position |-> i, entry |-> page.entries[i]] :
                i \in {j \in DOMAIN page.entries : page.entries[j] # Unusable}} : page \in pages}

CompleteIsWhole ==
    job # Nothing /\ ProjectStatus = "COMPLETE" =>
        LET candidates == job.intake.candidates
        IN  /\ \A n \in Universe : \E page \in captured : page.number = n /\ ~page.failed
            /\ \A entry \in EntriesOf(captured) : \E k \in Candidates : EntryOf(candidates[k]) = entry
            /\ Len(candidates) = Cardinality(EntriesOf(captured))
            /\ \A k \in Candidates :
                  /\ Cardinality({row \in PageRows : k \in row.candidates}) = 1
                  /\ job.results[k].drawing \in Drawings
                  /\ disk[k] = job.results[k].drawing
                  /\ folder.copies[k] = job.results[k].drawing
                  /\ review.drawings[k] = "ACCEPTED"

(* And the other way round: when nothing was changed by hand and no write   *)
(* failed, a set that was read whole, packaged and accepted as a whole is   *)
(* COMPLETE, whatever jobs and packages came before it.                     *)
WholeIsComplete ==
    /\ faults = 0
    /\ job # Nothing /\ package # Nothing /\ review # Nothing
    => LET whole == /\ accumulated.failed = {} /\ accumulated.notAnalysed = {}
                    /\ job.intake.pages = accumulated.pages
                    /\ Candidates # {}
                    /\ package.status = "READY" /\ package.items = ItemsOfJob
                    /\ review.status = "ACCEPTED" /\ review.seen = package.items
       IN  whole => ProjectStatus = "COMPLETE"

(* The fabricator never accepts a drawing that contradicts the records it   *)
(* was made from, however the checklist is filled in: any one contradicted  *)
(* item contradicts the two judgements as well, which can then be neither   *)
(* passed nor waived (fabricator_acceptance's matrix).                      *)
AcceptedContradictsNothing ==
    review # Nothing =>
        \A k \in DOMAIN review.drawings :
            review.drawings[k] = "ACCEPTED" =>
                \A item \in BaseItems : Shows[review.seen[k]][item] # "CONTRADICTED"

(* "A project is COMPLETE only when ... every discovered connection is      *)
(* COMPLETED", which takes the whole backward chain, "7AS                   *)
(* fabricator-accepted" last (production_coverage.py:20, :57): the          *)
(* fabricator accepted the package.                                         *)
CompleteIsAccepted ==
    job # Nothing /\ ProjectStatus = "COMPLETE" => review # Nothing /\ review.status = "ACCEPTED"
=============================================================================
