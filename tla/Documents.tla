------------------------------ MODULE Documents ------------------------------
(***************************************************************************)
(* The source documents of one project: the objects of the uploads bucket, *)
(* the project_documents rows, the readings (drawing set, drawing and      *)
(* runs) of each document and the project row that summarises them.  *)
(*                                                                         *)
(* Several upload requests, extraction tasks and reviewers act at once.  A *)
(* document is its position in docs (created_at order); a storage path is  *)
(* the file's own name, the owner and project being fixed.  A reading is   *)
(* counted in windows, the pages of a window being module Extraction's.    *)
(***************************************************************************)
EXTENDS Naturals, Sequences, FiniteSets

CONSTANTS
    Contents,       \* byte strings a file can hold (equal hash, equal bytes)
    Names,          \* usable file names, which are also the storage paths
    Unusable,       \* a file refused by itself: name, extension or no bytes
    Uploaded,       \* projects.uploaded_file_path
    First,          \* what the project was created with there, or Nothing
    Nothing,        \* no object, no document, no drawing
    Roles,          \* DOCUMENT_ROLES a reviewer asserts
    UnknownRole,    \* DOCUMENT_ROLE_UNKNOWN
    Requests,       \* upload requests
    Tasks,          \* background tasks of the extraction routes
    Windows,        \* windows a document takes to read whole
    MaxFiles,       \* bound: files of one upload request
    MaxReadings,    \* bound: readings a project collects
    MaxReviewed,    \* bound: roles and selections that documents carry
    MaxFaults       \* bound: calls that fail

ASSUME WindowsAssumption == Windows \in Nat \ {0}
ASSUME UploadedAssumption == Uploaded \in Names /\ First \in Contents \union {Nothing}
ASSUME NothingAssumption ==
    /\ Nothing \notin Contents
    /\ Nothing \notin Names
    /\ Nothing \notin Nat
ASSUME BoundsAssumption == MaxFiles \in Nat /\ MaxReadings \in Nat
                            /\ MaxReviewed \in Nat /\ MaxFaults \in Nat

VARIABLES
    object,     \* the uploads bucket
    docs,       \* project_documents rows, in the order they were created
    readings,   \* drawing sets with their drawing and their runs
    project,    \* the projects row: status, coverage record, member total
    upload,     \* each upload request in progress
    task,       \* each extraction task
    choice,     \* a lineage selection that was checked and not yet written
    faults      \* calls that have failed

vars == <<object, docs, readings, project, upload, task, choice, faults>>

File == [name : Names, content : Contents]
Outcome == [status : {"created", "deduplicated", "failed"},
            content : Contents \union {Nothing}, document : Nat \union {Nothing}]

Document(c, p) == [content |-> c, path |-> p, role |-> UnknownRole, selected |-> Nothing]

NoUpload == [pc |-> "idle", files |-> <<>>, known |-> {}, names |-> {}, outcomes |-> <<>>]
NoTask == [pc |-> "idle", kind |-> "extract", path |-> Uploaded, document |-> Nothing,
           reading |-> Nothing, run |-> 1, analysed |-> 0, states |-> {}, total |-> 0]

Init ==
    /\ object = [n \in Names |-> IF n = Uploaded THEN First ELSE Nothing]
    /\ docs = <<>>
    /\ readings = <<>>
    /\ project = [status |-> "processing", record |-> 0, total |-> 0]
    /\ upload = [r \in Requests |-> NoUpload]
    /\ task = [t \in Tasks |-> NoTask]
    /\ choice = Nothing
    /\ faults = 0

Fault == faults < MaxFaults /\ faults' = faults + 1

-----------------------------------------------------------------------------
(* create_project_document, called by an upload and by an extraction.  It   *)
(* looks the bytes up, inserts a row when there is none, and looks them up *)
(* again when the insertion raised: three calls, with other requests'      *)
(* calls between them.                                                     *)

RowsOf(c) == {d \in DOMAIN docs : docs[d].content = c}

\* Mutant: the database has no unique index on (project, content).
InsertedAgain(c, p) == docs' = Append(docs, Document(c, p))

\* Mutant: the insertion is an upsert, which writes the row of the bytes anew.
Upserted(c, p) ==
    docs' = IF RowsOf(c) = {} THEN Append(docs, Document(c, p))
            ELSE [d \in DOMAIN docs |-> IF d \in RowsOf(c) THEN Document(c, p) ELSE docs[d]]

\* The unique index on (project, content) admits the row.
Inserted(c, p) ==
    /\ RowsOf(c) = {}
    /\ docs' = Append(docs, Document(c, p))

\* The insertion raises: refused by the index, or a call that failed with or
\* without effect.
InsertionRaised(c, p) ==
    \/ RowsOf(c) # {} /\ UNCHANGED <<docs, faults>>
    \/ Fault /\ (Inserted(c, p) \/ UNCHANGED docs)

-----------------------------------------------------------------------------
(* POST /projects/{id}/documents: ingest_documents, file by file.  Once no *)
(* file is left, the outcomes are the answer.                              *)

Head1(r) == Head(upload[r].files)

\* What a request knows is forgotten with its last file.
Knowing(r, S) == IF Len(upload[r].files) = 1 THEN {} ELSE S

Outcomes(r, o) ==
    upload' = [upload EXCEPT ![r].files = Tail(@), ![r].pc = "files",
                             ![r].known = Knowing(r, @), ![r].names = Knowing(r, @),
                             ![r].outcomes = Append(@, o)]

Failed(r) ==
    Outcomes(r, [status |-> "failed", content |-> Nothing, document |-> Nothing])

SendFiles(r, files) ==
    /\ upload[r].pc = "idle"
    /\ upload' = [upload EXCEPT ![r] = [NoUpload EXCEPT
                    !.pc = "files", !.files = files, !.known = DOMAIN docs,
                    !.names = {docs[d].path : d \in DOMAIN docs}]]
    /\ UNCHANGED <<object, docs, readings, project, task, choice, faults>>

KnownWith(r, c) == {d \in upload[r].known : docs[d].content = c}

Pending(r) == upload[r].pc = "files" /\ upload[r].files # <<>>

RefuseFile(r) ==
    /\ Pending(r)
    /\ \/ Head1(r) = Unusable
       \/ /\ Head1(r) # Unusable
          /\ KnownWith(r, Head1(r).content) = {}
          /\ Head1(r).name \in upload[r].names
    /\ Failed(r)
    /\ UNCHANGED <<object, docs, readings, project, task, choice, faults>>

Deduplicate(r) ==
    /\ Pending(r)
    /\ Head1(r) # Unusable
    /\ \E d \in KnownWith(r, Head1(r).content) :
         Outcomes(r, [status |-> "deduplicated",
                      content |-> Head1(r).content, document |-> d])
    /\ UNCHANGED <<object, docs, readings, project, task, choice, faults>>

Storable(r) ==
    /\ Pending(r)
    /\ Head1(r) # Unusable
    /\ KnownWith(r, Head1(r).content) = {}
    /\ Head1(r).name \notin upload[r].names

\* storage.upload with upsert off: an occupied path is refused.
Stored(r) ==
    /\ object[Head1(r).name] = Nothing
    /\ object' = [object EXCEPT ![Head1(r).name] = Head1(r).content]

StoreFile(r) ==
    /\ Storable(r)
    /\ Stored(r)
    /\ upload' = [upload EXCEPT ![r].pc = "register"]
    /\ UNCHANGED <<docs, readings, project, task, choice, faults>>

\* Mutant: an upload that raises is registered all the same.
StoreRaisesUnseen(r) ==
    /\ Storable(r)
    /\ object[Head1(r).name] # Nothing
    /\ upload' = [upload EXCEPT ![r].pc = "register"]
    /\ UNCHANGED <<object, docs, readings, project, task, choice, faults>>

\* The call raises: the path is occupied, or the call failed with or without effect.
StoreRaises(r) ==
    /\ Storable(r)
    /\ \/ object[Head1(r).name] # Nothing /\ UNCHANGED <<object, faults>>
       \/ Fault /\ (Stored(r) \/ UNCHANGED object)
    /\ Failed(r)
    /\ UNCHANGED <<docs, readings, project, task, choice>>

Created(r, d) ==
    upload' = [upload EXCEPT
         ![r].files = Tail(@), ![r].pc = "files",
         ![r].known = Knowing(r, @ \union {d}),
         ![r].names = Knowing(r, @ \union {Head1(r).name}),
         ![r].outcomes = Append(@, [status |-> "created", content |-> Head1(r).content,
                                    document |-> d])]

\* The first look-up, or the one after an insertion that raised, finds the row.
FindRow(r) ==
    /\ upload[r].pc \in {"register", "reread"}
    /\ \E d \in RowsOf(Head1(r).content) : Created(r, d)
    /\ UNCHANGED <<object, docs, readings, project, task, choice, faults>>

MissRow(r) ==
    /\ upload[r].pc = "register"
    /\ RowsOf(Head1(r).content) = {}
    /\ upload' = [upload EXCEPT ![r].pc = "insert"]
    /\ UNCHANGED <<object, docs, readings, project, task, choice, faults>>

InsertRow(r) ==
    /\ upload[r].pc = "insert"
    /\ Inserted(Head1(r).content, Head1(r).name)
    /\ Created(r, Len(docs) + 1)
    /\ UNCHANGED <<object, readings, project, task, choice, faults>>

\* Mutant: whatever the insertion answers is taken for a row of its own.
InsertRaisesUnseen(r) ==
    /\ upload[r].pc = "insert"
    /\ InsertionRaised(Head1(r).content, Head1(r).name)
    /\ Created(r, Len(docs) + 1)
    /\ UNCHANGED <<object, readings, project, task, choice>>

InsertRaises(r) ==
    /\ upload[r].pc = "insert"
    /\ InsertionRaised(Head1(r).content, Head1(r).name)
    /\ upload' = [upload EXCEPT ![r].pc = "reread"]
    /\ UNCHANGED <<object, readings, project, task, choice>>

\* A look-up raises, or the second one finds nothing: the exception leaves the
\* loop, whatever the insertion did.
RegisterRaises(r) ==
    /\ \/ upload[r].pc \in {"register", "reread"} /\ Fault
       \/ /\ upload[r].pc = "reread" /\ RowsOf(Head1(r).content) = {}
          /\ UNCHANGED faults
    /\ upload' = [upload EXCEPT ![r] = [NoUpload EXCEPT !.pc = "raised"]]
    /\ UNCHANGED <<object, docs, readings, project, task, choice>>

UploadStep(r) ==
    \/ RefuseFile(r) \/ Deduplicate(r) \/ StoreFile(r) \/ StoreRaises(r)
    \/ FindRow(r) \/ MissRow(r) \/ InsertRow(r) \/ InsertRaises(r)
    \/ RegisterRaises(r)

-----------------------------------------------------------------------------
(* POST /extract and /continue-extraction: which source, then the reading. *)

\* resolve_extraction_source: the addressed row's path, or the project's column.
Source(address) == IF address = Nothing THEN Uploaded ELSE docs[address].path

Goto(t, label) == task' = [task EXCEPT ![t].pc = label]
Leave(t) == task' = [task EXCEPT ![t] = NoTask]

\* plan_first_window: a request that names no document must not be a choice.
Extract(t, address) ==
    /\ task[t].pc = "idle"
    /\ Len(readings) < MaxReadings
    /\ address = Nothing => Len(docs) <= 1 /\ object[Uploaded] # Nothing
    /\ task' = [task EXCEPT ![t] = [NoTask EXCEPT !.pc = "register",
                                                  !.path = Source(address)]]
    /\ UNCHANGED <<object, docs, readings, project, upload, choice, faults>>

\* The bytes downloaded from the path are registered under it, by content.
Bytes(t) == object[task[t].path]

Registered(t, d) == task' = [task EXCEPT ![t].pc = "open", ![t].document = d]

FindDocument(t) ==
    /\ task[t].pc \in {"register", "reread"}
    /\ \E d \in RowsOf(Bytes(t)) : Registered(t, d)
    /\ UNCHANGED <<object, docs, readings, project, upload, choice, faults>>

MissDocument(t) ==
    /\ task[t].pc = "register"
    /\ RowsOf(Bytes(t)) = {}
    /\ Goto(t, "insert")
    /\ UNCHANGED <<object, docs, readings, project, upload, choice, faults>>

InsertDocument(t) ==
    /\ task[t].pc = "insert"
    /\ Inserted(Bytes(t), task[t].path)
    /\ Registered(t, Len(docs) + 1)
    /\ UNCHANGED <<object, readings, project, upload, choice, faults>>

InsertDocumentRaises(t) ==
    /\ task[t].pc = "insert"
    /\ InsertionRaised(Bytes(t), task[t].path)
    /\ Goto(t, "reread")
    /\ UNCHANGED <<object, readings, project, upload, choice>>

ReadingOf(t, runs) ==
    [document |-> task[t].document, path |-> task[t].path, content |-> Bytes(t),
     runs |-> runs, counted |-> Nothing, captured |-> FALSE, rows |-> 0]

\* The drawing set, the drawing and the run that will hold the pages are created.
OpenReading(t) ==
    /\ task[t].pc = "open"
    /\ readings' = Append(readings, ReadingOf(t, <<"running">>))
    /\ task' = [task EXCEPT ![t].pc = "read", ![t].reading = Len(readings) + 1,
                            ![t].analysed = 1]
    /\ UNCHANGED <<object, docs, project, upload, choice, faults>>

\* The window is read: its captures and its rows are persisted.
ReadWindow(t) ==
    /\ task[t].pc = "read"
    /\ readings' = [readings EXCEPT ![task[t].reading].captured = TRUE,
                                    ![task[t].reading].rows = @ + 1]
    /\ Goto(t, IF task[t].kind = "extract" THEN "summary" ELSE "count")
    /\ UNCHANGED <<object, docs, project, upload, choice, faults>>

Total(counts) == LET sum[l \in 0..Len(counts)] ==
                         IF l = 0 THEN 0 ELSE sum[l - 1] + counts[l]
                 IN  sum[Len(counts)]

RowsIn(ls) == Total([l \in DOMAIN readings |-> IF l \in ls THEN readings[l].rows ELSE 0])

\* The run's own summary: of its own rows when it is the document's first.
WriteSummary(t) ==
    /\ task[t].pc = "summary"
    /\ \E status \in {"review", "done"} :
         /\ status = "done" => task[t].analysed = Windows
         /\ project' = [status |-> status, record |-> task[t].analysed,
                        total |-> RowsIn(IF task[t].kind = "extract"
                                         THEN {task[t].reading} ELSE DOMAIN readings)]
    /\ Goto(t, "reconcile")
    /\ UNCHANGED <<object, docs, readings, upload, choice, faults>>

ReadingsOf(d) == {l \in DOMAIN readings : readings[l].document = d}

RunStatuses == {"none", "running", "completed", "failed"}

Latest(l) ==
    IF readings[l].runs = <<>> THEN "none" ELSE readings[l].runs[Len(readings[l].runs)]

\* document_extraction_states: of a document that several readings are of, the one
\* iterated last is taken, and the readings come in no order.
RunStates(d) ==
    IF ReadingsOf(d) = {} THEN {"none"} ELSE {Latest(l) : l \in ReadingsOf(d)}

StatesRead(t, total) ==
    \E state \in [DOMAIN docs -> RunStatuses] :
        /\ \A d \in DOMAIN docs : state[d] \in RunStates(d)
        /\ task' = [task EXCEPT ![t].pc = "reconciled", ![t].total = total,
                                ![t].states = {state[d] : d \in DOMAIN docs}]

AfterReconciling(t) == IF task[t].kind = "extract" THEN "close" ELSE "report"

\* Mutant: the total is the task's own reading's.
ReconcileReadOwn(t) ==
    /\ task[t].pc = "reconcile"
    /\ \/ Len(docs) < 2 /\ Goto(t, AfterReconciling(t))
       \/ Len(docs) >= 2 /\ StatesRead(t, RowsIn({task[t].reading}))
    /\ UNCHANGED <<object, docs, readings, project, upload, choice, faults>>

\* reconcile_project_summary reads the states and the rows, then writes.
ReconcileRead(t) ==
    /\ task[t].pc = "reconcile"
    /\ \/ Len(docs) < 2 /\ Goto(t, AfterReconciling(t))
       \/ Len(docs) >= 2 /\ StatesRead(t, RowsIn(DOMAIN readings))
    /\ UNCHANGED <<object, docs, readings, project, upload, choice, faults>>

StatusOf(states) ==
    IF states \intersect {"none", "running"} # {} THEN "processing"
    ELSE IF "failed" \in states THEN "failed"
    ELSE "review"   \* derive_project_status without a coverage record

ReconcileWrite(t) ==
    /\ task[t].pc = "reconciled"
    /\ project' = [project EXCEPT !.status = StatusOf(task[t].states),
                                  !.total = task[t].total]
    /\ task' = [task EXCEPT ![t].pc = AfterReconciling(t),
                            ![t].states = {}, ![t].total = 0]
    /\ UNCHANGED <<object, docs, readings, upload, choice, faults>>

RunMarked(t, status) ==
    readings' = [readings EXCEPT ![task[t].reading].runs[task[t].run] = status]
Counted(t) == readings' = [readings EXCEPT ![task[t].reading].counted = task[t].analysed]

\* A first window completes its run and then states the drawing set's counters;
\* a continuation states the counters first.
Close(t) ==
    /\ task[t].pc = "close"
    /\ RunMarked(t, "completed")
    /\ Goto(t, IF task[t].kind = "extract" THEN "count" ELSE "summary")
    /\ UNCHANGED <<object, docs, project, upload, choice, faults>>

Count(t) ==
    /\ task[t].pc = "count"
    /\ Counted(t)
    /\ Goto(t, IF task[t].kind = "extract" THEN "report" ELSE "close")
    /\ UNCHANGED <<object, docs, project, upload, choice, faults>>

Report(t) ==
    /\ task[t].pc = "report"
    /\ Leave(t)
    /\ UNCHANGED <<object, docs, readings, project, upload, choice, faults>>

\* What a first extraction leaves of its reading when a call raises: perhaps a
\* drawing with or without its run, or, while the pages are read, the run failed.
LeftReading(t) ==
    \/ UNCHANGED readings /\ task[t].pc \notin {"read", "summary", "reconcile", "reconciled"}
    \/ /\ task[t].pc = "open"
       /\ \E runs \in {<<>>, <<"running">>} :
            readings' = Append(readings, ReadingOf(t, runs))
    \/ task[t].pc \in {"read", "summary", "reconcile", "reconciled"} /\ RunMarked(t, "failed")

\* A first extraction raises, an insertion apart, and run_extraction answers.
ExtractionRaises(t) ==
    /\ task[t].kind = "extract"
    /\ task[t].pc \notin {"idle", "insert", "failing"}
    /\ \/ Fault
       \/ task[t].pc = "reread" /\ RowsOf(Bytes(t)) = {} /\ UNCHANGED faults
    /\ LeftReading(t)
    /\ Goto(t, "failing")
    /\ UNCHANGED <<object, docs, project, upload, choice>>

MarkFailed(t) ==
    /\ task[t].pc = "failing"
    /\ project' = [project EXCEPT !.status = "failed"]
    /\ Leave(t)
    /\ UNCHANGED <<object, docs, readings, upload, choice, faults>>

\* _source_lineage and plan_continuation: the one reading the request adds to.
Continuable(l, address) ==
    /\ address = Nothing => Len(readings) = 1 /\ readings[l].path = Uploaded
    /\ address # Nothing => /\ ReadingsOf(address) = {l}
                            /\ readings[l].path = docs[address].path
    /\ project.record # 0
    /\ project.record < Windows
    /\ readings[l].counted = project.record

Continue(t, address, l) ==
    /\ task[t].pc = "idle"
    /\ Continuable(l, address)
    /\ readings' = [readings EXCEPT ![l].runs = Append(@, "running")]
    /\ task' = [task EXCEPT ![t] = [NoTask EXCEPT
         !.pc = "read", !.kind = "continue", !.path = readings[l].path, !.reading = l,
         !.run = Len(readings[l].runs) + 1, !.analysed = project.record + 1]]
    /\ UNCHANGED <<object, docs, project, upload, choice, faults>>

\* A continuation that raises marks nothing: its run stays as it stands.
ContinuationRaises(t) ==
    /\ task[t].kind = "continue"
    /\ task[t].pc # "idle"
    /\ Fault
    /\ Leave(t)
    /\ UNCHANGED <<object, docs, readings, project, upload, choice>>

TaskStep(t) ==
    \/ FindDocument(t) \/ MissDocument(t) \/ InsertDocument(t) \/ InsertDocumentRaises(t)
    \/ OpenReading(t) \/ ReadWindow(t)
    \/ WriteSummary(t) \/ ReconcileRead(t) \/ ReconcileWrite(t)
    \/ Close(t) \/ Count(t) \/ Report(t) \/ ExtractionRaises(t) \/ MarkFailed(t) \/ ContinuationRaises(t)

-----------------------------------------------------------------------------
(* Reviewer's requests about a document: its role and its selected reading. *)

WithRole == {d \in DOMAIN docs : docs[d].role # UnknownRole}
WithSelection == {d \in DOMAIN docs : docs[d].selected # Nothing}
MayReview(roles, selections) ==
    Cardinality(roles) + Cardinality(selections) <= MaxReviewed

Role(d, role) == [docs EXCEPT ![d].role = role]
Selected(d, l) == [docs EXCEPT ![d].selected = l]

AssertRole(d, role) ==
    /\ MayReview(WithRole \union {d}, WithSelection)
    /\ docs[d].role # role
    /\ docs' = Role(d, role)
    /\ UNCHANGED <<object, readings, project, upload, task, choice, faults>>

\* Mutant: any reading of the project is taken.
CheckSelectionOfAny(d, l) ==
    /\ MayReview(WithRole, WithSelection \union {d})
    /\ choice = Nothing
    /\ docs[d].selected # l
    /\ readings[l].captured
    /\ choice' = [document |-> d, reading |-> l]
    /\ UNCHANGED <<object, docs, readings, project, upload, task, faults>>

\* select_document_lineage checks that the drawing is the document's own and was
\* read; the selection is written by a later call.
CheckSelection(d, l) ==
    /\ MayReview(WithRole, WithSelection \union {d})
    /\ choice = Nothing
    /\ docs[d].selected # l
    /\ readings[l].document = d
    /\ readings[l].captured
    /\ choice' = [document |-> d, reading |-> l]
    /\ UNCHANGED <<object, docs, readings, project, upload, task, faults>>

WriteSelection ==
    /\ choice # Nothing
    /\ docs' = Selected(choice.document, choice.reading)
    /\ choice' = Nothing
    /\ UNCHANGED <<object, readings, project, upload, task, faults>>

-----------------------------------------------------------------------------
FileLists == UNION {[1..n -> File \union {Unusable}] : n \in 1..MaxFiles}

Send == \E r \in Requests, files \in FileLists : SendFiles(r, files)
Start == \E t \in Tasks :
            \/ \E address \in DOMAIN docs \union {Nothing} : Extract(t, address)
            \/ \E address \in DOMAIN docs \union {Nothing}, l \in DOMAIN readings :
                 Continue(t, address, l)
Review == \/ \E d \in DOMAIN docs, role \in Roles : AssertRole(d, role)
          \/ \E d \in DOMAIN docs, l \in DOMAIN readings : CheckSelection(d, l)
          \/ WriteSelection

Next ==
    \/ Send
    \/ \E r \in Requests : UploadStep(r)
    \/ Start
    \/ \E t \in Tasks : TaskStep(t)
    \/ Review

Spec == Init /\ [][Next]_vars

-----------------------------------------------------------------------------
(* Every variable holds a value of its kind.                               *)
TypeOK ==
    /\ object \in [Names -> Contents \union {Nothing}]
    /\ \A d \in DOMAIN docs :
         docs[d] \in [content : Contents, path : Names, role : Roles \union {UnknownRole},
                     selected : DOMAIN readings \union {Nothing}]
    /\ \A l \in DOMAIN readings : readings[l].document \in DOMAIN docs
    /\ project.status \in {"processing", "review", "done", "failed"}
    /\ \A r \in Requests : \A i \in DOMAIN upload[r].outcomes :
         upload[r].outcomes[i] \in Outcome
    /\ faults \in 0..MaxFaults

(* The bytes at a document's path are the bytes it was registered for, and *)
(* a reading was taken from the bytes of the document it is filed under,   *)
(* whatever uploads and extractions overlap: the path is never overwritten *)
(* and a reading's document is found by content, not by name.              *)
SourceIsWhatItClaims ==
    /\ \A d \in DOMAIN docs : object[docs[d].path] = docs[d].content
    /\ \A l \in DOMAIN readings : docs[readings[l].document].content = readings[l].content

(* The document an upload's outcome names holds exactly the bytes sent, in *)
(* every race between two uploads of the same bytes or the same name.      *)
OutcomeNamesItsBytes ==
    \A r \in Requests : \A i \in DOMAIN upload[r].outcomes :
        LET o == upload[r].outcomes[i] IN
        o.document # Nothing => /\ o.document \in DOMAIN docs
                                /\ docs[o.document].content = o.content

(* The reading a document is reviewed from is one of its own, and was read *)
(* from its bytes, although it was checked in one call and written in a    *)
(* later one.                                                              *)
SelectionIsOwnReading ==
    \A d \in DOMAIN docs :
        docs[d].selected # Nothing =>
            /\ readings[docs[d].selected].document = d
            /\ readings[docs[d].selected].captured
            /\ readings[docs[d].selected].content = docs[d].content

(* What a reviewer asserted about a document is not undone by uploading    *)
(* its bytes again or by extracting it: only another assertion changes a   *)
(* role, and only another selection a selected reading.                    *)
RowsKeepWhatWasAsserted ==
    [][\A d \in DOMAIN docs :
        /\ docs'[d].content = docs[d].content /\ docs'[d].path = docs[d].path
        /\ docs'[d].role # docs[d].role => docs'[d].role \in Roles
        /\ docs[d].selected # Nothing => docs'[d].selected # Nothing]_vars

(* The boundary keeps the promises of the abstract source registry: of two *)
(* requests that both looked the same bytes up in vain, one inserts the    *)
(* row and the other is given it.                                          *)
Registry == INSTANCE SourceRegistry
    WITH Paths <- Names, held <- object,
         registered <- [d \in DOMAIN docs |-> [content |-> docs[d].content,
                                                path |-> docs[d].path]]
ImplementsSourceRegistry == Registry!Spec

(* After two documents were read with no call failing, one task at a time, *)
(* the project row counts the rows of every reading and does not say       *)
(* "done", whichever document was read last and in whatever order (the     *)
(* purpose pipeline.py:2046 states).                                       *)
AtRest == \A t \in Tasks : task[t].pc = "idle"
SummaryDescribesTheSet ==
    /\ faults = 0
    /\ AtRest
    /\ Cardinality({readings[l].document : l \in DOMAIN readings}) > 1
    => /\ project.total = RowsIn(DOMAIN readings)
       /\ project.status # "done"

(* A project of several documents that have all been read, and on which    *)
(* nothing runs, is not left "processing": pipeline.py:2061 says such a    *)
(* project "can reach review".                                             *)
AllRead == \A d \in DOMAIN docs : RunStates(d) = {"completed"}
ReadProjectIsNotProcessing ==
    Len(docs) > 1 /\ AtRest /\ AllRead => project.status # "processing"
=============================================================================
