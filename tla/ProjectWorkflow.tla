--------------------------- MODULE ProjectWorkflow ---------------------------
(***************************************************************************)
(* A bound review session from its first answer to the fabricator's        *)
(* package.  The workflow is one immutable value: a submission reads the   *)
(* bound one, resolves one connection (rerun, gate, drawing, verification) *)
(* and binds the next.  Submissions run on the event loop, a refresh on a  *)
(* thread of the pool.  The acceptance judges a workflow value and the     *)
(* package is built later from that judgement and the files then on disk.  *)
(***************************************************************************)
EXTENDS ConnectionReview

CONSTANTS
    Count,          \* connections of the project, by submission index
    Readings,       \* connection -> what the model may read off its drawing
    RightAnswers,   \* connection -> question -> what is true of the steel
    OtherAnswers,   \* connection -> question -> other answers, Nothing for none
    Ids,            \* connection identities, which name the drawing files
    Garbled,        \* a file that is not the drawing it should be
    MaxFaults       \* bound: bad drawings, failed writes, damages, refreshes, redraws

Packages == 1 .. Count

ASSUME CountAssumption == Count \in Nat \ {0}
ASSUME MaxFaultsAssumption == MaxFaults \in Nat
ASSUME NothingAssumption == Nothing \notin Ids \union {Garbled}

\* Rows, plates and locations hold numbers, or nothing where nothing was given.
ASSUME RowsAssumption ==
    \A m \in DOMAIN Members : Members[m].z \in Int /\ Members[m].length \in Int

Number(v) == v = Nothing \/ v \in Int

ASSUME ReadingsAssumption ==
    \A p \in Packages : \A raw \in Readings[p] :
       raw.plates # Misshapen => \A i \in 1 .. Len(raw.plates) : Number(raw.plates[i].thickness)

ASSUME AnswersAssumption ==
    \A p \in Packages :
       /\ \A plate \in {RightAnswers[p]["plate"]} \union OtherAnswers[p]["plate"] :
             plate # Nothing => Number(plate.thickness)
       /\ \A place \in {RightAnswers[p]["location"]} \union OtherAnswers[p]["location"] :
             place # Nothing => Number(place.z)

\* The right answers describe a connection that can be built, and answering
\* the members together or one by one says the same.
RightSpecification(p) ==
    [f \in Required |-> IF f \in AskedBeforeConfirming THEN RightAnswers[p]["TOGETHER"][f]
                        ELSE RightAnswers[p][f]]

ASSUME RightAnswersAssumption ==
    \A p \in Packages :
       LET right == RightAnswers[p]
           spec == RightSpecification(p)
       IN  /\ \A t \in {"REVIEW_STATUS", "SPECIFICATION", "VALIDATION", "TOGETHER", "IDENTITY",
                        "MATERIAL", "position", "attachments", "plate", "holes", "location"} :
                 right[t] # Nothing
           /\ DOMAIN right["TOGETHER"] = AskedBeforeConfirming
           /\ \A f \in {"position", "attachments"} : right[f] = spec[f]
           /\ spec.marks \subseteq Known
           /\ ConnectionParses(right["IDENTITY"], spec)
           /\ LocationParses(spec.location)
           /\ AttachmentsParse(spec.attachments, spec.marks)
           /\ Validates(spec)

\* No set of fields is taken for an answer that was not given.
ASSUME FieldsAssumption == \A set \in SUBSET Fields : set # Nothing

VARIABLES
    extraction,     \* connection -> the extraction made of the reading
    workflow,       \* the bound workflow: revision, records and decision
    refreshing,     \* the workflow a refresh has read and not yet bound
    disk,           \* identity -> content of its drawing file
    job,            \* the records of the last accepted job
    release,        \* the package directory: drawing copies and manifest
    faults          \* how many of these have happened

vars == <<extraction, workflow, refreshing, disk, job, release, faults>>

-----------------------------------------------------------------------------
(* The answers of a submission: the right ones, or one of them otherwise.   *)

\* A reading is confirmed when it is right; a confirmation names some field.
RightConfirmation(p, e) ==
    LET truth(f) == IF f \in DOMAIN RightAnswers[p]["TOGETHER"]
                    THEN RightAnswers[p]["TOGETHER"][f] ELSE RightAnswers[p][TaskOf(f)]
        pending == {f \in Fields : Pending(e, NoReview, f)}
        right == {f \in pending : AiValue(e, f) = truth(f)}
    IN  IF right # {} THEN right ELSE pending

RightAnswer(p, e, t) ==
    IF t = "PROVENANCE" THEN RightConfirmation(p, e) ELSE RightAnswers[p][t]

RightForm(p, e) == [t \in Questions(e) |-> RightAnswer(p, e, t)]

Forms(p, e) ==
    LET form == RightForm(p, e)
    IN  {form} \union UNION {{[form EXCEPT ![t] = answer] : answer \in OtherAnswers[p][t]} :
                                 t \in DOMAIN form}

-----------------------------------------------------------------------------
(* What the rerun, the pipeline, the gates and the traceability check make  *)
(* of a form.  All of it depends on the reading and the answers alone.      *)

\* A material that no person owns stays off the drawing.
Drawing(e, s) ==
    [id |-> s.id,
     values |-> [f \in Fields |-> IF f = "material" /\ ~HumanOwned(e, s, f)
                                  THEN Nothing ELSE Value(e, s, f)]]

\* A confirmation that names no field of the supplement is not stored.
Review(e, form) ==
    LET s == ResolvedSupplement(form)
    IN  [id |-> s.id,
         storable |-> /\ \E t \in DOMAIN form : form[t] # Nothing
                      /\ \A t \in DOMAIN form : form[t] # Nothing => Payload(t, form[t])
                      /\ s.confirmed \subseteq Fields,
         decision |-> OutputDecision(Evaluation(e, s)),
         drawing |-> Drawing(e, s),
         traced |-> Applied(form) = DOMAIN form /\ Traceable(e, form)]

Extractions == [p \in Packages |-> {ExtractionOf(raw) : raw \in Readings[p]}]

\* What may have been read off the drawing of every connection.
Drawn ==
    {e \in [Packages -> UNION {Extractions[p] : p \in Packages}] :
        \A p \in Packages : e[p] \in Extractions[p]}

\* Taken out of a set, whose elements TLC evaluates once.
Reviews ==
    CHOOSE reviews \in {[p \in Packages |->
        [e \in Extractions[p] |-> [form \in Forms(p, e) |-> Review(e, form)]]]} : TRUE

-----------------------------------------------------------------------------
(* The workflow value, made anew by every stage. *)

\* The decision a connection starts with.
Initial == [p \in Packages |-> [e \in Extractions[p] |-> Unreviewed(e).decision]]

\* The project goes out when every connection does; a connection without a
\* record still has the decision it started with.
ProjectDecision(e, records) ==
    IF \A p \in Packages :
          IF records[p] = Nothing THEN Initial[p][e[p]] = "AUTO"
          ELSE records[p].output # "BLOCKED_REVIEW"
    THEN "AUTO" ELSE "REVIEW"

Assemble(revision, records) ==
    [revision |-> revision, records |-> records,
     decision |-> ProjectDecision(extraction, records)]

-----------------------------------------------------------------------------
Init ==
    /\ extraction \in Drawn
    /\ workflow = Assemble(0, [p \in Packages |-> Nothing])
    /\ refreshing = Nothing
    /\ disk = [i \in Ids |-> Nothing]
    /\ job = Nothing
    /\ release = [drawings |-> [p \in Packages |-> Nothing], manifest |-> Nothing]
    /\ faults = 0

Answered(p) == Reviews[p][extraction[p]]

Fault == faults < MaxFaults /\ faults' = faults + 1

\* A connection is resolved once, by a submission that answers something.
Submittable(p, form) ==
    /\ workflow.records[p] = Nothing
    /\ Answered(p)[form].storable

Bind(p, record) ==
    workflow' = Assemble(workflow.revision + 1, [workflow.records EXCEPT ![p] = record])

Processed(form, output, verification, drawing) ==
    [form |-> form, output |-> output, verification |-> verification, drawing |-> drawing]

SubmitBlocked(p, form) ==
    /\ Submittable(p, form)
    /\ Answered(p)[form].decision = "REVIEW"
    /\ Bind(p, Processed(form, "BLOCKED_REVIEW", "NO_ARTIFACT", Nothing))
    /\ UNCHANGED <<extraction, refreshing, disk, job, release, faults>>

\* A bad drawing is no drawing at all or one that leaves the members out.
BadDrawings(due) == {Garbled, [due EXCEPT !.values["marks"] = {}]}

Opens(file) == file \notin {Nothing, Garbled}

ShowsAssembly(file, due) ==
    /\ file.id = due.id
    /\ file.values["marks"] = due.values["marks"]
    /\ file.values["holes"].diameter = due.values["holes"].diameter

\* The file is read back and compared with the assembly it should show.
Verification(file, due) ==
    IF Opens(file) /\ ShowsAssembly(file, due) THEN "VERIFIED" ELSE "FAILED"

SubmitDrawn(p, form) ==
    LET due == Answered(p)[form].drawing
    IN  /\ Submittable(p, form)
        /\ Answered(p)[form].decision = "AUTO"
        /\ \E file \in {due} \union BadDrawings(due) :
              /\ IF file = due THEN UNCHANGED faults ELSE Fault
              /\ disk' = [disk EXCEPT ![due.id] = file]
              /\ Bind(p, Processed(form, "GENERATED", Verification(file, due), file))
        /\ UNCHANGED <<extraction, refreshing, job, release>>

\* The generator raises, before it has touched the file or after.
SubmitFailed(p, form) ==
    /\ Submittable(p, form)
    /\ Fault
    /\ Answered(p)[form].decision = "AUTO"
    /\ LET id == Answered(p)[form].id
       IN  \E left \in {disk[id], Garbled} : disk' = [disk EXCEPT ![id] = left]
    /\ Bind(p, Processed(form, "GENERATION_FAILED", "NO_ARTIFACT", Nothing))
    /\ UNCHANGED <<extraction, refreshing, job, release>>

ReadForRefresh ==
    /\ refreshing = Nothing
    /\ Fault
    /\ refreshing' = workflow
    /\ UNCHANGED <<extraction, workflow, disk, job, release>>

\* A refresh recounts and re-inspects, and binds the workflow it has read.
BindRefreshed ==
    /\ refreshing # Nothing
    /\ workflow' = Assemble(refreshing.revision, refreshing.records)
    /\ refreshing' = Nothing
    /\ UNCHANGED <<extraction, disk, job, release, faults>>

-----------------------------------------------------------------------------
(* The batch: answers for all connections are rerun, gated and drawn in one *)
(* go, into the same folder and without a workflow value.                   *)

BatchRerun(e, forms) == [p \in Packages |-> Reviews[p][e[p]][forms[p]]]

BatchReleased(reviews) == {p \in Packages : reviews[p].decision = "AUTO"}

\* Connections are drawn in their order: of one identity the last one stays.
BatchDrawings(reviews) ==
    LET drawn(i) == {p \in BatchReleased(reviews) : reviews[p].drawing.id = i}
    IN  [i \in Ids |-> IF drawn(i) = {} THEN Nothing
                      ELSE LET last == CHOOSE p \in drawn(i) : \A q \in drawn(i) : q <= p
                           IN  reviews[last].drawing]

\* One connection is answered in any way, the others rightly.
BatchForms(e) ==
    {[q \in Packages |-> IF q = p THEN form ELSE RightForm(q, e[q])] :
        p \in Packages, form \in UNION {DOMAIN Reviews[q][e[q]] : q \in Packages}}

\* A form that cannot be stored raises before anything is drawn.
BatchAnswerable(e, forms) ==
    \A p \in Packages : /\ forms[p] \in DOMAIN Reviews[p][e[p]]
                        /\ Reviews[p][e[p]][forms[p]].storable

Batches ==
    UNION {{[read |-> e, drawings |-> BatchDrawings(BatchRerun(e, forms))] :
               forms \in {f \in BatchForms(e) : BatchAnswerable(e, f)}} : e \in Drawn}

Batch ==
    /\ Fault
    /\ \E batch \in Batches :
          /\ batch.read = extraction
          /\ disk' = [i \in Ids |-> IF batch.drawings[i] = Nothing THEN disk[i]
                                    ELSE batch.drawings[i]]
    /\ UNCHANGED <<extraction, workflow, refreshing, job, release>>

-----------------------------------------------------------------------------
(* Acceptance of the job, and its package. *)

Unresolved(p) == workflow.records[p] = Nothing

\* The file is the one that was verified, byte for byte.
AsVerified(drawing) == disk[drawing.id] = drawing

\* Released, drawn and verified, and by the very answers that are recorded.
Accepted(p) ==
    LET record == workflow.records[p]
    IN  /\ ~Unresolved(p)
        /\ record.output = "GENERATED"
        /\ record.verification = "VERIFIED"
        /\ Answered(p)[record.form].traced
        /\ AsVerified(record.drawing)

Accept ==
    /\ \A p \in Packages : Accepted(p)
    /\ job' = workflow.records
    /\ UNCHANGED <<extraction, workflow, refreshing, disk, release, faults>>

PackageableAsAccepted ==        \* mutant: the files are not read again
    /\ job # Nothing
    /\ \A p, q \in Packages : p # q => job[p].drawing.id # job[q].drawing.id

Recorded(p) == job[p].output = "GENERATED" /\ job[p].verification = "VERIFIED"

Rehashed(p) == AsVerified(job[p].drawing)

\* The file opens and its text names the connection it was drawn for.
NamesItself(p) ==
    /\ Opens(job[p].drawing)
    /\ job[p].drawing.id = Answered(p)[job[p].form].id

\* It shows the rows of two members or more.
ShowsMembers(p) == Cardinality(job[p].drawing.values["marks"]) >= 2

\* Two drawings of one identity are not packaged.
OnePerIdentity == \A p, q \in Packages : p # q => job[p].drawing.id # job[q].drawing.id

\* The files are read again.
Packageable ==
    /\ job # Nothing
    /\ \A p \in Packages : Recorded(p) /\ Rehashed(p) /\ NamesItself(p) /\ ShowsMembers(p)
    /\ OnePerIdentity

\* What the manifest says of a drawing: its content and who decided what.
Audit(p) == job[p].form

Manifest == [p \in Packages |-> [drawing |-> job[p].drawing, audit |-> Audit(p)]]

Deliver ==
    /\ Packageable
    /\ release' = [drawings |-> [p \in Packages |-> job[p].drawing], manifest |-> Manifest]
    /\ UNCHANGED <<extraction, workflow, refreshing, disk, job, faults>>

\* A write raises: the copies written by this call are removed, the file
\* being written is left as it is.  The manifest is written last.
DeliverFails(q) ==
    /\ Packageable
    /\ Fault
    /\ LET removed == [p \in Packages |-> IF p < q THEN Nothing ELSE release.drawings[p]]
       IN  IF q \in Packages
           THEN \E left \in {release.drawings[q], Garbled} :
                   release' = [release EXCEPT !.drawings = [removed EXCEPT ![q] = left]]
           ELSE \E left \in {release.manifest, Garbled} :
                   release' = [drawings |-> removed, manifest |-> left]
    /\ UNCHANGED <<extraction, workflow, refreshing, disk, job>>

\* Somebody changes or deletes a drawing file.
Damage(i) ==
    /\ disk[i] # Nothing
    /\ Fault
    /\ \E left \in {Nothing, Garbled} : disk' = [disk EXCEPT ![i] = left]
    /\ UNCHANGED <<extraction, workflow, refreshing, job, release>>

Next ==
    \/ \E p \in Packages : \E form \in DOMAIN Answered(p) : SubmitBlocked(p, form)
    \/ \E p \in Packages : \E form \in DOMAIN Answered(p) : SubmitDrawn(p, form)
    \/ \E p \in Packages : \E form \in DOMAIN Answered(p) : SubmitFailed(p, form)
    \/ ReadForRefresh
    \/ BindRefreshed
    \/ Batch
    \/ Accept
    \/ Deliver
    \/ \E q \in 1 .. Count + 1 : DeliverFails(q)
    \/ \E i \in Ids : Damage(i)

Spec == Init /\ [][Next]_vars

-----------------------------------------------------------------------------
\* No number reaches a drawing that a person did not decide: each value it
\* shows was typed in by the reviewer or is a reading the reviewer confirmed
\* by name, and the review was approved (automation_gate, field by field).
DrawnValuesAreDecided ==
    \A p \in Packages :
       LET record == workflow.records[p]
           e == extraction[p]
       IN  record # Nothing /\ record.output # "BLOCKED_REVIEW" =>
              /\ record.form["REVIEW_STATUS"] # Nothing
              /\ \A f \in Fields :
                    LET shown == Answered(p)[record.form].drawing.values[f]
                    IN  \/ shown = Given(record.form, f)
                        \/ /\ f \in ConfirmedBy(record.form)
                           /\ shown = AiValue(e, f)

\* A drawing attaches each member at the end that lies nearer the plate, so a
\* reviewer who swaps the ends of a member short enough for both to align with
\* the plate is stopped (connection_interface_consistency).
Away(m, end, plate) == Distance(2 * FacePosition(m, end), plate.lo + plate.hi)

AttachedEndIsNearer ==
    \A p \in {q \in Packages : ~Unresolved(q) /\ workflow.records[q].output # "BLOCKED_REVIEW"} :
    \A spec \in {Answered(p)[workflow.records[p].form].drawing.values} :
    \A a \in spec.attachments : \A end \in Ends \ {a[2]} :
       Away(a[1], a[2], PlateAlong(spec)) <= Away(a[1], end, PlateAlong(spec))

\* A connection that was read without a contradiction, and whose questions
\* were all answered rightly, is drawn, and its verified drawing is accepted
\* as long as nobody changes the file: no question is missing for it and no
\* blocker is left that no question asks about (_review_tasks).
WellRead(p) ==
    LET e == extraction[p]
        truth == RightAnswers[p]
    IN  /\ e.malformed = {}
        /\ \A f \in {"plate", "material"} : Usable(e, f) => AiValue(e, f) = truth[TaskOf(f)]
        /\ Usable(e, "marks") => e.marks = truth["TOGETHER"].marks

RightAnswersRelease ==
    \A p \in Packages :
       LET record == workflow.records[p]
           right == \A t \in DOMAIN record.form :
                       record.form[t] = RightAnswer(p, extraction[p], t)
       IN  record # Nothing /\ WellRead(p) /\ right =>
              /\ record.output # "BLOCKED_REVIEW"
              /\ record.verification = "VERIFIED" /\ AsVerified(record.drawing) => Accepted(p)

\* Whatever happened to the files and to the session in between, a package
\* that is completed holds for every connection of the accepted job the very
\* drawing its reviewer's answers call for, each of its own identity, with no
\* question left open (fabrication_package re-reads and re-hashes).
ReleasedAsReviewed ==
    [][release'.manifest # release.manifest /\ release'.manifest # Garbled =>
         /\ \A p \in Packages :
               /\ release'.manifest[p] = [drawing |-> release'.drawings[p], audit |-> job[p].form]
               /\ release'.drawings[p] = Answered(p)[job[p].form].drawing
               /\ disk[release'.drawings[p].id] = release'.drawings[p]
               /\ \A t \in DOMAIN job[p].form : job[p].form[t] # Nothing
         /\ \A p, q \in Packages :
               release'.drawings[p].id = release'.drawings[q].id => p = q]_vars
=============================================================================
