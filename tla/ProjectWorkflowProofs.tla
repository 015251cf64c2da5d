------------------------ MODULE ProjectWorkflowProofs ------------------------
(***************************************************************************)
(* For every reading, every answer of a reviewer, any number of            *)
(* connections, refreshes, redraws, failed writes and damaged files: what  *)
(* a drawing shows was decided by a person, it attaches each member at the *)
(* end nearer the plate, and a completed package holds the drawings that   *)
(* the recorded answers call for.                                          *)
(***************************************************************************)
EXTENDS ProjectWorkflow, TLAPS

-----------------------------------------------------------------------------
(* What a form of a connection is reviewed as. *)

LEMMA ReviewsAre ==
    Reviews = [p \in Packages |->
                  [e \in Extractions[p] |-> [form \in Forms(p, e) |-> Review(e, form)]]]
<1> DEFINE all == [p \in Packages |->
                      [e \in Extractions[p] |-> [form \in Forms(p, e) |-> Review(e, form)]]]
<1>1. Reviews = CHOOSE reviews \in {all} : TRUE
  BY DEF Reviews
<1> HIDE DEF all
<1>2. Reviews \in {all}
  BY <1>1
<1>3. QED
  BY <1>2 DEF all

LEMMA AnsweredIs ==
    ASSUME extraction \in Drawn, NEW p \in Packages
    PROVE  /\ DOMAIN Answered(p) = Forms(p, extraction[p])
           /\ \A form \in DOMAIN Answered(p) : Answered(p)[form] = Review(extraction[p], form)
<1>1. extraction[p] \in Extractions[p]
  BY DEF Drawn
<1> HIDE DEF Extractions
<1>2. Answered(p) = [form \in Forms(p, extraction[p]) |-> Review(extraction[p], form)]
  BY <1>1, ReviewsAre DEF Answered
<1>3. QED
  BY <1>2

\* The parts of a review that the proofs name.
LEMMA ReviewParts ==
    ASSUME NEW e, NEW form
    PROVE  LET s == ResolvedSupplement(form)
           IN  /\ Review(e, form).id = s.id
               /\ Review(e, form).decision = OutputDecision(Evaluation(e, s))
               /\ Review(e, form).drawing = Drawing(e, s)
               /\ Review(e, form).traced = (Applied(form) = DOMAIN form /\ Traceable(e, form))
<1> DEFINE s == ResolvedSupplement(form)
           storable == /\ \E t \in DOMAIN form : form[t] # Nothing
                       /\ \A t \in DOMAIN form : form[t] # Nothing => Payload(t, form[t])
                       /\ s.confirmed \subseteq Fields
           decision == OutputDecision(Evaluation(e, s))
           drawing == Drawing(e, s)
           traced == Applied(form) = DOMAIN form /\ Traceable(e, form)
<1>1. Review(e, form) = [id |-> s.id, storable |-> storable, decision |-> decision,
                         drawing |-> drawing, traced |-> traced]
  BY DEF Review
<1> HIDE DEF storable, decision, drawing, traced, s
<1>2. /\ Review(e, form).id = s.id
      /\ Review(e, form).decision = decision
      /\ Review(e, form).drawing = drawing
      /\ Review(e, form).traced = traced
  BY <1>1
<1>3. QED
  BY <1>2 DEF decision, drawing, traced, s

\* A form that goes on to a drawing has no blocker left, and was validated.
LEMMA AutoIsClear ==
    ASSUME NEW e, NEW form, Review(e, form).decision = "AUTO"
    PROVE  LET s == ResolvedSupplement(form)
           IN  Blockers(e, s, TRUE) = {} /\ PipelineValidates(e, s)
<1> DEFINE s == ResolvedSupplement(form)
<1>1. OutputDecision(Evaluation(e, s)) = "AUTO"
  BY ReviewParts
<1>2. Evaluation(e, s).decision = "AUTO" /\ Evaluation(e, s).validated
  BY <1>1 DEF OutputDecision
<1> DEFINE v == PipelineValidates(e, s)
<1>3. Evaluation(e, s) = [id |-> s.id, validated |-> v, decision |-> Decision(e, s, v)]
  BY DEF Evaluation
<1> HIDE DEF v, s
<1>4. v /\ Decision(e, s, v) = "AUTO"
  <2>1. Evaluation(e, s).validated = v /\ Evaluation(e, s).decision = Decision(e, s, v)
    BY <1>3
  <2>2. QED
    BY <1>2, <2>1
<1>5. Blockers(e, s, v) = {}
  BY <1>4 DEF Decision
<1>6. Blockers(e, s, v) = Blockers(e, s, TRUE)
  BY <1>4 DEF Blockers
<1>7. QED
  BY <1>4, <1>5, <1>6 DEF v, s

\* It is approved, each required field was decided by a person, and no field
\* is both supplied and confirmed.
LEMMA AutoIsDecided ==
    ASSUME NEW e, NEW form, Review(e, form).decision = "AUTO"
    PROVE  LET s == ResolvedSupplement(form)
           IN  /\ s.approved
               /\ \A f \in Required : HumanOwned(e, s, f)
               /\ \A f \in Fields : ~ Ambiguous(s, f)
<1> DEFINE s == ResolvedSupplement(form)
<1> HIDE DEF s
<1>1. Blockers(e, s, TRUE) = {}
  BY AutoIsClear DEF s
<1>2. Complete(e, s)
  BY <1>1 DEF Blockers
<1>3. \A f \in Fields : ~ Ambiguous(s, f)
  BY <1>1 DEF Blockers
<1>4. Authorised(e, s)
  BY <1>2 DEF Complete
<1>5. QED
  BY <1>3, <1>4 DEF Authorised, s

\* Each value of its drawing was given by the form or confirmed by it.
LEMMA AutoShowsDecided ==
    ASSUME NEW e, NEW form, Review(e, form).decision = "AUTO", NEW f \in Fields
    PROVE  LET shown == Review(e, form).drawing.values[f]
           IN  \/ shown = Given(form, f)
               \/ f \in ConfirmedBy(form) /\ shown = AiValue(e, f)
<1> DEFINE s == ResolvedSupplement(form)
           shown == Review(e, form).drawing.values[f]
<1>1. shown = IF f = "material" /\ ~ HumanOwned(e, s, f) THEN Nothing ELSE Value(e, s, f)
  <2> HIDE DEF s
  <2> DEFINE on(g) == IF g = "material" /\ ~ HumanOwned(e, s, g) THEN Nothing ELSE Value(e, s, g)
  <2>1. Drawing(e, s).values = [g \in Fields |-> on(g)]
    BY DEF Drawing
  <2>2. Review(e, form).drawing = Drawing(e, s)
    BY ReviewParts DEF s
  <2> HIDE DEF on
  <2>3. shown = on(f)
    BY <2>1, <2>2
  <2>4. QED
    BY <2>3 DEF on
<1>2. /\ s.confirmed = ConfirmedBy(form)
      /\ s.supplied[f] = IF f \in AskedBeforeConfirming \cap ConfirmedBy(form)
                         THEN Nothing ELSE Given(form, f)
  BY DEF ResolvedSupplement
<1> HIDE DEF s
<1>3. /\ \A g \in Required : HumanOwned(e, s, g)
      /\ \A g \in Fields : ~ Ambiguous(s, g)
  BY AutoIsDecided DEF s
<1> HIDE DEF shown
<1>4. CASE HumanOwned(e, s, f)
  <2>1. shown = Value(e, s, f)
    BY <1>1, <1>4
  <2>2. CASE Supplied(s, f)
    BY <1>2, <2>1, <2>2 DEF Supplied, Value, shown
  <2>3. CASE Confirmed(e, s, f)
    BY <1>2, <2>1, <2>3 DEF Supplied, Confirmed, Value, shown
  <2>4. QED
    BY <1>4, <2>2, <2>3 DEF HumanOwned, shown
<1>5. CASE ~ HumanOwned(e, s, f)
  <2>1. f = "material" /\ shown = Nothing
    BY <1>1, <1>3, <1>5 DEF Fields
  <2>2. s.supplied[f] = Nothing
    BY <1>3, <1>5 DEF HumanOwned, Supplied, Ambiguous
  <2>3. s.supplied[f] = Given(form, f)
    BY <1>2, <2>1 DEF AskedBeforeConfirming
  <2>4. QED
    BY <2>1, <2>2, <2>3 DEF shown
<1>6. QED
  BY <1>4, <1>5

-----------------------------------------------------------------------------
(* What every record of the session stands for. *)

IsFunction(records) == records = [p \in Packages |-> records[p]]

\* A record is of a form of its connection, was gated as that form is, and
\* the drawing that was verified is the one the form calls for.
RecordSound(p, record) ==
    /\ record.form \in DOMAIN Answered(p)
    /\ (record.output = "BLOCKED_REVIEW") = (Answered(p)[record.form].decision # "AUTO")
    /\ record.verification = "VERIFIED" =>
          /\ record.output = "GENERATED"
          /\ record.drawing = Answered(p)[record.form].drawing

Sound(records) ==
    /\ IsFunction(records)
    /\ \A p \in Packages : records[p] # Nothing => RecordSound(p, records[p])

\* The accepted job holds a traced record of every connection.
JobSound ==
    /\ Sound(job)
    /\ \A p \in Packages : job[p] # Nothing /\ Answered(p)[job[p].form].traced

\* A refresh carries an older workflow back, so what it read is sound too.
WorkflowInv ==
    /\ extraction \in Drawn
    /\ Sound(workflow.records)
    /\ refreshing # Nothing => Sound(refreshing.records)
    /\ job # Nothing => JobSound
    /\ release = [drawings |-> release.drawings, manifest |-> release.manifest]

\* A file that shows the assembly it was drawn for is the drawing itself.
LEMMA VerifiedIsDue ==
    ASSUME extraction \in Drawn, NEW p \in Packages, NEW form \in DOMAIN Answered(p),
           NEW file,
           file \in {Answered(p)[form].drawing} \union BadDrawings(Answered(p)[form].drawing),
           Verification(file, Answered(p)[form].drawing) = "VERIFIED"
    PROVE  file = Answered(p)[form].drawing
<1> DEFINE s == ResolvedSupplement(form)
           e == extraction[p]
           on(f) == IF f = "material" /\ ~ HumanOwned(e, s, f) THEN Nothing ELSE Value(e, s, f)
           values == [f \in Fields |-> on(f)]
           due == Answered(p)[form].drawing
<1>1. due = [id |-> s.id, values |-> values]
  <2>1. Answered(p)[form] = Review(e, form)
    BY AnsweredIs
  <2>2. QED
    BY <2>1, ReviewParts DEF Drawing
<1>2. "marks" \in Fields
  BY DEF Fields, Required
<1> DEFINE id == s.id
<1> HIDE DEF s, on, e, id
<1>3. /\ due.values = values
      /\ due = [id |-> id, values |-> values]
  BY <1>1 DEF id
<1> HIDE DEF due
<1>4. file # Garbled /\ (file.values["marks"] = due.values["marks"])
  BY DEF Verification, Opens, ShowsAssembly, due
<1>5. CASE file = [due EXCEPT !.values["marks"] = {}]
  <2>1. file = [id |-> id, values |-> [values EXCEPT !["marks"] = {}]]
    BY <1>3, <1>5
  <2>2. file.values["marks"] = {}
    BY <1>2, <2>1
  <2>3. values["marks"] = {}
    BY <1>3, <1>4, <2>2
  <2>4. [values EXCEPT !["marks"] = {}] = values
    BY <1>2, <2>3
  <2>5. QED
    BY <1>3, <2>1, <2>4 DEF due
<1>6. QED
  BY <1>4, <1>5 DEF BadDrawings, due

\* Binding a sound record leaves the records sound.
LEMMA BindKeepsSound ==
    ASSUME WorkflowInv, NEW p \in Packages, NEW record, RecordSound(p, record),
           Bind(p, record), UNCHANGED <<extraction, refreshing, job>>,
           release' = [drawings |-> release'.drawings, manifest |-> release'.manifest]
    PROVE  WorkflowInv'
<1>1. workflow'.records = [workflow.records EXCEPT ![p] = record]
  BY DEF Bind, Assemble
<1>2. \A q \in Packages : Answered(q)' = Answered(q)
  BY DEF Answered
<1>3. Sound(workflow.records)
  BY DEF WorkflowInv
<1>4. Sound(workflow'.records)
  BY <1>1, <1>3 DEF Sound, IsFunction, RecordSound
<1>5. Sound(workflow.records)'
  BY <1>2, <1>4 DEF Sound, IsFunction, RecordSound
<1>6. refreshing' # Nothing => Sound(refreshing.records)'
  BY <1>2 DEF WorkflowInv, Sound, IsFunction, RecordSound
<1>7. job' # Nothing => JobSound'
  BY <1>2 DEF WorkflowInv, JobSound, Sound, IsFunction, RecordSound
<1>8. QED
  BY <1>5, <1>6, <1>7 DEF WorkflowInv

\* What a step that binds no record leaves sound.
LEMMA RestKeepsSound ==
    ASSUME WorkflowInv, extraction' = extraction,
           workflow'.records = workflow.records \/ Sound(workflow'.records),
           refreshing' = Nothing \/ refreshing' = refreshing \/ refreshing' = workflow,
           job' = job \/ (job' = workflow.records /\ \A p \in Packages : Accepted(p)),
           release' = [drawings |-> release'.drawings, manifest |-> release'.manifest]
    PROVE  WorkflowInv'
<1>1. \A q \in Packages : Answered(q)' = Answered(q)
  BY DEF Answered
<1>2. Sound(workflow'.records)
  BY DEF WorkflowInv
<1>3. Sound(workflow.records)'
  BY <1>1, <1>2 DEF Sound, IsFunction, RecordSound
<1>4. ASSUME refreshing' # Nothing
      PROVE  Sound(refreshing.records)'
  <2>1. Sound(refreshing'.records)
    BY <1>4 DEF WorkflowInv
  <2>2. QED
    BY <1>1, <2>1 DEF Sound, IsFunction, RecordSound
<1>5. ASSUME job' # Nothing
      PROVE  JobSound'
  <2>1. CASE job' = job
    BY <1>1, <1>5, <2>1 DEF WorkflowInv, JobSound, Sound, IsFunction, RecordSound
  <2>2. CASE job' = workflow.records /\ \A p \in Packages : Accepted(p)
    <3>1. Sound(job')
      BY <2>2 DEF WorkflowInv
    <3>2. \A p \in Packages : job'[p] # Nothing /\ Answered(p)[job'[p].form].traced
      BY <2>2 DEF Accepted, Unresolved
    <3>3. QED
      BY <1>1, <3>1, <3>2 DEF JobSound, Sound, IsFunction, RecordSound
  <2>3. QED
    BY <2>1, <2>2
<1>6. QED
  BY <1>3, <1>4, <1>5 DEF WorkflowInv

LEMMA InitSound == Init => WorkflowInv
<1> SUFFICES ASSUME Init PROVE WorkflowInv
  OBVIOUS
<1>1. workflow.records = [p \in Packages |-> Nothing]
  BY DEF Init, Assemble
<1>2. Sound(workflow.records)
  BY <1>1 DEF Sound, IsFunction
<1>3. release = [drawings |-> release.drawings, manifest |-> release.manifest]
  BY DEF Init
<1>4. QED
  BY <1>2, <1>3 DEF Init, WorkflowInv

LEMMA SubmitBlockedSound ==
    ASSUME WorkflowInv, NEW p \in Packages, NEW form \in DOMAIN Answered(p),
           SubmitBlocked(p, form)
    PROVE  WorkflowInv'
<1> DEFINE record == Processed(form, "BLOCKED_REVIEW", "NO_ARTIFACT", Nothing)
<1>1. RecordSound(p, record)
  BY DEF SubmitBlocked, Processed, RecordSound
<1>2. QED
  BY <1>1, BindKeepsSound DEF SubmitBlocked, WorkflowInv

LEMMA SubmitDrawnSound ==
    ASSUME WorkflowInv, NEW p \in Packages, NEW form \in DOMAIN Answered(p),
           SubmitDrawn(p, form)
    PROVE  WorkflowInv'
<1> DEFINE due == Answered(p)[form].drawing
           record(file) == Processed(form, "GENERATED", Verification(file, due), file)
<1>1. PICK file \in {due} \union BadDrawings(due) : Bind(p, record(file))
  BY DEF SubmitDrawn
<1>2. Verification(file, due) = "VERIFIED" => file = due
  BY VerifiedIsDue DEF WorkflowInv
<1>3. RecordSound(p, record(file))
  BY <1>2 DEF SubmitDrawn, Processed, RecordSound
<1>4. QED
  BY <1>1, <1>3, BindKeepsSound DEF SubmitDrawn, WorkflowInv

LEMMA SubmitFailedSound ==
    ASSUME WorkflowInv, NEW p \in Packages, NEW form \in DOMAIN Answered(p),
           SubmitFailed(p, form)
    PROVE  WorkflowInv'
<1> DEFINE record == Processed(form, "GENERATION_FAILED", "NO_ARTIFACT", Nothing)
<1>1. RecordSound(p, record)
  BY DEF SubmitFailed, Processed, RecordSound
<1>2. QED
  BY <1>1, BindKeepsSound DEF SubmitFailed, WorkflowInv

LEMMA DeliverFailsSound ==
    ASSUME WorkflowInv, NEW q \in 1 .. Count + 1, DeliverFails(q)
    PROVE  /\ WorkflowInv'
           /\ release'.manifest \in {release.manifest, Garbled}
<1>1. release = [drawings |-> release.drawings, manifest |-> release.manifest]
  BY DEF WorkflowInv
<1> DEFINE removed == [p \in Packages |-> IF p < q THEN Nothing ELSE release.drawings[p]]
<1> HIDE DEF removed
<1>2. /\ release' = [drawings |-> release'.drawings, manifest |-> release'.manifest]
      /\ release'.manifest \in {release.manifest, Garbled}
  <2>1. CASE q \in Packages
    <3>1. PICK left : release' = [release EXCEPT !.drawings = [removed EXCEPT ![q] = left]]
      BY <2>1 DEF DeliverFails, removed
    <3>2. QED
      BY <1>1, <3>1
  <2>2. CASE q \notin Packages
    <3>1. PICK left \in {release.manifest, Garbled} :
             release' = [drawings |-> removed, manifest |-> left]
      BY <2>2 DEF DeliverFails, removed
    <3>2. QED
      BY <3>1
  <2>3. QED
    BY <2>1, <2>2
<1>3. WorkflowInv'
  BY <1>2, RestKeepsSound DEF DeliverFails
<1>4. QED
  BY <1>2, <1>3

LEMMA NextSound == WorkflowInv /\ [Next]_vars => WorkflowInv'
<1> SUFFICES ASSUME WorkflowInv, [Next]_vars PROVE WorkflowInv'
  OBVIOUS
<1>0. release = [drawings |-> release.drawings, manifest |-> release.manifest]
  BY DEF WorkflowInv
<1>1. CASE \E p \in Packages : \E form \in DOMAIN Answered(p) : SubmitBlocked(p, form)
  BY <1>1, SubmitBlockedSound
<1>2. CASE \E p \in Packages : \E form \in DOMAIN Answered(p) : SubmitDrawn(p, form)
  BY <1>2, SubmitDrawnSound
<1>3. CASE \E p \in Packages : \E form \in DOMAIN Answered(p) : SubmitFailed(p, form)
  BY <1>3, SubmitFailedSound
<1>4. CASE ReadForRefresh
  BY <1>0, <1>4, RestKeepsSound DEF ReadForRefresh
<1>5. CASE BindRefreshed
  <2>1. workflow'.records = refreshing.records
    BY <1>5 DEF BindRefreshed, Assemble
  <2>2. Sound(workflow'.records)
    BY <1>5, <2>1 DEF BindRefreshed, WorkflowInv
  <2>3. QED
    BY <1>0, <1>5, <2>2, RestKeepsSound DEF BindRefreshed
<1>6. CASE Batch
  BY <1>0, <1>6, RestKeepsSound DEF Batch
<1>7. CASE Accept
  BY <1>0, <1>7, RestKeepsSound DEF Accept
<1>8. CASE Deliver
  <2>1. release' = [drawings |-> release'.drawings, manifest |-> release'.manifest]
    BY <1>8 DEF Deliver
  <2>2. QED
    BY <1>8, <2>1, RestKeepsSound DEF Deliver
<1>9. CASE \E q \in 1 .. Count + 1 : DeliverFails(q)
  BY <1>9, DeliverFailsSound
<1>10. CASE \E i \in Ids : Damage(i)
  BY <1>0, <1>10, RestKeepsSound DEF Damage
<1>11. CASE UNCHANGED vars
  BY <1>0, <1>11, RestKeepsSound DEF vars
<1>12. QED
  BY <1>1, <1>2, <1>3, <1>4, <1>5, <1>6, <1>7, <1>8, <1>9, <1>10, <1>11 DEF Next

\* Every record that a session, a refresh or an accepted job holds is the
\* record of a form of its connection, with the decision the gate took on
\* that form and, once verified, the drawing that the form calls for.
THEOREM WorkflowInductive == Spec => []WorkflowInv
<1>1. QED
  BY InitSound, NextSound, PTL DEF Spec

-----------------------------------------------------------------------------
(* Who decided what a drawing shows. *)

\* No number reaches a drawing that a person did not decide: of every record
\* that the gate let through the review was approved, and each value shown was
\* given by its form or is a reading that the form confirms.
THEOREM DrawnAreDecided == Spec => []DrawnValuesAreDecided
<1>1. WorkflowInv => DrawnValuesAreDecided
  <2> SUFFICES ASSUME WorkflowInv, NEW p \in Packages,
                      workflow.records[p] # Nothing,
                      workflow.records[p].output # "BLOCKED_REVIEW"
               PROVE  LET form == workflow.records[p].form
                      IN  /\ form["REVIEW_STATUS"] # Nothing
                          /\ \A f \in Fields :
                                LET shown == Answered(p)[form].drawing.values[f]
                                IN  \/ shown = Given(form, f)
                                    \/ /\ f \in ConfirmedBy(form)
                                       /\ shown = AiValue(extraction[p], f)
    BY DEF DrawnValuesAreDecided
  <2> DEFINE form == workflow.records[p].form
             e == extraction[p]
  <2>1. form \in DOMAIN Answered(p) /\ Answered(p)[form].decision = "AUTO"
    BY DEF WorkflowInv, Sound, RecordSound
  <2>2. Answered(p)[form] = Review(e, form)
    BY <2>1, AnsweredIs DEF WorkflowInv
  <2> HIDE DEF form, e
  <2>3. ResolvedSupplement(form).approved
    BY <2>1, <2>2, AutoIsDecided
  <2>4. form["REVIEW_STATUS"] # Nothing
    BY <2>3 DEF ResolvedSupplement, IsApplied
  <2>5. \A f \in Fields :
           \/ Answered(p)[form].drawing.values[f] = Given(form, f)
           \/ /\ f \in ConfirmedBy(form)
              /\ Answered(p)[form].drawing.values[f] = AiValue(e, f)
    BY <2>1, <2>2, AutoShowsDecided
  <2>6. QED
    BY <2>4, <2>5 DEF form, e
<1>2. QED
  BY <1>1, WorkflowInductive, PTL

-----------------------------------------------------------------------------
(* What is delivered. *)

\* A step that completes a manifest delivers the accepted job: the drawings
\* that the recorded answers call for, as they are on disk, each of its own
\* identity and with no question left open.
THEOREM ReleaseIsReviewed == Spec => ReleasedAsReviewed
<1> DEFINE Completes == release'.manifest # release.manifest /\ release'.manifest # Garbled
           Reviewed ==
             /\ \A p \in Packages :
                   /\ release'.manifest[p] = [drawing |-> release'.drawings[p],
                                               audit |-> job[p].form]
                   /\ release'.drawings[p] = Answered(p)[job[p].form].drawing
                   /\ disk[release'.drawings[p].id] = release'.drawings[p]
                   /\ \A t \in DOMAIN job[p].form : job[p].form[t] # Nothing
             /\ \A p, q \in Packages :
                   release'.drawings[p].id = release'.drawings[q].id => p = q
<1>1. WorkflowInv /\ [Next]_vars => (Completes => Reviewed)
  <2> SUFFICES ASSUME WorkflowInv, [Next]_vars, Completes
               PROVE  Reviewed
    OBVIOUS
  <2>1. Deliver
    <3>1. \A q \in 1 .. Count + 1 : ~ DeliverFails(q)
      BY DeliverFailsSound
    <3>2. QED
      BY <3>1 DEF Next, vars, SubmitBlocked, SubmitDrawn, SubmitFailed, ReadForRefresh,
                  BindRefreshed, Batch, Accept, Damage
  <2>2. /\ release'.drawings = [p \in Packages |-> job[p].drawing]
        /\ release'.manifest = [p \in Packages |-> [drawing |-> job[p].drawing,
                                                     audit |-> job[p].form]]
    BY <2>1 DEF Deliver, Manifest, Audit
  <2>3. /\ job # Nothing
        /\ \A p \in Packages : Recorded(p) /\ Rehashed(p)
        /\ OnePerIdentity
    BY <2>1 DEF Deliver, Packageable
  <2>4. ASSUME NEW p \in Packages
        PROVE  /\ job[p].drawing = Answered(p)[job[p].form].drawing
               /\ disk[job[p].drawing.id] = job[p].drawing
               /\ \A t \in DOMAIN job[p].form : job[p].form[t] # Nothing
    <3>1. RecordSound(p, job[p]) /\ Answered(p)[job[p].form].traced
      BY <2>3 DEF WorkflowInv, JobSound, Sound
    <3>2. job[p].drawing = Answered(p)[job[p].form].drawing
      BY <2>3, <3>1 DEF RecordSound, Recorded
    <3>3. disk[job[p].drawing.id] = job[p].drawing
      BY <2>3 DEF Rehashed, AsVerified
    <3>4. Answered(p)[job[p].form] = Review(extraction[p], job[p].form)
      BY <3>1, AnsweredIs DEF WorkflowInv, RecordSound
    <3>5. Applied(job[p].form) = DOMAIN job[p].form
      BY <3>1, <3>4, ReviewParts
    <3>6. \A t \in DOMAIN job[p].form : job[p].form[t] # Nothing
      BY <3>5 DEF Applied, IsApplied
    <3>7. QED
      BY <3>2, <3>3, <3>6
  <2>5. QED
    BY <2>2, <2>3, <2>4 DEF OnePerIdentity
<1>2. QED
  BY <1>1, WorkflowInductive, PTL DEF Spec, ReleasedAsReviewed

-----------------------------------------------------------------------------
(* Where a drawing attaches its members. *)

\* An answer of a form is the right one, or another that the page lets pass.
LEMMA FormAnswers ==
    ASSUME NEW p, NEW e, NEW form \in Forms(p, e), NEW t \in DOMAIN form
    PROVE  form[t] \in {RightAnswer(p, e, t)} \union OtherAnswers[p][t]
<1> DEFINE right == RightForm(p, e)
<1>1. /\ DOMAIN right = Questions(e)
      /\ \A u \in Questions(e) : right[u] = RightAnswer(p, e, u)
  BY DEF RightForm
<1>2. \/ form = right
      \/ \E u \in DOMAIN right : \E answer \in OtherAnswers[p][u] :
            form = [right EXCEPT ![u] = answer]
  BY DEF Forms
<1> HIDE DEF right
<1>3. QED
  BY <1>1, <1>2

LEMMA FormDomain ==
    ASSUME NEW p, NEW e, NEW form \in Forms(p, e)
    PROVE  DOMAIN form = Questions(e)
<1> DEFINE right == RightForm(p, e)
<1>1. DOMAIN right = Questions(e)
  BY DEF RightForm
<1>2. \/ form = right
      \/ \E u \in DOMAIN right : \E answer \in OtherAnswers[p][u] :
            form = [right EXCEPT ![u] = answer]
  BY DEF Forms
<1> HIDE DEF right
<1>3. QED
  BY <1>1, <1>2

\* The field of the pipeline's specification that a drawing shows.
LEMMA DrawnIsSpecified ==
    ASSUME NEW e, NEW form, Review(e, form).decision = "AUTO", NEW f \in Required
    PROVE  LET s == ResolvedSupplement(form)
           IN  /\ Review(e, form).drawing.values[f] = Specification(e, s)[f]
               /\ \/ Specification(e, s)[f] = Given(form, f) /\ Given(form, f) # Nothing
                  \/ Specification(e, s)[f] = AiValue(e, f) /\ Usable(e, f)
<1> DEFINE s == ResolvedSupplement(form)
           on(g) == IF g = "material" /\ ~ HumanOwned(e, s, g) THEN Nothing ELSE Value(e, s, g)
<1>1. f \in Fields /\ f # "material"
  BY DEF Fields, Required
<1>2. s.supplied[f] \in {Nothing, Given(form, f)}
  BY <1>1 DEF ResolvedSupplement
<1>3. Review(e, form).drawing = Drawing(e, s)
  BY ReviewParts
<1>4. HumanOwned(e, s, f)
  BY AutoIsDecided
<1> HIDE DEF s
<1>5. Drawing(e, s).values = [g \in Fields |-> on(g)]
  BY DEF Drawing
<1>6. on(f) = Value(e, s, f)
  BY <1>1
<1> HIDE DEF on
<1>7. Review(e, form).drawing.values[f] = Value(e, s, f)
  BY <1>1, <1>3, <1>5, <1>6
<1>8. Specification(e, s)[f] = Value(e, s, f)
  BY <1>1 DEF Specification
<1>9. \/ Value(e, s, f) = Given(form, f) /\ Given(form, f) # Nothing
      \/ Value(e, s, f) = AiValue(e, f) /\ Usable(e, f)
  BY <1>2, <1>4 DEF Value, HumanOwned, Supplied, Confirmed
<1>10. QED
  BY <1>7, <1>8, <1>9 DEF s

\* The plate of a drawing stands at a number and is a number thick.
LEMMA DrawnPlateIsPlaced ==
    ASSUME NEW p \in Packages, NEW e \in Extractions[p], NEW form \in Forms(p, e),
           Review(e, form).decision = "AUTO"
    PROVE  LET values == Review(e, form).drawing.values
           IN  /\ values["location"].z \in Int
               /\ values["plate"].thickness \in Int
               /\ values["plate"].thickness > 0
<1> DEFINE s == ResolvedSupplement(form)
           spec == Specification(e, s)
           values == Review(e, form).drawing.values
<1>1. /\ spec["plate"] # Nothing /\ Positive(spec["plate"].thickness)
      /\ spec["location"] # Nothing /\ spec["location"].z # Nothing
  <2>1. PipelineValidates(e, s)
    BY AutoIsClear
  <2> HIDE DEF s
  <2>2. QED
    BY <2>1 DEF PipelineValidates, ConnectionParses, Supported, PlateParses, LocationParses
<1>2. "plate" \in Required /\ "location" \in Required
  BY DEF Required
<1>3. values["plate"] = spec["plate"] /\ values["location"] = spec["location"]
  BY <1>2, DrawnIsSpecified
<1>4. Number(spec["location"].z)
  <2>1. spec["location"] = Given(form, "location") /\ Given(form, "location") # Nothing
    <3>1. ~ Usable(e, "location")
      BY DEF Usable
    <3>2. QED
      BY <1>2, <3>1, DrawnIsSpecified
  <2>2. "location" \in DOMAIN form /\ spec["location"] = form["location"]
    BY <2>1 DEF Given, TaskOf, IsApplied
  <2>3. form["location"] \in {RightAnswers[p]["location"]} \union OtherAnswers[p]["location"]
    BY <2>2, FormAnswers DEF RightAnswer
  <2>4. QED
    BY <1>1, <2>2, <2>3, AnswersAssumption
<1>5. Number(spec["plate"].thickness)
  <2>1. CASE spec["plate"] = Given(form, "plate") /\ Given(form, "plate") # Nothing
    <3>1. "plate" \in DOMAIN form /\ spec["plate"] = form["plate"]
      BY <2>1 DEF Given, TaskOf, IsApplied
    <3>2. form["plate"] \in {RightAnswers[p]["plate"]} \union OtherAnswers[p]["plate"]
      BY <3>1, FormAnswers DEF RightAnswer
    <3>3. QED
      BY <1>1, <3>1, <3>2, AnswersAssumption
  <2>2. CASE spec["plate"] = AiValue(e, "plate") /\ Usable(e, "plate")
    <3>1. Len(e.plates) = 1 /\ spec["plate"] = e.plates[1]
      BY <2>2 DEF Usable, AiValue
    <3>2. PICK raw \in Readings[p] : e = ExtractionOf(raw)
      BY DEF Extractions
    <3>3. e.plates = IF raw.plates = Misshapen THEN <<>> ELSE raw.plates
      BY <3>2 DEF ExtractionOf
    <3>4. raw.plates # Misshapen /\ e.plates = raw.plates
      BY <3>1, <3>3
    <3>5. QED
      BY <3>1, <3>4, ReadingsAssumption
  <2>3. QED
    BY <1>2, <2>1, <2>2, DrawnIsSpecified
<1>6. QED
  BY <1>1, <1>3, <1>4, <1>5 DEF Positive, Number

\* A member that opposes the face of the plate it is nearer to with an end
\* has its other end further away: the arithmetic of one axis.
LEMMA OpposingEndIsNearer ==
    ASSUME NEW lo \in Int, NEW length \in Int, length > 0,
           NEW plateLo \in Int, NEW plateHi \in Int, plateLo < plateHi
    PROVE  LET middle == lo + (lo + length)
               lower == Distance(middle, 2 * plateLo) <= Distance(middle, 2 * plateHi)
               away(x) == Distance(2 * x, plateLo + plateHi)
           IN  /\ lower => away(lo + length) <= away(lo)
               /\ ~ lower => away(lo) <= away(lo + length)
BY DEF Distance

\* A drawing attaches each of its members at the end that lies nearer the
\* plate: an assembly that was validated opposes each attached end to the
\* plate, so two ends that both align with it are not interchangeable.
THEOREM AttachedAreNearer == Spec => []AttachedEndIsNearer
<1>1. ASSUME WorkflowInv, NEW p \in Packages, ~ Unresolved(p),
             workflow.records[p].output # "BLOCKED_REVIEW",
             NEW spec, spec = Answered(p)[workflow.records[p].form].drawing.values,
             NEW a \in spec.attachments, NEW end \in Ends \ {a[2]}
      PROVE  Away(a[1], a[2], PlateAlong(spec)) <= Away(a[1], end, PlateAlong(spec))
  <2> DEFINE form == workflow.records[p].form
             e == extraction[p]
             s == ResolvedSupplement(form)
             reviewed == Specification(e, s)
             m == a[1]
             plate == PlateAlong(spec)
  <2>1. form \in DOMAIN Answered(p) /\ Answered(p)[form].decision = "AUTO"
    BY <1>1 DEF WorkflowInv, Sound, RecordSound, Unresolved
  <2>2. /\ Answered(p)[form] = Review(e, form)
        /\ form \in Forms(p, e)
        /\ e \in Extractions[p]
    BY <1>1, <2>1, AnsweredIs DEF WorkflowInv, Drawn
  <2>3. Review(e, form).decision = "AUTO" /\ spec = Review(e, form).drawing.values
    BY <1>1, <2>1, <2>2
  <2> HIDE DEF form, e
  <2>4. /\ spec.location.z \in Int
        /\ spec.plate.thickness \in Int
        /\ spec.plate.thickness > 0
    BY <2>2, <2>3, DrawnPlateIsPlaced
  <2>5. /\ spec["attachments"] = reviewed["attachments"]
        /\ spec["location"] = reviewed["location"]
        /\ spec["plate"] = reviewed["plate"]
    BY <2>3, DrawnIsSpecified DEF Required
  <2>6. /\ AttachmentsParse(reviewed.attachments, reviewed.marks)
        /\ Validates(reviewed)
    <3>1. PipelineValidates(e, s)
      BY <2>3, AutoIsClear
    <3> HIDE DEF s
    <3>2. QED
      BY <3>1 DEF PipelineValidates
  <2> HIDE DEF s, reviewed
  <2>7. m \in reviewed.marks /\ a[2] \in Ends
    BY <1>1, <2>5, <2>6 DEF AttachmentsParse
  <2>8. m \in DOMAIN Members /\ Members[m].length > 0
    BY <2>6, <2>7 DEF Validates, MemberBuilds, RowBuilds
  <2>9. Opposes(m, a[2], reviewed)
    BY <1>1, <2>5, <2>6 DEF Validates, ValidatesPair, ValidatesMany, Consistent
  <2>10. Opposes(m, a[2], spec)
    BY <2>5, <2>9 DEF Opposes, FacesLower, PlateAlong
  <2> HIDE DEF m
  <2>11. /\ plate.lo \in Int /\ plate.hi \in Int /\ plate.lo < plate.hi
         /\ Along(m).lo = Members[m].z /\ Along(m).hi = Members[m].z + Members[m].length
         /\ Members[m].z \in Int /\ Members[m].length \in Int
    BY <2>4, <2>8, RowsAssumption DEF PlateAlong, Along
  <2> HIDE DEF plate
  <2> DEFINE lo == Members[m].z
             hi == Members[m].z + Members[m].length
             lower == Distance(lo + hi, 2 * plate.lo) <= Distance(lo + hi, 2 * plate.hi)
             away(x) == Distance(2 * x, plate.lo + plate.hi)
  <2>12. (lower => away(hi) <= away(lo)) /\ (~ lower => away(lo) <= away(hi))
    BY <2>8, <2>11, OpposingEndIsNearer
  <2>13. (a[2] = "END") = lower
    BY <2>10, <2>11 DEF Opposes, FacesLower, plate
  <2>14. /\ Away(m, "END", plate) = away(hi)
         /\ Away(m, "START", plate) = away(lo)
    BY <2>11 DEF Away, FacePosition
  <2> HIDE DEF lower, away, lo, hi
  <2>15. CASE a[2] = "END"
    <3>1. end = "START"
      BY <1>1, <2>15 DEF Ends
    <3>2. QED
      BY <2>12, <2>13, <2>14, <2>15, <3>1 DEF m, plate
  <2>16. CASE a[2] = "START"
    <3>1. end = "END"
      BY <1>1, <2>16 DEF Ends
    <3>2. QED
      BY <2>12, <2>13, <2>14, <2>16, <3>1 DEF m, plate
  <2>17. QED
    BY <2>7, <2>15, <2>16 DEF Ends
<1>2. WorkflowInv => AttachedEndIsNearer
  BY <1>1 DEF AttachedEndIsNearer
<1>3. QED
  BY <1>2, WorkflowInductive, PTL

-----------------------------------------------------------------------------
(* What right answers lead to. *)

UsableFields(e) == {f \in Fields : Usable(e, f)}

\* What is asked of a connection that was read without a contradiction.
AskedOf(e) ==
    {"REVIEW_STATUS", "SPECIFICATION", "VALIDATION", "holes", "location", "IDENTITY"}
    \union (IF Usable(e, "marks") THEN {"position", "attachments"} ELSE {"TOGETHER"})
    \union {t \in {"plate"} : ~ Usable(e, "plate")}
    \union {t \in {"PROVENANCE"} : UsableFields(e) # {}}
    \union {t \in {"MATERIAL"} : MaterialRequested /\ ~ Usable(e, "material")}

LEMMA UsableAre ==
    ASSUME NEW e, NEW f, Usable(e, f)
    PROVE  f \in {"marks", "plate", "material"}
BY DEF Usable

LEMMA TaskNames ==
    /\ TaskOf("marks") = "MEMBER_IDENTITY"
    /\ TaskOf("material") = "MATERIAL"
    /\ \A f \in Required \ {"marks"} : TaskOf(f) = f
BY DEF TaskOf, Required

\* Without a review nothing is decided, so what is read is to be confirmed.
LEMMA NothingReviewed ==
    ASSUME NEW e, NEW f \in Fields
    PROVE  /\ ~ HumanOwned(e, NoReview, f)
           /\ ~ Ambiguous(NoReview, f)
           /\ Pending(e, NoReview, f) = Usable(e, f)
           /\ Missing(e, NoReview, f) = ~ Usable(e, f)
           /\ Value(e, NoReview, f) = IF Usable(e, f) THEN AiValue(e, f) ELSE Nothing
<1>1. NoReview.supplied[f] = Nothing /\ NoReview.confirmed = {}
  BY DEF NoReview
<1>2. ~ HumanOwned(e, NoReview, f) /\ ~ Ambiguous(NoReview, f) /\ ~ Supplied(NoReview, f)
  BY <1>1 DEF HumanOwned, Supplied, Confirmed, Ambiguous
<1>3. QED
  BY <1>2 DEF Pending, Missing, Value, Usable

\* The members are asked about exactly when their marks are not usable.
LEMMA MembersAskedFor ==
    ASSUME NEW e, Usable(e, "marks") => e.marks # Nothing
    PROVE  MembersUnidentified(e, NoReview) = ~ Usable(e, "marks")
<1>1. "marks" \in Fields
  BY DEF Fields, Required
<1>2. CASE Usable(e, "marks")
  <2>1. Value(e, NoReview, "marks") = e.marks /\ ~ Missing(e, NoReview, "marks")
    BY <1>1, <1>2, NothingReviewed DEF AiValue
  <2>2. e.marks \subseteq Known
    BY <1>2 DEF Usable
  <2>3. QED
    BY <1>2, <2>1, <2>2 DEF MembersUnidentified, UnknownMarks
<1>3. CASE ~ Usable(e, "marks")
  <2>1. Value(e, NoReview, "marks") = Nothing
    BY <1>1, <1>3, NothingReviewed
  <2>2. QED
    BY <1>3, <2>1 DEF MembersUnidentified
<1>4. QED
  BY <1>2, <1>3

LEMMA FirstBlockers ==
    ASSUME NEW e, e.malformed = {}, Usable(e, "marks") => e.marks # Nothing
    PROVE  Blockers(e, NoReview, FALSE) =
              {"REVIEW_STATUS", "SPECIFICATION", "VALIDATION",
               "position", "holes", "location", "attachments"}
              \union {t \in {"MEMBER_IDENTITY"} : ~ Usable(e, "marks")}
              \union {t \in {"plate"} : ~ Usable(e, "plate")}
              \union {t \in {"PROVENANCE"} : UsableFields(e) # {}}
<1>1. ~ NoReview.approved /\ NoReview.confirmed = {}
  BY DEF NoReview
<1>2. ~ Complete(e, NoReview)
  BY <1>1 DEF Complete, Authorised
<1>3. MembersUnidentified(e, NoReview) = ~ Usable(e, "marks")
  BY MembersAskedFor
<1>4. (\E f \in Fields : Pending(e, NoReview, f)) <=> UsableFields(e) # {}
  BY NothingReviewed DEF UsableFields
<1>5. \A f \in FieldBlockers : Missing(e, NoReview, f) = ~ Usable(e, f)
  BY NothingReviewed DEF FieldBlockers, Fields, Required
<1>6. {f \in FieldBlockers : Missing(e, NoReview, f)} =
         {"position", "holes", "location", "attachments"}
         \union {t \in {"plate"} : ~ Usable(e, "plate")}
  BY <1>5, UsableAre DEF FieldBlockers
<1>7. ~ (\E f \in Fields : Ambiguous(NoReview, f)) /\ NoReview.confirmed \subseteq Fields
  BY <1>1, NothingReviewed
<1>8. QED
  BY <1>1, <1>2, <1>3, <1>4, <1>6, <1>7 DEF Blockers

LEMMA QuestionsAre ==
    ASSUME NEW e, e.malformed = {}, Usable(e, "marks") => e.marks # Nothing
    PROVE  Questions(e) = AskedOf(e)
<1> DEFINE b == Blockers(e, NoReview, FALSE)
<1>1. b = {"REVIEW_STATUS", "SPECIFICATION", "VALIDATION",
           "position", "holes", "location", "attachments"}
          \union {t \in {"MEMBER_IDENTITY"} : ~ Usable(e, "marks")}
          \union {t \in {"plate"} : ~ Usable(e, "plate")}
          \union {t \in {"PROVENANCE"} : UsableFields(e) # {}}
  BY FirstBlockers
<1> HIDE DEF b
<1>2. Questions(e) = Tasks(e)
  <2>1. b # {}
    BY <1>1
  <2>2. QED
    BY <2>1 DEF Questions, Unreviewed, Decision, b
<1>3. Missing(e, NoReview, "material") = ~ Usable(e, "material")
  BY NothingReviewed DEF Fields
<1>4. Tasks(e) = (IF Together \subseteq b THEN {"TOGETHER"} ELSE b \intersect Together)
                 \union (b \ Together)
                 \union {"IDENTITY"}
                 \union {t \in {"MATERIAL"} : MaterialRequested /\ ~ Usable(e, "material")}
  BY <1>3 DEF Tasks, b
<1>5. CASE Usable(e, "marks")
  <2>1. b \intersect Together = {"position", "attachments"} /\ ~ (Together \subseteq b)
    BY <1>1, <1>5 DEF Together
  <2>2. b \ Together = {"REVIEW_STATUS", "SPECIFICATION", "VALIDATION", "holes", "location"}
                       \union {t \in {"plate"} : ~ Usable(e, "plate")}
                       \union {t \in {"PROVENANCE"} : UsableFields(e) # {}}
    BY <1>1, <1>5 DEF Together
  <2>3. QED
    BY <1>2, <1>4, <1>5, <2>1, <2>2 DEF AskedOf
<1>6. CASE ~ Usable(e, "marks")
  <2>1. Together \subseteq b
    BY <1>1, <1>6 DEF Together
  <2>2. b \ Together = {"REVIEW_STATUS", "SPECIFICATION", "VALIDATION", "holes", "location"}
                       \union {t \in {"plate"} : ~ Usable(e, "plate")}
                       \union {t \in {"PROVENANCE"} : UsableFields(e) # {}}
    BY <1>1, <1>6 DEF Together
  <2>3. QED
    BY <1>2, <1>4, <1>6, <2>1, <2>2 DEF AskedOf
<1>7. QED
  BY <1>5, <1>6

\* The assumption on the right answers, field by field.
LEMMA RightSpecificationIs ==
    ASSUME NEW p \in Packages
    PROVE  LET spec == RightSpecification(p)
           IN  /\ \A f \in AskedBeforeConfirming : spec[f] = RightAnswers[p]["TOGETHER"][f]
               /\ \A f \in Required \ {"marks"} : spec[f] = RightAnswers[p][f]
               /\ \A f \in Required : spec[f] # Nothing
               /\ spec["marks"] \subseteq DOMAIN Members
               /\ spec["position"] \in Ends
               /\ \A a \in spec["attachments"] : a[2] \in Ends
<1> DEFINE spec == RightSpecification(p)
           right == RightAnswers[p]
<1>1. /\ \A f \in AskedBeforeConfirming : spec[f] = right["TOGETHER"][f]
      /\ \A f \in Required \ AskedBeforeConfirming : spec[f] = right[f]
  BY DEF RightSpecification, Required, AskedBeforeConfirming
<1> HIDE DEF spec
<1>2. /\ \A f \in {"position", "attachments"} : right[f] = spec[f]
      /\ \A t \in {"position", "attachments", "plate", "holes", "location"} : right[t] # Nothing
  BY RightAnswersAssumption DEF spec
<1>3. /\ ConnectionParses(right["IDENTITY"], spec)
      /\ AttachmentsParse(spec.attachments, spec.marks)
      /\ Validates(spec)
  BY RightAnswersAssumption DEF spec
<1>4. spec["marks"] # Nothing /\ spec["position"] \in Ends
  BY <1>3 DEF ConnectionParses
<1>5. \A a \in spec["attachments"] : a[2] \in Ends
  BY <1>3 DEF AttachmentsParse
<1>6. spec["marks"] \subseteq DOMAIN Members
  BY <1>3 DEF Validates, MemberBuilds
<1>7. \A f \in Required \ {"marks"} : spec[f] = right[f]
  BY <1>1, <1>2 DEF Required, AskedBeforeConfirming
<1>8. \A f \in Required : spec[f] # Nothing
  BY <1>2, <1>4, <1>7 DEF Required
<1>9. QED
  BY <1>1, <1>4, <1>5, <1>6, <1>7, <1>8 DEF spec

\* A connection read without a contradiction: what is usable is right.
LEMMA WellReadIs ==
    ASSUME NEW p \in Packages, WellRead(p)
    PROVE  LET e == extraction[p]
           IN  /\ e.malformed = {}
               /\ Usable(e, "marks") => e.marks # Nothing
               /\ \A f \in Required : Usable(e, f) => AiValue(e, f) = RightSpecification(p)[f]
               /\ RightConfirmation(p, e) = UsableFields(e)
<1> DEFINE e == extraction[p]
           right == RightAnswers[p]
           spec == RightSpecification(p)
           truth(f) == IF f \in DOMAIN right["TOGETHER"] THEN right["TOGETHER"][f]
                       ELSE right[TaskOf(f)]
<1>1. /\ e.malformed = {}
      /\ \A f \in {"plate", "material"} : Usable(e, f) => AiValue(e, f) = right[TaskOf(f)]
      /\ Usable(e, "marks") => e.marks = right["TOGETHER"].marks
  BY DEF WellRead
<1>2. /\ spec["marks"] = right["TOGETHER"]["marks"] /\ spec["marks"] # Nothing
      /\ spec["plate"] = right["plate"]
  BY RightSpecificationIs DEF AskedBeforeConfirming, Required
<1>3. DOMAIN right["TOGETHER"] = AskedBeforeConfirming
  BY RightAnswersAssumption
<1>4. AiValue(e, "marks") = e.marks
  BY DEF AiValue
<1> HIDE DEF e, right, spec
<1>5. \A f \in Required : Usable(e, f) => AiValue(e, f) = spec[f]
  BY <1>1, <1>2, <1>4, UsableAre, TaskNames DEF Required
<1>6. \A f \in Fields : Usable(e, f) => AiValue(e, f) = truth(f)
  <2>1. truth("marks") = right["TOGETHER"].marks
    BY <1>3 DEF AskedBeforeConfirming
  <2>2. truth("plate") = right[TaskOf("plate")] /\ truth("material") = right[TaskOf("material")]
    BY <1>3 DEF AskedBeforeConfirming
  <2> HIDE DEF truth
  <2>3. QED
    BY <1>1, <1>4, <2>1, <2>2, UsableAre
<1>7. {f \in Fields : Pending(e, NoReview, f)} = UsableFields(e)
  BY NothingReviewed DEF UsableFields
<1>8. {f \in UsableFields(e) : AiValue(e, f) = truth(f)} = UsableFields(e)
  BY <1>6 DEF UsableFields
<1>9. RightConfirmation(p, e) = UsableFields(e)
  BY <1>7, <1>8 DEF RightConfirmation, right
<1>10. QED
  BY <1>1, <1>2, <1>5, <1>9 DEF e, spec

\* Every question of the connection is answered rightly.
RightlyAnswered(p, form) ==
    LET e == extraction[p]
    IN  /\ DOMAIN form = Questions(e)
        /\ \A t \in DOMAIN form : form[t] = RightAnswer(p, e, t)

LEMMA RightFormIs ==
    ASSUME NEW p \in Packages, WellRead(p), NEW form, RightlyAnswered(p, form)
    PROVE  LET e == extraction[p]
           IN  /\ DOMAIN form = AskedOf(e)
               /\ \A t \in DOMAIN form \ {"PROVENANCE"} : form[t] = RightAnswers[p][t]
               /\ "PROVENANCE" \in DOMAIN form => form["PROVENANCE"] = UsableFields(e)
BY WellReadIs, QuestionsAre DEF RightlyAnswered, RightAnswer

LEMMA RightFormApplies ==
    ASSUME NEW p \in Packages, WellRead(p), NEW form, RightlyAnswered(p, form),
           NEW t \in DOMAIN form
    PROVE  IsApplied(form, t)
<1> DEFINE e == extraction[p]
           right == RightAnswers[p]
           spec == RightSpecification(p)
<1>1. /\ DOMAIN form = AskedOf(e)
      /\ t # "PROVENANCE" => form[t] = right[t]
      /\ t = "PROVENANCE" => form[t] = UsableFields(e)
  BY RightFormIs
<1> HIDE DEF e
<1>2. t \in {"REVIEW_STATUS", "SPECIFICATION", "VALIDATION", "holes", "location", "IDENTITY",
             "position", "attachments", "TOGETHER", "plate", "PROVENANCE", "MATERIAL"}
  BY <1>1 DEF AskedOf
<1>3. form[t] # Nothing
  <2>1. CASE t = "PROVENANCE"
    BY <1>1, <2>1, FieldsAssumption DEF UsableFields
  <2>2. CASE t # "PROVENANCE"
    BY <1>1, <1>2, <2>2, RightAnswersAssumption
  <2>3. QED
    BY <2>1, <2>2
<1>4. /\ spec["marks"] \subseteq DOMAIN Members
      /\ spec["position"] \in Ends
      /\ \A a \in spec["attachments"] : a[2] \in Ends
      /\ right["position"] = spec["position"]
      /\ right["attachments"] = spec["attachments"]
      /\ right["TOGETHER"]["marks"] = spec["marks"]
      /\ right["TOGETHER"]["position"] = spec["position"]
      /\ right["TOGETHER"]["attachments"] = spec["attachments"]
  BY RightSpecificationIs DEF AskedBeforeConfirming, Required
<1> HIDE DEF right, spec
<1>5. ~ Refused(t, form[t])
  BY <1>1, <1>2, <1>4 DEF Refused
<1>6. QED
  BY <1>3, <1>5 DEF IsApplied

\* Nothing is given that was read, and what was not read is given rightly.
LEMMA RightlyGiven ==
    ASSUME NEW p \in Packages, WellRead(p), NEW form, RightlyAnswered(p, form)
    PROVE  LET e == extraction[p]
           IN  /\ ConfirmedBy(form) = UsableFields(e)
               /\ \A f \in Fields : Usable(e, f) => Given(form, f) = Nothing
               /\ \A f \in Required :
                     ~ Usable(e, f) => Given(form, f) = RightSpecification(p)[f]
<1> DEFINE e == extraction[p]
           right == RightAnswers[p]
           spec == RightSpecification(p)
<1>1. /\ DOMAIN form = AskedOf(e)
      /\ \A t \in DOMAIN form \ {"PROVENANCE"} : form[t] = right[t]
      /\ "PROVENANCE" \in DOMAIN form => form["PROVENANCE"] = UsableFields(e)
  BY RightFormIs
<1>2. \A t : IsApplied(form, t) <=> t \in DOMAIN form
  BY RightFormApplies DEF IsApplied
<1>3. /\ \A f \in {"marks", "position", "attachments"} : spec[f] = right["TOGETHER"][f]
      /\ \A f \in Required \ {"marks"} : spec[f] = right[f]
  BY RightSpecificationIs DEF AskedBeforeConfirming
<1> HIDE DEF e, right, spec
<1>4. ConfirmedBy(form) = UsableFields(e)
  BY <1>1, <1>2 DEF ConfirmedBy, AskedOf
<1>5. ~ Usable(e, "position") /\ ~ Usable(e, "holes")
      /\ ~ Usable(e, "location") /\ ~ Usable(e, "attachments")
  BY UsableAre
<1>6. Given(form, "marks") = IF Usable(e, "marks") THEN Nothing ELSE spec["marks"]
  BY <1>1, <1>2, <1>3, TaskNames DEF Given, AskedOf
<1>7. Given(form, "plate") = IF Usable(e, "plate") THEN Nothing ELSE spec["plate"]
  BY <1>1, <1>2, <1>3, TaskNames DEF Given, AskedOf, Required
<1>8. Usable(e, "material") => Given(form, "material") = Nothing
  BY <1>1, <1>2, TaskNames DEF Given, AskedOf
<1>9. \A f \in {"holes", "location"} : Given(form, f) = spec[f]
  BY <1>1, <1>2, <1>3, TaskNames DEF Given, AskedOf, Required
<1>10. \A f \in {"position", "attachments"} : Given(form, f) = spec[f]
  BY <1>1, <1>2, <1>3, TaskNames DEF Given, AskedOf, Required
<1>11. QED
  BY <1>4, <1>5, <1>6, <1>7, <1>8, <1>9, <1>10 DEF Fields, Required, e, spec

\* The supplement decides every field, and each one rightly.
LEMMA RightlyDecided ==
    ASSUME NEW p \in Packages, WellRead(p), NEW form, RightlyAnswered(p, form)
    PROVE  LET e == extraction[p]
               s == ResolvedSupplement(form)
           IN  /\ s.approved /\ s.confirmed = UsableFields(e)
               /\ s.id = RightAnswers[p]["IDENTITY"] /\ s.id # Nothing
               /\ \A f \in Fields : Usable(e, f) => HumanOwned(e, s, f) /\ s.supplied[f] = Nothing
               /\ \A f \in Fields : Given(form, f) # Nothing => HumanOwned(e, s, f)
               /\ \A f \in Required : /\ HumanOwned(e, s, f)
                                     /\ Specification(e, s)[f] = RightSpecification(p)[f]
<1> DEFINE e == extraction[p]
           s == ResolvedSupplement(form)
           spec == RightSpecification(p)
<1>1. /\ ConfirmedBy(form) = UsableFields(e)
      /\ \A f \in Fields : Usable(e, f) => Given(form, f) = Nothing
      /\ \A f \in Required : ~ Usable(e, f) => Given(form, f) = spec[f]
  BY RightlyGiven
<1>2. s.confirmed = UsableFields(e)
  BY <1>1 DEF ResolvedSupplement
<1>3. \A f \in Fields : s.supplied[f] = Given(form, f)
  BY <1>1 DEF ResolvedSupplement, UsableFields
<1>4. "REVIEW_STATUS" \in DOMAIN form /\ "IDENTITY" \in DOMAIN form
  BY RightFormIs DEF AskedOf
<1>5. IsApplied(form, "REVIEW_STATUS") /\ IsApplied(form, "IDENTITY")
  BY <1>4, RightFormApplies
<1>6. s.approved
  BY <1>5 DEF ResolvedSupplement
<1>7. s.id = RightAnswers[p]["IDENTITY"]
  <2>1. s.id = form["IDENTITY"]
    BY <1>5 DEF ResolvedSupplement
  <2>2. QED
    BY <1>4, <2>1, RightFormIs
<1>8. s.id # Nothing
  BY <1>7, RightAnswersAssumption
<1>9. /\ \A f \in Required : spec[f] # Nothing
      /\ \A f \in Required : Usable(e, f) => AiValue(e, f) = spec[f]
  BY RightSpecificationIs, WellReadIs
<1>10. Required \subseteq Fields
  BY DEF Fields
<1> HIDE DEF e, s, spec
<1>11. ASSUME NEW f \in Fields, Usable(e, f)
       PROVE  HumanOwned(e, s, f) /\ s.supplied[f] = Nothing /\ Value(e, s, f) = AiValue(e, f)
  <2>1. s.supplied[f] = Nothing /\ f \in s.confirmed
    BY <1>1, <1>2, <1>3, <1>11 DEF UsableFields
  <2>2. QED
    BY <1>11, <2>1 DEF HumanOwned, Confirmed, Supplied, Value
<1>12. ASSUME NEW f \in Fields, ~ Usable(e, f), Given(form, f) # Nothing
       PROVE  HumanOwned(e, s, f) /\ Value(e, s, f) = Given(form, f)
  <2>1. Supplied(s, f)
    BY <1>2, <1>3, <1>12 DEF Supplied, UsableFields
  <2>2. QED
    BY <1>3, <2>1 DEF HumanOwned, Value
<1>13. \A f \in Required : HumanOwned(e, s, f) /\ Value(e, s, f) = spec[f]
  BY <1>1, <1>9, <1>10, <1>11, <1>12
<1>14. \A f \in Required : Specification(e, s)[f] = Value(e, s, f)
  BY <1>10 DEF Specification
<1>15. QED
  BY <1>1, <1>2, <1>6, <1>7, <1>8, <1>11, <1>12, <1>13, <1>14 DEF e, s, spec

\* Whether a specification parses and validates, its material does not matter.
LEMMA SameSpecification ==
    ASSUME NEW a, NEW b, \A f \in Required : a[f] = b[f], NEW id,
           ConnectionParses(id, b), LocationParses(b.location),
           AttachmentsParse(b.attachments, b.marks), Validates(b)
    PROVE  /\ ConnectionParses(id, a) /\ LocationParses(a.location)
           /\ AttachmentsParse(a.attachments, a.marks) /\ Validates(a)
<1>1. /\ a.marks = b.marks /\ a.position = b.position /\ a.plate = b.plate
      /\ a.holes = b.holes /\ a.location = b.location /\ a.attachments = b.attachments
  BY DEF Required
<1>2. ConnectionParses(id, a) /\ LocationParses(a.location)
  BY <1>1 DEF ConnectionParses
<1>3. AttachmentsParse(a.attachments, a.marks)
  BY <1>1
<1>4. /\ PlateAlong(a) = PlateAlong(b)
      /\ PlateAcross(a) = PlateAcross(b)
  BY <1>1 DEF PlateAlong, PlateAcross
<1>5. \A m : Touches(m, b) => Touches(m, a)
  BY <1>4 DEF Touches
<1>6. FacesResolve(b) => FacesResolve(a)
  BY <1>1 DEF FacesResolve
<1>7. (BuildsPair(b) => BuildsPair(a)) /\ (BuildsMany(b) => BuildsMany(a))
  BY <1>1, <1>5 DEF BuildsPair, BuildsMany
<1>8. \A m, end : /\ Aligned(m, end, b) => Aligned(m, end, a)
                  /\ Opposes(m, end, b) => Opposes(m, end, a)
  BY <1>4 DEF Aligned, Opposes, FacesLower
<1>9. Consistent(b) => Consistent(a)
  BY <1>1, <1>8 DEF Consistent, Upright
<1>10. Validates(a)
  BY <1>1, <1>6, <1>7, <1>9
     DEF Validates, ValidatesPair, ValidatesMany, AssemblesPair, AssemblesMany
<1>11. QED
  BY <1>2, <1>3, <1>10

\* No question is missing and no blocker is left: the form is let through.
LEMMA RightIsAuto ==
    ASSUME NEW p \in Packages, WellRead(p), NEW form, RightlyAnswered(p, form)
    PROVE  Review(extraction[p], form).decision = "AUTO"
<1> DEFINE e == extraction[p]
           s == ResolvedSupplement(form)
           spec == Specification(e, s)
<1>1. /\ s.approved /\ s.confirmed = UsableFields(e) /\ s.id # Nothing
      /\ \A f \in Fields : Usable(e, f) => HumanOwned(e, s, f) /\ s.supplied[f] = Nothing
      /\ \A f \in Required : HumanOwned(e, s, f) /\ spec[f] = RightSpecification(p)[f]
  BY RightlyDecided
<1>2. e.malformed = {}
  BY WellReadIs
<1>3. /\ ConnectionParses(s.id, spec) /\ LocationParses(spec.location)
      /\ AttachmentsParse(spec.attachments, spec.marks) /\ Validates(spec)
  <2>1. s.id = RightAnswers[p]["IDENTITY"]
    BY RightlyDecided
  <2> DEFINE right == RightSpecification(p)
  <2>2. /\ ConnectionParses(RightAnswers[p]["IDENTITY"], right)
        /\ LocationParses(right.location)
        /\ AttachmentsParse(right.attachments, right.marks) /\ Validates(right)
    BY RightAnswersAssumption
  <2> HIDE DEF spec, s, right
  <2>3. \A f \in Required : spec[f] = right[f]
    BY <1>1 DEF right
  <2>4. QED
    BY <2>1, <2>2, <2>3, SameSpecification
<1>4. Value(e, s, "marks") # Nothing /\ Value(e, s, "marks") \subseteq Known
  <2>1. spec["marks"] # Nothing /\ spec["marks"] \subseteq Known
    BY <1>1, RightSpecificationIs, RightAnswersAssumption DEF Required
  <2>2. spec["marks"] = Value(e, s, "marks")
    BY DEF Specification, Fields, Required
  <2>3. QED
    BY <2>1, <2>2
<1> HIDE DEF e, s
<1>5. UnknownMarks(e, s) = {}
  <2>1. ~ Missing(e, s, "marks")
    BY <1>1 DEF Missing, Required
  <2>2. QED
    BY <1>4, <2>1 DEF UnknownMarks
<1> HIDE DEF spec
<1>6. PipelineValidates(e, s)
  BY <1>3 DEF PipelineValidates, spec
<1>7. Complete(e, s)
  BY <1>1, <1>3, <1>5 DEF Complete, Authorised, spec
<1>8. ~ MembersUnidentified(e, s)
  BY <1>4, <1>5 DEF MembersUnidentified
<1>9. \A f \in Fields : ~ Pending(e, s, f)
  BY <1>1 DEF Pending
<1>10. \A f \in FieldBlockers : ~ Missing(e, s, f)
  BY <1>1 DEF FieldBlockers, Missing, Required
<1>11. (\A f \in Fields : ~ Ambiguous(s, f)) /\ s.confirmed \subseteq Fields
  BY <1>1 DEF Ambiguous, UsableFields
<1>12. Blockers(e, s, TRUE) = {}
  BY <1>1, <1>2, <1>7, <1>8, <1>9, <1>10, <1>11 DEF Blockers
<1>13. Evaluation(e, s) = [id |-> s.id, validated |-> TRUE, decision |-> "AUTO"]
  <2>1. PipelineValidates(e, s) = TRUE
    BY <1>6 DEF PipelineValidates
  <2>2. Decision(e, s, TRUE) = "AUTO"
    BY <1>12 DEF Decision
  <2>3. QED
    BY <2>1, <2>2 DEF Evaluation
<1>14. OutputDecision(Evaluation(e, s)) = "AUTO"
  BY <1>1, <1>13 DEF OutputDecision
<1>15. QED
  BY <1>14, ReviewParts DEF e, s

\* Every answer is applied and what it decided is traced to a person.
LEMMA RightIsTraced ==
    ASSUME NEW p \in Packages, WellRead(p), NEW form, RightlyAnswered(p, form)
    PROVE  Review(extraction[p], form).traced
<1> DEFINE e == extraction[p]
           s == ResolvedSupplement(form)
<1>1. Applied(form) = DOMAIN form
  BY RightFormApplies DEF Applied
<1>2. ConfirmedBy(form) = UsableFields(e)
  BY RightlyGiven
<1>3. /\ \A f \in Fields : Usable(e, f) => HumanOwned(e, s, f)
      /\ \A f \in Fields : Given(form, f) # Nothing => HumanOwned(e, s, f)
  BY RightlyDecided
<1> HIDE DEF e, s
<1>4. \A f \in Decided(form) : f \in Fields /\ HumanOwned(e, s, f)
  BY <1>2, <1>3 DEF Decided, UsableFields
<1>5. Traceable(e, form)
  BY <1>4 DEF Traceable, s
<1>6. QED
  BY <1>1, <1>5, ReviewParts DEF e

\* A connection that was read without a contradiction and answered rightly is
\* drawn, whatever was usable of its reading, and accepted while its verified
\* drawing stays as it is: the questions asked of it lift every blocker.
THEOREM RightAnswersAreReleased == Spec => []RightAnswersRelease
<1>1. WorkflowInv => RightAnswersRelease
  <2> SUFFICES ASSUME WorkflowInv, NEW p \in Packages,
                      workflow.records[p] # Nothing, WellRead(p),
                      \A t \in DOMAIN workflow.records[p].form :
                         workflow.records[p].form[t] = RightAnswer(p, extraction[p], t)
               PROVE  /\ workflow.records[p].output # "BLOCKED_REVIEW"
                      /\ /\ workflow.records[p].verification = "VERIFIED"
                         /\ AsVerified(workflow.records[p].drawing)
                         => Accepted(p)
    BY DEF RightAnswersRelease
  <2> DEFINE record == workflow.records[p]
             e == extraction[p]
  <2>1. RecordSound(p, record)
    BY DEF WorkflowInv, Sound
  <2>2. /\ Answered(p)[record.form] = Review(e, record.form)
        /\ record.form \in Forms(p, e)
    BY <2>1, AnsweredIs DEF WorkflowInv, RecordSound
  <2>3. DOMAIN record.form = Questions(e)
    BY <2>2, FormDomain
  <2>4. RightlyAnswered(p, record.form)
    BY <2>3 DEF RightlyAnswered
  <2>5. Review(e, record.form).decision = "AUTO" /\ Review(e, record.form).traced
    BY <2>4, RightIsAuto, RightIsTraced
  <2>6. QED
    BY <2>1, <2>2, <2>5 DEF RecordSound, Accepted, Unresolved
<1>2. QED
  BY <1>1, WorkflowInductive, PTL
=============================================================================
