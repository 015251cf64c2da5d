-------------------------- MODULE ConflictDelivery --------------------------
(***************************************************************************)
(* A section whose dimensions on the drawing and in the catalogue differ:  *)
(* the conflict is detected (source_of_truth), settled by a human and      *)
(* decided again (catalogue_conflict_resolution), drawn from the source    *)
(* that was chosen (resolved_conflict_geometry, resolved_conflict_drawing) *)
(* and delivered and accepted (resolved_conflict_deliverable).             *)
(*                                                                         *)
(* A row is a section name and its dimensions; a file is modelled by what  *)
(* was drawn into it, and equal hashes mean equal files.  A conflict's id, *)
(* and with it its drawing's path, is made of the two names alone.         *)
(***************************************************************************)
EXTENDS Naturals, FiniteSets

CONSTANTS
    Slots,          \* conflicts that are handled beside one another
    CapturedRows, CatalogueRows,
    Dimensions,     \* the geometry-defining fields
    Absent,         \* no value, no file, no record
    Scrap,          \* a file that was cut short or overwritten
    Reports,        \* what drawings may say on the other checklist items
    ReportedItems,  \* those items; the material is one of them
    Printed,        \* those no drawing is delivered without
    Answers,        \* filled-in checklists
    MaxMishaps      \* bound: failing writes and files changed by hand

VARIABLES
    conflicts,      \* the record of each conflict
    drawn,          \* the result of drawing it
    drawings,       \* the drawing files, by conflict id
    delivered,      \* the deliverable built of a result
    outbox,         \* the copies and the manifest in the delivery directory
    accepted,       \* the last verdict: on which deliverable, and the file then
    mishaps

deliveryVars == <<conflicts, drawn, drawings, delivered, outbox, accepted, mishaps>>

Decisions == {"CAPTURE_AUTHORITATIVE", "LIVE_CATALOGUE_AUTHORITATIVE",
              "KEEP_BOTH_REQUIRES_STRONGER_EVIDENCE"}
ConflictIds == {[captured |-> c.name, catalogue |-> l.name] : c \in CapturedRows, l \in CatalogueRows}
Geometries == {"CAPTURE_GEOMETRY_APPLIED", "CATALOGUE_GEOMETRY_APPLIED"}

\* The records of conflicts, and the files that are drawn of them.
Conflicts ==
    [captured : CapturedRows, catalogue : CatalogueRows, decision : Decisions \union {Absent},
     resulting : Geometries \union {"BLOCKED_REVIEW", Absent}]
DrawnFiles ==
    [connection : ConflictIds, section : {row.name : row \in CapturedRows \union CatalogueRows},
     dims : {row.dims : row \in CapturedRows \union CatalogueRows}, report : Reports]

\* Nothing is neither a record nor a file, and no drawing is a scrap.
ASSUME DeliveryAssumption ==
    /\ Absent \notin Conflicts \union Decisions \union Geometries
    /\ Absent \notin DrawnFiles /\ Scrap \notin DrawnFiles

-----------------------------------------------------------------------------
(* The conflict and its settlement. *)

\* Fields that both sources state, and state differently.
ConflictingFields(captured, catalogue) ==
    {d \in Dimensions :
        /\ captured.dims[d] # Absent /\ catalogue.dims[d] # Absent
        /\ captured.dims[d] # catalogue.dims[d]}

ConflictId(conflict) ==
    [captured |-> conflict.captured.name, catalogue |-> conflict.catalogue.name]

ResolvedRow(conflict) ==
    IF conflict.resulting = "CAPTURE_GEOMETRY_APPLIED" THEN conflict.captured ELSE conflict.catalogue

HasGeometry(conflict) == conflict.resulting \in Geometries

IsAccepted(conflict) == conflict.decision # Absent /\ HasGeometry(conflict)

BuildConflict(s, captured, catalogue) ==
    /\ conflicts[s] = Absent
    /\ ConflictingFields(captured, catalogue) # {}
    /\ conflicts' = [conflicts EXCEPT ![s] =
            [captured |-> captured, catalogue |-> catalogue, decision |-> Absent, resulting |-> Absent]]
    /\ UNCHANGED <<drawn, drawings, delivered, outbox, accepted, mishaps>>

\* At most once, whatever was decided.
ApplyResolution(s, decision) ==
    /\ conflicts[s] # Absent
    /\ conflicts[s].decision = Absent
    /\ conflicts' = [conflicts EXCEPT ![s].decision = decision]
    /\ UNCHANGED <<drawn, drawings, delivered, outbox, accepted, mishaps>>

Redecide(s) ==
    /\ conflicts[s] # Absent
    /\ conflicts' = [conflicts EXCEPT ![s].resulting =
            CASE conflicts[s].decision = "CAPTURE_AUTHORITATIVE" -> "CAPTURE_GEOMETRY_APPLIED"
              [] conflicts[s].decision = "LIVE_CATALOGUE_AUTHORITATIVE" -> "CATALOGUE_GEOMETRY_APPLIED"
              [] OTHER -> "BLOCKED_REVIEW"]
    /\ UNCHANGED <<drawn, drawings, delivered, outbox, accepted, mishaps>>

-----------------------------------------------------------------------------
(* Drawing the row that was chosen, at the path of the conflict's id. *)

ShownBy(conflict, report) ==
    [connection |-> ConflictId(conflict), section |-> ResolvedRow(conflict).name,
     dims |-> ResolvedRow(conflict).dims, report |-> report]

\* Verified or not; a drawing that is not verified leaves its file behind.
Draw(s, report, verified) ==
    /\ conflicts[s] # Absent
    /\ HasGeometry(conflicts[s])
    /\ LET file == ShownBy(conflicts[s], report)
       IN  /\ drawn' = [drawn EXCEPT ![s] =
                  [conflict |-> conflicts[s], hash |-> file, verified |-> verified]]
           /\ drawings' = [drawings EXCEPT ![ConflictId(conflicts[s])] = file]
    /\ UNCHANGED <<conflicts, delivered, outbox, accepted, mishaps>>

\* The pipeline or the gate blocks: no file.
DrawNothing(s) ==
    /\ conflicts[s] # Absent
    /\ HasGeometry(conflicts[s])
    /\ drawn' = [drawn EXCEPT ![s] =
            [conflict |-> conflicts[s], hash |-> Absent, verified |-> FALSE]]
    /\ UNCHANGED <<conflicts, drawings, delivered, outbox, accepted, mishaps>>

-----------------------------------------------------------------------------
(* Building the deliverable: copy, then manifest. *)

Manifest(result) ==
    [id |-> ConflictId(result.conflict), conflict |-> result.conflict, hash |-> result.hash]

DeliverableOf(status, result) ==
    [status |-> status, id |-> ConflictId(result.conflict), manifest |-> Manifest(result)]

\* The recorded file is there and hashes as verified.
SourceStands(result) == drawings[ConflictId(result.conflict)] = result.hash

\* Its text is a drawing of this connection, and not one of the items that
\* every drawing prints is missing from it.
TextStands(result) ==
    /\ result.hash.connection = ConflictId(result.conflict)
    /\ \A item \in Printed : result.hash.report[item] # "MISSING"

Delivers(s) ==
    LET result == drawn[s]
    IN  /\ IsAccepted(result.conflict)
        /\ result.verified
        /\ SourceStands(result)
        /\ TextStands(result)

RefuseDelivery(s) ==
    /\ drawn[s] # Absent
    /\ ~ Delivers(s)
    /\ delivered' = [delivered EXCEPT ![s] =
            DeliverableOf(IF drawn[s].hash = Absent \/ drawn[s].verified THEN "BLOCKED" ELSE "REFUSED",
                        drawn[s])]
    /\ UNCHANGED <<conflicts, drawn, drawings, outbox, accepted, mishaps>>

Deliver(s) ==
    /\ drawn[s] # Absent
    /\ Delivers(s)
    /\ delivered' = [delivered EXCEPT ![s] = DeliverableOf("READY", drawn[s])]
    /\ outbox' = [copies |-> [outbox.copies EXCEPT ![ConflictId(drawn[s].conflict)] = drawn[s].hash],
                  manifest |-> Manifest(drawn[s])]
    /\ UNCHANGED <<conflicts, drawn, drawings, accepted, mishaps>>

\* A write raises.  What was written whole is removed; what was being written
\* stays as far as it got.
DeliveryFails(s) ==
    /\ drawn[s] # Absent
    /\ Delivers(s)
    /\ mishaps < MaxMishaps
    /\ mishaps' = mishaps + 1
    /\ delivered' = [delivered EXCEPT ![s] = DeliverableOf("BLOCKED", drawn[s])]
    /\ LET id == ConflictId(drawn[s].conflict)
       IN  \/ outbox' = outbox
           \/ outbox' = [outbox EXCEPT !.copies[id] = Scrap]
           \/ outbox' = [copies |-> [outbox.copies EXCEPT ![id] = Absent], manifest |-> Scrap]
    /\ UNCHANGED <<conflicts, drawn, drawings, accepted>>

Spoil ==
    /\ mishaps < MaxMishaps
    /\ mishaps' = mishaps + 1
    /\ \E id \in ConflictIds :
        \/ /\ drawings[id] \notin {Absent, Scrap}
           /\ drawings' = [drawings EXCEPT ![id] = Scrap]
           /\ UNCHANGED outbox
        \/ /\ outbox.copies[id] \notin {Absent, Scrap}
           /\ outbox' = [outbox EXCEPT !.copies[id] = Scrap]
           /\ UNCHANGED drawings
    /\ UNCHANGED <<conflicts, drawn, delivered, accepted>>

-----------------------------------------------------------------------------
(* The acceptance of a deliverable as it lies in the delivery directory. *)

ConflictItems ==
    {"CONFLICT_DISCLOSED", "SELECTED_AUTHORITY_RECORDED", "HUMAN_DECISION_RECORDED", "TRACEABILITY"}
DeliverableItems == ConflictItems \union ReportedItems
RequiredItems == DeliverableItems \ {"MATERIAL_STATED"}

\* The manifest is one the builder wrote and nobody changed (OnDisk): it holds a
\* conflict, names both sources in its identity, and selects one of the two.
ConflictDisclosed(conflict) ==
    IF ConflictingFields(conflict.captured, conflict.catalogue) # {} THEN "PRESENT" ELSE "MISSING"

AuthorityRecorded(conflict, file) ==
    IF file.section = ResolvedRow(conflict).name THEN "PRESENT" ELSE "CONTRADICTED"

DecisionRecorded(conflict) == IF conflict.decision \in Decisions THEN "PRESENT" ELSE "MISSING"

\* The manifest names the conflict it was built for.
Traceability(manifest) ==
    IF manifest.id = ConflictId(manifest.conflict) THEN "PRESENT" ELSE "CONTRADICTED"

ItemStatus(item, manifest, file) ==
    CASE item = "CONFLICT_DISCLOSED" -> ConflictDisclosed(manifest.conflict)
      [] item = "SELECTED_AUTHORITY_RECORDED" -> AuthorityRecorded(manifest.conflict, file)
      [] item = "HUMAN_DECISION_RECORDED" -> DecisionRecorded(manifest.conflict)
      [] item = "TRACEABILITY" -> Traceability(manifest)
      [] item \in ReportedItems -> file.report[item]

\* mutant: the files are found by name and not read again
OnDiskByName(s) ==
    /\ delivered[s].status = "READY"
    /\ outbox.copies[delivered[s].id] # Absent
    /\ outbox.manifest # Absent

OnDisk(s) ==
    /\ delivered[s].status = "READY"
    /\ outbox.copies[delivered[s].id] = delivered[s].manifest.hash
    /\ outbox.manifest = delivered[s].manifest

\* Every item answered, and no answer against the evidence.
AnswersReconcile(manifest, file, answers) ==
    \A item \in DeliverableItems :
        /\ item \in DOMAIN answers
        /\ answers[item] = "PASS" => ItemStatus(item, manifest, file) = "PRESENT"
        /\ answers[item] = "NOT_APPLICABLE" => ItemStatus(item, manifest, file) = "MISSING"

\* Contradicted or missing evidence, or a reviewer's FAIL; a missing material is
\* reported only.
Blocks(manifest, file, answers) ==
    \E item \in DeliverableItems :
        \/ ItemStatus(item, manifest, file) = "CONTRADICTED"
        \/ ItemStatus(item, manifest, file) = "MISSING" /\ item \in RequiredItems
        \/ answers[item] = "FAIL"

AcceptanceOf(manifest, file, answers) ==
    IF ~ AnswersReconcile(manifest, file, answers) THEN "REFUSED"
    ELSE IF Blocks(manifest, file, answers) THEN "NOT_ACCEPTED" ELSE "ACCEPTED"

Evaluate(s, answers) ==
    /\ delivered[s] # Absent
    /\ LET manifest == delivered[s].manifest
       IN  accepted' = [slot |-> s, file |-> outbox.copies[delivered[s].id],
                        verdict |-> IF OnDisk(s) THEN AcceptanceOf(manifest, manifest.hash, answers)
                                    ELSE "REFUSED"]
    /\ UNCHANGED <<conflicts, drawn, drawings, delivered, outbox, mishaps>>

-----------------------------------------------------------------------------

InitDelivery ==
    /\ conflicts = [s \in Slots |-> Absent]
    /\ drawn = [s \in Slots |-> Absent]
    /\ drawings = [id \in ConflictIds |-> Absent]
    /\ delivered = [s \in Slots |-> Absent]
    /\ outbox = [copies |-> [id \in ConflictIds |-> Absent], manifest |-> Absent]
    /\ accepted = Absent
    /\ mishaps = 0

NextDelivery ==
    \/ \E s \in Slots, captured \in CapturedRows, catalogue \in CatalogueRows :
          BuildConflict(s, captured, catalogue)
    \/ \E s \in Slots, decision \in Decisions : ApplyResolution(s, decision)
    \/ \E s \in Slots : Redecide(s)
    \/ \E s \in Slots, report \in Reports, verified \in BOOLEAN : Draw(s, report, verified)
    \/ \E s \in Slots : DrawNothing(s)
    \/ \E s \in Slots : RefuseDelivery(s)
    \/ \E s \in Slots : Deliver(s)
    \/ \E s \in Slots : DeliveryFails(s)
    \/ Spoil
    \/ \E s \in Slots, answers \in Answers : Evaluate(s, answers)

-----------------------------------------------------------------------------
(* Properties. *)

(* An accepted deliverable shows, in the very file that was read, the       *)
(* section and the dimensions of the source a human chose for its conflict, *)
(* over sources that do disagree: also when another conflict between        *)
(* sections of the same names was drawn over it, when the directory holds   *)
(* what an earlier build left there, or when a file was changed since.      *)
DeliveredIsChosen ==
    accepted # Absent /\ accepted.verdict = "ACCEPTED" =>
        LET file == accepted.file
            conflict == conflicts[accepted.slot]
            chosen == IF conflict.decision = "CAPTURE_AUTHORITATIVE" THEN conflict.captured
                      ELSE conflict.catalogue
        IN  /\ file # Absent /\ file # Scrap
            /\ conflict.decision \in Decisions \ {"KEEP_BOTH_REQUIRES_STRONGER_EVIDENCE"}
            /\ ConflictingFields(conflict.captured, conflict.catalogue) # {}
            /\ file.section = chosen.name /\ file.dims = chosen.dims
=============================================================================
