---------------------------- MODULE EvidenceTrail ----------------------------
(***************************************************************************)
(* From a review item back to the page reading it came from, and forward   *)
(* from several readings to the state of one of its fields: the origin     *)
(* recorded on an item (candidate_origin_address), the three rules that    *)
(* resolve a citation (connection_scoped_evidence) and the detection of    *)
(* evidence that disagrees (evidence_conflict_detection over               *)
(* reconciliation_state).                                                  *)
(*                                                                         *)
(* Pages are read again by later runs; what a run read of a page is        *)
(* recorded once and kept beside the readings of the other runs.           *)
(* Positions on a page count from 1 here, from 0 in the code.              *)
(***************************************************************************)
EXTENDS Naturals, Sequences, FiniteSets

CONSTANTS
    Pages, Runs,    \* of one drawing
    Readable,       \* what a run may read of a page: sequences of entries
    NotARecord,     \* an entry that is no record
    Illegible,      \* a value the field's own form does not admit
    Unstated,       \* a term or value that is not there
    Keys,           \* the exact keys of a plate and of a location
    Citable,        \* citations somebody may record: field, kind and address
    TaskField,      \* task of the item -> the one field it asks about, if it is one
    MaxCaptures, MaxCitations   \* bounds

ASSUME TrailAssumption ==
    /\ Unstated \notin Nat
    /\ \A entries \in Readable : DOMAIN entries \subseteq Nat

VARIABLES
    captures,   \* recorded readings: page, run and entries
    item,       \* the review item, once intake has made one
    citations,  \* what was cited for its fields, in order
    human       \* per field, what a human has given: provenance, answer

trailVars == <<captures, item, citations, human>>

EngineeringFields ==
    {"connected_member_marks", "position", "plate", "holes", "location", "attachments", "material"}
ReconciliationFields == {"connection_id"} \union EngineeringFields

ElementsOf(seq) == {seq[i] : i \in DOMAIN seq}

-----------------------------------------------------------------------------
(* Resolving an address to one candidate. *)

ReadingsOf(page) == {capture \in captures : capture.page = page}

\* mutant: the page's latest attempt stands in for the one that was cited
LatestReading(page, run) ==
    IF ReadingsOf(page) = {} THEN {}
    ELSE {CHOOSE c \in ReadingsOf(page) : \A d \in ReadingsOf(page) : d.run <= c.run}

\* The reading of exactly the cited attempt.
CitedReading(page, run) == {capture \in ReadingsOf(page) : capture.run = run}

Refused(reason) == [reason |-> reason]
Resolved(position, entry) == [reason |-> "RESOLVED", position |-> position, entry |-> entry]

EntriesAt(page, run) == (CHOOSE c \in CitedReading(page, run) : TRUE).entries

\* _cited_reading and _candidates_of: why an address leads to no entries.
AtAddress(page, run) ==
    IF page = Unstated THEN "EVIDENCE_PAGE_ABSENT"
    ELSE IF run = Unstated THEN "EVIDENCE_RUN_ABSENT"
    ELSE IF ReadingsOf(page) = {} THEN "EVIDENCE_PAGE_ABSENT"
    ELSE IF CitedReading(page, run) = {} THEN "EVIDENCE_RUN_ABSENT"
    ELSE IF NotARecord \in ElementsOf(EntriesAt(page, run)) THEN "RAISED" ELSE "READ"

Matches(entry, page) ==
    /\ item.page # Unstated => item.page = page
    /\ item.detail # Unstated => item.detail = entry.detail
    /\ item.grid # Unstated => item.grid = entry.grid

\* R1 and R2: the one candidate of the reading, or the one the item's recorded
\* provenance singles out.
ByProvenance(page, run) ==
    LET entries == EntriesAt(page, run)
        matched == {i \in DOMAIN entries : Matches(entries[i], page)}
    IN  IF AtAddress(page, run) # "READ" THEN Refused(AtAddress(page, run))
        ELSE CASE entries = <<>> -> Refused("CANDIDATE_ABSENT")
               [] Len(entries) = 1 -> Resolved(1, entries[1])
               [] Len(entries) > 1 /\ Cardinality(matched) = 1 ->
                     LET i == CHOOSE i \in matched : TRUE IN Resolved(i, entries[i])
               [] OTHER -> Refused("AMBIGUOUS_PAGE")

\* R3: the candidate at the position the item itself records, if it does.
AtRecordedAddress ==
    LET entries == EntriesAt(item.page, item.run)
        fault == AtAddress(item.page, item.run)
    IN  CASE item.index = Unstated -> ByProvenance(item.page, item.run)
          [] item.index # Unstated /\ fault # "READ" -> Refused(fault)
          [] item.index # Unstated /\ fault = "READ" ->
                IF item.index \in DOMAIN entries THEN Resolved(item.index, entries[item.index])
                ELSE Refused("CANDIDATE_INDEX_OUT_OF_RANGE")

\* What is shown beside a task: whether it asks about one field, and which,
\* with the outcome of the item's own address whatever it asks.
TaskReading(task) ==
    [state |-> IF TaskField[task] = Unstated THEN "FIELD_NOT_SINGLE" ELSE "FIELD_BOUND",
     field |-> TaskField[task],
     outcome |-> AtRecordedAddress]

RecordedReadings == {TaskReading(task) : task \in DOMAIN TaskField}

-----------------------------------------------------------------------------
(* The state of a field over everything cited for it. *)

(* The part of a recorded value that can be compared, Illegible when there  *)
(* is none: a value is admitted in its field's own form or not at all.      *)

AdmittedMarks(value) == value # <<>> /\ Illegible \notin ElementsOf(value)

AdmittedAttachments(value) ==
    /\ value # <<>> /\ Illegible \notin ElementsOf(value)
    /\ \A i, j \in DOMAIN value : value[i].mark = value[j].mark => i = j

AdmittedExactly(keys, value) ==
    DOMAIN value = keys /\ \A key \in keys : value[key] # Illegible

AdmittedDiameter(value) ==
    "diameter_mm" \in DOMAIN value /\ value["diameter_mm"] # Illegible

\* Lists lose their order, holes all but their diameter.
CanonicalValue(field, value) ==
    LET If(admitted, canonical) == IF admitted THEN canonical ELSE Illegible
    IN  CASE value \in {Illegible, Unstated} -> Illegible
          [] value \notin {Illegible, Unstated} ->
                CASE field = "connected_member_marks" -> If(AdmittedMarks(value), ElementsOf(value))
                  [] field = "attachments" -> If(AdmittedAttachments(value), ElementsOf(value))
                  [] field \in {"plate", "location"} -> If(AdmittedExactly(Keys[field], value), value)
                  [] field = "holes" ->
                        IF AdmittedDiameter(value) THEN value["diameter_mm"] ELSE Illegible
                  [] field \in {"position", "material"} -> value
                  [] field = "connection_id" -> Illegible

CitationsOf(field) == {i \in DOMAIN citations : citations[i].field = field}
OutcomeOf(i) == ByProvenance(citations[i].page, citations[i].run)

ValueOf(i) ==
    LET field == citations[i].field
    IN  IF OutcomeOf(i).reason = "RESOLVED"
        THEN CanonicalValue(field, OutcomeOf(i).entry.stated[field])
        ELSE Illegible

ComparedOf(field) == {i \in CitationsOf(field) : ValueOf(i) # Illegible}

\* mutant: each value is compared with the one cited before it only
DisagreesWithLast(field) ==
    \E i, j \in ComparedOf(field) :
        /\ i < j
        /\ \A k \in ComparedOf(field) : k <= j
        /\ ~ \E k \in ComparedOf(field) : i < k /\ k < j
        /\ ValueOf(i) # ValueOf(j)

Disagrees(field) == \E i, j \in ComparedOf(field) : ValueOf(i) # ValueOf(j)

IsHumanResolved(field) ==
    IF field = "connection_id" THEN "answer" \in human[field]
    ELSE human[field] = {"provenance", "answer"}

EvidenceStanding(field) ==
    CASE CitationsOf(field) = {} -> "UNCITED"
      [] \E i \in CitationsOf(field) : citations[i].kind # "SOURCE" -> "DERIVED"
      [] OTHER -> "DIRECT"

\* What the record alone says of a field: it sees no values to compare.
RecordedState(field) ==
    CASE IsHumanResolved(field) -> "HUMAN_RESOLVED"
      [] field = "connection_id" /\ ~IsHumanResolved(field) -> "UNCITED"
      [] OTHER -> EvidenceStanding(field)

FieldState(field) ==
    IF \E i \in CitationsOf(field) : OutcomeOf(i).reason = "RAISED" THEN "RAISED"
    ELSE IF Disagrees(field) /\ RecordedState(field) # "HUMAN_RESOLVED" THEN "CONFLICTED"
    ELSE RecordedState(field)

FieldStates == [field \in ReconciliationFields |-> FieldState(field)]

-----------------------------------------------------------------------------

InitTrail ==
    /\ captures = {}
    /\ item = Unstated
    /\ citations = <<>>
    /\ human = [field \in ReconciliationFields |-> {}]

\* A run records what it read of a page, once; a page whose reading failed is
\* recorded with no entries.
RecordReading(page, run, entries) ==
    /\ ~ \E capture \in captures : capture.page = page /\ capture.run = run
    /\ Cardinality(captures) < MaxCaptures
    /\ captures' = captures \union {[page |-> page, run |-> run, entries |-> entries]}
    /\ UNCHANGED <<item, citations, human>>

\* Run and position, the entry's among all entries of its page; an intake that
\* was not told the runs records neither.
Origin(capture, i, runKnown) ==
    IF runKnown THEN [run |-> capture.run, index |-> i] ELSE [run |-> Unstated, index |-> Unstated]

\* Intake makes an item of a usable entry.
MakeItem(capture, i, runKnown) ==
    /\ item = Unstated
    /\ i \in DOMAIN capture.entries
    /\ capture.entries[i] # NotARecord
    /\ item' = [page |-> capture.page,
                run |-> Origin(capture, i, runKnown).run,
                index |-> Origin(capture, i, runKnown).index,
                detail |-> capture.entries[i].detail,
                grid |-> capture.entries[i].grid,
                madeOf |-> capture.entries[i]]
    /\ UNCHANGED <<captures, citations, human>>

Cite(citation) ==
    /\ item # Unstated
    /\ Len(citations) < MaxCitations
    /\ citations' = Append(citations, citation)
    /\ UNCHANGED <<captures, item, human>>

\* A reviewer gives a value of their own, or answers the task on the field.
Give(field, fact) ==
    /\ item # Unstated
    /\ human' = [human EXCEPT ![field] = @ \union {fact}]
    /\ UNCHANGED <<captures, item, citations>>

NextTrail ==
    \/ \E page \in Pages, run \in Runs, entries \in Readable : RecordReading(page, run, entries)
    \/ \E capture \in captures, runKnown \in BOOLEAN :
          \E i \in DOMAIN capture.entries : MakeItem(capture, i, runKnown)
    \/ \E citation \in Citable : Cite(citation)
    \/ \E field \in {c.field : c \in Citable}, fact \in {"provenance", "answer"} : Give(field, fact)

-----------------------------------------------------------------------------
(* Properties. *)

(* The evidence shown beside a question is the very entry the item was made *)
(* of, or none: never its neighbour on the page, and never what another run *)
(* read there, however often the page has been read since                   *)
(* (resolve_candidate_at_recorded_address).                                 *)
CitedIsOwn ==
    item # Unstated =>
        \A shown \in RecordedReadings :
            shown.outcome.reason = "RESOLVED" => shown.outcome.entry = item.madeOf

(* A conflict stands until a human settles it: no later reading, citation or *)
(* half of an answer makes the disagreement disappear.  Only a citation of a *)
(* page that cannot be interpreted at all replaces it, by an error.          *)
ConflictStands ==
    [][\A field \in ReconciliationFields :
          FieldStates[field] = "CONFLICTED" =>
             FieldStates'[field] \in {"CONFLICTED", "HUMAN_RESOLVED", "RAISED"}]_trailVars
=============================================================================
