--------------------------- MODULE ConnectionReview ---------------------------
(***************************************************************************)
(* What the review of one extracted connection says: the value and the     *)
(* provenance of each engineering field, the blockers of the automation    *)
(* gate, the questions asked of a person, and the supplement the answers   *)
(* make.                                                                   *)
(*                                                                         *)
(* An extraction is what the model read off one drawing; a supplement is   *)
(* what a person decided about it.  The marks of a project's members are   *)
(* always known here: the session is started with the member rows.         *)
(***************************************************************************)
EXTENDS ConnectionGeometry, Sequences

CONSTANTS
    Known,              \* known_member_marks
    MaterialRequested,  \* request_material_specification
    Misshapen           \* a value of the wrong shape in the model's answer

Required == {"marks", "position", "plate", "holes", "location", "attachments"}
Fields == Required \union {"material"}      \* ENGINEERING_FIELDS

NoReview == [id |-> Nothing, approved |-> FALSE, confirmed |-> {},
             supplied |-> [f \in Fields |-> Nothing]]

-----------------------------------------------------------------------------
(* What the AI read, and whether a person may confirm it. *)

\* A value of the wrong shape is set aside by name and never interpreted.
ExtractionOf(raw) ==
    LET readable(f, otherwise) == IF raw[f] = Misshapen THEN otherwise ELSE raw[f]
    IN  [marks |-> readable("marks", {}),
         plates |-> readable("plates", <<>>),
         material |-> readable("material", Nothing),
         malformed |-> {f \in DOMAIN raw : raw[f] = Misshapen}]

Usable(e, f) ==
    \/ f = "marks" /\ e.marks # {} /\ e.marks \subseteq Known
    \/ f = "plate" /\ Len(e.plates) = 1
                   /\ Nothing \notin {e.plates[1].width, e.plates[1].height,
                                      e.plates[1].thickness}
    \/ f = "material" /\ e.material # Nothing

AiValue(e, f) ==
    CASE f = "marks" -> e.marks
      [] f = "plate" -> e.plates[1]
      [] f = "material" -> e.material

-----------------------------------------------------------------------------
(* One field of the review report. *)

Ambiguous(s, f) == s.supplied[f] # Nothing /\ f \in s.confirmed
Supplied(s, f)  == s.supplied[f] # Nothing /\ f \notin s.confirmed
Confirmed(e, s, f) == s.supplied[f] = Nothing /\ f \in s.confirmed /\ Usable(e, f)
HumanOwnedIfRead(e, s, f) ==            \* mutant: a reading counts as a decision
    Supplied(s, f) \/ Usable(e, f)

HumanOwned(e, s, f) == Supplied(s, f) \/ Confirmed(e, s, f)
Pending(e, s, f) == Usable(e, f) /\ ~HumanOwned(e, s, f)    \* AI_EXTRACTED
Missing(e, s, f) == ~Usable(e, f) /\ ~HumanOwned(e, s, f)

Value(e, s, f) ==
    IF Supplied(s, f) THEN s.supplied[f]
    ELSE IF Usable(e, f) THEN AiValue(e, f) ELSE Nothing

Specification(e, s) == [f \in Fields |-> Value(e, s, f)]

\* The marks that are still not among the project's members.
UnknownMarks(e, s) ==
    IF Missing(e, s, "marks") THEN e.marks \ Known ELSE Value(e, s, "marks") \ Known

\* A person approved the review and decided every field that is required.  The
\* status an extraction may come with (persisted_review_status) counts where the
\* person gave none; nothing in the program ever states one.
Authorised(e, s) ==
    /\ s.approved
    /\ \A f \in Required : HumanOwned(e, s, f)

Complete(e, s) ==
    LET spec == Specification(e, s)
    IN  /\ Authorised(e, s)
        /\ ConnectionParses(s.id, spec)
        /\ LocationParses(spec.location)
        /\ AttachmentsParse(spec.attachments, spec.marks)
        /\ UnknownMarks(e, s) = {}

-----------------------------------------------------------------------------
(* The automation pipeline and its gate. *)

\* The pipeline never looks at who decided a value: that is the gate's part.
PipelineValidates(e, s) ==
    LET spec == Specification(e, s)
    IN  /\ ConnectionParses(s.id, spec)
        /\ LocationParses(spec.location)
        /\ AttachmentsParse(spec.attachments, spec.marks)
        /\ Validates(spec)

FieldBlockers == {"position", "plate", "holes", "location", "attachments"}

MembersUnidentified(e, s) == Value(e, s, "marks") = Nothing \/ UnknownMarks(e, s) # {}

Blockers(e, s, validated) ==
    {b \in {"REVIEW_STATUS"} : ~s.approved}
    \union {b \in {"MEMBER_IDENTITY"} : MembersUnidentified(e, s)}
    \union {b \in {"PROVENANCE"} : \E f \in Fields : Pending(e, s, f)}
    \union {f \in FieldBlockers : Missing(e, s, f)}
    \union {b \in {"MALFORMED"} : e.malformed # {}}
    \union {b \in {"CONFLICT"} : \/ \E f \in Fields : Ambiguous(s, f)
                                 \/ ~(s.confirmed \subseteq Fields)}
    \union {b \in {"SPECIFICATION"} : ~Complete(e, s)}
    \union {b \in {"VALIDATION"} : ~validated}

\* The validation verdict is always evidence here and no confirmation is
\* requested, so the decision CONFIRM is never taken.
Decision(e, s, validated) == IF Blockers(e, s, validated) = {} THEN "AUTO" ELSE "REVIEW"

\* What the pipeline concludes of a reviewed connection.
Evaluation(e, s) ==
    LET validated == PipelineValidates(e, s)
    IN  [id |-> s.id, validated |-> validated, decision |-> Decision(e, s, validated)]

\* The evaluation a project starts with: no review, and no member to validate.
Unreviewed(e) ==
    [id |-> Nothing, validated |-> FALSE, decision |-> Decision(e, NoReview, FALSE)]

\* The fabrication output gate asks once more for what it lets out.
OutputDecision(evaluation) ==
    IF evaluation.decision = "AUTO" /\ evaluation.id # Nothing /\ evaluation.validated
    THEN "AUTO" ELSE "REVIEW"

-----------------------------------------------------------------------------
(* The questions of a connection, named for the blocker they are about, and *)
(* what the answers make of the supplement.                                 *)

Together == {"MEMBER_IDENTITY", "position", "attachments"}

TasksWithoutIdentity(e) ==              \* mutant: nobody is asked for the identity
    Blockers(e, NoReview, FALSE) \union {t \in {"MATERIAL"} : MaterialRequested}

\* The questions are made once, before any member is placed: nothing is
\* validated then, and the supplement is the empty one.
Tasks(e) ==
    LET b == Blockers(e, NoReview, FALSE)
    IN  (IF Together \subseteq b THEN {"TOGETHER"} ELSE b \intersect Together)
        \union (b \ Together)
        \union {"IDENTITY"}
        \union {t \in {"MATERIAL"} : MaterialRequested /\ Missing(e, NoReview, "material")}

\* A connection that needs no review is asked nothing.
Questions(e) == IF Unreviewed(e).decision = "REVIEW" THEN Tasks(e) ELSE {}

TaskOf(f) == CASE f = "marks" -> "MEMBER_IDENTITY"
               [] f = "material" -> "MATERIAL"
               [] OTHER -> f

\* An answer that cannot be stored raises, whatever else the form holds.
Payload(task, answer) ==
    CASE task \in {"MEMBER_IDENTITY", "attachments", "PROVENANCE"} -> answer # {}
      [] task = "TOGETHER" -> answer.marks # {} /\ answer.attachments # {}
      [] OTHER -> TRUE

\* _refusal_reason: an answer outside the choices its question offered.
Refused(task, answer) ==
    LET badMarks(m) == ~(m \subseteq DOMAIN Members)
        badEnds(a) == \E x \in a : x[2] \notin Ends
    IN  \/ task = "MEMBER_IDENTITY" /\ badMarks(answer)
        \/ task = "position" /\ answer \notin Ends
        \/ task = "attachments" /\ badEnds(answer)
        \/ task = "TOGETHER" /\ \/ badMarks(answer.marks)
                                \/ answer.position \notin Ends
                                \/ badEnds(answer.attachments)

\* A form maps the questions of a connection to their answers; an answer of
\* Nothing leaves its question open.
IsApplied(form, t) == t \in DOMAIN form /\ form[t] # Nothing /\ ~Refused(t, form[t])

Applied(form) == {t \in DOMAIN form : IsApplied(form, t)}

Given(form, f) ==
    IF IsApplied(form, TaskOf(f)) THEN form[TaskOf(f)]
    ELSE IF f \in {"marks", "position", "attachments"} /\ IsApplied(form, "TOGETHER")
    THEN form["TOGETHER"][f] ELSE Nothing

ConfirmedBy(form) ==
    IF IsApplied(form, "PROVENANCE") THEN form["PROVENANCE"] ELSE {}

\* Answers are applied in the order of their questions: a confirmation clears
\* what was supplied before it, and not what is supplied after it.
AskedBeforeConfirming == {"marks", "position", "attachments"}

ResolvedSupplement(form) ==
    [id |-> IF IsApplied(form, "IDENTITY") THEN form["IDENTITY"] ELSE Nothing,
     approved |-> IsApplied(form, "REVIEW_STATUS"),
     confirmed |-> ConfirmedBy(form),
     supplied |-> [f \in Fields |->
                     IF f \in AskedBeforeConfirming \intersect ConfirmedBy(form)
                     THEN Nothing ELSE Given(form, f)]]

-----------------------------------------------------------------------------
(* The acceptance's traceability: what each applied answer decided carries  *)
(* a person's provenance in the resolved review.                            *)

Decided(form) ==
    {f \in Fields : Given(form, f) # Nothing} \union ConfirmedBy(form)

Traceable(e, form) ==
    LET s == ResolvedSupplement(form)
    IN  \A f \in Decided(form) : f \in Fields /\ HumanOwned(e, s, f)
=============================================================================
