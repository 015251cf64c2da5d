----------------------------- MODULE MCEvidence -----------------------------
(* One run over four parts that share no state, each explored from its own *)
(* initial state: the coverage of a drawing set, the trail from a review    *)
(* item to its page readings, the delivery of a settled conflict, and the   *)
(* validation of the members a window of pages states.                      *)
EXTENDS MCProductionCoverage, EvidenceTrail, ConflictDelivery, MemberValidation, TLC

CONSTANTS s1, s2

Interchangeable == Permutations({s1, s2})

VARIABLE part   \* the part this behaviour explores

coverageVars == <<analysisVars, job, jobs, disk, package, folder, review, faults>>

Entry(detail, attachments) ==
    [detail |-> detail, grid |-> Unstated, stated |-> [attachments |-> attachments]]
At(mark, face) == [mark |-> mark, face |-> face]
Joined == <<At("a", "END"), At("b", "START")>>

\* One entry; an entry beside one that is no record; two entries that the detail
\* tells apart, one of them the other way round and stated in another order;
\* two it does not, of which one names a mark twice; a page that failed.
MCReadable ==
    {<<Entry("A", Joined)>>,
     <<NotARecord, Entry("A", Joined)>>,
     <<Entry("A", <<At("a", "START"), At("b", "END")>>),
       Entry("B", <<At("b", "START"), At("a", "END")>>)>>,
     <<Entry("A", <<At("a", "END"), At("a", "START")>>), Entry("A", Joined)>>,
     <<>>}

Citation(kind, page, run) ==
    [field |-> "attachments", kind |-> kind, page |-> page, run |-> run]
MCCitable == {Citation("SOURCE", 1, 1), Citation("SOURCE", 1, 2), Citation("DERIVATION", 2, 1)}

MCTaskField ==
    [t \in {"REVIEW_STATUS", "attachments"} |-> IF t = "attachments" THEN t ELSE Unstated]

MCKeys ==
    [plate |-> {"type", "thickness_mm", "width_mm", "depth_mm"},
     location |-> {"x", "y", "z", "rotation_x", "rotation_y", "rotation_z"}]

\* Two readings of a section of one name, both against the same catalogue row.
Row(name, depth) ==
    [name |-> name,
     dims |-> [d \in {"depth", "width"} |-> IF d = "depth" THEN depth ELSE Absent]]
MCCaptured == {Row("n", 1), Row("n", 3)}
MCCatalogue == {Row("n", 2)}

\* A section of the table, the same written without its decimal, one the table
\* does not have, a timber, none; under one mark written two ways, or none.
Steel(size, decimal) == [size |-> size, decimal |-> decimal]
MCCatalogues == {{Steel("a", 1), Steel("a", 2)}, {Steel("a", Bare), Steel("a", 2)}}
MCTimber == {Steel("timber", Bare)}
Mark(letters, written) == [letters |-> letters, written |-> written]
MCStated ==
    {[mark |-> mark, section |-> section, low |-> FALSE] :
        mark \in {Mark("M", "plain"), Mark("M", "lower"), Mark(NoMark, "plain")},
        section \in {Steel("a", 1), Steel("a", 2), Steel("a", Bare), Steel("timber", Bare)}}
    \union {[mark |-> Mark("M", "run in"), section |-> Steel("a", Bare), low |-> TRUE],
            [mark |-> Mark("M", "plain"), section |-> NoSection, low |-> FALSE]}

NothingValidated ==
    sections = {} /\ window = <<>> /\ rows = {} /\ read = 0 /\ edits = 0

MCReports ==
    {[i \in ReportedItems |-> IF i = "MATERIAL_STATED" THEN "MISSING" ELSE "PRESENT"]}
MCAnswers ==
    {[i \in DeliverableItems |-> IF i = "MATERIAL_STATED" THEN "NOT_APPLICABLE" ELSE "PASS"],
     [i \in DeliverableItems |-> "FAIL"]}

InitEvidence ==
    /\ InitCoverage /\ InitTrail /\ InitDelivery
    /\ part \in {"coverage", "trail", "delivery", "validation"}
    /\ IF part = "validation" THEN InitValidation ELSE NothingValidated

NextEvidence ==
    \/ part = "coverage" /\ NextCoverage /\ UNCHANGED <<trailVars, deliveryVars, validationVars, part>>
    \/ part = "trail" /\ NextTrail /\ UNCHANGED <<coverageVars, deliveryVars, validationVars, part>>
    \/ part = "delivery" /\ NextDelivery /\ UNCHANGED <<coverageVars, trailVars, validationVars, part>>
    \/ part = "validation" /\ NextValidation /\ UNCHANGED <<coverageVars, trailVars, deliveryVars, part>>

SpecEvidence == InitEvidence /\ [][NextEvidence]_<<coverageVars, trailVars, deliveryVars, validationVars, part>>
=============================================================================
