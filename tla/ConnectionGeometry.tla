-------------------------- MODULE ConnectionGeometry --------------------------
(***************************************************************************)
(* One reviewed end-plate connection built in project space and validated: *)
(* the plate stands where the location says, the members where their       *)
(* placements say, and the reviewed attachments must agree with both.      *)
(*                                                                         *)
(* Lengths are integers.  z is the axis of the members; x stands for both  *)
(* directions across it, which the code treats alike.  The solid modeller  *)
(* is external: two boxes are one solid exactly when they touch.           *)
(***************************************************************************)
EXTENDS Integers, FiniteSets

CONSTANTS
    Members,        \* mark -> member row with its placement
    Tolerance,      \* GEOMETRIC_ALIGNMENT_TOLERANCE_MM
    ContactMargin,  \* _MEANINGFUL_CONTACT_MARGIN_MM
    Nothing         \* a value that was not given

Ends == {"START", "END"}

Positive(v) == v # Nothing /\ v > 0

-----------------------------------------------------------------------------
(* What the three adapters accept of a reviewed specification. *)

PlateParses(plate) ==
    /\ Positive(plate.width) /\ Positive(plate.height) /\ Positive(plate.thickness)

HolesParse(holes) ==
    /\ holes # Nothing
    /\ holes.quantity \in {2, 4}
    /\ Positive(holes.diameter) /\ Positive(holes.vertical)
    /\ holes.quantity = 4 => Positive(holes.horizontal)

\* An end plate is the only connection there is.
Supported(plate) == plate # Nothing /\ plate.kind = "end_plate"

ConnectionParses(id, spec) ==
    /\ id # Nothing
    /\ spec.marks # Nothing
    /\ Supported(spec.plate)
    /\ PlateParses(spec.plate)
    /\ spec.position \in Ends
    /\ HolesParse(spec.holes)

LocationParses(location) ==
    /\ location # Nothing
    /\ location.z # Nothing /\ location.x # Nothing

\* Attachments are <<mark, surface>> pairs: one for each connected member.
AttachmentsParse(attachments, marks) ==
    /\ attachments # Nothing
    /\ \A a \in attachments : a[1] \in marks /\ a[2] \in Ends
    /\ \A m \in marks : Cardinality({a \in attachments : a[1] = m}) = 1

-----------------------------------------------------------------------------
(* Building: the members, the drilled plate and their contact. *)

\* The catalogue answers for the very section of the row, not for a near one.
SectionAuthorised(m) == Members[m].section = "EXACT"

\* The row needs no review and its section is one that can be modelled.
RowBuilds(m) ==
    /\ ~Members[m].held
    /\ Members[m].length > 0
    /\ SectionAuthorised(m)

\* A row and a placement are known for the mark.
MemberBuilds(m) ==
    /\ m \in DOMAIN Members
    /\ RowBuilds(m)
    /\ Members[m].placed

Along(m)  == [lo |-> Members[m].z, hi |-> Members[m].z + Members[m].length]
Across(m) == [lo |-> Members[m].x, hi |-> Members[m].x + Members[m].depth]

PlateAlong(spec)  == [lo |-> spec.location.z, hi |-> spec.location.z + spec.plate.thickness]
PlateAcross(spec) == [lo |-> spec.location.x, hi |-> spec.location.x + spec.plate.width]

Overlap(a, b) == (IF a.hi < b.hi THEN a.hi ELSE b.hi) - (IF a.lo > b.lo THEN a.lo ELSE b.lo)

\* Every hole centre lies strictly inside the plate, around its middle.
CentresInside(plate, holes) ==
    /\ holes.vertical < plate.height
    /\ holes.quantity = 4 => holes.horizontal < plate.width

HolesFit(plate, holes) ==
    /\ holes.diameter < plate.width
    /\ holes.diameter < plate.height
    /\ CentresInside(plate, holes)

Touches(m, spec) ==
    /\ Overlap(Along(m), PlateAlong(spec)) >= 0
    /\ Overlap(Across(m), PlateAcross(spec)) >= ContactMargin

\* A pair is built by a function of its own, which asks the same of each
\* member as the one that builds three and more.
BuildsPair(spec) ==
    /\ Cardinality(spec.marks) = 2
    /\ HolesFit(spec.plate, spec.holes)
    /\ \A m \in spec.marks : Touches(m, spec)

BuildsMany(spec) ==
    /\ Cardinality(spec.marks) > 2
    /\ HolesFit(spec.plate, spec.holes)
    /\ \A m \in spec.marks : Touches(m, spec)

\* The reviewed attachments name one end of each member that was built.
FacesResolve(spec) ==
    \A m \in spec.marks : \E a \in spec.attachments : a[1] = m /\ a[2] \in Ends

AssemblesPair(spec) == FacesResolve(spec) /\ BuildsPair(spec)

AssemblesMany(spec) == FacesResolve(spec) /\ BuildsMany(spec)

-----------------------------------------------------------------------------
(* Validating the assembly against the reviewed attachments. *)

FacePosition(m, end) == IF end = "END" THEN Along(m).hi ELSE Along(m).lo

Aligned(m, end, spec) ==
    /\ PlateAlong(spec).lo - Tolerance <= FacePosition(m, end)
    /\ FacePosition(m, end) <= PlateAlong(spec).hi + Tolerance

Distance(a, b) == IF a < b THEN b - a ELSE a - b

\* The face of the plate a member faces is the one nearest the middle of the
\* member's own solid, the lower one when neither is nearer.
FacesLower(m, spec) ==
    LET middle == Along(m).lo + Along(m).hi
    IN  Distance(middle, 2 * PlateAlong(spec).lo) <= Distance(middle, 2 * PlateAlong(spec).hi)

OpposesIfAligned(m, end, spec) ==       \* mutant: alignment taken for contact
    \/ (end = "END") = FacesLower(m, spec)
    \/ Aligned(m, end, spec)

\* Outward normals: END +z, START -z, the lower plate face -z, the upper +z.
Opposes(m, end, spec) == (end = "END") = FacesLower(m, spec)

Upright(spec) ==
    /\ ~spec.location.turned
    /\ \A m \in spec.marks : ~Members[m].turned

Consistent(spec) ==
    /\ Upright(spec)
    /\ \A a \in spec.attachments : Aligned(a[1], a[2], spec) /\ Opposes(a[1], a[2], spec)

ValidatesPair(spec) == AssemblesPair(spec) /\ Consistent(spec)

ValidatesMany(spec) == AssemblesMany(spec) /\ Consistent(spec)

\* A connection of one member fits neither path.
Validates(spec) ==
    /\ \A m \in spec.marks : MemberBuilds(m)
    /\ ValidatesPair(spec) \/ ValidatesMany(spec)
=============================================================================
