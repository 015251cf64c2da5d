-------------------------- MODULE MCProjectWorkflow --------------------------
EXTENDS ProjectWorkflow, TLC

(* A long member, a short one whose two ends both align with the plate, one *)
(* that stands beside it, one held for review and one of a near section.     *)
MCMembers ==
    [long  |-> [z |-> 0, length |-> 10, x |-> 0, depth |-> 6,
                held |-> FALSE, section |-> "EXACT", placed |-> TRUE, turned |-> FALSE],
     short |-> [z |-> 11, length |-> 1, x |-> 0, depth |-> 6,
                held |-> FALSE, section |-> "EXACT", placed |-> TRUE, turned |-> FALSE],
     other |-> [z |-> 11, length |-> 8, x |-> 1, depth |-> 6,
                held |-> FALSE, section |-> "EXACT", placed |-> TRUE, turned |-> FALSE],
     doubtful |-> [z |-> 11, length |-> 8, x |-> 0, depth |-> 6,
                held |-> TRUE, section |-> "EXACT", placed |-> TRUE, turned |-> FALSE],
     near |-> [z |-> 11, length |-> 8, x |-> 0, depth |-> 6,
                held |-> FALSE, section |-> "SUFFIX_FALLBACK", placed |-> TRUE, turned |-> FALSE]]

MCKnown == DOMAIN MCMembers

Plate == [kind |-> "end_plate", width |-> 6, height |-> 8, thickness |-> 1]
Holes == [quantity |-> 4, diameter |-> 1, vertical |-> 5, horizontal |-> 3]
Place == [z |-> 10, x |-> 0, turned |-> FALSE]

Answers(marks, attachments, id) ==
    [t \in {"REVIEW_STATUS", "PROVENANCE", "MALFORMED", "SPECIFICATION", "VALIDATION"} |-> "noted"]
    @@ ("MEMBER_IDENTITY" :> marks) @@ ("position" :> "END") @@ ("attachments" :> attachments)
    @@ ("TOGETHER" :> [marks |-> marks, position |-> "END", attachments |-> attachments])
    @@ ("plate" :> Plate) @@ ("holes" :> Holes) @@ ("location" :> Place)
    @@ ("IDENTITY" :> id) @@ ("MATERIAL" :> "S355")

Right1 == Answers({"long", "short"}, {<<"long", "END">>, <<"short", "START">>}, "C1")
Right2 == Answers({"long", "other"}, {<<"long", "END">>, <<"other", "START">>}, "C2")
MCRightAnswers == <<Right1, Right2>>

Read(marks, plates, material) ==
    [marks |-> marks, plates |-> plates, material |-> material, bolts |-> <<>>]
Blurred == [Plate EXCEPT !.thickness = Nothing]
Thicker == [Plate EXCEPT !.thickness = 2]

(* Right readings, an unknown mark and two plates, wrong readings that look *)
(* right, and no mark and a plate of the wrong shape.                       *)
Readings1 ==
    {Read({"long", "short"}, <<Plate>>, "S355"),
     Read({"long", "smudge"}, <<Plate, Thicker>>, Nothing),
     Read({"long", "other"}, <<Thicker>>, "S235"),
     Read({}, Misshapen, "S355")}
Readings2 == {Read({"long", "other"}, <<Plate>>, Nothing)}
MCReadings == <<Readings1, Readings2>>

(* For each question, other answers that the page lets a person submit; the *)
(* questions of Open may be left without one.                               *)
Open1 == {"REVIEW_STATUS", "PROVENANCE", "VALIDATION", "TOGETHER", "plate", "IDENTITY", "MATERIAL"}
Open2 == {"REVIEW_STATUS", "IDENTITY"}
MayBeOpen(open, others) ==
    [t \in DOMAIN others |-> others[t] \union {n \in {Nothing} : t \in open}]

Swapped == {<<"long", "END">>, <<"short", "END">>}
MCOther1 ==
    [t \in DOMAIN Right1 |->
        CASE t = "MEMBER_IDENTITY" -> {{}, {"long"}, {"long", "doubtful"}, {"long", "near"}, {"long", "smudge"}}
          [] t = "position" -> {"START", "MIDDLE"}
          [] t = "attachments" -> {Swapped, {<<"long", "START">>, <<"short", "START">>},
                                   {<<"long", "END">>}, {<<"long", "TOP">>, <<"short", "START">>}}
          [] t = "TOGETHER" -> {[Right1["TOGETHER"] EXCEPT !.attachments = Swapped],
                                [Right1["TOGETHER"] EXCEPT !.marks = {"long", "smudge"}],
                                [Right1["TOGETHER"] EXCEPT !.position = "MIDDLE"]}
          [] t = "PROVENANCE" -> {{"marks"}, {"plate"}, {"marks", "plate", "material"},
                                  {"marks", "plate", "material", "position"}, {"smudge"}}
          [] t = "plate" -> {Thicker, [Plate EXCEPT !.kind = "splice"], Blurred,
                             [Plate EXCEPT !.width = 1]}
          [] t = "holes" -> {[Holes EXCEPT !.quantity = 2, !.horizontal = Nothing],
                             [Holes EXCEPT !.quantity = 3], [Holes EXCEPT !.vertical = 9]}
          [] t = "location" -> {[Place EXCEPT !.z = 4], [Place EXCEPT !.z = 11],
                                [Place EXCEPT !.x = 5], [Place EXCEPT !.turned = TRUE]}
          [] t = "IDENTITY" -> {"C2"}
          [] t = "MATERIAL" -> {"S235"}
          [] OTHER -> {}]
MCOther2 ==
    [t \in DOMAIN Right2 |->
        CASE t = "IDENTITY" -> {"C1"}
          [] t = "attachments" -> {{<<"long", "END">>, <<"other", "END">>}}
          [] t = "holes" -> {[Holes EXCEPT !.diameter = 2]}
          [] OTHER -> {}]
MCOtherAnswers == <<MayBeOpen(Open1, MCOther1), MayBeOpen(Open2, MCOther2)>>
=============================================================================
