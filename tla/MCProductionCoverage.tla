------------------------ MODULE MCProductionCoverage ------------------------
(* A drawing set of three pages for TLC: what may be captured, drawn and    *)
(* answered.                                                                *)
EXTENDS ProductionCoverage

Page(n, failed, title, drawing, entries) ==
    [number |-> n, failed |-> failed, title |-> title, drawing |-> drawing, entries |-> entries]

Page1 == Page(1, FALSE, "A", "S1", <<"a">>)
Page2 == Page(2, FALSE, Untitled, "S2", <<Unusable, "b">>)
Page2Failed == Page(2, TRUE, Untitled, Unnumbered, <<>>)
Page3 == Page(3, FALSE, "A", Unnumbered, <<>>)
Alike == Page(1, FALSE, "A", Unnumbered, <<"c", "c", "c">>)
Stranger == Page(3, FALSE, "B", "S3", <<>>)

\* In order, out of order, over a gap, a page twice, a page of alike entries,
\* a page that failed, and a page of another drawing.
MCSlices ==
    {<<Page1>>, <<Page3, Page2>>, <<Page2Failed>>,
     <<Page1, Page1>>, <<Alike>>, <<Stranger>>}

\* A drawing with everything but a second member row, and one whose plate
\* contradicts the record.
MCDrawings == {"good", "poor"}
MCShows ==
    [d \in MCDrawings |->
        [item \in BaseItems |->
            CASE item = "MEMBER_B" -> "MISSING"
              [] d = "poor" /\ item = "PLATE_INFORMATION" -> "CONTRADICTED"
              [] OTHER -> "PRESENT"]]

Filled(waived, failed) ==
    [item \in ChecklistItems |->
        IF item \in waived THEN "NOT_APPLICABLE" ELSE IF item \in failed THEN "FAIL" ELSE "PASS"]

\* Accepting, failing, waiving whatever is wrong, and leaving items out.
MCSheets ==
    {Filled({"MEMBER_B"}, {}), Filled({"MEMBER_B"}, {"AMBIGUITY"}),
     Filled({"PLATE_INFORMATION", "MEMBER_B", "AMBIGUITY", "VISUAL_CONTRADICTION",
             "FABRICATION_BLOCKING"}, {}),
     [item \in BaseItems |-> "PASS"]}
=============================================================================
