----------------------------- MODULE PageRecord -----------------------------
(***************************************************************************)
(* What the committed record of one drawing set promises, without saying   *)
(* how: its boundary moves forward one window at a time over pages it has  *)
(* just read, and a failed page leaves it only by being read again.        *)
(* Extraction is the detailed specification that implements it while       *)
(* requests are answered one at a time.                                    *)
(***************************************************************************)
EXTENDS Integers, FiniteSets

CONSTANTS Total, Window

VARIABLES
    known,      \* a record exists and states the document's page count
    boundary,   \* pages 1..boundary were read
    failed      \* those of them whose response could not be parsed

vars == <<known, boundary, failed>>

Init == known = FALSE /\ boundary = 0 /\ failed = {}

\* A new reading of the document starts again from its first window.
Restart ==
    /\ boundary' \in {Window, Total}
    /\ boundary' <= Window /\ boundary' <= Total
    /\ failed' \in SUBSET (1..boundary')
    /\ known' \in BOOLEAN

Advance ==
    /\ known
    /\ boundary' \in (boundary + 1)..Total
    /\ boundary' - boundary <= Window
    /\ \E f \in SUBSET ((boundary + 1)..boundary') : failed' = failed \cup f
    /\ UNCHANGED known

Repair ==
    /\ known
    /\ \E p \in failed : failed' = failed \ {p}
    /\ UNCHANGED <<known, boundary>>

Next == Restart \/ Advance \/ Repair

Spec == Init /\ [][Next]_vars
=============================================================================
