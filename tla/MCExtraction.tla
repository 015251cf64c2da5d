---------------------------- MODULE MCExtraction ----------------------------
(* Instances of Extraction for TLC: what each page of the document bears.  *)
EXTENDS Extraction, TLC

CONSTANTS t1, t2, t3, t4, m1, m2, m3

OnPage(marks, connection, held) ==
    [parsed |-> TRUE, marks |-> marks, connection |-> connection, held |-> held]

\* A first page with one clean member; a second with a member and a connection,
\* which may be held for review and may bear the first page's mark as well; then
\* pages with a connection and perhaps a member drawn unmarked.
Drawings ==
    [p \in 1..Total |->
        CASE p = 1 -> {OnPage({m1}, FALSE, FALSE)}
          [] p = 2 -> {OnPage({m2}, TRUE, FALSE), OnPage({m1, m2}, TRUE, TRUE)}
          [] OTHER -> {OnPage({m3}, TRUE, FALSE), OnPage({}, TRUE, FALSE)}]

\* A first page with a member, then pages with a connection and no member.
ConnectionPages ==
    [p \in 1..Total |-> {OnPage(IF p = 1 THEN {m1} ELSE {}, p > 1, FALSE)}]

Interchangeable == Permutations(Tasks)
=============================================================================
