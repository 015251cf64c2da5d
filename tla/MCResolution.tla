---------------------------- MODULE MCResolution ----------------------------
(* Instances of Resolution for TLC: what the project's document may give.  *)
EXTENDS Resolution, TLC

CONSTANTS t1, t2, t3, d1, k1, k2, run1, run2

\* Both connections as one run read them, and the second as another run did.
DocumentReadings == {k1 :> run1 @@ k2 :> run1, k1 :> run1 @@ k2 :> run2}

\* Both connections; and the first alone, before the second's page was read.
PartialReadings == {k1 :> run1 @@ k2 :> run1, k1 :> run1}

OneReading == {k1 :> run1 @@ k2 :> run1}

Interchangeable == Permutations(Tasks)
=============================================================================
