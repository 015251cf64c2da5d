---------------------------- MODULE ReviewSnapshot ----------------------------
(***************************************************************************)
(* The recorded picture of one project's connection review: what a review  *)
(* revision holds (cad_engine/connection_review_snapshot.py), how the next *)
(* workflow state is made of it (cad_engine/project_workflow.py) and how a *)
(* workflow is rebuilt from a chain of them (production_review/            *)
(* project_workflow_resumption.py).  Pure operators: no state.             *)
(***************************************************************************)
EXTENDS Naturals, Sequences

CONSTANTS
    Connections,    \* review package ids, one per connection of the reading
    Origins,        \* candidate origins: the run and position a candidate was read at
    Never           \* last_processed_revision of an untouched connection

ASSUME NeverIsNoRevision == Never \notin Nat

\* CONFIRM is never generated, uploaded or pointed at either: it is REVIEW here.
Decision == {"AUTO", "REVIEW"}

Item == [decision: Decision, processed: Nat \cup {Never}, origin: Origins]

\* One item for each connection of the project at that revision.
IsRevision(r) == \E S \in SUBSET Connections : r \in [S -> Item]

\* What a document's readings reconstruct to: the origin of each candidate.
Evidence == UNION {[S -> Origins] : S \in SUBSET Connections}

\* start_project_workflow: revision 0, where a raw candidate is never AUTO.
Baseline(e) ==
    [k \in DOMAIN e |-> [decision |-> "REVIEW", processed |-> Never, origin |-> e[k]]]

\* latest_recorded_revision, and the head of a replay: no revision is revision 0.
HeadRevision(chain) == IF chain = <<>> THEN 0 ELSE Len(chain) - 1

Advanced(r, n) == {k \in DOMAIN r : r[k].processed = n}

\* replay_revision over revisions 1..head: each names the connections of the
\* reconstruction r and advances exactly one.  Revision 0 is not read back.
Replayable(r, chain) ==
    \A n \in 2..Len(chain) :
        /\ DOMAIN chain[n] = DOMAIN r
        /\ \E k \in DOMAIN r : Advanced(chain[n], n - 1) = {k}

\* The resumed workflow: the recorded states over the candidates of r.
Resumed(r, chain) ==
    IF HeadRevision(chain) = 0 THEN r
    ELSE [k \in DOMAIN r |-> [chain[Len(chain)][k] EXCEPT !.origin = r[k].origin]]

\* Mutant of Resolvable: the one-shot guard is missing.
ResolvableAgain(r, k) ==
    k \in DOMAIN r /\ \A j \in DOMAIN r \ {k} : r[j].processed = Never

\* resolve_project_connection accepts connection k: it is of this project, was
\* not processed before, and the composite gate finds a pipeline behind every
\* other connection, which a replayed processed connection does not have.
Resolvable(r, k) ==
    /\ k \in DOMAIN r
    /\ r[k].processed = Never
    /\ \A j \in DOMAIN r \ {k} : r[j].processed = Never

\* The next workflow state: only the resolved connection moves.
Resolved(r, k, decision, revision) ==
    [r EXCEPT ![k].decision = decision, ![k].processed = revision]

\* Mutant of Diverges: recorded origins are not compared.
DivergesByName(prior, r) == DOMAIN prior # DOMAIN r

\* build_review_snapshot against the previous revision: the same connections,
\* each at the origin recorded for it.
Diverges(prior, r) ==
    \/ DOMAIN prior # DOMAIN r
    \/ \E k \in DOMAIN r : prior[k].origin # r[k].origin
=============================================================================
