------------------------------ MODULE Resolution ------------------------------
(***************************************************************************)
(* Reviewing one project's connections over HTTP: opening the review       *)
(* (production_review_opening.py) and resolving a connection               *)
(* (production_review_resolution.py), over the claim that keeps reviewers  *)
(* apart (J44), the append-only chain that records them (J22), the storage *)
(* of verified drawings (J45) and the project's drawing pointer.  Each     *)
(* request is one handler whose calls interleave with those of others; a   *)
(* handler may fail or die between two calls, a lease may end at any time, *)
(* and the readings of a document may change underneath.                   *)
(***************************************************************************)
EXTENDS ReviewSnapshot, FiniteSets

CONSTANTS
    Tasks,          \* requests, each with the claim token it may be given
    Documents,      \* source documents of the project
    Readings,       \* what a document's captures may reconstruct to
    LeasesExpire,   \* may a lease end before its request does?
    AnswersLost,    \* may a call end unanswered, whether or not it took effect?
    None

ASSUME ReadingsAreEvidence == Readings \subseteq Evidence
ASSUME NoneIsNothing == None \notin Tasks \cup Connections

VARIABLES
    reading,    \* the candidates each document's standing captures give
    chain,      \* connection_review_snapshots: chain[n + 1] is revision n
    claim,      \* the token of the project's live claim, or None
    stored,     \* whose drawing lies at each connection's durable path
    pointer,    \* projects.fab_drawings_pdf_path, as a connection
    pc,         \* the next call of each request
    job,        \* what each request asks
    work,       \* what each request has read and built so far
    outcome     \* the answer each request gives

store == <<reading, chain, claim, stored, pointer>>
request == <<pc, job, work, outcome>>
vars == <<store, request>>

Chain == INSTANCE ReviewChain

OpenJob == [kind: {"open"}, document: Documents]

ResolveJob == [kind: {"resolve"}, document: Documents, target: Connections, expected: Nat]

Steps == {"asked", "reconstruct", "resume", "resolve", "upload", "recheck", "previous",
          "persist", "gap", "readback", "point", "release"}

\* A request whose write was recorded and whose answer was lost is refused like any
\* other; it is told apart here, as "unanswered", from one that recorded nothing.
Outcomes == {"pending", "opened", "already", "unreadable", "recorded", "failed",
             "unanswered", "conflict", "refused"}

TypeOK ==
    /\ reading \in [Documents -> Readings]
    /\ DOMAIN chain = 1..Len(chain)
    /\ \A n \in DOMAIN chain : IsRevision(chain[n])
    /\ claim \in Tasks \cup {None}
    /\ stored \in [Connections -> Tasks \cup {None}]
    /\ pointer \in Connections \cup {None}
    /\ pc \in [Tasks -> {"idle", "ended"} \cup Steps]
    /\ job \in [Tasks -> OpenJob \cup ResolveJob \cup {None}]
    /\ \A t \in Tasks :
        /\ work[t].head \in Nat /\ work[t].durable \in BOOLEAN
        /\ IsRevision(work[t].items)
    /\ outcome \in [Tasks -> Outcomes]

NoWork == [head |-> 0, items |-> [k \in {} |-> None], durable |-> FALSE]

\* A project whose documents were read and whose review nobody opened.
Init ==
    /\ reading \in [Documents -> Readings]
    /\ chain = <<>>
    /\ claim = None
    /\ stored = [k \in Connections |-> None]
    /\ pointer = None
    /\ pc = [t \in Tasks |-> "idle"]
    /\ job = [t \in Tasks |-> None]
    /\ work = [t \in Tasks |-> NoWork]
    /\ outcome = [t \in Tasks |-> "pending"]

-----------------------------------------------------------------------------
(***************************************************************************)
(* A request moves to its next call, or gives its answer.  Everything      *)
(* after the claim runs inside try/finally: a resolution that gives its    *)
(* answer early still releases, an opening has nothing to release.         *)
(***************************************************************************)
Opens(t) == job[t].kind = "open"

Goto(t, label) == pc' = [pc EXCEPT ![t] = label]

Answer(t, answer) == outcome' = [outcome EXCEPT ![t] = answer]

\* What a handler read and built is its own, and gone with it.
Forget(t) == work' = [work EXCEPT ![t] = NoWork]

\* Mutant of Leave: an early answer returns past the release.
LeaveUnreleased(t, answer) == Answer(t, answer) /\ Forget(t) /\ Goto(t, "ended")

Leave(t, answer) ==
    /\ Answer(t, answer)
    /\ Forget(t)
    /\ Goto(t, IF Opens(t) THEN "ended" ELSE "release")

\* The revision this request is to record: 7AJ's own counter.
RevisionOf(t) == IF Opens(t) THEN 0 ELSE work[t].head + 1

\* production_review_open and production_connection_resolve: what a reviewer
\* may ask, having seen some revision of the project or believing in the next.
Ask(t) ==
    /\ pc[t] = "idle"
    /\ \E d \in Documents, k \in Connections, n \in 0..(HeadRevision(chain) + 1) :
        \E j \in {[kind |-> "open", document |-> d],
                  [kind |-> "resolve", document |-> d, target |-> k, expected |-> n]} :
            job' = [job EXCEPT ![t] = j]
    /\ Goto(t, "asked")
    /\ UNCHANGED <<store, work, outcome>>

\* acquire_project_review_claim: inserted or taken over when no claim is live.
\* The call is made before the try: if only its answer is lost, the claim is held.
Acquire(t) ==
    /\ pc[t] = "asked" /\ ~ Opens(t)
    /\ \/ claim = None /\ claim' = t /\ Goto(t, "reconstruct") /\ UNCHANGED outcome
       \/ /\ \/ claim # None /\ UNCHANGED claim
             \/ AnswersLost /\ claim' = IF claim = None THEN t ELSE claim
          /\ Goto(t, "ended")
          /\ Answer(t, "refused")
    /\ UNCHANGED <<reading, chain, stored, pointer, job, work>>

\* open_project_review: only an empty chain is written to.  It takes no claim.
CheckUnopened(t) ==
    /\ pc[t] = "asked" /\ Opens(t)
    /\ IF chain = <<>> THEN Goto(t, "reconstruct") /\ UNCHANGED <<work, outcome>>
       ELSE Leave(t, "already")
    /\ UNCHANGED <<store, job>>

\* reconstruct_project_workflow: revision 0 of the named document's candidates.
Reconstruct(t) ==
    /\ pc[t] = "reconstruct"
    /\ work' = [work EXCEPT ![t].items = Baseline(reading[job[t].document])]
    /\ Goto(t, "resume")
    /\ UNCHANGED <<store, job, outcome>>

Expected(t) == IF Opens(t) THEN 0 ELSE job[t].expected

\* resume_project_workflow: the recorded revisions, a prefix of an append-only chain,
\* replayed onto the reconstruction.
Resume(t) ==
    /\ pc[t] = "resume"
    /\ IF HeadRevision(chain) = Expected(t) /\ Replayable(work[t].items, chain)
       THEN /\ work' = [work EXCEPT ![t].head = HeadRevision(chain),
                                    ![t].items = Resumed(@, chain)]
            /\ Goto(t, IF Opens(t) THEN "previous" ELSE "resolve")
            /\ UNCHANGED outcome
       ELSE Leave(t, "refused")
    /\ UNCHANGED <<store, job>>

\* resolve_project_connection: decides, generates and verifies; only a verified
\* drawing of an AUTO decision goes on to be uploaded.
Resolve(t) ==
    /\ pc[t] = "resolve"
    /\ IF Resolvable(work[t].items, job[t].target)
       THEN \E d \in Decision, verified \in BOOLEAN :
            /\ work' = [work EXCEPT ![t].items =
                            Resolved(@, job[t].target, d, work[t].head + 1)]
            /\ Goto(t, IF d = "AUTO" /\ verified THEN "upload" ELSE "recheck")
            /\ UNCHANGED outcome
       ELSE Leave(t, "refused")
    /\ UNCHANGED <<store, job>>

\* upload_verified_artifact: the connection's one deterministic path, upserted.
\* A failed upload is an outcome, whether or not its bytes landed.
Upload(t) ==
    /\ pc[t] = "upload"
    /\ \E landed, answered \in BOOLEAN :
        /\ answered => landed
        /\ landed /\ ~ answered => AnswersLost
        /\ stored' = IF landed THEN [stored EXCEPT ![job[t].target] = t] ELSE stored
        /\ work' = [work EXCEPT ![t].durable = answered]
    /\ Goto(t, "recheck")
    /\ UNCHANGED <<reading, chain, claim, pointer, job, outcome>>

\* Mutant of Recheck: the request's own expectation is compared to the count of
\* recorded revisions, of which revision 0 is one.
RecheckByCount(t) ==
    /\ pc[t] = "recheck"
    /\ IF Len(chain) = work[t].head
       THEN Goto(t, "previous") /\ UNCHANGED <<work, outcome>>
       ELSE Leave(t, "conflict")
    /\ UNCHANGED <<store, job>>

\* The re-read immediately before the write.
Recheck(t) ==
    /\ pc[t] = "recheck"
    /\ IF HeadRevision(chain) = work[t].head
       THEN Goto(t, "previous") /\ UNCHANGED <<work, outcome>>
       ELSE Leave(t, "conflict")
    /\ UNCHANGED <<store, job>>

\* SNAPSHOT_REFUSED_REVISION_GAP, from the builder or from the database.
Gap(t) ==
    IF Opens(t) THEN Goto(t, "gap") /\ UNCHANGED <<work, outcome>> ELSE Leave(t, "conflict")

\* record_project_review before it writes: the previous revision is read, and
\* the snapshot built against its items.
BuildSnapshot(t) ==
    /\ pc[t] = "previous"
    /\ IF Len(chain) # RevisionOf(t) THEN Gap(t)
       ELSE IF chain # <<>> /\ Diverges(chain[Len(chain)], work[t].items)
       THEN Leave(t, "refused")
       ELSE Goto(t, "persist") /\ UNCHANGED <<work, outcome>>
    /\ UNCHANGED <<store, job>>

\* Mutant of Recorded: an AUTO decision is pointed at, delivered or not.
RecordedUndelivered(t) ==
    /\ Answer(t, IF Opens(t) THEN "opened" ELSE "recorded")
    /\ Goto(t, IF Opens(t) THEN "readback"
               ELSE IF work[t].items[job[t].target].decision = "AUTO" THEN "point" ELSE "release")
    /\ UNCHANGED work

\* Where a request stands once its revision is recorded.
Recorded(t) ==
    /\ Answer(t, IF Opens(t) THEN "opened" ELSE "recorded")
    /\ Goto(t, IF Opens(t) THEN "readback" ELSE IF work[t].durable THEN "point" ELSE "release")
    /\ UNCHANGED work

\* record_connection_review_snapshot: the next revision or nothing, atomically.
Persist(t) ==
    /\ pc[t] = "persist"
    /\ IF Len(chain) = RevisionOf(t)
       THEN /\ chain' = Append(chain, work[t].items)
            /\ \/ Recorded(t)
               \/ AnswersLost /\ Leave(t, "unanswered")
       ELSE Gap(t) /\ UNCHANGED chain
    /\ UNCHANGED <<reading, claim, stored, pointer, job>>

\* An opening that lost its race reads the head again.
ReadAfterGap(t) ==
    /\ pc[t] = "gap"
    /\ Leave(t, IF chain # <<>> THEN "already" ELSE "refused")
    /\ UNCHANGED <<store, job>>

\* The baseline is read back; it may fail to be.
ReadBack(t) ==
    /\ pc[t] = "readback"
    /\ \E answer \in {"opened", "unreadable"} : Leave(t, answer)
    /\ UNCHANGED <<store, job>>

\* Mutant of Point: a pointer that could not be written fails the request.
PointOrRefuse(t) ==
    /\ pc[t] = "point"
    /\ \/ pointer' = job[t].target /\ Goto(t, "release") /\ UNCHANGED <<work, outcome>>
       \/ Leave(t, "refused") /\ UNCHANGED pointer
    /\ UNCHANGED <<reading, chain, claim, stored, job>>


\* record_fabrication_pointer: last, and its failure changes nothing recorded.
Point(t) ==
    /\ pc[t] = "point"
    /\ pointer' \in {job[t].target, pointer}
    /\ Goto(t, "release")
    /\ UNCHANGED <<reading, chain, claim, stored, job, work, outcome>>

\* Mutant of Release: the project's claim is freed, whoever holds it.
ReleaseProject(t) ==
    /\ pc[t] = "release"
    /\ claim' = None
    /\ Goto(t, "ended")
    /\ Forget(t)
    /\ UNCHANGED <<reading, chain, stored, pointer, job, outcome>>

\* release_project_review_claim: by token, and only while it is live.  A release
\* that breaks leaves the lease to run out and takes a success with it.
Release(t) ==
    /\ pc[t] = "release"
    /\ \/ claim' = (IF claim = t THEN None ELSE claim) /\ UNCHANGED outcome
       \/ /\ AnswersLost
          /\ UNCHANGED claim
          /\ IF outcome[t] = "recorded" THEN Answer(t, "failed") ELSE UNCHANGED outcome
    /\ Goto(t, "ended")
    /\ Forget(t)
    /\ UNCHANGED <<reading, chain, stored, pointer, job>>

\* A read or a computation raises, or a write raises having changed nothing.
Raise(t) ==
    /\ pc[t] \in {"reconstruct", "resume", "resolve", "upload", "recheck", "previous",
                 "persist", "gap"}
    /\ Leave(t, "refused")
    /\ UNCHANGED <<store, job>>

-----------------------------------------------------------------------------
(***************************************************************************)
(* What happens around the requests.                                       *)
(***************************************************************************)
Die(t) ==
    /\ pc[t] \in Steps
    /\ Goto(t, "ended")
    /\ Forget(t)
    /\ UNCHANGED <<store, job, outcome>>

\* clock_timestamp() passes lease_expires_at.
ExpireLease ==
    /\ LeasesExpire
    /\ claim # None
    /\ claim' = None
    /\ UNCHANGED <<reading, chain, stored, pointer, request>>

\* A page is read for the first time or again, so that other candidates stand.
ReadAgain ==
    /\ \E d \in Documents, e \in Readings : reading' = [reading EXCEPT ![d] = e]
    /\ UNCHANGED <<chain, claim, stored, pointer, request>>

Call(t) ==
    \/ Acquire(t) \/ CheckUnopened(t) \/ Reconstruct(t) \/ Resume(t) \/ Resolve(t)
    \/ Upload(t) \/ Recheck(t) \/ BuildSnapshot(t) \/ Persist(t) \/ ReadAfterGap(t)
    \/ ReadBack(t) \/ Point(t) \/ Release(t)

Next ==
    \/ \E t \in Tasks : Ask(t) \/ Call(t) \/ Raise(t) \/ Die(t)
    \/ ExpireLease
    \/ ReadAgain

Spec == Init /\ [][Next]_vars

\* With fairness: a handler that started keeps making its calls, and the process
\* does not die.  Nothing is assumed of lease expiry.
LiveNext == (\E t \in Tasks : Ask(t) \/ Call(t) \/ Raise(t)) \/ ReadAgain

FairSpec ==
    /\ Init
    /\ [][LiveNext]_vars
    /\ \A t \in Tasks : WF_vars(Call(t))

-----------------------------------------------------------------------------
(***************************************************************************)
(* Properties.                                                             *)
(***************************************************************************)

\* J22 is the correctness barrier: however requests interleave, fail, die or
\* outlive their leases, the chain is the abstract chain and the pointer follows it.
ImplementsReviewChain == Chain!Spec

\* The answers that follow a recorded revision; the last one knows nothing of it.
Successes == {"opened", "unreadable", "recorded", "failed", "unanswered"}

\* Every recorded revision is the work of exactly one request, which answered
\* success unless the answer of its own write was lost, and every request that
\* answers success recorded one revision: a refusal, a conflict and a lost race
\* record nothing.
AnswersMatchChain ==
    Len(chain) = Cardinality({t \in Tasks : outcome[t] \in Successes})

\* A pointer with nothing behind it does not exist: the connection pointed at is
\* recorded as AUTO and a drawing is stored at its path.
PointerIsBacked ==
    pointer # None =>
        /\ chain # <<>>
        /\ pointer \in DOMAIN chain[Len(chain)]
        /\ chain[Len(chain)][pointer].decision = "AUTO"
        /\ chain[Len(chain)][pointer].processed # Never
        /\ stored[pointer] # None

\* The drawing at the pointed path is the one that the request which recorded
\* the connection's revision verified.
DeliveredIsVerified ==
    pointer # None =>
        /\ stored[pointer] # None
        /\ outcome[stored[pointer]] = "recorded"
        /\ job[stored[pointer]].target = pointer

\* A request never frees the claim of another one: a live claim ends by its own
\* release or by its lease.
OnlyOwnRelease ==
    [][\A t \in Tasks : claim = t /\ claim' # t => pc[t] = "release" \/ pc' = pc]_vars

\* A conflict tells its caller that the chain moved after the request resumed, and
\* nothing but the missing baseline of a review nobody opened is answered the same.
ConflictMeansMoved ==
    [][\A t \in Tasks : outcome[t] # outcome'[t] /\ outcome'[t] = "conflict"
            => HeadRevision(chain) > work[t].head \/ chain = <<>>]_vars

\* The claim is released on every path out, without waiting for the lease.
ClaimIsFreed == \A t \in Tasks : claim = t ~> claim # t
=============================================================================
