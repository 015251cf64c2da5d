-------------------------- MODULE ResolutionProofs --------------------------
(***************************************************************************)
(* For every set of requests, documents, connections and readings, with    *)
(* leases that end at any time and calls that go unanswered: the recorded  *)
(* review of a project is the abstract chain of ReviewChain, and its       *)
(* drawing pointer always has a recorded AUTO decision and a stored        *)
(* drawing behind it.  The claim plays no part in the argument.            *)
(***************************************************************************)
EXTENDS Resolution, FiniteSetTheorems, TLAPS

-----------------------------------------------------------------------------
(* What the operators of ReviewSnapshot return, for every set of connections. *)

Revisions == UNION {[S -> Item] : S \in SUBSET Connections}

\* A record of a review is a function of connections, and conversely.
LEMMA RevisionForms ==
    ASSUME NEW r
    PROVE  /\ IsRevision(r) <=> r \in Revisions
           /\ r \in Revisions =>
                /\ DOMAIN r \in SUBSET Connections
                /\ r \in [DOMAIN r -> Item]
BY DEF IsRevision, Revisions

LEMMA ItemParts ==
    ASSUME NEW i \in Item, NEW j \in Item,
           i.decision = j.decision, i.processed = j.processed, i.origin = j.origin
    PROVE  i = j
BY DEF Item

LEMMA BaselineIsRevision ==
    ASSUME NEW e \in Evidence
    PROVE  /\ Baseline(e) \in Revisions
           /\ DOMAIN Baseline(e) = DOMAIN e
           /\ \A k \in DOMAIN e : Baseline(e)[k].processed = Never
           /\ \A k \in DOMAIN e : Baseline(e)[k].decision = "REVIEW"
<1>1. PICK S \in SUBSET Connections : e \in [S -> Origins]
  BY DEF Evidence
<1>2. DOMAIN e = S
  BY <1>1
<1>3. \A k \in S : [decision |-> "REVIEW", processed |-> Never, origin |-> e[k]] \in Item
  BY <1>1 DEF Item, Decision
<1>4. Baseline(e) \in [S -> Item]
  BY <1>2, <1>3 DEF Baseline
<1>5. QED
  BY <1>2, <1>4 DEF Baseline, Revisions

\* Resolving changes one connection, and of it all but the origin.
LEMMA ResolvedParts ==
    ASSUME NEW r \in Revisions, NEW k \in DOMAIN r, NEW d \in Decision, NEW n \in Nat
    PROVE  LET q == Resolved(r, k, d, n)
           IN  /\ q \in Revisions
               /\ DOMAIN q = DOMAIN r
               /\ q[k].decision = d /\ q[k].processed = n /\ q[k].origin = r[k].origin
               /\ \A j \in DOMAIN r \ {k} : q[j] = r[j]
<1> DEFINE q == Resolved(r, k, d, n)
<1>1. PICK S \in SUBSET Connections : r \in [S -> Item]
  BY DEF Revisions
<1>2. DOMAIN r = S /\ k \in S /\ r[k] \in Item
  BY <1>1
<1> DEFINE i == [[r[k] EXCEPT !.decision = d] EXCEPT !.processed = n]
<1>3. /\ i \in Item
      /\ i.decision = d /\ i.processed = n /\ i.origin = r[k].origin
  BY <1>2 DEF Item
<1>4. q = [r EXCEPT ![k] = i]
  BY <1>1, <1>2 DEF Resolved
<1> HIDE DEF i, q
<1>5. q \in [S -> Item]
  BY <1>1, <1>2, <1>3, <1>4
<1>6. DOMAIN q = S /\ q[k] = i /\ \A j \in S \ {k} : q[j] = r[j]
  BY <1>1, <1>2, <1>4
<1>7. q \in Revisions
  BY <1>5 DEF Revisions
<1>8. QED
  BY <1>2, <1>3, <1>6, <1>7 DEF q

\* The head of a chain of anything.
LEMMA ChainHead ==
    ASSUME NEW S, NEW past \in Seq(S)
    PROVE  /\ Len(past) \in Nat /\ HeadRevision(past) \in Nat
           /\ past = <<>> <=> Len(past) = 0
           /\ HeadRevision(past) # 0 =>
                /\ past # <<>> /\ Len(past) >= 2 /\ HeadRevision(past) > 0
                /\ HeadRevision(past) = Len(past) - 1
<1>1. Len(past) \in Nat
  OBVIOUS
<1>2. past = <<>> <=> Len(past) = 0
  OBVIOUS
<1>3. CASE past = <<>>
  <2>1. HeadRevision(past) = 0
    BY <1>3 DEF HeadRevision
  <2>2. QED
    BY <1>1, <1>2, <2>1
<1>4. CASE past # <<>>
  <2>1. HeadRevision(past) = Len(past) - 1
    BY <1>4 DEF HeadRevision
  <2>2. Len(past) # 0
    BY <1>2, <1>4
  <2> DEFINE n == Len(past)
  <2>3. n \in Nat /\ n # 0 /\ HeadRevision(past) = n - 1
    BY <1>1, <2>1, <2>2
  <2> HIDE DEF n
  <2>4. n - 1 \in Nat /\ (n - 1 # 0 => n >= 2 /\ n - 1 > 0)
    BY <2>3
  <2>5. QED
    BY <1>2, <1>4, <2>3, <2>4 DEF n
<1>5. QED
  BY <1>3, <1>4

\* What a request resumed from a chain: its baseline, or the states of the last
\* revision over the origins of its own reconstruction.
LEMMA ResumedParts ==
    ASSUME NEW e \in Evidence, NEW past \in Seq(Revisions),
           Replayable(Baseline(e), past)
    PROVE  LET r == Resumed(Baseline(e), past)
               last == past[Len(past)]
           IN  /\ r \in Revisions
               /\ HeadRevision(past) = 0 => r = Baseline(e)
               /\ HeadRevision(past) > 0 =>
                    /\ DOMAIN r = DOMAIN last
                    /\ \A k \in DOMAIN r :
                        r[k].decision = last[k].decision /\ r[k].processed = last[k].processed
<1> DEFINE b == Baseline(e)
           r == Resumed(b, past)
           last == past[Len(past)]
<1>1. b \in Revisions
  BY BaselineIsRevision
<1>2. CASE HeadRevision(past) = 0
  BY <1>1, <1>2 DEF Resumed
<1>3. CASE HeadRevision(past) # 0
  <2>1. past # <<>> /\ Len(past) \in Nat /\ Len(past) >= 2 /\ HeadRevision(past) > 0
    BY <1>3, ChainHead
  <2>2. DOMAIN last = DOMAIN b
    BY <2>1 DEF Replayable
  <2>3. last \in Revisions
    BY <2>1
  <2>4. /\ DOMAIN b \in SUBSET Connections
        /\ last \in [DOMAIN b -> Item]
        /\ b \in [DOMAIN b -> Item]
    BY <1>1, <2>2, <2>3, RevisionForms
  <2>5. r = [k \in DOMAIN b |-> [last[k] EXCEPT !.origin = b[k].origin]]
    BY <1>3 DEF Resumed
  <2> HIDE DEF b, r, last
  <2>6. \A k \in DOMAIN b :
          LET i == [last[k] EXCEPT !.origin = b[k].origin]
          IN  i \in Item /\ i.decision = last[k].decision /\ i.processed = last[k].processed
    BY <2>4 DEF Item
  <2>7. r \in [DOMAIN b -> Item]
    BY <2>5, <2>6
  <2>8. DOMAIN r = DOMAIN b
    BY <2>5
  <2>9. \A k \in DOMAIN b : r[k].decision = last[k].decision /\ r[k].processed = last[k].processed
    BY <2>5, <2>6
  <2>10. r \in Revisions
    BY <2>4, <2>7 DEF Revisions
  <2>11. QED
    BY <2>1, <2>2, <2>8, <2>9, <2>10, <1>3 DEF r, last, b
<1>4. QED
  BY <1>2, <1>3

\* No divergence, and equal states of every unresolved connection: the snapshot
\* of a resolution is the recorded revision with that connection answered.
LEMMA NoDivergence ==
    ASSUME NEW last \in Revisions, NEW r \in Revisions, NEW k \in DOMAIN r,
           NEW d \in Decision, NEW n \in Nat,
           \A j \in DOMAIN r : j \in DOMAIN last => r[j].decision = last[j].decision
                                                 /\ r[j].processed = last[j].processed,
           ~ Diverges(last, Resolved(r, k, d, n))
    PROVE  r = last
<1> DEFINE q == Resolved(r, k, d, n)
<1>1. /\ DOMAIN q = DOMAIN r
      /\ q[k].origin = r[k].origin
      /\ \A j \in DOMAIN r \ {k} : q[j] = r[j]
  BY ResolvedParts
<1>2. DOMAIN last = DOMAIN q /\ \A j \in DOMAIN q : last[j].origin = q[j].origin
  BY DEF Diverges
<1> HIDE DEF q
<1>3. \A j \in DOMAIN r : q[j].origin = r[j].origin
  BY <1>1
<1>4. \A j \in DOMAIN r : last[j].origin = r[j].origin
  BY <1>1, <1>2, <1>3
<1>5. /\ DOMAIN last = DOMAIN r
      /\ last \in [DOMAIN r -> Item] /\ r \in [DOMAIN r -> Item]
  BY <1>1, <1>2, RevisionForms
<1>6. \A j \in DOMAIN r : last[j] = r[j]
  BY <1>4, <1>5, ItemParts
<1>7. QED
  BY <1>5, <1>6

-----------------------------------------------------------------------------
(* The inductive invariant. *)

WorkSet == [head: Nat, items: Revisions, durable: BOOLEAN]

Typed ==
    /\ reading \in [Documents -> Readings]
    /\ chain \in Seq(Revisions)
    /\ claim \in Tasks \cup {None}
    /\ stored \in [Connections -> Tasks \cup {None}]
    /\ pointer \in Connections \cup {None}
    /\ pc \in [Tasks -> {"idle", "ended"} \cup Steps]
    /\ job \in [Tasks -> OpenJob \cup ResolveJob \cup {None}]
    /\ work \in [Tasks -> WorkSet]
    /\ outcome \in [Tasks -> Outcomes]

\* A request that was asked has a job, and only a resolution goes past resuming
\* to a drawing.
JobOf(t) ==
    /\ pc[t] # "idle" => job[t] \in OpenJob \cup ResolveJob
    /\ pc[t] \in {"resolve", "upload", "recheck", "point"} => ~ Opens(t)

\* The revision a request resumed is recorded, unless it resumed a baseline.
HeadOf(t) == work[t].head > 0 => work[t].head + 1 <= Len(chain)

IsBaseline(r) == \E e \in Evidence : r = Baseline(e)

\* The picture r is what a request at this head resumed: a baseline, or the
\* states of the recorded revision.
Resumes(r, head) ==
    IF head = 0 THEN IsBaseline(r)
    ELSE LET recorded == chain[head + 1]
         IN  /\ DOMAIN r = DOMAIN recorded
             /\ \A k \in DOMAIN r : /\ r[k].decision = recorded[k].decision
                                    /\ r[k].processed = recorded[k].processed

\* An opening carries a baseline all along.
Fresh(t) ==
    \/ pc[t] = "resume"
    \/ pc[t] \in {"previous", "persist"} /\ Opens(t)

ReadOf(t) ==
    /\ Fresh(t) => IsBaseline(work[t].items)
    /\ pc[t] = "resolve" => Resumes(work[t].items, work[t].head)

Resolving(t) == pc[t] \in {"upload", "recheck", "previous", "persist"} /\ ~ Opens(t)

\* A resolution carries what it resumed with one untouched connection answered.
BuiltOf(t) ==
    Resolving(t) =>
        \E r \in Revisions, d \in Decision :
            /\ Resumes(r, work[t].head)
            /\ job[t].target \in DOMAIN r
            /\ r[job[t].target].processed = Never
            /\ work[t].items = Resolved(r, job[t].target, d, work[t].head + 1)

\* A durable drawing is an AUTO decision's, and is stored.
DurableOf(t) ==
    /\ pc[t] \in {"idle", "asked", "reconstruct", "resume", "resolve"} => ~ work[t].durable
    /\ pc[t] = "upload" => work[t].items[job[t].target].decision = "AUTO"
    /\ Resolving(t) /\ work[t].durable =>
        /\ work[t].items[job[t].target].decision = "AUTO"
        /\ pc[t] # "upload" => stored[job[t].target] # None

\* A resolution about to be written was compared with the revision it resumed.
ComparedOf(t) ==
    pc[t] = "persist" /\ ~ Opens(t) =>
        /\ work[t].head + 1 <= Len(chain)
        /\ ~ Diverges(chain[work[t].head + 1], work[t].items)

\* A connection recorded as AUTO at some revision after the baseline.
RecordedAuto(k) ==
    \E n \in 2..Len(chain) : k \in Advanced(chain[n], n - 1) /\ chain[n][k].decision = "AUTO"

PointingOf(t) ==
    pc[t] = "point" => RecordedAuto(job[t].target) /\ stored[job[t].target] # None

Founded(t) ==
    /\ JobOf(t) /\ HeadOf(t) /\ ReadOf(t) /\ BuiltOf(t)
    /\ DurableOf(t) /\ ComparedOf(t) /\ PointingOf(t)

\* The chain starts with a baseline, and what was answered stays answered so.
ChainStarts == chain # <<>> => IsBaseline(chain[1])

ChainKeeps ==
    \A n \in 1..Len(chain) : \A k \in DOMAIN chain[n] :
        chain[n][k].processed # Never =>
            /\ k \in DOMAIN chain[Len(chain)]
            /\ chain[Len(chain)][k] = chain[n][k]

Pointed == pointer # None => RecordedAuto(pointer) /\ stored[pointer] # None

IInv ==
    /\ Typed
    /\ \A t \in Tasks : Founded(t)
    /\ ChainStarts
    /\ ChainKeeps
    /\ Pointed

-----------------------------------------------------------------------------
(* What does not disturb a request. *)

Grows ==
    /\ Len(chain') >= Len(chain)
    /\ \A n \in 1..Len(chain) : chain'[n] = chain[n]

Keeps == \A k \in Connections : stored[k] # None => stored'[k] # None

Elsewhere(t) ==
    \A u \in Tasks \ {t} : pc'[u] = pc[u] /\ job'[u] = job[u] /\ work'[u] = work[u]

LEMMA RecordedAutoStable ==
    ASSUME Typed, Typed', Grows, NEW k, RecordedAuto(k)
    PROVE  RecordedAuto(k)'
<1>1. PICK n \in 2..Len(chain) : k \in Advanced(chain[n], n - 1) /\ chain[n][k].decision = "AUTO"
  BY DEF RecordedAuto
<1>2. Len(chain) \in Nat /\ Len(chain') \in Nat
  BY DEF Typed
<1>3. n \in 1..Len(chain) /\ n \in 2..Len(chain')
  BY <1>2 DEF Grows
<1>4. chain'[n] = chain[n]
  BY <1>3 DEF Grows
<1>5. k \in Advanced(chain'[n], n - 1) /\ chain'[n][k].decision = "AUTO"
  BY <1>1, <1>4
<1>6. QED
  BY <1>3, <1>5 DEF RecordedAuto

LEMMA FoundedStable ==
    ASSUME Typed, Typed', Grows, Keeps, NEW t \in Tasks, Founded(t),
           pc'[t] = pc[t], job'[t] = job[t], work'[t] = work[t]
    PROVE  Founded(t)'
<1>1. /\ Len(chain) \in Nat /\ Len(chain') \in Nat /\ Len(chain') >= Len(chain)
      /\ work[t] \in WorkSet /\ work[t].head \in Nat
      /\ work[t].head > 0 => work[t].head + 1 <= Len(chain)
      /\ Opens(t)' <=> Opens(t)
      /\ JobOf(t)
  BY DEF Typed, Grows, Founded, HeadOf, WorkSet, Opens
<1>2. \A r : Resumes(r, work[t].head) => Resumes(r, work[t].head)'
  <2>1. CASE work[t].head = 0
    BY <2>1 DEF Resumes, IsBaseline
  <2>2. CASE work[t].head # 0
    <3>1. work[t].head + 1 \in 1..Len(chain)
      BY <1>1, <2>2
    <3>2. chain'[work[t].head + 1] = chain[work[t].head + 1]
      BY <3>1 DEF Grows
    <3>3. QED
      BY <3>2, <2>2 DEF Resumes
  <2>3. QED
    BY <2>1, <2>2
<1>3. JobOf(t)'
  BY <1>1 DEF JobOf
<1>4. HeadOf(t)'
  BY <1>1 DEF HeadOf
<1>5. ReadOf(t)'
  <2>1. Fresh(t)' <=> Fresh(t)
    BY <1>1 DEF Fresh
  <2>2. ReadOf(t)
    BY DEF Founded
  <2>3. pc[t] = "resolve" => Resumes(work[t].items, work[t].head)'
    BY <2>2, <1>2 DEF ReadOf
  <2>4. QED
    BY <2>1, <2>2, <2>3 DEF ReadOf, IsBaseline, Resumes
<1>6. BuiltOf(t)'
  <2>1. Resolving(t)' <=> Resolving(t)
    BY <1>1 DEF Resolving
  <2> SUFFICES ASSUME Resolving(t) PROVE BuiltOf(t)'
    BY <2>1 DEF BuiltOf
  <2>2. PICK r \in Revisions, d \in Decision :
            /\ Resumes(r, work[t].head)
            /\ job[t].target \in DOMAIN r
            /\ r[job[t].target].processed = Never
            /\ work[t].items = Resolved(r, job[t].target, d, work[t].head + 1)
    BY DEF Founded, BuiltOf
  <2>3. Resumes(r, work[t].head)'
    BY <1>2, <2>2
  <2>4. QED
    BY <2>2, <2>3 DEF BuiltOf, Resumes
<1>7. DurableOf(t)'
  <2>1. Resolving(t)' <=> Resolving(t)
    BY <1>1 DEF Resolving
  <2>2. DurableOf(t)
    BY DEF Founded
  <2>3. Resolving(t) => job[t].target \in Connections
    BY <1>1 DEF Resolving, JobOf, OpenJob, ResolveJob, Opens
  <2>4. QED
    BY <2>1, <2>2, <2>3 DEF DurableOf, Keeps
<1>8. ComparedOf(t)'
  <2>1. ComparedOf(t)
    BY DEF Founded
  <2>2. pc[t] = "persist" /\ ~ Opens(t) => chain'[work[t].head + 1] = chain[work[t].head + 1]
    BY <2>1, <1>1 DEF ComparedOf, Grows
  <2>3. QED
    BY <2>1, <2>2, <1>1 DEF ComparedOf
<1>9. PointingOf(t)'
  <2>1. PointingOf(t)
    BY DEF Founded
  <2>2. pc[t] = "point" => job[t].target \in Connections
    BY <1>1 DEF JobOf, OpenJob, ResolveJob, Opens
  <2>3. pc[t] = "point" => RecordedAuto(job[t].target)'
    BY <2>1, RecordedAutoStable DEF PointingOf
  <2>4. pc[t] = "point" => stored'[job[t].target] # None
    BY <2>1, <2>2 DEF PointingOf, Keeps
  <2>5. QED
    BY <2>3, <2>4 DEF PointingOf, RecordedAuto
<1>10. QED
  BY <1>3, <1>4, <1>5, <1>6, <1>7, <1>8, <1>9 DEF Founded

\* A step of one request that leaves the record and the drawings alone.
LEMMA LocalStep ==
    ASSUME IInv, NEW t \in Tasks, Typed', Founded(t)', Elsewhere(t),
           UNCHANGED <<chain, stored, pointer>>
    PROVE  IInv'
<1>1. Grows /\ Keeps
  BY DEF IInv, Typed, Grows, Keeps
<1>2. \A u \in Tasks \ {t} : Founded(u)'
  BY <1>1, FoundedStable DEF IInv, Elsewhere
<1>3. ChainStarts' /\ ChainKeeps' /\ Pointed'
  BY DEF IInv, ChainStarts, ChainKeeps, Pointed, IsBaseline, RecordedAuto
<1>4. QED
  BY <1>2, <1>3 DEF IInv

-----------------------------------------------------------------------------
(* One step per action. *)

\* Where a request holds nothing that has to be founded on the chain.
LEMMA Quiet ==
    ASSUME NEW t \in Tasks,
           pc'[t] \in {"asked", "reconstruct", "gap", "readback", "release", "ended"},
           job'[t] \in OpenJob \cup ResolveJob,
           HeadOf(t)',
           pc'[t] \in {"asked", "reconstruct"} => ~ work'[t].durable
    PROVE  Founded(t)'
BY DEF Founded, JobOf, HeadOf, ReadOf, Fresh, BuiltOf, Resolving, DurableOf, ComparedOf, PointingOf

LEMMA NoWorkIsWork == NoWork \in WorkSet /\ NoWork.head = 0 /\ ~ NoWork.durable
<1>1. [k \in {} |-> None] \in [{} -> Item]
  OBVIOUS
<1>2. [k \in {} |-> None] \in Revisions
  BY <1>1 DEF Revisions
<1>3. QED
  BY <1>2 DEF NoWork, WorkSet

\* An early answer.
LEMMA LeaveStep ==
    ASSUME IInv, NEW t \in Tasks, NEW answer \in Outcomes, pc[t] # "idle",
           Leave(t, answer), UNCHANGED <<store, job>>
    PROVE  IInv'
<1>1. /\ pc' = [pc EXCEPT ![t] = IF Opens(t) THEN "ended" ELSE "release"]
      /\ work' = [work EXCEPT ![t] = NoWork]
      /\ outcome' = [outcome EXCEPT ![t] = answer]
  BY DEF Leave, Answer, Forget, Goto
<1>2. Typed'
  BY <1>1, NoWorkIsWork DEF IInv, Typed, store, Steps
<1>3. /\ pc'[t] \in {"ended", "release"} /\ work'[t] = NoWork
      /\ job'[t] \in OpenJob \cup ResolveJob
      /\ Elsewhere(t)
  BY <1>1 DEF IInv, Typed, Founded, JobOf, Elsewhere
<1>4. Founded(t)'
  BY <1>3, NoWorkIsWork, Quiet DEF HeadOf
<1>5. QED
  BY <1>2, <1>3, <1>4, LocalStep DEF store

LEMMA AskStep ==
    ASSUME IInv, NEW t \in Tasks, Ask(t)
    PROVE  IInv'
<1>1. PICK d \in Documents, k \in Connections, n \in 0..(HeadRevision(chain) + 1) :
        \E j \in {[kind |-> "open", document |-> d],
                  [kind |-> "resolve", document |-> d, target |-> k, expected |-> n]} :
            job' = [job EXCEPT ![t] = j]
  BY DEF Ask
<1>2. PICK j \in OpenJob \cup ResolveJob : job' = [job EXCEPT ![t] = j]
  <2>1. HeadRevision(chain) \in Nat
    BY ChainHead DEF IInv, Typed
  <2>2. n \in Nat
    BY <2>1
  <2>3. QED
    BY <1>1, <2>2 DEF OpenJob, ResolveJob
<1>3. pc' = [pc EXCEPT ![t] = "asked"] /\ pc[t] = "idle" /\ UNCHANGED <<store, work, outcome>>
  BY DEF Ask, Goto
<1>4. Typed'
  BY <1>2, <1>3 DEF IInv, Typed, store, Steps
<1>5. /\ pc'[t] = "asked" /\ job'[t] \in OpenJob \cup ResolveJob /\ Elsewhere(t)
      /\ ~ work'[t].durable /\ HeadOf(t)'
  BY <1>2, <1>3 DEF IInv, Typed, Founded, DurableOf, HeadOf, Elsewhere, store
<1>6. QED
  BY <1>3, <1>4, <1>5, Quiet, LocalStep DEF store

LEMMA AcquireStep ==
    ASSUME IInv, NEW t \in Tasks, Acquire(t)
    PROVE  IInv'
<1>1. /\ pc[t] = "asked"
      /\ UNCHANGED <<reading, chain, stored, pointer, job, work>>
      /\ claim' \in {claim, t}
      /\ outcome' \in {outcome, [outcome EXCEPT ![t] = "refused"]}
      /\ \E label \in {"reconstruct", "ended"} : pc' = [pc EXCEPT ![t] = label]
  BY DEF Acquire, Goto, Answer
<1>2. Typed'
  BY <1>1 DEF IInv, Typed, Steps, Outcomes
<1>3. /\ pc'[t] \in {"reconstruct", "ended"} /\ job'[t] \in OpenJob \cup ResolveJob
      /\ Elsewhere(t) /\ ~ work'[t].durable /\ HeadOf(t)'
  BY <1>1 DEF IInv, Typed, Founded, JobOf, DurableOf, HeadOf, Elsewhere
<1>4. QED
  BY <1>1, <1>2, <1>3, Quiet, LocalStep

LEMMA CheckUnopenedStep ==
    ASSUME IInv, NEW t \in Tasks, CheckUnopened(t)
    PROVE  IInv'
<1>1. CASE chain = <<>>
  <2>1. /\ pc[t] = "asked" /\ pc' = [pc EXCEPT ![t] = "reconstruct"]
        /\ UNCHANGED <<store, job, work, outcome>>
    BY <1>1 DEF CheckUnopened, Goto
  <2>2. Typed'
    BY <2>1 DEF IInv, Typed, Steps, store
  <2>3. /\ pc'[t] = "reconstruct" /\ job'[t] \in OpenJob \cup ResolveJob
        /\ Elsewhere(t) /\ ~ work'[t].durable /\ HeadOf(t)'
    BY <2>1 DEF IInv, Typed, Founded, JobOf, DurableOf, HeadOf, Elsewhere, store
  <2>4. QED
    BY <2>1, <2>2, <2>3, Quiet, LocalStep DEF store
<1>2. CASE chain # <<>>
  BY <1>2, LeaveStep DEF CheckUnopened, Outcomes
<1>3. QED
  BY <1>1, <1>2

LEMMA ReconstructStep ==
    ASSUME IInv, NEW t \in Tasks, Reconstruct(t)
    PROVE  IInv'
<1> DEFINE e == reading[job[t].document]
<1>1. /\ pc[t] = "reconstruct" /\ pc' = [pc EXCEPT ![t] = "resume"]
      /\ work' = [work EXCEPT ![t].items = Baseline(e)]
      /\ UNCHANGED <<store, job, outcome>>
  BY DEF Reconstruct, Goto
<1>2. e \in Evidence
  BY <1>1, ReadingsAreEvidence DEF IInv, Typed, Founded, JobOf, OpenJob, ResolveJob
<1> HIDE DEF e
<1>3. /\ work[t] \in WorkSet /\ ~ work[t].durable /\ HeadOf(t)
      /\ job[t] \in OpenJob \cup ResolveJob
  BY <1>1 DEF IInv, Typed, Founded, JobOf, DurableOf
<1>4. /\ work'[t] = [work[t] EXCEPT !.items = Baseline(e)]
      /\ work'[t] \in WorkSet
      /\ work'[t].items = Baseline(e) /\ work'[t].head = work[t].head /\ ~ work'[t].durable
  BY <1>1, <1>2, <1>3, BaselineIsRevision DEF WorkSet, IInv, Typed
<1>5. Typed'
  BY <1>1, <1>4 DEF IInv, Typed, Steps, store
<1>6. pc'[t] = "resume" /\ Elsewhere(t) /\ chain' = chain /\ job'[t] = job[t]
  BY <1>1 DEF IInv, Typed, Elsewhere, store
<1>7. Founded(t)'
  BY <1>2, <1>3, <1>4, <1>6
     DEF Founded, JobOf, HeadOf, ReadOf, Fresh, IsBaseline, BuiltOf, Resolving, DurableOf,
         ComparedOf, PointingOf
<1>8. QED
  BY <1>1, <1>5, <1>6, <1>7, LocalStep DEF store

LEMMA ResumeStep ==
    ASSUME IInv, NEW t \in Tasks, Resume(t)
    PROVE  IInv'
<1> DEFINE head == HeadRevision(chain)
           items == Resumed(work[t].items, chain)
<1>1. pc[t] = "resume" /\ UNCHANGED <<store, job>>
  BY DEF Resume
<1>2. CASE head = Expected(t) /\ Replayable(work[t].items, chain)
  <2>1. /\ work' = [work EXCEPT ![t].head = head, ![t].items = items]
        /\ pc' = [pc EXCEPT ![t] = IF Opens(t) THEN "previous" ELSE "resolve"]
        /\ UNCHANGED outcome
    BY <1>2 DEF Resume, Goto
  <2>2. PICK e \in Evidence : work[t].items = Baseline(e)
    BY <1>1 DEF IInv, Founded, ReadOf, Fresh, IsBaseline
  <2>3. /\ chain \in Seq(Revisions) /\ work[t] \in WorkSet /\ ~ work[t].durable
        /\ job[t] \in OpenJob \cup ResolveJob
    BY <1>1 DEF IInv, Typed, Founded, JobOf, DurableOf
  <2>4. /\ items \in Revisions
        /\ head = 0 => items = Baseline(e)
        /\ head > 0 => /\ DOMAIN items = DOMAIN chain[Len(chain)]
                       /\ \A k \in DOMAIN items :
                            /\ items[k].decision = chain[Len(chain)][k].decision
                            /\ items[k].processed = chain[Len(chain)][k].processed
    BY <1>2, <2>2, <2>3, ResumedParts
  <2>5. head \in Nat /\ (head # 0 => head + 1 = Len(chain)) /\ Len(chain) \in Nat
    BY <2>3, ChainHead
  <2>6. Resumes(items, head)
    BY <2>4, <2>5 DEF Resumes, IsBaseline
  <2>7. Opens(t) => head = 0
    BY <1>2 DEF Expected
  <2> HIDE DEF head, items
  <2>8. /\ work'[t] = [[work[t] EXCEPT !.head = head] EXCEPT !.items = items]
        /\ work'[t] \in WorkSet
        /\ work'[t].head = head /\ work'[t].items = items /\ ~ work'[t].durable
    BY <2>1, <2>3, <2>4, <2>5 DEF WorkSet, IInv, Typed
  <2>9. Typed'
    BY <1>1, <2>1, <2>8 DEF IInv, Typed, Steps, store
  <2>10. /\ pc'[t] = IF Opens(t) THEN "previous" ELSE "resolve"
         /\ Elsewhere(t) /\ chain' = chain /\ job'[t] = job[t]
         /\ Opens(t)' <=> Opens(t)
    BY <1>1, <2>1 DEF IInv, Typed, Elsewhere, store, Opens
  <2>11. ReadOf(t)'
    <3>1. Fresh(t)' => IsBaseline(items)
      BY <2>4, <2>7, <2>10 DEF Fresh, IsBaseline
    <3>2. Resumes(work[t].items, work[t].head)'
      BY <2>6, <2>8, <2>10 DEF Resumes, IsBaseline
    <3>3. QED
      BY <2>8, <3>1, <3>2 DEF ReadOf, IsBaseline
  <2>12. HeadOf(t)'
    BY <2>5, <2>8, <2>10 DEF HeadOf
  <2>13. Founded(t)'
    BY <2>3, <2>8, <2>10, <2>11, <2>12
       DEF Founded, JobOf, BuiltOf, Resolving, DurableOf, ComparedOf, PointingOf
  <2>14. QED
    BY <1>1, <2>9, <2>10, <2>13, LocalStep DEF store
<1>3. CASE ~ (head = Expected(t) /\ Replayable(work[t].items, chain))
  <2>1. Leave(t, "refused")
    BY <1>3 DEF Resume
  <2>2. QED
    BY <1>1, <2>1, LeaveStep DEF Outcomes
<1>4. QED
  BY <1>2, <1>3

LEMMA ResolveStep ==
    ASSUME IInv, NEW t \in Tasks, Resolve(t)
    PROVE  IInv'
<1> DEFINE r == work[t].items
           k == job[t].target
           head == work[t].head
<1>1. pc[t] = "resolve" /\ UNCHANGED <<store, job>>
  BY DEF Resolve
<1>2. CASE Resolvable(r, k)
  <2>1. PICK d \in Decision, verified \in BOOLEAN :
          /\ work' = [work EXCEPT ![t].items = Resolved(r, k, d, head + 1)]
          /\ pc' = [pc EXCEPT ![t] = IF d = "AUTO" /\ verified THEN "upload" ELSE "recheck"]
          /\ UNCHANGED outcome
    BY <1>2 DEF Resolve, Goto
  <2> DEFINE q == Resolved(r, k, d, head + 1)
  <2>2. /\ work[t] \in WorkSet /\ ~ work[t].durable /\ HeadOf(t)
        /\ job[t] \in OpenJob \cup ResolveJob /\ ~ Opens(t)
        /\ Resumes(r, head)
    BY <1>1 DEF IInv, Typed, Founded, JobOf, DurableOf, ReadOf
  <2>3. r \in Revisions /\ k \in DOMAIN r /\ r[k].processed = Never /\ head + 1 \in Nat
    BY <1>2, <2>2 DEF WorkSet, Resolvable
  <2>4. q \in Revisions /\ q[k].decision = d
    BY <2>3, ResolvedParts
  <2> HIDE DEF q
  <2>5. /\ work'[t] = [work[t] EXCEPT !.items = q]
        /\ work'[t] \in WorkSet
        /\ work'[t].items = q /\ work'[t].head = head /\ ~ work'[t].durable
    BY <2>1, <2>2, <2>4 DEF q, WorkSet, IInv, Typed
  <2>6. /\ pc'[t] = IF d = "AUTO" /\ verified THEN "upload" ELSE "recheck"
        /\ Elsewhere(t) /\ chain' = chain /\ job'[t] = job[t] /\ (Opens(t)' <=> Opens(t))
    BY <1>1, <2>1 DEF IInv, Typed, Elsewhere, store, Opens
  <2>7. Typed'
    BY <1>1, <2>1, <2>5 DEF IInv, Typed, Steps, store
  <2>8. BuiltOf(t)'
    <3>1. Resumes(r, head) /\ chain' = chain
      BY <2>2, <2>6
    <3>2. \E s \in Revisions, c \in Decision :
            /\ Resumes(s, head) /\ k \in DOMAIN s /\ s[k].processed = Never
            /\ q = Resolved(s, k, c, head + 1)
      BY <2>2, <2>3 DEF q
    <3> HIDE DEF r, k, head
    <3>3. work'[t].head = head /\ job'[t].target = k
      BY <2>5, <2>6 DEF k
    <3>4. QED
      BY <2>5, <2>6, <3>2, <3>3 DEF BuiltOf, Resumes, IsBaseline
  <2>9. DurableOf(t)'
    BY <2>2, <2>4, <2>5, <2>6 DEF DurableOf, Resolving
  <2>10. JobOf(t)' /\ HeadOf(t)' /\ ReadOf(t)' /\ ComparedOf(t)' /\ PointingOf(t)'
    BY <2>2, <2>5, <2>6 DEF JobOf, HeadOf, ReadOf, Fresh, ComparedOf, PointingOf
  <2>11. QED
    BY <1>1, <2>6, <2>7, <2>8, <2>9, <2>10, LocalStep DEF store, Founded
<1>3. CASE ~ Resolvable(r, k)
  <2>1. Leave(t, "refused")
    BY <1>3 DEF Resolve
  <2>2. QED
    BY <1>1, <2>1, LeaveStep DEF Outcomes
<1>4. QED
  BY <1>2, <1>3

LEMMA RecheckStep ==
    ASSUME IInv, NEW t \in Tasks, Recheck(t)
    PROVE  IInv'
<1>1. pc[t] = "recheck" /\ UNCHANGED <<store, job>>
  BY DEF Recheck
<1>2. CASE HeadRevision(chain) = work[t].head
  <2>1. pc' = [pc EXCEPT ![t] = "previous"] /\ UNCHANGED <<work, outcome>>
    BY <1>2 DEF Recheck, Goto
  <2>2. Typed'
    BY <1>1, <2>1 DEF IInv, Typed, Steps, store
  <2>3. /\ pc'[t] = "previous" /\ Elsewhere(t) /\ (Opens(t)' <=> Opens(t))
        /\ ~ Opens(t) /\ Founded(t)
    BY <1>1, <2>1 DEF IInv, Typed, Elsewhere, Opens, Founded, JobOf
  <2>4. BuiltOf(t)'
    BY <1>1, <2>1, <2>3 DEF Founded, BuiltOf, Resolving, Resumes, IsBaseline, store
  <2>5. DurableOf(t)'
    BY <1>1, <2>1, <2>3 DEF Founded, DurableOf, Resolving, store
  <2>6. JobOf(t)' /\ HeadOf(t)' /\ ReadOf(t)' /\ ComparedOf(t)' /\ PointingOf(t)'
    BY <1>1, <2>1, <2>3
       DEF Founded, JobOf, HeadOf, ReadOf, Fresh, ComparedOf, PointingOf, store
  <2>7. QED
    BY <1>1, <2>2, <2>3, <2>4, <2>5, <2>6, LocalStep DEF store, Founded
<1>3. CASE HeadRevision(chain) # work[t].head
  <2>1. Leave(t, "conflict")
    BY <1>3 DEF Recheck
  <2>2. QED
    BY <1>1, <2>1, LeaveStep DEF Outcomes
<1>4. QED
  BY <1>2, <1>3

\* A revision gap.
LEMMA GapStep ==
    ASSUME IInv, NEW t \in Tasks, pc[t] # "idle", Gap(t), UNCHANGED <<store, job>>
    PROVE  IInv'
<1>1. CASE Opens(t)
  <2>1. pc' = [pc EXCEPT ![t] = "gap"] /\ UNCHANGED <<work, outcome>>
    BY <1>1 DEF Gap, Goto
  <2>2. Typed'
    BY <2>1 DEF IInv, Typed, Steps, store
  <2>3. /\ pc'[t] = "gap" /\ job'[t] \in OpenJob \cup ResolveJob
        /\ Elsewhere(t) /\ HeadOf(t)'
    BY <2>1 DEF IInv, Typed, Founded, JobOf, HeadOf, Elsewhere, store
  <2>4. QED
    BY <2>2, <2>3, Quiet, LocalStep DEF store
<1>2. CASE ~ Opens(t)
  <2>1. Leave(t, "conflict")
    BY <1>2 DEF Gap
  <2>2. QED
    BY <2>1, LeaveStep DEF Outcomes
<1>3. QED
  BY <1>1, <1>2

LEMMA BuildSnapshotStep ==
    ASSUME IInv, NEW t \in Tasks, BuildSnapshot(t)
    PROVE  IInv'
<1>1. pc[t] = "previous" /\ UNCHANGED <<store, job>>
  BY DEF BuildSnapshot
<1>2. CASE Len(chain) # RevisionOf(t)
  BY <1>1, <1>2, GapStep DEF BuildSnapshot
<1>3. CASE Len(chain) = RevisionOf(t) /\ chain # <<>> /\ Diverges(chain[Len(chain)], work[t].items)
  <2>1. Leave(t, "refused")
    BY <1>3 DEF BuildSnapshot
  <2>2. QED
    BY <1>1, <2>1, LeaveStep DEF Outcomes
<1>4. CASE /\ Len(chain) = RevisionOf(t)
           /\ ~ (chain # <<>> /\ Diverges(chain[Len(chain)], work[t].items))
  <2>1. pc' = [pc EXCEPT ![t] = "persist"] /\ UNCHANGED <<work, outcome>>
    BY <1>4 DEF BuildSnapshot, Goto
  <2>2. Typed'
    BY <1>1, <2>1 DEF IInv, Typed, Steps, store
  <2>3. /\ pc'[t] = "persist" /\ Elsewhere(t) /\ (Opens(t)' <=> Opens(t)) /\ Founded(t)
    BY <1>1, <2>1 DEF IInv, Typed, Elsewhere, Opens
  <2>4. BuiltOf(t)'
    BY <1>1, <2>1, <2>3 DEF Founded, BuiltOf, Resolving, Resumes, IsBaseline, store
  <2>5. DurableOf(t)'
    BY <1>1, <2>1, <2>3 DEF Founded, DurableOf, Resolving, store, Opens
  <2>6. ComparedOf(t)'
    <3>1. Len(chain) \in Nat /\ work[t].head \in Nat /\ (chain = <<>> => Len(chain) = 0)
      BY DEF IInv, Typed, WorkSet
    <3>2. ~ Opens(t) => Len(chain) = work[t].head + 1 /\ chain # <<>>
      BY <1>4, <3>1 DEF RevisionOf
    <3>3. ~ Opens(t) => ~ Diverges(chain[work[t].head + 1], work[t].items)
      BY <1>4, <3>2
    <3>4. QED
      BY <1>1, <2>1, <2>3, <3>1, <3>2, <3>3 DEF ComparedOf, store
  <2>7. JobOf(t)' /\ HeadOf(t)' /\ ReadOf(t)' /\ PointingOf(t)'
    BY <1>1, <2>1, <2>3
       DEF Founded, JobOf, HeadOf, ReadOf, Fresh, PointingOf, IsBaseline, store
  <2>8. QED
    BY <1>1, <2>2, <2>3, <2>4, <2>5, <2>6, <2>7, LocalStep DEF store, Founded
<1>5. QED
  BY <1>2, <1>3, <1>4

-----------------------------------------------------------------------------
(* The write.  What lets a revision in is the chain itself: the revision a *)
(* request resumed is the one it extends, or it is refused.                *)

\* A revision that may be written is the baseline, or the last revision with one
\* untouched connection answered.
LEMMA NextRevision ==
    ASSUME IInv, NEW t \in Tasks, pc[t] = "persist", Len(chain) = RevisionOf(t)
    PROVE  \/ chain = <<>> /\ Opens(t) /\ IsBaseline(work[t].items)
           \/ /\ chain # <<>> /\ ~ Opens(t) /\ Len(chain) = work[t].head + 1
              /\ job[t].target \in DOMAIN chain[Len(chain)]
              /\ chain[Len(chain)][job[t].target].processed = Never
              /\ \E d \in Decision :
                    work[t].items = Resolved(chain[Len(chain)], job[t].target, d, Len(chain))
<1> DEFINE k == job[t].target
           head == work[t].head
           last == chain[Len(chain)]
<1>1. /\ chain \in Seq(Revisions) /\ Len(chain) \in Nat /\ head \in Nat
      /\ chain = <<>> <=> Len(chain) = 0
  BY ChainHead DEF IInv, Typed, WorkSet
<1>2. CASE Opens(t)
  BY <1>1, <1>2 DEF RevisionOf, IInv, Founded, ReadOf, Fresh
<1>3. CASE ~ Opens(t)
  <2>1. Len(chain) = head + 1 /\ chain # <<>> /\ last \in Revisions
    BY <1>1, <1>3 DEF RevisionOf
  <2>2. PICK r \in Revisions, d \in Decision :
            /\ Resumes(r, head) /\ k \in DOMAIN r /\ r[k].processed = Never
            /\ work[t].items = Resolved(r, k, d, head + 1)
    BY <1>3 DEF IInv, Founded, BuiltOf, Resolving
  <2>3. ~ Diverges(last, Resolved(r, k, d, head + 1))
    BY <1>3, <2>1, <2>2 DEF IInv, Founded, ComparedOf
  <2>4. \A j \in DOMAIN r : j \in DOMAIN last =>
            r[j].decision = last[j].decision /\ r[j].processed = last[j].processed
    <3>1. CASE head = 0
      <4>1. PICK e \in Evidence : r = Baseline(e)
        BY <2>2, <3>1 DEF Resumes, IsBaseline
      <4>2. PICK f \in Evidence : last = Baseline(f)
        BY <2>1, <3>1 DEF IInv, ChainStarts, IsBaseline
      <4>3. QED
        BY <4>1, <4>2, BaselineIsRevision
    <3>2. CASE head # 0
      BY <2>1, <2>2, <3>2 DEF Resumes
    <3>3. QED
      BY <3>1, <3>2
  <2>5. head + 1 \in Nat
    BY <1>1
  <2> HIDE DEF k, head, last
  <2>6. r = last
    BY <2>1, <2>2, <2>3, <2>4, <2>5, NoDivergence
  <2>7. QED
    BY <1>3, <2>1, <2>2, <2>6 DEF k, head, last
<1>4. QED
  BY <1>2, <1>3

\* The chain with one more such revision.
LEMMA ChainGrows ==
    ASSUME IInv, Typed', NEW t \in Tasks, pc[t] = "persist", Len(chain) = RevisionOf(t),
           chain' = Append(chain, work[t].items)
    PROVE  /\ Grows
           /\ Len(chain') = Len(chain) + 1
           /\ chain'[Len(chain')] = work[t].items
           /\ ChainStarts' /\ ChainKeeps'
<1> DEFINE items == work[t].items
           k == job[t].target
           last == chain[Len(chain)]
<1>1. /\ chain \in Seq(Revisions) /\ items \in Revisions /\ Len(chain) \in Nat
      /\ chain = <<>> <=> Len(chain) = 0
  BY ChainHead DEF IInv, Typed, WorkSet
<1>2. /\ Len(chain') = Len(chain) + 1 /\ chain'[Len(chain')] = items
      /\ \A n \in 1..Len(chain) : chain'[n] = chain[n]
  BY <1>1
<1>3. Grows
  BY <1>1, <1>2 DEF Grows
<1>4. ChainStarts'
  <2>1. CASE chain = <<>>
    <3>1. Len(chain) = 0 /\ chain'[1] = items
      BY <1>1, <1>2, <2>1
    <3>2. IsBaseline(items)
      BY <2>1, NextRevision
    <3>3. QED
      BY <3>1, <3>2 DEF ChainStarts, IsBaseline
  <2>2. CASE chain # <<>>
    <3>1. 1 \in 1..Len(chain)
      BY <1>1, <2>2
    <3>2. chain'[1] = chain[1]
      BY <1>2, <3>1
    <3>3. QED
      BY <2>2, <3>2 DEF IInv, ChainStarts, IsBaseline
  <2>3. QED
    BY <2>1, <2>2
<1>5. ChainKeeps'
  <2>1. CASE chain = <<>>
    <3>1. Len(chain') = 1
      BY <1>1, <1>2, <2>1
    <3>2. QED
      BY <3>1 DEF ChainKeeps
  <2>2. CASE chain # <<>>
    <3>1. PICK d \in Decision : items = Resolved(last, k, d, Len(chain))
      BY <2>2, NextRevision
    <3>2. k \in DOMAIN last /\ last[k].processed = Never
      BY <2>2, NextRevision
    <3>3. last \in Revisions
      BY <1>1, <2>2
    <3> HIDE DEF k, last
    <3>4. DOMAIN items = DOMAIN last /\ \A j \in DOMAIN last \ {k} : items[j] = last[j]
      BY <1>1, <3>1, <3>2, <3>3, ResolvedParts
    <3>5. ASSUME NEW n \in 1..Len(chain), NEW j \in DOMAIN chain[n], chain[n][j].processed # Never
          PROVE  j \in DOMAIN items /\ items[j] = chain[n][j]
      <4>1. j \in DOMAIN last /\ last[j] = chain[n][j]
        BY <3>5 DEF IInv, ChainKeeps, last
      <4>2. j # k
        BY <3>2, <3>5, <4>1
      <4>3. QED
        BY <3>4, <4>1, <4>2
    <3> HIDE DEF items
    <3>6. ASSUME NEW n \in 1..Len(chain'), NEW j \in DOMAIN chain'[n], chain'[n][j].processed # Never
          PROVE  j \in DOMAIN items /\ items[j] = chain'[n][j]
      <4>1. CASE n = Len(chain')
        BY <1>2, <4>1
      <4>2. CASE n # Len(chain')
        <5>1. n \in 1..Len(chain)
          BY <1>1, <1>2, <4>2
        <5>2. chain'[n] = chain[n]
          BY <1>2, <5>1
        <5>3. QED
          BY <3>5, <3>6, <5>1, <5>2
      <4>3. QED
        BY <4>1, <4>2
    <3>7. QED
      BY <1>2, <3>6 DEF ChainKeeps
  <2>3. QED
    BY <2>1, <2>2
<1>6. QED
  BY <1>2, <1>3, <1>4, <1>5

LEMMA PersistStep ==
    ASSUME IInv, NEW t \in Tasks, Persist(t)
    PROVE  IInv'
<1> DEFINE items == work[t].items
           k == job[t].target
           head == work[t].head
<1>1. pc[t] = "persist" /\ UNCHANGED <<reading, claim, stored, pointer, job>>
  BY DEF Persist
<1>2. CASE Len(chain) # RevisionOf(t)
  <2>1. Gap(t) /\ UNCHANGED chain
    BY <1>2 DEF Persist
  <2>2. QED
    BY <1>1, <2>1, GapStep DEF store
<1>3. CASE Len(chain) = RevisionOf(t)
  <2>1. /\ chain' = Append(chain, items)
        /\ \/ Recorded(t)
           \/ Leave(t, "unanswered")
    BY <1>3 DEF Persist
  <2>2. /\ chain \in Seq(Revisions) /\ items \in Revisions /\ Len(chain) \in Nat
        /\ work[t] \in WorkSet /\ head \in Nat /\ job[t] \in OpenJob \cup ResolveJob
    BY <1>1 DEF IInv, Typed, Founded, JobOf, WorkSet
  <2>3. /\ \E label \in {"ended", "readback", "point", "release"} :
              /\ pc' = [pc EXCEPT ![t] = label]
              /\ label = "point" => ~ Opens(t) /\ work[t].durable
        /\ \E w \in {work[t], NoWork} : work' = [work EXCEPT ![t] = w]
        /\ pc'[t] = "point" => work' = work
        /\ \E answer \in Outcomes : outcome' = [outcome EXCEPT ![t] = answer]
    <3>1. CASE Recorded(t)
      <4>1. work' = [work EXCEPT ![t] = work[t]]
        BY <3>1 DEF Recorded, IInv, Typed
      <4>2. QED
        BY <3>1, <4>1 DEF Recorded, Goto, Answer, Outcomes
    <3>2. CASE Leave(t, "unanswered")
      <4>1. pc' = [pc EXCEPT ![t] = IF Opens(t) THEN "ended" ELSE "release"]
        BY <3>2 DEF Leave, Goto
      <4>2. pc'[t] # "point"
        BY <4>1 DEF IInv, Typed
      <4>3. QED
        BY <3>2, <4>1, <4>2 DEF Leave, Answer, Forget, Outcomes
    <3>3. QED
      BY <2>1, <3>1, <3>2
  <2>4. Typed'
    <3>1. chain' \in Seq(Revisions)
      BY <2>1, <2>2
    <3>2. pc' \in [Tasks -> {"idle", "ended"} \cup Steps]
      BY <2>3 DEF IInv, Typed, Steps
    <3>3. work' \in [Tasks -> WorkSet] /\ outcome' \in [Tasks -> Outcomes]
      BY <2>2, <2>3, NoWorkIsWork DEF IInv, Typed
    <3>4. QED
      BY <1>1, <3>1, <3>2, <3>3 DEF IInv, Typed
  <2>5. /\ Grows /\ Len(chain') = Len(chain) + 1 /\ chain'[Len(chain')] = items
        /\ ChainStarts' /\ ChainKeeps'
    BY <1>1, <1>3, <2>1, <2>4, ChainGrows
  <2>6. Keeps /\ Elsewhere(t)
    BY <1>1, <2>3 DEF Keeps, Elsewhere, IInv, Typed
  <2>7. \A u \in Tasks \ {t} : Founded(u)'
    BY <2>4, <2>5, <2>6, FoundedStable DEF IInv, Elsewhere
  <2>8. pc'[t] \in {"ended", "readback", "point", "release"} /\ work'[t] \in {work[t], NoWork}
        /\ job'[t] = job[t]
    BY <1>1, <2>3 DEF IInv, Typed
  <2>9. HeadOf(t)'
    BY <2>2, <2>5, <2>8, NoWorkIsWork DEF HeadOf, IInv, Founded
  <2>10. Founded(t)'
    <3>1. CASE pc'[t] # "point"
      BY <2>2, <2>8, <2>9, <3>1, Quiet
    <3>2. CASE pc'[t] = "point"
      <4>1. ~ Opens(t) /\ work[t].durable /\ work' = work
        BY <2>3, <3>2 DEF IInv, Typed
      <4>2. PICK d \in Decision : /\ items = Resolved(chain[Len(chain)], k, d, Len(chain))
                                  /\ k \in DOMAIN chain[Len(chain)]
                                  /\ chain # <<>>
        BY <1>1, <1>3, <4>1, NextRevision
      <4>3. chain[Len(chain)] \in Revisions /\ Len(chain) >= 1
        BY <2>2, <4>2
      <4>4. k \in DOMAIN items /\ items[k].processed = Len(chain)
        BY <2>2, <4>2, <4>3, ResolvedParts
      <4>5. items[k].decision = "AUTO" /\ stored[k] # None
        BY <1>1, <4>1 DEF IInv, Founded, DurableOf, Resolving
      <4> HIDE DEF items, k, head
      <4>6. k \in Advanced(chain'[Len(chain')], Len(chain') - 1)
        BY <2>2, <2>5, <4>4 DEF Advanced
      <4>7. Len(chain') \in 2..Len(chain')
        BY <2>2, <2>5, <4>3
      <4>8. \E n \in 2..Len(chain') :
              k \in Advanced(chain'[n], n - 1) /\ chain'[n][k].decision = "AUTO"
        BY <2>5, <4>5, <4>6, <4>7
      <4>9. PointingOf(t)'
        BY <1>1, <4>5, <4>8 DEF PointingOf, RecordedAuto, k
      <4>10. JobOf(t)'
        BY <1>1, <2>2, <2>8, <4>1 DEF JobOf, Opens
      <4>11. QED
        BY <2>9, <3>2, <4>9, <4>10
           DEF Founded, ReadOf, Fresh, BuiltOf, Resolving, DurableOf, ComparedOf
    <3>3. QED
      BY <3>1, <3>2
  <2>11. Pointed'
    <3>1. pointer # None => RecordedAuto(pointer)'
      BY <1>1, <2>4, <2>5, RecordedAutoStable DEF IInv, Pointed
    <3>2. QED
      BY <1>1, <3>1 DEF IInv, Pointed
  <2>12. QED
    BY <2>4, <2>5, <2>7, <2>10, <2>11 DEF IInv
<1>4. QED
  BY <1>2, <1>3

LEMMA UploadStep ==
    ASSUME IInv, NEW t \in Tasks, Upload(t)
    PROVE  IInv'
<1> DEFINE k == job[t].target
<1>1. PICK landed \in BOOLEAN, answered \in BOOLEAN :
        /\ answered => landed
        /\ stored' = IF landed THEN [stored EXCEPT ![k] = t] ELSE stored
        /\ work' = [work EXCEPT ![t].durable = answered]
  BY DEF Upload
<1>2. /\ pc[t] = "upload" /\ pc' = [pc EXCEPT ![t] = "recheck"]
      /\ UNCHANGED <<reading, chain, claim, pointer, job, outcome>>
  BY DEF Upload, Goto
<1>3. /\ work[t] \in WorkSet /\ job[t] \in ResolveJob /\ ~ Opens(t) /\ k \in Connections
      /\ Founded(t)
  BY <1>2 DEF IInv, Typed, Founded, JobOf, OpenJob, ResolveJob, Opens
<1> HIDE DEF k
<1>4. /\ work'[t] = [work[t] EXCEPT !.durable = answered] /\ work'[t] \in WorkSet
      /\ work'[t].items = work[t].items /\ work'[t].head = work[t].head
      /\ work'[t].durable = answered
  BY <1>1, <1>3 DEF WorkSet, IInv, Typed
<1>5. stored' \in [Connections -> Tasks \cup {None}]
  BY <1>1 DEF IInv, Typed
<1>6. Typed'
  BY <1>1, <1>2, <1>4, <1>5 DEF IInv, Typed, Steps
<1>7. Grows /\ Keeps /\ Elsewhere(t) /\ (answered => stored'[k] # None)
  BY <1>1, <1>2, <1>3, NoneIsNothing DEF IInv, Typed, Grows, Keeps, Elsewhere
<1>8. \A u \in Tasks \ {t} : Founded(u)'
  BY <1>6, <1>7, FoundedStable DEF IInv, Elsewhere
<1>9. /\ pc'[t] = "recheck" /\ chain' = chain /\ job'[t] = job[t] /\ (Opens(t)' <=> Opens(t))
  BY <1>2 DEF IInv, Typed, Opens
<1>10. BuiltOf(t)'
  BY <1>2, <1>3, <1>4, <1>9 DEF Founded, BuiltOf, Resolving, Resumes, IsBaseline
<1>11. DurableOf(t)'
  <2>1. work[t].items[k].decision = "AUTO"
    BY <1>2, <1>3 DEF Founded, DurableOf, k
  <2>2. job'[t].target = k
    BY <1>9 DEF k
  <2>3. QED
    BY <2>1, <2>2, <1>4, <1>7, <1>9 DEF DurableOf, Resolving
<1>12. JobOf(t)' /\ HeadOf(t)' /\ ReadOf(t)' /\ ComparedOf(t)' /\ PointingOf(t)'
  BY <1>2, <1>3, <1>4, <1>9
     DEF Founded, JobOf, HeadOf, ReadOf, Fresh, ComparedOf, PointingOf
<1>13. ChainStarts' /\ ChainKeeps' /\ Pointed'
  <2>1. ChainStarts' /\ ChainKeeps'
    BY <1>2 DEF IInv, ChainStarts, ChainKeeps, IsBaseline
  <2>2. pointer # None => pointer \in Connections
    BY DEF IInv, Typed
  <2>3. Pointed'
    BY <1>2, <1>7, <2>2 DEF IInv, Pointed, RecordedAuto, Keeps
  <2>4. QED
    BY <2>1, <2>3
<1>14. QED
  BY <1>6, <1>8, <1>10, <1>11, <1>12, <1>13 DEF IInv, Founded

LEMMA PointStep ==
    ASSUME IInv, NEW t \in Tasks, Point(t)
    PROVE  IInv'
<1>1. /\ pc[t] = "point" /\ pointer' \in {job[t].target, pointer}
      /\ pc' = [pc EXCEPT ![t] = "release"]
      /\ UNCHANGED <<reading, chain, claim, stored, job, work, outcome>>
  BY DEF Point, Goto
<1>2. job[t] \in ResolveJob /\ job[t].target \in Connections /\ Founded(t)
  BY <1>1 DEF IInv, Typed, Founded, JobOf, OpenJob, ResolveJob, Opens
<1>3. Typed'
  BY <1>1, <1>2 DEF IInv, Typed, Steps
<1>4. Grows /\ Keeps /\ Elsewhere(t)
  BY <1>1 DEF IInv, Typed, Grows, Keeps, Elsewhere
<1>5. \A u \in Tasks \ {t} : Founded(u)'
  BY <1>3, <1>4, FoundedStable DEF IInv, Elsewhere
<1>6. Founded(t)'
  <2>1. pc'[t] = "release" /\ job'[t] \in OpenJob \cup ResolveJob /\ HeadOf(t)'
    BY <1>1, <1>2 DEF IInv, Typed, Founded, HeadOf
  <2>2. QED
    BY <2>1, Quiet
<1>7. ChainStarts' /\ ChainKeeps'
  BY <1>1 DEF IInv, ChainStarts, ChainKeeps, IsBaseline
<1>8. Pointed'
  BY <1>1, <1>2 DEF IInv, Pointed, Founded, PointingOf, RecordedAuto
<1>9. QED
  BY <1>3, <1>5, <1>6, <1>7, <1>8 DEF IInv

\* A claim given back, or a handler gone.
LEMMA EndStep ==
    ASSUME IInv, NEW t \in Tasks, Release(t) \/ Die(t)
    PROVE  IInv'
<1>1. /\ pc[t] # "idle" /\ pc' = [pc EXCEPT ![t] = "ended"]
      /\ work' = [work EXCEPT ![t] = NoWork]
      /\ claim' \in {claim, None}
      /\ outcome' \in {outcome, [outcome EXCEPT ![t] = "failed"]}
      /\ UNCHANGED <<reading, chain, stored, pointer, job>>
  BY DEF Release, Die, Goto, Forget, Answer, Steps, store
<1>2. Typed'
  BY <1>1, NoWorkIsWork DEF IInv, Typed, Outcomes
<1>3. /\ pc'[t] = "ended" /\ work'[t] = NoWork
      /\ job'[t] \in OpenJob \cup ResolveJob /\ Elsewhere(t)
  BY <1>1 DEF IInv, Typed, Founded, JobOf, Elsewhere
<1>4. Founded(t)'
  BY <1>3, NoWorkIsWork, Quiet DEF HeadOf
<1>5. QED
  BY <1>1, <1>2, <1>3, <1>4, LocalStep

\* Steps in which the request gives its answer at once.
LEMMA AnswerStep ==
    ASSUME IInv, NEW t \in Tasks, ReadAfterGap(t) \/ ReadBack(t) \/ Raise(t)
    PROVE  IInv'
<1>1. /\ pc[t] # "idle" /\ UNCHANGED <<store, job>>
      /\ \E answer \in Outcomes : Leave(t, answer)
  BY DEF ReadAfterGap, ReadBack, Raise, Outcomes
<1>2. QED
  BY <1>1, LeaveStep

\* Steps of no request.
LEMMA AroundStep ==
    ASSUME IInv, ExpireLease \/ ReadAgain
    PROVE  IInv'
<1>1. /\ UNCHANGED <<chain, stored, pointer, request>>
      /\ claim' \in {claim, None}
      /\ reading' \in [Documents -> Readings]
  BY DEF ExpireLease, ReadAgain, IInv, Typed
<1>2. Typed'
  BY <1>1 DEF IInv, Typed, request
<1>3. Grows /\ Keeps
  BY <1>1 DEF IInv, Typed, Grows, Keeps
<1>4. \A u \in Tasks : Founded(u)'
  BY <1>1, <1>2, <1>3, FoundedStable DEF IInv, request
<1>5. ChainStarts' /\ ChainKeeps' /\ Pointed'
  BY <1>1 DEF IInv, ChainStarts, ChainKeeps, Pointed, IsBaseline, RecordedAuto
<1>6. QED
  BY <1>2, <1>4, <1>5 DEF IInv

LEMMA InitIsFounded == Init => IInv
<1> SUFFICES ASSUME Init PROVE IInv
  OBVIOUS
<1>1. chain = <<>> /\ Len(chain) = 0 /\ chain \in Seq(Revisions)
  BY DEF Init
<1>2. Typed
  BY <1>1, NoWorkIsWork DEF Init, Typed, Outcomes
<1>3. \A t \in Tasks : Founded(t)
  BY NoWorkIsWork
     DEF Init, Founded, JobOf, HeadOf, ReadOf, Fresh, BuiltOf, Resolving, DurableOf,
         ComparedOf, PointingOf
<1>4. ChainStarts /\ ChainKeeps /\ Pointed
  BY <1>1 DEF Init, ChainStarts, ChainKeeps, Pointed
<1>5. QED
  BY <1>2, <1>3, <1>4 DEF IInv

LEMMA NextKeepsFounded == IInv /\ [Next]_vars => IInv'
<1> SUFFICES ASSUME IInv, [Next]_vars PROVE IInv'
  OBVIOUS
<1>1. CASE UNCHANGED vars
  <2>1. UNCHANGED <<chain, stored, pointer, request, reading, claim>>
    BY <1>1 DEF vars, store
  <2>2. Typed' /\ Grows /\ Keeps
    BY <2>1 DEF IInv, Typed, request, Grows, Keeps
  <2>3. \A u \in Tasks : Founded(u)'
    BY <2>1, <2>2, FoundedStable DEF IInv, request
  <2>4. QED
    BY <2>1, <2>2, <2>3
       DEF IInv, ChainStarts, ChainKeeps, Pointed, IsBaseline, RecordedAuto
<1>2. ASSUME NEW t \in Tasks, Ask(t) \/ Raise(t) \/ Die(t) PROVE IInv'
  BY <1>2, AskStep, AnswerStep, EndStep
<1>3. ASSUME NEW t \in Tasks, Call(t) PROVE IInv'
  BY <1>3, AcquireStep, CheckUnopenedStep, ReconstructStep, ResumeStep, ResolveStep,
     UploadStep, RecheckStep, BuildSnapshotStep, PersistStep, AnswerStep, PointStep, EndStep
     DEF Call
<1>4. CASE ExpireLease \/ ReadAgain
  BY <1>4, AroundStep
<1>5. QED
  BY <1>1, <1>2, <1>3, <1>4 DEF Next

-----------------------------------------------------------------------------
(* Theorems of the specification. *)

\* The inductive invariant holds of every behaviour.
THEOREM Inductive == Spec => []IInv
<1>1. Init => IInv
  BY InitIsFounded
<1>2. IInv /\ [Next]_vars => IInv'
  BY NextKeepsFounded
<1>3. QED
  BY <1>1, <1>2, PTL DEF Spec

\* Every variable keeps its type, for any number of requests and connections.
THEOREM TypeCorrect == Spec => []TypeOK
<1>1. ASSUME IInv PROVE TypeOK
  <2>1. Typed
    BY <1>1 DEF IInv
  <2>2. DOMAIN chain = 1..Len(chain) /\ \A n \in DOMAIN chain : chain[n] \in Revisions
    BY <2>1 DEF Typed
  <2>3. \A t \in Tasks : work[t] \in WorkSet
    BY <2>1 DEF Typed
  <2>4. QED
    BY <2>1, <2>2, <2>3, RevisionForms DEF Typed, TypeOK, WorkSet
<1>2. QED
  BY <1>1, Inductive, PTL

\* The project's drawing pointer always names a connection whose last recorded
\* state is AUTO, with a drawing stored at its path.
THEOREM PointerBacked == Spec => []PointerIsBacked
<1>1. ASSUME IInv PROVE PointerIsBacked
  <2> SUFFICES ASSUME pointer # None PROVE PointerIsBacked
    BY DEF PointerIsBacked
  <2>1. PICK n \in 2..Len(chain) :
          pointer \in Advanced(chain[n], n - 1) /\ chain[n][pointer].decision = "AUTO"
    BY <1>1 DEF IInv, Pointed, RecordedAuto
  <2>2. chain \in Seq(Revisions) /\ Len(chain) \in Nat /\ n \in 1..Len(chain)
    BY <1>1 DEF IInv, Typed
  <2>3. chain # <<>> /\ n - 1 \in Nat
    BY <2>2, ChainHead
  <2>4. pointer \in DOMAIN chain[n] /\ chain[n][pointer].processed # Never
    BY <2>1, <2>3, NeverIsNoRevision DEF Advanced
  <2>5. /\ pointer \in DOMAIN chain[Len(chain)]
        /\ chain[Len(chain)][pointer] = chain[n][pointer]
    BY <1>1, <2>2, <2>4 DEF IInv, ChainKeeps
  <2>6. QED
    BY <1>1, <2>1, <2>3, <2>4, <2>5 DEF PointerIsBacked, IInv, Pointed
<1>2. QED
  BY <1>1, Inductive, PTL

\* The recorded review is the abstract chain: a baseline first, then one
\* revision at a time, each answering one connection never answered before, and
\* a pointer that only ever names an AUTO answer.  No claim is needed for it.
THEOREM Refinement == Spec => ImplementsReviewChain
<1>1. Init => Chain!Init
  BY DEF Init, Chain!Init
<1>2. ASSUME IInv, [Next]_vars PROVE [Chain!Next]_<<chain, pointer>>
  <2>1. CASE UNCHANGED <<chain, pointer>>
    BY <2>1
  <2>2. ASSUME NEW t \in Tasks, Persist(t), Len(chain) = RevisionOf(t) PROVE Chain!Next
    <3>1. /\ pc[t] = "persist" /\ chain' = Append(chain, work[t].items)
          /\ pointer' = pointer
      BY <2>2 DEF Persist
    <3>2. CASE chain = <<>>
      <4>1. PICK e \in Evidence : work[t].items = Baseline(e)
        BY <1>2, <2>2, <3>1, <3>2, NextRevision DEF IsBaseline
      <4>2. chain' = <<Baseline(e)>>
        BY <3>1, <3>2, <4>1
      <4>3. Chain!Open
        BY <3>1, <3>2, <4>2
           DEF Chain!Open, Chain!Evidence, Evidence, Chain!Baseline, Baseline
      <4>4. QED
        BY <4>3 DEF Chain!Next
    <3>3. CASE chain # <<>>
      <4> DEFINE last == chain[Len(chain)]
                 k == job[t].target
      <4>1. PICK d \in Decision :
              /\ k \in DOMAIN last /\ last[k].processed = Never
              /\ work[t].items = Resolved(last, k, d, Len(chain))
        BY <1>2, <2>2, <3>1, <3>3, NextRevision
      <4>2. chain' = Append(chain, Resolved(last, k, d, Len(chain)))
        BY <3>1, <4>1
      <4>3. Chain!Answer
        BY <3>1, <3>3, <4>1, <4>2
           DEF Chain!Answer, Chain!Decision, Decision, Chain!Resolved, Resolved
      <4>4. QED
        BY <4>3 DEF Chain!Next
    <3>4. QED
      BY <3>2, <3>3
  <2>3. ASSUME NEW t \in Tasks, Point(t) PROVE [Chain!Next]_<<chain, pointer>>
    <3>1. /\ pc[t] = "point" /\ pointer' \in {job[t].target, pointer} /\ chain' = chain
      BY <2>3 DEF Point
    <3>2. RecordedAuto(job[t].target)
      BY <1>2, <3>1 DEF IInv, Founded, PointingOf
    <3>3. pointer' = job[t].target => Chain!Deliver
      BY <3>1, <3>2 DEF Chain!Deliver, Chain!Advanced, RecordedAuto, Advanced
    <3>4. QED
      BY <3>1, <3>3 DEF Chain!Next
  <2>4. ASSUME NEW t \in Tasks, Call(t) PROVE [Chain!Next]_<<chain, pointer>>
    <3>1. CASE Persist(t)
      <4>1. Len(chain) # RevisionOf(t) => UNCHANGED <<chain, pointer>>
        BY <3>1 DEF Persist
      <4>2. QED
        BY <2>2, <3>1, <4>1
    <3>2. CASE Point(t)
      BY <2>3, <3>2
    <3>3. CASE ~ Persist(t) /\ ~ Point(t)
      <4>1. UNCHANGED <<chain, pointer>>
        BY <2>4, <3>3
           DEF Call, Acquire, CheckUnopened, Reconstruct, Resume, Resolve, Upload, Recheck,
               BuildSnapshot, ReadAfterGap, ReadBack, Release, store
      <4>2. QED
        BY <4>1
    <3>4. QED
      BY <3>1, <3>2, <3>3
  <2>5. ASSUME NEW t \in Tasks, Ask(t) \/ Raise(t) \/ Die(t) PROVE UNCHANGED <<chain, pointer>>
    BY <2>5 DEF Ask, Raise, Die, store
  <2>6. CASE ExpireLease \/ ReadAgain \/ UNCHANGED vars
    BY <2>6 DEF ExpireLease, ReadAgain, vars, store
  <2>7. QED
    BY <1>2, <2>4, <2>5, <2>6 DEF Next
<1>3. QED
  BY <1>1, <1>2, Inductive, PTL DEF Spec, ImplementsReviewChain, Chain!Spec

\* A live claim ends by the release of the request that holds it, or by its
\* lease: whatever the interleaving, no request frees the claim of another.
THEOREM OwnRelease == Spec => OnlyOwnRelease
<1>1. ASSUME [Next]_vars, NEW t \in Tasks, claim = t, claim' # t
      PROVE  pc[t] = "release" \/ pc' = pc
  <2>1. t # None
    BY NoneIsNothing
  <2>2. ASSUME NEW u \in Tasks, Call(u) PROVE pc[t] = "release"
    <3>1. CASE Acquire(u)
      BY <1>1, <2>1, <3>1 DEF Acquire
    <3>2. CASE Release(u)
      BY <1>1, <3>2 DEF Release
    <3>3. CASE ~ Acquire(u) /\ ~ Release(u)
      BY <1>1, <2>2, <3>3
         DEF Call, CheckUnopened, Reconstruct, Resume, Resolve, Upload, Recheck, BuildSnapshot,
             Persist, ReadAfterGap, ReadBack, Point, store
    <3>4. QED
      BY <3>1, <3>2, <3>3
  <2>3. ASSUME NEW u \in Tasks, Ask(u) \/ Raise(u) \/ Die(u) PROVE FALSE
    BY <1>1, <2>3 DEF Ask, Raise, Die, store
  <2>4. CASE ExpireLease \/ ReadAgain \/ UNCHANGED vars
    BY <2>4 DEF ExpireLease, ReadAgain, vars, request
  <2>5. QED
    BY <1>1, <2>2, <2>3, <2>4 DEF Next
<1>2. [Next]_vars =>
        [\A t \in Tasks : claim = t /\ claim' # t => pc[t] = "release" \/ pc' = pc]_vars
  BY <1>1
<1>3. QED
  BY <1>2, PTL DEF Spec, OnlyOwnRelease

\* A conflict tells the truth: when a request answers it, the chain has moved
\* past the revision that the request resumed.
THEOREM ConflictIsTrue == Spec => ConflictMeansMoved
<1> DEFINE Moved(t) == HeadRevision(chain) > work[t].head \/ chain = <<>>
<1>1. ASSUME IInv, NEW t \in Tasks PROVE
        /\ work[t].head \in Nat /\ Len(chain) \in Nat
        /\ HeadRevision(chain) # work[t].head => Moved(t)
        /\ Len(chain) # work[t].head + 1 => Moved(t)
  <2>1. /\ work[t].head \in Nat /\ Len(chain) \in Nat
        /\ work[t].head > 0 => work[t].head + 1 <= Len(chain)
        /\ chain = <<>> <=> Len(chain) = 0
    BY <1>1 DEF IInv, Typed, WorkSet, Founded, HeadOf
  <2>2. QED
    BY <2>1 DEF HeadRevision
<1>2. ASSUME NEW t \in Tasks, outcome \in [Tasks -> Outcomes], NEW u \in Tasks, NEW answer,
             Answer(u, answer), outcome'[t] # outcome[t]
      PROVE  t = u /\ outcome'[t] = answer
  BY <1>2 DEF Answer
<1>3. ASSUME IInv, [Next]_vars, NEW t \in Tasks, outcome[t] # outcome'[t],
             outcome'[t] = "conflict"
      PROVE  Moved(t)
  <2>1. outcome \in [Tasks -> Outcomes]
    BY <1>3 DEF IInv, Typed
  <2>2. ASSUME NEW u \in Tasks, NEW answer, Answer(u, answer) PROVE u = t /\ answer = "conflict"
    BY <1>2, <1>3, <2>1, <2>2
  <2>3. ASSUME NEW u \in Tasks, NEW answer, Leave(u, answer) PROVE u = t /\ answer = "conflict"
    BY <2>2, <2>3 DEF Leave
  <2>4. ASSUME NEW u \in Tasks, Gap(u) PROVE u = t /\ ~ Opens(t)
    BY <1>3, <2>3, <2>4 DEF Gap
  <2>5. ASSUME NEW u \in Tasks, Call(u) PROVE Moved(t)
    <3>1. CASE Recheck(u)
      BY <1>1, <1>3, <2>3, <3>1 DEF Recheck
    <3>2. CASE BuildSnapshot(u)
      BY <1>1, <1>3, <2>3, <2>4, <3>2 DEF BuildSnapshot, RevisionOf
    <3>3. CASE Persist(u)
      <4>1. Gap(u) /\ Len(chain) # RevisionOf(u)
        BY <2>2, <2>3, <3>3 DEF Persist, Recorded
      <4>2. QED
        BY <1>1, <1>3, <2>4, <4>1 DEF RevisionOf
    <3>4. CASE Acquire(u)
      BY <1>3, <2>2, <3>4 DEF Acquire
    <3>5. CASE CheckUnopened(u)
      BY <1>3, <2>3, <3>5 DEF CheckUnopened
    <3>6. CASE Resume(u)
      BY <1>3, <2>3, <3>6 DEF Resume
    <3>7. CASE Resolve(u)
      BY <1>3, <2>3, <3>7 DEF Resolve
    <3>8. CASE ReadAfterGap(u)
      BY <2>3, <3>8 DEF ReadAfterGap
    <3>9. CASE ReadBack(u)
      BY <2>3, <3>9 DEF ReadBack
    <3>10. CASE Release(u)
      BY <1>3, <2>2, <3>10 DEF Release
    <3>11. CASE Reconstruct(u) \/ Upload(u) \/ Point(u)
      BY <1>3, <3>11 DEF Reconstruct, Upload, Point
    <3>12. QED
      BY <2>5, <3>1, <3>2, <3>3, <3>4, <3>5, <3>6, <3>7, <3>8, <3>9, <3>10, <3>11 DEF Call
  <2>6. ASSUME NEW u \in Tasks, Raise(u) PROVE FALSE
    BY <2>3, <2>6 DEF Raise
  <2>7. CASE \E u \in Tasks : Ask(u) \/ Die(u)
    BY <1>3, <2>7 DEF Ask, Die
  <2>8. CASE ExpireLease \/ ReadAgain \/ UNCHANGED vars
    BY <1>3, <2>8 DEF ExpireLease, ReadAgain, vars, request
  <2>9. QED
    BY <1>3, <2>5, <2>6, <2>7, <2>8 DEF Next
<1>4. IInv /\ [Next]_vars =>
        [\A t \in Tasks : outcome[t] # outcome'[t] /\ outcome'[t] = "conflict"
            => HeadRevision(chain) > work[t].head \/ chain = <<>>]_vars
  BY <1>3
<1>5. QED
  BY <1>4, Inductive, PTL DEF Spec, ConflictMeansMoved

-----------------------------------------------------------------------------
(* Every recorded revision is the success of one request.                      *)

\* Until a request may have recorded something it has given no answer.
Unanswered == {"idle", "asked", "reconstruct", "resume", "resolve", "upload", "recheck",
               "previous", "persist", "gap"}

AnswerOf(t) ==
    /\ pc[t] \in Unanswered => outcome[t] = "pending"
    /\ pc[t] = "readback" => outcome[t] = "opened"

Recorders == {t \in Tasks : outcome[t] \in Successes}

AnswersInv ==
    /\ \A t \in Tasks : AnswerOf(t)
    /\ IsFiniteSet(Recorders)
    /\ AnswersMatchChain

\* What a call that records nothing does to the answers.
LEMMA OnlyPersistRecords ==
    ASSUME Typed, NEW t \in Tasks, AnswerOf(t),
           Ask(t) \/ Call(t) \/ Raise(t) \/ Die(t), chain' = chain
    PROVE  /\ \A u \in Tasks \ {t} : pc'[u] = pc[u] /\ outcome'[u] = outcome[u]
           /\ AnswerOf(t)'
           /\ outcome'[t] \in Successes <=> outcome[t] \in Successes
<1> USE DEF Unanswered, Successes, AnswerOf, Typed, Goto, Answer
<1> SUFFICES \/ /\ \E label \in {"asked", "reconstruct", "resume", "resolve", "upload",
                                 "recheck", "previous", "persist", "gap"} :
                        pc' = [pc EXCEPT ![t] = label]
                /\ pc[t] \in Unanswered /\ outcome' = outcome
             \/ /\ \E label \in {"ended", "release"} : pc' = [pc EXCEPT ![t] = label]
                /\ \/ outcome' = outcome
                   \/ /\ pc[t] \in Unanswered
                      /\ \E answer \in Outcomes \ Successes :
                            outcome' = [outcome EXCEPT ![t] = answer]
                   \/ /\ pc[t] = "readback" \/ outcome[t] = "recorded"
                      /\ \E answer \in Successes : outcome' = [outcome EXCEPT ![t] = answer]
  OBVIOUS
<1>1. CASE Ask(t) \/ Acquire(t)
  BY <1>1 DEF Ask, Acquire, Outcomes
<1>2. CASE CheckUnopened(t) \/ Reconstruct(t) \/ Resume(t)
  BY <1>2 DEF CheckUnopened, Reconstruct, Resume, Leave, Outcomes
<1>3. CASE Resolve(t) \/ Upload(t) \/ Recheck(t)
  BY <1>3 DEF Resolve, Upload, Recheck, Leave, Outcomes
<1>4. CASE BuildSnapshot(t)
  BY <1>4 DEF BuildSnapshot, Gap, Leave, Outcomes
<1>5. CASE Persist(t)
  <2>1. Append(chain, work[t].items) # chain
    <3>1. work[t].items \in Revisions /\ chain \in Seq(Revisions)
      BY DEF WorkSet
    <3>2. Len(Append(chain, work[t].items)) = Len(chain) + 1 /\ Len(chain) \in Nat
      BY <3>1
    <3>3. QED
      BY <3>2
  <2>2. pc[t] = "persist" /\ Gap(t)
    BY <1>5, <2>1 DEF Persist
  <2>3. QED
    BY <2>2 DEF Gap, Leave, Outcomes
<1>6. CASE ReadAfterGap(t) \/ ReadBack(t) \/ Raise(t)
  BY <1>6 DEF ReadAfterGap, ReadBack, Raise, Leave, Outcomes
<1>7. CASE Point(t) \/ Release(t) \/ Die(t)
  BY <1>7 DEF Point, Release, Die
<1>8. QED
  BY <1>1, <1>2, <1>3, <1>4, <1>5, <1>6, <1>7 DEF Call

\* A call that moves the chain records one revision, and answers success unless
\* its answer is lost.
LEMMA PersistCounts ==
    ASSUME Typed, NEW t \in Tasks, AnswerOf(t),
           Ask(t) \/ Call(t) \/ Raise(t) \/ Die(t), chain' # chain
    PROVE  /\ Len(chain') = Len(chain) + 1
           /\ \A u \in Tasks \ {t} : pc'[u] = pc[u] /\ outcome'[u] = outcome[u]
           /\ AnswerOf(t)'
           /\ outcome[t] = "pending"
           /\ outcome'[t] \in {"opened", "recorded", "unanswered"}
<1>1. Persist(t)
  BY DEF Ask, Call, Acquire, CheckUnopened, Reconstruct, Resume, Resolve, Upload, Recheck,
     BuildSnapshot, ReadAfterGap, ReadBack, Point, Release, Raise, Die, store
<1>2. /\ pc[t] = "persist" /\ chain' = Append(chain, work[t].items)
      /\ Recorded(t) \/ Leave(t, "unanswered")
  BY <1>1 DEF Persist
<1>3. work[t].items \in Revisions /\ chain \in Seq(Revisions)
  BY DEF Typed, WorkSet
<1>4. \/ /\ \E label \in {"readback", "point", "release"} :
                /\ pc' = [pc EXCEPT ![t] = label]
                /\ label = "readback" => Opens(t)
         /\ outcome' = [outcome EXCEPT ![t] = IF Opens(t) THEN "opened" ELSE "recorded"]
      \/ /\ \E label \in {"ended", "release"} : pc' = [pc EXCEPT ![t] = label]
         /\ outcome' = [outcome EXCEPT ![t] = "unanswered"]
  BY <1>2 DEF Recorded, Leave, Goto, Answer
<1>5. QED
  BY <1>2, <1>3, <1>4 DEF Typed, AnswerOf, Unanswered

\* When every call is answered, it goes on to deliver what it recorded.
LEMMA PersistRecords ==
    ASSUME AnswersLost = FALSE, Typed, NEW t \in Tasks, AnswerOf(t),
           Ask(t) \/ Call(t) \/ Raise(t) \/ Die(t), chain' # chain
    PROVE  /\ pc[t] = "persist" /\ Len(chain) = RevisionOf(t) /\ Recorded(t)
           /\ Len(chain') = Len(chain) + 1
           /\ UNCHANGED <<reading, claim, stored, pointer, job, work>>
           /\ \A u \in Tasks \ {t} : pc'[u] = pc[u] /\ outcome'[u] = outcome[u]
           /\ AnswerOf(t)'
           /\ outcome[t] = "pending"
           /\ outcome'[t] = IF Opens(t) THEN "opened" ELSE "recorded"
<1>1. Persist(t)
  BY DEF Ask, Call, Acquire, CheckUnopened, Reconstruct, Resume, Resolve, Upload, Recheck,
     BuildSnapshot, ReadAfterGap, ReadBack, Point, Release, Raise, Die, store
<1>2. /\ pc[t] = "persist" /\ Len(chain) = RevisionOf(t) /\ Recorded(t)
      /\ chain' = Append(chain, work[t].items)
      /\ UNCHANGED <<reading, claim, stored, pointer, job>>
  BY <1>1 DEF Persist
<1>3. work[t].items \in Revisions /\ chain \in Seq(Revisions)
  BY DEF Typed, WorkSet
<1>4. \E label \in {"readback", "point", "release"} :
        /\ pc' = [pc EXCEPT ![t] = label]
        /\ label = "readback" => Opens(t)
  BY <1>2 DEF Recorded, Goto
<1>5. outcome' = [outcome EXCEPT ![t] = IF Opens(t) THEN "opened" ELSE "recorded"]
      /\ work' = work
  BY <1>2 DEF Recorded, Answer
<1>6. QED
  BY <1>2, <1>3, <1>4, <1>5 DEF Typed, AnswerOf, Unanswered

LEMMA AnswersKept ==
    ASSUME Typed, AnswersInv, [Next]_vars
    PROVE  AnswersInv'
<1>1. CASE UNCHANGED <<chain, pc, outcome>>
  BY <1>1 DEF AnswersInv, AnswerOf, Recorders, AnswersMatchChain
<1>2. ASSUME NEW t \in Tasks, Ask(t) \/ Call(t) \/ Raise(t) \/ Die(t)
      PROVE  AnswersInv'
  <2>1. CASE chain' = chain
    <3>1. /\ \A u \in Tasks \ {t} : pc'[u] = pc[u] /\ outcome'[u] = outcome[u]
          /\ AnswerOf(t)'
          /\ outcome'[t] \in Successes <=> outcome[t] \in Successes
      BY <1>2, <2>1, OnlyPersistRecords DEF AnswersInv
    <3>2. Recorders' = Recorders
      BY <3>1 DEF Recorders
    <3>3. QED
      BY <2>1, <3>1, <3>2 DEF AnswersInv, AnswersMatchChain, AnswerOf, Recorders
  <2>2. CASE chain' # chain
    <3>1. /\ Len(chain') = Len(chain) + 1
          /\ \A u \in Tasks \ {t} : pc'[u] = pc[u] /\ outcome'[u] = outcome[u]
          /\ AnswerOf(t)' /\ outcome[t] = "pending"
          /\ outcome'[t] \in {"opened", "recorded", "unanswered"}
      BY <1>2, <2>2, PersistCounts DEF AnswersInv
    <3>2. t \notin Recorders /\ Recorders' = Recorders \cup {t}
      BY <3>1 DEF Recorders, Successes
    <3>3. IsFiniteSet(Recorders') /\ Cardinality(Recorders') = Cardinality(Recorders) + 1
      BY <3>2, FS_AddElement DEF AnswersInv
    <3>4. AnswersMatchChain'
      BY <3>1, <3>3 DEF AnswersInv, AnswersMatchChain, Recorders
    <3>5. QED
      BY <3>1, <3>3, <3>4 DEF AnswersInv, AnswerOf
  <2>3. QED
    BY <2>1, <2>2
<1>3. QED
  BY <1>1, <1>2 DEF Next, ExpireLease, ReadAgain, vars, store, request

\* However leases end, answers are lost and handlers fail or die, the revisions
\* recorded are as many as the requests that answered success or lost the answer of
\* their own write: a refusal, a conflict and a lost race record nothing.
THEOREM AnswersCountRevisions == Spec => []AnswersMatchChain
<1>1. Init => AnswersInv
  <2> SUFFICES ASSUME Init PROVE AnswersInv
    OBVIOUS
  <2>1. Recorders = {} /\ Len(chain) = 0
    BY DEF Init, Recorders, Successes
  <2>2. QED
    BY <2>1, FS_EmptySet DEF Init, AnswersInv, AnswersMatchChain, AnswerOf, Recorders
<1>2. IInv /\ AnswersInv /\ [Next]_vars => AnswersInv'
  BY AnswersKept DEF IInv
<1>3. AnswersInv => AnswersMatchChain
  BY DEF AnswersInv
<1>4. QED
  BY <1>1, <1>2, <1>3, Inductive, PTL DEF Spec

-----------------------------------------------------------------------------
(* What the claim adds: the drawing delivered is the one that was verified.    *)

Holding == {"reconstruct", "resume", "resolve", "upload", "recheck", "previous", "persist",
            "point", "release"}

\* A resolution holds the claim until it has released it.
ClaimedOf(t) ==
    /\ pc[t] \in Holding /\ ~ Opens(t) => claim = t
    /\ pc[t] \in {"gap", "readback"} => Opens(t)

\* Nobody recorded a revision since a resolution resumed the chain, unless it is
\* the baseline that an opening wrote under it.
CurrentOf(t) ==
    pc[t] \in {"resolve", "upload", "recheck", "previous", "persist"} /\ ~ Opens(t) =>
        Len(chain) <= work[t].head + 1

\* The drawing a resolution uploaded is still its own when it points to it.
OwnDrawing(t) ==
    /\ pc[t] \in {"recheck", "previous", "persist"} /\ ~ Opens(t) /\ work[t].durable =>
            stored[job[t].target] = t
    /\ pc[t] = "point" => stored[job[t].target] = t /\ outcome[t] = "recorded"

ClaimOf(t) == ClaimedOf(t) /\ CurrentOf(t) /\ OwnDrawing(t)

DeliveryInv == (\A t \in Tasks : ClaimOf(t)) /\ DeliveredIsVerified

\* The pointer never names a connection that a resolution is still answering.
LEMMA NotYetPointed ==
    ASSUME IInv, NEW t \in Tasks, Resolving(t), CurrentOf(t)
    PROVE  pointer # job[t].target
<1> DEFINE k == job[t].target
           head == work[t].head
<1> SUFFICES ASSUME pointer = k PROVE FALSE
  OBVIOUS
<1>1. /\ Len(chain) <= head + 1 /\ Len(chain) \in Nat /\ head \in Nat
      /\ head > 0 => head + 1 <= Len(chain)
  BY DEF CurrentOf, Resolving, IInv, Typed, WorkSet, Founded, HeadOf
<1>2. k \in Connections
  BY DEF IInv, Typed, Founded, JobOf, Resolving, Opens, OpenJob, ResolveJob, Steps
<1>3. pointer # None /\ RecordedAuto(k)
  BY <1>2, NoneIsNothing DEF IInv, Pointed
<1>4. PICK n \in 2..Len(chain) : k \in Advanced(chain[n], n - 1)
  BY <1>3 DEF RecordedAuto
<1>5. chain[n][k].processed = n - 1 /\ k \in DOMAIN chain[n]
  BY <1>4 DEF Advanced
<1>6. n - 1 # Never /\ n \in 1..Len(chain) /\ head > 0 /\ head + 1 = Len(chain)
  BY <1>1, <1>4, NeverIsNoRevision
<1>7. chain[Len(chain)][k].processed # Never
  BY <1>5, <1>6 DEF IInv, ChainKeeps
<1>8. PICK r \in Revisions : Resumes(r, head) /\ k \in DOMAIN r /\ r[k].processed = Never
  BY DEF IInv, Founded, BuiltOf
<1>9. r[k].processed = chain[Len(chain)][k].processed
  BY <1>6, <1>8 DEF Resumes
<1>10. QED
  BY <1>7, <1>8, <1>9

\* A step of one request leaves what the claim gives another one, provided it
\* takes no claim away, adds to the chain only as an opening or as the holder,
\* and uploads only as the holder.
LEMMA ClaimStable ==
    ASSUME IInv, NEW t \in Tasks, ClaimOf(t),
           pc'[t] = pc[t], job'[t] = job[t], work'[t] = work[t], outcome'[t] = outcome[t],
           claim = t => claim' = t,
           Len(chain') = Len(chain) \/ Len(chain') = 1 \/ claim # t,
           stored' = stored \/ claim # t
    PROVE  ClaimOf(t)'
<1>1. Opens(t)' <=> Opens(t)
  BY DEF Opens
<1>2. ClaimedOf(t)'
  BY <1>1 DEF ClaimOf, ClaimedOf
<1>3. CurrentOf(t)'
  <2> SUFFICES ASSUME pc[t] \in {"resolve", "upload", "recheck", "previous", "persist"},
                      ~ Opens(t)
               PROVE  Len(chain') <= work[t].head + 1
    BY <1>1 DEF CurrentOf
  <2>1. claim = t /\ Len(chain) <= work[t].head + 1
    BY DEF ClaimOf, ClaimedOf, CurrentOf, Holding
  <2>2. work[t].head \in Nat /\ Len(chain) \in Nat
    BY DEF IInv, Typed, WorkSet
  <2>3. CASE Len(chain') = Len(chain)
    BY <2>1, <2>3
  <2>4. CASE Len(chain') = 1
    <3>1. 1 <= work[t].head + 1
      BY <2>2
    <3>2. QED
      BY <2>4, <3>1
  <2>5. QED
    BY <2>1, <2>3, <2>4
<1>4. OwnDrawing(t)'
  <2>1. CASE pc[t] = "point"
    <3>1. claim = t
      BY <2>1 DEF ClaimOf, ClaimedOf, Holding, IInv, Founded, JobOf
    <3>2. QED
      BY <2>1, <3>1 DEF ClaimOf, OwnDrawing
  <2>2. CASE pc[t] \in {"recheck", "previous", "persist"} /\ ~ Opens(t)
    BY <1>1, <2>2 DEF ClaimOf, ClaimedOf, OwnDrawing, Holding
  <2>3. QED
    BY <1>1, <2>1, <2>2 DEF OwnDrawing
<1>5. QED
  BY <1>2, <1>3, <1>4 DEF ClaimOf

\* What a step of request t leaves to the others.
LeavesTheRest(t) ==
    /\ \A u \in Tasks \ {t} :
        /\ pc'[u] = pc[u] /\ job'[u] = job[u] /\ work'[u] = work[u] /\ outcome'[u] = outcome[u]
        /\ claim = u => claim' = u
    /\ Len(chain') = Len(chain) \/ Len(chain') = 1 \/ claim = t
    /\ stored' = stored \/ claim = t

LEMMA LeaveClaims ==
    ASSUME Typed, NEW t \in Tasks, NEW answer \in Outcomes, ClaimedOf(t),
           pc[t] \in Holding \cup {"gap", "readback"} \/ Opens(t),
           Leave(t, answer), UNCHANGED <<store, job>>
    PROVE  ClaimOf(t)' /\ LeavesTheRest(t)
<1>1. /\ pc' = [pc EXCEPT ![t] = IF Opens(t) THEN "ended" ELSE "release"]
      /\ work' = [work EXCEPT ![t] = NoWork]
      /\ outcome' = [outcome EXCEPT ![t] = answer]
      /\ UNCHANGED <<chain, stored, claim, job>>
      /\ Opens(t)' <=> Opens(t)
  BY DEF Leave, Answer, Forget, Goto, store, Opens
<1>2. LeavesTheRest(t)
  BY <1>1 DEF LeavesTheRest, Typed
<1>3. pc'[t] = (IF Opens(t) THEN "ended" ELSE "release")
  BY <1>1 DEF Typed
<1>4. ClaimOf(t)'
  BY <1>1, <1>3 DEF ClaimOf, ClaimedOf, CurrentOf, OwnDrawing, Holding
<1>5. QED
  BY <1>2, <1>4

LEMMA MoverClaims ==
    ASSUME LeasesExpire = FALSE, AnswersLost = FALSE, IInv, NEW t \in Tasks, ClaimOf(t),
           Ask(t) \/ Call(t) \/ Raise(t) \/ Die(t)
    PROVE  ClaimOf(t)' /\ LeavesTheRest(t)
<1> DEFINE Goal == ClaimOf(t)' /\ LeavesTheRest(t)
<1>a. Typed /\ ClaimedOf(t) /\ CurrentOf(t) /\ OwnDrawing(t) /\ JobOf(t) /\ DurableOf(t)
  BY DEF IInv, Founded, ClaimOf
<1>b. None \notin Tasks
  BY NoneIsNothing
<1>1. CASE Ask(t) \/ Die(t)
  <2>1. /\ \E label \in {"asked", "ended"} : pc' = [pc EXCEPT ![t] = label]
        /\ UNCHANGED <<store, outcome>>
        /\ \A u \in Tasks \ {t} : job'[u] = job[u] /\ work'[u] = work[u]
    BY <1>1, <1>a DEF Ask, Die, Goto, Forget, Typed
  <2>2. pc'[t] \in {"asked", "ended"} /\ LeavesTheRest(t)
    BY <2>1, <1>a DEF LeavesTheRest, Typed, store
  <2>3. QED
    BY <2>2 DEF ClaimOf, ClaimedOf, CurrentOf, OwnDrawing, Holding
<1>2. CASE Acquire(t)
  <2>1. /\ pc[t] = "asked" /\ UNCHANGED <<reading, chain, stored, pointer, job, work>>
        /\ \/ claim = None /\ claim' = t /\ pc' = [pc EXCEPT ![t] = "reconstruct"]
              /\ outcome' = outcome
           \/ claim' = claim /\ pc' = [pc EXCEPT ![t] = "ended"]
              /\ outcome' = [outcome EXCEPT ![t] = "refused"]
    BY <1>2 DEF Acquire, Goto, Answer
  <2>2. LeavesTheRest(t)
    BY <2>1, <1>a, <1>b DEF LeavesTheRest, Typed
  <2>3. ClaimOf(t)'
    BY <2>1, <1>a DEF ClaimOf, ClaimedOf, CurrentOf, OwnDrawing, Holding, Typed
  <2>4. QED
    BY <2>2, <2>3
<1>3. CASE CheckUnopened(t)
  <2>1. CASE chain = <<>>
    <3>1. /\ pc[t] = "asked" /\ Opens(t) /\ pc' = [pc EXCEPT ![t] = "reconstruct"]
          /\ UNCHANGED <<store, job, work, outcome>> /\ (Opens(t)' <=> Opens(t))
      BY <1>3, <2>1 DEF CheckUnopened, Goto, Opens
    <3>2. QED
      BY <3>1, <1>a
      DEF LeavesTheRest, ClaimOf, ClaimedOf, CurrentOf, OwnDrawing, Holding, Typed, store
  <2>2. CASE chain # <<>>
    BY <1>3, <1>a, <2>2, LeaveClaims DEF CheckUnopened, Outcomes
  <2>3. QED
    BY <2>1, <2>2
<1>4. CASE Reconstruct(t)
  <2>1. /\ pc[t] = "reconstruct" /\ pc' = [pc EXCEPT ![t] = "resume"]
        /\ UNCHANGED <<store, job, outcome>>
        /\ (Opens(t)' <=> Opens(t))
        /\ \A u \in Tasks \ {t} : work'[u] = work[u]
    BY <1>4, <1>a DEF Reconstruct, Goto, Typed, Opens
  <2>2. QED
    BY <2>1, <1>a
    DEF LeavesTheRest, ClaimOf, ClaimedOf, CurrentOf, OwnDrawing, Holding, Typed, store
<1>5. CASE Resume(t)
  <2>1. CASE Leave(t, "refused")
    BY <1>5, <1>a, <2>1, LeaveClaims DEF Resume, Outcomes, Holding
  <2>2. CASE ~ Leave(t, "refused")
    <3>1. /\ pc[t] = "resume" /\ UNCHANGED <<store, job, outcome>>
          /\ \E label \in {"previous", "resolve"} :
                pc' = [pc EXCEPT ![t] = label] /\ (label = "previous" => Opens(t))
          /\ \E items : work' = [work EXCEPT ![t] =
                                    [@ EXCEPT !.head = HeadRevision(chain), !.items = items]]
          /\ (Opens(t)' <=> Opens(t))
      BY <1>5, <2>2 DEF Resume, Goto, Opens
    <3>2. work'[t].head = HeadRevision(chain) /\ \A u \in Tasks \ {t} : work'[u] = work[u]
      BY <3>1, <1>a DEF Typed, WorkSet
    <3>3. Len(chain) <= HeadRevision(chain) + 1
      <4>1. Len(chain) \in Nat
        BY <1>a DEF Typed
      <4>2. chain = <<>> => Len(chain) = 0
        OBVIOUS
      <4>3. QED
        BY <4>1, <4>2 DEF HeadRevision
    <3>4. LeavesTheRest(t)
      BY <3>1, <3>2, <1>a DEF LeavesTheRest, Typed, store
    <3>5. ClaimOf(t)'
      BY <3>1, <3>2, <3>3, <1>a
      DEF ClaimOf, ClaimedOf, CurrentOf, OwnDrawing, Holding, Typed, store
    <3>6. QED
      BY <3>4, <3>5
  <2>3. QED
    BY <2>1, <2>2
<1>6. CASE Resolve(t)
  <2>1. CASE Leave(t, "refused")
    BY <1>6, <1>a, <2>1, LeaveClaims DEF Resolve, Outcomes, Holding
  <2>2. CASE ~ Leave(t, "refused")
    <3>1. /\ pc[t] = "resolve" /\ UNCHANGED <<store, job, outcome>>
          /\ \E label \in {"upload", "recheck"} : pc' = [pc EXCEPT ![t] = label]
          /\ \E items : work' = [work EXCEPT ![t] = [@ EXCEPT !.items = items]]
          /\ (Opens(t)' <=> Opens(t))
      BY <1>6, <2>2 DEF Resolve, Goto, Opens
    <3>2. /\ work'[t].head = work[t].head /\ work'[t].durable = work[t].durable
          /\ \A u \in Tasks \ {t} : work'[u] = work[u]
      BY <3>1, <1>a DEF Typed, WorkSet
    <3>3. LeavesTheRest(t)
      BY <3>1, <3>2, <1>a DEF LeavesTheRest, Typed, store
    <3>4. ~ work[t].durable
      BY <3>1, <1>a DEF DurableOf
    <3>5. ClaimOf(t)'
      BY <3>1, <3>2, <3>4, <1>a
      DEF ClaimOf, ClaimedOf, CurrentOf, OwnDrawing, Holding, Typed, store
    <3>6. QED
      BY <3>3, <3>5
  <2>3. QED
    BY <2>1, <2>2
<1>7. CASE Upload(t)
  <2>1. PICK landed \in BOOLEAN, answered \in BOOLEAN :
            /\ answered => landed
            /\ stored' = IF landed THEN [stored EXCEPT ![job[t].target] = t] ELSE stored
            /\ work' = [work EXCEPT ![t].durable = answered]
    BY <1>7 DEF Upload
  <2>2. /\ pc[t] = "upload" /\ pc' = [pc EXCEPT ![t] = "recheck"]
        /\ UNCHANGED <<reading, chain, claim, pointer, job, outcome>>
        /\ (Opens(t)' <=> Opens(t))
    BY <1>7 DEF Upload, Goto, Opens
  <2>3. /\ ~ Opens(t) /\ claim = t /\ job[t].target \in Connections
    BY <2>2, <1>a DEF JobOf, ClaimedOf, Holding, Opens, OpenJob, ResolveJob
  <2>4. /\ work'[t].head = work[t].head /\ work'[t].durable = answered
        /\ \A u \in Tasks \ {t} : work'[u] = work[u]
        /\ answered => stored'[job[t].target] = t
    BY <2>1, <2>3, <1>a DEF Typed, WorkSet
  <2>5. LeavesTheRest(t)
    BY <2>2, <2>3, <2>4, <1>a DEF LeavesTheRest, Typed
  <2>6. ClaimOf(t)'
    BY <2>2, <2>3, <2>4, <1>a DEF ClaimOf, ClaimedOf, CurrentOf, OwnDrawing, Holding, Typed
  <2>7. QED
    BY <2>5, <2>6
<1>8. CASE Recheck(t)
  <2>1. CASE Leave(t, "conflict")
    BY <1>8, <1>a, <2>1, LeaveClaims DEF Recheck, Outcomes, Holding
  <2>2. CASE ~ Leave(t, "conflict")
    <3>1. /\ pc[t] = "recheck" /\ pc' = [pc EXCEPT ![t] = "previous"]
          /\ UNCHANGED <<store, job, work, outcome>> /\ (Opens(t)' <=> Opens(t))
      BY <1>8, <2>2 DEF Recheck, Goto, Opens
    <3>2. QED
      BY <3>1, <1>a
      DEF LeavesTheRest, ClaimOf, ClaimedOf, CurrentOf, OwnDrawing, Holding, Typed, store
  <2>3. QED
    BY <2>1, <2>2
<1>9. ASSUME pc[t] \in {"previous", "persist"}, Gap(t), UNCHANGED <<store, job>>
      PROVE  Goal
  <2>1. CASE Opens(t)
    <3>1. /\ pc' = [pc EXCEPT ![t] = "gap"] /\ UNCHANGED <<store, job, work, outcome>>
          /\ (Opens(t)' <=> Opens(t))
      BY <1>9, <2>1 DEF Gap, Goto, Opens
    <3>2. QED
      BY <2>1, <3>1, <1>a
      DEF LeavesTheRest, ClaimOf, ClaimedOf, CurrentOf, OwnDrawing, Holding, Typed, store
  <2>2. CASE ~ Opens(t)
    BY <1>9, <1>a, <2>2, LeaveClaims DEF Gap, Outcomes, Holding
  <2>3. QED
    BY <2>1, <2>2
<1>10. CASE BuildSnapshot(t)
  <2>1. CASE Leave(t, "refused")
    BY <1>10, <1>a, <2>1, LeaveClaims DEF BuildSnapshot, Outcomes, Holding
  <2>2. CASE Gap(t)
    BY <1>9, <1>10, <2>2 DEF BuildSnapshot
  <2>3. CASE pc' = [pc EXCEPT ![t] = "persist"] /\ UNCHANGED <<work, outcome>>
    <3>1. /\ pc[t] = "previous" /\ UNCHANGED <<store, job>> /\ (Opens(t)' <=> Opens(t))
      BY <1>10 DEF BuildSnapshot, Opens
    <3>2. QED
      BY <2>3, <3>1, <1>a
      DEF LeavesTheRest, ClaimOf, ClaimedOf, CurrentOf, OwnDrawing, Holding, Typed, store
  <2>4. QED
    BY <1>10, <2>1, <2>2, <2>3 DEF BuildSnapshot, Goto
<1>11. CASE Persist(t)
  <2>1. CASE Len(chain) = RevisionOf(t)
    <3>1. /\ pc[t] = "persist" /\ chain' = Append(chain, work[t].items)
          /\ UNCHANGED <<reading, claim, stored, pointer, job, work>>
          /\ outcome' = [outcome EXCEPT ![t] = IF Opens(t) THEN "opened" ELSE "recorded"]
          /\ pc' = [pc EXCEPT ![t] = IF Opens(t) THEN "readback"
                                     ELSE IF work[t].durable THEN "point" ELSE "release"]
          /\ (Opens(t)' <=> Opens(t))
      BY <1>11, <2>1 DEF Persist, Recorded, Answer, Goto, Opens
    <3>2. work[t].items \in Revisions /\ chain \in Seq(Revisions)
      BY <1>a DEF Typed, WorkSet
    <3>3. Len(chain') = Len(chain) + 1
      BY <3>1, <3>2
    <3>4. Opens(t) => Len(chain') = 1
      BY <2>1, <3>3 DEF RevisionOf
    <3>5. ~ Opens(t) => claim = t
      BY <3>1, <1>a DEF ClaimedOf, Holding
    <3>6. LeavesTheRest(t)
      BY <3>1, <3>4, <3>5, <1>a DEF LeavesTheRest, Typed
    <3>7. ClaimOf(t)'
      BY <3>1, <3>5, <1>a DEF ClaimOf, ClaimedOf, CurrentOf, OwnDrawing, Holding, Typed
    <3>8. QED
      BY <3>6, <3>7
  <2>2. CASE Len(chain) # RevisionOf(t)
    BY <1>9, <1>11, <2>2 DEF Persist, store
  <2>3. QED
    BY <2>1, <2>2
<1>12. CASE ReadAfterGap(t) \/ ReadBack(t) \/ Raise(t)
  <2>1. /\ pc[t] \in Holding \cup {"gap", "readback"} /\ UNCHANGED <<store, job>>
        /\ \E answer \in Outcomes : Leave(t, answer)
    BY <1>12 DEF ReadAfterGap, ReadBack, Raise, Holding, Outcomes
  <2>2. QED
    BY <2>1, <1>a, LeaveClaims
<1>13. CASE Point(t)
  <2>1. /\ pc[t] = "point" /\ pc' = [pc EXCEPT ![t] = "release"]
        /\ UNCHANGED <<reading, chain, claim, stored, job, work, outcome>>
        /\ (Opens(t)' <=> Opens(t))
    BY <1>13 DEF Point, Goto, Opens
  <2>2. QED
    BY <2>1, <1>a
    DEF LeavesTheRest, ClaimOf, ClaimedOf, CurrentOf, OwnDrawing, Holding, Typed
<1>14. CASE Release(t)
  <2>1. /\ pc' = [pc EXCEPT ![t] = "ended"] /\ claim' = (IF claim = t THEN None ELSE claim)
        /\ UNCHANGED <<reading, chain, stored, pointer, job, outcome>>
        /\ \A u \in Tasks \ {t} : work'[u] = work[u]
    BY <1>14, <1>a DEF Release, Goto, Forget, Typed
  <2>2. QED
    BY <2>1, <1>a
    DEF LeavesTheRest, ClaimOf, ClaimedOf, CurrentOf, OwnDrawing, Holding, Typed
<1>15. QED
  BY <1>1, <1>2, <1>3, <1>4, <1>5, <1>6, <1>7, <1>8, <1>10, <1>11, <1>12, <1>13, <1>14
  DEF Call

\* A recorded resolution stays recorded, and is never asked again.
LEMMA RecordedStays ==
    ASSUME AnswersLost = FALSE, Typed, NEW t \in Tasks, AnswerOf(t),
           Ask(t) \/ Call(t) \/ Raise(t) \/ Die(t), outcome[t] = "recorded"
    PROVE  outcome' = outcome /\ job' = job
<1>1. pc[t] \notin Unanswered \cup {"readback"}
  BY DEF AnswerOf, Unanswered
<1>2. CASE Point(t) \/ Release(t) \/ Die(t)
  BY <1>2 DEF Point, Release, Die
<1>3. CASE ~ (Point(t) \/ Release(t) \/ Die(t))
  BY <1>1, <1>3
  DEF Unanswered, Ask, Call, Acquire, CheckUnopened, Reconstruct, Resume, Resolve, Upload,
      Recheck, BuildSnapshot, Persist, ReadAfterGap, ReadBack, Raise
<1>4. QED
  BY <1>2, <1>3

LEMMA DeliveryKept ==
    ASSUME LeasesExpire = FALSE, AnswersLost = FALSE, IInv, AnswersInv, DeliveryInv,
           [Next]_vars
    PROVE  DeliveryInv'
<1>1. CASE UNCHANGED vars \/ ReadAgain
  <2>1. UNCHANGED <<chain, claim, stored, pointer, pc, job, work, outcome>>
    BY <1>1 DEF vars, store, request, ReadAgain
  <2>2. QED
    BY <2>1 DEF DeliveryInv, ClaimOf, ClaimedOf, CurrentOf, OwnDrawing, DeliveredIsVerified,
       Opens
<1>2. ASSUME NEW t \in Tasks, Ask(t) \/ Call(t) \/ Raise(t) \/ Die(t)
      PROVE  DeliveryInv'
  <2>1. ClaimOf(t)' /\ LeavesTheRest(t)
    BY <1>2, MoverClaims DEF DeliveryInv
  <2>2. \A u \in Tasks \ {t} : ClaimOf(u)'
    BY <2>1, ClaimStable DEF LeavesTheRest, DeliveryInv
  <2>3. Typed /\ AnswerOf(t) /\ ClaimOf(t)
    BY DEF IInv, AnswersInv, DeliveryInv
  <2>4. DeliveredIsVerified'
    <3>1. CASE Upload(t)
      <4>1. /\ pc[t] = "upload" /\ UNCHANGED <<pointer, job, outcome>>
            /\ stored' \in {stored, [stored EXCEPT ![job[t].target] = t]}
        BY <3>1 DEF Upload
      <4>2. Resolving(t)
        BY <2>3, <4>1 DEF IInv, Founded, JobOf, Resolving
      <4>3. pointer # job[t].target
        BY <2>3, <4>2, NotYetPointed DEF ClaimOf
      <4>4. pointer # None => stored'[pointer] = stored[pointer]
        BY <2>3, <4>1, <4>3 DEF Typed
      <4>5. QED
        BY <4>1, <4>4 DEF DeliveryInv, DeliveredIsVerified
    <3>2. CASE Point(t) /\ pointer' # pointer
      <4>1. /\ pc[t] = "point" /\ pointer' = job[t].target
            /\ UNCHANGED <<stored, job, outcome>>
        BY <3>2 DEF Point
      <4>2. stored[job[t].target] = t /\ outcome[t] = "recorded" /\ t # None
        BY <2>3, <4>1, NoneIsNothing DEF ClaimOf, OwnDrawing
      <4>3. QED
        BY <4>1, <4>2 DEF DeliveredIsVerified
    <3>3. CASE stored' = stored /\ pointer' = pointer
      <4> SUFFICES ASSUME pointer # None
                   PROVE  /\ outcome'[stored[pointer]] = "recorded"
                          /\ job'[stored[pointer]].target = pointer
                          /\ stored[pointer] # None
        BY <3>3 DEF DeliveredIsVerified
      <4> DEFINE s == stored[pointer]
      <4>1. s # None /\ outcome[s] = "recorded" /\ job[s].target = pointer /\ s \in Tasks
        BY <2>3 DEF DeliveryInv, DeliveredIsVerified, Typed
      <4>2. CASE s = t
        BY <1>2, <2>3, <4>1, <4>2, RecordedStays
      <4>3. CASE s # t
        BY <2>1, <4>1, <4>3 DEF LeavesTheRest
      <4>4. QED
        BY <4>1, <4>2, <4>3
    <3>4. \/ Upload(t)
          \/ Point(t) /\ pointer' # pointer
          \/ stored' = stored /\ pointer' = pointer
      <4>1. CASE Upload(t) \/ Point(t)
        BY <4>1 DEF Point
      <4>2. CASE Ask(t) \/ Raise(t) \/ Die(t) \/ Persist(t) \/ Release(t) \/ Acquire(t)
        BY <4>2 DEF Ask, Raise, Die, Persist, Release, Acquire, store
      <4>3. CASE CheckUnopened(t) \/ Reconstruct(t) \/ Resume(t) \/ Resolve(t) \/ Recheck(t)
        BY <4>3 DEF CheckUnopened, Reconstruct, Resume, Resolve, Recheck, store
      <4>4. CASE BuildSnapshot(t) \/ ReadAfterGap(t) \/ ReadBack(t)
        BY <4>4 DEF BuildSnapshot, ReadAfterGap, ReadBack, store
      <4>5. QED
        BY <1>2, <4>1, <4>2, <4>3, <4>4 DEF Call
    <3>5. QED
      BY <3>1, <3>2, <3>3, <3>4
  <2>5. QED
    BY <2>1, <2>2, <2>4 DEF DeliveryInv
<1>3. QED
  BY <1>1, <1>2 DEF Next, ExpireLease

\* While no lease ends before its request and every call is answered, the drawing
\* at the pointed path is the one that the request which recorded the connection's
\* revision verified and uploaded, wherever a handler fails or dies: this is what
\* the claim of production_review_resolution.py is for.
THEOREM DeliveryVerified ==
    ASSUME LeasesExpire = FALSE, AnswersLost = FALSE
    PROVE  Spec => []DeliveredIsVerified
<1>1. Init => AnswersInv /\ DeliveryInv
  <2> SUFFICES ASSUME Init PROVE AnswersInv /\ DeliveryInv
    OBVIOUS
  <2>1. Recorders = {} /\ Len(chain) = 0
    BY DEF Init, Recorders, Successes
  <2>2. AnswersInv
    BY <2>1, FS_EmptySet DEF Init, AnswersInv, AnswersMatchChain, AnswerOf, Recorders
  <2>3. DeliveryInv
    BY DEF Init, DeliveryInv, ClaimOf, ClaimedOf, CurrentOf, OwnDrawing, Holding,
       DeliveredIsVerified
  <2>4. QED
    BY <2>2, <2>3
<1>2. IInv /\ AnswersInv /\ DeliveryInv /\ [Next]_vars => AnswersInv' /\ DeliveryInv'
  BY AnswersKept, DeliveryKept DEF IInv
<1>3. DeliveryInv => DeliveredIsVerified
  BY DEF DeliveryInv
<1>4. QED
  BY <1>1, <1>2, <1>3, Inductive, PTL DEF Spec
=============================================================================
