---------------------------- MODULE SerialProofs ----------------------------
(***************************************************************************)
(* What a reading guarantees to a reviewer who waits for each answer       *)
(* (MaxActive = 1), for every document, window size and number of          *)
(* requests, with a call that raises, or a process that dies, at any point *)
(* of any of them.  The invariant adds to the one of ExtractionProofs that *)
(* nothing moved since a task planned but what the task itself wrote.      *)
(***************************************************************************)
EXTENDS ExtractionProofs

-----------------------------------------------------------------------------
(* The inductive invariant. *)

\* The reviewer waits for each answer: at most one task is in flight.
OneAtATime == \A s, t \in ActiveTasks : s = t

Touched == {"connections", "meta", "set", "run", "summary", "report"} \cup Ended

\* A lineage is an extraction that opened its drawing set.
LineageInv ==
    /\ IsFiniteSet(lineages)
    /\ \A l \in lineages : IsExtract(l) /\ pc[l] \notin {"idle", "queued"}
    /\ \A t \in ActiveTasks : IsExtract(t) /\ pc[t] # "queued" => t \in lineages

\* A row is one of those its task makes, the marks of a task are persisted
\* together and first, and the lineage it was added to was finished by then.
RowOwned(row) ==
    /\ pc[row.task] \in Touched
    /\ LineageOf(row.task) \in lineages
    /\ ~ IsExtract(row.task) => pc[plan[row.task].lineage] \in Ended
    /\ OwnMembers(row.task) \subseteq members

RowsOwned ==
    /\ \A m \in members : m \in OwnMembers(m.task) /\ RowOwned(m)
    /\ \A c \in connections : c \in OwnConnections(c.task) /\ RowOwned(c)

\* Nobody wrote since a task planned but the task itself.
PlanCurrent(t) ==
    ~ IsExtract(t) /\ pc[t] \in Planned =>
        /\ plan[t].record = record
        /\ lineages = {plan[t].lineage}
        /\ plan[t].members = {m \in members : m.task # t}
        /\ plan[t].connections = {c \in connections : c.task # t}
        /\ job[t].last < job[t].first + Window
        /\ pc[t] # "read" => ~ Collides(OwnMembers(t), plan[t].members)

\* A record was committed by a lineage that is past its summary.
RecordCommitted ==
    /\ record # NoRecord =>
        \E l \in lineages : pc[l] \in {"run", "set", "report"} \cup Ended
    /\ status = "done" => record # NoRecord

OneLineage == \A a, b \in lineages : a = b

DoneIsWhole ==
    status = "done" /\ OneLineage =>
        /\ IsComplete(record.coverage)
        /\ \A row \in members \cup connections : ~ row.held

\* The rows of M and N are on the pages that record r counts as read and parsed.
RowsFit(r, M, N) ==
    \A row \in M \cup N : row.page \in (1..r.coverage.analysed) \ r.failures

CountsAre(M, N) == totals = [members |-> Cardinality(M), connections |-> Cardinality(N)]

CountersAre(c) ==
    \A l \in lineages :
        /\ counters[l].analysed = c.analysed
        /\ counters[l].total = c.total
        /\ counters[l].pageCount \in {Unknown, c.total}

Settled ==
    record # NoRecord =>
        /\ RowsFit(record, members, connections)
        /\ CountsAre(members, connections)
        /\ CountersAre(record.coverage)

\* An extraction between its summary and its counters.
Summarised(t) ==
    /\ record = [coverage |-> NewCoverage(t), failures |-> NewFailures(t)]
    /\ RowsFit(record, members, connections)
    /\ CountsAre(members, connections)

\* A continuation or retry before its summary.
Settling(t) ==
    /\ RowsFit(plan[t].record, plan[t].members, plan[t].connections)
    /\ CountsAre(plan[t].members, plan[t].connections)
    /\ pc[t] = "captures" \/ StillUnread(t) => CountersAre(record.coverage)
    /\ pc[t] \in {"run", "summary"} /\ ~ StillUnread(t) => CountersAre(NewCoverage(t))

CleanInv ==
    NothingCut /\ OneLineage =>
        /\ (\A t \in Tasks : pc[t] \notin Writing) => Settled
        /\ \A t \in Tasks :
            /\ IsExtract(t) /\ pc[t] \in {"run", "set"} => Summarised(t)
            /\ ~ IsExtract(t) /\ pc[t] \in Writing => Settling(t)

SInv ==
    /\ OneAtATime
    /\ LineageInv
    /\ RowsOwned
    /\ \A t \in Tasks : PlanCurrent(t)
    /\ RecordCommitted
    /\ DoneIsWhole
    /\ CleanInv

-----------------------------------------------------------------------------
(* Who moves in a step. *)

\* A step of task t leaves every other task where it was.
OnlyMoves(t) ==
    \A s \in Tasks \ {t} : /\ pc'[s] = pc[s] /\ job'[s] = job[s]
                           /\ plan'[s] = plan[s] /\ reading'[s] = reading[s]

\* A call of t: it changes neither what it was asked nor what it planned on,
\* unless this is the decision or the reading itself.
Calls(t) == Call(t) \/ FailExtraction(t) \/ Stop(t)

LEMMA CallsMove ==
    ASSUME IInv, NEW t \in Tasks, Calls(t)
    PROVE  /\ pc[t] \in Active
           /\ OnlyMoves(t)
           /\ job' = job
           /\ pc'[t] \in Active \cup Ended
           /\ pc'[t] # "queued"
           /\ pc[t] \notin {"queued", "read"} => plan' = plan /\ reading' = reading
           /\ pc[t] \in Touched => pc'[t] \in Touched
           /\ lineages' = lineages \/ OpenDrawingSet(t)
<1> USE DEF IInv, TypeOK, OnlyMoves, Goto, Active, Writing, Ended, Touched
<1>1. CASE OpenDrawingSet(t) \/ OpenDrawing(t) \/ OpenRun(t) \/ StoreReport(t)
  BY <1>1 DEF OpenDrawingSet, OpenDrawing, OpenRun, StoreReport, project, lineage, evidence
<1>2. CASE Replan(t)
  BY <1>2 DEF Replan, project, lineage, evidence
<1>3. CASE ReadPages(t)
  <2>1. \/ pc' = [pc EXCEPT ![t] = "refused"] /\ reading' = reading
        \/ /\ \E x \in {"captures", "open"} : pc' = [pc EXCEPT ![t] = x]
           /\ \E x : reading' = [reading EXCEPT ![t] = x]
    BY <1>3 DEF ReadPages
  <2>2. pc[t] = "read" /\ plan' = plan /\ job' = job /\ lineages' = lineages
    BY <1>3 DEF ReadPages, lineage
  <2>3. QED
    BY <2>1, <2>2
<1>4. CASE RecordCaptures(t) \/ InsertMembers(t) \/ InsertConnection(t)
  BY <1>4 DEF RecordCaptures, InsertMembers, InsertConnection, AfterEvidence, project, lineage
<1>5. CASE UpdateDrawingMeta(t) \/ UpdateSummary(t) \/ UpdateDrawingSet(t) \/ CompleteRun(t)
  <2>1. CASE CompleteRun(t)
    BY <2>1 DEF CompleteRun, IsExtract, StillUnread, project, lineage, evidence
  <2>2. QED
    BY <1>5, <2>1 DEF UpdateDrawingMeta, UpdateSummary, UpdateDrawingSet, project, lineage,
       evidence
<1>6. CASE FailExtraction(t) \/ Stop(t)
  BY <1>6 DEF FailExtraction, Stop, project, lineage, evidence
<1>7. QED
  BY <1>1, <1>2, <1>3, <1>4, <1>5, <1>6 DEF Calls, Call

\* A request is made when no task is in flight, and starts with nothing done.
LEMMA AskedMoves ==
    ASSUME MaxActive = 1, IInv, OneAtATime, NEW t \in Tasks, Asked(t)
    PROVE  /\ ActiveTasks = {}
           /\ pc[t] = "idle" /\ pc' = [pc EXCEPT ![t] = "queued"]
           /\ OnlyMoves(t)
           /\ \E j \in Job : /\ job' = [job EXCEPT ![t] = j]
                             /\ j.kind = "extract" => j = FirstWindow
           /\ UNCHANGED <<project, lineage, evidence, plan, reading>>
<1>1. PICK j \in Job : Request(t, j) /\ (j.kind = "extract" => j = FirstWindow)
  <2>1. CASE RequestExtract(t)
    BY <2>1, FirstWindowIsJob DEF RequestExtract
  <2>2. CASE RequestContinue(t)
    BY <2>2 DEF RequestContinue, Job
  <2>3. CASE RequestRetry(t)
    BY <2>3 DEF RequestRetry, Job
  <2>4. QED
    BY <2>1, <2>2, <2>3 DEF Asked
<1>2. ActiveTasks = {}
  <2>1. CASE \E s : s \in ActiveTasks
    <3>1. PICK s : s \in ActiveTasks
      BY <2>1
    <3>2. ActiveTasks = {s}
      BY <3>1 DEF OneAtATime
    <3>3. Cardinality(ActiveTasks) = 1
      BY <3>2, FS_Singleton
    <3>4. QED
      BY <1>1, <3>3 DEF Request
  <2>2. QED
    BY <2>1
<1>3. QED
  BY <1>1, <1>2 DEF Request, IInv, TypeOK, OnlyMoves

\* While a task is in flight no other one is.
LEMMA Alone ==
    ASSUME OneAtATime, NEW t \in Tasks, pc[t] \in Active
    PROVE  \A s \in Tasks \ {t} : pc[s] \notin Active
BY DEF OneAtATime, ActiveTasks

\* Tasks that ended stay ended, and what ended tasks and tasks with rows were
\* asked, planned and read stays as it was.
Settles ==
    /\ lineages \subseteq lineages'
    /\ \A s \in Tasks :
        /\ pc[s] \in Ended => pc'[s] \in Ended
        /\ pc[s] \in Touched =>
            /\ pc'[s] \in Touched
            /\ job'[s] = job[s] /\ plan'[s] = plan[s] /\ reading'[s] = reading[s]

LEMMA StepSettles ==
    ASSUME MaxActive = 1, IInv, OneAtATime, [Next]_vars
    PROVE  Settles
<1>1. CASE UNCHANGED vars
  BY <1>1 DEF vars, lineage, task, Settles
<1>2. ASSUME NEW t \in Tasks, Asked(t) PROVE Settles
  <2>1. pc[t] = "idle" /\ pc' = [pc EXCEPT ![t] = "queued"] /\ OnlyMoves(t)
        /\ lineages' = lineages
    BY <1>2, AskedMoves DEF lineage
  <2>2. "idle" \notin Ended /\ "idle" \notin Touched
    BY DEF Ended, Touched
  <2>3. QED
    BY <2>1, <2>2 DEF Settles, OnlyMoves
<1>3. ASSUME NEW t \in Tasks, Calls(t) PROVE Settles
  <2>1. /\ pc[t] \in Active /\ OnlyMoves(t) /\ job' = job
        /\ pc[t] \notin {"queued", "read"} => plan' = plan /\ reading' = reading
        /\ pc[t] \in Touched => pc'[t] \in Touched
        /\ lineages' = lineages \/ OpenDrawingSet(t)
    BY <1>3, CallsMove
  <2>2. lineages \subseteq lineages'
    BY <2>1 DEF OpenDrawingSet
  <2>3. pc[t] \notin Ended /\ "queued" \notin Touched /\ "read" \notin Touched
    BY <2>1 DEF Active, Writing, Ended, Touched
  <2>4. QED
    BY <2>1, <2>2, <2>3 DEF Settles, OnlyMoves
<1>4. QED
  BY <1>1, <1>2, <1>3 DEF Next, Calls

-----------------------------------------------------------------------------
(* One task at a time, and the lineages. *)

LEMMA LineagesKept ==
    ASSUME MaxActive = 1, IInv, OneAtATime, LineageInv, [Next]_vars
    PROVE  OneAtATime' /\ LineageInv'
<1>1. CASE UNCHANGED vars
  BY <1>1 DEF vars, lineage, task, OneAtATime, LineageInv, ActiveTasks, IsExtract
<1>2. ASSUME NEW t \in Tasks, Asked(t) PROVE OneAtATime' /\ LineageInv'
  <2>1. /\ ActiveTasks = {} /\ pc[t] = "idle" /\ pc' = [pc EXCEPT ![t] = "queued"]
        /\ OnlyMoves(t) /\ lineages' = lineages
    BY <1>2, AskedMoves DEF lineage
  <2>2. ActiveTasks' \subseteq {t} /\ pc'[t] = "queued"
    BY <2>1 DEF ActiveTasks, IInv, TypeOK
  <2>3. \A l \in lineages : l \in Tasks /\ l # t
    BY <2>1 DEF LineageInv, IInv, TypeOK
  <2>4. QED
    BY <2>1, <2>2, <2>3 DEF OneAtATime, LineageInv, ActiveTasks, IsExtract, OnlyMoves
<1>3. ASSUME NEW t \in Tasks, Calls(t) PROVE OneAtATime' /\ LineageInv'
  <2>1. /\ pc[t] \in Active /\ OnlyMoves(t) /\ job' = job /\ pc'[t] \in Active \cup Ended
        /\ pc'[t] # "queued" /\ (lineages' = lineages \/ OpenDrawingSet(t))
    BY <1>3, CallsMove
  <2>2. ActiveTasks' \subseteq ActiveTasks /\ t \in ActiveTasks
    BY <2>1 DEF ActiveTasks, OnlyMoves
  <2>3. pc'[t] # "idle" /\ "idle" \notin Active
    BY <2>1 DEF Active, Writing, Ended
  <2>4. CASE OpenDrawingSet(t)
    <3>1. lineages' = lineages \cup {t} /\ IsExtract(t)
      BY <2>4 DEF OpenDrawingSet
    <3>2. IsFiniteSet(lineages')
      BY <3>1, FS_AddElement DEF LineageInv
    <3>3. QED
      BY <2>1, <2>2, <2>3, <3>1, <3>2 DEF OneAtATime, LineageInv, ActiveTasks, IsExtract,
         OnlyMoves, IInv, TypeOK
  <2>5. CASE lineages' = lineages /\ ~ OpenDrawingSet(t)
    <3>1. IsExtract(t) /\ pc[t] = "queued" => pc'[t] \notin Active
      BY <1>3, <2>5 DEF Calls, Call, OpenDrawing, Replan, ReadPages, OpenRun, RecordCaptures,
         InsertMembers, InsertConnection, UpdateDrawingMeta, UpdateSummary, UpdateDrawingSet,
         CompleteRun, StoreReport, FailExtraction, Stop, Goto, Active, Writing, IInv, TypeOK
    <3>2. QED
      BY <2>1, <2>2, <2>3, <2>5, <3>1 DEF OneAtATime, LineageInv, ActiveTasks, IsExtract,
         OnlyMoves, IInv, TypeOK
  <2>6. QED
    BY <2>1, <2>4, <2>5
<1>4. QED
  BY <1>1, <1>2, <1>3 DEF Next, Calls

-----------------------------------------------------------------------------
(* The rows made of what was read. *)

\* Members and connections are inserted by two actions only.
LEMMA RowsUnchanged ==
    ASSUME [Next]_vars
    PROVE  \/ members' = members /\ connections' = connections
           \/ \E t \in Tasks : InsertMembers(t) \/ InsertConnection(t)
BY DEF Next, Asked, RequestExtract, RequestContinue, RequestRetry, Request, Call,
   OpenDrawingSet, OpenDrawing, Replan, ReadPages, OpenRun, RecordCaptures,
   UpdateDrawingMeta, UpdateSummary, UpdateDrawingSet, CompleteRun,
   StoreReport, FailExtraction, Stop, vars, evidence

\* What held of a row already there still holds of it.
LEMMA OwnedKept ==
    ASSUME IInv, Settles, members \subseteq members', NEW row, row.task \in Tasks,
           RowOwned(row)
    PROVE  /\ RowOwned(row)'
           /\ OwnMembers(row.task)' = OwnMembers(row.task)
           /\ OwnConnections(row.task)' = OwnConnections(row.task)
           /\ LineageOf(row.task)' = LineageOf(row.task)
<1> DEFINE s == row.task
<1>1. pc'[s] \in Touched /\ job'[s] = job[s] /\ plan'[s] = plan[s] /\ reading'[s] = reading[s]
  BY DEF RowOwned, Settles
<1>2. OwnMembers(s)' = OwnMembers(s) /\ OwnConnections(s)' = OwnConnections(s)
      /\ LineageOf(s)' = LineageOf(s) /\ IsExtract(s)' = IsExtract(s)
  BY <1>1 DEF OwnMembers, OwnConnections, LineageOf, IsExtract
<1>3. ~ IsExtract(s) => pc'[plan[s].lineage] \in Ended
  <2>1. ~ IsExtract(s) => plan[s].lineage \in lineages /\ pc[plan[s].lineage] \in Ended
    BY DEF RowOwned, LineageOf
  <2>2. QED
    BY <2>1 DEF Settles, IInv, TypeOK
<1>4. QED
  BY <1>1, <1>2, <1>3 DEF RowOwned, Settles

\* The task that inserts owns its lineage, and no other task is at work on it.
LEMMA InserterOwns ==
    ASSUME IInv, OneAtATime, LineageInv, NEW t \in Tasks, PlanCurrent(t),
           pc[t] \in {"members", "connections"}
    PROVE  /\ LineageOf(t) \in lineages
           /\ ~ IsExtract(t) => pc[plan[t].lineage] \in Ended
<1>1. pc[t] \in Active /\ pc[t] # "queued" /\ pc[t] \in Planned
  BY DEF Active, Writing, Planned
<1>2. CASE IsExtract(t)
  BY <1>1, <1>2 DEF LineageInv, LineageOf, ActiveTasks
<1>3. CASE ~ IsExtract(t)
  <2>1. lineages = {plan[t].lineage}
    BY <1>1, <1>3 DEF PlanCurrent
  <2>2. plan[t].lineage \in Tasks \ {t} /\ pc[plan[t].lineage] # "idle"
    BY <1>3, <2>1 DEF LineageInv, IInv, TypeOK
  <2>3. pc[plan[t].lineage] \notin Active
    BY <1>1, <2>2, Alone
  <2>4. QED
    BY <1>3, <2>1, <2>2, <2>3 DEF LineageOf, IInv, TypeOK, Idle
<1>4. QED
  BY <1>2, <1>3

LEMMA RowsKept ==
    ASSUME MaxActive = 1, IInv, IInv', OneAtATime, LineageInv, RowsOwned,
           \A t \in Tasks : PlanCurrent(t), [Next]_vars
    PROVE  RowsOwned'
<1>1. Settles
  BY StepSettles
<1>2. \A row \in members \cup connections : row.task \in Tasks /\ RowOwned(row)
  BY DEF RowsOwned, IInv, TypeOK, MemberRow, ConnectionRow
<1>3. CASE members' = members /\ connections' = connections
  BY <1>1, <1>2, <1>3, OwnedKept DEF RowsOwned
<1>4. ASSUME NEW t \in Tasks, InsertMembers(t) PROVE RowsOwned'
  <2>1. /\ members' = members \cup OwnMembers(t) /\ connections' = connections
        /\ job' = job /\ plan' = plan /\ reading' = reading /\ lineages' = lineages
        /\ pc[t] = "members" /\ pc[t] \in Active
    BY <1>4 DEF InsertMembers, lineage, Active, Writing
  <2>2. \A row \in members \cup connections :
          /\ RowOwned(row)'
          /\ OwnMembers(row.task)' = OwnMembers(row.task)
          /\ OwnConnections(row.task)' = OwnConnections(row.task)
    BY <1>1, <1>2, <2>1, OwnedKept
  <2>3. pc'[t] \in Touched
    BY <1>4 DEF InsertMembers, Goto, AfterEvidence, Touched, IInv, TypeOK
  <2>4. LineageOf(t) \in lineages /\ (~ IsExtract(t) => pc[plan[t].lineage] \in Ended)
    BY <2>1, InserterOwns
  <2>5. ~ IsExtract(t) => pc'[plan[t].lineage] \in Ended
    BY <1>1, <2>1, <2>4 DEF Settles, LineageOf, IInv, TypeOK
  <2>6. \A m \in OwnMembers(t) : m.task = t
    BY OwnRowsParsed
  <2>7. \A m \in OwnMembers(t) : m \in OwnMembers(m.task)' /\ RowOwned(m)'
    BY <2>1, <2>3, <2>4, <2>5, <2>6 DEF RowOwned, OwnMembers, LineageOf, IsExtract
  <2>8. QED
    BY <2>1, <2>2, <2>7 DEF RowsOwned
<1>5. ASSUME NEW t \in Tasks, InsertConnection(t) PROVE RowsOwned'
  <2>1. PICK c \in OwnConnections(t) : connections' = connections \cup {c}
    BY <1>5 DEF InsertConnection
  <2>2. /\ members' = members
        /\ job' = job /\ plan' = plan /\ reading' = reading /\ lineages' = lineages
        /\ pc[t] = "connections" /\ pc[t] \in Active
    BY <1>5 DEF InsertConnection, lineage, Active, Writing
  <2>3. \A row \in members \cup connections :
          /\ RowOwned(row)'
          /\ OwnMembers(row.task)' = OwnMembers(row.task)
          /\ OwnConnections(row.task)' = OwnConnections(row.task)
    BY <1>1, <1>2, <2>2, OwnedKept
  <2>4. pc'[t] \in Touched
    BY <1>5 DEF InsertConnection, Goto, AfterEvidence, Touched, IInv, TypeOK
  <2>5. LineageOf(t) \in lineages /\ (~ IsExtract(t) => pc[plan[t].lineage] \in Ended)
    BY <2>2, InserterOwns
  <2>6. ~ IsExtract(t) => pc'[plan[t].lineage] \in Ended
    BY <1>1, <2>2, <2>5 DEF Settles, LineageOf, IInv, TypeOK
  <2>7. c.task = t
    BY OwnRowsParsed
  <2>8. OwnMembers(t) \subseteq members
    BY <2>2 DEF IInv, TaskInv, Progress, JobShape
  <2>9. c \in OwnConnections(c.task)' /\ RowOwned(c)'
    BY <2>2, <2>4, <2>5, <2>6, <2>7, <2>8
    DEF RowOwned, OwnMembers, OwnConnections, LineageOf, IsExtract
  <2>10. QED
    BY <2>1, <2>2, <2>3, <2>9 DEF RowsOwned
<1>6. QED
  BY <1>3, <1>4, <1>5, RowsUnchanged

-----------------------------------------------------------------------------
(* What a task planned on is what it finds. *)

\* A task that made no row yet finds only the rows of others.
LEMMA NoRowsYet ==
    ASSUME IInv, RowsOwned, NEW t \in Tasks, pc[t] \notin Touched
    PROVE  \A row \in members \cup connections : row.task # t
BY DEF RowsOwned, RowOwned

LEMMA ReplanCurrent ==
    ASSUME IInv, RowsOwned, NEW t \in Tasks, Replan(t)
    PROVE  PlanCurrent(t)'
<1> SUFFICES ASSUME pc'[t] \in Planned PROVE PlanCurrent(t)'
  BY DEF PlanCurrent
<1>1. JobAccepted(job[t]) /\ ~ IsExtract(t) /\ pc[t] = "queued"
  BY DEF Replan, Goto, Planned, IInv, TypeOK
<1>2. PICK l \in lineages : plan' = [plan EXCEPT ![t] = Snapshot(l)]
  BY <1>1 DEF Replan
<1>3. plan'[t] = Snapshot(l) /\ pc'[t] = "read"
  BY <1>1, <1>2 DEF Replan, Goto, IInv, TypeOK
<1>4. lineages = {l}
  BY <1>1 DEF JobAccepted, ContinuationAccepted, RetryAccepted, LineageAgrees, IInv, TypeOK,
     IsExtract
<1>5. /\ job[t].first \in Int /\ job[t].last \in Int /\ job[t] \in Job
      /\ Window \in Int
  BY PagesAreCounts DEF IInv, TypeOK, Job, Page
<1>6. job[t].last < job[t].first + Window
  <2>1. CASE job[t].kind = "continue"
    <3>1. WindowRefusal(record.coverage, Window, job[t].first, job[t].last) = Accepted
          /\ record.coverage \in Coverage
      BY <1>1, <2>1
      DEF JobAccepted, ContinuationAccepted, CoverageRecorded, IInv, TypeOK, Record
    <3>2. QED
      BY <1>5, <3>1, AcceptedIsNextWindow, WindowIsCount
  <2>2. CASE job[t].kind = "retry"
    BY <1>5, <2>2, PagesAreCounts, <1>1 DEF IInv, TaskInv, JobShape
  <2>3. QED
    BY <1>1, <1>5, <2>1, <2>2 DEF IsExtract, Job
<1>7. \A row \in members \cup connections : row.task # t
  BY <1>1, NoRowsYet DEF Touched, Ended
<1>8. UNCHANGED <<record, lineages, members, connections, job>>
  BY DEF Replan, project, lineage, evidence
<1>9. QED
  BY <1>3, <1>4, <1>6, <1>7, <1>8 DEF PlanCurrent, Snapshot

LEMMA ReadPagesCurrent ==
    ASSUME IInv, RowsOwned, NEW t \in Tasks, PlanCurrent(t), ReadPages(t)
    PROVE  PlanCurrent(t)'
<1> SUFFICES ASSUME pc'[t] \in Planned, ~ IsExtract(t) PROVE PlanCurrent(t)'
  BY DEF PlanCurrent, IsExtract, ReadPages
<1>1. pc[t] = "read" /\ UNCHANGED <<record, lineages, members, connections, job, plan>>
  BY DEF ReadPages, project, lineage, evidence
<1>2. PICK r \in Answers(job[t]) :
        /\ ~ Collides(MemberRows(t, job[t], r), plan[t].members)
        /\ reading' = [reading EXCEPT ![t] =
                [p \in Page |-> IF p \in PagesOf(job[t]) THEN r[p] ELSE Unreadable]]
  BY DEF ReadPages, Goto, Planned, IInv, TypeOK
<1>3. \A p \in PagesOf(job[t]) : reading'[t][p] = r[p]
  BY <1>2, PagesOfJob DEF IInv, TypeOK
<1>4. MemberRows(t, job[t], reading'[t]) = MemberRows(t, job[t], r)
  <2>1. \A m : Bearing(job[t], reading'[t], m) = Bearing(job[t], r, m)
    BY <1>3 DEF Bearing
  <2>2. QED
    BY <1>3, <2>1 DEF MemberRows
<1>5. ~ Collides(OwnMembers(t), plan[t].members)'
  BY <1>1, <1>2, <1>4 DEF OwnMembers, Collides
<1>6. QED
  BY <1>1, <1>5 DEF PlanCurrent, IsExtract, Planned

\* After its reading a task adds rows of its own, and leaves the rest.
LEMMA CallCurrent ==
    ASSUME IInv, NEW t \in Tasks, PlanCurrent(t), Calls(t), ~ Replan(t), ~ ReadPages(t)
    PROVE  PlanCurrent(t)'
<1> SUFFICES ASSUME pc'[t] \in Planned, ~ IsExtract(t) PROVE PlanCurrent(t)'
  BY CallsMove DEF PlanCurrent, IsExtract
<1>1. pc[t] \in Planned \ {"read"} /\ record' = record /\ lineages' = lineages
      /\ UNCHANGED <<job, plan, reading>>
  BY DEF Calls, Call, OpenDrawingSet, OpenDrawing, OpenRun, RecordCaptures,
     InsertMembers, InsertConnection, UpdateDrawingMeta, UpdateSummary, UpdateDrawingSet,
     CompleteRun, StoreReport, FailExtraction, Stop, Goto, Planned, IInv, TypeOK, TaskInv,
     JobShape, project, lineage, evidence, IsExtract
<1>2. /\ {m \in members' : m.task # t} = {m \in members : m.task # t}
      /\ {c \in connections' : c.task # t} = {c \in connections : c.task # t}
  <2>1. CASE InsertMembers(t)
    <3>1. members' = members \cup OwnMembers(t) /\ connections' = connections
      BY <2>1 DEF InsertMembers
    <3>2. QED
      BY <3>1, OwnRowsParsed
  <2>2. CASE InsertConnection(t)
    <3>1. PICK c \in OwnConnections(t) : connections' = connections \cup {c}
      BY <2>2 DEF InsertConnection
    <3>2. c.task = t /\ members' = members
      BY <2>2, OwnRowsParsed DEF InsertConnection
    <3>3. QED
      BY <3>1, <3>2
  <2>3. CASE ~ InsertMembers(t) /\ ~ InsertConnection(t)
    BY <2>3 DEF Calls, Call, OpenDrawingSet, OpenDrawing, OpenRun, RecordCaptures,
       UpdateDrawingMeta, UpdateSummary, UpdateDrawingSet, CompleteRun, StoreReport,
       FailExtraction, Stop, evidence
  <2>4. QED
    BY <2>1, <2>2, <2>3
<1>3. QED
  BY <1>1, <1>2 DEF PlanCurrent, OwnMembers, IsExtract

LEMMA PlansKept ==
    ASSUME MaxActive = 1, IInv, OneAtATime, RowsOwned, \A t \in Tasks : PlanCurrent(t),
           [Next]_vars
    PROVE  \A t \in Tasks : PlanCurrent(t)'
<1>1. CASE UNCHANGED vars
  BY <1>1 DEF vars, project, lineage, evidence, task, PlanCurrent, OwnMembers, IsExtract
<1>2. ASSUME NEW t \in Tasks, Asked(t), NEW s \in Tasks PROVE PlanCurrent(s)'
  <2>1. ActiveTasks = {} /\ pc' = [pc EXCEPT ![t] = "queued"]
    BY <1>2, AskedMoves
  <2>2. pc'[s] \notin Planned
    BY <2>1 DEF ActiveTasks, Planned, Active, Writing, IInv, TypeOK
  <2>3. QED
    BY <2>2 DEF PlanCurrent
<1>3. ASSUME NEW t \in Tasks, Calls(t), NEW s \in Tasks PROVE PlanCurrent(s)'
  <2>1. CASE s = t
    BY <1>3, <2>1, ReplanCurrent, ReadPagesCurrent, CallCurrent
  <2>2. CASE s # t
    <3>1. pc'[s] \notin Active
      BY <1>3, <2>2, CallsMove, Alone DEF OnlyMoves
    <3>2. QED
      BY <3>1 DEF PlanCurrent, Planned, Active, Writing
  <2>3. QED
    BY <2>1, <2>2
<1>4. QED
  BY <1>1, <1>2, <1>3 DEF Next, Calls

-----------------------------------------------------------------------------
(* What the project row says of the rows. *)

LEMMA RecordUnchanged ==
    ASSUME [Next]_vars
    PROVE  \/ record' = record /\ (status' = status \/ status' = "failed")
           \/ \E t \in Tasks : UpdateSummary(t)
BY DEF Next, Asked, RequestExtract, RequestContinue, RequestRetry, Request, Call,
   OpenDrawingSet, OpenDrawing, Replan, ReadPages, OpenRun, RecordCaptures, InsertMembers,
   InsertConnection, UpdateDrawingMeta, UpdateDrawingSet, CompleteRun,
   StoreReport, FailExtraction, Stop, vars, project

LEMMA CommittedKept ==
    ASSUME MaxActive = 1, IInv, IInv', OneAtATime, LineageInv,
           \A t \in Tasks : PlanCurrent(t), RecordCommitted, [Next]_vars
    PROVE  RecordCommitted'
<1> DEFINE Past == {"run", "set", "report"} \cup Ended
<1>1. ASSUME NEW l \in lineages, pc[l] \in Past
      PROVE  l \in lineages' /\ pc'[l] \in Past
  <2>1. l \in Tasks /\ IsExtract(l) /\ pc[l] # "idle"
    BY DEF LineageInv, IInv, TypeOK
  <2>2. lineages \subseteq lineages'
    BY StepSettles DEF Settles
  <2>3. pc[l] \in Ended => pc'[l] \in Ended
    BY <2>1, StepSettles DEF Settles
  <2>4. pc[l] \in {"run", "set", "report"} => pc'[l] \in Past
    <3> SUFFICES ASSUME pc[l] \in {"run", "set", "report"} PROVE pc'[l] \in Past
      OBVIOUS
    <3>1. CASE UNCHANGED vars
      BY <3>1 DEF vars, task
    <3>2. ASSUME NEW t \in Tasks, Asked(t) PROVE pc'[l] \in Past
      BY <2>1, <3>2, AskedMoves DEF OnlyMoves
    <3>3. ASSUME NEW t \in Tasks, Calls(t), t # l PROVE pc'[l] \in Past
      BY <2>1, <3>3, CallsMove DEF OnlyMoves
    <3>4. CASE Calls(l)
      BY <2>1, <3>4 DEF Calls, Call, OpenDrawingSet, OpenDrawing, Replan, ReadPages, OpenRun,
         RecordCaptures, InsertMembers, InsertConnection, UpdateDrawingMeta, UpdateSummary,
         UpdateDrawingSet, CompleteRun, StoreReport, FailExtraction, Stop, Goto, IInv, TypeOK,
         Ended, IsExtract
    <3>5. QED
      BY <2>1, <3>1, <3>2, <3>3, <3>4 DEF Next, Calls
  <2>5. QED
    BY <1>1, <2>2, <2>3, <2>4
<1>2. CASE record' = record /\ (status' = status \/ status' = "failed")
  BY <1>1, <1>2 DEF RecordCommitted
<1>3. ASSUME NEW t \in Tasks, UpdateSummary(t) PROVE RecordCommitted'
  <2>1. /\ pc[t] = "summary" /\ lineages' = lineages /\ job' = job
        /\ record' = [coverage |-> NewCoverage(t), failures |-> NewFailures(t)]
        /\ pc' = [pc EXCEPT ![t] = IF IsExtract(t) THEN "run" ELSE "report"]
    BY <1>3 DEF UpdateSummary, Goto, lineage
  <2>2. record' # NoRecord
    BY <2>1, NewRecordFits, NoRecordIsNone DEF Record
  <2>3. CASE IsExtract(t)
    <3>1. t \in lineages
      BY <2>1, <2>3 DEF LineageInv, ActiveTasks, Active, Writing
    <3>2. pc'[t] = "run"
      BY <2>1, <2>3 DEF IInv, TypeOK
    <3>3. QED
      BY <2>1, <2>2, <3>1, <3>2 DEF RecordCommitted
  <2>4. CASE ~ IsExtract(t)
    <3>1. record # NoRecord
      BY <2>1, <2>4, NoRecordIsNone DEF IInv, TaskInv, PlanHolds, Planned, PlanCurrent
    <3>2. QED
      BY <1>1, <2>2, <3>1 DEF RecordCommitted
  <2>5. QED
    BY <2>3, <2>4
<1>4. QED
  BY <1>2, <1>3, RecordUnchanged

\* The rows of a project read into one lineage, when its extraction has not
\* finished, are the extraction's own.
LEMMA OnlyOwnRows ==
    ASSUME IInv, OneAtATime, LineageInv, RowsOwned, OneLineage,
           NEW t \in Tasks, IsExtract(t), pc[t] \in Active \ {"queued"}
    PROVE  /\ lineages = {t}
           /\ \A row \in members \cup connections : row.task = t
<1>1. lineages = {t}
  BY DEF LineageInv, ActiveTasks, OneLineage
<1>2. SUFFICES ASSUME NEW row \in members \cup connections PROVE row.task = t
  BY <1>1
<1>3. LineageOf(row.task) = t /\ RowOwned(row)
  BY <1>1 DEF RowsOwned, RowOwned
<1>4. pc[t] \notin Ended
  BY DEF Active, Writing, Ended
<1>5. QED
  BY <1>3, <1>4 DEF RowOwned, LineageOf

\* The record a continuation or a retry adds to is not complete.
LEMMA PlannedIncomplete ==
    ASSUME IInv, NEW t \in Tasks, ~ IsExtract(t), pc[t] \in Planned
    PROVE  plan[t].record # NoRecord /\ ~ IsComplete(plan[t].record.coverage)
<1> DEFINE r == plan[t].record
<1>1. /\ r \in Record /\ SelfConsistent(r) /\ r # NoRecord /\ r.coverage.total = Total
      /\ job[t].kind = "continue" =>
            job[t].first = Boundary(r.coverage) /\ job[t].first <= job[t].last
      /\ job[t].kind = "retry" => job[t].first \in r.failures
      /\ job[t] \in Job /\ r.coverage \in Coverage
  BY NoRecordIsNone DEF IInv, TypeOK, TaskInv, PlanHolds, Record
<1>2. r.coverage.analysed \in Nat /\ r.coverage.notAnalysed = Total - r.coverage.analysed
  BY <1>1 DEF SelfConsistent, Coverage
<1>3. CASE job[t].kind = "continue"
  <2>1. r.coverage.analysed < Total
    BY <1>1, <1>2, <1>3, PagesAreCounts DEF Boundary, Job, Page
  <2>2. QED
    BY <1>1, <1>2, <2>1, PagesAreCounts DEF IsComplete
<1>4. CASE job[t].kind = "retry"
  <2>1. r.failures # {} /\ IsFiniteSet(r.failures) /\ r.coverage.failed = Cardinality(r.failures)
    BY <1>1, <1>2, <1>4, UpTo, FS_Subset DEF SelfConsistent
  <2>2. r.coverage.failed # 0
    BY <2>1, FS_EmptySet
  <2>3. QED
    BY <1>1, <2>2 DEF IsComplete
<1>5. QED
  BY <1>1, <1>3, <1>4 DEF IsExtract, Job

\* Unless a step inserts rows or writes the summary, "done" stays what it was.
LEMMA DoneKept ==
    ASSUME MaxActive = 1, IInv, IInv', OneAtATime, LineageInv, RowsOwned,
           \A t \in Tasks : PlanCurrent(t), RecordCommitted, DoneIsWhole, [Next]_vars
    PROVE  DoneIsWhole'
<1>1. lineages \subseteq lineages'
  BY StepSettles DEF Settles
<1>2. SUFFICES ASSUME status' = "done", OneLineage'
               PROVE  /\ IsComplete(record'.coverage)
                      /\ \A row \in members' \cup connections' : ~ row.held
  BY DEF DoneIsWhole
<1>3. OneLineage
  BY <1>1, <1>2 DEF OneLineage
<1>4. CASE members' = members /\ connections' = connections /\ record' = record /\ status' = status
  BY <1>2, <1>3, <1>4 DEF DoneIsWhole
<1>5. ASSUME NEW t \in Tasks, InsertMembers(t) \/ InsertConnection(t) PROVE FALSE
  <2>1. status = "done" /\ pc[t] \in {"members", "connections"} /\ lineages' = lineages
    BY <1>2, <1>5 DEF InsertMembers, InsertConnection, project, lineage
  <2>2. IsComplete(record.coverage) /\ record # NoRecord
    BY <1>3, <2>1 DEF DoneIsWhole, RecordCommitted
  <2>3. CASE IsExtract(t)
    <3>1. lineages = {t}
      BY <1>3, <2>1, <2>3, OnlyOwnRows DEF Active, Writing
    <3>2. pc[t] \in {"run", "set", "report"} \cup Ended
      BY <2>2, <3>1 DEF RecordCommitted
    <3>3. QED
      BY <2>1, <3>2 DEF Ended
  <2>4. CASE ~ IsExtract(t)
    BY <2>1, <2>2, <2>4, PlannedIncomplete DEF PlanCurrent, Planned
  <2>5. QED
    BY <2>3, <2>4
<1>6. ASSUME NEW t \in Tasks, UpdateSummary(t)
      PROVE  /\ IsComplete(record'.coverage)
             /\ \A row \in members' \cup connections' : ~ row.held
  <2>1. /\ pc[t] = "summary" /\ UNCHANGED <<members, connections>>
        /\ record'.coverage = NewCoverage(t)
        /\ SummaryStatus(t) = "done"
    BY <1>2, <1>6 DEF UpdateSummary, evidence
  <2>2. /\ IsComplete(NewCoverage(t))
        /\ \A row \in CountedMembers(t) \cup CountedConnections(t) : ~ row.held
    BY <2>1 DEF SummaryStatus, DerivedStatus
  <2>3. members \cup connections \subseteq CountedMembers(t) \cup CountedConnections(t)
    <3>1. CASE IsExtract(t)
      <4>1. \A row \in members \cup connections : row.task = t
        BY <1>3, <2>1, <3>1, OnlyOwnRows DEF Active, Writing
      <4>2. QED
        BY <4>1 DEF RowsOwned, CountedMembers, CountedConnections
    <3>2. CASE ~ IsExtract(t)
      <4>1. /\ plan[t].members = {m \in members : m.task # t}
            /\ plan[t].connections = {c \in connections : c.task # t}
        BY <2>1, <3>2 DEF PlanCurrent, Planned
      <4>2. QED
        BY <3>2, <4>1 DEF RowsOwned, CountedMembers, CountedConnections
    <3>3. QED
      BY <3>1, <3>2
  <2>4. QED
    BY <2>1, <2>2, <2>3
<1>7. QED
  BY <1>2, <1>4, <1>5, <1>6, RowsUnchanged, RecordUnchanged

-----------------------------------------------------------------------------
(* A reading of which nothing was cut short: its rows, totals and counters are *)
(* those its record counts.                                                    *)

\* What CleanInv asks when t is the only task that may be writing.
CleanOf(t) ==
    /\ pc[t] \notin Writing => Settled
    /\ IsExtract(t) /\ pc[t] \in {"run", "set"} => Summarised(t)
    /\ ~ IsExtract(t) /\ pc[t] \in Writing => Settling(t)

Clean == NothingCut /\ OneLineage

LEMMA CleanBefore ==
    ASSUME MaxActive = 1, IInv, OneAtATime, CleanInv, [Next]_vars, Clean',
           NEW t \in Tasks, Calls(t)
    PROVE  Clean /\ CleanOf(t)
<1>1. pc[t] \in Active /\ OnlyMoves(t) /\ lineages \subseteq lineages'
  BY CallsMove, StepSettles DEF Settles
<1>2. OneLineage
  BY <1>1 DEF Clean, OneLineage
<1>3. NothingCut
  BY <1>1 DEF Clean, NothingCut, OnlyMoves, Active, Writing
<1>4. \A s \in Tasks \ {t} : pc[s] \notin Writing
  BY <1>1, Alone DEF Active
<1>5. QED
  BY <1>2, <1>3, <1>4 DEF Clean, CleanInv, CleanOf

LEMMA CleanAfter ==
    ASSUME IInv, OneAtATime, NEW t \in Tasks, Calls(t), Clean' => CleanOf(t)'
    PROVE  CleanInv'
<1>1. pc[t] \in Active /\ OnlyMoves(t)
  BY CallsMove
<1>2. \A s \in Tasks \ {t} : pc'[s] \notin Writing
  BY <1>1, Alone DEF Active, OnlyMoves
<1>3. {"run", "set"} \subseteq Writing
  BY DEF Writing
<1>4. QED
  BY <1>2, <1>3 DEF Clean, CleanInv, CleanOf

\* What the proofs about one call of t may use.
Before(t) ==
    /\ IInv /\ IInv' /\ OneAtATime /\ LineageInv /\ RowsOwned /\ RecordCommitted
    /\ PlanCurrent(t)
    /\ Clean /\ Clean' /\ CleanOf(t)

\* A call that moves t between labels at which the same is asked of it.
LEMMA CleanOpenSet ==
    ASSUME NEW t \in Tasks, Before(t), OpenDrawingSet(t)
    PROVE  CleanOf(t)'
<1>1. lineages' = lineages \cup {t} /\ pc'[t] = "opened" /\ record' = record /\ pc[t] = "queued"
  BY DEF OpenDrawingSet, Goto, project, Before, IInv, TypeOK
<1>2. t \notin lineages
  BY <1>1 DEF Before, LineageInv
<1>3. lineages = {}
  BY <1>1, <1>2 DEF Before, Clean, OneLineage
<1>4. record = NoRecord
  BY <1>3 DEF Before, RecordCommitted
<1>5. QED
  BY <1>1, <1>4 DEF CleanOf, Settled, Writing

\* A call before anything is written.
LEMMA CleanUnwritten ==
    ASSUME NEW t \in Tasks, Before(t), pc[t] \notin Writing, Calls(t),
           pc'[t] \notin Writing \/ (IsExtract(t) /\ pc'[t] = "captures"),
           UNCHANGED <<record, totals, lineages, counters, members, connections, job>>
    PROVE  CleanOf(t)'
<1>1. Settled'
  BY DEF Before, CleanOf, Settled, RowsFit, CountsAre, CountersAre
<1>2. QED
  BY <1>1 DEF CleanOf, Writing, IsExtract

LEMMA CleanOpenRun ==
    ASSUME NEW t \in Tasks, Before(t), OpenRun(t)
    PROVE  CleanOf(t)'
<1>1. /\ pc[t] = "open" /\ pc'[t] = "captures"
      /\ UNCHANGED <<record, totals, lineages, counters, members, connections, job, plan, reading>>
  BY DEF OpenRun, Goto, project, evidence, Before, IInv, TypeOK
<1>2. ~ IsExtract(t)
  BY <1>1 DEF Before, IInv, TaskInv, JobShape
<1>3. plan[t].record = record /\ record # NoRecord
      /\ plan[t].members = members /\ plan[t].connections = connections
  BY <1>1, <1>2, NoRowsYet, PlannedIncomplete
  DEF Before, PlanCurrent, Planned, Touched, Ended
<1>4. Settled
  BY <1>1 DEF Before, CleanOf, Writing
<1>5. Settling(t)'
  BY <1>1, <1>3, <1>4 DEF Settled, Settling, RowsFit, CountsAre, CountersAre
<1>6. QED
  BY <1>1, <1>2, <1>5 DEF CleanOf, IsExtract, Writing

\* Captures, members and connections: the plan, the totals and the counters stand.
LEMMA CleanEvidence ==
    ASSUME NEW t \in Tasks, Before(t),
           RecordCaptures(t) \/ InsertMembers(t) \/ InsertConnection(t)
    PROVE  CleanOf(t)'
<1>1. /\ pc[t] \in Writing \ {"run", "set", "summary"}
      /\ UNCHANGED <<record, totals, lineages, counters, job, plan, reading>>
      /\ pc'[t] \in {"members", "connections", "meta", "set", "run"}
      /\ pc'[t] = "run" => StillUnread(t)
      /\ pc'[t] = "set" => ~ IsExtract(t)
      /\ pc'[t] \in {"members", "connections", "set"} => ~ StillUnread(t)
  BY DEF RecordCaptures, InsertMembers, InsertConnection, AfterEvidence, Goto, Writing, Before,
     IInv, TypeOK, TaskInv, JobShape, project, lineage
<1>2. pc'[t] = "run" => ~ IsExtract(t)
  BY <1>1 DEF StillUnread, IsExtract
<1>3. ~ IsExtract(t) => Settling(t)
  BY <1>1 DEF Before, CleanOf
<1>4. pc'[t] = "meta" => IsExtract(t)
  BY <1>1 DEF Before, IInv, TaskInv, JobShape, IsExtract
<1>5. ~ IsExtract(t) => Settling(t)'
  BY <1>1, <1>3, <1>4 DEF Settling, StillUnread, CountsAre, CountersAre
<1>6. QED
  BY <1>1, <1>2, <1>5 DEF CleanOf, IsExtract, Writing

LEMMA CleanMeta ==
    ASSUME NEW t \in Tasks, Before(t), UpdateDrawingMeta(t)
    PROVE  CleanOf(t)'
<1>1. pc[t] = "meta" /\ pc'[t] = "summary" /\ job' = job
  BY DEF UpdateDrawingMeta, Goto, Before, IInv, TypeOK
<1>2. IsExtract(t)
  BY <1>1 DEF Before, IInv, TaskInv, JobShape
<1>3. QED
  BY <1>1, <1>2 DEF CleanOf, IsExtract, Writing

\* The rows of a window are on the pages it parsed.
LEMMA OwnRowsFit ==
    ASSUME IInv, NEW t \in Tasks, pc[t] = "summary"
    PROVE  \A row \in OwnMembers(t) \cup OwnConnections(t) :
                row.page \in (1..NewCoverage(t).analysed) \ NewFailures(t)
<1> SUFFICES ASSUME NEW row \in OwnMembers(t) \cup OwnConnections(t)
             PROVE  row.page \in (1..NewCoverage(t).analysed) \ NewFailures(t)
  OBVIOUS
<1> DEFINE j == job[t]
           r == plan[t].record
<1>1. row.page \in PagesOf(j) /\ row.page \notin FailedPages(j, reading[t])
  BY OwnRowsParsed DEF FailedPages
<1>2. /\ j \in Job /\ JobShape(t) /\ PlanHolds(t)
      /\ j.first \in Nat /\ j.last \in Nat /\ j.first >= 1
  BY DEF IInv, TypeOK, TaskInv, Job, Page
<1>3. CASE IsExtract(t)
  <2>1. j.first = 1
    BY <1>2, <1>3, FirstWindowIsJob DEF JobShape, IsExtract
  <2>2. PagesOf(j) = 1..j.last /\ Cardinality(1..j.last) = j.last
    BY <1>2, <2>1, UpTo DEF PagesOf
  <2>3. NewCoverage(t).analysed = j.last /\ NewFailures(t) = FailedPages(j, reading[t])
    BY <1>3, <2>2 DEF NewCoverage, NewFailures, CoverageOf, ReadFailures, IsExtract
  <2>4. QED
    BY <1>1, <2>2, <2>3
<1>4. CASE ~ IsExtract(t)
  <2>1. /\ r.coverage.analysed \in Nat /\ r.failures \subseteq 1..r.coverage.analysed
        /\ r.coverage \in Coverage
        /\ j.kind = "continue" => j.first = r.coverage.analysed + 1 /\ j.first <= j.last
        /\ j.kind = "retry" => j.first \in r.failures /\ j.last = j.first
    BY <1>2, <1>4, NoRecordIsNone
    DEF PlanHolds, JobShape, Planned, Record, Coverage, SelfConsistent, Boundary
  <2>2. CASE j.kind = "continue"
    <3>1. NewCoverage(t).analysed = j.last
          /\ NewFailures(t) = r.failures \cup FailedPages(j, reading[t])
      BY <1>2, <1>4, <2>1, <2>2 DEF NewCoverage, NewFailures, Accumulate, ReadFailures
    <3>2. QED
      BY <1>1, <1>2, <2>1, <2>2, <3>1 DEF PagesOf
  <2>3. CASE j.kind = "retry"
    <3>1. NewCoverage(t).analysed = r.coverage.analysed /\ NewFailures(t) = r.failures \ {j.first}
      BY <1>4, <2>1, <2>3 DEF NewCoverage, NewFailures, OneFailureFewer, Coverage
    <3>2. row.page = j.first
      BY <1>1, <1>2, <2>1, <2>3 DEF PagesOf
    <3>3. QED
      BY <2>1, <2>3, <3>1, <3>2
  <2>4. QED
    BY <1>2, <1>4, <2>2, <2>3 DEF IsExtract, Job
<1>5. QED
  BY <1>3, <1>4

\* The rows a summary counts are all there are.
LEMMA AllRowsCounted ==
    ASSUME NEW t \in Tasks, Before(t), pc[t] = "summary"
    PROVE  CountedMembers(t) = members /\ CountedConnections(t) = connections
<1>1. OwnMembers(t) \subseteq members /\ OwnConnections(t) \subseteq connections
  BY DEF Before, IInv, TaskInv, JobShape, Progress
<1>2. CASE IsExtract(t)
  <2>1. \A row \in members \cup connections : row.task = t
    BY <1>2, OnlyOwnRows DEF Before, Clean, Active, Writing
  <2>2. members \subseteq OwnMembers(t) /\ connections \subseteq OwnConnections(t)
    BY <2>1 DEF Before, RowsOwned
  <2>3. QED
    BY <1>1, <1>2, <2>2 DEF CountedMembers, CountedConnections
<1>3. CASE ~ IsExtract(t)
  <2>1. /\ plan[t].members = {m \in members : m.task # t}
        /\ plan[t].connections = {c \in connections : c.task # t}
    BY <1>3 DEF Before, PlanCurrent, Planned
  <2>2. {m \in members : m.task = t} \subseteq OwnMembers(t)
        /\ {c \in connections : c.task = t} \subseteq OwnConnections(t)
    BY DEF Before, RowsOwned
  <2>3. QED
    BY <1>1, <1>3, <2>1, <2>2 DEF CountedMembers, CountedConnections
<1>4. QED
  BY <1>2, <1>3

LEMMA CleanSummary ==
    ASSUME NEW t \in Tasks, Before(t), UpdateSummary(t)
    PROVE  CleanOf(t)'
<1> DEFINE new == [coverage |-> NewCoverage(t), failures |-> NewFailures(t)]
<1>1. /\ pc[t] = "summary" /\ pc'[t] = (IF IsExtract(t) THEN "run" ELSE "report")
      /\ record' = new
      /\ totals' = [members |-> Cardinality(CountedMembers(t)),
                    connections |-> Cardinality(CountedConnections(t))]
      /\ UNCHANGED <<lineages, counters, members, connections, job, plan, reading>>
  BY DEF UpdateSummary, Goto, lineage, evidence, Before, IInv, TypeOK
<1>2. CountsAre(members, connections)'
  BY <1>1, AllRowsCounted DEF CountsAre
<1>3. NewCoverage(t)' = NewCoverage(t) /\ NewFailures(t)' = NewFailures(t)
  BY <1>1 DEF NewCoverage, NewFailures, ReadFailures, IsExtract
<1>4. ~ StillUnread(t)
  BY <1>1 DEF Before, IInv, TaskInv, JobShape
<1>5. \A row \in OwnMembers(t) \cup OwnConnections(t) :
            row.page \in (1..new.coverage.analysed) \ new.failures
  BY <1>1, OwnRowsFit DEF Before
<1>6. CASE IsExtract(t)
  <2>1. \A row \in members \cup connections : row.task = t
    BY <1>1, <1>6, OnlyOwnRows DEF Before, Clean, Active, Writing
  <2>2. RowsFit(new, members, connections)
    BY <1>5, <2>1 DEF RowsFit, Before, RowsOwned
  <2>3. Summarised(t)'
    BY <1>1, <1>2, <1>3, <2>2 DEF Summarised, RowsFit
  <2>4. QED
    BY <1>1, <1>6, <2>3 DEF CleanOf, IsExtract, Writing
<1>7. CASE ~ IsExtract(t)
  <2> DEFINE r == plan[t].record
             j == job[t]
  <2>1. Settling(t) /\ r = record
    BY <1>1, <1>7 DEF Before, CleanOf, Writing, PlanCurrent, Planned
  <2>2. /\ r.coverage \in Coverage /\ r.coverage.analysed \in Nat /\ j \in Job
        /\ r.failures \subseteq 1..r.coverage.analysed
        /\ j.first \in Nat /\ j.last \in Nat
        /\ j.kind = "continue" => j.first = r.coverage.analysed + 1 /\ j.first <= j.last
    BY <1>1, <1>7, NoRecordIsNone
    DEF Before, IInv, TypeOK, TaskInv, PlanHolds, Planned, Record, Coverage, SelfConsistent,
        Boundary, Job, Page
  <2>3. (1..r.coverage.analysed) \ r.failures
            \subseteq (1..new.coverage.analysed) \ new.failures
    <3>1. CASE j.kind = "continue"
      <4>1. new.coverage.analysed = j.last
            /\ new.failures = r.failures \cup FailedPages(j, reading[t])
        BY <1>7, <2>2, <3>1
        DEF NewCoverage, NewFailures, Accumulate, ReadFailures, IsExtract
      <4>2. \A p \in FailedPages(j, reading[t]) : p > r.coverage.analysed
        BY <2>2, <3>1 DEF FailedPages, PagesOf
      <4>3. r.coverage.analysed <= j.last
        BY <2>2, <3>1
      <4>4. QED
        BY <2>2, <4>1, <4>2, <4>3
    <3>2. CASE j.kind = "retry"
      <4>1. new.coverage.analysed = r.coverage.analysed /\ new.failures = r.failures \ {j.first}
        BY <2>2, <3>2 DEF NewCoverage, NewFailures, OneFailureFewer, Coverage, IsExtract
      <4>2. QED
        BY <4>1
    <3>3. QED
      BY <1>7, <2>2, <3>1, <3>2 DEF IsExtract, Job
  <2>4. \A row \in members \cup connections :
            \/ row \in plan[t].members \cup plan[t].connections
            \/ row \in OwnMembers(t) \cup OwnConnections(t)
    BY <1>1, <1>7 DEF Before, PlanCurrent, Planned, RowsOwned
  <2>5. RowsFit(new, members, connections)
    BY <1>5, <2>1, <2>3, <2>4 DEF RowsFit, Settling
  <2>6. CountersAre(new.coverage)
    BY <1>1, <1>4, <2>1 DEF Settling
  <2>7. Settled'
    BY <1>1, <1>2, <2>5, <2>6 DEF Settled, RowsFit, CountersAre
  <2>8. QED
    BY <1>1, <1>7, <2>7 DEF CleanOf, IsExtract, Writing
<1>8. QED
  BY <1>6, <1>7

LEMMA CleanRun ==
    ASSUME NEW t \in Tasks, Before(t), CompleteRun(t)
    PROVE  CleanOf(t)'
<1>1. /\ pc[t] = "run"
      /\ pc'[t] = (CASE IsExtract(t) -> "set" [] StillUnread(t) -> "ended" [] OTHER -> "summary")
      /\ UNCHANGED <<record, totals, lineages, counters, members, connections, job, plan, reading>>
  BY DEF CompleteRun, Goto, project, evidence, Before, IInv, TypeOK
<1>2. CASE IsExtract(t)
  <2>1. pc'[t] = "set"
    BY <1>1, <1>2 DEF IsExtract, StillUnread
  <2>2. Summarised(t)
    BY <1>1, <1>2 DEF Before, CleanOf
  <2>3. Summarised(t)'
    BY <1>1, <2>2 DEF Summarised, RowsFit, CountsAre, NewCoverage, NewFailures, ReadFailures,
       IsExtract
  <2>4. QED
    BY <1>1, <1>2, <2>1, <2>3 DEF CleanOf, IsExtract, Writing
<1>3. CASE ~ IsExtract(t)
  <2>1. Settling(t) /\ plan[t].record = record
    BY <1>1, <1>3 DEF Before, CleanOf, Writing, PlanCurrent, Planned
  <2>2. CASE StillUnread(t)
    <3>1. pc'[t] = "ended"
      BY <1>1, <1>3, <2>2
    <3>2. \A p \in PagesOf(job[t]) : ~ reading[t][p].parsed
      <4>1. job[t] \in Job /\ job[t].last = job[t].first /\ ~ reading[t][job[t].first].parsed
        BY <1>1, <2>2 DEF StillUnread, Before, IInv, TypeOK, TaskInv, JobShape
      <4>2. job[t].first \in Int
        BY <4>1 DEF Job, Page
      <4>3. PagesOf(job[t]) = {job[t].first}
        BY <4>1, <4>2 DEF PagesOf
      <4>4. QED
        BY <4>1, <4>3
    <3>3. OwnMembers(t) = {} /\ OwnConnections(t) = {}
      BY <3>2, OwnRowsParsed DEF Before
    <3>4. plan[t].members = members /\ plan[t].connections = connections
      <4>1. \A row \in members \cup connections : row.task # t
        BY <3>3 DEF Before, RowsOwned
      <4>2. QED
        BY <1>1, <1>3, <4>1 DEF Before, PlanCurrent, Planned
    <3>5. Settled
      BY <2>1, <2>2, <3>4 DEF Settled, Settling
    <3>6. Settled'
      BY <1>1, <3>5 DEF Settled, RowsFit, CountsAre, CountersAre
    <3>7. QED
      BY <1>1, <3>1, <3>6 DEF CleanOf, Writing
  <2>3. CASE ~ StillUnread(t)
    <3>1. pc'[t] = "summary"
      BY <1>1, <1>3, <2>3
    <3>2. NewCoverage(t)' = NewCoverage(t)
      BY <1>1 DEF NewCoverage, ReadFailures, IsExtract
    <3>3. Settling(t)'
      BY <1>1, <2>1, <2>3, <3>1, <3>2 DEF Settling, StillUnread, CountsAre, CountersAre
    <3>4. QED
      BY <1>1, <3>1, <3>3 DEF CleanOf, Writing
  <2>4. QED
    BY <2>2, <2>3
<1>4. QED
  BY <1>2, <1>3

LEMMA CleanSet ==
    ASSUME NEW t \in Tasks, Before(t), UpdateDrawingSet(t)
    PROVE  CleanOf(t)'
<1> DEFINE l == IF IsExtract(t) THEN t ELSE plan[t].lineage
           c == NewCoverage(t)
<1>1. /\ pc[t] = "set" /\ pc'[t] = (IF IsExtract(t) THEN "report" ELSE "run")
      /\ counters' = [counters EXCEPT ![l].analysed = c.analysed, ![l].total = c.total]
      /\ UNCHANGED <<record, totals, lineages, members, connections, job, plan, reading>>
  BY DEF UpdateDrawingSet, Goto, project, evidence, Before, IInv, TypeOK
<1>2. l \in Tasks /\ counters \in [Tasks -> Counters]
  BY DEF Before, IInv, TypeOK, Plan
<1>3. /\ counters'[l].analysed = c.analysed /\ counters'[l].total = c.total
      /\ \A s \in Tasks : counters'[s].pageCount = counters[s].pageCount
  BY <1>1, <1>2 DEF Counters
<1>4. NewCoverage(t)' = c /\ NewFailures(t)' = NewFailures(t)
  BY <1>1, <1>3 DEF NewCoverage, NewFailures, ReadFailures, IsExtract
<1>5. ~ StillUnread(t) /\ \A s \in Tasks : counters[s].pageCount \in {Total, Unknown}
  BY <1>1 DEF Before, IInv, TaskInv, JobShape, PageCountsKnown
<1>6. CASE IsExtract(t)
  <2>1. Summarised(t) /\ lineages = {t}
    BY <1>1, <1>6, OnlyOwnRows DEF Before, Clean, CleanOf, Active, Writing
  <2>2. counters[t].pageCount \in {Unknown, c.total}
    <3>1. c = CoverageOf(counters[t].pageCount, PagesOf(job[t]), ReadFailures(t))
      BY <1>6 DEF NewCoverage, IsExtract
    <3>2. CASE counters[t].pageCount = Total
      <4>1. /\ job[t] \in Job /\ JobShape(t) /\ job[t].kind = "extract"
        BY <1>6 DEF Before, IInv, TypeOK, TaskInv, IsExtract
      <4>2. job[t] = FirstWindow
        BY <1>1, <4>1 DEF JobShape
      <4>3. PagesOf(job[t]) \subseteq 1..Total /\ ReadFailures(t) \subseteq PagesOf(job[t])
        BY <4>1, PagesOfJob DEF Page, ReadFailures, FailedPages
      <4>4. QED
        BY <3>1, <3>2, <4>3, TotalIsCount DEF CoverageOf
    <3>3. QED
      BY <1>5, <3>2
  <2>3. CountersAre(c)'
    BY <1>1, <1>3, <1>4, <1>6, <2>1, <2>2 DEF CountersAre
  <2>4. Settled'
    BY <1>1, <1>4, <2>1, <2>3 DEF Settled, Summarised, RowsFit, CountsAre, CountersAre
  <2>5. QED
    BY <1>1, <1>6, <2>4 DEF CleanOf, IsExtract, Writing
<1>7. CASE ~ IsExtract(t)
  <2>1. Settling(t) /\ lineages = {l}
    BY <1>1, <1>7 DEF Before, CleanOf, Writing, PlanCurrent, Planned
  <2>2. c.total = Total
    <3>1. plan[t].record.coverage.total = Total /\ plan[t].record.coverage \in Coverage
      BY <1>1, <1>7 DEF Before, IInv, TaskInv, PlanHolds, Planned, Record
    <3>2. job[t] \in Job
      BY DEF Before, IInv, TypeOK
    <3>3. QED
      BY <1>7, <3>1, <3>2 DEF NewCoverage, Accumulate, OneFailureFewer, Coverage, IsExtract, Job
  <2>3. CountersAre(c)'
    BY <1>1, <1>2, <1>3, <1>4, <1>5, <2>1, <2>2 DEF CountersAre
  <2>4. Settling(t)'
    BY <1>1, <1>4, <1>5, <1>7, <2>1, <2>3 DEF Settling, StillUnread, RowsFit, CountsAre, CountersAre
  <2>5. QED
    BY <1>1, <1>7, <2>4 DEF CleanOf, IsExtract, Writing
<1>8. QED
  BY <1>6, <1>7

LEMMA CleanKept ==
    ASSUME MaxActive = 1, IInv, IInv', OneAtATime, LineageInv, RowsOwned,
           \A t \in Tasks : PlanCurrent(t), RecordCommitted, CleanInv, [Next]_vars
    PROVE  CleanInv'
<1>1. CASE UNCHANGED vars
  <2>1. UNCHANGED <<record, totals, lineages, counters, members, connections, pc, job, plan,
                    reading>>
    BY <1>1 DEF vars, project, lineage, evidence, task
  <2>2. Settled' = Settled
    BY <2>1 DEF Settled, RowsFit, CountsAre, CountersAre
  <2>3. \A t \in Tasks : /\ NewCoverage(t)' = NewCoverage(t)
                         /\ NewFailures(t)' = NewFailures(t)
                         /\ IsExtract(t)' = IsExtract(t) /\ StillUnread(t)' = StillUnread(t)
    BY <2>1 DEF NewCoverage, NewFailures, ReadFailures, IsExtract, StillUnread
  <2>4. \A t \in Tasks : Summarised(t) => Summarised(t)'
    BY <2>1, <2>3 DEF Summarised, RowsFit, CountsAre
  <2>5. \A t \in Tasks : Settling(t) => Settling(t)'
    BY <2>1, <2>3 DEF Settling, RowsFit, CountsAre, CountersAre
  <2>6. QED
    BY <2>1, <2>2, <2>3, <2>4, <2>5 DEF CleanInv, NothingCut, OneLineage
<1>2. ASSUME NEW t \in Tasks, Asked(t) PROVE CleanInv'
  <2>1. /\ ActiveTasks = {} /\ pc[t] = "idle" /\ pc' = [pc EXCEPT ![t] = "queued"]
        /\ UNCHANGED <<record, totals, lineages, counters, members, connections>>
    BY <1>2, AskedMoves DEF project, lineage, evidence
  <2>2. \A s \in Tasks : pc[s] \notin Writing /\ pc'[s] \notin Writing
    BY <2>1 DEF ActiveTasks, Active, Writing, IInv, TypeOK
  <2>3. NothingCut' => NothingCut
    BY <2>1 DEF NothingCut, IInv, TypeOK
  <2>4. NothingCut' /\ OneLineage' => Settled
    BY <2>1, <2>2, <2>3 DEF CleanInv, OneLineage
  <2>5. NothingCut' /\ OneLineage' => Settled'
    BY <2>1, <2>4 DEF Settled, RowsFit, CountsAre, CountersAre
  <2>6. {"run", "set"} \subseteq Writing
    BY DEF Writing
  <2>7. QED
    BY <2>2, <2>5, <2>6 DEF CleanInv
<1>3. ASSUME NEW t \in Tasks, Calls(t) PROVE CleanInv'
  <2>1. SUFFICES ASSUME Clean' PROVE CleanOf(t)'
    BY <1>3, CleanAfter
  <2>2. Before(t)
    BY <1>3, <2>1, CleanBefore DEF Before
  <2>3. CASE OpenDrawing(t) \/ Replan(t) \/ ReadPages(t) \/ StoreReport(t)
    <3>1. /\ pc[t] \notin Writing
          /\ UNCHANGED <<record, totals, lineages, counters, members, connections, job>>
      BY <2>3 DEF OpenDrawing, Replan, ReadPages, StoreReport, project, lineage, evidence, Writing
    <3>2. pc'[t] \notin Writing \/ (IsExtract(t) /\ pc'[t] = "captures")
      BY <2>3 DEF OpenDrawing, Replan, ReadPages, StoreReport, Goto, Writing, IInv, TypeOK
    <3>3. QED
      BY <1>3, <2>2, <3>1, <3>2, CleanUnwritten
  <2>4. CASE FailExtraction(t)
    <3>1. pc'[t] = "failed"
      BY <2>4 DEF FailExtraction, Goto, IInv, TypeOK
    <3>2. QED
      BY <2>1, <3>1 DEF Clean, NothingCut
  <2>5. CASE Stop(t)
    <3>1. /\ pc'[t] = (CASE pc[t] \in Writing -> "cut" [] pc[t] = "report" -> "ended"
                         [] OTHER -> "refused")
          /\ UNCHANGED <<record, totals, lineages, counters, members, connections, job>>
      BY <2>5 DEF Stop, Goto, IInv, TypeOK, project, lineage, evidence
    <3>2. pc[t] \notin Writing
      <4>1. pc[t] \in Writing => pc'[t] = "cut"
        BY <3>1 DEF Writing
      <4>2. QED
        BY <2>1, <4>1 DEF Clean, NothingCut
    <3>3. pc'[t] \notin Writing
      BY <3>1, <3>2 DEF Writing
    <3>4. QED
      BY <1>3, <2>2, <3>1, <3>2, <3>3, CleanUnwritten
  <2>6. QED
    BY <1>3, <2>2, <2>3, <2>4, <2>5, CleanOpenSet, CleanOpenRun, CleanEvidence, CleanMeta,
       CleanSummary, CleanRun, CleanSet DEF Calls, Call
<1>4. QED
  BY <1>1, <1>2, <1>3 DEF Next, Calls

-----------------------------------------------------------------------------
(* A page is evidenced once. *)

\* The collision check: what a task is about to insert is on no page that
\* another task of its lineage has evidenced and read to bear the same mark.
LEMMA PageIsNew ==
    ASSUME IInv, RowsOwned,
           NEW t \in Tasks, PlanCurrent(t), pc[t] \in {"members", "connections"},
           NEW a \in OwnMembers(t) \cup OwnConnections(t),
           NEW b \in members \cup connections,
           a.page = b.page, LineageOf(b.task) = LineageOf(t),
           NEW m \in reading[t][a.page].marks \cap reading[b.task][b.page].marks
    PROVE  b.task = t
<1> DEFINE s == b.task
           p == a.page
<1>1. /\ s \in Tasks /\ b \in OwnMembers(s) \cup OwnConnections(s) /\ RowOwned(b)
  BY DEF RowsOwned, IInv, TypeOK, MemberRow, ConnectionRow
<1>2. CASE IsExtract(t)
  <2>1. LineageOf(s) = t
    BY <1>2 DEF LineageOf
  <2>2. pc[t] \notin Ended
    BY DEF Ended
  <2>3. QED
    BY <1>1, <2>1, <2>2 DEF RowOwned, LineageOf
<1>3. CASE ~ IsExtract(t)
  <2> SUFFICES ASSUME s # t PROVE FALSE
    OBVIOUS
  <2>1. /\ plan[t].members = {n \in members : n.task # t}
        /\ ~ Collides(OwnMembers(t), plan[t].members)
    BY <1>3 DEF PlanCurrent, Planned
  <2>2. p \in PagesOf(job[t]) /\ p \in PagesOf(job[s])
    BY <1>1, OwnRowsParsed
  <2>3. \A u \in Tasks : job[u] \in Job /\ reading[u] \in [Page -> Reading]
    BY DEF IInv, TypeOK
  <2>4. PICK mine \in OwnMembers(t) : mine.mark = m
    BY <2>2, <2>3, EveryMarkHasRow DEF OwnMembers
  <2>5. PICK theirs \in OwnMembers(s) : theirs.mark = m /\ theirs.task = s
    BY <1>1, <2>2, <2>3, EveryMarkHasRow DEF OwnMembers
  <2>6. theirs \in plan[t].members
    BY <1>1, <2>1, <2>5 DEF RowOwned
  <2>7. QED
    BY <2>1, <2>4, <2>5, <2>6 DEF Collides
<1>4. QED
  BY <1>2, <1>3

LEMMA MarkedPagesKept ==
    ASSUME MaxActive = 1, IInv, OneAtATime, LineageInv, RowsOwned,
           \A t \in Tasks : PlanCurrent(t), NoMarkedPageTwice, [Next]_vars
    PROVE  NoMarkedPageTwice'
<1> DEFINE Lineage(row) == LineageOf(row.task)
           MarksAt(row) == reading[row.task][row.page].marks
           Apart(a, b) == a.page = b.page /\ Lineage(a) = Lineage(b) /\ a.task # b.task =>
                            MarksAt(a) \cap MarksAt(b) = {}
<1>1. Settles
  BY StepSettles
<1>2. \A row \in members \cup connections : row.task \in Tasks /\ RowOwned(row)
  BY DEF RowsOwned, IInv, TypeOK, MemberRow, ConnectionRow
<1>3. \A row \in members \cup connections :
        Lineage(row)' = Lineage(row) /\ MarksAt(row)' = MarksAt(row)
  BY <1>1, <1>2 DEF Settles, RowOwned, LineageOf, IsExtract
<1>4. \A a, b \in members \cup connections : Apart(a, b)
  BY DEF NoMarkedPageTwice
<1>5. \A a, b \in members \cup connections : Apart(a, b)'
  BY <1>3, <1>4
<1>6. SUFFICES \A a, b \in members' \cup connections' : Apart(a, b)'
  BY DEF NoMarkedPageTwice
<1>7. CASE members' = members /\ connections' = connections
  BY <1>5, <1>7
<1>8. ASSUME NEW t \in Tasks, InsertMembers(t) \/ InsertConnection(t)
      PROVE  \A a, b \in members' \cup connections' : Apart(a, b)'
  <2>1. /\ pc[t] \in {"members", "connections"} /\ job' = job /\ plan' = plan
        /\ LineageOf(t)' = LineageOf(t) /\ reading' = reading
    BY <1>8 DEF InsertMembers, InsertConnection, LineageOf, IsExtract
  <2>2. members' \cup connections' \subseteq
            members \cup connections \cup OwnMembers(t) \cup OwnConnections(t)
    BY <1>8 DEF InsertMembers, InsertConnection
  <2>3. \A row \in OwnMembers(t) \cup OwnConnections(t) :
            /\ row.task = t
            /\ Lineage(row)' = LineageOf(t) /\ MarksAt(row)' = reading[t][row.page].marks
    <3>1. \A row \in OwnMembers(t) \cup OwnConnections(t) : row.task = t
      BY OwnRowsParsed
    <3>2. QED
      BY <2>1, <3>1
  <2>4. \A a \in OwnMembers(t) \cup OwnConnections(t), b \in members \cup connections :
            Apart(a, b)' /\ Apart(b, a)'
    <3> SUFFICES ASSUME NEW a \in OwnMembers(t) \cup OwnConnections(t),
                        NEW b \in members \cup connections,
                        a.page = b.page, Lineage(b)' = Lineage(a)', b.task # a.task,
                        NEW m, m \in MarksAt(a)', m \in MarksAt(b)'
                 PROVE  FALSE
      OBVIOUS
    <3>1. /\ a.task = t /\ LineageOf(b.task) = LineageOf(t)
          /\ m \in reading[t][a.page].marks \cap reading[b.task][b.page].marks
      BY <1>3, <2>3
    <3>2. b.task = t
      BY <2>1, <3>1, PageIsNew
    <3>3. QED
      BY <3>1, <3>2
  <2>5. \A a, b \in OwnMembers(t) \cup OwnConnections(t) : Apart(a, b)'
    BY <2>3
  <2>6. QED
    BY <1>5, <2>2, <2>4, <2>5
<1>9. QED
  BY <1>7, <1>8, RowsUnchanged

-----------------------------------------------------------------------------
(***************************************************************************)
(* The theorems.                                                           *)
(***************************************************************************)

LEMMA InitSInv == Init => SInv /\ NoMarkedPageTwice
<1> SUFFICES ASSUME Init PROVE SInv /\ NoMarkedPageTwice
  OBVIOUS
<1>1. ActiveTasks = {}
  BY DEF Init, ActiveTasks, Active, Writing
<1>2. OneAtATime /\ LineageInv /\ RowsOwned /\ NoMarkedPageTwice
  BY <1>1, FS_EmptySet DEF Init, OneAtATime, LineageInv, RowsOwned, NoMarkedPageTwice
<1>3. RecordCommitted /\ DoneIsWhole
  BY DEF Init, RecordCommitted, DoneIsWhole
<1>4. \A t \in Tasks : PlanCurrent(t)
  BY DEF Init, PlanCurrent, Planned
<1>5. CleanInv
  BY DEF Init, CleanInv, Settled, Writing
<1>6. QED
  BY <1>2, <1>3, <1>4, <1>5 DEF SInv

\* Read one request at a time, each task finds the store as its plan left it
\* (the re-decision of continue_pdf_extraction and retry_pdf_page).
THEOREM SerialInductive ==
    ASSUME MaxActive = 1
    PROVE  Spec => [](IInv /\ SInv)
<1>1. Init => IInv /\ SInv
  BY InitIInv, InitSInv
<1>2. (IInv /\ IInv') /\ SInv /\ [Next]_vars => SInv'
  <2> SUFFICES ASSUME IInv, IInv', SInv, [Next]_vars PROVE SInv'
    OBVIOUS
  <2> USE DEF SInv
  <2>1. OneAtATime' /\ LineageInv'
    BY LineagesKept
  <2>2. RowsOwned'
    BY RowsKept
  <2>3. \A t \in Tasks : PlanCurrent(t)'
    BY PlansKept
  <2>4. RecordCommitted' /\ DoneIsWhole'
    BY CommittedKept, DoneKept
  <2>5. CleanInv'
    BY CleanKept
  <2>6. QED
    BY <2>1, <2>2, <2>3, <2>4, <2>5
<1>3. QED
  BY <1>1, <1>2, Inductive, PTL DEF Spec

\* Of requests answered one at a time, wherever each was cut short, no two evidence
\* one page of a lineage when both read a mark there in common: the boundary and
\* the mark collision of continue_pdf_extraction.  Nothing is assumed of what the
\* pages bear, and nothing is claimed of pages that bear connections only.
THEOREM MarkedPagesOnce ==
    ASSUME MaxActive = 1
    PROVE  Spec => []NoMarkedPageTwice
<1>1. Init => NoMarkedPageTwice
  BY InitSInv
<1>2. IInv /\ SInv /\ NoMarkedPageTwice /\ [Next]_vars => NoMarkedPageTwice'
  BY MarkedPagesKept DEF SInv
<1>3. QED
  BY <1>1, <1>2, SerialInductive, PTL DEF Spec

\* derive_project_status: a project read into one lineage is not "done" while a
\* row of it is held for review.
THEOREM DoneIsReviewed ==
    ASSUME MaxActive = 1
    PROVE  Spec => []DoneHoldsNothing
<1>1. IInv /\ SInv => DoneHoldsNothing
  <2> SUFFICES ASSUME SInv, status = "done", Cardinality(lineages) = 1
               PROVE  \A row \in members \cup connections : ~ row.held
    BY DEF DoneHoldsNothing
  <2>1. \E x : lineages = {x}
    BY FS_Singleton DEF SInv, LineageInv
  <2>2. QED
    BY <2>1 DEF SInv, DoneIsWhole, OneLineage
<1>2. QED
  BY <1>1, SerialInductive, PTL

\* What a quiet project of one lineage, of which nothing was cut short, holds.
LEMMA QuietIsSettled ==
    ASSUME IInv, SInv, Quiet, NothingCut
    PROVE  Settled /\ \E l : lineages = {l}
<1>1. \E l : lineages = {l}
  BY FS_Singleton DEF SInv, LineageInv, Quiet
<1>2. \A t \in Tasks : pc[t] \notin Writing
  BY DEF Quiet, ActiveTasks, Active
<1>3. QED
  BY <1>1, <1>2 DEF SInv, CleanInv, OneLineage

\* The totals of the project row count its rows (update_project_summary).
THEOREM TotalsAreRows ==
    ASSUME MaxActive = 1
    PROVE  Spec => []TotalsCountRows
<1>1. IInv /\ SInv => TotalsCountRows
  BY QuietIsSettled DEF TotalsCountRows, Settled, CountsAre, Quiet
<1>2. QED
  BY <1>1, SerialInductive, PTL

\* What was not cut short can go on: plan_continuation accepts the next window
\* and plan_retry each page named as failed.
THEOREM ReadingsGoOn ==
    ASSUME MaxActive = 1
    PROVE  Spec => []NoDeadEnd
<1>1. IInv /\ SInv => NoDeadEnd
  <2> SUFFICES ASSUME IInv, SInv, Quiet, NothingCut, record.coverage.total # Unknown
               PROVE  /\ record.coverage.notAnalysed > 0 =>
                            \E last \in Page : ContinuationAccepted(Boundary(record.coverage), last)
                      /\ \A p \in record.failures : RetryAccepted(p)
    BY DEF NoDeadEnd
  <2> DEFINE c == record.coverage
  <2>1. PICK l : lineages = {l}
    BY QuietIsSettled
  <2>2. /\ record # NoRecord /\ RowsFit(record, members, connections) /\ CountersAre(c)
    BY QuietIsSettled DEF Settled, Quiet
  <2>3. /\ c \in Coverage /\ record.failures \subseteq Page /\ SelfConsistent(record)
    BY <2>2 DEF IInv, TypeOK, Record, RecordInv, RecordAgreesWithItself
  <2>4. /\ c.total = Total /\ c.analysed \in Nat /\ c.analysed <= Total
        /\ c.notAnalysed = Total - c.analysed /\ IdentityHolds(c)
        /\ record.failures \subseteq 1..c.analysed /\ Cardinality(record.failures) = c.failed
    BY <2>2, <2>3, PagesAreCounts DEF SelfConsistent, Coverage, IdentityHolds
  <2>5. LineageAgrees
    BY <2>1, <2>2 DEF LineageAgrees, CountersAre
  <2>6. ASSUME c.notAnalysed > 0
        PROVE  \E last \in Page : ContinuationAccepted(Boundary(c), last)
    <3> DEFINE first == Boundary(c)
               last == Lesser(c.analysed + Window, Total)
    <3>1. /\ first = c.analysed + 1 /\ first \in Int /\ last \in Page
          /\ last \in first..(first + Window - 1) /\ last <= c.total
      BY <2>4, <2>6, PagesAreCounts DEF Boundary, Lesser, Page
    <3>2. WindowRefusal(c, Window, first, last) = Accepted
      <4>1. /\ first \in Int /\ last \in Int /\ Window \in Nat \ {0} /\ c \in Coverage
            /\ first = Boundary(c)
        BY <2>3, <3>1, WindowIsCount, TotalIsCount DEF Page
      <4> HIDE DEF c, first, last
      <4>2. QED
        BY <2>4, <3>1, <4>1, AcceptedIsNextWindow
    <3>3. ContinuationAccepted(first, last)
      BY <2>2, <2>4, <2>5, <3>2 DEF ContinuationAccepted, CoverageRecorded, FailuresAgree
    <3>4. QED
      BY <3>1, <3>3
  <2>7. ASSUME NEW p \in record.failures PROVE RetryAccepted(p)
    <3>1. p \in 1..c.analysed /\ p >= 1 /\ ~ p < 1 /\ ~ p > c.total
      BY <2>4, <2>7, TotalIsCount
    <3>2. RetryRefusal(c, record.failures, p) = Accepted
      BY <2>4, <2>7, <3>1 DEF RetryRefusal
    <3>3. EvidenceOnPage(p) = {}
      BY <2>2 DEF EvidenceOnPage, RowsFit
    <3>4. QED
      BY <2>2, <2>5, <3>2, <3>3 DEF RetryAccepted, CoverageRecorded
  <2>8. QED
    BY <2>6, <2>7
<1>2. QED
  BY <1>1, SerialInductive, PTL

-----------------------------------------------------------------------------
(* The abstract record (PageRecord). *)

\* A first window restarts the record.
LEMMA ExtractRestarts ==
    ASSUME IInv, NEW t \in Tasks, UpdateSummary(t), IsExtract(t)
    PROVE  Abstract!Restart
<1> DEFINE j == job[t]
           F == ReadFailures(t)
<1>1. /\ pc[t] = "summary"
      /\ record' = [coverage |-> NewCoverage(t), failures |-> NewFailures(t)]
  BY DEF UpdateSummary
<1>2. j = FirstWindow /\ j \in Job
  BY <1>1 DEF IInv, TypeOK, TaskInv, JobShape, IsExtract
<1>3. j.first = 1 /\ j.last = Lesser(Total, Window) /\ j.last \in Nat
  BY <1>2, FirstWindowIsJob, PagesAreCounts DEF FirstWindow
<1>4. PagesOf(j) = 1..j.last /\ Cardinality(1..j.last) = j.last
  BY <1>3, UpTo DEF PagesOf
<1>5. record'.coverage.analysed = j.last /\ record'.failures = F
  BY <1>1, <1>4 DEF NewCoverage, NewFailures, CoverageOf, ReadFailures, IsExtract
<1>6. F \subseteq 1..j.last
  BY <1>2, <1>4, FailedPagesCounted DEF ReadFailures
<1>7. record' # NoRecord
  BY <1>1, NewRecordFits, NoRecordIsNone DEF Record
<1>8. j.last \in {Window, Total} /\ j.last <= Window /\ j.last <= Total
  BY <1>3, PagesAreCounts DEF Lesser
<1>9. QED
  BY <1>5, <1>6, <1>7, <1>8 DEF Abstract!Restart, Committed

\* A continuation advances it, and a retry repairs it: each commits what its
\* plan read, and that is the record still.
LEMMA PlannedAdvances ==
    ASSUME IInv, NEW t \in Tasks, PlanCurrent(t), UpdateSummary(t), ~ IsExtract(t)
    PROVE  Abstract!Advance \/ Abstract!Repair
<1> DEFINE j == job[t]
           r == record
<1>1. /\ pc[t] = "summary"
      /\ record' = [coverage |-> NewCoverage(t), failures |-> NewFailures(t)]
  BY DEF UpdateSummary
<1>2. plan[t].record = r /\ j.last < j.first + Window
  BY <1>1 DEF PlanCurrent, Planned
<1>3. /\ r \in Record /\ r # NoRecord /\ r.coverage \in Coverage /\ r.coverage.total = Total
      /\ r.coverage.analysed \in Nat /\ j \in Job
      /\ j.kind = "continue" => j.first = r.coverage.analysed + 1 /\ j.first <= j.last
      /\ j.kind = "retry" => j.first \in r.failures
  BY <1>1, <1>2, NoRecordIsNone
  DEF IInv, TypeOK, TaskInv, PlanHolds, Planned, Record, Coverage, Boundary
<1>4. /\ j.first \in Nat /\ j.last \in Nat /\ j.last <= Total
      /\ Total # Unknown /\ Window \in Nat /\ Total \in Nat
  BY <1>3, PagesAreCounts DEF Job, Page
<1>5. record' # NoRecord
  BY <1>1, NewRecordFits, NoRecordIsNone DEF Record
<1>6. CASE j.kind = "continue"
  <2> DEFINE F == ReadFailures(t)
  <2>1. /\ record'.coverage.total = Total /\ record'.coverage.analysed = j.last
        /\ record'.failures = r.failures \cup F
    BY <1>1, <1>2, <1>3, <1>4, <1>6 DEF NewCoverage, NewFailures, Accumulate, IsExtract
  <2>2. F \subseteq (r.coverage.analysed + 1)..j.last
    BY <1>3, <1>6, FailedPagesCounted DEF ReadFailures, PagesOf
  <2>3. j.last \in (r.coverage.analysed + 1)..Total /\ j.last - r.coverage.analysed <= Window
    BY <1>2, <1>3, <1>4, <1>6
  <2>4. Abstract!Advance
    BY <1>3, <1>4, <1>5, <2>1, <2>2, <2>3 DEF Abstract!Advance, Committed
  <2>5. QED
    BY <2>4
<1>7. CASE j.kind = "retry"
  <2>1. /\ record'.coverage.total = Total
        /\ record'.coverage.analysed = r.coverage.analysed
        /\ record'.failures = r.failures \ {j.first}
    BY <1>1, <1>2, <1>3, <1>7 DEF NewCoverage, NewFailures, OneFailureFewer, Coverage, IsExtract
  <2>2. Abstract!Repair
    BY <1>3, <1>4, <1>5, <1>7, <2>1 DEF Abstract!Repair, Committed
  <2>3. QED
    BY <2>2
<1>8. QED
  BY <1>3, <1>6, <1>7 DEF IsExtract, Job

\* Answered one at a time, the requests implement the abstract record: a first
\* window restarts it, an accepted window advances it by itself, a retry takes
\* one page off the failures, and no other call, no failure and no death of the
\* process moves it.
THEOREM ImplementsRecord ==
    ASSUME MaxActive = 1
    PROVE  Spec => ImplementsPageRecord
<1>1. Init => Abstract!Init
  BY DEF Init, Abstract!Init, Committed
<1>2. IInv /\ SInv /\ [Next]_vars => [Abstract!Next]_(Abstract!vars)
  <2> SUFFICES ASSUME IInv, SInv, [Next]_vars PROVE [Abstract!Next]_(Abstract!vars)
    OBVIOUS
  <2>1. CASE record' = record
    BY <2>1 DEF Abstract!vars, Committed
  <2>2. ASSUME NEW t \in Tasks, UpdateSummary(t) PROVE Abstract!Next
    BY <2>2, ExtractRestarts, PlannedAdvances DEF Abstract!Next, SInv
  <2>3. QED
    BY <2>1, <2>2, RecordUnchanged
<1>3. QED
  BY <1>1, <1>2, SerialInductive, PTL DEF Spec, ImplementsPageRecord, Abstract!Spec
=============================================================================
