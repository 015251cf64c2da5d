--------------------------- MODULE DocumentsProofs ---------------------------
(***************************************************************************)
(* The source documents of a project, for any number of uploads, extraction *)
(* tasks, names and contents, and any failing calls: a document is what it *)
(* claims to be and keeps what was asserted of it; and the upload boundary *)
(* implements SourceRegistry, where some bytes are registered once.        *)
(***************************************************************************)
EXTENDS Documents, FiniteSetTheorems, TLAPS

Doc == [content : Contents, path : Names, role : Roles \union {UnknownRole},
        selected : Nat \union {Nothing}]
Statuses == {"running", "completed", "failed"}
Reading == [document : Nat, path : Names, content : Contents, runs : Seq(Statuses),
            counted : Nat \union {Nothing}, captured : BOOLEAN, rows : Nat]
UploadFields == {"pc", "files", "known", "names", "outcomes"}
TaskFields == {"pc", "kind", "path", "document", "reading", "run", "analysed", "states",
               "total"}
Registering == {"register", "insert", "reread"}
Reads == {"read", "summary", "reconcile", "reconciled", "close", "count"}

\* The rows have their fields.
Kinds ==
    /\ object \in [Names -> Contents \union {Nothing}]
    /\ docs \in Seq(Doc)
    /\ readings \in Seq(Reading)
    /\ DOMAIN upload = Requests
    /\ DOMAIN task = Tasks
    /\ DOMAIN project = {"status", "record", "total"} /\ project.record \in Nat

\* A document lies at its path; a reading is filed under the document of its
\* bytes.
DocsStand == \A d \in DOMAIN docs : object[docs[d].path] = docs[d].content

ReadingsStand ==
    \A l \in DOMAIN readings :
        /\ readings[l].document \in DOMAIN docs
        /\ docs[readings[l].document].content = readings[l].content

\* A selection, checked or written, is a reading of its document.
OwnReading(d, l, rows, filed) ==
    /\ d \in DOMAIN rows /\ l \in DOMAIN filed
    /\ filed[l].document = d /\ filed[l].captured

SelectionsStand ==
    /\ \A d \in DOMAIN docs :
          docs[d].selected # Nothing => OwnReading(d, docs[d].selected, docs, readings)
    /\ choice # Nothing => OwnReading(choice.document, choice.reading, docs, readings)

\* An upload knows documents; the file it is about to register is stored.
UploadStands(u, held, rows) ==
    /\ DOMAIN u = UploadFields
    /\ u.files \in Seq(File \union {Unusable})
    /\ u.known \subseteq DOMAIN rows
    /\ u.pc \in Registering =>
          /\ u.files # <<>> /\ Head(u.files) # Unusable
          /\ held[Head(u.files).name] = Head(u.files).content
    /\ u.outcomes \in Seq(Outcome)
    /\ \A i \in DOMAIN u.outcomes :
          u.outcomes[i].document # Nothing =>
             /\ u.outcomes[i].document \in DOMAIN rows
             /\ rows[u.outcomes[i].document].content = u.outcomes[i].content

\* A task that is about to open a reading has the document of the bytes at its
\* path, or finds it, and one that opened a reading has it.
TaskStands(k, held, rows, filed) ==
    /\ DOMAIN k = TaskFields
    /\ k.path \in Names
    /\ k.analysed \in Nat
    /\ k.pc \in Registering \union {"open"} => held[k.path] # Nothing
    /\ k.pc = "open" =>
          k.document \in DOMAIN rows /\ rows[k.document].content = held[k.path]
    /\ k.pc \in Reads => k.reading \in DOMAIN filed

DocumentsInv ==
    /\ Kinds /\ DocsStand /\ ReadingsStand /\ SelectionsStand
    /\ \A r \in Requests : UploadStands(upload[r], object, docs)
    /\ \A t \in Tasks : TaskStands(task[t], object, docs, readings)

-----------------------------------------------------------------------------
(* What no step takes away. *)

ObjectsKept == \A n \in Names : object[n] # Nothing => object'[n] = object[n]

DocsKept ==
    /\ Len(docs) <= Len(docs')
    /\ \A d \in DOMAIN docs : /\ docs'[d].content = docs[d].content
                              /\ docs'[d].path = docs[d].path

ReadingsKept ==
    /\ Len(readings) <= Len(readings')
    /\ \A l \in DOMAIN readings :
          /\ readings'[l].document = readings[l].document
          /\ readings'[l].content = readings[l].content
          /\ readings[l].captured => readings'[l].captured

\* The rows keep what was selected, or were created without a selection.
SelectedKept ==
    \A d \in DOMAIN docs' :
        docs'[d].selected # Nothing =>
            \/ d \in DOMAIN docs /\ docs'[d].selected = docs[d].selected
            \/ OwnReading(d, docs'[d].selected, docs, readings)

-----------------------------------------------------------------------------
(* Registering some bytes. *)

\* What an insertion does to the rows, and that it leaves them in order when the
\* bytes lie at the path.
LEMMA InsertionEffect ==
  ASSUME docs \in Seq(Doc), NEW c \in Contents, NEW p \in Names, Inserted(c, p)
  PROVE  /\ docs' \in Seq(Doc)
         /\ Len(docs') = Len(docs) + 1
         /\ \A d \in DOMAIN docs : docs'[d] = docs[d]
         /\ docs'[Len(docs) + 1].content = c /\ docs'[Len(docs) + 1].path = p
         /\ docs'[Len(docs) + 1].selected = Nothing
<1>1. docs' = Append(docs, Document(c, p))
  BY DEF Inserted
<1>2. /\ Document(c, p) \in Doc /\ Document(c, p).content = c /\ Document(c, p).path = p
      /\ Document(c, p).selected = Nothing
  BY DEF Document, Doc
<1> HIDE DEF Document
<1>3. docs'[Len(docs) + 1] = Document(c, p)
  BY <1>1, <1>2
<1> QED BY <1>1, <1>2, <1>3

\* The rows stay as they are, or get the row of bytes that lie at its path.
RowsMayGain(c, p) == UNCHANGED docs \/ Inserted(c, p)

LEMMA InsertionKeeps ==
  ASSUME Kinds, DocsStand, NEW c \in Contents, NEW p \in Names, object[p] = c,
         RowsMayGain(c, p), UNCHANGED object
  PROVE  DocsKept /\ DocsStand' /\ docs' \in Seq(Doc) /\ SelectedKept
<1>1. docs \in Seq(Doc)
  BY DEF Kinds
<1>2. CASE UNCHANGED docs
  <2>1. Len(docs) <= Len(docs)
    BY <1>1
  <2> QED BY <1>1, <1>2, <2>1 DEF DocsKept, DocsStand, SelectedKept
<1>3. CASE Inserted(c, p)
  <2>1. /\ docs' \in Seq(Doc) /\ Len(docs') = Len(docs) + 1
        /\ \A d \in DOMAIN docs : docs'[d] = docs[d]
    BY <1>1, <1>3, InsertionEffect
  <2>2. /\ docs'[Len(docs) + 1].content = c /\ docs'[Len(docs) + 1].path = p
        /\ docs'[Len(docs) + 1].selected = Nothing
    BY <1>1, <1>3, InsertionEffect
  <2>3. \A d \in DOMAIN docs' : d \in DOMAIN docs \/ d = Len(docs) + 1
    BY <1>1, <2>1
  <2> QED BY <1>1, <2>1, <2>2, <2>3 DEF DocsKept, DocsStand, SelectedKept
<1> QED BY <1>2, <1>3 DEF RowsMayGain

-----------------------------------------------------------------------------
(* What stood before a step that takes nothing away stands after it. *)

LEMMA UploadsKept ==
  ASSUME Kinds, Kinds', ObjectsKept, DocsKept, NEW r \in Requests,
         UploadStands(upload[r], object, docs)
  PROVE  UploadStands(upload[r], object', docs')
<1> DEFINE u == upload[r]
<1>1. DOMAIN docs \subseteq DOMAIN docs'
  BY DEF Kinds, DocsKept
<1>2. u.pc \in Registering => object'[Head(u.files).name] = Head(u.files).content
  <2>1. SUFFICES ASSUME u.pc \in Registering
                 PROVE  object'[Head(u.files).name] = Head(u.files).content
    OBVIOUS
  <2>2. Head(u.files) \in File
    BY <2>1 DEF UploadStands
  <2>3. Head(u.files).name \in Names /\ Head(u.files).content # Nothing
    BY <2>2, NothingAssumption DEF File
  <2> QED BY <2>1, <2>3 DEF UploadStands, ObjectsKept
<1>3. \A i \in DOMAIN u.outcomes :
         u.outcomes[i].document # Nothing =>
            /\ u.outcomes[i].document \in DOMAIN docs'
            /\ docs'[u.outcomes[i].document].content = u.outcomes[i].content
  BY <1>1 DEF UploadStands, DocsKept
<1> QED BY <1>1, <1>2, <1>3 DEF UploadStands

LEMMA TasksKept ==
  ASSUME Kinds, Kinds', ObjectsKept, DocsKept, ReadingsKept, NEW t \in Tasks,
         TaskStands(task[t], object, docs, readings)
  PROVE  TaskStands(task[t], object', docs', readings')
<1>1. DOMAIN readings \subseteq DOMAIN readings'
  BY DEF Kinds, ReadingsKept
<1>2. DOMAIN docs \subseteq DOMAIN docs'
  BY DEF Kinds, DocsKept
<1>3. task[t].pc \in Registering \union {"open"} => object'[task[t].path] = object[task[t].path]
  BY DEF TaskStands, ObjectsKept
<1>4. task[t].pc = "open" => docs'[task[t].document].content = docs[task[t].document].content
  BY DEF TaskStands, DocsKept
<1> QED BY <1>1, <1>2, <1>3, <1>4 DEF TaskStands

LEMMA OwnReadingsKept ==
  ASSUME Kinds, Kinds', DocsKept, ReadingsKept
  PROVE  \A d, l : OwnReading(d, l, docs, readings) => OwnReading(d, l, docs', readings')
BY DEF Kinds, DocsKept, ReadingsKept, OwnReading

\* What is filed stays filed right.
LEMMA FiledKept ==
  ASSUME Kinds, Kinds', DocsKept, ReadingsKept, ReadingsStand, NEW l \in DOMAIN readings
  PROVE  /\ readings'[l].document \in DOMAIN docs'
         /\ docs'[readings'[l].document].content = readings'[l].content
<1> DEFINE d == readings[l].document
<1>1. readings'[l].document = d /\ readings'[l].content = readings[l].content
  BY DEF ReadingsKept
<1>2. d \in DOMAIN docs /\ docs[d].content = readings[l].content
  BY DEF ReadingsStand
<1>3. d \in DOMAIN docs' /\ docs'[d].content = docs[d].content
  BY <1>2 DEF Kinds, DocsKept
<1> QED BY <1>1, <1>2, <1>3

\* What one request or task does to itself, with everything else kept.
LEMMA StepKeeps ==
  ASSUME DocumentsInv, Kinds', ObjectsKept, DocsKept, ReadingsKept, DocsStand',
         \A l \in DOMAIN readings' \ DOMAIN readings :
            /\ readings'[l].document \in DOMAIN docs'
            /\ docs'[readings'[l].document].content = readings'[l].content,
         SelectedKept,
         choice' = choice \/ choice' = Nothing
            \/ OwnReading(choice'.document, choice'.reading, docs, readings),
         \A r \in Requests : upload'[r] = upload[r] \/ UploadStands(upload'[r], object', docs'),
         \A t \in Tasks : task'[t] = task[t] \/ TaskStands(task'[t], object', docs', readings')
  PROVE  DocumentsInv'
<1>1. ReadingsStand'
  BY FiledKept DEF DocumentsInv, ReadingsStand
<1>2. SelectionsStand'
  <2>1. \A d \in DOMAIN docs' :
           docs'[d].selected # Nothing => OwnReading(d, docs'[d].selected, docs', readings')
    BY OwnReadingsKept DEF DocumentsInv, SelectionsStand, SelectedKept
  <2>2. choice' # Nothing => OwnReading(choice'.document, choice'.reading, docs', readings')
    BY OwnReadingsKept DEF DocumentsInv, SelectionsStand
  <2> QED BY <2>1, <2>2 DEF SelectionsStand
<1>3. \A r \in Requests : UploadStands(upload'[r], object', docs')
  BY UploadsKept DEF DocumentsInv
<1>4. \A t \in Tasks : TaskStands(task'[t], object', docs', readings')
  BY TasksKept DEF DocumentsInv
<1> QED BY <1>1, <1>2, <1>3, <1>4 DEF DocumentsInv

-----------------------------------------------------------------------------
(* The upload requests. *)

\* Leaving the rows, the objects and the readings alone keeps them.
LEMMA NothingTaken ==
  /\ UNCHANGED object => ObjectsKept
  /\ UNCHANGED docs => DocsKept
  /\ UNCHANGED readings => ReadingsKept
  /\ UNCHANGED docs => SelectedKept
  /\ DocumentsInv /\ UNCHANGED <<object, docs>> => DocsStand'
<1>1. UNCHANGED object => ObjectsKept
  BY DEF ObjectsKept
<1>2. UNCHANGED docs => DocsKept
  <2>1. SUFFICES ASSUME docs' = docs PROVE DocsKept
    OBVIOUS
  <2>2. Len(docs) <= Len(docs)
    OBVIOUS
  <2> QED BY <2>1, <2>2 DEF DocsKept
<1>3. UNCHANGED readings => ReadingsKept
  <2>1. SUFFICES ASSUME readings' = readings PROVE ReadingsKept
    OBVIOUS
  <2>2. Len(readings) <= Len(readings)
    OBVIOUS
  <2> QED BY <2>1, <2>2 DEF ReadingsKept
<1>4. UNCHANGED docs => SelectedKept
  BY DEF SelectedKept
<1>5. DocumentsInv /\ UNCHANGED <<object, docs>> => DocsStand'
  BY DEF DocumentsInv, DocsStand
<1> QED BY <1>1, <1>2, <1>3, <1>4, <1>5

\* One outcome is added and the next file comes up.
LEMMA OutcomeAdded ==
  ASSUME DocumentsInv, Kinds', ObjectsKept, DocsKept, NEW r \in Requests,
         upload[r].files # <<>>, NEW o \in Outcome, NEW known,
         known \subseteq DOMAIN docs',
         o.document # Nothing => /\ o.document \in DOMAIN docs'
                                 /\ docs'[o.document].content = o.content,
         upload'[r].pc = "files",
         DOMAIN upload'[r] = UploadFields,
         upload'[r].files = Tail(upload[r].files),
         upload'[r].known = known,
         upload'[r].outcomes = Append(upload[r].outcomes, o)
  PROVE  UploadStands(upload'[r], object', docs')
<1>1. UploadStands(upload[r], object', docs') /\ UploadStands(upload[r], object, docs)
  BY UploadsKept DEF DocumentsInv
<1>2. upload'[r].files \in Seq(File \union {Unusable})
  BY <1>1 DEF UploadStands
<1>3. upload'[r].outcomes \in Seq(Outcome)
  BY <1>1 DEF UploadStands
<1>4. \A i \in DOMAIN upload'[r].outcomes :
         upload'[r].outcomes[i] = o \/ /\ i \in DOMAIN upload[r].outcomes
                                       /\ upload'[r].outcomes[i] = upload[r].outcomes[i]
  BY <1>1 DEF UploadStands
<1>5. \A i \in DOMAIN upload'[r].outcomes :
         upload'[r].outcomes[i].document # Nothing =>
            /\ upload'[r].outcomes[i].document \in DOMAIN docs'
            /\ docs'[upload'[r].outcomes[i].document].content = upload'[r].outcomes[i].content
  BY <1>1, <1>4 DEF UploadStands
<1> QED BY <1>2, <1>3, <1>5 DEF UploadStands, Registering

\* A step of one upload request that leaves readings and tasks alone.
LEMMA UploadStepKeeps ==
  ASSUME DocumentsInv, Kinds', NEW r \in Requests,
         ObjectsKept, DocsKept, DocsStand', SelectedKept,
         UNCHANGED <<readings, task, choice>>,
         \A q \in Requests \ {r} : upload'[q] = upload[q],
         UploadStands(upload'[r], object', docs')
  PROVE  DocumentsInv'
BY StepKeeps, NothingTaken

LEMMA OutcomeStep ==
  ASSUME DocumentsInv, NEW r \in Requests, NEW o, Outcomes(r, o)
  PROVE  /\ DOMAIN upload' = Requests
         /\ \A q \in Requests \ {r} : upload'[q] = upload[q]
         /\ DOMAIN upload'[r] = UploadFields
         /\ upload'[r].pc = "files"
         /\ upload'[r].files = Tail(upload[r].files)
         /\ upload'[r].known \subseteq upload[r].known
         /\ upload'[r].outcomes = Append(upload[r].outcomes, o)
<1>1. DOMAIN upload = Requests /\ DOMAIN upload[r] = UploadFields
  BY DEF DocumentsInv, Kinds, UploadStands
<1> QED BY <1>1 DEF Outcomes, Knowing, UploadFields

LEMMA FailedStep ==
  ASSUME DocumentsInv, NEW r \in Requests, Failed(r), upload[r].files # <<>>, ObjectsKept,
         object' \in [Names -> Contents \union {Nothing}],
         DocsStand', UNCHANGED <<docs, readings, project, task, choice>>
  PROVE  DocumentsInv'
<1> DEFINE o == [status |-> "failed", content |-> Nothing, document |-> Nothing]
<1>1. Outcomes(r, o) /\ o \in Outcome
  BY DEF Failed, Outcome
<1>2. DocsKept /\ SelectedKept
  BY NothingTaken
<1>3. Kinds'
  BY <1>1, OutcomeStep DEF DocumentsInv, Kinds
<1>4. upload'[r].known \subseteq DOMAIN docs'
  BY <1>1, OutcomeStep DEF DocumentsInv, UploadStands
<1>5. UploadStands(upload'[r], object', docs')
  BY <1>1, <1>2, <1>3, <1>4, OutcomeStep, OutcomeAdded
<1> QED BY <1>1, <1>2, <1>3, <1>5, OutcomeStep, UploadStepKeeps

\* Storing under a free path disturbs no document.
LEMMA StoredKeeps ==
  ASSUME DocumentsInv, NEW r \in Requests, Storable(r), Stored(r), UNCHANGED docs
  PROVE  /\ Head1(r) \in File
         /\ ObjectsKept /\ DocsStand'
         /\ object' \in [Names -> Contents \union {Nothing}]
         /\ object'[Head1(r).name] = Head1(r).content
<1>1. Head1(r) \in File
  BY DEF Storable, Pending, Head1, DocumentsInv, UploadStands
<1>2. Head1(r).name \in Names /\ Head1(r).content \in Contents
  BY <1>1 DEF File
<1>3. /\ object' \in [Names -> Contents \union {Nothing}]
      /\ \A n \in Names : object'[n] = IF n = Head1(r).name THEN Head1(r).content ELSE object[n]
      /\ object[Head1(r).name] = Nothing
  BY <1>2 DEF Stored, DocumentsInv, Kinds
<1>4. ObjectsKept
  BY <1>3 DEF ObjectsKept
<1>5. ASSUME NEW d \in DOMAIN docs
      PROVE  docs[d].path \in Names /\ docs[d].content # Nothing
  <2>1. docs[d] \in Doc
    BY DEF DocumentsInv, Kinds
  <2> QED BY <2>1, NothingAssumption DEF Doc
<1>6. \A d \in DOMAIN docs' : object'[docs'[d].path] = docs'[d].content
  BY <1>4, <1>5 DEF DocumentsInv, DocsStand, ObjectsKept
<1> QED BY <1>1, <1>2, <1>3, <1>4, <1>6 DEF DocumentsInv, DocsStand

LEMMA SendFilesKeeps ==
  ASSUME DocumentsInv, NEW r \in Requests, NEW files \in FileLists, SendFiles(r, files)
  PROVE  DocumentsInv'
<1> DEFINE new == [NoUpload EXCEPT !.pc = "files", !.files = files, !.known = DOMAIN docs,
                                   !.names = {docs[d].path : d \in DOMAIN docs}]
<1>1. /\ DOMAIN new = UploadFields /\ new.pc = "files" /\ new.files = files
      /\ new.known = DOMAIN docs /\ new.outcomes = <<>>
  BY DEF NoUpload, UploadFields
<1>2. upload' = [upload EXCEPT ![r] = new]
  BY DEF SendFiles
<1> HIDE DEF new
<1>3. files \in Seq(File \union {Unusable})
  <2>1. PICK n \in 1..MaxFiles : files \in [1..n -> File \union {Unusable}]
    BY DEF FileLists
  <2>2. n \in Nat
    BY BoundsAssumption
  <2> QED BY <2>1, <2>2
<1>4. /\ DOMAIN upload' = Requests /\ upload'[r] = new
      /\ \A q \in Requests \ {r} : upload'[q] = upload[q]
  BY <1>2 DEF DocumentsInv, Kinds
<1>5. Kinds' /\ ObjectsKept /\ DocsKept /\ DocsStand' /\ SelectedKept
  BY <1>4, NothingTaken DEF DocumentsInv, Kinds, SendFiles
<1>6. UploadStands(new, object', docs')
  BY <1>1, <1>3 DEF UploadStands, SendFiles, Registering
<1> QED BY <1>4, <1>5, <1>6, UploadStepKeeps DEF SendFiles

LEMMA RefuseFileKeeps ==
  ASSUME DocumentsInv, NEW r \in Requests, RefuseFile(r)
  PROVE  DocumentsInv'
<1>1. Failed(r) /\ upload[r].files # <<>> /\ UNCHANGED <<object, docs, readings, project, task, choice>>
  BY DEF RefuseFile, Pending
<1>2. ObjectsKept /\ DocsStand' /\ object' \in [Names -> Contents \union {Nothing}]
  BY <1>1, NothingTaken DEF DocumentsInv, Kinds
<1> QED BY <1>1, <1>2, FailedStep

LEMMA DeduplicateKeeps ==
  ASSUME DocumentsInv, NEW r \in Requests, Deduplicate(r)
  PROVE  DocumentsInv'
<1>1. PICK d \in KnownWith(r, Head1(r).content) :
         Outcomes(r, [status |-> "deduplicated", content |-> Head1(r).content, document |-> d])
  BY DEF Deduplicate
<1> DEFINE o == [status |-> "deduplicated", content |-> Head1(r).content, document |-> d]
<1>2. Head1(r) \in File /\ upload[r].files # <<>>
  BY DEF Deduplicate, Pending, Head1, DocumentsInv, UploadStands
<1>3. d \in DOMAIN docs /\ docs[d].content = Head1(r).content
  BY DEF KnownWith, DocumentsInv, UploadStands
<1>4. o \in Outcome /\ o.document = d /\ o.content = Head1(r).content
  BY <1>2, <1>3 DEF Outcome, File, DocumentsInv, Kinds
<1> HIDE DEF o
<1>5. /\ UNCHANGED <<object, docs, readings, project, task, choice>>
      /\ upload'[r].known \subseteq DOMAIN docs'
  BY <1>1, OutcomeStep DEF Deduplicate, DocumentsInv, UploadStands, o
<1>6. Kinds' /\ ObjectsKept /\ DocsKept /\ DocsStand' /\ SelectedKept
  BY <1>1, <1>5, OutcomeStep, NothingTaken DEF DocumentsInv, Kinds, o
<1>7. UploadStands(upload'[r], object', docs')
  BY <1>1, <1>2, <1>3, <1>4, <1>5, <1>6, OutcomeStep, OutcomeAdded DEF o
<1> QED BY <1>1, <1>5, <1>6, <1>7, OutcomeStep, UploadStepKeeps DEF o

LEMMA StoreFileKeeps ==
  ASSUME DocumentsInv, NEW r \in Requests, StoreFile(r)
  PROVE  DocumentsInv'
<1>1. /\ Storable(r) /\ Stored(r) /\ upload' = [upload EXCEPT ![r].pc = "register"]
      /\ UNCHANGED <<docs, readings, project, task, choice>>
  BY DEF StoreFile
<1>2. DOMAIN upload = Requests /\ DOMAIN upload[r] = UploadFields
  BY DEF DocumentsInv, Kinds, UploadStands
<1>3. /\ DOMAIN upload' = Requests
      /\ \A q \in Requests \ {r} : upload'[q] = upload[q]
      /\ DOMAIN upload'[r] = UploadFields /\ upload'[r].pc = "register"
      /\ upload'[r].files = upload[r].files /\ upload'[r].known = upload[r].known
      /\ upload'[r].outcomes = upload[r].outcomes
  BY <1>1, <1>2 DEF UploadFields
<1>4. /\ ObjectsKept /\ DocsStand' /\ object' \in [Names -> Contents \union {Nothing}]
      /\ object'[Head1(r).name] = Head1(r).content
  BY <1>1, StoredKeeps
<1>5. Kinds' /\ DocsKept /\ SelectedKept
  BY <1>1, <1>3, <1>4, NothingTaken DEF DocumentsInv, Kinds
<1>6. UploadStands(upload[r], object', docs')
  BY <1>4, <1>5, UploadsKept DEF DocumentsInv
<1>7. UploadStands(upload'[r], object', docs')
  BY <1>1, <1>3, <1>4, <1>6 DEF UploadStands, Storable, Pending, Head1, Registering
<1> QED BY <1>1, <1>3, <1>4, <1>5, <1>7, UploadStepKeeps

LEMMA StoreRaisesKeeps ==
  ASSUME DocumentsInv, NEW r \in Requests, StoreRaises(r)
  PROVE  DocumentsInv'
<1>1. /\ Storable(r) /\ Failed(r) /\ UNCHANGED <<docs, readings, project, task, choice>>
      /\ UNCHANGED object \/ Stored(r)
  BY DEF StoreRaises
<1>2. ObjectsKept /\ DocsStand' /\ object' \in [Names -> Contents \union {Nothing}]
  <2>1. CASE UNCHANGED object
    BY <1>1, <2>1, NothingTaken DEF DocumentsInv, Kinds
  <2>2. CASE Stored(r)
    BY <1>1, <2>2, StoredKeeps
  <2> QED BY <1>1, <2>1, <2>2
<1> QED BY <1>1, <1>2, FailedStep DEF Storable, Pending

\* The file a request registers lies under its name.
LEMMA RegisteringFile ==
  ASSUME DocumentsInv, NEW r \in Requests, upload[r].pc \in Registering
  PROVE  /\ Head1(r) \in File /\ upload[r].files # <<>>
         /\ Head1(r).content \in Contents /\ Head1(r).name \in Names
         /\ object[Head1(r).name] = Head1(r).content
<1>1. /\ Head1(r) \in File /\ upload[r].files # <<>>
      /\ object[Head1(r).name] = Head1(r).content
  BY DEF Head1, DocumentsInv, UploadStands
<1> QED BY <1>1 DEF File

\* A request is given a row of its file's bytes, found or inserted.
LEMMA CreatedKeeps ==
  ASSUME DocumentsInv, NEW r \in Requests, NEW d \in DOMAIN docs', Created(r, d),
         upload[r].pc \in Registering, docs'[d].content = Head1(r).content,
         RowsMayGain(Head1(r).content, Head1(r).name),
         UNCHANGED <<object, readings, project, task, choice>>
  PROVE  DocumentsInv'
<1> DEFINE f == Head1(r)
           o == [status |-> "created", content |-> f.content, document |-> d]
           known == Knowing(r, upload[r].known \union {d})
<1>1. /\ f \in File /\ upload[r].files # <<>> /\ object[f.name] = f.content
      /\ f.content \in Contents /\ f.name \in Names
  BY RegisteringFile
<1>2. DocsKept /\ DocsStand' /\ docs' \in Seq(Doc) /\ SelectedKept
  BY <1>1, InsertionKeeps DEF DocumentsInv
<1>3. o \in Outcome /\ o.document = d /\ o.content = f.content
  BY <1>1, <1>2 DEF Outcome
<1>4. /\ DOMAIN upload' = Requests
      /\ \A q \in Requests \ {r} : upload'[q] = upload[q]
      /\ DOMAIN upload'[r] = UploadFields /\ upload'[r].pc = "files"
      /\ upload'[r].files = Tail(upload[r].files)
      /\ upload'[r].known = known
      /\ upload'[r].outcomes = Append(upload[r].outcomes, o)
  <2>1. DOMAIN upload = Requests /\ DOMAIN upload[r] = UploadFields
    BY DEF DocumentsInv, Kinds, UploadStands
  <2> QED BY <2>1 DEF Created, UploadFields
<1> HIDE DEF o
<1>5. Kinds' /\ ObjectsKept
  BY <1>2, <1>4, NothingTaken DEF DocumentsInv, Kinds
<1>6. known \subseteq DOMAIN docs'
  <2>1. upload[r].known \subseteq DOMAIN docs
    BY DEF DocumentsInv, UploadStands
  <2>2. DOMAIN docs \subseteq DOMAIN docs'
    BY <1>2 DEF DocsKept, DocumentsInv, Kinds
  <2> QED BY <2>1, <2>2 DEF Knowing
<1> HIDE DEF f, known
<1>7. UploadStands(upload'[r], object', docs')
  BY <1>1, <1>2, <1>3, <1>4, <1>5, <1>6, OutcomeAdded DEF f
<1> QED BY <1>2, <1>4, <1>5, <1>7, UploadStepKeeps

LEMMA FindRowKeeps ==
  ASSUME DocumentsInv, NEW r \in Requests, FindRow(r)
  PROVE  DocumentsInv'
<1>1. PICK d \in RowsOf(Head1(r).content) : Created(r, d)
  BY DEF FindRow
<1>2. d \in DOMAIN docs' /\ docs'[d].content = Head1(r).content
  BY <1>1 DEF RowsOf, FindRow
<1>3. upload[r].pc \in Registering /\ UNCHANGED <<object, docs, readings, project, task, choice>>
  BY DEF FindRow, Registering
<1> QED BY <1>1, <1>2, <1>3, CreatedKeeps DEF RowsMayGain

LEMMA InsertRowKeeps ==
  ASSUME DocumentsInv, NEW r \in Requests, InsertRow(r)
  PROVE  DocumentsInv'
<1> DEFINE f == Head1(r)
<1>1. /\ Inserted(f.content, f.name) /\ Created(r, Len(docs) + 1)
      /\ upload[r].pc \in Registering /\ UNCHANGED <<object, readings, project, task, choice>>
  BY DEF InsertRow, Registering
<1>2. f.content \in Contents /\ f.name \in Names
  BY <1>1, RegisteringFile
<1> HIDE DEF f
<1>3. /\ docs \in Seq(Doc) /\ docs' \in Seq(Doc) /\ Len(docs') = Len(docs) + 1
      /\ docs'[Len(docs) + 1].content = f.content
  BY <1>1, <1>2, InsertionEffect DEF DocumentsInv, Kinds
<1>4. Len(docs) + 1 \in DOMAIN docs'
  BY <1>3
<1> QED BY <1>1, <1>3, <1>4, CreatedKeeps DEF RowsMayGain, f

\* A request goes on registering its file.
LEMMA StillRegistering ==
  ASSUME DocumentsInv, NEW r \in Requests, upload[r].pc \in Registering,
         NEW pc \in Registering, upload' = [upload EXCEPT ![r].pc = pc],
         RowsMayGain(Head1(r).content, Head1(r).name),
         UNCHANGED <<object, readings, project, task, choice>>
  PROVE  DocumentsInv'
<1>1. /\ object[Head1(r).name] = Head1(r).content
      /\ Head1(r).content \in Contents /\ Head1(r).name \in Names
  BY RegisteringFile
<1>2. DocsKept /\ DocsStand' /\ docs' \in Seq(Doc) /\ SelectedKept
  BY <1>1, InsertionKeeps DEF DocumentsInv
<1>3. DOMAIN upload = Requests /\ DOMAIN upload[r] = UploadFields
  BY DEF DocumentsInv, Kinds, UploadStands
<1>4. /\ DOMAIN upload' = Requests
      /\ \A q \in Requests \ {r} : upload'[q] = upload[q]
      /\ DOMAIN upload'[r] = UploadFields /\ upload'[r].pc = pc
      /\ upload'[r].files = upload[r].files /\ upload'[r].known = upload[r].known
      /\ upload'[r].outcomes = upload[r].outcomes
  BY <1>3 DEF UploadFields
<1>5. Kinds' /\ ObjectsKept
  BY <1>2, <1>4, NothingTaken DEF DocumentsInv, Kinds
<1>6. UploadStands(upload[r], object', docs')
  BY <1>2, <1>5, UploadsKept DEF DocumentsInv
<1>7. UploadStands(upload'[r], object', docs')
  BY <1>4, <1>6 DEF UploadStands
<1> QED BY <1>2, <1>4, <1>5, <1>7, UploadStepKeeps

LEMMA MissRowKeeps ==
  ASSUME DocumentsInv, NEW r \in Requests, MissRow(r)
  PROVE  DocumentsInv'
BY StillRegistering DEF MissRow, Registering, RowsMayGain

LEMMA InsertRaisesKeeps ==
  ASSUME DocumentsInv, NEW r \in Requests, InsertRaises(r)
  PROVE  DocumentsInv'
BY StillRegistering DEF InsertRaises, InsertionRaised, Registering, RowsMayGain

\* An upload that ends holds nothing.
LEMMA UploadEnds ==
  ASSUME DocumentsInv, NEW r \in Requests, upload' = [upload EXCEPT ![r] = [NoUpload EXCEPT !.pc = "raised"]],
         UNCHANGED <<object, docs, readings, project, task, choice>>
  PROVE  DocumentsInv'
<1> DEFINE new == [NoUpload EXCEPT !.pc = "raised"]
<1>1. /\ DOMAIN new = UploadFields /\ new.pc = "raised" /\ new.files = <<>>
      /\ new.known = {} /\ new.outcomes = <<>>
  BY DEF NoUpload, UploadFields
<1> HIDE DEF new
<1>2. /\ DOMAIN upload' = Requests /\ upload'[r] = new
      /\ \A q \in Requests \ {r} : upload'[q] = upload[q]
  BY DEF DocumentsInv, Kinds, new
<1>3. Kinds' /\ ObjectsKept /\ DocsKept /\ DocsStand' /\ SelectedKept
  BY <1>2, NothingTaken DEF DocumentsInv, Kinds
<1>4. UploadStands(new, object', docs')
  BY <1>1 DEF UploadStands, Registering
<1> QED BY <1>2, <1>3, <1>4, UploadStepKeeps

LEMMA UploadKeeps ==
  ASSUME DocumentsInv, NEW r \in Requests, UploadStep(r)
  PROVE  DocumentsInv'
<1>1. CASE RegisterRaises(r)
  BY <1>1, UploadEnds DEF RegisterRaises
<1> QED BY <1>1, RefuseFileKeeps, DeduplicateKeeps, StoreFileKeeps, StoreRaisesKeeps,
           FindRowKeeps, MissRowKeeps, InsertRowKeeps, InsertRaisesKeeps DEF UploadStep

-----------------------------------------------------------------------------
(* The extraction tasks. *)

\* A step of one task that leaves objects, uploads and the choice alone.
LEMMA TaskStepKeeps ==
  ASSUME DocumentsInv, Kinds', NEW t \in Tasks,
         DocsKept, ReadingsKept, DocsStand', SelectedKept,
         \A l \in DOMAIN readings' \ DOMAIN readings :
            /\ readings'[l].document \in DOMAIN docs'
            /\ docs'[readings'[l].document].content = readings'[l].content,
         UNCHANGED <<object, upload, choice>>,
         \A k \in Tasks \ {t} : task'[k] = task[k],
         TaskStands(task'[t], object', docs', readings')
  PROVE  DocumentsInv'
BY StepKeeps, NothingTaken

\* A step of one task that leaves the rows alone too, and files nothing.
LEMMA TaskOnlyKeeps ==
  ASSUME DocumentsInv, NEW t \in Tasks,
         readings' \in Seq(Reading), ReadingsKept, Len(readings') = Len(readings),
         DOMAIN project' = {"status", "record", "total"}, project'.record \in Nat,
         UNCHANGED <<object, docs, upload, choice>>,
         DOMAIN task' = Tasks,
         \A k \in Tasks \ {t} : task'[k] = task[k],
         TaskStands(task'[t], object', docs', readings')
  PROVE  DocumentsInv'
<1>1. Kinds' /\ DocsKept /\ DocsStand' /\ SelectedKept
  BY NothingTaken DEF DocumentsInv, Kinds
<1>2. DOMAIN readings' = DOMAIN readings
  BY DEF DocumentsInv, Kinds
<1> QED BY <1>1, <1>2, TaskStepKeeps

\* One reading changes in other respects than what it was taken of.
LEMMA ReadingTouched ==
  ASSUME readings \in Seq(Reading), NEW l \in DOMAIN readings, NEW new \in Reading,
         new.document = readings[l].document, new.content = readings[l].content,
         readings[l].captured => new.captured,
         readings' = [readings EXCEPT ![l] = new]
  PROVE  readings' \in Seq(Reading) /\ ReadingsKept /\ Len(readings') = Len(readings)
<1>1. readings' \in Seq(Reading) /\ Len(readings') = Len(readings)
  OBVIOUS
<1>2. \A k \in DOMAIN readings : readings'[k] = IF k = l THEN new ELSE readings[k]
  OBVIOUS
<1> QED BY <1>1, <1>2 DEF ReadingsKept

LEMMA Unread ==
  ASSUME DocumentsInv, UNCHANGED readings
  PROVE  readings' \in Seq(Reading) /\ ReadingsKept /\ Len(readings') = Len(readings)
BY NothingTaken DEF DocumentsInv, Kinds

LEMMA Unsummarised ==
  ASSUME DocumentsInv, UNCHANGED project
  PROVE  DOMAIN project' = {"status", "record", "total"} /\ project'.record \in Nat
BY DEF DocumentsInv, Kinds

\* A task moves on without losing its reading, or is done.
LEMMA GotoStands ==
  ASSUME DocumentsInv, NEW t \in Tasks, NEW label, Goto(t, label), label # "open",
         label \in Registering => task[t].pc \in Registering,
         label \in Reads => task[t].pc \in Reads,
         UNCHANGED object, Len(readings') = Len(readings), readings' \in Seq(Reading)
  PROVE  /\ DOMAIN task' = Tasks
         /\ \A k \in Tasks \ {t} : task'[k] = task[k]
         /\ TaskStands(task'[t], object', docs', readings')
<1>1. DOMAIN task = Tasks /\ DOMAIN task[t] = TaskFields /\ TaskStands(task[t], object, docs, readings)
  BY DEF DocumentsInv, Kinds, TaskStands
<1>2. DOMAIN readings' = DOMAIN readings
  BY DEF DocumentsInv, Kinds
<1>3. /\ DOMAIN task' = Tasks
      /\ \A k \in Tasks \ {t} : task'[k] = task[k]
      /\ DOMAIN task'[t] = TaskFields /\ task'[t].pc = label
      /\ task'[t].path = task[t].path /\ task'[t].analysed = task[t].analysed
      /\ task'[t].reading = task[t].reading
  BY <1>1 DEF Goto, TaskFields
<1> QED BY <1>1, <1>2, <1>3 DEF TaskStands

LEMMA LeaveStands ==
  ASSUME DocumentsInv, NEW t \in Tasks, Leave(t)
  PROVE  /\ DOMAIN task' = Tasks
         /\ \A k \in Tasks \ {t} : task'[k] = task[k]
         /\ TaskStands(task'[t], object', docs', readings')
<1>1. /\ DOMAIN NoTask = TaskFields /\ NoTask.pc = "idle" /\ NoTask.path = Uploaded
      /\ NoTask.analysed = 0
  BY DEF NoTask, TaskFields
<1>2. /\ DOMAIN task' = Tasks /\ task'[t] = NoTask
      /\ \A k \in Tasks \ {t} : task'[k] = task[k]
  BY DEF Leave, DocumentsInv, Kinds
<1> HIDE DEF NoTask
<1> QED BY <1>1, <1>2, UploadedAssumption DEF TaskStands, Reads, Registering

\* A step of one task that files nothing, and may gain a row.
LEMMA TaskRegisters ==
  ASSUME DocumentsInv, NEW t \in Tasks, Bytes(t) \in Contents, task[t].path \in Names,
         RowsMayGain(Bytes(t), task[t].path),
         UNCHANGED <<object, readings, project, upload, choice>>,
         DOMAIN task' = Tasks,
         \A k \in Tasks \ {t} : task'[k] = task[k],
         TaskStands(task'[t], object', docs', readings')
  PROVE  DocumentsInv'
<1>1. DocsKept /\ DocsStand' /\ docs' \in Seq(Doc) /\ SelectedKept
  BY InsertionKeeps DEF DocumentsInv, Bytes
<1>2. Kinds' /\ ReadingsKept
  BY <1>1, NothingTaken DEF DocumentsInv, Kinds
<1> QED BY <1>1, <1>2, TaskStepKeeps

LEMMA TaskBytes ==
  ASSUME DocumentsInv, NEW t \in Tasks, task[t].pc \in Registering \union {"open"}
  PROVE  Bytes(t) \in Contents /\ task[t].path \in Names
<1>1. task[t].path \in Names /\ object[task[t].path] # Nothing
  BY DEF DocumentsInv, TaskStands
<1> QED BY <1>1 DEF DocumentsInv, Kinds, Bytes

\* A task goes on registering the bytes.
LEMMA TaskStillRegisters ==
  ASSUME DocumentsInv, NEW t \in Tasks, task[t].pc \in Registering,
         NEW label \in Registering, Goto(t, label), RowsMayGain(Bytes(t), task[t].path),
         UNCHANGED <<object, readings, project, upload, choice>>
  PROVE  DocumentsInv'
<1>1. Bytes(t) \in Contents /\ task[t].path \in Names
  BY TaskBytes
<1>2. readings' \in Seq(Reading) /\ Len(readings') = Len(readings)
  BY DEF DocumentsInv, Kinds
<1>3. label # "open" /\ label \notin Reads
  BY DEF Registering, Reads
<1>4. /\ DOMAIN task' = Tasks
      /\ \A k \in Tasks \ {t} : task'[k] = task[k]
      /\ TaskStands(task'[t], object', docs', readings')
  BY <1>2, <1>3, GotoStands
<1> QED BY <1>1, <1>4, TaskRegisters

LEMMA MissDocumentKeeps ==
  ASSUME DocumentsInv, NEW t \in Tasks, MissDocument(t)
  PROVE  DocumentsInv'
BY TaskStillRegisters DEF MissDocument, Registering, RowsMayGain

LEMMA InsertDocumentRaisesKeeps ==
  ASSUME DocumentsInv, NEW t \in Tasks, InsertDocumentRaises(t)
  PROVE  DocumentsInv'
BY TaskStillRegisters DEF InsertDocumentRaises, InsertionRaised, Registering, RowsMayGain

\* A task has the document of its bytes, found or inserted.
LEMMA RegisteredKeeps ==
  ASSUME DocumentsInv, NEW t \in Tasks, task[t].pc \in Registering,
         NEW d \in DOMAIN docs', Registered(t, d), docs'[d].content = Bytes(t),
         RowsMayGain(Bytes(t), task[t].path),
         UNCHANGED <<object, readings, project, upload, choice>>
  PROVE  DocumentsInv'
<1>1. Bytes(t) \in Contents /\ task[t].path \in Names
  BY TaskBytes
<1>2. DOMAIN task = Tasks /\ DOMAIN task[t] = TaskFields /\ TaskStands(task[t], object, docs, readings)
  BY DEF DocumentsInv, Kinds, TaskStands
<1>3. /\ DOMAIN task' = Tasks
      /\ \A k \in Tasks \ {t} : task'[k] = task[k]
      /\ DOMAIN task'[t] = TaskFields /\ task'[t].pc = "open" /\ task'[t].document = d
      /\ task'[t].path = task[t].path /\ task'[t].analysed = task[t].analysed
  BY <1>2 DEF Registered, TaskFields
<1>4. object'[task[t].path] = Bytes(t) /\ Bytes(t) # Nothing
  BY <1>1, NothingAssumption DEF Bytes
<1>5. TaskStands(task'[t], object', docs', readings')
  BY <1>2, <1>3, <1>4 DEF TaskStands, Reads
<1> QED BY <1>1, <1>3, <1>5, TaskRegisters

LEMMA FindDocumentKeeps ==
  ASSUME DocumentsInv, NEW t \in Tasks, FindDocument(t)
  PROVE  DocumentsInv'
<1>1. PICK d \in RowsOf(Bytes(t)) : Registered(t, d)
  BY DEF FindDocument
<1>2. d \in DOMAIN docs' /\ docs'[d].content = Bytes(t)
  BY <1>1 DEF RowsOf, FindDocument
<1>3. task[t].pc \in Registering /\ UNCHANGED <<object, docs, readings, project, upload, choice>>
  BY DEF FindDocument, Registering
<1> QED BY <1>1, <1>2, <1>3, RegisteredKeeps DEF RowsMayGain

LEMMA InsertDocumentKeeps ==
  ASSUME DocumentsInv, NEW t \in Tasks, InsertDocument(t)
  PROVE  DocumentsInv'
<1>1. /\ Inserted(Bytes(t), task[t].path) /\ Registered(t, Len(docs) + 1)
      /\ task[t].pc \in Registering /\ UNCHANGED <<object, readings, project, upload, choice>>
  BY DEF InsertDocument, Registering
<1>2. Bytes(t) \in Contents /\ task[t].path \in Names
  BY <1>1, TaskBytes
<1>3. /\ docs \in Seq(Doc) /\ docs' \in Seq(Doc) /\ Len(docs') = Len(docs) + 1
      /\ docs'[Len(docs) + 1].content = Bytes(t)
  BY <1>1, <1>2, InsertionEffect DEF DocumentsInv, Kinds
<1>4. Len(docs) + 1 \in DOMAIN docs'
  BY <1>3
<1> QED BY <1>1, <1>3, <1>4, RegisteredKeeps DEF RowsMayGain

LEMMA ExtractKeeps ==
  ASSUME DocumentsInv, NEW t \in Tasks, NEW address \in DOMAIN docs \union {Nothing},
         Extract(t, address)
  PROVE  DocumentsInv'
<1> DEFINE new == [NoTask EXCEPT !.pc = "register", !.path = Source(address)]
<1>1. /\ DOMAIN new = TaskFields /\ new.pc = "register" /\ new.path = Source(address)
      /\ new.analysed = 0
  BY DEF NoTask, TaskFields
<1>2. Source(address) \in Names /\ object[Source(address)] # Nothing
  <2>1. CASE address = Nothing
    BY <2>1, UploadedAssumption DEF Source, Extract
  <2>2. CASE address # Nothing
    <3>1. docs[address] \in Doc
      BY <2>2 DEF DocumentsInv, Kinds
    <3>2. docs[address].path \in Names /\ docs[address].content # Nothing
      BY <3>1, NothingAssumption DEF Doc
    <3> QED BY <2>2, <3>2 DEF Source, DocumentsInv, DocsStand
  <2> QED BY <2>1, <2>2
<1>3. task' = [task EXCEPT ![t] = new]
  BY DEF Extract
<1> HIDE DEF new
<1>4. /\ DOMAIN task' = Tasks /\ task'[t] = new
      /\ \A k \in Tasks \ {t} : task'[k] = task[k]
  BY <1>3 DEF DocumentsInv, Kinds
<1>5. UNCHANGED <<object, docs, readings, project, upload, choice>>
  BY DEF Extract
<1>6. TaskStands(task'[t], object', docs', readings')
  BY <1>1, <1>2, <1>4, <1>5 DEF TaskStands, Reads
<1> QED BY <1>4, <1>5, <1>6, Unread, Unsummarised, TaskOnlyKeeps

\* A reading that a task opens, whole or not, is filed under the document of its
\* bytes.
LEMMA ReadingFiled ==
  ASSUME DocumentsInv, NEW t \in Tasks, task[t].pc = "open", NEW runs \in Seq(Statuses),
         readings' = Append(readings, ReadingOf(t, runs)), UNCHANGED docs
  PROVE  /\ readings' \in Seq(Reading) /\ ReadingsKept /\ Len(readings') = Len(readings) + 1
         /\ \A l \in DOMAIN readings' \ DOMAIN readings :
               /\ readings'[l].document \in DOMAIN docs'
               /\ docs'[readings'[l].document].content = readings'[l].content
<1> DEFINE new == ReadingOf(t, runs)
<1>1. Bytes(t) \in Contents /\ task[t].path \in Names
  BY TaskBytes
<1>2. /\ task[t].document \in DOMAIN docs /\ docs[task[t].document].content = Bytes(t)
      /\ task[t].document \in Nat
  BY DEF DocumentsInv, TaskStands, Kinds, Bytes
<1>3. new \in Reading /\ new.document = task[t].document /\ new.content = Bytes(t)
  BY <1>1, <1>2 DEF Reading, ReadingOf
<1> HIDE DEF new
<1>4. /\ readings \in Seq(Reading) /\ readings' \in Seq(Reading)
      /\ Len(readings') = Len(readings) + 1
      /\ readings'[Len(readings) + 1] = new
      /\ \A l \in DOMAIN readings : readings'[l] = readings[l]
  BY <1>3 DEF DocumentsInv, Kinds, new
<1>5. ReadingsKept
  BY <1>4 DEF ReadingsKept
<1>6. \A l \in DOMAIN readings' \ DOMAIN readings : readings'[l] = new
  BY <1>4
<1> QED BY <1>2, <1>3, <1>4, <1>5, <1>6

LEMMA OpenReadingKeeps ==
  ASSUME DocumentsInv, NEW t \in Tasks, OpenReading(t)
  PROVE  DocumentsInv'
<1>1. /\ task[t].pc = "open" /\ readings' = Append(readings, ReadingOf(t, <<"running">>))
      /\ task' = [task EXCEPT ![t].pc = "read", ![t].reading = Len(readings) + 1,
                              ![t].analysed = 1]
      /\ UNCHANGED <<object, docs, project, upload, choice>>
  BY DEF OpenReading
<1>2. <<"running">> \in Seq(Statuses)
  BY DEF Statuses
<1>3. /\ readings' \in Seq(Reading) /\ ReadingsKept /\ Len(readings') = Len(readings) + 1
      /\ \A l \in DOMAIN readings' \ DOMAIN readings :
            /\ readings'[l].document \in DOMAIN docs'
            /\ docs'[readings'[l].document].content = readings'[l].content
  BY <1>1, <1>2, ReadingFiled
<1>4. /\ DOMAIN task' = Tasks
      /\ \A k \in Tasks \ {t} : task'[k] = task[k]
      /\ DOMAIN task'[t] = TaskFields /\ task'[t].pc = "read" /\ task'[t].path = task[t].path
      /\ task'[t].reading = Len(readings) + 1 /\ task'[t].analysed = 1
  <2>1. DOMAIN task = Tasks /\ DOMAIN task[t] = TaskFields
    BY DEF DocumentsInv, Kinds, TaskStands
  <2> QED BY <1>1, <2>1 DEF TaskFields
<1>5. Kinds' /\ DocsKept /\ DocsStand' /\ SelectedKept
  BY <1>1, <1>3, <1>4, NothingTaken DEF DocumentsInv, Kinds
<1>6. TaskStands(task'[t], object', docs', readings')
  <2>1. Len(readings) + 1 \in DOMAIN readings'
    BY <1>3 DEF DocumentsInv, Kinds
  <2>2. task[t].path \in Names
    BY DEF DocumentsInv, TaskStands
  <2> QED BY <1>4, <2>1, <2>2 DEF TaskStands, Registering
<1> QED BY <1>1, <1>3, <1>4, <1>5, <1>6, TaskStepKeeps

LEMMA ReadWindowKeeps ==
  ASSUME DocumentsInv, NEW t \in Tasks, ReadWindow(t)
  PROVE  DocumentsInv'
<1> DEFINE l == task[t].reading
           rows == readings[l].rows + 1
           read == [readings[l] EXCEPT !.captured = TRUE]
           new == [read EXCEPT !.rows = rows]
<1>1. l \in DOMAIN readings /\ readings \in Seq(Reading)
  BY DEF ReadWindow, DocumentsInv, Kinds, TaskStands, Reads
<1>2. readings[l] \in Reading
  BY <1>1
<1>3. /\ new \in Reading /\ new.captured
      /\ new.document = readings[l].document /\ new.content = readings[l].content
  <2>1. rows \in Nat
    BY <1>2 DEF Reading
  <2>2. /\ read \in Reading /\ read.captured = TRUE
        /\ read.document = readings[l].document /\ read.content = readings[l].content
    BY <1>2 DEF Reading
  <2> HIDE DEF rows, read
  <2> QED BY <2>1, <2>2 DEF Reading
<1>4. readings' = [readings EXCEPT ![l] = new]
  BY <1>1, <1>2 DEF ReadWindow, Reading
<1> HIDE DEF new
<1>5. readings' \in Seq(Reading) /\ ReadingsKept /\ Len(readings') = Len(readings)
  BY <1>1, <1>3, <1>4, ReadingTouched
<1>6. PICK label \in {"summary", "count"} : Goto(t, label)
  BY DEF ReadWindow
<1>7. UNCHANGED <<object, docs, project, upload, choice>> /\ task[t].pc \in Reads
  BY DEF ReadWindow, Reads
<1>8. /\ DOMAIN task' = Tasks
      /\ \A k \in Tasks \ {t} : task'[k] = task[k]
      /\ TaskStands(task'[t], object', docs', readings')
  BY <1>5, <1>6, <1>7, GotoStands DEF Registering
<1> QED BY <1>5, <1>7, <1>8, Unsummarised, TaskOnlyKeeps

LEMMA WriteSummaryKeeps ==
  ASSUME DocumentsInv, NEW t \in Tasks, WriteSummary(t)
  PROVE  DocumentsInv'
<1>1. DOMAIN project' = {"status", "record", "total"} /\ project'.record \in Nat
  <2>1. task[t].analysed \in Nat
    BY DEF DocumentsInv, TaskStands
  <2>2. PICK status, total : project' = [status |-> status, record |-> task[t].analysed,
                                         total |-> total]
    BY DEF WriteSummary
  <2> QED BY <2>1, <2>2
<1>2. /\ Goto(t, "reconcile") /\ task[t].pc \in Reads
      /\ UNCHANGED <<object, docs, readings, upload, choice>>
  BY DEF WriteSummary, Reads
<1>3. readings' \in Seq(Reading) /\ ReadingsKept /\ Len(readings') = Len(readings)
  BY <1>2, Unread
<1>4. /\ DOMAIN task' = Tasks
      /\ \A k \in Tasks \ {t} : task'[k] = task[k]
      /\ TaskStands(task'[t], object', docs', readings')
  BY <1>2, <1>3, GotoStands DEF Registering
<1> QED BY <1>1, <1>2, <1>3, <1>4, TaskOnlyKeeps

\* The end of a reconciliation's read or of its write: only its locals change.
LEMMA ReconcilingKeeps ==
  ASSUME DocumentsInv, NEW t \in Tasks, task[t].pc \in Reads,
         NEW label \in {"close", "report", "reconciled"}, NEW states, NEW total,
         task' = [task EXCEPT ![t].pc = label, ![t].states = states, ![t].total = total],
         DOMAIN project' = {"status", "record", "total"}, project'.record \in Nat,
         UNCHANGED <<object, docs, readings, upload, choice>>
  PROVE  DocumentsInv'
<1>1. DOMAIN task = Tasks /\ DOMAIN task[t] = TaskFields /\ TaskStands(task[t], object, docs, readings)
  BY DEF DocumentsInv, Kinds, TaskStands
<1>2. /\ DOMAIN task' = Tasks
      /\ \A k \in Tasks \ {t} : task'[k] = task[k]
      /\ DOMAIN task'[t] = TaskFields /\ task'[t].pc = label
      /\ task'[t].path = task[t].path /\ task'[t].analysed = task[t].analysed
      /\ task'[t].reading = task[t].reading
  BY <1>1 DEF TaskFields
<1>3. TaskStands(task'[t], object', docs', readings')
  BY <1>1, <1>2 DEF TaskStands, Registering
<1> QED BY <1>2, <1>3, Unread, TaskOnlyKeeps

LEMMA ReconcileReadKeeps ==
  ASSUME DocumentsInv, NEW t \in Tasks, ReconcileRead(t)
  PROVE  DocumentsInv'
<1>1. task[t].pc \in Reads /\ UNCHANGED <<object, docs, readings, project, upload, choice>>
  BY DEF ReconcileRead, Reads
<1>2. CASE Len(docs) < 2 /\ Goto(t, AfterReconciling(t))
  <2>1. PICK label \in {"close", "report"} : Goto(t, label)
    BY <1>2 DEF AfterReconciling
  <2>2. /\ DOMAIN task' = Tasks
        /\ \A k \in Tasks \ {t} : task'[k] = task[k]
        /\ TaskStands(task'[t], object', docs', readings')
    BY <1>1, <2>1, GotoStands, Unread DEF Registering
  <2> QED BY <1>1, <2>2, Unread, Unsummarised, TaskOnlyKeeps
<1>3. CASE Len(docs) >= 2 /\ StatesRead(t, RowsIn(DOMAIN readings))
  <2> DEFINE total == RowsIn(DOMAIN readings)
  <2>1. PICK states :
           task' = [task EXCEPT ![t].pc = "reconciled", ![t].total = total, ![t].states = states]
    BY <1>3 DEF StatesRead
  <2> HIDE DEF total
  <2>2. task' = [task EXCEPT ![t].pc = "reconciled", ![t].states = states, ![t].total = total]
    BY <2>1 DEF DocumentsInv, Kinds, TaskStands, TaskFields
  <2> QED BY <1>1, <2>2, Unsummarised, ReconcilingKeeps
<1> QED BY <1>2, <1>3 DEF ReconcileRead

LEMMA ReconcileWriteKeeps ==
  ASSUME DocumentsInv, NEW t \in Tasks, ReconcileWrite(t)
  PROVE  DocumentsInv'
<1>1. DOMAIN project' = {"status", "record", "total"} /\ project'.record \in Nat
  BY DEF ReconcileWrite, DocumentsInv, Kinds
<1>2. PICK label \in {"close", "report"} :
         task' = [task EXCEPT ![t].pc = label, ![t].states = {}, ![t].total = 0]
  BY DEF ReconcileWrite, AfterReconciling
<1>3. task[t].pc \in Reads /\ UNCHANGED <<object, docs, readings, upload, choice>>
  BY DEF ReconcileWrite, Reads
<1> QED BY <1>1, <1>2, <1>3, ReconcilingKeeps

\* A run of a reading gets another status.
LEMMA RunsMarked ==
  ASSUME NEW reading \in Reading, NEW run, NEW status \in Statuses
  PROVE  [reading.runs EXCEPT ![run] = status] \in Seq(Statuses)
<1> DEFINE runs == reading.runs
           n == Len(runs)
<1>1. runs \in Seq(Statuses)
  BY DEF Reading
<1> HIDE DEF runs
<1>2. n \in Nat /\ DOMAIN runs = 1..n /\ runs = [i \in 1..n |-> runs[i]]
  BY <1>1
<1>3. \A i \in 1..n : runs[i] \in Statuses
  BY <1>1
<1> DEFINE marked == [i \in 1..n |-> IF i = run THEN status ELSE runs[i]]
<1>4. [runs EXCEPT ![run] = status] = marked
  BY <1>2, Zenon
<1>5. marked \in [1..n -> Statuses]
  BY <1>3
<1>6. marked \in Seq(Statuses)
  BY <1>2, <1>5
<1> QED BY <1>4, <1>6 DEF runs

\* Marking a run of a reading, or counting its pages, leaves what it was taken of.
LEMMA MarkTouches ==
  ASSUME DocumentsInv, NEW t \in Tasks, task[t].pc \in Reads, NEW status \in Statuses,
         RunMarked(t, status)
  PROVE  readings' \in Seq(Reading) /\ ReadingsKept /\ Len(readings') = Len(readings)
<1> DEFINE l == task[t].reading
           runs == [readings[l].runs EXCEPT ![task[t].run] = status]
           new == [readings[l] EXCEPT !.runs = runs]
<1>1. l \in DOMAIN readings /\ readings \in Seq(Reading)
  BY DEF DocumentsInv, Kinds, TaskStands
<1>2. readings[l] \in Reading
  BY <1>1
<1>3. runs \in Seq(Statuses)
  BY <1>2, RunsMarked
<1>4. readings' = [readings EXCEPT ![l] = new]
  BY DEF RunMarked
<1> HIDE DEF runs
<1>5. /\ new \in Reading /\ new.captured = readings[l].captured
      /\ new.document = readings[l].document /\ new.content = readings[l].content
  BY <1>2, <1>3 DEF Reading
<1> HIDE DEF new
<1> QED BY <1>1, <1>4, <1>5, ReadingTouched

LEMMA CountTouches ==
  ASSUME DocumentsInv, NEW t \in Tasks, task[t].pc \in Reads, Counted(t)
  PROVE  readings' \in Seq(Reading) /\ ReadingsKept /\ Len(readings') = Len(readings)
<1> DEFINE l == task[t].reading
           new == [readings[l] EXCEPT !.counted = task[t].analysed]
<1>1. l \in DOMAIN readings /\ readings \in Seq(Reading) /\ task[t].analysed \in Nat
  BY DEF DocumentsInv, Kinds, TaskStands
<1>2. readings[l] \in Reading
  BY <1>1
<1>3. readings' = [readings EXCEPT ![l] = new]
  BY DEF Counted
<1>4. /\ new \in Reading /\ new.captured = readings[l].captured
      /\ new.document = readings[l].document /\ new.content = readings[l].content
  BY <1>1, <1>2 DEF Reading
<1> HIDE DEF new
<1> QED BY <1>1, <1>3, <1>4, ReadingTouched

LEMMA CloseKeeps ==
  ASSUME DocumentsInv, NEW t \in Tasks, Close(t)
  PROVE  DocumentsInv'
<1>1. PICK label \in {"count", "summary"} : Goto(t, label)
  BY DEF Close
<1>2. /\ task[t].pc \in Reads /\ RunMarked(t, "completed")
      /\ UNCHANGED <<object, docs, project, upload, choice>>
  BY DEF Close, Reads
<1>3. readings' \in Seq(Reading) /\ ReadingsKept /\ Len(readings') = Len(readings)
  BY <1>2, MarkTouches DEF Statuses
<1>4. /\ DOMAIN task' = Tasks
      /\ \A k \in Tasks \ {t} : task'[k] = task[k]
      /\ TaskStands(task'[t], object', docs', readings')
  BY <1>1, <1>2, <1>3, GotoStands DEF Registering
<1> QED BY <1>2, <1>3, <1>4, Unsummarised, TaskOnlyKeeps

LEMMA CountKeeps ==
  ASSUME DocumentsInv, NEW t \in Tasks, Count(t)
  PROVE  DocumentsInv'
<1>1. PICK label \in {"report", "close"} : Goto(t, label)
  BY DEF Count
<1>2. /\ task[t].pc \in Reads /\ Counted(t)
      /\ UNCHANGED <<object, docs, project, upload, choice>>
  BY DEF Count, Reads
<1>3. readings' \in Seq(Reading) /\ ReadingsKept /\ Len(readings') = Len(readings)
  BY <1>2, CountTouches
<1>4. /\ DOMAIN task' = Tasks
      /\ \A k \in Tasks \ {t} : task'[k] = task[k]
      /\ TaskStands(task'[t], object', docs', readings')
  BY <1>1, <1>2, <1>3, GotoStands DEF Registering
<1> QED BY <1>2, <1>3, <1>4, Unsummarised, TaskOnlyKeeps

LEMMA ReportKeeps ==
  ASSUME DocumentsInv, NEW t \in Tasks, Report(t)
  PROVE  DocumentsInv'
BY LeaveStands, Unread, Unsummarised, TaskOnlyKeeps DEF Report

LEMMA MarkFailedKeeps ==
  ASSUME DocumentsInv, NEW t \in Tasks, MarkFailed(t)
  PROVE  DocumentsInv'
<1>1. DOMAIN project' = {"status", "record", "total"} /\ project'.record \in Nat
  BY DEF MarkFailed, DocumentsInv, Kinds
<1> QED BY <1>1, LeaveStands, Unread, TaskOnlyKeeps DEF MarkFailed

LEMMA ContinuationRaisesKeeps ==
  ASSUME DocumentsInv, NEW t \in Tasks, ContinuationRaises(t)
  PROVE  DocumentsInv'
BY LeaveStands, Unread, Unsummarised, TaskOnlyKeeps DEF ContinuationRaises

LEMMA ContinueKeeps ==
  ASSUME DocumentsInv, NEW t \in Tasks, NEW address, NEW l \in DOMAIN readings,
         Continue(t, address, l)
  PROVE  DocumentsInv'
<1> DEFINE runs == Append(readings[l].runs, "running")
           new == [readings[l] EXCEPT !.runs = runs]
           own == [NoTask EXCEPT !.pc = "read", !.kind = "continue", !.path = readings[l].path,
                                 !.reading = l, !.run = Len(readings[l].runs) + 1,
                                 !.analysed = project.record + 1]
<1>1. readings[l] \in Reading /\ readings \in Seq(Reading)
  BY DEF DocumentsInv, Kinds
<1>2. runs \in Seq(Statuses)
  <2>1. readings[l].runs \in Seq(Statuses) /\ "running" \in Statuses
    BY <1>1 DEF Reading, Statuses
  <2> QED BY <2>1
<1>3. readings' = [readings EXCEPT ![l] = new]
  BY DEF Continue
<1> HIDE DEF runs
<1>4. /\ new \in Reading /\ new.captured = readings[l].captured
      /\ new.document = readings[l].document /\ new.content = readings[l].content
  BY <1>1, <1>2 DEF Reading
<1> HIDE DEF new
<1>5. readings' \in Seq(Reading) /\ ReadingsKept /\ Len(readings') = Len(readings)
  BY <1>1, <1>3, <1>4, ReadingTouched
<1>6. /\ DOMAIN own = TaskFields /\ own.pc = "read" /\ own.path = readings[l].path
      /\ own.reading = l /\ own.analysed = project.record + 1
  BY DEF NoTask, TaskFields
<1>7. task' = [task EXCEPT ![t] = own] /\ UNCHANGED <<object, docs, project, upload, choice>>
  BY DEF Continue
<1> HIDE DEF own
<1>8. /\ DOMAIN task' = Tasks /\ task'[t] = own
      /\ \A k \in Tasks \ {t} : task'[k] = task[k]
  BY <1>7 DEF DocumentsInv, Kinds
<1>9. TaskStands(own, object', docs', readings')
  <2>1. own.path \in Names /\ own.analysed \in Nat
    BY <1>1, <1>6 DEF Reading, DocumentsInv, Kinds
  <2>2. l \in DOMAIN readings'
    BY <1>5, <1>1
  <2> QED BY <1>6, <2>1, <2>2 DEF TaskStands, Registering
<1> QED BY <1>5, <1>7, <1>8, <1>9, Unsummarised, TaskOnlyKeeps

\* A reading opened in part, marked failed or left alone.
LEMMA LeftReadingKeeps ==
  ASSUME DocumentsInv, NEW t \in Tasks, LeftReading(t), UNCHANGED docs
  PROVE  /\ readings' \in Seq(Reading) /\ ReadingsKept
         /\ \A l \in DOMAIN readings' \ DOMAIN readings :
               /\ readings'[l].document \in DOMAIN docs'
               /\ docs'[readings'[l].document].content = readings'[l].content
<1>1. CASE UNCHANGED readings
  BY <1>1, Unread
<1>2. CASE task[t].pc \in {"read", "summary", "reconcile", "reconciled"} /\ RunMarked(t, "failed")
  <2>1. readings' \in Seq(Reading) /\ ReadingsKept /\ Len(readings') = Len(readings)
    BY <1>2, MarkTouches DEF Reads, Statuses
  <2>2. DOMAIN readings' = DOMAIN readings
    BY <2>1 DEF DocumentsInv, Kinds
  <2> QED BY <2>1, <2>2
<1>3. ASSUME task[t].pc = "open", NEW runs \in {<<>>, <<"running">>},
             readings' = Append(readings, ReadingOf(t, runs))
      PROVE  /\ readings' \in Seq(Reading) /\ ReadingsKept
             /\ \A l \in DOMAIN readings' \ DOMAIN readings :
                   /\ readings'[l].document \in DOMAIN docs'
                   /\ docs'[readings'[l].document].content = readings'[l].content
  <2>1. <<>> \in Seq(Statuses) /\ <<"running">> \in Seq(Statuses)
    BY DEF Statuses
  <2>2. runs \in Seq(Statuses)
    BY <2>1
  <2> QED BY <1>3, <2>2, ReadingFiled
<1> QED BY <1>1, <1>2, <1>3 DEF LeftReading

LEMMA ExtractionRaisesKeeps ==
  ASSUME DocumentsInv, NEW t \in Tasks, ExtractionRaises(t)
  PROVE  DocumentsInv'
<1>1. /\ Goto(t, "failing") /\ LeftReading(t)
      /\ UNCHANGED <<object, docs, project, upload, choice>>
  BY DEF ExtractionRaises
<1>2. /\ readings' \in Seq(Reading) /\ ReadingsKept
      /\ \A l \in DOMAIN readings' \ DOMAIN readings :
            /\ readings'[l].document \in DOMAIN docs'
            /\ docs'[readings'[l].document].content = readings'[l].content
  BY <1>1, LeftReadingKeeps
<1>3. DOMAIN task = Tasks /\ DOMAIN task[t] = TaskFields /\ TaskStands(task[t], object, docs, readings)
  BY DEF DocumentsInv, Kinds, TaskStands
<1>4. /\ DOMAIN task' = Tasks
      /\ \A k \in Tasks \ {t} : task'[k] = task[k]
      /\ DOMAIN task'[t] = TaskFields /\ task'[t].pc = "failing"
      /\ task'[t].path = task[t].path /\ task'[t].analysed = task[t].analysed
  BY <1>1, <1>3 DEF Goto, TaskFields
<1>5. TaskStands(task'[t], object', docs', readings')
  BY <1>3, <1>4 DEF TaskStands, Reads, Registering
<1>6. Kinds' /\ DocsKept /\ DocsStand' /\ SelectedKept
  BY <1>1, <1>2, <1>4, NothingTaken DEF DocumentsInv, Kinds
<1> QED BY <1>1, <1>2, <1>4, <1>5, <1>6, TaskStepKeeps

LEMMA TaskKeeps ==
  ASSUME DocumentsInv, NEW t \in Tasks, TaskStep(t)
  PROVE  DocumentsInv'
BY FindDocumentKeeps, MissDocumentKeeps, InsertDocumentKeeps, InsertDocumentRaisesKeeps,
   OpenReadingKeeps, ReadWindowKeeps, WriteSummaryKeeps, ReconcileReadKeeps, ReconcileWriteKeeps,
   CloseKeeps, CountKeeps, ReportKeeps, ExtractionRaisesKeeps, MarkFailedKeeps, ContinuationRaisesKeeps
   DEF TaskStep

-----------------------------------------------------------------------------
(* The reviewer. *)

\* A document changes in nothing but its role and its selection.
LEMMA DocTouched ==
  ASSUME DocumentsInv, NEW d \in DOMAIN docs, NEW new \in Doc,
         new.content = docs[d].content, new.path = docs[d].path,
         new.selected = docs[d].selected \/ OwnReading(d, new.selected, docs, readings),
         choice' = choice \/ choice' = Nothing,
         docs' = [docs EXCEPT ![d] = new],
         UNCHANGED <<object, readings, project, upload, task>>
  PROVE  DocumentsInv'
<1>1. /\ docs \in Seq(Doc) /\ docs' \in Seq(Doc) /\ Len(docs') = Len(docs)
      /\ DOMAIN docs' = DOMAIN docs
      /\ \A e \in DOMAIN docs : docs'[e] = IF e = d THEN new ELSE docs[e]
  BY DEF DocumentsInv, Kinds
<1>2. Kinds'
  BY <1>1 DEF DocumentsInv, Kinds
<1>3. DocsKept
  BY <1>1 DEF DocsKept
<1>4. DocsStand'
  <2>1. \A e \in DOMAIN docs : docs'[e].content = docs[e].content /\ docs'[e].path = docs[e].path
    BY <1>1
  <2> QED BY <1>1, <2>1 DEF DocumentsInv, DocsStand
<1>5. SelectedKept
  BY <1>1 DEF SelectedKept
<1> QED BY <1>2, <1>3, <1>4, <1>5, NothingTaken, StepKeeps

LEMMA AssertRoleKeeps ==
  ASSUME DocumentsInv, NEW d \in DOMAIN docs, NEW role \in Roles, AssertRole(d, role)
  PROVE  DocumentsInv'
<1> DEFINE new == [docs[d] EXCEPT !.role = role]
<1>1. docs[d] \in Doc
  BY DEF DocumentsInv, Kinds
<1>2. /\ new \in Doc /\ new.content = docs[d].content /\ new.path = docs[d].path
      /\ new.selected = docs[d].selected
  BY <1>1 DEF Doc
<1>3. /\ docs' = [docs EXCEPT ![d] = new]
      /\ UNCHANGED <<object, readings, project, upload, task, choice>>
  BY DEF AssertRole, Role
<1> HIDE DEF new
<1> QED BY <1>2, <1>3, DocTouched

LEMMA CheckSelectionKeeps ==
  ASSUME DocumentsInv, NEW d \in DOMAIN docs, NEW l \in DOMAIN readings, CheckSelection(d, l)
  PROVE  DocumentsInv'
<1>1. /\ UNCHANGED <<object, docs, readings, project, upload, task>>
      /\ choice' = [document |-> d, reading |-> l]
      /\ OwnReading(d, l, docs, readings)
  BY DEF CheckSelection, OwnReading
<1>2. OwnReading(choice'.document, choice'.reading, docs, readings)
  BY <1>1
<1>3. Kinds'
  BY <1>1 DEF DocumentsInv, Kinds
<1> QED BY <1>1, <1>2, <1>3, NothingTaken, StepKeeps

LEMMA WriteSelectionKeeps ==
  ASSUME DocumentsInv, WriteSelection
  PROVE  DocumentsInv'
<1> DEFINE d == choice.document
           l == choice.reading
           new == [docs[d] EXCEPT !.selected = l]
<1>1. OwnReading(d, l, docs, readings) /\ d \in DOMAIN docs /\ l \in Nat
  BY DEF WriteSelection, DocumentsInv, SelectionsStand, OwnReading, Kinds
<1>2. docs[d] \in Doc
  BY <1>1 DEF DocumentsInv, Kinds
<1>3. /\ new \in Doc /\ new.content = docs[d].content /\ new.path = docs[d].path
      /\ new.selected = l
  BY <1>1, <1>2 DEF Doc
<1>4. /\ docs' = [docs EXCEPT ![d] = new] /\ choice' = Nothing
      /\ UNCHANGED <<object, readings, project, upload, task>>
  BY DEF WriteSelection, Selected
<1> HIDE DEF new
<1> QED BY <1>1, <1>3, <1>4, DocTouched

-----------------------------------------------------------------------------
(* The invariant, and what follows from it. *)

LEMMA InitInv == Init => DocumentsInv
<1> SUFFICES ASSUME Init PROVE DocumentsInv
  OBVIOUS
<1>1. Kinds
  BY UploadedAssumption DEF Init, Kinds
<1>2. DocsStand /\ ReadingsStand /\ SelectionsStand
  BY DEF Init, DocsStand, ReadingsStand, SelectionsStand
<1>3. ASSUME NEW r \in Requests PROVE UploadStands(upload[r], object, docs)
  <2>1. upload[r] = NoUpload
    BY DEF Init
  <2>2. /\ DOMAIN NoUpload = UploadFields /\ NoUpload.pc = "idle" /\ NoUpload.files = <<>>
        /\ NoUpload.known = {} /\ NoUpload.outcomes = <<>>
    BY DEF NoUpload, UploadFields
  <2> HIDE DEF NoUpload
  <2> QED BY <2>1, <2>2 DEF UploadStands, Registering
<1>4. ASSUME NEW t \in Tasks PROVE TaskStands(task[t], object, docs, readings)
  BY UploadedAssumption DEF Init, NoTask, TaskStands, TaskFields, Reads, Registering
<1> QED BY <1>1, <1>2, <1>3, <1>4 DEF DocumentsInv

LEMMA NextInv == DocumentsInv /\ [Next]_vars => DocumentsInv'
<1> SUFFICES ASSUME DocumentsInv, [Next]_vars PROVE DocumentsInv'
  OBVIOUS
<1>1. CASE Send
  BY <1>1, SendFilesKeeps DEF Send
<1>2. CASE \E r \in Requests : UploadStep(r)
  BY <1>2, UploadKeeps
<1>3. CASE Start
  BY <1>3, ExtractKeeps, ContinueKeeps DEF Start
<1>4. CASE \E t \in Tasks : TaskStep(t)
  BY <1>4, TaskKeeps
<1>5. CASE Review
  BY <1>5, AssertRoleKeeps, CheckSelectionKeeps, WriteSelectionKeeps DEF Review
<1>6. CASE UNCHANGED vars
  BY <1>6 DEF vars, DocumentsInv, Kinds, DocsStand, ReadingsStand,
              SelectionsStand
<1> QED BY <1>1, <1>2, <1>3, <1>4, <1>5, <1>6 DEF Next

LEMMA Invariance == Spec => []DocumentsInv
BY InitInv, NextInv, PTL DEF Spec

(* A document's path holds its bytes, and a reading is filed under the       *)
(* document of the bytes it was taken from.                                 *)
THEOREM SourcesAreTrue == Spec => []SourceIsWhatItClaims
<1>1. DocumentsInv => SourceIsWhatItClaims
  BY DEF DocumentsInv, DocsStand, ReadingsStand, SourceIsWhatItClaims
<1> QED BY <1>1, Invariance, PTL

(* An upload is told of a document that holds the bytes it sent.             *)
THEOREM OutcomesAreTrue == Spec => []OutcomeNamesItsBytes
<1>1. DocumentsInv => OutcomeNamesItsBytes
  BY DEF DocumentsInv, UploadStands, OutcomeNamesItsBytes
<1> QED BY <1>1, Invariance, PTL

(* A document is reviewed from a reading of its own bytes.                   *)
THEOREM SelectionsAreOwn == Spec => []SelectionIsOwnReading
<1>1. DocumentsInv => SelectionIsOwnReading
  BY DEF DocumentsInv, SelectionsStand, OwnReading, ReadingsStand, SelectionIsOwnReading
<1> QED BY <1>1, Invariance, PTL

-----------------------------------------------------------------------------
(* The steps, as the registry of sources sees them. *)

Stores(p, c) == object[p] = Nothing /\ object' = [object EXCEPT ![p] = c] /\ UNCHANGED docs
Registers(c, p) == object[p] = c /\ Inserted(c, p) /\ UNCHANGED object
Reviewed(d, new) ==
    /\ new.content = docs[d].content /\ new.path = docs[d].path
    /\ new.role = docs[d].role \/ new.role \in Roles
    /\ docs[d].selected # Nothing => new.selected # Nothing
    /\ docs' = [docs EXCEPT ![d] = new] /\ UNCHANGED object

LEMMA StepKinds ==
  ASSUME DocumentsInv, [Next]_vars
  PROVE  \/ UNCHANGED <<object, docs>>
         \/ \E p \in Names, c \in Contents : Stores(p, c)
         \/ \E p \in Names, c \in Contents : Registers(c, p)
         \/ \E d \in DOMAIN docs, new \in Doc : Reviewed(d, new)
<1>1. ASSUME NEW r \in Requests, UploadStep(r)
      PROVE  \/ UNCHANGED <<object, docs>>
             \/ \E p \in Names, c \in Contents : Stores(p, c)
             \/ \E p \in Names, c \in Contents : Registers(c, p)
  <2>1. ASSUME Storable(r), Stored(r), UNCHANGED docs
        PROVE  \E p \in Names, c \in Contents : Stores(p, c)
    <3>1. Head1(r) \in File
      BY <2>1, StoredKeeps
    <3>2. Head1(r).name \in Names /\ Head1(r).content \in Contents
      BY <3>1 DEF File
    <3> QED BY <2>1, <3>2 DEF Stored, Stores
  <2>2. ASSUME upload[r].pc \in Registering, Inserted(Head1(r).content, Head1(r).name),
               UNCHANGED object
        PROVE  \E p \in Names, c \in Contents : Registers(c, p)
    BY <2>2, RegisteringFile DEF Registers
  <2>3. CASE InsertRow(r) \/ InsertRaises(r)
    BY <2>2, <2>3 DEF InsertRow, InsertRaises, InsertionRaised, Registering
  <2> QED BY <1>1, <2>1, <2>3 DEF UploadStep, RefuseFile, Deduplicate, StoreFile, StoreRaises,
                                  FindRow, MissRow, RegisterRaises
<1>2. ASSUME NEW t \in Tasks, TaskStep(t)
      PROVE  \/ UNCHANGED <<object, docs>>
             \/ \E p \in Names, c \in Contents : Registers(c, p)
  <2>1. ASSUME task[t].pc = "insert", Inserted(Bytes(t), task[t].path), UNCHANGED object
        PROVE  \E p \in Names, c \in Contents : Registers(c, p)
    <3>1. Bytes(t) \in Contents /\ task[t].path \in Names
      BY <2>1, TaskBytes DEF Registering
    <3> QED BY <2>1, <3>1 DEF Registers, Bytes
  <2>2. CASE InsertDocument(t) \/ InsertDocumentRaises(t)
    BY <2>1, <2>2 DEF InsertDocument, InsertDocumentRaises, InsertionRaised
  <2> QED BY <1>2, <2>2 DEF TaskStep, FindDocument, MissDocument, OpenReading, ReadWindow,
             WriteSummary, ReconcileRead, ReconcileWrite, Close, Count, Report, ExtractionRaises,
             MarkFailed, ContinuationRaises
<1>3. ASSUME NEW d \in DOMAIN docs, NEW role \in Roles, AssertRole(d, role)
      PROVE  \E new \in Doc : Reviewed(d, new)
  <2> DEFINE new == [docs[d] EXCEPT !.role = role]
  <2>1. docs[d] \in Doc
    BY DEF DocumentsInv, Kinds
  <2>2. /\ new \in Doc /\ new.content = docs[d].content /\ new.path = docs[d].path
        /\ new.selected = docs[d].selected /\ new.role = role
    BY <2>1 DEF Doc
  <2>3. docs' = [docs EXCEPT ![d] = new] /\ UNCHANGED object
    BY <1>3 DEF AssertRole, Role
  <2> HIDE DEF new
  <2> QED BY <2>2, <2>3 DEF Reviewed
<1>4. ASSUME WriteSelection
      PROVE  \E d \in DOMAIN docs, new \in Doc : Reviewed(d, new)
  <2> DEFINE d == choice.document
             l == choice.reading
             new == [docs[d] EXCEPT !.selected = l]
  <2>1. d \in DOMAIN docs /\ l \in Nat /\ l # Nothing
    BY <1>4, NothingAssumption DEF WriteSelection, DocumentsInv, SelectionsStand, OwnReading, Kinds
  <2>2. docs[d] \in Doc
    BY <2>1 DEF DocumentsInv, Kinds
  <2>3. /\ new \in Doc /\ new.content = docs[d].content /\ new.path = docs[d].path
        /\ new.selected = l /\ new.role = docs[d].role
    BY <2>1, <2>2 DEF Doc
  <2>4. docs' = [docs EXCEPT ![d] = new] /\ UNCHANGED object
    BY <1>4 DEF WriteSelection, Selected
  <2> HIDE DEF new
  <2> QED BY <2>1, <2>3, <2>4 DEF Reviewed
<1>5. Send \/ Start \/ UNCHANGED vars => UNCHANGED <<object, docs>>
  BY DEF Send, SendFiles, Start, Extract, Continue, vars
<1>6. ASSUME Review
      PROVE  \/ UNCHANGED <<object, docs>>
             \/ \E d \in DOMAIN docs, new \in Doc : Reviewed(d, new)
  <2>1. CASE \E d \in DOMAIN docs, l \in DOMAIN readings : CheckSelection(d, l)
    BY <2>1 DEF CheckSelection
  <2> QED BY <1>3, <1>4, <1>6, <2>1 DEF Review
<1> QED BY <1>1, <1>2, <1>5, <1>6 DEF Next

(* Only an assertion changes a role, and a selection is never lost, in any   *)
(* step of any request or task.                                             *)
THEOREM RowsAreKept == Spec => RowsKeepWhatWasAsserted
<1> DEFINE Kept == \A d \in DOMAIN docs :
                     /\ docs'[d].content = docs[d].content /\ docs'[d].path = docs[d].path
                     /\ docs'[d].role # docs[d].role => docs'[d].role \in Roles
                     /\ docs[d].selected # Nothing => docs'[d].selected # Nothing
<1>1. ASSUME DocumentsInv, [Next]_vars PROVE Kept
  <2>1. docs \in Seq(Doc)
    BY <1>1 DEF DocumentsInv, Kinds
  <2>2. ASSUME NEW p \in Names, NEW c \in Contents, Registers(c, p) PROVE Kept
    BY <2>1, <2>2, InsertionEffect DEF Registers
  <2>3. ASSUME NEW d \in DOMAIN docs, NEW new \in Doc, Reviewed(d, new) PROVE Kept
    BY <2>1, <2>3 DEF Reviewed
  <2>4. CASE UNCHANGED docs
    BY <2>4
  <2> QED BY <1>1, <2>2, <2>3, <2>4, StepKinds DEF Stores
<1> QED BY <1>1, Invariance, PTL DEF Spec, RowsKeepWhatWasAsserted

-----------------------------------------------------------------------------
(* The refinement. *)

LEMMA StepRefines ==
  ASSUME DocumentsInv, DocumentsInv', [Next]_vars
  PROVE  [Registry!Next]_(Registry!vars)
<1> DEFINE registered == [d \in DOMAIN docs |-> [content |-> docs[d].content,
                                                path |-> docs[d].path]]
<1>1. docs \in Seq(Doc) /\ docs' \in Seq(Doc)
  BY DEF DocumentsInv, Kinds
<1>2. CASE UNCHANGED <<object, docs>>
  BY <1>2 DEF Registry!vars
<1>3. ASSUME NEW p \in Names, NEW c \in Contents, Stores(p, c)
      PROVE  Registry!Next
  <2>1. Registry!Store(p, c)
    BY <1>3 DEF Stores, Registry!Store
  <2> QED BY <2>1 DEF Registry!Next
<1>4. ASSUME NEW d \in DOMAIN docs, NEW new \in Doc, Reviewed(d, new)
      PROVE  UNCHANGED Registry!vars
  <2>1. /\ DOMAIN docs' = DOMAIN docs
        /\ \A e \in DOMAIN docs : docs'[e].content = docs[e].content /\ docs'[e].path = docs[e].path
    BY <1>1, <1>4 DEF Reviewed
  <2>2. registered' = registered
    BY <2>1
  <2> QED BY <1>4, <2>2 DEF Reviewed, Registry!vars
<1>5. ASSUME NEW p \in Names, NEW c \in Contents, Registers(c, p)
      PROVE  Registry!Next
  <2> DEFINE n == Len(docs)
             source == [content |-> c, path |-> p]
  <2>1. /\ n \in Nat /\ DOMAIN docs = 1..n /\ Len(docs') = n + 1
        /\ \A d \in DOMAIN docs : docs'[d] = docs[d]
        /\ docs'[n + 1].content = c /\ docs'[n + 1].path = p
    BY <1>1, <1>5, InsertionEffect DEF Registers
  <2>2. \A d \in DOMAIN registered : registered[d].content # c
    BY <1>5 DEF Registers, Inserted, RowsOf
  <2>3. DOMAIN docs' = 1..(n + 1)
    BY <1>1, <2>1
  <2>4. registered' = [d \in 1..(n + 1) |-> IF d = n + 1 THEN source ELSE registered[d]]
    BY <2>1, <2>3
  <2>5. Append(registered, source)
           = [d \in 1..(n + 1) |-> IF d = n + 1 THEN source ELSE registered[d]]
    <3>1. registered = [d \in 1..n |-> registered[d]]
      BY <2>1
    <3>2. registered \in Seq([content : Contents, path : Names])
      <4>1. \A d \in 1..n : docs[d] \in Doc
        BY <1>1, <2>1
      <4>2. \A d \in 1..n : registered[d] \in [content : Contents, path : Names]
        BY <2>1, <4>1 DEF Doc
      <4> QED BY <2>1, <3>1, <4>2
    <3>3. Len(registered) = n
      BY <2>1, <3>2
    <3> HIDE DEF registered
    <3> QED BY <3>2, <3>3
  <2>6. registered' = Append(registered, source)
    BY <2>4, <2>5
  <2>7. Registry!Register(c, p)
    BY <1>5, <2>2, <2>6 DEF Registers, Registry!Register
  <2> QED BY <2>7 DEF Registry!Next
<1> QED BY <1>2, <1>3, <1>4, <1>5, StepKinds

(* Uploads and extractions together implement the registry of sources: an   *)
(* object is written once, and some bytes are registered at most once, under *)
(* a path that holds them.                                                  *)
THEOREM BoundaryImplementsRegistry == Spec => ImplementsSourceRegistry
<1>1. Init => Registry!Init
  <2>1. SUFFICES ASSUME Init PROVE Registry!Init
    OBVIOUS
  <2>2. object \in [Names -> Contents \union {Nothing}]
    BY <2>1, InitInv DEF DocumentsInv, Kinds
  <2>3. [d \in DOMAIN docs |-> [content |-> docs[d].content, path |-> docs[d].path]] = <<>>
    BY <2>1 DEF Init
  <2> QED BY <2>2, <2>3 DEF Registry!Init
<1>2. DocumentsInv /\ DocumentsInv' /\ [Next]_vars => [Registry!Next]_(Registry!vars)
  BY StepRefines
<1> QED BY <1>1, <1>2, Invariance, PTL DEF Spec, ImplementsSourceRegistry, Registry!Spec

-----------------------------------------------------------------------------
(* The project row, while one task at a time runs and no call fails. *)

OneTask == \E t \in Tasks : Tasks = {t}

SeveralRead == \E k, l \in DOMAIN readings : readings[k].document # readings[l].document

Described == project.total = RowsIn(DOMAIN readings) /\ project.status # "done"

\* Its row describes the set before a task opens a reading and after it was
\* reconciled, which a first reading does before it is closed.
Settled(k) ==
    \/ k.pc \in {"idle", "register", "insert", "reread", "open", "report"}
    \/ k.pc \in {"close", "count"} /\ k.kind = "extract"

SummaryInv ==
    /\ faults \in Nat
    /\ faults = 0 => \A t \in Tasks :
          /\ task[t].pc # "failing"
          /\ Settled(task[t]) => (SeveralRead => Described)
          /\ task[t].pc = "reconciled" => task[t].total = RowsIn(DOMAIN readings)

\* The second look-up of a task finds a row, for its insertion was refused by one.
RereadFinds ==
    faults = 0 => \A t \in Tasks : task[t].pc = "reread" => RowsOf(Bytes(t)) # {}

LEMMA InitSummary == Init => SummaryInv
<1> SUFFICES ASSUME Init PROVE SummaryInv
  OBVIOUS
<1>1. faults \in Nat /\ DOMAIN readings = {}
  BY DEF Init
<1>2. ~ SeveralRead
  BY <1>1 DEF SeveralRead
<1>3. \A t \in Tasks : task[t].pc = "idle"
  BY DEF Init, NoTask
<1> QED BY <1>1, <1>2, <1>3 DEF SummaryInv

\* A failing call is counted, and what follows it is not claimed.
LEMMA FaultSummary ==
  ASSUME SummaryInv, Fault
  PROVE  SummaryInv'
BY DEF SummaryInv, Fault

\* A step of the uploads or of a reviewer leaves the summary alone.
LEMMA AsideSummary ==
  ASSUME SummaryInv, UNCHANGED <<readings, project, task, faults>>
  PROVE  SummaryInv'
<1>1. RowsIn(DOMAIN readings)' = RowsIn(DOMAIN readings)
  BY DEF RowsIn
<1>2. (SeveralRead' <=> SeveralRead) /\ (Described' <=> Described)
  BY <1>1 DEF SeveralRead, Described
<1> QED BY <1>1, <1>2 DEF SummaryInv

\* A step of the only task is the step of them all.
LEMMA TaskSummary ==
  ASSUME OneTask, SummaryInv, NEW t \in Tasks, UNCHANGED faults,
         task'[t].pc # "failing",
         Settled(task'[t]) => (SeveralRead' => Described'),
         task'[t].pc = "reconciled" => task'[t].total = RowsIn(DOMAIN readings)'
  PROVE  SummaryInv'
<1>1. \A s \in Tasks : s = t
  BY DEF OneTask
<1> QED BY <1>1 DEF SummaryInv

\* Documents of which several were read are several.
LEMMA SeveralReadAreSeveral ==
  ASSUME DocumentsInv, SeveralRead
  PROVE  ~ (Len(docs) < 2)
<1>1. docs \in Seq(Doc) /\ \A l \in DOMAIN readings : readings[l].document \in DOMAIN docs
  BY DEF DocumentsInv, Kinds, ReadingsStand
<1>2. PICK k, l \in DOMAIN docs : k # l
  BY <1>1 DEF SeveralRead
<1> QED BY <1>1, <1>2

LEMMA StartSummary ==
  ASSUME OneTask, DocumentsInv, SummaryInv, Start
  PROVE  SummaryInv'
<1>1. ASSUME NEW t \in Tasks, NEW address, Extract(t, address)
      PROVE  SummaryInv'
  <2>1. task'[t].pc = "register" /\ task[t].pc = "idle"
    BY <1>1 DEF Extract, DocumentsInv, Kinds, NoTask
  <2>2. UNCHANGED <<readings, project, faults>>
    BY <1>1 DEF Extract
  <2>3. CASE faults = 0
    <3>1. SeveralRead => Described
      BY <2>1, <2>3 DEF SummaryInv, Settled
    <3>2. SeveralRead' => Described'
      BY <2>2, <3>1 DEF SeveralRead, Described, RowsIn
    <3> QED BY <2>1, <2>2, <3>2, TaskSummary
  <2>4. CASE faults # 0
    BY <2>2, <2>4 DEF SummaryInv
  <2> QED BY <2>3, <2>4
<1>2. ASSUME NEW t \in Tasks, NEW address, NEW l, Continue(t, address, l)
      PROVE  SummaryInv'
  <2>1. task'[t].pc = "read"
    BY <1>2 DEF Continue, DocumentsInv, Kinds, NoTask
  <2>2. UNCHANGED faults
    BY <1>2 DEF Continue
  <2> QED BY <2>1, <2>2, TaskSummary DEF Settled
<1> QED BY <1>1, <1>2 DEF Start

\* A task that moves on is at the label it moves to.
LEMMA GotoLabel ==
  ASSUME DocumentsInv, NEW t \in Tasks, NEW label, Goto(t, label)
  PROVE  task'[t].pc = label /\ task'[t].kind = task[t].kind
BY DEF Goto, DocumentsInv, Kinds, TaskStands, TaskFields

\* A step between settled labels of the only task, or to an unsettled one.
LEMMA SettledSummary ==
  ASSUME OneTask, SummaryInv, NEW t \in Tasks, UNCHANGED <<project, faults>>,
         Settled(task'[t]) => Settled(task[t]),
         task'[t].pc \notin {"failing", "reconciled"},
         DOMAIN readings' = DOMAIN readings,
         \A l \in DOMAIN readings : /\ readings'[l].document = readings[l].document
                                    /\ readings'[l].rows = readings[l].rows
  PROVE  SummaryInv'
<1>1. RowsIn(DOMAIN readings)' = RowsIn(DOMAIN readings)
  <2>1. [l \in DOMAIN readings' |-> IF l \in DOMAIN readings' THEN readings'[l].rows ELSE 0]
           = [l \in DOMAIN readings |-> IF l \in DOMAIN readings THEN readings[l].rows ELSE 0]
    OBVIOUS
  <2> QED BY <2>1 DEF RowsIn
<1>2. (SeveralRead' <=> SeveralRead) /\ (Described' <=> Described)
  BY <1>1 DEF SeveralRead, Described
<1>3. CASE faults = 0
  <2>1. Settled(task[t]) => (SeveralRead => Described)
    BY <1>3 DEF SummaryInv
  <2>2. Settled(task'[t]) => (SeveralRead' => Described')
    BY <1>2, <2>1
  <2> QED BY <2>2, TaskSummary
<1>4. CASE faults # 0
  BY <1>4 DEF SummaryInv
<1> QED BY <1>3, <1>4

LEMMA CloseSummary ==
  ASSUME OneTask, DocumentsInv, SummaryInv, NEW t \in Tasks, Close(t) \/ Count(t)
  PROVE  SummaryInv'
<1>1. UNCHANGED <<project, faults>>
  BY DEF Close, Count
<1>2. /\ task'[t].kind = task[t].kind
      /\ \/ task[t].pc = "close" /\ task[t].kind = "extract" /\ task'[t].pc = "count"
         \/ task[t].pc = "count" /\ task[t].kind = "extract" /\ task'[t].pc = "report"
         \/ task[t].pc = "close" /\ task[t].kind # "extract" /\ task'[t].pc = "summary"
         \/ task[t].pc = "count" /\ task[t].kind # "extract" /\ task'[t].pc = "close"
  BY GotoLabel DEF Close, Count
<1>3. /\ DOMAIN readings' = DOMAIN readings
      /\ \A l \in DOMAIN readings : /\ readings'[l].document = readings[l].document
                                    /\ readings'[l].rows = readings[l].rows
  <2>1. CASE Close(t)
    BY <2>1 DEF Close, RunMarked, DocumentsInv, Kinds, Reading
  <2>2. CASE Count(t)
    BY <2>2 DEF Count, Counted, DocumentsInv, Kinds, Reading
  <2> QED BY <2>1, <2>2
<1>4. Settled(task'[t]) => Settled(task[t])
  BY <1>2 DEF Settled
<1> QED BY <1>1, <1>2, <1>3, <1>4, SettledSummary

LEMMA RegisterSummary ==
  ASSUME OneTask, DocumentsInv, SummaryInv, NEW t \in Tasks,
         \/ FindDocument(t) \/ MissDocument(t) \/ InsertDocument(t)
  PROVE  SummaryInv'
<1>1. UNCHANGED <<readings, project, faults>> /\ task[t].pc \in {"register", "insert", "reread"}
  BY DEF FindDocument, MissDocument, InsertDocument
<1>2. task'[t].pc \in {"insert", "open"}
  BY GotoLabel DEF FindDocument, MissDocument, InsertDocument, Registered, DocumentsInv, Kinds,
                   TaskStands, TaskFields
<1>3. Settled(task[t])
  BY <1>1 DEF Settled
<1> QED BY <1>1, <1>2, <1>3, SettledSummary

LEMMA InsertDocumentRaisesSummary ==
  ASSUME OneTask, DocumentsInv, SummaryInv, NEW t \in Tasks, InsertDocumentRaises(t)
  PROVE  SummaryInv'
<1>1. CASE Fault
  BY <1>1, FaultSummary
<1>2. CASE UNCHANGED faults
  <2>1. UNCHANGED <<readings, project>> /\ task[t].pc = "insert"
    BY DEF InsertDocumentRaises
  <2>2. task'[t].pc = "reread"
    BY GotoLabel DEF InsertDocumentRaises
  <2>3. Settled(task[t])
    BY <2>1 DEF Settled
  <2> QED BY <1>2, <2>1, <2>2, <2>3, SettledSummary
<1> QED BY <1>1, <1>2 DEF InsertDocumentRaises, InsertionRaised

LEMMA ReconcileReadSummary ==
  ASSUME OneTask, DocumentsInv, SummaryInv, NEW t \in Tasks, ReconcileRead(t)
  PROVE  SummaryInv'
<1>1. UNCHANGED <<docs, readings, project, faults>>
  BY DEF ReconcileRead
<1>2. RowsIn(DOMAIN readings)' = RowsIn(DOMAIN readings)
  BY <1>1 DEF RowsIn
<1>3. CASE Len(docs) < 2 /\ Goto(t, AfterReconciling(t))
  <2>1. ~ SeveralRead'
    BY <1>1, <1>3, SeveralReadAreSeveral DEF SeveralRead
  <2>2. task'[t].pc = IF task[t].kind = "extract" THEN "close" ELSE "report"
    BY <1>3, GotoLabel DEF AfterReconciling
  <2> QED BY <1>1, <1>2, <2>1, <2>2, TaskSummary
<1>4. CASE Len(docs) >= 2 /\ StatesRead(t, RowsIn(DOMAIN readings))
  <2>1. task'[t].pc = "reconciled" /\ task'[t].total = RowsIn(DOMAIN readings)
    BY <1>4 DEF StatesRead, DocumentsInv, Kinds, TaskStands, TaskFields
  <2> QED BY <1>1, <1>2, <2>1, TaskSummary DEF Settled
<1> QED BY <1>3, <1>4 DEF ReconcileRead

LEMMA ReconcileWriteSummary ==
  ASSUME OneTask, DocumentsInv, SummaryInv, NEW t \in Tasks, ReconcileWrite(t)
  PROVE  SummaryInv'
<1>1. UNCHANGED <<readings, faults>> /\ task[t].pc = "reconciled"
  BY DEF ReconcileWrite
<1>2. task'[t].pc = IF task[t].kind = "extract" THEN "close" ELSE "report"
  BY DEF ReconcileWrite, AfterReconciling, DocumentsInv, Kinds, TaskStands, TaskFields
<1>3. RowsIn(DOMAIN readings)' = RowsIn(DOMAIN readings)
  BY <1>1 DEF RowsIn
<1>4. project'.status = StatusOf(task[t].states) /\ project'.total = task[t].total
  BY DEF ReconcileWrite, DocumentsInv, Kinds
<1>5. project'.status # "done"
  BY <1>4 DEF StatusOf
<1>6. CASE faults = 0
  <2>1. Described'
    BY <1>1, <1>3, <1>4, <1>5, <1>6 DEF SummaryInv, Described
  <2> QED BY <1>1, <1>2, <2>1, TaskSummary
<1>7. CASE faults # 0
  BY <1>1, <1>7 DEF SummaryInv
<1> QED BY <1>6, <1>7

LEMMA TaskStepSummary ==
  ASSUME OneTask, DocumentsInv, SummaryInv, RereadFinds, NEW t \in Tasks, TaskStep(t)
  PROVE  SummaryInv'
<1>1. CASE OpenReading(t)
  <2>1. task'[t].pc = "read" /\ UNCHANGED faults
    BY <1>1 DEF OpenReading, DocumentsInv, Kinds, TaskStands, TaskFields
  <2> QED BY <2>1, TaskSummary DEF Settled
<1>2. CASE ReadWindow(t)
  <2>1. /\ task'[t].pc = IF task[t].kind = "extract" THEN "summary" ELSE "count"
        /\ task'[t].kind = task[t].kind
        /\ UNCHANGED faults
    BY <1>2, GotoLabel DEF ReadWindow
  <2> QED BY <2>1, TaskSummary DEF Settled
<1>3. CASE WriteSummary(t)
  <2>1. task'[t].pc = "reconcile" /\ UNCHANGED faults
    BY <1>3, GotoLabel DEF WriteSummary
  <2> QED BY <2>1, TaskSummary DEF Settled
<1>4. CASE Report(t)
  <2>1. task'[t].pc = "idle" /\ task[t].pc = "report" /\ UNCHANGED <<readings, project, faults>>
    BY <1>4 DEF Report, Leave, NoTask, DocumentsInv, Kinds
  <2>2. CASE faults = 0
    <3>1. SeveralRead => Described
      BY <2>1, <2>2 DEF SummaryInv, Settled
    <3>2. SeveralRead' => Described'
      BY <2>1, <3>1 DEF SeveralRead, Described, RowsIn
    <3> QED BY <2>1, <3>2, TaskSummary
  <2>3. CASE faults # 0
    BY <2>1, <2>3 DEF SummaryInv
  <2> QED BY <2>2, <2>3
<1>5. CASE ExtractionRaises(t) \/ ContinuationRaises(t)
  <2>1. CASE Fault
    BY <2>1, FaultSummary
  <2>2. CASE ~ Fault
    <3>1. faults # 0 /\ UNCHANGED faults
      BY <1>5, <2>2 DEF ExtractionRaises, ContinuationRaises, RereadFinds
    <3> QED BY <3>1 DEF SummaryInv
  <2> QED BY <2>1, <2>2
<1>6. CASE MarkFailed(t)
  <2>1. faults # 0 /\ UNCHANGED faults
    BY <1>6 DEF MarkFailed, SummaryInv
  <2> QED BY <2>1 DEF SummaryInv
<1> QED BY <1>1, <1>2, <1>3, <1>4, <1>5, <1>6, CloseSummary, RegisterSummary,
           InsertDocumentRaisesSummary, ReconcileReadSummary, ReconcileWriteSummary DEF TaskStep

\* Which step leads a task to its second look-up.
LEMMA ToReread ==
  ASSUME DocumentsInv, [Next]_vars, NEW t \in Tasks, task'[t].pc = "reread"
  PROVE  task'[t] = task[t] \/ InsertDocumentRaises(t)
<1>1. DOMAIN task = Tasks /\ DOMAIN task[t] = TaskFields
  BY DEF DocumentsInv, Kinds, TaskStands
<1>2. ASSUME NEW s \in Tasks, NEW address, Extract(s, address) PROVE task'[t] = task[t]
  BY <1>1, <1>2 DEF Extract, NoTask
<1>3. ASSUME NEW s \in Tasks, NEW address, NEW l, Continue(s, address, l)
      PROVE  task'[t] = task[t]
  BY <1>1, <1>3 DEF Continue, NoTask
<1>4. ASSUME NEW s \in Tasks, NEW label, Goto(s, label), label # "reread" \/ s # t
      PROVE  task'[t] = task[t]
  BY <1>1, <1>4 DEF Goto, TaskFields
<1>5. ASSUME NEW s \in Tasks, Leave(s) PROVE task'[t] = task[t]
  BY <1>1, <1>5 DEF Leave, NoTask
<1>6. ASSUME NEW s \in Tasks, NEW d, Registered(s, d) PROVE task'[t] = task[t]
  BY <1>1, <1>6 DEF Registered, TaskFields
<1>7. ASSUME NEW s \in Tasks, OpenReading(s) PROVE task'[t] = task[t]
  BY <1>1, <1>7 DEF OpenReading, TaskFields
<1>8. ASSUME NEW s \in Tasks, ReconcileRead(s) PROVE task'[t] = task[t]
  <2>1. CASE Goto(s, AfterReconciling(s))
    BY <1>4, <2>1 DEF AfterReconciling
  <2>2. CASE StatesRead(s, RowsIn(DOMAIN readings))
    BY <1>1, <2>2 DEF StatesRead, TaskFields
  <2> QED BY <1>8, <2>1, <2>2 DEF ReconcileRead
<1>9. ASSUME NEW s \in Tasks, TaskStep(s)
      PROVE  task'[t] = task[t] \/ InsertDocumentRaises(t)
  <2>1. CASE FindDocument(s) \/ InsertDocument(s)
    BY <1>6, <2>1 DEF FindDocument, InsertDocument
  <2>2. CASE MissDocument(s)
    BY <1>4, <2>2 DEF MissDocument
  <2>3. CASE InsertDocumentRaises(s)
    BY <1>4, <2>3 DEF InsertDocumentRaises
  <2>4. CASE OpenReading(s) \/ ReconcileRead(s)
    BY <1>7, <1>8, <2>4
  <2>5. CASE ReadWindow(s) \/ WriteSummary(s) \/ Close(s) \/ Count(s) \/ ExtractionRaises(s)
    BY <1>4, <2>5 DEF ReadWindow, WriteSummary, Close, Count, ExtractionRaises
  <2>6. CASE Report(s) \/ MarkFailed(s) \/ ContinuationRaises(s)
    BY <1>5, <2>6 DEF Report, MarkFailed, ContinuationRaises
  <2>7. CASE ReconcileWrite(s)
    <3>1. AfterReconciling(s) # "reread"
      BY DEF AfterReconciling
    <3> QED BY <1>1, <2>7, <3>1 DEF ReconcileWrite, TaskFields
  <2> QED BY <1>9, <2>1, <2>2, <2>3, <2>4, <2>5, <2>6, <2>7 DEF TaskStep
<1>10. CASE UNCHANGED task
  BY <1>10
<1>11. Send \/ Review \/ UNCHANGED vars \/ (\E r \in Requests : UploadStep(r)) => UNCHANGED task
  BY DEF Send, SendFiles, Review, AssertRole, CheckSelection, WriteSelection, vars, UploadStep,
         RefuseFile, Deduplicate, StoreFile, StoreRaises, FindRow, MissRow, InsertRow,
         InsertRaises, RegisterRaises
<1> QED BY <1>2, <1>3, <1>9, <1>10, <1>11 DEF Next, Start

\* A failed call is never taken back.
LEMMA FaultsGrow ==
  ASSUME [Next]_vars
  PROVE  UNCHANGED faults \/ Fault
<1>1. ASSUME NEW r \in Requests, UploadStep(r) PROVE UNCHANGED faults \/ Fault
  BY <1>1 DEF UploadStep, RefuseFile, Deduplicate, StoreFile, StoreRaises, FindRow, MissRow,
              InsertRow, InsertRaises, InsertionRaised, RegisterRaises
<1>2. ASSUME NEW t \in Tasks, TaskStep(t) PROVE UNCHANGED faults \/ Fault
  BY <1>2 DEF TaskStep, FindDocument, MissDocument, InsertDocument, InsertDocumentRaises,
              InsertionRaised, OpenReading, ReadWindow, WriteSummary, ReconcileRead,
              ReconcileWrite, Close, Count, Report, ExtractionRaises, MarkFailed,
              ContinuationRaises
<1>3. Send \/ Start \/ Review \/ UNCHANGED vars => UNCHANGED faults
  BY DEF Send, SendFiles, Start, Extract, Continue, Review, AssertRole, CheckSelection,
         WriteSelection, vars
<1> QED BY <1>1, <1>2, <1>3 DEF Next

\* Bytes that have a row keep it, and a path keeps its bytes.
LEMMA RowsStay ==
  ASSUME DocumentsInv, [Next]_vars, NEW p \in Names, object[p] # Nothing,
         RowsOf(object[p]) # {}
  PROVE  object'[p] = object[p] /\ \E d \in DOMAIN docs' : docs'[d].content = object'[p]
<1> DEFINE c == object[p]
<1>1. PICK d \in DOMAIN docs : docs[d].content = c
  BY DEF RowsOf
<1>2. docs \in Seq(Doc) /\ object \in [Names -> Contents \union {Nothing}]
  BY DEF DocumentsInv, Kinds
<1>3. /\ object'[p] = c
      /\ d \in DOMAIN docs' /\ docs'[d].content = c
  <2>1. CASE UNCHANGED <<object, docs>>
    BY <1>1, <2>1
  <2>2. ASSUME NEW q \in Names, NEW b \in Contents, Stores(q, b)
        PROVE  object'[p] = c /\ UNCHANGED docs
    BY <1>2, <2>2 DEF Stores
  <2>3. ASSUME NEW q \in Names, NEW b \in Contents, Registers(b, q)
        PROVE  object'[p] = c /\ d \in DOMAIN docs' /\ docs'[d] = docs[d]
    BY <1>2, <2>3, InsertionEffect DEF Registers
  <2>4. ASSUME NEW e \in DOMAIN docs, NEW new \in Doc, Reviewed(e, new)
        PROVE  object'[p] = c /\ d \in DOMAIN docs' /\ docs'[d].content = docs[d].content
    BY <1>2, <2>4 DEF Reviewed
  <2> QED BY <1>1, <2>1, <2>2, <2>3, <2>4, StepKinds
<1> QED BY <1>3

LEMMA NextReread ==
  ASSUME DocumentsInv, faults \in Nat, RereadFinds, [Next]_vars
  PROVE  RereadFinds'
<1> SUFFICES ASSUME faults' = 0, NEW t \in Tasks, task'[t].pc = "reread"
             PROVE  RowsOf(Bytes(t))' # {}
  BY DEF RereadFinds
<1>1. faults = 0 /\ ~ Fault
  BY FaultsGrow DEF Fault
<1>2. task'[t].path = task[t].path /\ task[t].pc \in Registering /\ RowsOf(Bytes(t)) # {}
  <2>1. CASE task'[t] = task[t]
    BY <1>1, <2>1 DEF RereadFinds, Registering
  <2>2. CASE InsertDocumentRaises(t)
    <3>1. task'[t].path = task[t].path
      BY <2>2 DEF InsertDocumentRaises, Goto, DocumentsInv, Kinds, TaskStands, TaskFields
    <3> QED BY <1>1, <2>2, <3>1 DEF InsertDocumentRaises, InsertionRaised, Registering
  <2> QED BY <2>1, <2>2, ToReread
<1>3. task[t].path \in Names /\ object[task[t].path] # Nothing
  BY <1>2, TaskBytes, NothingAssumption DEF Bytes
<1>4. \E e \in DOMAIN docs' : docs'[e].content = object'[task[t].path]
  BY <1>2, <1>3, RowsStay DEF Bytes
<1>5. RowsOf(Bytes(t))' = {e \in DOMAIN docs' : docs'[e].content = object'[task'[t].path]}
  BY DEF RowsOf, Bytes
<1> QED BY <1>2, <1>4, <1>5

LEMMA NextSummary ==
  ASSUME OneTask, DocumentsInv, SummaryInv, RereadFinds, [Next]_vars
  PROVE  SummaryInv'
<1>1. CASE Send
  BY <1>1, AsideSummary DEF Send, SendFiles
<1>2. ASSUME NEW r \in Requests, UploadStep(r) PROVE SummaryInv'
  <2>1. UNCHANGED <<readings, project, task>> /\ (UNCHANGED faults \/ Fault)
    BY <1>2 DEF UploadStep, RefuseFile, Deduplicate, StoreFile, StoreRaises, FindRow, MissRow,
                InsertRow, InsertRaises, InsertionRaised, RegisterRaises
  <2> QED BY <2>1, AsideSummary, FaultSummary
<1>3. CASE Review
  BY <1>3, AsideSummary DEF Review, AssertRole, CheckSelection, WriteSelection
<1>4. CASE UNCHANGED vars
  BY <1>4, AsideSummary DEF vars
<1> QED BY <1>1, <1>2, <1>3, <1>4, StartSummary, TaskStepSummary DEF Next

\* Documents that are not several are counted as one at most.
LEMMA OneReadCounts ==
  ASSUME ~ SeveralRead
  PROVE  ~ (Cardinality({readings[l].document : l \in DOMAIN readings}) > 1)
<1> DEFINE S == {readings[l].document : l \in DOMAIN readings}
<1>1. \A x, y \in S : x = y
  BY DEF SeveralRead
<1> HIDE DEF S
<1>2. CASE S = {}
  BY <1>2, FS_EmptySet DEF S
<1>3. CASE S # {}
  <2>1. PICK x : S = {x}
    BY <1>1, <1>3
  <2>2. Cardinality(S) = 1
    BY <2>1, FS_Singleton
  <2> QED BY <2>2 DEF S
<1> QED BY <1>2, <1>3

(* With one task at a time and no failing call, a project of which several   *)
(* documents were read counts the rows of all their readings and is never   *)
(* "done", in any order of uploads, readings, continuations and reviews.    *)
THEOREM SummaryIsOfTheSet ==
  ASSUME OneTask
  PROVE  Spec => []SummaryDescribesTheSet
<1>1. DocumentsInv /\ SummaryInv /\ RereadFinds /\ [Next]_vars => SummaryInv' /\ RereadFinds'
  BY NextSummary, NextReread DEF SummaryInv
<1>2. Init => RereadFinds
  BY DEF Init, NoTask, RereadFinds
<1>3. SummaryInv => SummaryDescribesTheSet
  <2> SUFFICES ASSUME SummaryInv, faults = 0, AtRest,
                      Cardinality({readings[l].document : l \in DOMAIN readings}) > 1
               PROVE  project.total = RowsIn(DOMAIN readings) /\ project.status # "done"
    BY DEF SummaryDescribesTheSet
  <2>1. SeveralRead
    BY OneReadCounts
  <2> QED BY <2>1 DEF OneTask, AtRest, SummaryInv, Settled, Described
<1> QED BY <1>1, <1>2, <1>3, InitSummary, Invariance, PTL DEF Spec
=============================================================================
