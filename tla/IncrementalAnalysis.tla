------------------------ MODULE IncrementalAnalysis ------------------------
(***************************************************************************)
(* The accumulated evidence of a drawing set that is read in slices:       *)
(* begin_incremental_analysis, continue_incremental_analysis and the       *)
(* intake that turns the accumulated pages into connection candidates.     *)
(*                                                                         *)
(* A page is its number, whether it parsed, the drawing title and drawing  *)
(* number recorded on it and its connection entries in order.  The evidence *)
(* digest is modelled as the pages it was computed over: equal digests,    *)
(* equal evidence.                                                         *)
(***************************************************************************)
EXTENDS Naturals, Sequences, FiniteSets

CONSTANTS
    First, Count,   \* the declared universe of page numbers
    Slices,         \* captures a caller may hand over: sequences of pages
    Unusable,       \* a connection entry that is not a record
    Untitled,       \* no drawing title recorded
    Unnumbered      \* no drawing number recorded

ASSUME UniverseAssumption == First \in Nat \ {0} /\ Count \in Nat /\ First <= Count
ASSUME SlicesAssumption ==
    \A slice \in Slices :
        /\ slice \in Seq({slice[i] : i \in DOMAIN slice})
        /\ \A i \in DOMAIN slice :
              LET entries == slice[i].entries
              IN  /\ slice[i].failed \in BOOLEAN
                  /\ entries \in Seq({entries[k] : k \in DOMAIN entries})

VARIABLES
    accumulated,    \* the AccumulatedAnalysis a caller carries on from
    captured        \* every page of every slice that was accepted

NoAnalysis == [pages |-> <<>>]      \* nothing accumulated yet

Universe == First..Count
NumbersOf(pages) == {pages[i].number : i \in DOMAIN pages}
TitlesOf(pages) == {pages[i].title : i \in DOMAIN pages} \ {Untitled}
PagesOf(pages) == {pages[i] : i \in DOMAIN pages}

Lowest(S) == CHOOSE n \in S : \A k \in S : n <= k

-----------------------------------------------------------------------------
(* Slices. *)

NoDuplicates(pages) ==
    \A i, j \in DOMAIN pages : pages[i].number = pages[j].number => i = j

SliceIsValid(pages) ==
    /\ pages # <<>>
    /\ NumbersOf(pages) \subseteq Universe
    /\ NoDuplicates(pages)
    /\ \A i \in DOMAIN pages : pages[i].failed => pages[i].entries = <<>>

\* combine_page_extractions, given the slice's declared range.
Combines(prior, new, first, last) ==
    /\ first <= last
    /\ NoDuplicates(prior)
    /\ NoDuplicates(new)
    /\ NumbersOf(new) \intersect NumbersOf(prior) = {}
    /\ NumbersOf(new) \subseteq first..last

NotAnalysedAfterLast(pages) ==          \* mutant: a gap is taken as read
    {n \in Universe : \A i \in DOMAIN pages : pages[i].number < n}

NotAnalysedOf(pages) == Universe \ NumbersOf(pages)

\* The accumulation over these pages: its digest and its accounting.
Accumulation(pages) ==
    [pages       |-> pages,
     digest      |-> pages,
     analysed    |-> {pages[i].number : i \in {j \in DOMAIN pages : ~pages[j].failed}},
     failed      |-> {pages[i].number : i \in {j \in DOMAIN pages : pages[j].failed}},
     notAnalysed |-> NotAnalysedOf(pages)]

-----------------------------------------------------------------------------
(* The intake: one candidate per usable entry, in page order and then in   *)
(* entry order; a candidate's review package id is its position.           *)

UsableEntries(page) ==
    LET usable == {i \in DOMAIN page.entries : page.entries[i] # Unusable}
        nth[n \in 1..Cardinality(usable)] ==
            CHOOSE i \in usable : Cardinality({j \in usable : j <= i}) = n
    IN  [n \in 1..Cardinality(usable) |->
            [page |-> page.number, position |-> nth[n], entry |-> page.entries[nth[n]]]]

EntriesByPage(pages) ==                 \* mutant: entries in page-number order
    LET onPage(n) == {i \in DOMAIN pages : pages[i].number = n}
        upTo[n \in 0..Count] ==
            IF n = 0 THEN <<>>
            ELSE IF onPage(n) = {} THEN upTo[n - 1]
            ELSE upTo[n - 1] \o UsableEntries(pages[CHOOSE i \in onPage(n) : TRUE])
    IN  upTo[Count]

ReadEntries(pages) ==
    LET upTo[n \in 0..Len(pages)] ==
            IF n = 0 THEN <<>> ELSE upTo[n - 1] \o UsableEntries(pages[n])
    IN  upTo[Len(pages)]

\* The number of the set is the one recorded on the page numbered 1, if that
\* page was read; every candidate carries it, whatever page it is from.
DrawingNumberOf(pages) ==
    LET ones == {i \in DOMAIN pages : pages[i].number = 1}
    IN  IF ones = {} THEN Unnumbered ELSE pages[Lowest(ones)].drawing

CandidatesOf(pages) ==
    LET read == ReadEntries(pages)
    IN  [n \in DOMAIN read |->
            [page |-> read[n].page, position |-> read[n].position, entry |-> read[n].entry,
             drawing |-> DrawingNumberOf(pages)]]

\* The entry a candidate was made of.
EntryOf(candidate) ==
    [page |-> candidate.page, position |-> candidate.position, entry |-> candidate.entry]

Intake(pages) ==
    [pages       |-> pages,
     candidates  |-> CandidatesOf(pages),
     analysed    |-> Accumulation(pages).analysed,
     failed      |-> Accumulation(pages).failed,
     count       |-> Count,
     notAnalysed |-> IF Count < Len(pages) THEN 0 ELSE Count - Len(pages)]

\* preservation_proof, which raises unless every earlier candidate is as it
\* was, the drawing number it carries included.
Preserves(before, after) ==
    /\ Len(before) <= Len(after)
    /\ \A i \in DOMAIN before : after[i] = before[i]

-----------------------------------------------------------------------------
(* The analysis that is reported of a further slice: which candidates it    *)
(* adds, and that every candidate is traced to an entry.  Entries are       *)
(* re-wrapped with the drawing number the candidates carry, so page and     *)
(* entry tell them apart.                                                   *)

EntryExpectations(pages) ==
    UNION {{[page |-> pages[i].number, position |-> k, entry |-> pages[i].entries[k]] :
               k \in {k \in DOMAIN pages[i].entries : pages[i].entries[k] # Unusable}} :
            i \in DOMAIN pages}

SameReading(a, b) == a.page = b.page /\ a.entry = b.entry

\* Candidates and usable entries are the same, each as often.
ProvenanceVerified(pages, candidates) ==
    \A reading \in EntryExpectations(pages) \union PagesOf(candidates) :
        Cardinality({x \in EntryExpectations(pages) : SameReading(x, reading)})
           = Cardinality({n \in DOMAIN candidates : SameReading(candidates[n], reading)})

\* Of entries that read alike the last that is left is paired.
PairedPosition(pages, candidates, n) ==
    LET alike == {x.position : x \in {x \in EntryExpectations(pages) : SameReading(x, candidates[n])}}
        earlier == {m \in 1..(n - 1) : SameReading(candidates[m], candidates[n])}
    IN  CHOOSE p \in alike : Cardinality({q \in alike : q > p}) = Cardinality(earlier)

NewCandidates(pages, new) ==
    LET candidates == CandidatesOf(pages)
    IN  {[id |-> n, page |-> candidates[n].page, position |-> PairedPosition(pages, candidates, n)] :
            n \in {n \in DOMAIN candidates : candidates[n].page \in NumbersOf(new)}}

AnalyzeIncremental(prior, new) ==
    LET pages == prior \o new
    IN  [preserved |-> Preserves(CandidatesOf(prior), CandidatesOf(pages)),
         verified  |-> ProvenanceVerified(pages, CandidatesOf(pages)),
         added     |-> NewCandidates(pages, new)]

-----------------------------------------------------------------------------

IsSoundAsCounted(analysis) ==           \* mutant: the digest is not compared
    Len(analysis.digest) = Len(analysis.pages) /\ SliceIsValid(analysis.pages)

\* _validate_accumulated
IsSound(analysis) == analysis.digest = analysis.pages /\ SliceIsValid(analysis.pages)

ContinuationAccepted(analysis, new, expected) ==
    /\ IsSound(analysis)
    /\ analysis.notAnalysed # {}
    /\ expected = Lowest(analysis.notAnalysed)
    /\ SliceIsValid(new)
    /\ expected <= new[1].number
    /\ \/ TitlesOf(analysis.pages) = {}
       \/ TitlesOf(new) = {}
       \/ TitlesOf(analysis.pages) \intersect TitlesOf(new) # {}
    /\ Combines(analysis.pages, new, new[1].number, new[Len(new)].number)

Begin(slice) ==
    /\ accumulated = NoAnalysis
    /\ SliceIsValid(slice)
    /\ accumulated' = Accumulation(slice)
    /\ captured' = captured \union PagesOf(slice)

Continue(slice, expected) ==
    /\ accumulated # NoAnalysis
    /\ ContinuationAccepted(accumulated, slice, expected)
    /\ accumulated' = Accumulation(accumulated.pages \o slice)
    /\ captured' = captured \union PagesOf(slice)

\* The page records are a list the caller holds: one is changed under the
\* accumulation's hands, or the last is taken away.
Tamper ==
    /\ accumulated # NoAnalysis
    /\ IsSound(accumulated)
    /\ \/ \E i \in DOMAIN accumulated.pages :
            /\ ~accumulated.pages[i].failed
            /\ accumulated' = [accumulated EXCEPT !.pages[i].entries = Append(@, Unusable)]
       \/ /\ Len(accumulated.pages) > 1
          /\ accumulated' = [accumulated EXCEPT !.pages = SubSeq(@, 1, Len(@) - 1)]
    /\ UNCHANGED captured

InitAnalysis == accumulated = NoAnalysis /\ captured = {}

NextAnalysis ==
    \/ \E slice \in Slices : Begin(slice)
    \/ \E slice \in Slices, expected \in Universe : Continue(slice, expected)
    \/ Tamper

-----------------------------------------------------------------------------
(* Properties. *)

(* "Every page of the declared universe is in exactly one of ANALYSED,     *)
(* PARSE_FAILED and NOT_ANALYSED" (incremental_continuation.py:17), over   *)
(* slices that leave gaps, fill them and come in any order.                *)
EveryPageAccounted ==
    accumulated # NoAnalysis =>
        /\ accumulated.analysed \intersect accumulated.failed = {}
        /\ accumulated.notAnalysed =
              Universe \ (accumulated.analysed \union accumulated.failed)
        /\ Cardinality(accumulated.analysed) + Cardinality(accumulated.failed)
              = Len(accumulated.digest)

(* "every prior candidate must appear unchanged at the head of the combined *)
(* queue" (incremental_analysis.py:413-415): over slices in any order the    *)
(* candidates of the earlier pages keep their review package ids and their  *)
(* entries, those of the slice follow them, and each is traced to one entry *)
(* of its page, no two to the same.  The proof of it raises in one case     *)
(* only: page 1 comes after others and gives their candidates the number of *)
(* the drawing.                                                             *)
NumbersTheSet(slice) == \E i \in DOMAIN slice : slice[i].number = 1 /\ slice[i].drawing # Unnumbered

EvidenceFollows(prior, pages) ==
    LET slice == SubSeq(pages, Len(prior) + 1, Len(pages))
        result == AnalyzeIncremental(prior, slice)
        before == CandidatesOf(prior)
        after == CandidatesOf(pages)
    IN  /\ \A n \in DOMAIN before : n \in DOMAIN after /\ EntryOf(after[n]) = EntryOf(before[n])
        /\ result.preserved <=> before = <<>> \/ ~NumbersTheSet(slice)
        /\ result.verified
        /\ {new.id : new \in result.added} = (Len(before) + 1)..Len(after)
        /\ \A a, b \in result.added : a.page = b.page /\ a.position = b.position => a = b

EarlierEvidenceKept ==
    [][accumulated # NoAnalysis /\ accumulated'.digest # accumulated.digest =>
         EvidenceFollows(accumulated.digest, accumulated'.digest)]_accumulated
=============================================================================
