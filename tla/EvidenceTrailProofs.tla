------------------------- MODULE EvidenceTrailProofs -------------------------
(***************************************************************************)
(* What a citation shows and what a conflict survives, for every drawing,  *)
(* every reading of its pages and every sequence of citations: CitedIsOwn  *)
(* and ConflictStands of EvidenceTrail.                                    *)
(***************************************************************************)
EXTENDS EvidenceTrail, TLAPS

SpecTrail == InitTrail /\ [][NextTrail]_trailVars

\* A run reads a page at most once.
ReadOnce ==
    \A c, d \in captures : c.page = d.page /\ c.run = d.run => c = d

\* An item that records a position was made of the entry there; one that does
\* not records no run either.
OriginIsOwn ==
    item # Unstated =>
        IF item.index = Unstated THEN item.run = Unstated
        ELSE \E c \in captures :
                /\ c.page = item.page /\ c.run = item.run
                /\ item.index \in DOMAIN c.entries
                /\ c.entries[item.index] = item.madeOf

TrailInv ==
    /\ ReadOnce
    /\ OriginIsOwn
    /\ \A c \in captures : c.entries \in Readable
    /\ citations \in Seq(Citable)
    /\ item = Unstated => citations = <<>>

-----------------------------------------------------------------------------
(* TrailInv is inductive.                                                   *)

LEMMA TrailInit == InitTrail => TrailInv
  BY DEF InitTrail, TrailInv, ReadOnce, OriginIsOwn

LEMMA TrailNext == TrailInv /\ [NextTrail]_trailVars => TrailInv'
<1> SUFFICES ASSUME TrailInv, [NextTrail]_trailVars PROVE TrailInv'
  OBVIOUS
<1> USE DEF TrailInv
<1>1. ASSUME NEW page \in Pages, NEW run \in Runs, NEW entries \in Readable,
             RecordReading(page, run, entries)
      PROVE TrailInv'
  <2> DEFINE new == [page |-> page, run |-> run, entries |-> entries]
  <2>1. captures' = captures \union {new}
    BY <1>1 DEF RecordReading
  <2>2. ReadOnce'
    BY <1>1, <2>1 DEF RecordReading, ReadOnce
  <2>3. OriginIsOwn'
    BY <1>1, <2>1 DEF RecordReading, OriginIsOwn
  <2>4. \A c \in captures' : c.entries \in Readable
    BY <2>1
  <2> QED BY <1>1, <2>2, <2>3, <2>4 DEF RecordReading
<1>2. ASSUME NEW capture \in captures, NEW runKnown \in BOOLEAN,
             NEW i \in DOMAIN capture.entries, MakeItem(capture, i, runKnown)
      PROVE TrailInv'
  <2>1. i # Unstated
    BY <1>2, TrailAssumption
  <2>2. /\ item'.page = capture.page /\ item'.madeOf = capture.entries[i]
        /\ item'.run = Origin(capture, i, runKnown).run
        /\ item'.index = Origin(capture, i, runKnown).index
    BY <1>2 DEF MakeItem
  <2>3. OriginIsOwn'
    <3>1. CASE runKnown
      BY <1>2, <2>1, <2>2, <3>1 DEF MakeItem, Origin, OriginIsOwn
    <3>2. CASE ~runKnown
      BY <1>2, <2>2, <3>2 DEF Origin, OriginIsOwn
    <3> QED BY <3>1, <3>2
  <2>4. citations' = <<>>
    BY <1>2 DEF MakeItem
  <2> QED BY <1>2, <2>3, <2>4 DEF MakeItem, ReadOnce
<1>3. ASSUME NEW citation \in Citable, Cite(citation)
      PROVE TrailInv'
  BY <1>3 DEF Cite, ReadOnce, OriginIsOwn
<1>4. ASSUME NEW field \in {c.field : c \in Citable}, NEW fact \in {"provenance", "answer"},
             Give(field, fact)
      PROVE TrailInv'
  BY <1>4 DEF Give, ReadOnce, OriginIsOwn
<1>5. CASE UNCHANGED trailVars
  BY <1>5 DEF trailVars, ReadOnce, OriginIsOwn
<1> QED BY <1>1, <1>2, <1>3, <1>4, <1>5 DEF NextTrail

LEMMA TrailInvariant == SpecTrail => []TrailInv
  BY TrailInit, TrailNext, PTL DEF SpecTrail

-----------------------------------------------------------------------------
(* The evidence beside a question.                                          *)

\* Where a run has read a page, the reading cited is that one.
LEMMA CitedReadingIs ==
  ASSUME ReadOnce, NEW c \in captures
  PROVE  /\ CitedReading(c.page, c.run) = {c}
         /\ EntriesAt(c.page, c.run) = c.entries
<1>1. CitedReading(c.page, c.run) = {c}
  BY DEF ReadOnce, CitedReading, ReadingsOf
<1> QED BY <1>1 DEF EntriesAt

LEMMA NoRunNoEntry ==
  ASSUME NEW page, ByProvenance(page, Unstated).reason = "RESOLVED"
  PROVE  FALSE
<1>1. AtAddress(page, Unstated) \in {"EVIDENCE_PAGE_ABSENT", "EVIDENCE_RUN_ABSENT"}
  BY DEF AtAddress
<1>2. ByProvenance(page, Unstated).reason = AtAddress(page, Unstated)
  BY <1>1 DEF ByProvenance, Refused
<1> QED BY <1>1, <1>2

LEMMA CitedIsOwnHolds == TrailInv => CitedIsOwn
<1> SUFFICES ASSUME TrailInv, item # Unstated, AtRecordedAddress.reason = "RESOLVED"
             PROVE  AtRecordedAddress.entry = item.madeOf
  BY DEF CitedIsOwn, RecordedReadings, TaskReading
<1> USE DEF TrailInv, OriginIsOwn
<1>1. CASE item.index = Unstated
  <2>1. AtRecordedAddress = ByProvenance(item.page, Unstated)
    BY <1>1 DEF AtRecordedAddress
  <2> QED BY <2>1, NoRunNoEntry
<1>2. CASE item.index # Unstated
  <2>1. PICK c \in captures : /\ c.page = item.page /\ c.run = item.run
                              /\ item.index \in DOMAIN c.entries
                              /\ c.entries[item.index] = item.madeOf
    BY <1>2
  <2>2. EntriesAt(item.page, item.run) = c.entries
    BY <2>1, CitedReadingIs
  <2>3. CASE AtAddress(item.page, item.run) = "READ"
    BY <1>2, <2>1, <2>2, <2>3 DEF AtRecordedAddress, Resolved
  <2>4. CASE AtAddress(item.page, item.run) # "READ"
    <3>1. AtRecordedAddress = Refused(AtAddress(item.page, item.run))
      BY <1>2, <2>4 DEF AtRecordedAddress
    <3>2. AtAddress(item.page, item.run) # "RESOLVED"
      BY DEF AtAddress
    <3> QED BY <3>1, <3>2 DEF Refused
  <2> QED BY <2>3, <2>4
<1> QED BY <1>1, <1>2

(* The evidence shown beside a question is the entry the item was made of,  *)
(* whatever runs read its page before or after.                             *)
THEOREM EvidenceIsOwn == SpecTrail => []CitedIsOwn
  BY TrailInvariant, CitedIsOwnHolds, PTL

-----------------------------------------------------------------------------
(* A conflict.                                                              *)

\* A step keeps what was cited, and what was found at a cited address.
LEMMA FoundStaysFound ==
  ASSUME TrailInv, TrailInv', NextTrail,
         NEW i \in DOMAIN citations, OutcomeOf(i).reason = "RESOLVED"
  PROVE  /\ i \in DOMAIN citations' /\ citations'[i] = citations[i]
         /\ OutcomeOf(i)' = OutcomeOf(i)
<1> USE DEF TrailInv
<1>1. item # Unstated
  OBVIOUS
<1> DEFINE page == citations[i].page
           run  == citations[i].run
<1>2. AtAddress(page, run) = "READ"
  <2>1. AtAddress(page, run) # "RESOLVED"
    BY DEF AtAddress
  <2> QED BY <2>1 DEF OutcomeOf, ByProvenance, Refused
<1>3. PICK c \in captures : c.page = page /\ c.run = run
  BY <1>2 DEF AtAddress, CitedReading, ReadingsOf
<1>4. EntriesAt(page, run) = c.entries /\ CitedReading(page, run) = {c}
  BY <1>3, CitedReadingIs
<1>5. item' = item
  BY <1>1 DEF NextTrail, RecordReading, MakeItem, Cite, Give
<1>6. captures \subseteq captures'
  BY DEF NextTrail, RecordReading, MakeItem, Cite, Give
<1>7. i \in DOMAIN citations' /\ citations'[i] = citations[i]
  BY DEF NextTrail, RecordReading, MakeItem, Cite, Give
<1>8. EntriesAt(page, run)' = EntriesAt(page, run)
      /\ CitedReading(page, run)' = CitedReading(page, run)
  <2>1. CitedReading(page, run)' = {c}
    BY <1>3, <1>6, <1>7 DEF ReadOnce, CitedReading, ReadingsOf
  <2> QED BY <2>1, <1>4, <1>7 DEF EntriesAt
<1>9. AtAddress(page, run)' = "READ"
  <2>1. ReadingsOf(page)' # {}
    BY <1>3, <1>6, <1>7 DEF ReadingsOf
  <2> QED BY <2>1, <1>2, <1>4, <1>7, <1>8 DEF AtAddress
<1>10. \A entry : Matches(entry, page)' = Matches(entry, page)
  BY <1>5, <1>7 DEF Matches
<1>11. ByProvenance(page, run)' = ByProvenance(page, run)
  BY <1>2, <1>7, <1>8, <1>9, <1>10 DEF ByProvenance
<1> QED BY <1>7, <1>11 DEF OutcomeOf

LEMMA DisagreementStays ==
  ASSUME TrailInv, TrailInv', NextTrail, NEW field, Disagrees(field)
  PROVE  Disagrees(field)'
<1>1. PICK i \in ComparedOf(field), j \in ComparedOf(field) : ValueOf(i) # ValueOf(j)
  BY DEF Disagrees
<1>2. ASSUME NEW k \in ComparedOf(field)
      PROVE  k \in ComparedOf(field)' /\ ValueOf(k)' = ValueOf(k)
  <2>1. k \in DOMAIN citations /\ citations[k].field = field /\ ValueOf(k) # Illegible
    BY DEF ComparedOf, CitationsOf
  <2>2. OutcomeOf(k).reason = "RESOLVED"
    BY <2>1 DEF ValueOf
  <2>3. k \in DOMAIN citations' /\ citations'[k] = citations[k] /\ OutcomeOf(k)' = OutcomeOf(k)
    BY <2>1, <2>2, FoundStaysFound
  <2>4. ValueOf(k)' = ValueOf(k)
    BY <2>3 DEF ValueOf
  <2> QED BY <2>1, <2>3, <2>4 DEF ComparedOf, CitationsOf
<1> QED BY <1>1, <1>2 DEF Disagrees

LEMMA ConflictStandsStep ==
  ASSUME TrailInv, TrailInv', [NextTrail]_trailVars,
         NEW field \in ReconciliationFields, FieldStates[field] = "CONFLICTED"
  PROVE  FieldStates'[field] \in {"CONFLICTED", "HUMAN_RESOLVED", "RAISED"}
<1>1. FieldStates[field] = FieldState(field) /\ FieldStates'[field] = FieldState(field)'
  BY DEF FieldStates
<1>2. CASE UNCHANGED trailVars
  <2>1. captures' = captures /\ item' = item /\ citations' = citations /\ human' = human
    BY <1>2 DEF trailVars
  <2>2. \A i : OutcomeOf(i)' = OutcomeOf(i)
    <3>1. \A page, run : /\ AtAddress(page, run)' = AtAddress(page, run)
                         /\ EntriesAt(page, run)' = EntriesAt(page, run)
      BY <2>1 DEF AtAddress, EntriesAt, CitedReading, ReadingsOf
    <3>2. \A page, entry : Matches(entry, page)' = Matches(entry, page)
      BY <2>1 DEF Matches
    <3>3. ASSUME NEW page, NEW run
          PROVE  ByProvenance(page, run)' = ByProvenance(page, run)
      <4>1. /\ AtAddress(page, run)' = AtAddress(page, run)
            /\ EntriesAt(page, run)' = EntriesAt(page, run)
            /\ \A entry : Matches(entry, page)' = Matches(entry, page)
        BY <3>1, <3>2
      <4> QED BY <4>1 DEF ByProvenance
    <3> QED BY <2>1, <3>3 DEF OutcomeOf
  <2>3. CitationsOf(field)' = CitationsOf(field) /\ \A i : ValueOf(i)' = ValueOf(i)
    BY <2>1, <2>2 DEF CitationsOf, ValueOf
  <2>4. Disagrees(field)' = Disagrees(field)
    BY <2>3 DEF Disagrees, ComparedOf
  <2>5. RecordedState(field)' = RecordedState(field)
    BY <2>1, <2>3 DEF RecordedState, IsHumanResolved, EvidenceStanding
  <2> QED BY <1>1, <2>2, <2>3, <2>4, <2>5 DEF FieldState
<1>3. CASE NextTrail
  <2>1. RecordedState(field) # "CONFLICTED"
    BY DEF RecordedState, EvidenceStanding
  <2>2. Disagrees(field)
    BY <1>1, <2>1 DEF FieldState
  <2>3. Disagrees(field)'
    BY <1>3, <2>2, DisagreementStays
  <2> QED BY <1>1, <2>3 DEF FieldState
<1> QED BY <1>2, <1>3

(* A disagreement between two readings ends in a human decision or in an    *)
(* error that says so, and in nothing else.                                 *)
THEOREM ConflictsStand == SpecTrail => ConflictStands
<1>1. TrailInv /\ TrailInv' /\ [NextTrail]_trailVars
      => [\A field \in ReconciliationFields :
            FieldStates[field] = "CONFLICTED" =>
               FieldStates'[field] \in {"CONFLICTED", "HUMAN_RESOLVED", "RAISED"}]_trailVars
  BY ConflictStandsStep
<1> QED BY <1>1, TrailInvariant, PTL DEF SpecTrail, ConflictStands
=============================================================================
