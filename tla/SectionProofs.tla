---------------------------- MODULE SectionProofs ----------------------------
(***************************************************************************)
(* What becomes of a section that a drawing states, for every catalogue,   *)
(* every sequence of entries and every order of decisions: ConfirmedIsAgreed *)
(* of MemberValidation and DeliveredIsChosen of ConflictDelivery.          *)
(***************************************************************************)
EXTENDS MemberValidation, ConflictDelivery, FiniteSetTheorems, WellFoundedInduction, TLAPS

SpecValidation == InitValidation /\ [][NextValidation]_validationVars
SpecDelivery == InitDelivery /\ [][NextDelivery]_deliveryVars

-----------------------------------------------------------------------------
(* Sets of positions and of readings. *)

\* A non-empty set of positions has a first one.
LEMMA FirstExists ==
  ASSUME NEW group \in SUBSET Nat, group # {}
  PROVE  FirstOf(group) \in group
<1>1. IsWellFoundedOn(OpToRel(<, Nat), Nat)
  BY NatLessThanWellFounded
<1>2. PICK i \in group : \A j \in group : ~ (<<j, i>> \in OpToRel(<, Nat))
  BY <1>1, WFMin
<1>3. \A j \in group : ~ (j < i)
  BY <1>2 DEF OpToRel
<1>4. \A j \in group : i <= j
  BY <1>3
<1> QED BY <1>4 DEF FirstOf

\* The values of a function on finitely many positions.
LEMMA FiniteImage ==
  ASSUME NEW S, IsFiniteSet(S), NEW f, DOMAIN f = S
  PROVE  IsFiniteSet({f[i] : i \in S})
<1> DEFINE T == {f[i] : i \in S}
           g == [i \in S |-> f[i]]
<1>1. g \in Surjection(S, T)
  BY DEF Surjection
<1> QED BY <1>1, FS_Surjection

\* A finite set of at most one element has no two.
LEMMA NoTwo ==
  ASSUME NEW S, IsFiniteSet(S), Cardinality(S) <= 1, NEW a \in S, NEW b \in S
  PROVE  a = b
<1> SUFFICES ASSUME a # b PROVE FALSE
  OBVIOUS
<1>1. IsFiniteSet({a}) /\ Cardinality({a}) = 1
  BY FS_Singleton
<1>2. Cardinality({a} \union {b}) = 2
  BY <1>1, FS_AddElement
<1>3. Cardinality({a} \union {b}) <= Cardinality(S) /\ Cardinality(S) \in Nat
  BY FS_Subset, FS_CardinalityType
<1> QED BY <1>2, <1>3

-----------------------------------------------------------------------------
(* Looking up one section. *)

\* An exact match is a row of the table and the very section that was stated;
\* a section of the table always matches exactly.
LEMMA ExactIsStated ==
  ASSUME NEW table \in Catalogues, NEW section, section # NoSection
  PROVE  Resolve(section, table).resolution = "EXACT_MATCH"
            <=> (section \in table /\ Resolve(section, table).row = section)
<1>1. NoSection \notin table
  BY CatalogueAssumption
<1>2. CASE section \in table
  BY <1>2 DEF Resolve, Candidate
<1>3. CASE section \notin table
  <2>1. Candidate(section, table) # section
    <3>1. CASE section.decimal = Bare /\ NamedAlike(section, table) # {}
      <4>1. PICK t \in table : t.size = section.size /\ t.decimal # Bare
        BY <3>1 DEF NamedAlike
      <4>2. NamedAlike(t, table) = NamedAlike(section, table)
        BY <4>1 DEF NamedAlike
      <4>3. \E s \in NamedAlike(section, table) :
               \A other \in NamedAlike(section, table) : s.decimal <= other.decimal
        BY <4>1, <4>2, CatalogueAssumption
      <4>4. Candidate(section, table) \in NamedAlike(section, table)
        BY <1>3, <3>1, <4>3 DEF Candidate
      <4> QED BY <3>1, <4>4 DEF NamedAlike
    <3>2. CASE ~ (section.decimal = Bare /\ NamedAlike(section, table) # {})
      BY <1>3, <3>2 DEF Candidate
    <3> QED BY <3>1, <3>2
  <2> QED BY <1>3, <2>1 DEF Resolve
<1> QED BY <1>2, <1>3

LEMMA ResolutionKinds ==
  ASSUME NEW section, NEW table
  PROVE  Resolve(section, table).resolution \in {"NO_MATCH", "EXACT_MATCH", "SUFFIX_FALLBACK"}
BY DEF Resolve

-----------------------------------------------------------------------------
(* Consolidating the entries of one window. *)

LEMMA GroupIsOfPositions ==
  ASSUME NEW entries \in Seq(Stated), NEW table, NEW key
  PROVE  /\ Group(entries, table, key) \subseteq DOMAIN entries
         /\ Group(entries, table, key) \in SUBSET Nat
         /\ IsFiniteSet(Group(entries, table, key))
<1>1. Group(entries, table, key) \subseteq 1..Len(entries) /\ Len(entries) \in Nat
  BY DEF Group, Classified
<1>2. IsFiniteSet(1..Len(entries))
  BY <1>1, FS_Interval
<1> QED BY <1>1, <1>2, FS_Subset

\* What is kept of a group is one of its entries, and something is.
LEMMA KeptIsOfGroup ==
  ASSUME NEW entries \in Seq(Stated), NEW table, NEW key,
         Group(entries, table, key) # {}
  PROVE  /\ \A kept \in Consolidated(entries, table, key) :
               kept.position \in Group(entries, table, key)
         /\ Consolidated(entries, table, key) # {}
<1> DEFINE group == Group(entries, table, key)
<1>1. FirstOf(group) \in group
  BY GroupIsOfPositions, FirstExists
<1>0. ASSUME NEW given, Consolidated(entries, table, key)
                           = {[position |-> i, given |-> given] : i \in group}
      PROVE  /\ \A kept \in Consolidated(entries, table, key) : kept.position \in group
             /\ Consolidated(entries, table, key) # {}
  <2>1. PICK i \in group : TRUE
    OBVIOUS
  <2>2. [position |-> i, given |-> given] \in Consolidated(entries, table, key)
    BY <1>0
  <2>3. ASSUME NEW kept \in Consolidated(entries, table, key) PROVE kept.position \in group
    <3>1. PICK j \in group : kept = [position |-> j, given |-> given]
      BY <1>0
    <3> QED BY <3>1
  <2> QED BY <2>2, <2>3
<1>2. CASE key = NoMark
  <2>1. Consolidated(entries, table, key) = {[position |-> i, given |-> "none"] : i \in group}
    BY <1>2 DEF Consolidated
  <2> QED BY <1>0, <2>1
<1>3. CASE key # NoMark /\ GroupAgrees(entries, table, group)
  <2>1. PICK given : Consolidated(entries, table, key) = {[position |-> FirstOf(group), given |-> given]}
    BY <1>3 DEF Consolidated
  <2> QED BY <1>1, <2>1
<1>4. CASE key # NoMark /\ ~GroupAgrees(entries, table, group)
  <2>1. Consolidated(entries, table, key)
           = {[position |-> i, given |-> "review_required"] : i \in group}
    BY <1>4 DEF Consolidated
  <2> QED BY <1>0, <2>1
<1> QED BY <1>2, <1>3, <1>4

\* An agreed group has one resolution and, where it is exact, one section.
LEMMA AgreedGroup ==
  ASSUME NEW entries \in Seq(Stated), NEW table \in Catalogues, NEW key,
         GroupAgrees(entries, table, Group(entries, table, key)),
         NEW i \in Group(entries, table, key), NEW j \in Group(entries, table, key),
         Annotate(entries[i], table).resolution = "EXACT_MATCH"
  PROVE  /\ Annotate(entries[j], table).resolution = "EXACT_MATCH"
         /\ entries[i].section = entries[j].section
<1> DEFINE group == Group(entries, table, key)
           annotated == [k \in group |-> Annotate(entries[k], table)]
           resolutions == {[p \in group |-> annotated[p].resolution][k] : k \in group}
           seen == {[p \in group |-> annotated[p].section][k] : k \in group}
<1>1. IsFiniteSet(group)
  BY GroupIsOfPositions
<1>2. IsFiniteSet(resolutions) /\ IsFiniteSet(seen)
  BY <1>1, FiniteImage
<1>3. ResolutionsOf(entries, table, group) = resolutions
  BY DEF ResolutionsOf
<1>4. SectionsOf(entries, table, group) = seen \ {NoSection}
  BY DEF SectionsOf
<1>5. IsFiniteSet(SectionsOf(entries, table, group))
  BY <1>2, <1>4, FS_Subset
<1>6. Annotate(entries[i], table).resolution = Annotate(entries[j], table).resolution
  <2>1. /\ Annotate(entries[i], table).resolution \in resolutions
        /\ Annotate(entries[j], table).resolution \in resolutions
    OBVIOUS
  <2>2. Cardinality(resolutions) <= 1
    BY <1>3 DEF GroupAgrees
  <2> HIDE DEF resolutions
  <2> QED BY <1>2, <2>1, <2>2, NoTwo
<1>7. ASSUME NEW k \in group, Annotate(entries[k], table).resolution = "EXACT_MATCH"
      PROVE  /\ entries[k].section \in SectionsOf(entries, table, group)
             /\ Annotate(entries[k], table).section = entries[k].section
  <2>1. entries[k].section # NoSection
    BY DEF Group, Classified
  <2>2. Resolve(entries[k].section, table).resolution = "EXACT_MATCH"
    BY <1>7 DEF Annotate
  <2>3. Annotate(entries[k], table).section = entries[k].section
    BY <2>1, <2>2, ExactIsStated DEF Annotate
  <2> QED BY <2>1, <2>3 DEF SectionsOf
<1>8. entries[i].section = entries[j].section
  BY <1>5, <1>6, <1>7, NoTwo DEF GroupAgrees
<1> QED BY <1>6, <1>8

-----------------------------------------------------------------------------
(* The rows that are kept.                                                  *)

\* Every row was made of the window it names, in the catalogue it names, and
\* with it all the rows of that window.
ValidationInv ==
  /\ window \in Seq(Stated)
  /\ sections \in Catalogues
  /\ \A row \in rows :
        /\ row.window \in Seq(Stated)
        /\ row.reference.digest \in Catalogues
        /\ row \in RowsOf(row.window, row.reference.digest)
        /\ RowsOf(row.window, row.reference.digest) \subseteq rows

LEMMA RowNamesItsWindow ==
  ASSUME NEW entries, NEW table, NEW row \in RowsOf(entries, table)
  PROVE  row.window = entries /\ row.reference.digest = table
BY DEF RowsOf, MemberRow, ReferenceIdentity

LEMMA ValidationNext == ValidationInv /\ [NextValidation]_validationVars => ValidationInv'
<1> SUFFICES ASSUME ValidationInv, [NextValidation]_validationVars PROVE ValidationInv'
  OBVIOUS
<1> USE DEF ValidationInv
<1>1. ASSUME NEW entry \in Stated, ReadEntry(entry) PROVE ValidationInv'
  BY <1>1 DEF ReadEntry
<1>2. CASE CloseWindow
  <2> DEFINE new == RowsOf(window, sections)
  <2>1. window' \in Seq(Stated) /\ sections' = sections
    BY <1>2 DEF CloseWindow
  <2>2. CASE rows' = rows
    BY <2>1, <2>2
  <2>3. CASE rows' = rows \union new
    <3>1. ASSUME NEW row \in new
          PROVE  row.window = window /\ row.reference.digest = sections
      BY RowNamesItsWindow
    <3> HIDE DEF new
    <3>2. ASSUME NEW row \in rows'
          PROVE  /\ row.window \in Seq(Stated)
                 /\ row.reference.digest \in Catalogues
                 /\ row \in RowsOf(row.window, row.reference.digest)
                 /\ RowsOf(row.window, row.reference.digest) \subseteq rows'
      <4>1. CASE row \in rows
        BY <2>3, <4>1
      <4>2. CASE row \in new
        BY <2>3, <3>1, <4>2 DEF new
      <4> QED BY <2>3, <4>1, <4>2
    <3> QED BY <2>1, <3>2
  <2> QED BY <1>2, <2>2, <2>3 DEF CloseWindow
<1>3. CASE EditCatalogue
  BY <1>3 DEF EditCatalogue
<1>4. CASE UNCHANGED validationVars
  BY <1>4 DEF validationVars
<1> QED BY <1>1, <1>2, <1>3, <1>4 DEF NextValidation

LEMMA ValidationInvariant == SpecValidation => []ValidationInv
<1>1. InitValidation => ValidationInv
  BY DEF InitValidation, ValidationInv
<1> QED BY <1>1, ValidationNext, PTL DEF SpecValidation

\* A steel statement is classified: the look-up settles what is not steel.
LEMMA SteelIsClassified ==
  ASSUME NEW row, row.reference.digest \in Catalogues, NEW i \in SteelOf(row)
  PROVE  i \in Classified(row.window, row.reference.digest)
<1> DEFINE entry == row.window[i]
           table == row.reference.digest
<1>1. i \in DOMAIN row.window /\ entry.section # NoSection
  BY DEF SteelOf
<1>2. CASE entry.section \in table
  <2>1. Resolve(entry.section, table).row = entry.section
    BY <1>2 DEF Resolve, Candidate
  <2>2. Resolve(entry.section, table).resolution = "EXACT_MATCH"
    BY <1>1, <1>2, <2>1, ExactIsStated
  <2>3. Annotate(entry, table).category = "steel_confirmed"
    BY <2>2 DEF Annotate
  <2> QED BY <1>1, <2>3 DEF Classified
<1>3. CASE entry.section \notin table
  <2>1. ~IsNonSteel(entry)
    BY <1>3 DEF SteelOf
  <2>2. Annotate(entry, table).category # "non_steel_material"
    BY <2>1 DEF Annotate
  <2> QED BY <1>1, <2>2 DEF Classified
<1> QED BY <1>2, <1>3

LEMMA RowIsAgreed ==
  ASSUME NEW entries \in Seq(Stated), NEW table \in Catalogues,
         NEW row \in RowsOf(entries, table)
  PROVE  /\ row.review = "extracted" =>
              /\ row.section \in table
              /\ row.mark.letters # NoMark =>
                    \A i \in Classified(entries, table) :
                       entries[i].mark.letters = row.mark.letters =>
                          entries[i].section = row.section
         /\ row.review = "review_required" /\ ~row.low => IssuesOf(entries, table) # {}
<1>0. PICK first \in Classified(entries, table) :
         \E kept \in Consolidated(entries, table, Key(entries, first)) :
            row = MemberRow(kept, entries, table)
  BY DEF RowsOf
<1>1. PICK kept \in Consolidated(entries, table, Key(entries, first)) :
         row = MemberRow(kept, entries, table)
  BY <1>0
<1> DEFINE key == Key(entries, first)
           group == Group(entries, table, key)
           p == kept.position
           entry == Annotate(entries[p], table)
<1>2. p \in group
  BY <1>1, KeptIsOfGroup DEF Group
<1>3. p \in Classified(entries, table) /\ entries[p].mark.letters = key
  BY <1>2 DEF Group, Key
<1>4. /\ row.section = entry.section /\ row.low = entry.low
      /\ row.review = ReviewOf(kept, entry)
      /\ row.mark.letters = key
  BY <1>1, <1>3 DEF MemberRow, Annotate, FoldMark
<1>5. entries[p].section # NoSection /\ entry.category # "non_steel_material"
  BY <1>3 DEF Classified
<1>6. entry.resolution = Resolve(entries[p].section, table).resolution
  BY DEF Annotate
<1>7. entry.resolution = "EXACT_MATCH"
      => entries[p].section \in table /\ entry.section = entries[p].section
  BY <1>5, <1>6, ExactIsStated DEF Annotate
<1>8. ASSUME row.review = "extracted"
      PROVE  /\ row.section \in table
             /\ row.mark.letters # NoMark =>
                   \A i \in Classified(entries, table) :
                      entries[i].mark.letters = row.mark.letters =>
                         entries[i].section = row.section
  <2>1. entry.resolution = "EXACT_MATCH"
    <3>1. CASE kept.given = "extracted"
      <4>1. ResolutionsOf(entries, table, group) = {"EXACT_MATCH"}
        BY <1>1, <3>1 DEF Consolidated
      <4> QED BY <1>2, <4>1 DEF ResolutionsOf
    <3>2. CASE kept.given = "none"
      <4>1. entry.category # "unmatched_steel"
        BY <1>4, <1>8, <3>2 DEF ReviewOf
      <4> QED BY <1>5, <4>1 DEF Annotate
    <3>3. kept.given \in {"extracted", "none"}
      BY <1>4, <1>8 DEF ReviewOf
    <3> QED BY <3>1, <3>2, <3>3
  <2>2. key # NoMark => GroupAgrees(entries, table, group)
    <3>1. kept.given # "review_required"
      BY <1>4, <1>8 DEF ReviewOf
    <3> QED BY <1>1, <3>1 DEF Consolidated
  <2>3. ASSUME NEW i \in Classified(entries, table), key # NoMark, entries[i].mark.letters = key
        PROVE  entries[i].section = entries[p].section
    <3>1. i \in group
      BY <2>3 DEF Group, Key
    <3> QED BY <1>2, <2>1, <2>2, <2>3, <3>1, AgreedGroup
  <2> QED BY <1>4, <1>7, <2>1, <2>3
<1>9. ASSUME row.review = "review_required", ~row.low
      PROVE  IssuesOf(entries, table) # {}
  <2>1. CASE kept.given = "review_required"
    <3>1. key # NoMark /\ ~GroupAgrees(entries, table, group)
      BY <1>1, <2>1 DEF Consolidated
    <3>2. "CONFLICTING_SECTION" \in IssuesOf(entries, table)
      BY <3>1 DEF IssuesOf
    <3> QED BY <3>2
  <2>2. CASE kept.given # "review_required"
    <3>1. entry.category = "unmatched_steel"
      BY <1>4, <1>9, <2>2 DEF ReviewOf
    <3>2. entry.resolution \in {"NO_MATCH", "SUFFIX_FALLBACK"}
      BY <1>6, <3>1, ResolutionKinds DEF Annotate
    <3>3. entry.resolution \in ResolutionsOf(entries, table, Classified(entries, table))
      BY <1>3 DEF ResolutionsOf
    <3>4. \/ "SECTION_SUBSTITUTION_REFUSED" \in IssuesOf(entries, table)
          \/ "UNRECOGNISED_SECTION_FORMAT" \in IssuesOf(entries, table)
      BY <3>2, <3>3 DEF IssuesOf
    <3> QED BY <3>4
  <2> QED BY <2>1, <2>2
<1> QED BY <1>8, <1>9

LEMMA StatementHasRow ==
  ASSUME NEW entries \in Seq(Stated), NEW table, NEW i \in Classified(entries, table)
  PROVE  \E row \in RowsOf(entries, table) : row.mark.letters = entries[i].mark.letters
<1> DEFINE key == Key(entries, i)
<1>1. i \in Group(entries, table, key)
  BY DEF Group
<1>2. PICK kept \in Consolidated(entries, table, key) : TRUE
  BY <1>1, KeptIsOfGroup
<1>3. kept.position \in Group(entries, table, key)
  BY <1>1, KeptIsOfGroup
<1>4. MemberRow(kept, entries, table) \in RowsOf(entries, table)
  BY <1>2 DEF RowsOf
<1>5. MemberRow(kept, entries, table).mark.letters = entries[i].mark.letters
  BY <1>3 DEF MemberRow, Annotate, FoldMark, Group, Key
<1> QED BY <1>4, <1>5

LEMMA ConfirmedIsAgreedHolds == ValidationInv => ConfirmedIsAgreed
<1> SUFFICES ASSUME ValidationInv, NEW row \in rows
             PROVE  /\ row.review = "extracted" =>
                         /\ row.section \in row.reference.digest
                         /\ row.mark.letters # NoMark =>
                               \A i \in SteelOf(row) :
                                  row.window[i].mark.letters = row.mark.letters =>
                                     row.window[i].section = row.section
                    /\ row.review = "review_required" /\ ~row.low =>
                          IssuesOf(row.window, row.reference.digest) # {}
                    /\ \A i \in SteelOf(row) :
                          \E own \in rows : /\ own.window = row.window
                                            /\ own.mark.letters = row.window[i].mark.letters
  BY DEF ConfirmedIsAgreed
<1> DEFINE entries == row.window
           table == row.reference.digest
<1>1. /\ entries \in Seq(Stated) /\ table \in Catalogues
      /\ row \in RowsOf(entries, table) /\ RowsOf(entries, table) \subseteq rows
  BY DEF ValidationInv
<1>2. \A i \in SteelOf(row) : i \in Classified(entries, table)
  BY <1>1, SteelIsClassified
<1>3. ASSUME NEW i \in SteelOf(row)
      PROVE  \E own \in rows : /\ own.window = entries
                               /\ own.mark.letters = entries[i].mark.letters
  <2>1. PICK own \in RowsOf(entries, table) : own.mark.letters = entries[i].mark.letters
    BY <1>1, <1>2, StatementHasRow
  <2> QED BY <1>1, <2>1, RowNamesItsWindow
<1> QED BY <1>1, <1>2, <1>3, RowIsAgreed

(* A row nobody is asked to look at is agreed by every steel statement of   *)
(* its mark, and a row that is held says why, in any catalogue.             *)
THEOREM ConfirmedAgrees == SpecValidation => []ConfirmedIsAgreed
  BY ValidationInvariant, ConfirmedIsAgreedHolds, PTL

-----------------------------------------------------------------------------
(* Delivering a settled conflict.                                          *)
(*                                                                         *)
(* A drawing, a deliverable and a verdict are made of the conflict as it   *)
(* stood when it was drawn.  Its sources never change and its decision     *)
(* changes once, from none, so that every such copy agrees with the record. *)

Decided(conflict) ==
    /\ conflict.resulting = "CAPTURE_GEOMETRY_APPLIED" => conflict.decision = "CAPTURE_AUTHORITATIVE"
    /\ conflict.resulting = "CATALOGUE_GEOMETRY_APPLIED"
          => conflict.decision = "LIVE_CATALOGUE_AUTHORITATIVE"

\* A copy of a conflict's record, taken when it had a geometry.
CopyOf(record, copy) ==
    /\ record # Absent
    /\ copy \in Conflicts
    /\ HasGeometry(copy) /\ Decided(copy)
    /\ copy.captured = record.captured
    /\ copy.catalogue = record.catalogue
    /\ copy.decision = record.decision

Shows(file, conflict) == \E report \in Reports : file = ShownBy(conflict, report)

ConflictsStand ==
    /\ conflicts \in [Slots -> Conflicts \union {Absent}]
    /\ \A s \in Slots : conflicts[s] # Absent =>
          /\ Decided(conflicts[s])
          /\ ConflictingFields(conflicts[s].captured, conflicts[s].catalogue) # {}

DrawnIsCopied ==
    /\ drawn = [s \in Slots |-> drawn[s]]
    /\ \A s \in Slots : drawn[s] # Absent =>
          /\ CopyOf(conflicts[s], drawn[s].conflict)
          /\ drawn[s].verified => Shows(drawn[s].hash, drawn[s].conflict)

DeliveredIsDrawn ==
    /\ delivered = [s \in Slots |-> delivered[s]]
    /\ \A s \in Slots : delivered[s] # Absent /\ delivered[s].status = "READY" =>
          /\ CopyOf(conflicts[s], delivered[s].manifest.conflict)
          /\ Shows(delivered[s].manifest.hash, delivered[s].manifest.conflict)

AcceptedIsDelivered ==
    accepted # Absent /\ accepted.verdict = "ACCEPTED" =>
        /\ accepted.slot \in Slots
        /\ \E copy \in Conflicts : CopyOf(conflicts[accepted.slot], copy) /\ Shows(accepted.file, copy)

DeliveryInv == ConflictsStand /\ DrawnIsCopied /\ DeliveredIsDrawn /\ AcceptedIsDelivered

\* A conflict with a geometry was decided, and only its result may change then.
LEMMA GeometryIsDecided ==
  ASSUME NEW conflict \in Conflicts, Decided(conflict), HasGeometry(conflict)
  PROVE  /\ conflict.decision \in Decisions \ {"KEEP_BOTH_REQUIRES_STRONGER_EVIDENCE"}
         /\ conflict.decision # Absent
         /\ ResolvedRow(conflict) = IF conflict.decision = "CAPTURE_AUTHORITATIVE"
                                    THEN conflict.captured ELSE conflict.catalogue
BY DeliveryAssumption DEF Decided, HasGeometry, Geometries, Decisions, ResolvedRow

LEMMA ConflictSteps ==
  ASSUME ConflictsStand, NextDelivery
  PROVE  /\ ConflictsStand'
         /\ \A s \in Slots : conflicts[s] # Absent =>
               /\ conflicts'[s] # Absent
               /\ conflicts'[s].captured = conflicts[s].captured
               /\ conflicts'[s].catalogue = conflicts[s].catalogue
               /\ conflicts[s].decision # Absent => conflicts'[s].decision = conflicts[s].decision
<1>1. ASSUME NEW s \in Slots, NEW captured \in CapturedRows, NEW catalogue \in CatalogueRows,
             BuildConflict(s, captured, catalogue)
      PROVE  ConflictsStand' /\ \A t \in Slots : conflicts[t] # Absent => conflicts'[t] = conflicts[t]
  <2> DEFINE new == [captured |-> captured, catalogue |-> catalogue,
                     decision |-> Absent, resulting |-> Absent]
  <2>1. new \in Conflicts /\ Decided(new) /\ conflicts' = [conflicts EXCEPT ![s] = new]
    BY <1>1, DeliveryAssumption DEF Conflicts, Decided, BuildConflict, Geometries
  <2>2. ConflictingFields(new.captured, new.catalogue) # {}
    BY <1>1 DEF BuildConflict
  <2>3. conflicts' \in [Slots -> Conflicts \union {Absent}]
    BY <2>1 DEF ConflictsStand
  <2>4. \A t \in Slots : conflicts'[t] = IF t = s THEN new ELSE conflicts[t]
    BY <2>1 DEF ConflictsStand
  <2>5. conflicts[s] = Absent
    BY <1>1 DEF BuildConflict
  <2> HIDE DEF new
  <2> QED BY <2>1, <2>2, <2>3, <2>4, <2>5 DEF ConflictsStand
<1>2. ASSUME NEW s \in Slots, conflicts[s] # Absent,
             NEW new \in Conflicts, Decided(new),
             new.captured = conflicts[s].captured, new.catalogue = conflicts[s].catalogue,
             conflicts' = [conflicts EXCEPT ![s] = new]
      PROVE  /\ ConflictsStand'
             /\ \A t \in Slots \ {s} : conflicts'[t] = conflicts[t]
             /\ conflicts'[s] = new /\ new # Absent
  <2>1. conflicts' \in [Slots -> Conflicts \union {Absent}]
    BY <1>2 DEF ConflictsStand
  <2>2. \A t \in Slots : conflicts'[t] = IF t = s THEN new ELSE conflicts[t]
    BY <1>2 DEF ConflictsStand
  <2> QED BY <1>2, <2>1, <2>2, DeliveryAssumption DEF ConflictsStand
<1>3. ASSUME NEW s \in Slots, NEW decision \in Decisions, ApplyResolution(s, decision)
      PROVE  /\ ConflictsStand'
             /\ \A t \in Slots \ {s} : conflicts'[t] = conflicts[t]
             /\ conflicts'[s] # Absent
             /\ conflicts'[s].captured = conflicts[s].captured
             /\ conflicts'[s].catalogue = conflicts[s].catalogue
             /\ conflicts[s].decision = Absent
  <2> DEFINE new == [conflicts[s] EXCEPT !.decision = decision]
  <2>1. conflicts[s] \in Conflicts /\ conflicts[s] # Absent /\ conflicts[s].decision = Absent
    BY <1>3 DEF ApplyResolution, ConflictsStand
  <2>2. ~ HasGeometry(conflicts[s])
    BY <2>1, GeometryIsDecided DEF ConflictsStand
  <2>3. /\ new \in Conflicts /\ new.captured = conflicts[s].captured
        /\ new.catalogue = conflicts[s].catalogue /\ new.resulting = conflicts[s].resulting
    BY <2>1 DEF Conflicts
  <2>4. Decided(new)
    BY <2>2, <2>3 DEF Decided, HasGeometry, Geometries
  <2>5. conflicts' = [conflicts EXCEPT ![s] = new]
    BY <1>3 DEF ApplyResolution
  <2> HIDE DEF new
  <2> QED BY <1>2, <2>1, <2>3, <2>4, <2>5
<1>4. ASSUME NEW s \in Slots, Redecide(s)
      PROVE  /\ ConflictsStand'
             /\ \A t \in Slots \ {s} : conflicts'[t] = conflicts[t]
             /\ conflicts'[s] # Absent
             /\ conflicts'[s].captured = conflicts[s].captured
             /\ conflicts'[s].catalogue = conflicts[s].catalogue
             /\ conflicts'[s].decision = conflicts[s].decision
  <2> DEFINE resulting ==
               CASE conflicts[s].decision = "CAPTURE_AUTHORITATIVE" -> "CAPTURE_GEOMETRY_APPLIED"
                 [] conflicts[s].decision = "LIVE_CATALOGUE_AUTHORITATIVE" -> "CATALOGUE_GEOMETRY_APPLIED"
                 [] OTHER -> "BLOCKED_REVIEW"
             new == [conflicts[s] EXCEPT !.resulting = resulting]
  <2>1. conflicts[s] \in Conflicts /\ conflicts[s] # Absent
    BY <1>4 DEF Redecide, ConflictsStand
  <2>2. /\ resulting \in Geometries \union {"BLOCKED_REVIEW"}
        /\ resulting = "CAPTURE_GEOMETRY_APPLIED" => conflicts[s].decision = "CAPTURE_AUTHORITATIVE"
        /\ resulting = "CATALOGUE_GEOMETRY_APPLIED"
              => conflicts[s].decision = "LIVE_CATALOGUE_AUTHORITATIVE"
    BY DEF Geometries
  <2>3. conflicts' = [conflicts EXCEPT ![s] = new]
    BY <1>4 DEF Redecide
  <2> HIDE DEF resulting
  <2>4. /\ new \in Conflicts /\ new.captured = conflicts[s].captured
        /\ new.catalogue = conflicts[s].catalogue /\ new.decision = conflicts[s].decision
        /\ new.resulting = resulting
    BY <2>1, <2>2 DEF Conflicts
  <2>5. Decided(new)
    BY <2>2, <2>4 DEF Decided
  <2> HIDE DEF new
  <2> QED BY <1>2, <2>1, <2>3, <2>4, <2>5
<1>5. ASSUME UNCHANGED conflicts
      PROVE  ConflictsStand'
  BY <1>5 DEF ConflictsStand
<1>6. \/ \E s \in Slots, captured \in CapturedRows, catalogue \in CatalogueRows :
            BuildConflict(s, captured, catalogue)
      \/ \E s \in Slots, decision \in Decisions : ApplyResolution(s, decision)
      \/ \E s \in Slots : Redecide(s)
      \/ UNCHANGED conflicts
  BY DEF NextDelivery, Draw, DrawNothing, RefuseDelivery, Deliver, DeliveryFails, Spoil, Evaluate
<1> QED BY <1>1, <1>3, <1>4, <1>5, <1>6

\* What was copied of a conflict stays a copy of it.
LEMMA CopyStands ==
  ASSUME ConflictsStand, NextDelivery, NEW s \in Slots
  PROVE  \A copy : CopyOf(conflicts[s], copy) => CopyOf(conflicts'[s], copy)
<1> SUFFICES ASSUME NEW copy, CopyOf(conflicts[s], copy)
             PROVE  CopyOf(conflicts'[s], copy)
  OBVIOUS
<1>1. copy.decision # Absent
  BY GeometryIsDecided DEF CopyOf
<1> QED BY <1>1, ConflictSteps DEF CopyOf

LEMMA DrawnSteps ==
  ASSUME ConflictsStand, DrawnIsCopied, NextDelivery
  PROVE  DrawnIsCopied'
<1>1. ASSUME NEW s \in Slots, NEW new, CopyOf(conflicts[s], new.conflict),
             new.verified => Shows(new.hash, new.conflict),
             drawn' = [drawn EXCEPT ![s] = new]
      PROVE  DrawnIsCopied'
  <2>1. \A t \in Slots : drawn'[t] = IF t = s THEN new ELSE drawn[t]
    BY <1>1 DEF DrawnIsCopied
  <2>2. drawn' = [t \in Slots |-> drawn'[t]]
    BY <1>1 DEF DrawnIsCopied
  <2>3. \A t \in Slots : drawn'[t] # Absent =>
           /\ CopyOf(conflicts'[t], drawn'[t].conflict)
           /\ drawn'[t].verified => Shows(drawn'[t].hash, drawn'[t].conflict)
    BY <1>1, <2>1, CopyStands DEF DrawnIsCopied
  <2> QED BY <2>2, <2>3 DEF DrawnIsCopied, Shows
<1>2. ASSUME NEW s \in Slots, conflicts[s] # Absent, HasGeometry(conflicts[s])
      PROVE  CopyOf(conflicts[s], conflicts[s])
  BY <1>2 DEF CopyOf, ConflictsStand
<1>3. ASSUME NEW s \in Slots, NEW report \in Reports, NEW verified \in BOOLEAN,
             Draw(s, report, verified)
      PROVE  DrawnIsCopied'
  <2>1. Shows(ShownBy(conflicts[s], report), conflicts[s])
    BY DEF Shows
  <2> QED BY <1>1, <1>2, <1>3, <2>1 DEF Draw
<1>4. ASSUME NEW s \in Slots, DrawNothing(s)
      PROVE  DrawnIsCopied'
  BY <1>1, <1>2, <1>4 DEF DrawNothing
<1>5. ASSUME UNCHANGED drawn
      PROVE  DrawnIsCopied'
  <2>1. \A t \in Slots : drawn[t] # Absent => CopyOf(conflicts'[t], drawn[t].conflict)
    BY CopyStands DEF DrawnIsCopied
  <2> QED BY <1>5, <2>1 DEF DrawnIsCopied, Shows
<1>6. \/ \E s \in Slots, report \in Reports, verified \in BOOLEAN : Draw(s, report, verified)
      \/ \E s \in Slots : DrawNothing(s)
      \/ UNCHANGED drawn
  BY DEF NextDelivery, BuildConflict, ApplyResolution, Redecide, RefuseDelivery, Deliver,
         DeliveryFails, Spoil, Evaluate
<1> QED BY <1>3, <1>4, <1>5, <1>6

LEMMA DeliveredSteps ==
  ASSUME ConflictsStand, DrawnIsCopied, DeliveredIsDrawn, NextDelivery
  PROVE  DeliveredIsDrawn'
<1>1. ASSUME NEW s \in Slots, drawn[s] # Absent, NEW status,
             status = "READY" => drawn[s].verified,
             delivered' = [delivered EXCEPT ![s] = DeliverableOf(status, drawn[s])]
      PROVE  DeliveredIsDrawn'
  <2> DEFINE new == DeliverableOf(status, drawn[s])
  <2>1. /\ new.status = status /\ new.manifest.conflict = drawn[s].conflict
        /\ new.manifest.hash = drawn[s].hash
    BY DEF DeliverableOf, Manifest
  <2>2. CopyOf(conflicts'[s], drawn[s].conflict)
    BY <1>1, CopyStands DEF DrawnIsCopied
  <2>3. status = "READY" => Shows(drawn[s].hash, drawn[s].conflict)
    BY <1>1 DEF DrawnIsCopied
  <2>4. delivered' = [t \in Slots |-> delivered'[t]]
    BY <1>1 DEF DeliveredIsDrawn
  <2>5. \A t \in Slots : delivered'[t] = IF t = s THEN new ELSE delivered[t]
    BY <1>1 DEF DeliveredIsDrawn
  <2> HIDE DEF new
  <2>6. \A t \in Slots : delivered'[t] # Absent /\ delivered'[t].status = "READY" =>
           /\ CopyOf(conflicts'[t], delivered'[t].manifest.conflict)
           /\ Shows(delivered'[t].manifest.hash, delivered'[t].manifest.conflict)
    BY <2>1, <2>2, <2>3, <2>5, CopyStands DEF DeliveredIsDrawn
  <2> QED BY <2>4, <2>6 DEF DeliveredIsDrawn, Shows
<1>2. ASSUME NEW s \in Slots, RefuseDelivery(s)
      PROVE  DeliveredIsDrawn'
  <2>1. PICK status \in {"BLOCKED", "REFUSED"} :
           delivered' = [delivered EXCEPT ![s] = DeliverableOf(status, drawn[s])]
    BY <1>2 DEF RefuseDelivery
  <2> QED BY <1>1, <1>2, <2>1 DEF RefuseDelivery
<1>3. ASSUME NEW s \in Slots, Deliver(s)
      PROVE  DeliveredIsDrawn'
  BY <1>1, <1>3 DEF Deliver, Delivers
<1>4. ASSUME NEW s \in Slots, DeliveryFails(s)
      PROVE  DeliveredIsDrawn'
  BY <1>1, <1>4 DEF DeliveryFails
<1>5. ASSUME UNCHANGED delivered
      PROVE  DeliveredIsDrawn'
  <2>1. \A t \in Slots : delivered[t] # Absent /\ delivered[t].status = "READY"
                            => CopyOf(conflicts'[t], delivered[t].manifest.conflict)
    BY CopyStands DEF DeliveredIsDrawn
  <2> QED BY <1>5, <2>1 DEF DeliveredIsDrawn, Shows
<1>6. \/ \E s \in Slots : RefuseDelivery(s) \/ Deliver(s) \/ DeliveryFails(s)
      \/ UNCHANGED delivered
  BY DEF NextDelivery, BuildConflict, ApplyResolution, Redecide, Draw, DrawNothing, Spoil, Evaluate
<1> QED BY <1>2, <1>3, <1>4, <1>5, <1>6

LEMMA AcceptedSteps ==
  ASSUME ConflictsStand, DeliveredIsDrawn, AcceptedIsDelivered, NextDelivery
  PROVE  AcceptedIsDelivered'
<1>1. ASSUME NEW s \in Slots, NEW answers \in Answers, Evaluate(s, answers)
      PROVE  AcceptedIsDelivered'
  <2> SUFFICES ASSUME accepted'.verdict = "ACCEPTED" PROVE AcceptedIsDelivered'
    BY DEF AcceptedIsDelivered
  <2> DEFINE copy == delivered[s].manifest.conflict
  <2>1. OnDisk(s) /\ delivered[s] # Absent
    BY <1>1 DEF Evaluate
  <2>2. /\ accepted'.slot = s
        /\ accepted'.file = delivered[s].manifest.hash
    BY <1>1, <2>1 DEF Evaluate, OnDisk
  <2>3. CopyOf(conflicts[s], copy) /\ Shows(delivered[s].manifest.hash, copy)
    BY <2>1 DEF OnDisk, DeliveredIsDrawn
  <2>4. CopyOf(conflicts'[s], copy) /\ copy \in Conflicts
    BY <2>3, CopyStands DEF CopyOf
  <2> QED BY <2>2, <2>3, <2>4 DEF AcceptedIsDelivered, Shows
<1>2. ASSUME UNCHANGED accepted
      PROVE  AcceptedIsDelivered'
  <2> SUFFICES ASSUME accepted # Absent, accepted.verdict = "ACCEPTED"
               PROVE  /\ accepted.slot \in Slots
                      /\ \E copy \in Conflicts :
                            CopyOf(conflicts'[accepted.slot], copy) /\ Shows(accepted.file, copy)
    BY <1>2 DEF AcceptedIsDelivered, Shows
  <2>1. PICK copy \in Conflicts : CopyOf(conflicts[accepted.slot], copy) /\ Shows(accepted.file, copy)
    BY DEF AcceptedIsDelivered
  <2>2. accepted.slot \in Slots
    BY DEF AcceptedIsDelivered
  <2> QED BY <2>1, <2>2, CopyStands
<1>3. \/ \E s \in Slots, answers \in Answers : Evaluate(s, answers)
      \/ UNCHANGED accepted
  BY DEF NextDelivery, BuildConflict, ApplyResolution, Redecide, Draw, DrawNothing,
         RefuseDelivery, Deliver, DeliveryFails, Spoil
<1> QED BY <1>1, <1>2, <1>3

LEMMA DeliveryInvariant == SpecDelivery => []DeliveryInv
<1>1. InitDelivery => DeliveryInv
  BY DEF InitDelivery, DeliveryInv, ConflictsStand, DrawnIsCopied, DeliveredIsDrawn,
         AcceptedIsDelivered
<1>2. ASSUME DeliveryInv, NextDelivery PROVE DeliveryInv'
  BY <1>2, ConflictSteps, DrawnSteps, DeliveredSteps, AcceptedSteps DEF DeliveryInv
<1>3. ASSUME DeliveryInv, UNCHANGED deliveryVars PROVE DeliveryInv'
  BY <1>3 DEF DeliveryInv, ConflictsStand, DrawnIsCopied, DeliveredIsDrawn,
              AcceptedIsDelivered, CopyOf, Shows, deliveryVars
<1> QED BY <1>1, <1>2, <1>3, PTL DEF SpecDelivery

LEMMA DeliveredIsChosenHolds == DeliveryInv => DeliveredIsChosen
<1> SUFFICES ASSUME DeliveryInv, accepted # Absent, accepted.verdict = "ACCEPTED"
             PROVE  DeliveredIsChosen
  BY DEF DeliveredIsChosen
<1> DEFINE conflict == conflicts[accepted.slot]
           chosen == IF conflict.decision = "CAPTURE_AUTHORITATIVE" THEN conflict.captured
                     ELSE conflict.catalogue
<1>1. PICK copy \in Conflicts, report \in Reports :
         CopyOf(conflicts[accepted.slot], copy) /\ accepted.file = ShownBy(copy, report)
  BY DEF DeliveryInv, AcceptedIsDelivered, Shows
<1>2. /\ copy.decision \in Decisions \ {"KEEP_BOTH_REQUIRES_STRONGER_EVIDENCE"}
      /\ copy.decision = conflict.decision /\ ResolvedRow(copy) = chosen
  BY <1>1, GeometryIsDecided DEF CopyOf
<1>3. accepted.slot \in Slots /\ conflict # Absent
  BY <1>1 DEF DeliveryInv, AcceptedIsDelivered, CopyOf
<1>4. ConflictingFields(conflict.captured, conflict.catalogue) # {}
  BY <1>3 DEF DeliveryInv, ConflictsStand
<1>5. accepted.file.section = chosen.name /\ accepted.file.dims = chosen.dims
  BY <1>1, <1>2 DEF ShownBy
<1>6. accepted.file \in DrawnFiles
  <2>1. copy.captured \in CapturedRows /\ copy.catalogue \in CatalogueRows
    BY DEF Conflicts
  <2>2. ConflictId(copy) \in ConflictIds
    BY <2>1 DEF ConflictId, ConflictIds
  <2>3. ResolvedRow(copy) \in CapturedRows \union CatalogueRows
    BY <2>1 DEF ResolvedRow
  <2> QED BY <1>1, <2>2, <2>3 DEF DrawnFiles, ShownBy
<1> QED BY <1>2, <1>4, <1>5, <1>6, DeliveryAssumption DEF DeliveredIsChosen

(* What is accepted shows the source that was chosen, whatever else was      *)
(* drawn, delivered, cut short or changed by hand, for any number of        *)
(* conflicts, sections and reports.                                         *)
THEOREM ChosenIsDelivered == SpecDelivery => []DeliveredIsChosen
  BY DeliveryInvariant, DeliveredIsChosenHolds, PTL
=============================================================================
