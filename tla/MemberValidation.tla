-------------------------- MODULE MemberValidation --------------------------
(***************************************************************************)
(* From the members a window of pages states to the rows that are kept of  *)
(* it: every stated section is looked up in the live catalogue             *)
(* (section_matcher), what is not steel is set aside, and the statements of *)
(* one mark become one row or are held for review (validation/rules).  The *)
(* catalogue may be edited between two windows.                            *)
(*                                                                         *)
(* A section is its size and its decimal ("310UB40" and "310UB40.4"),      *)
(* modelled up to spacing and case.  A mark is its letters and the way it  *)
(* was written down: plain, in another case, or with a section run into it. *)
(***************************************************************************)
EXTENDS FiniteSets, Sequences, Integers

CONSTANTS
    Stated,         \* what an entry of a page may state
    Catalogues,     \* states of the live table of sections
    Bare,           \* the decimal of a section written without one
    NoSection,      \* an entry without a section, a look-up without a result
    NoMark,         \* the letters of an empty mark
    Timber,         \* sections and marks that name a timber or a stress grade
    MaxEntries,     \* bound: entries read, over all windows
    MaxEdits        \* bound: edits of the live table

VARIABLES
    sections,       \* the live table
    window,         \* the entries of the window being read
    rows,           \* the rows kept, each with the window it was made of
    read,           \* entries read so far
    edits

validationVars == <<sections, window, rows, read, edits>>

-----------------------------------------------------------------------------
(* One look-up: the section itself, else the least decimal it may stand for. *)

NamedAlike(section, table) == {s \in table : s.size = section.size /\ s.decimal # Bare}

\* Decimals of one size can be ordered; a row of the table names a section.
ASSUME CatalogueAssumption ==
    \A table \in Catalogues :
        /\ NoSection \notin table
        /\ \A t \in table :
              t.decimal # Bare =>
                 \E s \in NamedAlike(t, table) :
                    \A other \in NamedAlike(t, table) : s.decimal <= other.decimal

Candidate(section, table) ==
    IF section \in table THEN section
    ELSE IF section.decimal = Bare /\ NamedAlike(section, table) # {}
    THEN CHOOSE s \in NamedAlike(section, table) :
            \A other \in NamedAlike(section, table) : s.decimal <= other.decimal
    ELSE NoSection

\* A row the section does not name itself is a substitute, and says so.
Resolve(section, table) ==
    LET row == Candidate(section, table)
    IN  [row |-> row,
         resolution |-> IF row = NoSection THEN "NO_MATCH"
                        ELSE IF row = section THEN "EXACT_MATCH" ELSE "SUFFIX_FALLBACK"]

\* The identity of the reference data is its content, in any order of its rows.
ReferenceIdentity(table) == [source |-> "LIVE", status |-> "UNVERSIONED", digest |-> table]

-----------------------------------------------------------------------------
(* The entries of a window. *)

\* A section run into the mark is cut off it.
FoldMark(mark) ==
    [letters |-> mark.letters,
     written |-> IF mark.written = "run in" THEN "plain" ELSE mark.written]

IsNonSteel(entry) == entry.section \in Timber \/ entry.mark \in Timber

\* A substitute never becomes the section of the entry: it is kept beside it.
Annotate(entry, table) ==
    LET found == Resolve(entry.section, table)
        exact == found.resolution = "EXACT_MATCH"
    IN  [mark |-> FoldMark(entry.mark),
         section |-> IF exact THEN found.row ELSE NoSection,
         substitute |-> IF found.resolution = "SUFFIX_FALLBACK" THEN found.row ELSE NoSection,
         resolution |-> found.resolution,
         category |-> IF exact THEN "steel_confirmed"
                      ELSE IF IsNonSteel(entry) THEN "non_steel_material" ELSE "unmatched_steel",
         low |-> entry.low]

\* Positions of the entries that state a section and are steel.
Classified(entries, table) ==
    {i \in DOMAIN entries :
        /\ entries[i].section # NoSection
        /\ Annotate(entries[i], table).category # "non_steel_material"}

-----------------------------------------------------------------------------
(* The statements of one mark, whatever its case. *)

Key(entries, i) == entries[i].mark.letters

Group(entries, table, key) == {i \in Classified(entries, table) : Key(entries, i) = key}

SectionsOf(entries, table, group) ==
    {Annotate(entries[i], table).section : i \in group} \ {NoSection}

ResolutionsOf(entries, table, group) == {Annotate(entries[i], table).resolution : i \in group}

FirstOf(group) == CHOOSE i \in group : \A j \in group : i <= j

\* mutant: only the names are compared, not how they were come by
GroupAgreesByName(entries, table, group) ==
    Cardinality(SectionsOf(entries, table, group)) <= 1

\* Compared are the sections that were matched, and how each was come by:
\* statements that matched nothing agree whatever they say, and the grade is not
\* looked at.
GroupAgrees(entries, table, group) ==
    /\ Cardinality(SectionsOf(entries, table, group)) <= 1
    /\ Cardinality(ResolutionsOf(entries, table, group)) = 1

\* The kept positions of a group, and the standing each is given.  Without a
\* mark there is nothing to compare.
Consolidated(entries, table, key) ==
    LET group == Group(entries, table, key)
    IN  IF key = NoMark THEN {[position |-> i, given |-> "none"] : i \in group}
        ELSE IF GroupAgrees(entries, table, group)
        THEN {[position |-> FirstOf(group),
               given |-> IF /\ Cardinality(group) > 1
                            /\ ResolutionsOf(entries, table, group) = {"EXACT_MATCH"}
                         THEN "extracted" ELSE "none"]}
        ELSE {[position |-> i, given |-> "review_required"] : i \in group}

\* What a consolidation leaves open follows from the entry itself.
ReviewOf(kept, entry) ==
    IF kept.given # "none" THEN kept.given
    ELSE IF entry.low \/ entry.category = "unmatched_steel" THEN "review_required"
    ELSE "extracted"

MemberRow(kept, entries, table) ==
    LET entry == Annotate(entries[kept.position], table)
    IN  [mark |-> entry.mark, section |-> entry.section, substitute |-> entry.substitute,
         review |-> ReviewOf(kept, entry), low |-> entry.low, reference |-> ReferenceIdentity(table),
         position |-> kept.position, window |-> entries]

RowsOf(entries, table) ==
    {MemberRow(kept, entries, table) :
        kept \in UNION {Consolidated(entries, table, key) :
                           key \in {Key(entries, i) : i \in Classified(entries, table)}}}

\* What validate_extraction reports beside the rows.
IssuesOf(entries, table) ==
    LET steel == Classified(entries, table)
        resolutions == ResolutionsOf(entries, table, steel)
        disputed == {key \in {Key(entries, i) : i \in steel} \ {NoMark} :
                        ~ GroupAgrees(entries, table, Group(entries, table, key))}
    IN  {issue \in {"SECTION_SUBSTITUTION_REFUSED", "UNRECOGNISED_SECTION_FORMAT",
                    "CONFLICTING_SECTION", "MATERIAL_CONTAMINATION_WARNING"} :
            \/ issue = "SECTION_SUBSTITUTION_REFUSED" /\ "SUFFIX_FALLBACK" \in resolutions
            \/ issue = "UNRECOGNISED_SECTION_FORMAT" /\ "NO_MATCH" \in resolutions
            \/ issue = "CONFLICTING_SECTION" /\ disputed # {}
            \/ /\ issue = "MATERIAL_CONTAMINATION_WARNING"
               /\ \E i \in DOMAIN entries \ steel : entries[i].section # NoSection}

-----------------------------------------------------------------------------

InitValidation ==
    /\ sections \in Catalogues
    /\ window = <<>>
    /\ rows = {}
    /\ read = 0
    /\ edits = 0

ReadEntry(entry) ==
    /\ read < MaxEntries
    /\ read' = read + 1
    /\ window' = Append(window, entry)
    /\ UNCHANGED <<sections, rows, edits>>

\* A window is kept whole, or refused for one mark that was kept before.
CloseWindow ==
    /\ window # <<>>
    /\ LET new == RowsOf(window, sections)
       IN  rows' = IF {row.mark : row \in new} \intersect {row.mark : row \in rows} = {}
                   THEN rows \union new ELSE rows
    /\ window' = <<>>
    /\ UNCHANGED <<sections, read, edits>>

EditCatalogue ==
    /\ edits < MaxEdits
    /\ sections' \in Catalogues \ {sections}
    /\ edits' = edits + 1
    /\ UNCHANGED <<window, rows, read>>

NextValidation ==
    \/ \E entry \in Stated : ReadEntry(entry)
    \/ CloseWindow
    \/ EditCatalogue

-----------------------------------------------------------------------------
(* Properties. *)

(* A row that nobody is asked to look at carries a section that every steel  *)
(* statement of its mark in the window names itself, in the catalogue the   *)
(* row says it was matched with, however that was edited later; and no      *)
(* steel statement is without a row of its mark.  A row that was read       *)
(* surely and is still held has an issue that says why: a conflict between  *)
(* pages, or a substituted section, is never settled silently               *)
(* (validation/rules, consolidate_members and validate_extraction).         *)
SteelOf(row) ==
    {i \in DOMAIN row.window :
        /\ row.window[i].section # NoSection
        /\ row.window[i].section \notin row.reference.digest => ~IsNonSteel(row.window[i])}

ConfirmedIsAgreed ==
    \A row \in rows :
        /\ row.review = "extracted" =>
              /\ row.section \in row.reference.digest
              /\ row.mark.letters # NoMark =>
                    \A i \in SteelOf(row) :
                       row.window[i].mark.letters = row.mark.letters =>
                          row.window[i].section = row.section
        /\ row.review = "review_required" /\ ~row.low =>
              IssuesOf(row.window, row.reference.digest) # {}
        /\ \A i \in SteelOf(row) :
              \E own \in rows : /\ own.window = row.window
                                /\ own.mark.letters = row.window[i].mark.letters
=============================================================================
