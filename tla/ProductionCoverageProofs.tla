----------------------- MODULE ProductionCoverageProofs -----------------------
(***************************************************************************)
(* From the pages of a drawing set that is read in slices to a project     *)
(* that is COMPLETE, for any number of pages, slices, candidates, drawings, *)
(* checklists, jobs and faults: the candidates are the usable entries of   *)
(* the pages, each once and in their places; what the records promise each *)
(* other is CoverageInv; and COMPLETE is what evaluate_production_coverage *)
(* says of a whole set, and of no other.                                   *)
(***************************************************************************)
EXTENDS ProductionCoverage, FiniteSetTheorems, TLAPS

-----------------------------------------------------------------------------
(* Induction over Nat as a fact about sets, and what it needs. *)

\* A set of naturals that is not empty has a least element.
LEMMA Least ==
  ASSUME NEW T \in SUBSET Nat, T # {}
  PROVE  \E n \in T : \A m \in T : ~ (m < n)
<1> DEFINE R == OpToRel(<, Nat)
<1>1. IsWellFoundedOn(R, Nat)
  BY NatLessThanWellFounded
<1>2. \A m, n \in Nat : <<m, n>> \in R <=> m < n
  BY DEF OpToRel
<1> HIDE DEF R
<1>3. \E x \in T : \A y \in T : ~ (<<y, x>> \in R)
  BY <1>1, WFMin
<1>4. QED
  BY <1>2, <1>3

\* A set that holds 0 and with each natural the next holds them all.
LEMMA Induct ==
  ASSUME NEW S, 0 \in S, \A n \in Nat : n \in S => n + 1 \in S
  PROVE  Nat \subseteq S
<1> SUFFICES ASSUME Nat \ S # {} PROVE FALSE
  OBVIOUS
<1>1. PICK n \in Nat \ S : \A m \in Nat \ S : ~ (m < n)
  BY Least
<1>2. n # 0 /\ n - 1 \in Nat /\ n - 1 < n
  OBVIOUS
<1>3. n - 1 \in S
  BY <1>1, <1>2
<1>4. QED
  BY <1>2, <1>3

-----------------------------------------------------------------------------
(* Finite sets of naturals in order. *)

UpTo(S, k) == {j \in S : j <= k}
Above(S, k) == {j \in S : j > k}

\* The rank of an element of a finite set of naturals names it, and every rank is taken.
LEMMA Ranks ==
  ASSUME NEW S \in SUBSET Nat, IsFiniteSet(S)
  PROVE  /\ Cardinality(S) \in Nat
         /\ \A i \in S : Cardinality(UpTo(S, i)) \in 1..Cardinality(S)
         /\ \A i, k \in S : Cardinality(UpTo(S, i)) = Cardinality(UpTo(S, k)) => i = k
         /\ \A n \in 1..Cardinality(S) : \E i \in S : Cardinality(UpTo(S, i)) = n
<1> DEFINE C == Cardinality(S)
           r == [i \in S |-> Cardinality(UpTo(S, i))]
<1>1. C \in Nat
  BY FS_CardinalityType
<1>2. ASSUME NEW i \in S
      PROVE  /\ UpTo(S, i) \in SUBSET S /\ IsFiniteSet(UpTo(S, i)) /\ i \in UpTo(S, i)
             /\ Cardinality(UpTo(S, i)) \in 1..C
  <2>1. UpTo(S, i) \in SUBSET S /\ i \in UpTo(S, i)
    BY DEF UpTo
  <2>2. IsFiniteSet(UpTo(S, i)) /\ Cardinality(UpTo(S, i)) <= C
    BY <2>1, FS_Subset
  <2>3. Cardinality(UpTo(S, i)) \in Nat
    BY <2>2, FS_CardinalityType
  <2>4. Cardinality(UpTo(S, i)) # 0
    BY <2>1, <2>2, FS_EmptySet
  <2>5. QED
    BY <1>1, <2>1, <2>2, <2>3, <2>4
<1>3. ASSUME NEW i \in S, NEW k \in S, i < k
      PROVE  Cardinality(UpTo(S, i)) # Cardinality(UpTo(S, k))
  <2>1. UpTo(S, i) \in SUBSET UpTo(S, k) /\ k \notin UpTo(S, i)
    <3>1. \A j \in S : j \in Nat /\ (j <= i => j <= k)
      BY <1>3
    <3>2. ~ (k <= i)
      BY <1>3
    <3> QED BY <3>1, <3>2 DEF UpTo
  <2>2. UpTo(S, i) # UpTo(S, k)
    BY <1>2, <2>1
  <2>3. QED
    BY <1>2, <2>1, <2>2, FS_Subset
<1>4. \A i, k \in S : Cardinality(UpTo(S, i)) = Cardinality(UpTo(S, k)) => i = k
  <2>1. \A i, k \in S : i = k \/ i < k \/ k < i
    OBVIOUS
  <2>2. QED
    BY <1>3, <2>1
<1>5. r \in Injection(S, 1..C)
  BY <1>2, <1>4 DEF Injection, IsInjective
<1>6. IsFiniteSet(1..C) /\ Cardinality(1..C) = C
  BY <1>1, FS_Interval
<1>7. r \in Surjection(S, 1..C)
  BY <1>5, <1>6, FS_Injection
<1>8. \A n \in 1..C : \E i \in S : r[i] = n
  BY <1>7 DEF Surjection
<1>9. QED
  BY <1>1, <1>2, <1>4, <1>8

\* The same counted from above.
LEMMA RanksFromAbove ==
  ASSUME NEW S \in SUBSET Nat, IsFiniteSet(S), NEW n \in Nat, n < Cardinality(S)
  PROVE  \E i \in S : Cardinality(Above(S, i)) = n
<1> DEFINE C == Cardinality(S)
<1>1. C \in Nat /\ C - n \in 1..C
  BY Ranks
<1>2. PICK i \in S : Cardinality(UpTo(S, i)) = C - n
  BY <1>1, Ranks
<1>3. Above(S, i) = S \ UpTo(S, i) /\ S \cap UpTo(S, i) = UpTo(S, i)
  <2>1. \A j \in S : j > i <=> ~ (j <= i)
    OBVIOUS
  <2> QED BY <2>1 DEF Above, UpTo
<1>4. Cardinality(S \ UpTo(S, i)) = Cardinality(S) - Cardinality(S \cap UpTo(S, i))
  BY FS_Difference
<1>5. Cardinality(Above(S, i)) = C - (C - n)
  BY <1>2, <1>3, <1>4
<1>6. QED
  BY <1>1, <1>5

-----------------------------------------------------------------------------
(* Sequences that enumerate a set, each element once. *)

Enumerates(s, E) ==
    /\ s \in Seq(E)
    /\ \A i, j \in DOMAIN s : s[i] = s[j] => i = j
    /\ \A e \in E : \E i \in DOMAIN s : s[i] = e

\* The empty sequence lists the empty set.
LEMMA EmptyEnumerates == Enumerates(<<>>, {})
BY DEF Enumerates

\* A sequence that lists a set without repeating itself is as long as the set.
LEMMA EnumerationCounts ==
  ASSUME NEW s, NEW E, Enumerates(s, E)
  PROVE  IsFiniteSet(E) /\ Cardinality(E) = Len(s)
<1> DEFINE D == 1..Len(s)
<1>1. Len(s) \in Nat /\ DOMAIN s = D /\ s \in [D -> E]
  BY DEF Enumerates
<1>2. IsFiniteSet(D) /\ Cardinality(D) = Len(s)
  <2>1. /\ IsFiniteSet(1..Len(s))
        /\ Cardinality(1..Len(s)) = IF 1 > Len(s) THEN 0 ELSE Len(s) - 1 + 1
    BY <1>1, FS_Interval
  <2> QED BY <1>1, <2>1
<1>3. s \in Bijection(D, E)
  BY <1>1 DEF Enumerates, Bijection, Injection, Surjection, IsInjective
<1>4. QED
  BY <1>2, <1>3, FS_Bijection DEF ExistsBijection

\* Two such sequences of sets that are apart make one of both.
LEMMA EnumerationsJoin ==
  ASSUME NEW s, NEW E, NEW t, NEW F, Enumerates(s, E), Enumerates(t, F), E \cap F = {}
  PROVE  /\ Enumerates(s \o t, E \cup F)
         /\ Len(s) \in Nat /\ Len(t) \in Nat /\ Len(s \o t) = Len(s) + Len(t)
         /\ \A i \in 1..Len(s) : (s \o t)[i] = s[i]
<1> DEFINE both == s \o t
           m == Len(s)
           n == Len(t)
           All == E \cup F
<1>1. /\ m \in Nat /\ n \in Nat /\ DOMAIN s = 1..m /\ DOMAIN t = 1..n
      /\ s \in Seq(All) /\ t \in Seq(All)
  BY DEF Enumerates
<1>2. /\ both \in Seq(All) /\ DOMAIN both = 1..(m + n) /\ Len(both) = m + n
      /\ \A i \in 1..m : both[i] = s[i] /\ i \in DOMAIN both
      /\ \A i \in 1..n : both[m + i] = t[i] /\ m + i \in DOMAIN both
  BY <1>1
<1>3. \A i \in 1..(m + n) : i \in 1..m \/ (i - m \in 1..n /\ both[i] = t[i - m])
  BY <1>1, <1>2
<1> HIDE DEF both
<1>4. (\A i \in 1..m : s[i] \in E) /\ (\A i \in 1..n : t[i] \in F)
  BY <1>1 DEF Enumerates
<1>5. ASSUME NEW i \in DOMAIN both, NEW j \in DOMAIN both, both[i] = both[j]
      PROVE  i = j
  <2>1. CASE i \in 1..m /\ j \in 1..m
    BY <1>1, <1>2, <1>5, <2>1 DEF Enumerates
  <2>2. CASE i \notin 1..m /\ j \notin 1..m
    <3>1. i - m \in 1..n /\ j - m \in 1..n /\ t[i - m] = t[j - m]
      BY <1>2, <1>3, <1>5, <2>2
    <3>2. i - m = j - m
      BY <1>1, <3>1 DEF Enumerates
    <3> QED BY <1>1, <1>2, <3>2
  <2>3. CASE i \in 1..m /\ j \notin 1..m
    BY <1>2, <1>3, <1>4, <1>5, <2>3
  <2>4. CASE i \notin 1..m /\ j \in 1..m
    BY <1>2, <1>3, <1>4, <1>5, <2>4
  <2> QED BY <2>1, <2>2, <2>3, <2>4
<1>6. \A e \in All : \E i \in DOMAIN both : both[i] = e
  <2>1. \A e \in E : \E i \in 1..m : s[i] = e
    BY <1>1 DEF Enumerates
  <2>2. \A e \in F : \E i \in 1..n : t[i] = e
    BY <1>1 DEF Enumerates
  <2> QED BY <1>2, <2>1, <2>2
<1>7. Enumerates(both, All)
  BY <1>2, <1>5, <1>6 DEF Enumerates
<1>8. QED
  BY <1>1, <1>2, <1>7 DEF both

-----------------------------------------------------------------------------
(* The candidates of a page set are its usable entries, each once. *)

Listed(page) == page.entries \in Seq({page.entries[k] : k \in DOMAIN page.entries})

EntryAt(page, i) == [page |-> page.number, position |-> i, entry |-> page.entries[i]]
UsableOf(page) == {i \in DOMAIN page.entries : page.entries[i] # Unusable}

\* The usable entries of one page, and of one page more.
LEMMA EntriesOfOne ==
  ASSUME NEW page
  PROVE  EntriesOf({page}) = {EntryAt(page, i) : i \in UsableOf(page)}
BY DEF EntriesOf, EntryAt, UsableOf

LEMMA EntriesOfBoth ==
  ASSUME NEW P, NEW Q
  PROVE  EntriesOf(P \cup Q) = EntriesOf(P) \cup EntriesOf(Q)
BY DEF EntriesOf

\* The usable entries of a page are listed in order, each once.
LEMMA UsableEnumerates ==
  ASSUME NEW page, Listed(page)
  PROVE  Enumerates(UsableEntries(page), EntriesOf({page}))
<1> DEFINE usable == UsableOf(page)
           C == Cardinality(usable)
           nth == [n \in 1..C |-> CHOOSE i \in usable : Cardinality(UpTo(usable, i)) = n]
           E == {EntryAt(page, i) : i \in usable}
<1>1. UsableEntries(page) = [n \in 1..C |-> EntryAt(page, nth[n])]
  BY DEF UsableEntries, UsableOf, EntryAt, UpTo
<1>2. usable \in SUBSET Nat /\ IsFiniteSet(usable)
  <2>1. Len(page.entries) \in Nat /\ DOMAIN page.entries = 1..Len(page.entries)
    BY DEF Listed
  <2>2. IsFiniteSet(1..Len(page.entries))
    BY <2>1, FS_Interval
  <2>3. usable \in SUBSET (1..Len(page.entries))
    BY <2>1 DEF UsableOf
  <2> QED BY <2>1, <2>2, <2>3, FS_Subset
<1> HIDE DEF usable
<1>3. C \in Nat
  BY <1>2, Ranks
<1>4. \A n \in 1..C : nth[n] \in usable /\ Cardinality(UpTo(usable, nth[n])) = n
  <2> TAKE n \in 1..C
  <2>1. \E i \in usable : Cardinality(UpTo(usable, i)) = n
    BY <1>2, Ranks
  <2>2. nth[n] = CHOOSE i \in usable : Cardinality(UpTo(usable, i)) = n
    OBVIOUS
  <2> HIDE DEF nth
  <2> QED BY <2>1, <2>2
<1>5. \A i \in usable : Cardinality(UpTo(usable, i)) \in 1..C /\ nth[Cardinality(UpTo(usable, i))] = i
  BY <1>2, <1>4, Ranks
<1> HIDE DEF nth, C
<1>6. UsableEntries(page) \in Seq(E)
  BY <1>1, <1>3, <1>4
<1>7. DOMAIN UsableEntries(page) = 1..C
  BY <1>1
<1>8. \A i, j : EntryAt(page, i) = EntryAt(page, j) => i = j
  BY DEF EntryAt
<1>9. ASSUME NEW m \in 1..C, NEW n \in 1..C, EntryAt(page, nth[m]) = EntryAt(page, nth[n])
      PROVE  m = n
  BY <1>4, <1>8, <1>9
<1>10. ASSUME NEW i \in usable
       PROVE  \E n \in 1..C : EntryAt(page, nth[n]) = EntryAt(page, i)
  BY <1>5
<1>11. EntriesOf({page}) = E
  BY EntriesOfOne DEF usable
<1>12. \A n \in 1..C : UsableEntries(page)[n] = EntryAt(page, nth[n])
  BY <1>1
<1>13. Enumerates(UsableEntries(page), E)
  BY <1>6, <1>7, <1>9, <1>10, <1>12 DEF Enumerates
<1>14. QED
  BY <1>11, <1>13

\* The candidates of the pages read so far, page by page.
CandidatesUpTo(pages, upTo) ==
    /\ upTo[0] = <<>>
    /\ \A n \in 1..Len(pages) : upTo[n] = upTo[n - 1] \o UsableEntries(pages[n])

\* The recursion of ReadEntries has a solution.
LEMMA CandidatesPageByPage ==
  ASSUME NEW pages, Len(pages) \in Nat
  PROVE  \E upTo : CandidatesUpTo(pages, upTo) /\ ReadEntries(pages) = upTo[Len(pages)]
<1> DEFINE Solves(f, k) == f = [n \in 0..k |-> IF n = 0 THEN <<>>
                                              ELSE f[n - 1] \o UsableEntries(pages[n])]
           S == {k \in Nat : \E f : Solves(f, k)}
<1>1. 0 \in S
  <2>1. Solves([n \in 0..0 |-> <<>>], 0)
    OBVIOUS
  <2> QED BY <2>1
<1>2. ASSUME NEW k \in Nat, k \in S PROVE k + 1 \in S
  <2>1. PICK f : Solves(f, k)
    BY <1>2
  <2> DEFINE g == [n \in 0..(k + 1) |-> IF n = k + 1 THEN f[k] \o UsableEntries(pages[k + 1]) ELSE f[n]]
  <2>2. \A n \in 0..k : f[n] = IF n = 0 THEN <<>> ELSE f[n - 1] \o UsableEntries(pages[n])
    BY <2>1
  <2>3. ASSUME NEW n \in 0..(k + 1)
        PROVE  g[n] = IF n = 0 THEN <<>> ELSE g[n - 1] \o UsableEntries(pages[n])
    <3>1. CASE n = k + 1
      <4>1. n # 0 /\ n - 1 = k /\ k \in 0..(k + 1) /\ k # k + 1
        BY <3>1
      <4>2. g[n] = f[k] \o UsableEntries(pages[n]) /\ g[k] = f[k]
        BY <3>1, <4>1
      <4> QED BY <4>1, <4>2
    <3>2. CASE n # k + 1
      <4>1. n \in 0..k /\ (n # 0 => n - 1 \in 0..(k + 1) /\ n - 1 # k + 1)
        BY <3>2
      <4>2. g[n] = f[n] /\ (n # 0 => g[n - 1] = f[n - 1])
        BY <3>2, <4>1
      <4> HIDE DEF g
      <4> QED BY <2>2, <4>1, <4>2
    <3> QED BY <3>1, <3>2
  <2>4. DOMAIN g = 0..(k + 1) /\ g = [n \in 0..(k + 1) |-> g[n]]
    OBVIOUS
  <2> HIDE DEF g
  <2>5. Solves(g, k + 1)
    BY <2>3, <2>4
  <2> QED BY <2>5
<1>3. Len(pages) \in S
  <2> HIDE DEF S
  <2> QED BY <1>1, <1>2, Induct
<1>4. \E f : Solves(f, Len(pages))
  BY <1>3
<1> DEFINE upTo == CHOOSE f : Solves(f, Len(pages))
<1>5. Solves(upTo, Len(pages))
  BY <1>4
<1>6. ReadEntries(pages) = upTo[Len(pages)]
  BY DEF ReadEntries
<1> HIDE DEF upTo
<1>7. \A n \in 0..Len(pages) : upTo[n] = IF n = 0 THEN <<>> ELSE upTo[n - 1] \o UsableEntries(pages[n])
  BY <1>5
<1>8. 0 \in 0..Len(pages) /\ \A n \in 1..Len(pages) : n \in 0..Len(pages) /\ n # 0
  OBVIOUS
<1>9. CandidatesUpTo(pages, upTo)
  BY <1>7, <1>8 DEF CandidatesUpTo
<1>10. QED
  BY <1>6, <1>9

-----------------------------------------------------------------------------
(* The candidates page by page. *)

Sound(pages) ==
    /\ pages \in Seq(PagesOf(pages))
    /\ NoDuplicates(pages)
    /\ NumbersOf(pages) \subseteq Universe
    /\ \A i \in DOMAIN pages : pages[i].failed \in BOOLEAN /\ Listed(pages[i])

ReadTo(pages, k) == {pages[i] : i \in 1..k}

\* An entry names the page it stands on.
LEMMA EntriesNameTheirPage ==
  ASSUME NEW P, NEW entry \in EntriesOf(P)
  PROVE  \E page \in P : \E i \in UsableOf(page) : entry = EntryAt(page, i) /\ entry.page = page.number
BY DEF EntriesOf, EntryAt, UsableOf

\* One page further, the candidates are continued by that page.
LEMMA NextCandidates ==
  ASSUME NEW pages, NEW upTo, CandidatesUpTo(pages, upTo), NEW k \in Nat, k + 1 \in 1..Len(pages)
  PROVE  upTo[k + 1] = upTo[k] \o UsableEntries(pages[k + 1])
<1> DEFINE n == k + 1
<1>1. n \in 1..Len(pages) /\ n - 1 = k
  OBVIOUS
<1> HIDE DEF n
<1>2. upTo[n] = upTo[n - 1] \o UsableEntries(pages[n])
  BY <1>1 DEF CandidatesUpTo
<1>3. upTo[n] = upTo[k] \o UsableEntries(pages[n])
  BY <1>1, <1>2
<1> QED BY <1>3 DEF n

\* However far the pages are read, the candidates are their usable entries.
LEMMA CandidatesSoFar ==
  ASSUME NEW pages, Sound(pages), NEW upTo, CandidatesUpTo(pages, upTo)
  PROVE  \A k \in 0..Len(pages) : Enumerates(upTo[k], EntriesOf(ReadTo(pages, k)))
<1> DEFINE m == Len(pages)
           Holds(k) == Enumerates(upTo[k], EntriesOf(ReadTo(pages, k)))
           S == {k \in Nat : k <= m => Holds(k)}
<1>1. m \in Nat /\ DOMAIN pages = 1..m
  BY DEF Sound
<1>2. Holds(0)
  <2>1. ReadTo(pages, 0) = {} /\ EntriesOf({}) = {}
    BY DEF ReadTo, EntriesOf
  <2> QED BY <2>1, EmptyEnumerates DEF CandidatesUpTo
<1>3. ASSUME NEW k \in Nat, k + 1 <= m, Holds(k)
      PROVE  Holds(k + 1)
  <2> DEFINE before == ReadTo(pages, k)
             next == pages[k + 1]
  <2>1. k + 1 \in 1..m /\ k + 1 - 1 = k
    BY <1>1, <1>3
  <2>2. upTo[k + 1] = upTo[k] \o UsableEntries(next)
    BY <2>1, NextCandidates
  <2>3. Enumerates(UsableEntries(next), EntriesOf({next}))
    BY <1>1, <2>1, UsableEnumerates DEF Sound
  <2>4. ReadTo(pages, k + 1) = before \cup {next}
    <3>1. \A i : i \in 1..(k + 1) <=> i \in 1..k \/ i = k + 1
      BY <1>3
    <3> QED BY <3>1 DEF ReadTo
  <2>5. \A page \in before : page.number # next.number
    <3>1. \A i \in 1..k : i \in DOMAIN pages /\ i # k + 1
      BY <1>1, <1>3
    <3> QED BY <1>1, <2>1, <3>1 DEF ReadTo, Sound, NoDuplicates
  <2> HIDE DEF before, next
  <2>6. EntriesOf(before) \cap EntriesOf({next}) = {}
    BY <2>5, EntriesNameTheirPage
  <2>7. EntriesOf(ReadTo(pages, k + 1)) = EntriesOf(before) \cup EntriesOf({next})
    BY <2>4, EntriesOfBoth
  <2>8. Enumerates(upTo[k], EntriesOf(before))
    BY <1>3 DEF before
  <2>9. Enumerates(upTo[k] \o UsableEntries(next), EntriesOf(before) \cup EntriesOf({next}))
    BY <2>3, <2>6, <2>8, EnumerationsJoin
  <2> QED BY <2>2, <2>7, <2>9
<1> HIDE DEF Holds
<1>4. 0 \in S
  BY <1>2
<1>5. \A k \in Nat : k \in S => k + 1 \in S
  BY <1>1, <1>3
<1> HIDE DEF S
<1>6. Nat \subseteq S
  BY <1>4, <1>5, Induct
<1>7. \A k \in 0..m : Holds(k)
  BY <1>1, <1>6 DEF S
<1> QED BY <1>7 DEF Holds

\* The candidates made of a set of pages are its usable entries, each once.
LEMMA CandidatesEnumerate ==
  ASSUME NEW pages, Sound(pages)
  PROVE  Enumerates(ReadEntries(pages), EntriesOf(PagesOf(pages)))
<1>1. Len(pages) \in Nat /\ DOMAIN pages = 1..Len(pages)
  BY DEF Sound
<1>2. PICK upTo : CandidatesUpTo(pages, upTo) /\ ReadEntries(pages) = upTo[Len(pages)]
  BY <1>1, CandidatesPageByPage
<1>3. ReadTo(pages, Len(pages)) = PagesOf(pages)
  BY <1>1 DEF ReadTo, PagesOf
<1> QED BY <1>1, <1>2, <1>3, CandidatesSoFar

Begins(s, t) ==
    /\ Len(s) \in Nat /\ Len(t) \in Nat /\ Len(s) <= Len(t)
    /\ \A i \in 1..Len(s) : t[i] = s[i]

\* Candidates of further pages follow those of the pages before.
LEMMA CandidatesFollow ==
  ASSUME NEW pages, Sound(pages), NEW upTo, CandidatesUpTo(pages, upTo),
         NEW m \in 0..Len(pages)
  PROVE  Begins(upTo[m], upTo[Len(pages)])
<1> DEFINE Holds(k) == Begins(upTo[m], upTo[k])
           S == {k \in Nat : m <= k /\ k <= Len(pages) => Holds(k)}
<1>1. /\ Len(pages) \in Nat /\ DOMAIN pages = 1..Len(pages) /\ m \in Nat
      /\ \A k \in 0..Len(pages) : Len(upTo[k]) \in Nat
  <2>1. \A k \in 0..Len(pages) : upTo[k] \in Seq(EntriesOf(ReadTo(pages, k)))
    BY CandidatesSoFar DEF Enumerates
  <2>2. \A k \in 0..Len(pages) : Len(upTo[k]) \in Nat
    BY <2>1
  <2> QED BY <2>2 DEF Sound
<1>2. Holds(m)
  BY <1>1 DEF Begins
<1>3. ASSUME NEW k \in Nat, m <= k, k + 1 <= Len(pages), Holds(k)
      PROVE  Holds(k + 1)
  <2> DEFINE s == upTo[k]
             t == UsableEntries(pages[k + 1])
  <2>1. k + 1 \in 1..Len(pages) /\ k + 1 - 1 = k /\ k \in 0..Len(pages)
    BY <1>1, <1>3
  <2>2. upTo[k + 1] = s \o t
    BY <2>1, NextCandidates
  <2>3. Enumerates(t, EntriesOf({pages[k + 1]})) /\ Enumerates(s, EntriesOf(ReadTo(pages, k)))
    BY <1>1, <2>1, UsableEnumerates, CandidatesSoFar DEF Sound
  <2> DEFINE E == EntriesOf(ReadTo(pages, k))
             F == EntriesOf({pages[k + 1]})
             All == E \cup F
  <2> HIDE DEF s, t, E, F
  <2>4. s \in Seq(All) /\ t \in Seq(All)
    <3>1. s \in Seq(E) /\ t \in Seq(F)
      BY <2>3 DEF E, F, Enumerates
    <3> QED BY <3>1
  <2> HIDE DEF All
  <2>5. /\ Len(s) \in Nat /\ Len(t) \in Nat /\ Len(s \o t) = Len(s) + Len(t)
        /\ \A i \in 1..Len(s) : (s \o t)[i] = s[i]
    BY <2>4
  <2>6. Begins(upTo[m], s)
    BY <1>3 DEF s
  <2>7. Begins(upTo[m], s \o t)
    BY <2>5, <2>6 DEF Begins
  <2> QED BY <2>2, <2>7
<1> HIDE DEF Holds
<1>4. 0 \in S
  <2>1. m <= 0 => m = 0
    BY <1>1
  <2> QED BY <1>2, <2>1
<1>5. ASSUME NEW k \in Nat, k \in S PROVE k + 1 \in S
  <2>1. m <= k + 1 => m <= k \/ m = k + 1
    BY <1>1
  <2>2. k + 1 <= Len(pages) => k <= Len(pages)
    BY <1>1
  <2> QED BY <1>2, <1>3, <1>5, <2>1, <2>2
<1> HIDE DEF S
<1>6. Nat \subseteq S
  BY <1>4, <1>5, Induct
<1>7. Holds(Len(pages))
  BY <1>1, <1>6 DEF S
<1> QED BY <1>7 DEF Holds

\* Appended pages leave the candidates there are, in their places.
LEMMA CandidatesKept ==
  ASSUME NEW prior, NEW new, Sound(prior), Sound(new), Sound(prior \o new)
  PROVE  Begins(ReadEntries(prior), ReadEntries(prior \o new))
<1> DEFINE both == prior \o new
           m == Len(prior)
<1>1. /\ m \in Nat /\ Len(both) \in Nat /\ m \in 0..Len(both)
      /\ \A i \in 1..m : both[i] = prior[i] /\ i \in 1..Len(both)
  <2> DEFINE All == PagesOf(prior) \cup PagesOf(new)
  <2>1. prior \in Seq(All) /\ new \in Seq(All)
    BY DEF Sound
  <2> HIDE DEF All
  <2> QED BY <2>1
<1> HIDE DEF both
<1>2. PICK a : CandidatesUpTo(prior, a) /\ ReadEntries(prior) = a[m]
  BY <1>1, CandidatesPageByPage
<1>3. PICK b : CandidatesUpTo(both, b) /\ ReadEntries(both) = b[Len(both)]
  BY <1>1, CandidatesPageByPage
<1> DEFINE S == {k \in Nat : k <= m => a[k] = b[k]}
<1>4. 0 \in S
  BY <1>2, <1>3 DEF CandidatesUpTo
<1>5. ASSUME NEW k \in Nat, k \in S PROVE k + 1 \in S
  <2> SUFFICES ASSUME k + 1 <= m PROVE a[k + 1] = b[k + 1]
    OBVIOUS
  <2>1. k <= m /\ k + 1 \in 1..m /\ k + 1 - 1 = k
    BY <1>1
  <2>2. a[k] = b[k] /\ both[k + 1] = prior[k + 1] /\ k + 1 \in 1..Len(both)
    BY <1>1, <1>5, <2>1
  <2>3. a[k + 1] = a[k] \o UsableEntries(prior[k + 1])
    BY <1>2, <2>1, NextCandidates
  <2>4. b[k + 1] = b[k] \o UsableEntries(both[k + 1])
    BY <1>3, <2>2, NextCandidates
  <2> QED BY <2>2, <2>3, <2>4
<1>6. a[m] = b[m]
  <2> HIDE DEF S
  <2>1. Nat \subseteq S
    BY <1>4, <1>5, Induct
  <2> QED BY <1>1, <2>1 DEF S
<1>7. Begins(b[m], b[Len(both)])
  BY <1>1, <1>3, CandidatesFollow DEF both
<1> QED BY <1>2, <1>3, <1>6, <1>7 DEF both

-----------------------------------------------------------------------------
(* What is reported of a further slice. *)

\* Usable entries, counted page by page or over the set of pages.
LEMMA ExpectationsAreEntries ==
  ASSUME NEW pages
  PROVE  EntryExpectations(pages) = EntriesOf(PagesOf(pages))
BY DEF EntryExpectations, EntriesOf, PagesOf

\* An entry is of one page of its number, at a position of that page.
LEMMA EntriesArePlaced ==
  ASSUME NEW pages, Sound(pages), NEW x \in EntriesOf(PagesOf(pages))
  PROVE  /\ x.page \in NumbersOf(pages)
         /\ x.position \in Nat
         /\ x = [page |-> x.page, position |-> x.position, entry |-> x.entry]
         /\ \A y \in EntriesOf(PagesOf(pages)) :
               x.page = y.page /\ x.position = y.position => x = y
<1>1. ASSUME NEW y \in EntriesOf(PagesOf(pages))
      PROVE  \E i \in DOMAIN pages : \E p \in UsableOf(pages[i]) :
                y = EntryAt(pages[i], p) /\ y.page = pages[i].number /\ y.position = p /\ p \in Nat
  <2>1. PICK page \in PagesOf(pages) : \E p \in UsableOf(page) : y = EntryAt(page, p) /\ y.page = page.number
    BY EntriesNameTheirPage
  <2>2. PICK i \in DOMAIN pages : page = pages[i]
    BY DEF PagesOf
  <2>3. PICK p \in UsableOf(page) : y = EntryAt(page, p)
    BY <2>1
  <2>4. p \in Nat
    <3>1. Listed(page)
      BY <2>2 DEF Sound
    <3> QED BY <3>1, <2>3 DEF Listed, UsableOf
  <2> QED BY <2>1, <2>2, <2>3, <2>4 DEF EntryAt
<1>2. PICK i \in DOMAIN pages : \E p \in UsableOf(pages[i]) :
        x = EntryAt(pages[i], p) /\ x.page = pages[i].number /\ x.position = p /\ p \in Nat
  BY <1>1
<1>3. ASSUME NEW y \in EntriesOf(PagesOf(pages)), x.page = y.page, x.position = y.position
      PROVE  x = y
  <2>1. PICK j \in DOMAIN pages : \E q \in UsableOf(pages[j]) :
          y = EntryAt(pages[j], q) /\ y.page = pages[j].number /\ y.position = q
    BY <1>1
  <2>2. i = j
    BY <1>2, <1>3, <2>1 DEF Sound, NoDuplicates
  <2> QED BY <1>2, <1>3, <2>1, <2>2
<1> QED BY <1>2, <1>3 DEF NumbersOf, EntryAt

\* Of each reading there are as many candidates as entries.
LEMMA AsManyAsEntries ==
  ASSUME NEW c, NEW E, Enumerates(c, E), NEW reading
  PROVE  LET X == {x \in E : SameReading(x, reading)}
             N == {n \in DOMAIN c : SameReading(c[n], reading)}
         IN  IsFiniteSet(X) /\ IsFiniteSet(N) /\ Cardinality(X) = Cardinality(N)
<1> DEFINE X == {x \in E : SameReading(x, reading)}
           N == {n \in DOMAIN c : SameReading(c[n], reading)}
           f == [n \in N |-> c[n]]
<1>1. Len(c) \in Nat /\ DOMAIN c = 1..Len(c) /\ \A n \in DOMAIN c : c[n] \in E
  BY DEF Enumerates
<1>2. IsFiniteSet(N)
  <2>1. IsFiniteSet(1..Len(c))
    BY <1>1, FS_Interval
  <2>2. N \in SUBSET (1..Len(c))
    BY <1>1
  <2> QED BY <2>1, <2>2, FS_Subset
<1>3. f \in Bijection(N, X)
  <2>1. f \in [N -> X]
    BY <1>1
  <2>2. \A i, j \in N : f[i] = f[j] => i = j
    BY DEF Enumerates
  <2>3. \A x \in X : \E n \in N : f[n] = x
    BY DEF Enumerates
  <2> QED BY <2>1, <2>2, <2>3 DEF Bijection, Injection, Surjection, IsInjective
<1>4. IsFiniteSet(X) /\ Cardinality(X) = Cardinality(N)
  BY <1>2, <1>3, FS_Bijection DEF ExistsBijection
<1> QED BY <1>2, <1>4

AlikeOf(E, reading) == {x.position : x \in {x \in E : SameReading(x, reading)}}
EarlierOf(c, n) == {m \in 1..(n - 1) : SameReading(c[m], c[n])}

\* Positions of entries that read alike, as many as there are candidates of them.
LEMMA AlikeCount ==
  ASSUME NEW pages, Sound(pages), NEW reading
  PROVE  LET alike == AlikeOf(EntriesOf(PagesOf(pages)), reading)
             c == ReadEntries(pages)
         IN  /\ alike \in SUBSET Nat
             /\ IsFiniteSet(alike)
             /\ IsFiniteSet({n \in DOMAIN c : SameReading(c[n], reading)})
             /\ Cardinality(alike) = Cardinality({n \in DOMAIN c : SameReading(c[n], reading)})
<1> DEFINE E == EntriesOf(PagesOf(pages))
           X == {x \in E : SameReading(x, reading)}
           alike == AlikeOf(E, reading)
           c == ReadEntries(pages)
           N == {n \in DOMAIN c : SameReading(c[n], reading)}
           f == [x \in X |-> x.position]
<1>1. IsFiniteSet(X) /\ IsFiniteSet(N) /\ Cardinality(X) = Cardinality(N)
  BY CandidatesEnumerate, AsManyAsEntries
<1>2. \A x \in E : x.position \in Nat
  BY EntriesArePlaced
<1>3. \A x, y \in X : x.position = y.position => x = y
  <2>1. \A x, y \in X : x.page = y.page
    BY DEF SameReading
  <2> QED BY <2>1, EntriesArePlaced
<1> HIDE DEF E
<1>4. alike = {x.position : x \in X} /\ alike \in SUBSET Nat
  BY <1>2 DEF AlikeOf
<1> HIDE DEF X, alike
<1>5. f \in Bijection(X, alike)
  BY <1>3, <1>4 DEF Bijection, Injection, Surjection, IsInjective
<1>6. IsFiniteSet(alike) /\ Cardinality(alike) = Cardinality(X)
  BY <1>1, <1>5, FS_Bijection DEF ExistsBijection
<1> QED BY <1>1, <1>4, <1>6 DEF E, alike

\* The candidate is paired with an entry that reads like it, and by how many came before.
LEMMA PairedIsRanked ==
  ASSUME NEW pages, Sound(pages), NEW n \in DOMAIN ReadEntries(pages)
  PROVE  LET c == ReadEntries(pages)
             alike == AlikeOf(EntriesOf(PagesOf(pages)), c[n])
             p == PairedPosition(pages, c, n)
         IN  /\ p \in alike
             /\ Cardinality(Above(alike, p)) = Cardinality(EarlierOf(c, n))
             /\ IsFiniteSet(EarlierOf(c, n))
<1> DEFINE c == ReadEntries(pages)
           E == EntriesOf(PagesOf(pages))
           alike == AlikeOf(E, c[n])
           N == {m \in DOMAIN c : SameReading(c[m], c[n])}
           earlier == EarlierOf(c, n)
<1>1. alike \in SUBSET Nat /\ IsFiniteSet(alike) /\ IsFiniteSet(N) /\ Cardinality(alike) = Cardinality(N)
  BY AlikeCount
<1>2. Len(c) \in Nat /\ DOMAIN c = 1..Len(c) /\ n \in 1..Len(c)
  BY CandidatesEnumerate DEF Enumerates
<1> HIDE DEF c, E
<1>3. earlier \in SUBSET N /\ n \in N /\ n \notin earlier
  <2>1. \A m \in 1..(n - 1) : m \in DOMAIN c /\ m # n
    BY <1>2
  <2>2. n \in DOMAIN c /\ n \notin 1..(n - 1)
    BY <1>2
  <2> QED BY <2>1, <2>2 DEF EarlierOf, SameReading
<1> HIDE DEF N
<1>4. IsFiniteSet(earlier) /\ Cardinality(earlier) \in Nat /\ Cardinality(earlier) < Cardinality(N)
  <2>1. IsFiniteSet(earlier) /\ Cardinality(earlier) <= Cardinality(N) /\ Cardinality(earlier) # Cardinality(N)
    BY <1>1, <1>3, FS_Subset
  <2>2. Cardinality(earlier) \in Nat /\ Cardinality(N) \in Nat
    BY <1>1, <2>1, FS_CardinalityType
  <2> HIDE DEF earlier
  <2> QED BY <2>1, <2>2
<1> HIDE DEF alike, earlier
<1>5. \E p \in alike : Cardinality(Above(alike, p)) = Cardinality(earlier)
  BY <1>1, <1>4, RanksFromAbove
<1>6. PairedPosition(pages, c, n) = CHOOSE p \in alike : Cardinality(Above(alike, p)) = Cardinality(earlier)
  BY ExpectationsAreEntries DEF PairedPosition, Above, alike, AlikeOf, earlier, EarlierOf, E
<1> QED BY <1>4, <1>5, <1>6 DEF c, E, alike, earlier

\* No two candidates of a page are paired with one entry.
LEMMA PairedApart ==
  ASSUME NEW pages, Sound(pages),
         NEW a \in DOMAIN ReadEntries(pages), NEW b \in DOMAIN ReadEntries(pages),
         ReadEntries(pages)[a].page = ReadEntries(pages)[b].page,
         PairedPosition(pages, ReadEntries(pages), a) = PairedPosition(pages, ReadEntries(pages), b)
  PROVE  a = b
<1> DEFINE c == ReadEntries(pages)
           E == EntriesOf(PagesOf(pages))
           p == PairedPosition(pages, c, a)
<1>1. DOMAIN c = 1..Len(c) /\ Len(c) \in Nat
  BY CandidatesEnumerate DEF Enumerates
<1>2. /\ p \in AlikeOf(E, c[a]) /\ p \in AlikeOf(E, c[b])
      /\ Cardinality(Above(AlikeOf(E, c[a]), p)) = Cardinality(EarlierOf(c, a))
      /\ Cardinality(Above(AlikeOf(E, c[b]), p)) = Cardinality(EarlierOf(c, b))
      /\ IsFiniteSet(EarlierOf(c, a)) /\ IsFiniteSet(EarlierOf(c, b))
  BY PairedIsRanked
<1>3. SameReading(c[a], c[b])
  <2>1. PICK x \in E : SameReading(x, c[a]) /\ x.position = p
    BY <1>2 DEF AlikeOf
  <2>2. PICK y \in E : SameReading(y, c[b]) /\ y.position = p
    BY <1>2 DEF AlikeOf
  <2>3. x = y
    BY <2>1, <2>2, EntriesArePlaced DEF SameReading
  <2> QED BY <2>1, <2>2, <2>3 DEF SameReading
<1> HIDE DEF c, E, p
<1>4. AlikeOf(E, c[a]) = AlikeOf(E, c[b])
  BY <1>3 DEF AlikeOf, SameReading
<1>5. Cardinality(EarlierOf(c, a)) = Cardinality(EarlierOf(c, b))
  BY <1>2, <1>4
<1>6. ASSUME NEW m \in DOMAIN c, NEW n \in DOMAIN c, m < n, SameReading(c[m], c[n]),
             IsFiniteSet(EarlierOf(c, n))
      PROVE  Cardinality(EarlierOf(c, m)) # Cardinality(EarlierOf(c, n))
  <2>1. m \in 1..(n - 1) /\ m \notin 1..(m - 1) /\ \A i \in 1..(m - 1) : i \in 1..(n - 1)
    BY <1>1, <1>6
  <2>2. EarlierOf(c, m) \in SUBSET EarlierOf(c, n) /\ m \in EarlierOf(c, n) /\ m \notin EarlierOf(c, m)
    BY <1>6, <2>1 DEF EarlierOf, SameReading
  <2> QED BY <1>6, <2>2, FS_Subset
<1>7. SameReading(c[b], c[a])
  BY <1>3 DEF SameReading
<1>8. a \in DOMAIN c /\ b \in DOMAIN c /\ (a = b \/ a < b \/ b < a)
  BY <1>1 DEF c
<1> QED BY <1>2, <1>3, <1>5, <1>6, <1>7, <1>8

\* A candidate is the entry read in its place, with the number of the drawing.
LEMMA CandidatesRead ==
  ASSUME NEW pages, Sound(pages)
  PROVE  /\ DOMAIN CandidatesOf(pages) = DOMAIN ReadEntries(pages)
         /\ CandidatesOf(pages) \in Seq({CandidatesOf(pages)[n] : n \in DOMAIN ReadEntries(pages)})
         /\ Len(CandidatesOf(pages)) = Len(ReadEntries(pages))
         /\ \A n \in DOMAIN ReadEntries(pages) :
               /\ EntryOf(CandidatesOf(pages)[n]) = ReadEntries(pages)[n]
               /\ CandidatesOf(pages)[n].page = ReadEntries(pages)[n].page
               /\ CandidatesOf(pages)[n].entry = ReadEntries(pages)[n].entry
               /\ CandidatesOf(pages)[n].drawing = DrawingNumberOf(pages)
<1> DEFINE read == ReadEntries(pages)
           c == CandidatesOf(pages)
<1>1. /\ Len(read) \in Nat /\ DOMAIN read = 1..Len(read)
      /\ \A n \in DOMAIN read : read[n] \in EntriesOf(PagesOf(pages))
  BY CandidatesEnumerate DEF Enumerates
<1>2. \A n \in DOMAIN read :
        read[n] = [page |-> read[n].page, position |-> read[n].position, entry |-> read[n].entry]
  BY <1>1, EntriesArePlaced
<1>3. c = [n \in DOMAIN read |->
             [page |-> read[n].page, position |-> read[n].position, entry |-> read[n].entry,
              drawing |-> DrawingNumberOf(pages)]]
  BY DEF CandidatesOf
<1> HIDE DEF read, c
<1>4. DOMAIN c = 1..Len(read)
  BY <1>1, <1>3
<1>5. c \in Seq({c[n] : n \in DOMAIN read})
  BY <1>1, <1>3
<1>6. Len(c) = Len(read)
  <2>1. Len(c) \in Nat /\ DOMAIN c = 1..Len(c)
    BY <1>5
  <2> HIDE DEF c
  <2> QED BY <1>1, <1>4, <2>1
<1>7. \A n \in DOMAIN read :
         /\ EntryOf(c[n]) = read[n] /\ c[n].page = read[n].page /\ c[n].entry = read[n].entry
         /\ c[n].drawing = DrawingNumberOf(pages)
  <2> SUFFICES ASSUME NEW n \in DOMAIN read
               PROVE  /\ EntryOf(c[n]) = read[n] /\ c[n].page = read[n].page
                      /\ c[n].entry = read[n].entry /\ c[n].drawing = DrawingNumberOf(pages)
    OBVIOUS
  <2>1. c[n] = [page |-> read[n].page, position |-> read[n].position, entry |-> read[n].entry,
                drawing |-> DrawingNumberOf(pages)]
    BY <1>3
  <2> QED BY <1>2, <2>1 DEF EntryOf
<1> QED BY <1>1, <1>4, <1>5, <1>6, <1>7 DEF read, c

\* The one page numbered 1 gives the number.
LEMMA NumberedByPageOne ==
  ASSUME NEW pages, Sound(pages), NEW i \in DOMAIN pages, pages[i].number = 1
  PROVE  DrawingNumberOf(pages) = pages[i].drawing
<1> DEFINE ones == {k \in DOMAIN pages : pages[k].number = 1}
<1>1. ones = {i} /\ i \in Nat
  BY DEF Sound, NoDuplicates
<1> HIDE DEF ones
<1>2. Lowest(ones) = i
  BY <1>1 DEF Lowest
<1>3. DrawingNumberOf(pages) = IF ones = {} THEN Unnumbered ELSE pages[Lowest(ones)].drawing
  BY DEF DrawingNumberOf, ones
<1> QED BY <1>1, <1>2, <1>3

\* Further pages leave the number as it was unless page 1 is among them and has one.
LEMMA NumberIsKept ==
  ASSUME NEW prior, NEW new, Sound(prior), Sound(new), Sound(prior \o new),
         NumbersOf(new) \cap NumbersOf(prior) = {}
  PROVE  DrawingNumberOf(prior \o new) = DrawingNumberOf(prior) <=> ~ NumbersTheSet(new)
<1> DEFINE both == prior \o new
           m == Len(prior)
           n == Len(new)
<1>1. /\ m \in Nat /\ n \in Nat /\ DOMAIN prior = 1..m /\ DOMAIN new = 1..n
      /\ DOMAIN both = 1..(m + n)
      /\ \A i \in 1..m : both[i] = prior[i]
      /\ \A i \in 1..n : both[m + i] = new[i]
  <2> DEFINE All == PagesOf(prior) \cup PagesOf(new)
  <2>1. prior \in Seq(All) /\ new \in Seq(All)
    BY DEF Sound
  <2> HIDE DEF All
  <2> QED BY <2>1
<1>2. Sound(both)
  OBVIOUS
<1> HIDE DEF both
<1>3. /\ \A i \in 1..m : i \in DOMAIN both
      /\ \A i \in 1..n : m + i \in DOMAIN both
      /\ \A i \in DOMAIN both : i \in 1..m \/ (i - m \in 1..n /\ both[i] = new[i - m])
  BY <1>1
<1>4. ASSUME NEW i \in 1..m, prior[i].number = 1
      PROVE  DrawingNumberOf(both) = DrawingNumberOf(prior) /\ ~ NumbersTheSet(new)
  <2>1. DrawingNumberOf(prior) = prior[i].drawing
    BY <1>1, <1>4, NumberedByPageOne
  <2>2. DrawingNumberOf(both) = prior[i].drawing
    BY <1>1, <1>2, <1>3, <1>4, NumberedByPageOne
  <2>3. 1 \in NumbersOf(prior)
    BY <1>1, <1>4 DEF NumbersOf
  <2>4. ~ NumbersTheSet(new)
    BY <2>3 DEF NumbersTheSet, NumbersOf
  <2> QED BY <2>1, <2>2, <2>4
<1>5. ASSUME \A i \in 1..m : prior[i].number # 1
      PROVE  DrawingNumberOf(prior) = Unnumbered
  BY <1>1, <1>5 DEF DrawingNumberOf
<1>6. ASSUME \A i \in 1..m : prior[i].number # 1, NEW j \in 1..n, new[j].number = 1
      PROVE  DrawingNumberOf(both) = DrawingNumberOf(prior) <=> ~ NumbersTheSet(new)
  <2>1. DrawingNumberOf(both) = new[j].drawing
    BY <1>1, <1>2, <1>3, <1>6, NumberedByPageOne
  <2>2. \A k \in DOMAIN new : new[k].number = 1 => k = j
    BY <1>1, <1>6 DEF Sound, NoDuplicates
  <2>3. NumbersTheSet(new) <=> new[j].drawing # Unnumbered
    BY <1>1, <1>6, <2>2 DEF NumbersTheSet
  <2> QED BY <1>5, <1>6, <2>1, <2>3
<1>7. ASSUME \A i \in 1..m : prior[i].number # 1, \A j \in 1..n : new[j].number # 1
      PROVE  DrawingNumberOf(both) = DrawingNumberOf(prior) /\ ~ NumbersTheSet(new)
  <2>1. \A i \in DOMAIN both : both[i].number # 1
    BY <1>1, <1>3, <1>7
  <2>2. DrawingNumberOf(both) = Unnumbered
    BY <2>1 DEF DrawingNumberOf
  <2>3. ~ NumbersTheSet(new)
    BY <1>1, <1>7 DEF NumbersTheSet
  <2> QED BY <1>5, <1>7, <2>2, <2>3
<1> QED BY <1>4, <1>6, <1>7 DEF both

\* What is reported of a further slice.
LEMMA FurtherSlice ==
  ASSUME NEW prior, NEW new, Sound(prior), Sound(new), Sound(prior \o new),
         PagesOf(prior \o new) = PagesOf(prior) \cup PagesOf(new),
         NumbersOf(new) \cap NumbersOf(prior) = {}
  PROVE  LET result == AnalyzeIncremental(prior, new)
             before == CandidatesOf(prior)
             after == CandidatesOf(prior \o new)
         IN  /\ \A n \in DOMAIN before : n \in DOMAIN after /\ EntryOf(after[n]) = EntryOf(before[n])
             /\ result.preserved <=> before = <<>> \/ ~ NumbersTheSet(new)
             /\ result.verified
             /\ {x.id : x \in result.added} = (Len(before) + 1)..Len(after)
             /\ \A x, y \in result.added : x.page = y.page /\ x.position = y.position => x = y
<1> DEFINE both == prior \o new
           a == ReadEntries(prior)
           c == ReadEntries(both)
           before == CandidatesOf(prior)
           after == CandidatesOf(both)
           result == AnalyzeIncremental(prior, new)
           fresh == {n \in DOMAIN c : c[n].page \in NumbersOf(new)}
<1> HIDE DEF both
<1>1. Sound(both) /\ PagesOf(both) = PagesOf(prior) \cup PagesOf(new)
  BY DEF both
<1>2. Enumerates(a, EntriesOf(PagesOf(prior))) /\ Enumerates(c, EntriesOf(PagesOf(both)))
  BY <1>1, CandidatesEnumerate
<1>3. Begins(a, c)
  BY <1>1, CandidatesKept DEF both
<1>4. DOMAIN a = 1..Len(a) /\ DOMAIN c = 1..Len(c)
  BY <1>2 DEF Enumerates
<1>5. /\ DOMAIN before = DOMAIN a /\ Len(before) = Len(a)
      /\ DOMAIN after = DOMAIN c /\ Len(after) = Len(c)
      /\ \A n \in DOMAIN a : EntryOf(before[n]) = a[n] /\ before[n].drawing = DrawingNumberOf(prior)
      /\ \A n \in DOMAIN c : /\ EntryOf(after[n]) = c[n] /\ after[n].drawing = DrawingNumberOf(both)
                             /\ after[n].page = c[n].page /\ after[n].entry = c[n].entry
  BY <1>1, CandidatesRead
<1>6. \A n \in DOMAIN c : PairedPosition(both, after, n) = PairedPosition(both, c, n)
  <2> SUFFICES ASSUME NEW n \in DOMAIN c
               PROVE  PairedPosition(both, after, n) = PairedPosition(both, c, n)
    OBVIOUS
  <2> HIDE DEF a, c, before, after
  <2>1. \A x : SameReading(x, after[n]) <=> SameReading(x, c[n])
    BY <1>5 DEF SameReading
  <2>2. \A m \in 1..(n - 1) : SameReading(after[m], after[n]) <=> SameReading(c[m], c[n])
    <3>1. \A m \in 1..(n - 1) : m \in DOMAIN c
      BY <1>3, <1>4 DEF Begins
    <3> QED BY <1>5, <3>1 DEF SameReading
  <2> DEFINE alikeAfter == {x.position : x \in {x \in EntryExpectations(both) : SameReading(x, after[n])}}
             alike == {x.position : x \in {x \in EntryExpectations(both) : SameReading(x, c[n])}}
             earlierAfter == {m \in 1..(n - 1) : SameReading(after[m], after[n])}
             earlier == {m \in 1..(n - 1) : SameReading(c[m], c[n])}
  <2>3. alikeAfter = alike /\ earlierAfter = earlier
    BY <2>1, <2>2
  <2>4. /\ PairedPosition(both, after, n)
              = CHOOSE p \in alikeAfter : Cardinality({q \in alikeAfter : q > p}) = Cardinality(earlierAfter)
        /\ PairedPosition(both, c, n)
              = CHOOSE p \in alike : Cardinality({q \in alike : q > p}) = Cardinality(earlier)
    BY DEF PairedPosition
  <2> HIDE DEF alikeAfter, alike, earlierAfter, earlier
  <2> QED BY <2>3, <2>4
<1>7. /\ result.preserved = Preserves(before, after)
      /\ result.verified = ProvenanceVerified(both, after)
      /\ result.added = {[id |-> n, page |-> c[n].page, position |-> PairedPosition(both, c, n)] :
                            n \in fresh}
  <2>1. /\ result.preserved = Preserves(before, after)
        /\ result.verified = ProvenanceVerified(both, after)
        /\ result.added = {[id |-> n, page |-> after[n].page, position |-> PairedPosition(both, after, n)] :
                              n \in {n \in DOMAIN after : after[n].page \in NumbersOf(new)}}
    BY DEF AnalyzeIncremental, NewCandidates, both
  <2> HIDE DEF result, a, c, before, after
  <2>2. {n \in DOMAIN after : after[n].page \in NumbersOf(new)} = fresh
    BY <1>5
  <2>3. \A n \in fresh : n \in DOMAIN c
    OBVIOUS
  <2>4. \A n \in fresh :
          [id |-> n, page |-> after[n].page, position |-> PairedPosition(both, after, n)]
            = [id |-> n, page |-> c[n].page, position |-> PairedPosition(both, c, n)]
    BY <1>5, <1>6, <2>3
  <2> HIDE DEF fresh
  <2>5. {[id |-> n, page |-> after[n].page, position |-> PairedPosition(both, after, n)] : n \in fresh}
          = {[id |-> n, page |-> c[n].page, position |-> PairedPosition(both, c, n)] : n \in fresh}
    BY <2>4
  <2> QED BY <2>1, <2>2, <2>5
<1>8. ASSUME NEW n \in DOMAIN c
      PROVE  n \in fresh <=> n > Len(a)
  <2>1. CASE n <= Len(a)
    <3>1. n \in DOMAIN a /\ c[n] = a[n]
      BY <1>3, <1>4, <2>1 DEF Begins
    <3>2. a[n] \in EntriesOf(PagesOf(prior))
      BY <1>2, <3>1 DEF Enumerates
    <3>3. a[n].page \in NumbersOf(prior)
      BY <3>2, EntriesArePlaced
    <3>4. ~ (n > Len(a))
      BY <1>3, <1>4, <2>1 DEF Begins
    <3> QED BY <3>1, <3>3, <3>4
  <2>2. CASE n > Len(a)
    <3>1. c[n] \notin EntriesOf(PagesOf(prior))
      <4> SUFFICES ASSUME c[n] \in EntriesOf(PagesOf(prior)) PROVE FALSE
        OBVIOUS
      <4>1. PICK i \in DOMAIN a : a[i] = c[n]
        BY <1>2 DEF Enumerates
      <4>2. i \in DOMAIN c /\ c[i] = c[n]
        BY <1>3, <1>4, <4>1 DEF Begins
      <4>3. i = n
        BY <1>2, <4>2 DEF Enumerates
      <4> QED BY <1>3, <1>4, <2>2, <4>1, <4>3 DEF Begins
    <3>2. c[n] \in EntriesOf(PagesOf(both))
      BY <1>2 DEF Enumerates
    <3>3. c[n] \in EntriesOf(PagesOf(new))
      BY <1>1, <3>1, <3>2, EntriesOfBoth
    <3>4. c[n].page \in NumbersOf(new)
      BY <3>3, EntriesArePlaced
    <3> QED BY <2>2, <3>4
  <2>3. n <= Len(a) \/ n > Len(a)
    BY <1>3, <1>4 DEF Begins
  <2> QED BY <2>1, <2>2, <2>3
<1>9. \A n \in DOMAIN before : n \in DOMAIN after /\ EntryOf(after[n]) = EntryOf(before[n])
  <2> HIDE DEF a, c, before, after
  <2> QED BY <1>3, <1>4, <1>5 DEF Begins
<1>10. Preserves(before, after) <=> before = <<>> \/ ~ NumbersTheSet(new)
  <2>1. DrawingNumberOf(both) = DrawingNumberOf(prior) <=> ~ NumbersTheSet(new)
    BY <1>1, NumberIsKept DEF both
  <2>2. \A n \in DOMAIN before :
          after[n] = before[n] <=> DrawingNumberOf(both) = DrawingNumberOf(prior)
    <3> SUFFICES ASSUME NEW n \in DOMAIN before
                 PROVE  after[n] = before[n] <=> DrawingNumberOf(both) = DrawingNumberOf(prior)
      OBVIOUS
    <3>1. n \in DOMAIN a /\ n \in DOMAIN c /\ c[n] = a[n]
      <4> HIDE DEF a, c, before, after
      <4> QED BY <1>3, <1>4, <1>5 DEF Begins
    <3>2. before[n] = [page |-> a[n].page, position |-> a[n].position, entry |-> a[n].entry,
                       drawing |-> DrawingNumberOf(prior)]
      BY <3>1 DEF CandidatesOf
    <3>3. after[n] = [page |-> c[n].page, position |-> c[n].position, entry |-> c[n].entry,
                      drawing |-> DrawingNumberOf(both)]
      BY <3>1 DEF CandidatesOf
    <3> HIDE DEF a, c, before, after
    <3> QED BY <3>1, <3>2, <3>3
  <2>3. Len(before) <= Len(after)
    <3> HIDE DEF a, c, before, after
    <3> QED BY <1>3, <1>5 DEF Begins
  <2>4. before = <<>> <=> DOMAIN before = {}
    <3>1. before \in Seq({before[n] : n \in DOMAIN a})
      BY CandidatesRead
    <3> HIDE DEF a, before
    <3> QED BY <3>1
  <2> HIDE DEF before, after
  <2> QED BY <2>1, <2>2, <2>3, <2>4 DEF Preserves
<1>11. ProvenanceVerified(both, after)
  <2>2. Enumerates(c, EntryExpectations(both))
    BY <1>1, CandidatesEnumerate, ExpectationsAreEntries
  <2>3. ASSUME NEW reading
        PROVE  Cardinality({x \in EntryExpectations(both) : SameReading(x, reading)})
                  = Cardinality({n \in DOMAIN after : SameReading(after[n], reading)})
    <3>1. {n \in DOMAIN after : SameReading(after[n], reading)} = {n \in DOMAIN c : SameReading(c[n], reading)}
      <4> HIDE DEF c, after
      <4> QED BY <1>5 DEF SameReading
    <3> QED BY <2>2, <3>1, AsManyAsEntries
  <2> HIDE DEF after
  <2> QED BY <2>3 DEF ProvenanceVerified
<1>12. {x.id : x \in result.added} = (Len(a) + 1)..Len(c)
  <2>1. {x.id : x \in result.added} = fresh
    <3> DEFINE row(n) == [id |-> n, page |-> c[n].page, position |-> PairedPosition(both, c, n)]
    <3>1. result.added = {row(n) : n \in fresh} /\ \A n : row(n).id = n
      BY <1>7
    <3> HIDE DEF row, fresh, result
    <3> QED BY <3>1
  <2>2. fresh = (Len(a) + 1)..Len(c)
    <3> HIDE DEF a, c
    <3>1. \A n : n \in DOMAIN c /\ n > Len(a) <=> n \in (Len(a) + 1)..Len(c)
      BY <1>3, <1>4 DEF Begins
    <3>2. \A n \in fresh : n \in DOMAIN c
      OBVIOUS
    <3> HIDE DEF fresh
    <3> QED BY <1>8, <3>1, <3>2
  <2> QED BY <2>1, <2>2
<1>13. ASSUME NEW x \in result.added, NEW y \in result.added, x.page = y.page, x.position = y.position
       PROVE  x = y
  <2> DEFINE row(n) == [id |-> n, page |-> c[n].page, position |-> PairedPosition(both, c, n)]
  <2>1. PICK m \in fresh : x = row(m)
    BY <1>7
  <2>2. PICK n \in fresh : y = row(n)
    BY <1>7
  <2>3. c[m].page = c[n].page /\ PairedPosition(both, c, m) = PairedPosition(both, c, n)
    BY <1>13, <2>1, <2>2
  <2>4. m \in DOMAIN c /\ n \in DOMAIN c
    OBVIOUS
  <2>5. m = n
    BY <1>1, <2>3, <2>4, PairedApart
  <2> QED BY <2>1, <2>2, <2>5
<1> HIDE DEF result
<1> HIDE DEF a, c, before, after
<1>14. /\ \A n \in DOMAIN before : n \in DOMAIN after /\ EntryOf(after[n]) = EntryOf(before[n])
       /\ result.preserved <=> before = <<>> \/ ~ NumbersTheSet(new)
       /\ result.verified
       /\ {x.id : x \in result.added} = (Len(before) + 1)..Len(after)
       /\ \A x, y \in result.added : x.page = y.page /\ x.position = y.position => x = y
  BY <1>7, <1>10, <1>11, <1>12, <1>13, <1>5, <1>9
<1> QED BY <1>14 DEF result, before, after, both

-----------------------------------------------------------------------------
(* What the records promise each other. *)

AnalysisFields == {"pages", "digest", "analysed", "failed", "notAnalysed"}

\* The accounting is the digest's, whatever became of the records since.
AccountedOf(analysis) ==
    /\ DOMAIN analysis = AnalysisFields
    /\ Sound(analysis.digest)
    /\ analysis.analysed = Accumulation(analysis.digest).analysed
    /\ analysis.failed = Accumulation(analysis.digest).failed
    /\ analysis.notAnalysed = Accumulation(analysis.digest).notAnalysed
    /\ captured = PagesOf(analysis.digest)

AnalysisInv == IF accumulated = NoAnalysis THEN captured = {} ELSE AccountedOf(accumulated)

\* How many candidates the evidence gives so far.
Extent == Len(ReadEntries(accumulated.digest))

ResultOf(result) ==
    /\ result = [outcome |-> result.outcome, drawing |-> result.drawing]
    /\ IF result.outcome = "VERIFIED" THEN result.drawing \in Drawings ELSE result.drawing = Nothing

ProcessedOf(results) == {k \in DOMAIN results : results[k] # Unprocessed}

JobOf(j) ==
    /\ DOMAIN j = {"intake", "revision", "results"}
    /\ j.intake = Intake(j.intake.pages)
    /\ Sound(j.intake.pages)
    /\ PagesOf(j.intake.pages) \subseteq captured
    /\ accumulated # NoAnalysis
    /\ Len(j.intake.candidates) <= Extent
    /\ DOMAIN j.results = 1..Len(j.intake.candidates)
    /\ DOMAIN j.results \subseteq Ids
    /\ \A k \in DOMAIN j.results : ResultOf(j.results[k])
    /\ j.revision = Cardinality(ProcessedOf(j.results))

JobInv == job # Nothing => JobOf(job)

\* A READY package is whole: its revision is the number of its drawings.
PackageInv ==
    package # Nothing /\ package.status = "READY" =>
        /\ package.acceptance = "ACCEPTED"
        /\ package.revision = Cardinality(DOMAIN package.items)
        /\ DOMAIN package.items \subseteq Ids
        /\ \A k \in DOMAIN package.items : package.items[k] \in Drawings

ReviewInv ==
    review # Nothing /\ review.status = "ACCEPTED" =>
        /\ review.packageStatus = "READY"
        /\ review.revision = Cardinality(DOMAIN review.seen)
        /\ DOMAIN review.drawings = DOMAIN review.seen
        /\ \A k \in DOMAIN review.drawings : review.drawings[k] = "ACCEPTED"

\* Where files lie, as long as nobody changed one and no write failed.
FilesStand ==
    /\ accumulated # NoAnalysis => accumulated.pages = accumulated.digest
    /\ job # Nothing =>
          \A k \in Candidates : job.results[k].outcome = "VERIFIED" => disk[k] = job.results[k].drawing
    /\ \A k \in Ids : folder.copies[k] # Nothing => accumulated # NoAnalysis /\ k <= Extent
    /\ package # Nothing /\ package.status = "READY" =>
          \A k \in DOMAIN package.items : folder.copies[k] = package.items[k]

FilesInv ==
    /\ DOMAIN disk = Ids
    /\ DOMAIN folder = {"copies", "manifest"} /\ DOMAIN folder.copies = Ids
    /\ faults \in Nat
    /\ faults = 0 => FilesStand

CoverageInv == AnalysisInv /\ JobInv /\ PackageInv /\ ReviewInv /\ FilesInv

-----------------------------------------------------------------------------
(* Pages, their numbers and their accounting. *)

\* Pages of different numbers are counted by their numbers.
LEMMA NumbersCount ==
  ASSUME NEW pages, Sound(pages)
  PROVE  IsFiniteSet(NumbersOf(pages)) /\ Cardinality(NumbersOf(pages)) = Len(pages)
<1> DEFINE S == 1..Len(pages)
           f == [i \in S |-> pages[i].number]
<1>1. Len(pages) \in Nat /\ DOMAIN pages = S
  BY DEF Sound
<1>2. IsFiniteSet(S) /\ Cardinality(S) = Len(pages)
  <2>1. /\ IsFiniteSet(1..Len(pages))
        /\ Cardinality(1..Len(pages)) = IF 1 > Len(pages) THEN 0 ELSE Len(pages) - 1 + 1
    BY <1>1, FS_Interval
  <2> QED BY <1>1, <2>1
<1>3. f \in Bijection(S, NumbersOf(pages))
  <2>1. f \in [S -> NumbersOf(pages)]
    BY <1>1 DEF NumbersOf
  <2>2. \A i, j \in S : f[i] = f[j] => i = j
    BY <1>1 DEF Sound, NoDuplicates
  <2>3. \A n \in NumbersOf(pages) : \E i \in S : f[i] = n
    BY <1>1 DEF NumbersOf
  <2> QED BY <2>1, <2>2, <2>3 DEF Bijection, Injection, Surjection, IsInjective
<1>4. ExistsBijection(S, NumbersOf(pages))
  BY <1>3 DEF ExistsBijection
<1> QED BY <1>2, <1>4, FS_Bijection

\* Every page counts as parsed or as failed, and none as both.
LEMMA PagesArePartitioned ==
  ASSUME NEW pages, Sound(pages)
  PROVE  /\ Accumulation(pages).analysed \intersect Accumulation(pages).failed = {}
         /\ Accumulation(pages).analysed \union Accumulation(pages).failed = NumbersOf(pages)
<1> DEFINE analysed == {pages[i].number : i \in {j \in DOMAIN pages : ~pages[j].failed}}
           failed == {pages[i].number : i \in {j \in DOMAIN pages : pages[j].failed}}
<1>1. Accumulation(pages).analysed = analysed /\ Accumulation(pages).failed = failed
  BY DEF Accumulation
<1>2. analysed \intersect failed = {}
  BY DEF Sound, NoDuplicates
<1>3. analysed \union failed = NumbersOf(pages)
  BY DEF NumbersOf
<1> QED BY <1>1, <1>2, <1>3

\* What a continuation appends leaves a sound sequence.
LEMMA AppendedIsSound ==
  ASSUME NEW prior, NEW new, Sound(prior), Sound(new),
         NumbersOf(new) \intersect NumbersOf(prior) = {}
  PROVE  /\ Sound(prior \o new)
         /\ PagesOf(prior \o new) = PagesOf(prior) \union PagesOf(new)
<1> DEFINE both == prior \o new
           m == Len(prior)
           n == Len(new)
           All == PagesOf(prior) \union PagesOf(new)
<1>1. /\ m \in Nat /\ n \in Nat /\ DOMAIN prior = 1..m /\ DOMAIN new = 1..n
      /\ prior \in Seq(All) /\ new \in Seq(All)
  BY DEF Sound
<1>2. /\ both \in Seq(All) /\ DOMAIN both = 1..(m + n)
      /\ \A i \in 1..m : both[i] = prior[i]
      /\ \A i \in 1..n : both[m + i] = new[i]
  BY <1>1
<1>3. \A i \in 1..(m + n) : i \in 1..m \/ (i - m \in 1..n /\ both[i] = new[i - m])
  BY <1>1, <1>2
<1> HIDE DEF both
<1>4. PagesOf(both) = All
  <2>1. \A i \in DOMAIN both : both[i] \in All
    BY <1>2
  <2>2. \A i \in DOMAIN prior : prior[i] \in PagesOf(both)
    BY <1>1, <1>2 DEF PagesOf
  <2>3. \A i \in DOMAIN new : new[i] \in PagesOf(both)
    <3>1. \A i \in 1..n : m + i \in DOMAIN both /\ both[m + i] = new[i]
      BY <1>1, <1>2
    <3> QED BY <1>1, <3>1 DEF PagesOf
  <2> QED BY <2>1, <2>2, <2>3 DEF PagesOf
<1>5. NoDuplicates(both)
  <2> SUFFICES ASSUME NEW i \in DOMAIN both, NEW j \in DOMAIN both,
                      both[i].number = both[j].number
               PROVE  i = j
    BY DEF NoDuplicates
  <2>1. CASE i \in 1..m /\ j \in 1..m
    BY <1>1, <1>2, <2>1 DEF Sound, NoDuplicates
  <2>2. CASE i \notin 1..m /\ j \notin 1..m
    <3>1. i - m \in 1..n /\ j - m \in 1..n /\ new[i - m].number = new[j - m].number
      BY <1>2, <1>3, <2>2
    <3>2. i - m = j - m
      BY <1>1, <3>1 DEF Sound, NoDuplicates
    <3> QED BY <1>1, <1>2, <3>2
  <2>3. ASSUME NEW k \in 1..m, NEW l \in 1..n PROVE prior[k].number # new[l].number
    BY <1>1 DEF NumbersOf
  <2>4. CASE i \in 1..m /\ j \notin 1..m
    BY <1>2, <1>3, <2>3, <2>4
  <2>5. CASE i \notin 1..m /\ j \in 1..m
    BY <1>2, <1>3, <2>3, <2>5
  <2> QED BY <2>1, <2>2, <2>4, <2>5
<1>6. \A i \in DOMAIN both :
        both[i].failed \in BOOLEAN /\ Listed(both[i]) /\ both[i].number \in Universe
  <2>1. \A i \in DOMAIN prior :
           prior[i].failed \in BOOLEAN /\ Listed(prior[i]) /\ prior[i].number \in Universe
    BY DEF Sound, NumbersOf
  <2>2. \A i \in DOMAIN new :
           new[i].failed \in BOOLEAN /\ Listed(new[i]) /\ new[i].number \in Universe
    BY DEF Sound, NumbersOf
  <2> QED BY <1>1, <1>2, <1>3, <2>1, <2>2
<1>7. NumbersOf(both) \subseteq Universe
  BY <1>6 DEF NumbersOf
<1>8. Sound(both)
  BY <1>2, <1>4, <1>5, <1>6, <1>7 DEF Sound
<1> QED BY <1>4, <1>8 DEF both

-----------------------------------------------------------------------------
(* The accumulation keeps its accounting. *)

\* A slice that is accepted is a sound sequence of pages.
LEMMA SliceIsSound ==
  ASSUME NEW slice \in Slices, SliceIsValid(slice)
  PROVE  Sound(slice)
<1>1. \A i \in DOMAIN slice : Listed(slice[i])
  BY SlicesAssumption DEF Listed
<1> QED BY <1>1, SlicesAssumption DEF SliceIsValid, Sound, PagesOf

\* An accumulation is over the pages it was computed of.
LEMMA AccumulationIsAccounted ==
  ASSUME NEW pages
  PROVE  /\ DOMAIN Accumulation(pages) = AnalysisFields
         /\ Accumulation(pages).digest = pages
         /\ Accumulation(pages).pages = pages
         /\ Accumulation(pages) # NoAnalysis
<1>1. /\ DOMAIN Accumulation(pages) = AnalysisFields
      /\ Accumulation(pages).digest = pages
      /\ Accumulation(pages).pages = pages
  BY DEF Accumulation, AnalysisFields
<1>2. DOMAIN NoAnalysis = {"pages"} /\ AnalysisFields # {"pages"}
  BY DEF NoAnalysis, AnalysisFields
<1> QED BY <1>1, <1>2

\* What has the fields of an accumulation is one.
LEMMA AccountedIsSomething ==
  ASSUME NEW analysis, DOMAIN analysis = AnalysisFields
  PROVE  analysis # NoAnalysis
<1>1. DOMAIN NoAnalysis = {"pages"} /\ AnalysisFields # {"pages"}
  BY DEF NoAnalysis, AnalysisFields
<1> QED BY <1>1

\* The first slice is all that was captured.
LEMMA BeginKeeps ==
  ASSUME AnalysisInv, NEW slice \in Slices, Begin(slice)
  PROVE  AnalysisInv' /\ captured \subseteq captured'
<1>1. Sound(slice) /\ captured = {}
  BY SliceIsSound DEF Begin, AnalysisInv
<1>2. /\ accumulated' = Accumulation(slice)
      /\ captured' = PagesOf(slice)
  BY <1>1 DEF Begin
<1> QED BY <1>1, <1>2, AccumulationIsAccounted DEF AnalysisInv, AccountedOf

\* A continuation appends a slice to pages that are the digest's.
LEMMA ContinueAppends ==
  ASSUME AnalysisInv, NEW slice \in Slices, NEW expected, Continue(slice, expected)
  PROVE  /\ accumulated # NoAnalysis /\ AccountedOf(accumulated)
         /\ Sound(accumulated.digest) /\ Sound(slice)
         /\ NumbersOf(slice) \intersect NumbersOf(accumulated.digest) = {}
         /\ Sound(accumulated.digest \o slice)
         /\ PagesOf(accumulated.digest \o slice) = PagesOf(accumulated.digest) \union PagesOf(slice)
         /\ accumulated' = Accumulation(accumulated.digest \o slice)
         /\ captured' = PagesOf(accumulated.digest \o slice)
<1> DEFINE prior == accumulated.digest
<1>1. AccountedOf(accumulated) /\ accumulated.pages = prior /\ accumulated # NoAnalysis
  BY DEF Continue, ContinuationAccepted, IsSound, AnalysisInv
<1>2. Sound(prior) /\ captured = PagesOf(prior)
  BY <1>1 DEF AccountedOf
<1>3. Sound(slice) /\ NumbersOf(slice) \intersect NumbersOf(prior) = {}
  BY <1>1, SliceIsSound DEF Continue, ContinuationAccepted, Combines
<1>4. /\ accumulated' = Accumulation(prior \o slice)
      /\ captured' = captured \union PagesOf(slice)
  BY <1>1 DEF Continue
<1> HIDE DEF prior
<1>5. Sound(prior \o slice) /\ PagesOf(prior \o slice) = PagesOf(prior) \union PagesOf(slice)
  BY <1>2, <1>3, AppendedIsSound
<1> QED BY <1>1, <1>2, <1>3, <1>4, <1>5 DEF prior

\* A further slice is captured with the pages before it.
LEMMA ContinueKeeps ==
  ASSUME AnalysisInv, NEW slice \in Slices, NEW expected, Continue(slice, expected)
  PROVE  AnalysisInv' /\ captured \subseteq captured'
<1> DEFINE both == accumulated.digest \o slice
<1>1. /\ AccountedOf(accumulated) /\ Sound(both)
      /\ PagesOf(both) = PagesOf(accumulated.digest) \union PagesOf(slice)
      /\ accumulated' = Accumulation(both) /\ captured' = PagesOf(both)
  BY ContinueAppends
<1>2. captured = PagesOf(accumulated.digest)
  BY <1>1 DEF AccountedOf
<1> HIDE DEF both
<1> QED BY <1>1, <1>2, AccumulationIsAccounted DEF AnalysisInv, AccountedOf

\* A change of the records leaves what was computed over them.
LEMMA TamperKeeps ==
  ASSUME AnalysisInv, Tamper
  PROVE  AnalysisInv' /\ captured' = captured /\ accumulated'.digest = accumulated.digest
         /\ accumulated # NoAnalysis /\ accumulated' # NoAnalysis
<1>1. AccountedOf(accumulated) /\ captured' = captured
  BY DEF Tamper, AnalysisInv
<1>2. /\ DOMAIN accumulated' = AnalysisFields
      /\ accumulated'.digest = accumulated.digest
      /\ accumulated'.analysed = accumulated.analysed
      /\ accumulated'.failed = accumulated.failed
      /\ accumulated'.notAnalysed = accumulated.notAnalysed
  BY <1>1 DEF Tamper, AccountedOf, AnalysisFields
<1>3. accumulated' # NoAnalysis
  BY <1>2, AccountedIsSomething
<1> QED BY <1>1, <1>2, <1>3 DEF AnalysisInv, AccountedOf, Tamper

\* The analysis is touched by its own three operations only.
LEMMA AnalysisMoves ==
  ASSUME [NextCoverage]_vars
  PROVE  \/ \E slice \in Slices : Begin(slice)
         \/ \E slice \in Slices, expected \in Universe : Continue(slice, expected)
         \/ Tamper
         \/ UNCHANGED analysisVars
BY DEF NextCoverage, vars, analysisVars, StartJob, LeaveBlocked, DrawVerified, DrawUnverified,
       BuildBlocked, BuildReady, BuildFails, ReviewRefused, ReviewPackage, Damage

\* Every step keeps the accounting and loses no captured page.
LEMMA AnalysisSteps ==
  ASSUME AnalysisInv, [NextCoverage]_vars
  PROVE  AnalysisInv' /\ captured \subseteq captured'
<1>1. CASE UNCHANGED analysisVars
  BY <1>1 DEF analysisVars, AnalysisInv, AccountedOf
<1> QED BY <1>1, AnalysisMoves, BeginKeeps, ContinueKeeps, TamperKeeps

\* The accounting is never wrong.
LEMMA AnalysisInvariant == Spec => []AnalysisInv
<1>1. InitCoverage => AnalysisInv
  BY DEF InitCoverage, InitAnalysis, AnalysisInv
<1> QED BY <1>1, AnalysisSteps, PTL DEF Spec

(* Every page of the declared universe is analysed, failed or not analysed,  *)
(* and one of these only, for sets and slices of any size.                  *)
THEOREM PagesAreAccounted == Spec => []EveryPageAccounted
<1>1. AnalysisInv => EveryPageAccounted
  <2> SUFFICES ASSUME AnalysisInv, accumulated # NoAnalysis PROVE EveryPageAccounted
    BY DEF EveryPageAccounted
  <2> DEFINE pages == accumulated.digest
             analysed == accumulated.analysed
             failed == accumulated.failed
  <2>1. /\ Sound(pages) /\ accumulated.notAnalysed = Universe \ NumbersOf(pages)
        /\ analysed = Accumulation(pages).analysed /\ failed = Accumulation(pages).failed
    BY DEF AnalysisInv, AccountedOf, Accumulation, NotAnalysedOf
  <2> HIDE DEF pages, analysed, failed
  <2>2. analysed \intersect failed = {} /\ analysed \union failed = NumbersOf(pages)
    BY <2>1, PagesArePartitioned
  <2>3. IsFiniteSet(NumbersOf(pages)) /\ Cardinality(NumbersOf(pages)) = Len(pages)
    BY <2>1, NumbersCount
  <2>4. IsFiniteSet(analysed) /\ IsFiniteSet(failed)
    BY <2>2, <2>3, FS_Subset
  <2>5. Cardinality(analysed) \in Nat /\ Cardinality(failed) \in Nat
    BY <2>4, FS_CardinalityType
  <2>6. Cardinality(analysed \intersect failed) = 0
    BY <2>2, FS_EmptySet
  <2>7. Cardinality(analysed \union failed) = Cardinality(analysed) + Cardinality(failed)
    <3>1. Cardinality(analysed \union failed)
             = Cardinality(analysed) + Cardinality(failed) - Cardinality(analysed \intersect failed)
      BY <2>4, FS_Union, Zenon
    <3> HIDE DEF analysed, failed
    <3>2. \A a, b \in Nat : a + b - 0 = a + b
      OBVIOUS
    <3> QED BY <2>5, <2>6, <3>1, <3>2
  <2> QED BY <2>1, <2>2, <2>3, <2>7 DEF EveryPageAccounted, pages, analysed, failed
<1> QED BY <1>1, AnalysisInvariant, PTL

\* The evidence never loses a candidate.
LEMMA ExtentGrows ==
  ASSUME AnalysisInv, accumulated # NoAnalysis, [NextCoverage]_vars
  PROVE  accumulated' # NoAnalysis /\ Extent \in Nat /\ Extent' \in Nat /\ Extent <= Extent'
<1>1. Sound(accumulated.digest)
  BY DEF AnalysisInv, AccountedOf
<1>2. Extent \in Nat
  BY <1>1, CandidatesEnumerate DEF Enumerates, Extent
<1>3. ASSUME NEW slice \in Slices, NEW expected, Continue(slice, expected)
      PROVE  accumulated' # NoAnalysis /\ Extent' \in Nat /\ Extent <= Extent'
  <2>1. /\ Sound(slice) /\ Sound(accumulated.digest \o slice)
        /\ accumulated' = Accumulation(accumulated.digest \o slice)
    BY <1>3, ContinueAppends
  <2>2. accumulated' # NoAnalysis /\ accumulated'.digest = accumulated.digest \o slice
    BY <2>1, AccumulationIsAccounted
  <2>3. Begins(ReadEntries(accumulated.digest), ReadEntries(accumulated.digest \o slice))
    BY <1>1, <2>1, CandidatesKept
  <2> QED BY <2>2, <2>3 DEF Begins, Extent
<1>4. CASE accumulated'.digest = accumulated.digest /\ accumulated' # NoAnalysis
  BY <1>2, <1>4 DEF Extent
<1>5. CASE UNCHANGED analysisVars
  BY <1>4, <1>5 DEF analysisVars
<1>6. ~ \E slice \in Slices : Begin(slice)
  BY DEF Begin
<1> QED BY <1>2, <1>3, <1>4, <1>5, <1>6, AnalysisMoves, TamperKeeps

(* A continuation never moves the entries a reviewer may have answered, for  *)
(* slices of any size in any order, and its proof of that raises only where  *)
(* page 1 comes after others and numbers the drawing: see FurtherSlice       *)
(* (preservation_proof, and intake_page_extractions' drawing number).        *)
THEOREM EvidenceIsKept == Spec => EarlierEvidenceKept
<1> DEFINE Kept == accumulated # NoAnalysis /\ accumulated'.digest # accumulated.digest =>
                      EvidenceFollows(accumulated.digest, accumulated'.digest)
<1>1. ASSUME AnalysisInv, [NextCoverage]_vars PROVE Kept
  <2> SUFFICES ASSUME accumulated # NoAnalysis, accumulated'.digest # accumulated.digest
               PROVE  Kept
    OBVIOUS
  <2>1. PICK slice \in Slices, expected \in Universe : Continue(slice, expected)
    BY <1>1, AnalysisMoves, TamperKeeps DEF Begin, analysisVars
  <2> DEFINE prior == accumulated.digest
             both == prior \o slice
  <2>2. /\ Sound(prior) /\ Sound(slice) /\ Sound(both)
        /\ NumbersOf(slice) \intersect NumbersOf(prior) = {}
        /\ PagesOf(both) = PagesOf(prior) \union PagesOf(slice)
        /\ accumulated' = Accumulation(both)
    BY <1>1, <2>1, ContinueAppends
  <2>3. accumulated'.digest = both
    BY <2>2, AccumulationIsAccounted
  <2>4. SubSeq(both, Len(prior) + 1, Len(both)) = slice
    <3> DEFINE All == PagesOf(prior) \cup PagesOf(slice)
    <3> HIDE DEF prior
    <3>1. prior \in Seq(All) /\ slice \in Seq(All)
      BY <2>2 DEF Sound
    <3> HIDE DEF All
    <3> QED BY <3>1
  <2> HIDE DEF prior, both
  <2>5. LET result == AnalyzeIncremental(prior, slice)
            before == CandidatesOf(prior)
            after == CandidatesOf(both)
        IN  /\ \A n \in DOMAIN before : n \in DOMAIN after /\ EntryOf(after[n]) = EntryOf(before[n])
            /\ result.preserved <=> before = <<>> \/ ~ NumbersTheSet(slice)
            /\ result.verified
            /\ {x.id : x \in result.added} = (Len(before) + 1)..Len(after)
            /\ \A x, y \in result.added : x.page = y.page /\ x.position = y.position => x = y
    BY <2>2, FurtherSlice DEF both
  <2> QED BY <2>3, <2>4, <2>5 DEF prior, EvidenceFollows
<1>2. AnalysisInv /\ [NextCoverage]_vars => [Kept]_accumulated
  BY <1>1
<1> QED BY <1>2, AnalysisInvariant, PTL DEF Spec, EarlierEvidenceKept

-----------------------------------------------------------------------------
(* What a job holds. *)

\* A job starts with the candidates of the evidence and nothing processed.
LEMMA StartJobStands ==
  ASSUME AnalysisInv, StartJob
  PROVE  JobInv'
<1> DEFINE pages == accumulated.digest
           c == CandidatesOf(pages)
<1>1. /\ accumulated # NoAnalysis /\ accumulated.pages = pages
      /\ AccountedOf(accumulated)
      /\ accumulated' = accumulated /\ captured' = captured
  BY DEF StartJob, IsSound, AnalysisInv, analysisVars
<1>2. Sound(pages) /\ captured = PagesOf(pages)
  BY <1>1 DEF AccountedOf
<1>3. DOMAIN c = 1..Len(c) /\ Len(c) \in Nat /\ Len(c) = Len(ReadEntries(pages))
  <2>1. c \in Seq({c[n] : n \in DOMAIN ReadEntries(pages)}) /\ Len(c) = Len(ReadEntries(pages))
    BY <1>2, CandidatesRead
  <2> HIDE DEF c
  <2> QED BY <2>1
<1>4. /\ Len(c) <= MaxCandidates
      /\ job' = [intake |-> Intake(pages), revision |-> 0, results |-> [k \in DOMAIN c |-> Unprocessed]]
  BY <1>1 DEF StartJob, Intake
<1> HIDE DEF pages, c
<1>5. Intake(pages).pages = pages /\ Intake(pages).candidates = c
  BY DEF Intake, c
<1>6. /\ DOMAIN job' = {"intake", "revision", "results"}
      /\ job'.intake = Intake(pages) /\ job'.revision = 0
      /\ job'.results = [k \in 1..Len(c) |-> Unprocessed]
  BY <1>3, <1>4
<1>7. Extent' = Len(c)
  BY <1>1, <1>3 DEF Extent, pages
<1>8. ProcessedOf(job'.results) = {} /\ Cardinality({}) = 0
  BY <1>6, FS_EmptySet DEF ProcessedOf
<1>9. 1..Len(c) \subseteq Ids
  BY <1>3, <1>4, BoundsAssumption DEF Ids
<1>10. ResultOf(Unprocessed)
  BY DEF ResultOf, Unprocessed
<1>11. JobOf(job)'
  <2>1. DOMAIN job'.results = 1..Len(c) /\ \A k \in 1..Len(c) : job'.results[k] = Unprocessed
    BY <1>6
  <2>2. job'.intake = Intake(job'.intake.pages) /\ job'.intake.pages = pages /\ job'.intake.candidates = c
    BY <1>5, <1>6
  <2>3. Len(job'.intake.candidates) <= Extent' /\ accumulated' # NoAnalysis
    BY <1>1, <1>3, <1>7, <2>2
  <2>4. job'.revision = Cardinality(ProcessedOf(job'.results))
    BY <1>6, <1>8
  <2>5. \A k \in DOMAIN job'.results : ResultOf(job'.results[k])
    BY <1>10, <2>1
  <2> QED BY <1>1, <1>2, <1>6, <1>9, <2>1, <2>2, <2>3, <2>4, <2>5 DEF JobOf
<1> QED BY <1>11 DEF JobInv

\* A job's candidates are numbered without a gap.
LEMMA JobIsFinite ==
  ASSUME JobInv, job # Nothing
  PROVE  /\ Len(job.intake.candidates) \in Nat
         /\ Candidates = 1..Len(job.intake.candidates)
         /\ IsFiniteSet(Candidates)
<1>1. Sound(job.intake.pages) /\ job.intake.candidates = CandidatesOf(job.intake.pages)
  BY DEF JobInv, JobOf, Intake
<1>2. Len(job.intake.candidates) \in Nat
  BY <1>1, CandidatesEnumerate, CandidatesRead DEF Enumerates
<1>3. Candidates = 1..Len(job.intake.candidates)
  BY DEF JobInv, JobOf, Candidates
<1>4. IsFiniteSet(1..Len(job.intake.candidates))
  BY <1>2, FS_Interval
<1> QED BY <1>2, <1>3, <1>4

\* A result is recorded once, and counted.
LEMMA ProcessedStands ==
  ASSUME AnalysisInv, JobInv, [NextCoverage]_vars,
         NEW k, NEW outcome, NEW drawing, Processed(k, outcome, drawing),
         outcome # "UNPROCESSED", ResultOf([outcome |-> outcome, drawing |-> drawing])
  PROVE  JobInv'
<1> DEFINE new == [outcome |-> outcome, drawing |-> drawing]
           results == job.results
<1>1. /\ job # Nothing /\ k \in DOMAIN results /\ results[k] = Unprocessed
      /\ job' = [job EXCEPT !.revision = @ + 1, !.results[k] = new]
  BY DEF Processed, Candidates
<1>2. JobOf(job) /\ accumulated # NoAnalysis
  BY <1>1 DEF JobInv, JobOf
<1>3. new # Unprocessed /\ ResultOf(new)
  BY DEF Unprocessed
<1> HIDE DEF new
<1>4. /\ DOMAIN job' = {"intake", "revision", "results"} /\ job'.intake = job.intake
      /\ job'.revision = job.revision + 1
      /\ job'.results = [results EXCEPT ![k] = new]
  BY <1>1, <1>2 DEF JobOf
<1> HIDE DEF results
<1>5. /\ DOMAIN job'.results = DOMAIN results /\ job'.results[k] = new
      /\ \A i \in DOMAIN results : i # k => job'.results[i] = results[i]
  BY <1>1, <1>4
<1>6. captured \subseteq captured' /\ accumulated' # NoAnalysis /\ Extent \in Nat /\ Extent' \in Nat /\ Extent <= Extent'
  BY <1>2, AnalysisSteps, ExtentGrows
<1>7. IsFiniteSet(DOMAIN results) /\ Len(job.intake.candidates) \in Nat
  BY <1>1, JobIsFinite DEF results, Candidates
<1>8. ProcessedOf(job'.results) = ProcessedOf(results) \cup {k} /\ k \notin ProcessedOf(results)
  BY <1>1, <1>3, <1>5 DEF ProcessedOf
<1>9. IsFiniteSet(ProcessedOf(results))
  <2>1. ProcessedOf(results) \in SUBSET DOMAIN results
    BY DEF ProcessedOf
  <2> QED BY <1>7, <2>1, FS_Subset
<1>10. Cardinality(ProcessedOf(job'.results)) = Cardinality(ProcessedOf(results)) + 1
  BY <1>8, <1>9, FS_AddElement
<1>11. job'.revision = Cardinality(ProcessedOf(job'.results))
  BY <1>2, <1>4, <1>10 DEF JobOf, results
<1>12. \A i \in DOMAIN job'.results : ResultOf(job'.results[i])
  BY <1>2, <1>3, <1>5 DEF JobOf, results
<1>13. Len(job.intake.candidates) <= Extent'
  BY <1>2, <1>6, <1>7 DEF JobOf
<1>14. /\ job'.intake = Intake(job'.intake.pages) /\ Sound(job'.intake.pages)
       /\ PagesOf(job'.intake.pages) \subseteq captured'
       /\ Len(job'.intake.candidates) <= Extent'
       /\ DOMAIN job'.results = 1..Len(job'.intake.candidates) /\ DOMAIN job'.results \subseteq Ids
  BY <1>2, <1>4, <1>5, <1>6, <1>13 DEF JobOf, results
<1>15. JobOf(job)'
  BY <1>4, <1>6, <1>11, <1>12, <1>14 DEF JobOf
<1> QED BY <1>4, <1>15 DEF JobInv, results, new

\* A step that works a job, by what it records of one candidate.
Works(k, result) ==
    /\ Processed(k, result.outcome, result.drawing)
    /\ result = [outcome |-> result.outcome, drawing |-> result.drawing]
    /\ result.outcome # "UNPROCESSED" /\ ResultOf(result)

\* A job is moved by being started and by results only.
LEMMA JobMoves ==
  ASSUME [NextCoverage]_vars
  PROVE  \/ StartJob
         \/ \E k, result : Works(k, result)
         \/ UNCHANGED job
<1>1. ASSUME NEW k, LeaveBlocked(k) PROVE \E result : Works(k, result)
  <2>1. PICK outcome \in {"BLOCKED_REVIEW", "UNSUPPORTED_FAMILY"} : Processed(k, outcome, Nothing)
    BY <1>1 DEF LeaveBlocked
  <2>2. Works(k, [outcome |-> outcome, drawing |-> Nothing])
    BY <2>1 DEF Works, ResultOf
  <2> QED BY <2>2
<1>2. ASSUME NEW k, NEW drawing \in Drawings, DrawVerified(k, drawing) PROVE \E result : Works(k, result)
  <2>1. Works(k, [outcome |-> "VERIFIED", drawing |-> drawing])
    BY <1>2 DEF DrawVerified, Works, ResultOf
  <2> QED BY <2>1
<1>3. ASSUME NEW k, DrawUnverified(k) PROVE \E result : Works(k, result)
  <2>1. Works(k, [outcome |-> "UNVERIFIED", drawing |-> Nothing])
    BY <1>3 DEF DrawUnverified, Works, ResultOf
  <2> QED BY <2>1
<1>4. \/ StartJob
      \/ \E k \in Ids : LeaveBlocked(k)
      \/ \E k \in Ids, drawing \in Drawings : DrawVerified(k, drawing)
      \/ \E k \in Ids : DrawUnverified(k)
      \/ UNCHANGED job
  BY DEF NextCoverage, vars, BuildBlocked, BuildReady, BuildFails, ReviewRefused, ReviewPackage, Damage
<1> QED BY <1>1, <1>2, <1>3, <1>4

\* Every step keeps what a job holds.
LEMMA JobSteps ==
  ASSUME AnalysisInv, JobInv, [NextCoverage]_vars
  PROVE  JobInv'
<1>1. ASSUME NEW k, NEW result, Works(k, result) PROVE JobInv'
  BY <1>1, ProcessedStands DEF Works
<1>2. CASE UNCHANGED job
  <2> SUFFICES ASSUME job # Nothing PROVE JobOf(job)'
    BY <1>2 DEF JobInv
  <2>1. JobOf(job) /\ Len(job.intake.candidates) \in Nat
    BY JobIsFinite DEF JobInv
  <2>2. captured \subseteq captured' /\ accumulated' # NoAnalysis /\ Extent \in Nat /\ Extent' \in Nat /\ Extent <= Extent'
    BY <2>1, AnalysisSteps, ExtentGrows DEF JobOf
  <2> QED BY <1>2, <2>1, <2>2 DEF JobOf
<1> QED BY <1>1, <1>2, JobMoves, StartJobStands

-----------------------------------------------------------------------------
(* What a package and a review hold. *)

\* A job is accepted when every candidate has its verified drawing.
LEMMA AcceptedJob ==
  ASSUME JobInv, job # Nothing, JobStatus = "ACCEPTED"
  PROVE  /\ Candidates # {} /\ Candidates \subseteq Ids
         /\ \A k \in Candidates : job.results[k].drawing \in Drawings /\ job.results[k].outcome = "VERIFIED"
                                  /\ disk[k] = job.results[k].drawing
         /\ job.revision = Cardinality(Candidates)
<1>1. Candidates # {} /\ \A k \in Candidates : AcceptedConnection(k)
  BY DEF JobStatus
<1>2. /\ Candidates \subseteq Ids
      /\ \A k \in Candidates : ResultOf(job.results[k])
      /\ job.revision = Cardinality(ProcessedOf(job.results))
  BY DEF JobInv, JobOf, Candidates
<1>3. \A k \in Candidates : job.results[k] # Unprocessed
  BY <1>1 DEF AcceptedConnection, Unprocessed
<1>4. ProcessedOf(job.results) = Candidates
  BY <1>3 DEF ProcessedOf, Candidates
<1> QED BY <1>1, <1>2, <1>4 DEF AcceptedConnection, ResultOf

\* Every step keeps what a READY package holds.
LEMMA PackageSteps ==
  ASSUME JobInv, PackageInv, [NextCoverage]_vars
  PROVE  PackageInv'
<1>1. CASE BuildReady
  <2>1. /\ Candidates # {} /\ Candidates \subseteq Ids
        /\ \A k \in Candidates : job.results[k].drawing \in Drawings
        /\ job.revision = Cardinality(Candidates)
    BY <1>1, AcceptedJob DEF BuildReady
  <2>2. /\ package'.acceptance = "ACCEPTED" /\ package'.revision = job.revision
        /\ package'.items = [k \in Candidates |-> job.results[k].drawing]
    BY <1>1 DEF BuildReady, Packaged, ItemsOfJob
  <2> HIDE DEF Candidates
  <2>3. DOMAIN package'.items = Candidates /\ \A k \in Candidates : package'.items[k] \in Drawings
    BY <2>1, <2>2
  <2> QED BY <2>1, <2>2, <2>3 DEF PackageInv, Ids
<1>2. CASE package'.status = "BLOCKED"
  BY <1>2 DEF PackageInv
<1>3. CASE UNCHANGED package
  BY <1>3 DEF PackageInv
<1>4. \A items : Packaged("BLOCKED", items) => package'.status = "BLOCKED"
  BY DEF Packaged
<1>5. BuildReady \/ (\E items : Packaged("BLOCKED", items)) \/ UNCHANGED package
  BY DEF NextCoverage, vars, StartJob, LeaveBlocked, DrawVerified, DrawUnverified, BuildBlocked,
         BuildFails, ReviewRefused, ReviewPackage, Damage
<1> QED BY <1>1, <1>2, <1>3, <1>4, <1>5

\* Every step keeps what an ACCEPTED review holds.
LEMMA ReviewKeeps ==
  ASSUME PackageInv, ReviewInv, [NextCoverage]_vars
  PROVE  ReviewInv'
<1>1. ASSUME NEW sheets, NEW answer, ReviewPackage(sheets, answer), review'.status = "ACCEPTED"
      PROVE  ReviewInv'
  <2> DEFINE verdicts == [k \in DOMAIN package.items |-> Verdict(sheets[k])]
             status == IF answer # "FAIL" /\ \A k \in DOMAIN verdicts : verdicts[k] = "ACCEPTED"
                       THEN "ACCEPTED" ELSE "NOT_ACCEPTED"
  <2>1. package # Nothing /\ package.status = "READY"
    BY <1>1 DEF ReviewPackage, Deliverable
  <2>2. Reviewed(status, verdicts)
    BY <1>1 DEF ReviewPackage, Reviewed
  <2>3. /\ review'.status = status /\ review'.packageStatus = "READY"
        /\ review'.revision = package.revision
        /\ review'.drawings = verdicts /\ review'.seen = package.items
    BY <2>1, <2>2 DEF Reviewed
  <2>4. \A k \in DOMAIN verdicts : verdicts[k] = "ACCEPTED"
    BY <1>1, <2>3
  <2>5. DOMAIN verdicts = DOMAIN package.items
    OBVIOUS
  <2> HIDE DEF verdicts
  <2> QED BY <2>1, <2>3, <2>4, <2>5 DEF ReviewInv, PackageInv
<1>2. CASE review'.status # "ACCEPTED"
  BY <1>2 DEF ReviewInv
<1>3. CASE UNCHANGED review
  BY <1>3 DEF ReviewInv
<1>4. \/ review'.status # "ACCEPTED"
      \/ \E sheets, answer : ReviewPackage(sheets, answer)
      \/ UNCHANGED review
  BY DEF NextCoverage, vars, StartJob, LeaveBlocked, DrawVerified, DrawUnverified, BuildBlocked,
         BuildReady, BuildFails, ReviewRefused, Reviewed, Damage
<1> QED BY <1>1, <1>2, <1>3, <1>4

-----------------------------------------------------------------------------
(* Where files lie. *)

FilesTyped ==
    /\ DOMAIN disk = Ids
    /\ DOMAIN folder = {"copies", "manifest"} /\ DOMAIN folder.copies = Ids

\* There is a file, or none, for each id, whatever happens.
LEMMA FilesStayTyped ==
  ASSUME FilesTyped, [NextCoverage]_vars
  PROVE  FilesTyped'
<1>1. CASE BuildReady
  <2>1. /\ folder' = [copies |-> WrittenOver(folder.copies), manifest |-> folder'.manifest]
        /\ disk' = disk
    BY <1>1 DEF BuildReady
  <2> QED BY <2>1 DEF FilesTyped, WrittenOver
<1>2. ASSUME NEW q, BuildFails(q) PROVE FilesTyped'
  <2> DEFINE removed == [k \in Ids |-> IF k \in Candidates /\ k < q THEN Nothing ELSE folder.copies[k]]
  <2>1. /\ disk' = disk
        /\ \/ folder' = [folder EXCEPT !.copies = [removed EXCEPT ![q] = Garbled]]
           \/ folder' = [copies |-> removed, manifest |-> Garbled]
    BY <1>2 DEF BuildFails
  <2>2. DOMAIN removed = Ids /\ DOMAIN [removed EXCEPT ![q] = Garbled] = Ids
    OBVIOUS
  <2> HIDE DEF removed
  <2> QED BY <2>1, <2>2 DEF FilesTyped
<1>3. CASE \E k, drawing : DrawVerified(k, drawing) \/ DrawUnverified(k)
  BY <1>3 DEF DrawVerified, DrawUnverified, FilesTyped
<1>4. CASE Damage
  BY <1>4 DEF Damage, FilesTyped
<1>5. CASE UNCHANGED <<disk, folder>>
  BY <1>5 DEF FilesTyped
<1>6. \/ BuildReady \/ (\E q : BuildFails(q)) \/ Damage
      \/ (\E k, drawing : DrawVerified(k, drawing) \/ DrawUnverified(k))
      \/ UNCHANGED <<disk, folder>>
  BY DEF NextCoverage, vars, StartJob, LeaveBlocked, BuildBlocked, ReviewRefused, ReviewPackage
<1> QED BY <1>1, <1>2, <1>3, <1>4, <1>5, <1>6

\* A fault is counted.
LEMMA FaultsAreCounted ==
  ASSUME faults \in Nat, [NextCoverage]_vars
  PROVE  /\ faults' \in Nat
         /\ faults' = 0 =>
              /\ faults = 0
              /\ \/ (\E slice \in Slices : Begin(slice)) /\ UNCHANGED <<job, disk, package, folder>>
                 \/ /\ \E slice \in Slices, expected \in Universe : Continue(slice, expected)
                    /\ UNCHANGED <<job, disk, package, folder>>
                 \/ StartJob
                 \/ \E k : LeaveBlocked(k)
                 \/ \E k \in Ids, drawing \in Drawings : DrawVerified(k, drawing)
                 \/ BuildBlocked \/ BuildReady
                 \/ UNCHANGED <<accumulated, job, disk, package, folder>>
<1>1. ASSUME Fault PROVE faults' \in Nat /\ faults' # 0
  BY <1>1 DEF Fault
<1>2. CASE Fault
  BY <1>1, <1>2
<1>3. CASE ~ Fault
  <2> DEFINE Quiet ==
               \/ (\E slice \in Slices : Begin(slice)) /\ UNCHANGED <<job, disk, package, folder>>
               \/ /\ \E slice \in Slices, expected \in Universe : Continue(slice, expected)
                  /\ UNCHANGED <<job, disk, package, folder>>
               \/ StartJob
               \/ \E k : LeaveBlocked(k)
               \/ \E k \in Ids, drawing \in Drawings : DrawVerified(k, drawing)
               \/ BuildBlocked \/ BuildReady
               \/ UNCHANGED <<accumulated, job, disk, package, folder>>
  <2> SUFFICES UNCHANGED faults /\ Quiet
    OBVIOUS
  <2>1. CASE /\ \/ \E slice \in Slices : Begin(slice)
                \/ \E slice \in Slices, expected \in Universe : Continue(slice, expected)
             /\ UNCHANGED <<job, jobs, disk, package, folder, review, faults>>
    BY <2>1
  <2>2. CASE StartJob \/ (\E k : LeaveBlocked(k)) \/ BuildBlocked \/ BuildReady
    <3>1. UNCHANGED faults
      BY <2>2 DEF StartJob, LeaveBlocked, BuildBlocked, BuildReady
    <3> QED BY <2>2, <3>1
  <2>3. CASE \E k \in Ids, drawing \in Drawings : DrawVerified(k, drawing)
    <3>1. UNCHANGED faults
      BY <2>3 DEF DrawVerified
    <3> QED BY <2>3, <3>1
  <2>4. CASE ReviewRefused \/ \E sheets, answer : ReviewPackage(sheets, answer)
    <3>1. UNCHANGED <<accumulated, job, disk, package, folder, faults>>
      BY <2>4 DEF ReviewRefused, ReviewPackage, analysisVars
    <3> QED BY <3>1
  <2>5. CASE UNCHANGED vars
    BY <2>5 DEF vars
  <2>6. ~ Damage /\ ~ (\E k : DrawUnverified(k)) /\ ~ (\E q : BuildFails(q))
    BY <1>3 DEF Damage, DrawUnverified, BuildFails
  <2> HIDE DEF Quiet
  <2>7. CASE NextCoverage
    <3>1. CASE /\ package # Nothing
               /\ \E sheets \in [DOMAIN package.items -> Sheets], answer \in {"PASS", "FAIL"} :
                     ReviewPackage(sheets, answer)
      BY <2>4, <3>1
    <3>2. CASE \E k \in Ids, drawing \in Drawings : DrawVerified(k, drawing)
      BY <2>3, <3>2
    <3>3. CASE \E k \in Ids : LeaveBlocked(k)
      <4>1. \E k : LeaveBlocked(k)
        BY <3>3
      <4> QED BY <2>2, <4>1
    <3>4. CASE /\ \E slice \in Slices : Begin(slice)
               /\ UNCHANGED <<job, jobs, disk, package, folder, review, faults>>
      BY <2>1, <3>4
    <3>5. CASE /\ \E slice \in Slices, expected \in Universe : Continue(slice, expected)
               /\ UNCHANGED <<job, jobs, disk, package, folder, review, faults>>
      BY <2>1, <3>5
    <3>6. CASE StartJob \/ BuildBlocked \/ BuildReady
      BY <2>2, <3>6
    <3>7. CASE ReviewRefused
      BY <2>4, <3>7
    <3>8. ~ (Damage \/ Fault \/ (\E k \in Ids : DrawUnverified(k)) \/ \E q \in 1..MaxCandidates + 1 : BuildFails(q))
      BY <1>3, <2>6
    <3> QED BY <2>7, <3>1, <3>2, <3>3, <3>4, <3>5, <3>6, <3>7, <3>8 DEF NextCoverage
  <2> QED BY <2>7, <2>5
<1> QED BY <1>2, <1>3

\* The drawings of a job lie where its records say.
DrawingsLie ==
    job # Nothing =>
       \A k \in Candidates : job.results[k].outcome = "VERIFIED" => disk[k] = job.results[k].drawing
CopiesLie == \A k \in Ids : folder.copies[k] # Nothing => accumulated # NoAnalysis /\ k <= Extent
PackageLies ==
    package # Nothing /\ package.status = "READY" =>
       \A k \in DOMAIN package.items : folder.copies[k] = package.items[k]

\* FilesStand, part by part.
LEMMA FilesStandApart ==
  FilesStand <=> /\ accumulated # NoAnalysis => accumulated.pages = accumulated.digest
                 /\ DrawingsLie /\ CopiesLie /\ PackageLies
BY DEF FilesStand, DrawingsLie, CopiesLie, PackageLies

\* Copies stay within the candidates, of which there are never fewer.
LEMMA CopiesStay ==
  ASSUME AnalysisInv, CopiesLie, [NextCoverage]_vars, UNCHANGED folder
  PROVE  CopiesLie'
<1> SUFFICES ASSUME NEW k \in Ids, folder.copies[k] # Nothing
             PROVE  accumulated' # NoAnalysis /\ k <= Extent'
  BY DEF CopiesLie
<1>1. accumulated # NoAnalysis /\ k <= Extent
  BY DEF CopiesLie
<1>2. k \in Nat
  BY BoundsAssumption DEF Ids
<1> QED BY <1>1, <1>2, ExtentGrows

\* A result is recorded with its drawing, or leaves the files alone.
LEMMA WorkedDrawings ==
  ASSUME JobInv, DrawingsLie, FilesTyped, NEW k, NEW outcome, NEW drawing,
         Processed(k, outcome, drawing),
         \/ outcome # "VERIFIED" /\ disk' = disk
         \/ disk' = [disk EXCEPT ![k] = drawing]
  PROVE  DrawingsLie'
<1> DEFINE new == [outcome |-> outcome, drawing |-> drawing]
           results == job.results
<1>1. /\ job # Nothing /\ k \in DOMAIN results /\ JobOf(job)
      /\ job' = [job EXCEPT !.revision = @ + 1, !.results[k] = new]
  BY DEF Processed, Candidates, JobInv
<1>2. k \in Ids /\ DOMAIN results \subseteq Ids
  BY <1>1 DEF JobOf
<1>3. new.outcome = outcome /\ new.drawing = drawing
  OBVIOUS
<1> HIDE DEF new
<1>4. job'.results = [results EXCEPT ![k] = new]
  BY <1>1 DEF JobOf
<1>5. \A i \in Candidates : results[i].outcome = "VERIFIED" => disk[i] = results[i].drawing
  BY <1>1 DEF DrawingsLie, results
<1> HIDE DEF results
<1>6. /\ DOMAIN job'.results = DOMAIN results /\ job'.results[k] = new
      /\ \A i \in DOMAIN results : i # k => job'.results[i] = results[i]
  BY <1>1, <1>4
<1>7. \A i \in Ids : i # k => disk'[i] = disk[i]
  BY DEF FilesTyped
<1>8. outcome = "VERIFIED" => disk'[k] = drawing
  BY <1>2 DEF FilesTyped
<1>9. \A i \in DOMAIN results : job'.results[i].outcome = "VERIFIED" => disk'[i] = job'.results[i].drawing
  BY <1>2, <1>3, <1>5, <1>6, <1>7, <1>8 DEF Candidates, results
<1> QED BY <1>6, <1>9 DEF DrawingsLie, Candidates

\* Every step keeps where the files lie, as long as no fault is counted.
LEMMA FilesSteps ==
  ASSUME AnalysisInv, JobInv, PackageInv, FilesInv, [NextCoverage]_vars
  PROVE  FilesInv'
<1>1. FilesTyped' /\ faults' \in Nat /\ FilesTyped
  BY FilesStayTyped, FaultsAreCounted DEF FilesInv, FilesTyped
<1> SUFFICES ASSUME faults' = 0 PROVE FilesStand'
  BY <1>1 DEF FilesInv, FilesTyped
<1>2. /\ FilesStand
      /\ \/ (\E slice \in Slices : Begin(slice)) /\ UNCHANGED <<job, disk, package, folder>>
         \/ /\ \E slice \in Slices, expected \in Universe : Continue(slice, expected)
            /\ UNCHANGED <<job, disk, package, folder>>
         \/ StartJob
         \/ \E k : LeaveBlocked(k)
         \/ \E k \in Ids, drawing \in Drawings : DrawVerified(k, drawing)
         \/ BuildBlocked \/ BuildReady
         \/ UNCHANGED <<accumulated, job, disk, package, folder>>
  BY FaultsAreCounted DEF FilesInv
<1>3. /\ accumulated # NoAnalysis => accumulated.pages = accumulated.digest
      /\ DrawingsLie /\ CopiesLie /\ PackageLies
  BY <1>2, FilesStandApart
<1> SUFFICES /\ accumulated' # NoAnalysis => accumulated'.pages = accumulated'.digest
             /\ DrawingsLie' /\ CopiesLie' /\ PackageLies'
  BY DEF FilesStand, DrawingsLie, CopiesLie, PackageLies
<1>4. ASSUME UNCHANGED <<job, disk>> PROVE DrawingsLie'
  BY <1>3, <1>4 DEF DrawingsLie, Candidates
<1>5. ASSUME UNCHANGED <<package, folder>> PROVE PackageLies'
  BY <1>3, <1>5 DEF PackageLies
<1>6. ASSUME UNCHANGED folder PROVE CopiesLie'
  BY <1>3, <1>6, CopiesStay
<1>7. CASE (\E slice \in Slices : Begin(slice)) /\ UNCHANGED <<job, disk, package, folder>>
  BY <1>4, <1>5, <1>6, <1>7, AccumulationIsAccounted DEF Begin
<1>8. CASE /\ \E slice \in Slices, expected \in Universe : Continue(slice, expected)
           /\ UNCHANGED <<job, disk, package, folder>>
  <2>1. accumulated'.pages = accumulated'.digest
    BY <1>8, ContinueAppends, AccumulationIsAccounted
  <2> QED BY <1>4, <1>5, <1>6, <1>8, <2>1
<1>9. CASE StartJob
  <2>1. UNCHANGED <<accumulated, disk, package, folder>>
    BY <1>9 DEF StartJob, analysisVars
  <2>2. \A k \in DOMAIN job'.results : job'.results[k] = Unprocessed
    BY <1>9 DEF StartJob
  <2>3. DrawingsLie'
    BY <2>2 DEF DrawingsLie, Candidates, Unprocessed
  <2> QED BY <1>3, <1>5, <1>6, <2>1, <2>3
<1>10. CASE \E k : LeaveBlocked(k)
  <2>1. UNCHANGED <<accumulated, disk, package, folder>>
    BY <1>10 DEF LeaveBlocked, analysisVars
  <2>2. PICK k : LeaveBlocked(k)
    BY <1>10
  <2>3. PICK outcome \in {"BLOCKED_REVIEW", "UNSUPPORTED_FAMILY"} : Processed(k, outcome, Nothing)
    BY <2>2 DEF LeaveBlocked
  <2>4. outcome # "VERIFIED"
    OBVIOUS
  <2>5. DrawingsLie'
    BY <1>1, <1>3, <2>1, <2>3, <2>4, WorkedDrawings
  <2> QED BY <1>3, <1>5, <1>6, <2>1, <2>5
<1>11. CASE \E k \in Ids, drawing \in Drawings : DrawVerified(k, drawing)
  <2>1. PICK k \in Ids, drawing \in Drawings : DrawVerified(k, drawing)
    BY <1>11
  <2>2. UNCHANGED <<accumulated, package, folder>>
    BY <2>1 DEF DrawVerified, analysisVars
  <2>3. Processed(k, "VERIFIED", drawing) /\ disk' = [disk EXCEPT ![k] = drawing]
    BY <2>1 DEF DrawVerified
  <2>4. DrawingsLie'
    BY <1>1, <1>3, <2>3, WorkedDrawings
  <2> QED BY <1>3, <1>5, <1>6, <2>2, <2>4
<1>12. CASE BuildBlocked
  <2>1. UNCHANGED <<accumulated, job, disk, folder>>
    BY <1>12 DEF BuildBlocked, analysisVars
  <2>2. package'.status = "BLOCKED"
    BY <1>12 DEF BuildBlocked, Packaged
  <2>3. PackageLies'
    BY <2>2 DEF PackageLies
  <2> QED BY <1>3, <1>4, <1>6, <2>1, <2>3
<1>13. CASE BuildReady
  <2>1. UNCHANGED <<accumulated, job, disk>> /\ job # Nothing
    BY <1>13 DEF BuildReady, analysisVars
  <2>2. /\ package'.items = [k \in Candidates |-> job.results[k].drawing]
        /\ folder'.copies = WrittenOver(folder.copies)
    BY <1>13 DEF BuildReady, Packaged, ItemsOfJob
  <2>3. /\ Candidates \subseteq Ids /\ accumulated # NoAnalysis
        /\ Len(job.intake.candidates) <= Extent
    BY <2>1 DEF JobInv, JobOf, Candidates
  <2>4. Candidates = 1..Len(job.intake.candidates) /\ Len(job.intake.candidates) \in Nat
    BY <2>1, JobIsFinite
  <2>5. Extent \in Nat /\ Extent' = Extent
    BY <2>1, <2>3, ExtentGrows DEF Extent
  <2>6. \A k \in Candidates : k <= Extent
    BY <2>3, <2>4, <2>5
  <2> HIDE DEF Candidates
  <2>7. \A k \in Ids : folder'.copies[k] = IF k \in Candidates THEN job.results[k].drawing ELSE folder.copies[k]
    BY <2>2 DEF WrittenOver
  <2>8. PackageLies'
    BY <2>2, <2>3, <2>7 DEF PackageLies
  <2>9. \A k \in Ids : folder'.copies[k] # Nothing => accumulated' # NoAnalysis /\ k <= Extent'
    BY <1>3, <2>1, <2>3, <2>5, <2>6, <2>7 DEF CopiesLie
  <2> QED BY <1>3, <1>4, <2>1, <2>8, <2>9 DEF CopiesLie
<1>14. CASE UNCHANGED <<accumulated, job, disk, package, folder>>
  BY <1>3, <1>4, <1>5, <1>6, <1>14
<1> QED BY <1>2, <1>7, <1>8, <1>9, <1>10, <1>11, <1>12, <1>13, <1>14

\* What the analysis, the job, the package, the review and the files promise
\* each other, kept by every step.
LEMMA CoverageInvariant == Spec => []CoverageInv
<1>1. InitCoverage => CoverageInv
  <2> SUFFICES ASSUME InitCoverage PROVE CoverageInv
    OBVIOUS
  <2>1. AnalysisInv
    BY DEF InitCoverage, InitAnalysis, AnalysisInv
  <2>2. JobInv /\ PackageInv /\ ReviewInv
    BY DEF InitCoverage, JobInv, PackageInv, ReviewInv
  <2>3. FilesInv
    <3>1. /\ disk = [k \in Ids |-> Nothing] /\ folder.copies = [k \in Ids |-> Nothing]
          /\ DOMAIN folder = {"copies", "manifest"} /\ faults = 0
          /\ accumulated = NoAnalysis /\ job = Nothing /\ package = Nothing
      BY DEF InitCoverage, InitAnalysis
    <3> QED BY <3>1 DEF FilesInv, FilesStand
  <2> QED BY <2>1, <2>2, <2>3 DEF CoverageInv
<1>2. CoverageInv /\ [NextCoverage]_vars => CoverageInv'
  BY AnalysisSteps, JobSteps, PackageSteps, ReviewKeeps, FilesSteps DEF CoverageInv
<1> QED BY <1>1, <1>2, PTL DEF Spec

(* A job is never started on a page that nobody captured.                    *)
THEOREM JobsAreOfCaptures == Spec => []OnlyCapturedEvidence
<1>1. CoverageInv => OnlyCapturedEvidence
  BY DEF CoverageInv, JobInv, JobOf, OnlyCapturedEvidence
<1> QED BY <1>1, CoverageInvariant, PTL

-----------------------------------------------------------------------------
(* COMPLETE and whole. *)

\* The universe counts its pages from First.
LEMMA UniverseCounts ==
  IsFiniteSet(Universe) /\ Cardinality(Universe) = Count - First + 1
<1>1. /\ IsFiniteSet(First..Count)
      /\ Cardinality(First..Count) = IF First > Count THEN 0 ELSE Count - First + 1
  BY UniverseAssumption, FS_Interval
<1> QED BY <1>1, UniverseAssumption DEF Universe

\* What the status says when it says COMPLETE.
LEMMA CompleteSays ==
  ASSUME job # Nothing, ProjectStatus = "COMPLETE"
  PROVE  /\ IntakeAgrees /\ RecordsAgree /\ PackageAgrees /\ ReviewAgrees
         /\ job.intake.notAnalysed = 0
         /\ \A row \in PageRows : row.status = "ANALYSED"
         /\ Candidates # {}
         /\ \A k \in Candidates : Disposition(k) = "COMPLETED"
<1>1. ~ Contradicted
  BY DEF ProjectStatus
<1>2. /\ job.intake.notAnalysed = 0
      /\ \A row \in PageRows : row.status = "ANALYSED"
      /\ Candidates # {}
      /\ \A k \in Candidates : ConnectionRows[k].disposition = "COMPLETED"
  BY <1>1 DEF ProjectStatus
<1>3. \A k \in Candidates : ConnectionRows[k].disposition = Disposition(k)
  BY DEF ConnectionRows, ConnectionRow
<1> QED BY <1>1, <1>2, <1>3 DEF Contradicted

\* What a connection is that counts as COMPLETED.
LEMMA CompletedSays ==
  ASSUME NEW k, Disposition(k) = "COMPLETED"
  PROVE  /\ job.results[k].outcome = "VERIFIED"
         /\ package # Nothing /\ package.status = "READY"
         /\ review # Nothing /\ review.drawings[k] = "ACCEPTED"
BY DEF Disposition

\* A page set that leaves nothing to analyse covers the universe.
LEMMA NothingLeftIsAll ==
  ASSUME NEW pages, Sound(pages), Len(pages) = Count
  PROVE  NumbersOf(pages) = Universe
<1>1. NumbersOf(pages) \in SUBSET Universe /\ Cardinality(NumbersOf(pages)) = Count
  BY NumbersCount DEF Sound
<1>2. Cardinality(NumbersOf(pages)) <= Cardinality(Universe)
  BY <1>1, UniverseCounts, FS_Subset
<1>3. Cardinality(NumbersOf(pages)) = Cardinality(Universe)
  BY <1>1, <1>2, UniverseCounts, UniverseAssumption
<1> QED BY <1>1, <1>3, UniverseCounts, FS_Subset

\* Pages that were captured, one of each number, are all that was captured.
LEMMA CapturedWhole ==
  ASSUME NEW all, NEW pages, Sound(all), Sound(pages), PagesOf(pages) \subseteq PagesOf(all),
         NumbersOf(pages) = Universe
  PROVE  PagesOf(pages) = PagesOf(all)
<1> SUFFICES ASSUME NEW i \in DOMAIN all PROVE all[i] \in PagesOf(pages)
  BY DEF PagesOf
<1>1. all[i].number \in NumbersOf(pages)
  BY DEF Sound, NumbersOf
<1>2. PICK j \in DOMAIN pages : pages[j].number = all[i].number
  BY <1>1 DEF NumbersOf
<1>3. pages[j] \in PagesOf(pages)
  BY DEF PagesOf
<1>4. PICK k \in DOMAIN all : pages[j] = all[k]
  BY <1>3 DEF PagesOf
<1>5. k = i
  BY <1>2, <1>4 DEF Sound, NoDuplicates
<1> QED BY <1>3, <1>4, <1>5

\* A connection stands in the row of its page only.
LEMMA OneRow ==
  ASSUME job.intake.failed = {}, NEW k \in Candidates,
         job.intake.candidates[k].page \in job.intake.analysed
  PROVE  Cardinality({row \in PageRows : k \in row.candidates}) = 1
<1> DEFINE Row(n) == [number |-> n, status |-> "ANALYSED",
                      candidates |-> {i \in Candidates : job.intake.candidates[i].page = n}]
           page == job.intake.candidates[k].page
<1>1. PageRows = {Row(n) : n \in job.intake.analysed}
  BY DEF PageRows
<1>2. \A n : k \in Row(n).candidates <=> n = page
  OBVIOUS
<1> HIDE DEF Row, page
<1>3. {row \in PageRows : k \in row.candidates} = {Row(page)}
  BY <1>1, <1>2 DEF page
<1>4. Cardinality({Row(page)}) = 1
  BY FS_Singleton
<1> QED BY <1>3, <1>4

\* Three rules from the invariant: pages, entries and drawings.
LEMMA CompleteIsWholeFollows ==
  ASSUME CoverageInv
  PROVE  CompleteIsWhole
<1> SUFFICES ASSUME job # Nothing, ProjectStatus = "COMPLETE"
             PROVE  LET candidates == job.intake.candidates
                    IN  /\ \A n \in Universe : \E page \in captured : page.number = n /\ ~page.failed
                        /\ \A entry \in EntriesOf(captured) : \E k \in Candidates : EntryOf(candidates[k]) = entry
                        /\ Len(candidates) = Cardinality(EntriesOf(captured))
                        /\ \A k \in Candidates :
                              /\ Cardinality({row \in PageRows : k \in row.candidates}) = 1
                              /\ job.results[k].drawing \in Drawings
                              /\ disk[k] = job.results[k].drawing
                              /\ folder.copies[k] = job.results[k].drawing
                              /\ review.drawings[k] = "ACCEPTED"
  BY DEF CompleteIsWhole
<1> DEFINE pages == job.intake.pages
<1>1. /\ IntakeAgrees /\ RecordsAgree /\ PackageAgrees
      /\ job.intake.notAnalysed = 0
      /\ \A row \in PageRows : row.status = "ANALYSED"
      /\ Candidates # {}
      /\ \A k \in Candidates : Disposition(k) = "COMPLETED"
  BY CompleteSays
<1>2. /\ Sound(pages) /\ PagesOf(pages) \subseteq captured
      /\ job.intake = Intake(pages)
      /\ \A k \in Candidates : ResultOf(job.results[k])
      /\ job.revision = Cardinality(ProcessedOf(job.results))
      /\ accumulated # NoAnalysis
  BY DEF CoverageInv, JobInv, JobOf, Candidates
<1>3. captured = PagesOf(accumulated.digest) /\ Sound(accumulated.digest)
  BY <1>2 DEF CoverageInv, AnalysisInv, AccountedOf
<1>4. /\ Candidates = 1..Len(job.intake.candidates) /\ Len(job.intake.candidates) \in Nat
      /\ IsFiniteSet(Candidates)
  BY JobIsFinite DEF CoverageInv
<1>5. /\ job.intake.candidates = CandidatesOf(pages) /\ job.intake.count = Count
      /\ job.intake.analysed = Accumulation(pages).analysed
      /\ job.intake.failed = Accumulation(pages).failed
      /\ job.intake.pages = pages
  BY <1>2 DEF Intake
<1> HIDE DEF pages
<1>6. NumbersOf(pages) = Universe
  <2>1. Len(pages) \in Nat
    BY <1>2 DEF Sound
  <2>2. Len(pages) = Count
    BY <1>1, <1>5, <2>1, UniverseAssumption DEF IntakeAgrees
  <2> QED BY <1>2, <2>2, NothingLeftIsAll
<1>7. captured = PagesOf(pages)
  BY <1>2, <1>3, <1>6, CapturedWhole
<1>8. job.intake.failed = {}
  <2> SUFFICES ASSUME NEW n \in job.intake.failed PROVE FALSE
    OBVIOUS
  <2>1. [number |-> n, status |-> "PARSE_FAILED", candidates |-> {}] \in PageRows
    BY DEF PageRows
  <2> QED BY <1>1, <2>1
<1>9. \A n \in Universe : \E page \in captured : page.number = n /\ ~page.failed
  <2> SUFFICES ASSUME NEW n \in Universe PROVE \E page \in captured : page.number = n /\ ~page.failed
    OBVIOUS
  <2>1. PICK i \in DOMAIN pages : pages[i].number = n
    BY <1>6 DEF NumbersOf
  <2>2. ~ pages[i].failed
    BY <1>5, <1>8 DEF Accumulation
  <2> QED BY <1>7, <2>1, <2>2 DEF PagesOf
<1>10. /\ Enumerates(ReadEntries(pages), EntriesOf(captured))
       /\ DOMAIN ReadEntries(pages) = Candidates
       /\ Len(job.intake.candidates) = Len(ReadEntries(pages))
       /\ DOMAIN job.intake.candidates = Candidates
       /\ \A k \in Candidates : EntryOf(job.intake.candidates[k]) = ReadEntries(pages)[k]
  <2>1. Enumerates(ReadEntries(pages), EntriesOf(captured))
    BY <1>2, <1>7, CandidatesEnumerate DEF pages
  <2>2. /\ Len(job.intake.candidates) = Len(ReadEntries(pages))
        /\ DOMAIN job.intake.candidates = DOMAIN ReadEntries(pages)
        /\ \A k \in DOMAIN ReadEntries(pages) : EntryOf(job.intake.candidates[k]) = ReadEntries(pages)[k]
    <3> DEFINE c == CandidatesOf(pages)
    <3>1. job.intake.candidates = c
      BY <1>5
    <3>2. /\ Len(c) = Len(ReadEntries(pages)) /\ DOMAIN c = DOMAIN ReadEntries(pages)
          /\ \A k \in DOMAIN ReadEntries(pages) : EntryOf(c[k]) = ReadEntries(pages)[k]
      BY <1>2, CandidatesRead
    <3> HIDE DEF c
    <3> QED BY <3>1, <3>2
  <2>3. DOMAIN ReadEntries(pages) = 1..Len(ReadEntries(pages))
    BY <2>1 DEF Enumerates
  <2> QED BY <1>4, <2>1, <2>2, <2>3
<1>11. Len(job.intake.candidates) = Cardinality(EntriesOf(captured))
  BY <1>10, EnumerationCounts
<1>12. \A entry \in EntriesOf(captured) : \E k \in Candidates : EntryOf(job.intake.candidates[k]) = entry
  BY <1>10 DEF Enumerates
<1>13. \A k \in Candidates : Cardinality({row \in PageRows : k \in row.candidates}) = 1
  BY <1>1, <1>8, <1>10, OneRow DEF IntakeAgrees
<1>14. /\ \A k \in Candidates : /\ job.results[k].outcome = "VERIFIED"
                                /\ review.drawings[k] = "ACCEPTED"
       /\ package # Nothing /\ package.status = "READY"
  BY <1>1, CompletedSays
<1>15. \A k \in Candidates :
          job.results[k].drawing \in Drawings /\ disk[k] = job.results[k].drawing
  BY <1>1, <1>2, <1>14 DEF RecordsAgree, FileStands, ResultOf
<1>16. DOMAIN package.items = Candidates
  <2>1. ProcessedOf(job.results) = Candidates
    BY <1>14 DEF ProcessedOf, Candidates, Unprocessed
  <2>2. /\ package.revision = Cardinality(Candidates)
        /\ DOMAIN package.items \in SUBSET Candidates
    BY <1>1, <1>2, <1>14, <2>1 DEF PackageAgrees
  <2>3. package.revision = Cardinality(DOMAIN package.items)
    BY <1>14 DEF CoverageInv, PackageInv
  <2> QED BY <1>4, <2>2, <2>3, FS_Subset
<1>17. \A k \in Candidates : folder.copies[k] = job.results[k].drawing
  BY <1>1, <1>14, <1>16 DEF PackageAgrees
<1> QED BY <1>9, <1>11, <1>12, <1>13, <1>14, <1>15, <1>17

(* A project is COMPLETE only when every page of the set was captured and   *)
(* parsed and every connection entry on any of them has its verified,      *)
(* packaged and accepted drawing, for page sets and jobs of any size       *)
(* (evaluate_production_coverage's three rules).                            *)
THEOREM CompleteIsAlwaysWhole == Spec => []CompleteIsWhole
BY CoverageInvariant, CompleteIsWholeFollows, PTL

-----------------------------------------------------------------------------

\* What WholeIsComplete asks of the records.
Whole ==
    /\ accumulated.failed = {} /\ accumulated.notAnalysed = {}
    /\ job.intake.pages = accumulated.pages
    /\ Candidates # {}
    /\ package.status = "READY" /\ package.items = ItemsOfJob
    /\ review.status = "ACCEPTED" /\ review.seen = package.items

\* The intake of a set that was read whole contradicts nothing.
LEMMA WholeIntakeAgrees ==
  ASSUME First = 1, CoverageInv, job # Nothing,
         accumulated.failed = {}, accumulated.notAnalysed = {},
         job.intake.pages = accumulated.digest
  PROVE  /\ IntakeAgrees /\ job.intake.notAnalysed = 0
         /\ \A row \in PageRows : row.status = "ANALYSED"
         /\ Len(job.intake.candidates) = Extent
<1> DEFINE pages == job.intake.pages
<1>1. /\ Sound(pages) /\ job.intake = Intake(pages) /\ AccountedOf(accumulated)
  BY DEF CoverageInv, AnalysisInv, JobInv, JobOf
<1>2. /\ job.intake.candidates = CandidatesOf(pages) /\ job.intake.count = Count
      /\ job.intake.analysed = Accumulation(pages).analysed
      /\ job.intake.failed = Accumulation(pages).failed
      /\ job.intake.pages = pages
      /\ job.intake.notAnalysed = IF Count < Len(pages) THEN 0 ELSE Count - Len(pages)
  BY <1>1 DEF Intake
<1>3. pages = accumulated.digest
  OBVIOUS
<1> HIDE DEF pages
<1>4. Accumulation(pages).failed = {} /\ Accumulation(pages).notAnalysed = {}
  BY <1>1, <1>3 DEF AccountedOf
<1>5. NumbersOf(pages) = Universe
  BY <1>1, <1>4 DEF Accumulation, NotAnalysedOf, Sound
<1>6. Len(pages) = Count /\ Cardinality(NumbersOf(pages)) = Count
  BY <1>1, <1>5, NumbersCount, UniverseCounts, UniverseAssumption
<1>7. job.intake.analysed = Universe /\ job.intake.failed = {}
  <2>1. Accumulation(pages).analysed \union Accumulation(pages).failed = NumbersOf(pages)
    BY <1>1, PagesArePartitioned
  <2> QED BY <1>2, <1>4, <1>5, <2>1
<1>8. job.intake.notAnalysed = 0 /\ job.intake.notAnalysed + Len(pages) = job.intake.count
  BY <1>2, <1>6, UniverseAssumption
<1>9. Len(pages) = Cardinality(job.intake.analysed) + Cardinality(job.intake.failed)
  BY <1>5, <1>6, <1>7, FS_EmptySet, UniverseAssumption
<1>10. \A n \in job.intake.analysed \union job.intake.failed : 0 < n /\ n <= job.intake.count
  BY <1>2, <1>7, UniverseAssumption DEF Universe
<1>11. \A k \in DOMAIN job.intake.candidates : job.intake.candidates[k].page \in job.intake.analysed
  <2> SUFFICES ASSUME NEW k \in DOMAIN job.intake.candidates
               PROVE  job.intake.candidates[k].page \in NumbersOf(pages)
    BY <1>5, <1>7
  <2> DEFINE c == CandidatesOf(pages)
  <2>1. k \in DOMAIN c /\ job.intake.candidates[k].page = c[k].page
    BY <1>2
  <2> HIDE DEF c
  <2>2. k \in DOMAIN ReadEntries(pages) /\ job.intake.candidates[k].page = ReadEntries(pages)[k].page
    BY <1>1, <2>1, CandidatesRead DEF c
  <2>3. ReadEntries(pages)[k] \in EntriesOf(PagesOf(pages))
    BY <1>1, <2>2, CandidatesEnumerate DEF Enumerates
  <2> QED BY <1>1, <2>2, <2>3, EntriesArePlaced
<1>12. IntakeAgrees
  BY <1>2, <1>7, <1>8, <1>9, <1>10, <1>11 DEF IntakeAgrees
<1>13. \A row \in PageRows : row.status = "ANALYSED"
  BY <1>7 DEF PageRows
<1>14. Len(job.intake.candidates) = Len(ReadEntries(pages))
  BY <1>1, <1>2, CandidatesRead
<1> QED BY <1>3, <1>8, <1>12, <1>13, <1>14 DEF Extent

\* A package that shows the job's records has a verified drawing of each.
LEMMA PackagedIsVerified ==
  ASSUME CoverageInv, job # Nothing, package # Nothing,
         package.status = "READY", package.items = ItemsOfJob
  PROVE  /\ DOMAIN package.items = Candidates
         /\ \A k \in Candidates : /\ package.items[k] = job.results[k].drawing
                                  /\ job.results[k].drawing \in Drawings
                                  /\ job.results[k].outcome = "VERIFIED"
         /\ job.revision = Cardinality(Candidates)
<1>1. /\ DOMAIN package.items = Candidates
      /\ \A k \in Candidates : package.items[k] = job.results[k].drawing
  BY DEF ItemsOfJob
<1>2. \A k \in Candidates : job.results[k].drawing \in Drawings
  BY <1>1 DEF CoverageInv, PackageInv
<1>3. \A k \in Candidates : job.results[k].outcome = "VERIFIED"
  BY <1>2, FilesAssumption DEF CoverageInv, JobInv, JobOf, ResultOf, Candidates
<1>4. ProcessedOf(job.results) = Candidates
  BY <1>3 DEF ProcessedOf, Unprocessed, Candidates
<1>5. job.revision = Cardinality(Candidates)
  BY <1>4 DEF CoverageInv, JobInv, JobOf
<1> QED BY <1>1, <1>2, <1>3, <1>5

\* No record of a whole set contradicts another.
LEMMA WholeIsCompleteFollows ==
  ASSUME First = 1, CoverageInv
  PROVE  WholeIsComplete
<1> SUFFICES ASSUME faults = 0, job # Nothing, package # Nothing, review # Nothing, Whole
             PROVE  ProjectStatus = "COMPLETE"
  BY DEF WholeIsComplete, Whole
<1>1. accumulated # NoAnalysis
  BY DEF CoverageInv, JobInv, JobOf
<1>2. /\ accumulated.pages = accumulated.digest
      /\ DrawingsLie /\ CopiesLie /\ PackageLies
  BY <1>1, FilesStandApart DEF CoverageInv, FilesInv
<1>3. /\ IntakeAgrees /\ job.intake.notAnalysed = 0
      /\ \A row \in PageRows : row.status = "ANALYSED"
      /\ Len(job.intake.candidates) = Extent
  BY <1>2, WholeIntakeAgrees DEF Whole
<1>4. /\ Candidates # {} /\ Candidates = 1..Len(job.intake.candidates)
      /\ Len(job.intake.candidates) \in Nat
  BY JobIsFinite DEF CoverageInv, Whole
<1>5. /\ DOMAIN package.items = Candidates
      /\ \A k \in Candidates : /\ package.items[k] = job.results[k].drawing
                               /\ job.results[k].drawing \in Drawings
                               /\ job.results[k].outcome = "VERIFIED"
      /\ job.revision = Cardinality(Candidates)
  BY PackagedIsVerified DEF Whole
<1>6. \A k \in Candidates : disk[k] = job.results[k].drawing /\ disk[k] # Nothing
  BY <1>2, <1>5, FilesAssumption DEF DrawingsLie
<1>7. (\A k \in Candidates : AcceptedConnection(k)) /\ JobStatus = "ACCEPTED"
  BY <1>4, <1>5, <1>6 DEF AcceptedConnection, JobStatus
<1>8. RecordsAgree
  BY <1>6, <1>7 DEF RecordsAgree, FileStands
<1>9. \A k \in Ids : folder.copies[k] # Nothing => k \in Candidates
  <2>1. \A k \in Ids : k \in Nat /\ k >= 1
    BY BoundsAssumption DEF Ids
  <2>2. \A k \in Ids : folder.copies[k] # Nothing => k <= Extent
    BY <1>2 DEF CopiesLie
  <2> HIDE DEF Candidates
  <2> QED BY <1>3, <1>4, <2>1, <2>2
<1>10. package.revision = Cardinality(DOMAIN package.items) /\ package.acceptance = "ACCEPTED"
  BY DEF CoverageInv, PackageInv, Whole
<1>11. PackageAgrees
  <2>1. \A k \in DOMAIN package.items : folder.copies[k] = package.items[k]
    BY <1>2 DEF PackageLies, Whole
  <2> QED BY <1>4, <1>5, <1>7, <1>9, <1>10, <2>1 DEF PackageAgrees
<1>12. /\ review.packageStatus = "READY" /\ review.revision = Cardinality(DOMAIN review.seen)
       /\ DOMAIN review.drawings = DOMAIN review.seen
       /\ \A k \in DOMAIN review.drawings : review.drawings[k] = "ACCEPTED"
  BY DEF CoverageInv, ReviewInv, Whole
<1>13. ReviewAgrees
  BY <1>5, <1>12 DEF ReviewAgrees, Whole
<1>14. \A k \in Candidates : Disposition(k) = "COMPLETED"
  BY <1>5, <1>12 DEF Disposition, Whole
<1>15. \A k \in Candidates : ConnectionRows[k].disposition = "COMPLETED"
  BY <1>14 DEF ConnectionRows, ConnectionRow
<1> QED BY <1>3, <1>4, <1>8, <1>11, <1>13, <1>15 DEF ProjectStatus, Contradicted

\* A set whose pages do not start at 1 is never COMPLETE: its intake counts
\* the pages before First as never analysed.
OnlyFromPageOne == job # Nothing /\ ProjectStatus = "COMPLETE" => First = 1

(* Why WholeSetIsComplete needs First = 1: whatever was read, packaged and  *)
(* accepted, a drawing set with another first page stays INCOMPLETE         *)
(* (intake_for_accumulated: pages not analysed are Count less those read).  *)
THEOREM CompleteStartsAtPageOne == Spec => []OnlyFromPageOne
<1>1. ASSUME CoverageInv, job # Nothing, ProjectStatus = "COMPLETE" PROVE First = 1
  <2> DEFINE pages == job.intake.pages
  <2>1. Sound(pages) /\ job.intake = Intake(pages)
    BY <1>1 DEF CoverageInv, JobInv, JobOf
  <2>2. job.intake.count = Count /\ job.intake.pages = pages
    BY <2>1 DEF Intake
  <2> HIDE DEF pages
  <2>3. Len(pages) \in Nat /\ NumbersOf(pages) \in SUBSET Universe
    BY <2>1 DEF Sound
  <2>4. Len(pages) = Count
    BY <1>1, <2>2, <2>3, CompleteSays, UniverseAssumption DEF IntakeAgrees
  <2>5. Cardinality(NumbersOf(pages)) = Count
    BY <2>1, <2>4, NumbersCount
  <2>6. Cardinality(NumbersOf(pages)) <= Cardinality(Universe)
    BY <2>3, UniverseCounts, FS_Subset
  <2> QED BY <2>5, <2>6, UniverseCounts, UniverseAssumption
<1> QED BY <1>1, CoverageInvariant, PTL DEF OnlyFromPageOne

(* And the other way round, for a set whose pages are numbered from 1: when *)
(* nothing was changed by hand and no write failed, a set read whole,       *)
(* packaged and accepted as a whole is COMPLETE, whatever jobs and packages *)
(* came before it.  (The intake counts the pages before First as never      *)
(* analysed, so no other set can be COMPLETE.)                              *)
THEOREM WholeSetIsComplete ==
  ASSUME First = 1
  PROVE  Spec => []WholeIsComplete
BY CoverageInvariant, WholeIsCompleteFollows, PTL

-----------------------------------------------------------------------------
(* The fabricator's checklist. *)

\* A sheet that reconciles with a drawing and accepts it finds no contradiction:
\* one would contradict both judgements, which could only be failed.
LEMMA AcceptedSheetContradictsNothing ==
  ASSUME NEW drawing, NEW sheet \in Sheets, DOMAIN sheet = ChecklistItems,
         Reconciles(drawing, sheet), Verdict(sheet) = "ACCEPTED",
         NEW item \in BaseItems
  PROVE  Shows[drawing][item] # "CONTRADICTED"
<1> SUFFICES ASSUME Shows[drawing][item] = "CONTRADICTED" PROVE FALSE
  OBVIOUS
<1>1. "AMBIGUITY" \in ChecklistItems
  BY DEF ChecklistItems, Judgements
<1>2. EvidenceStatus(drawing, "AMBIGUITY", sheet) = "CONTRADICTED"
  BY DEF EvidenceStatus, Judgements
<1>3. sheet["AMBIGUITY"] # "PASS" /\ sheet["AMBIGUITY"] # "NOT_APPLICABLE"
  BY <1>1, <1>2 DEF Reconciles
<1>4. sheet["AMBIGUITY"] = "FAIL"
  BY <1>1, <1>3, SheetsAssumption
<1> QED BY <1>1, <1>4 DEF Verdict

\* Every step keeps what was accepted free of contradictions.
LEMMA ReviewSteps ==
  ASSUME AcceptedContradictsNothing, [NextCoverage]_vars
  PROVE  AcceptedContradictsNothing'
<1>1. ASSUME Reviewed("REFUSED", NoItems)
      PROVE  AcceptedContradictsNothing'
  <2>1. review'.drawings = NoItems
    BY <1>1 DEF Reviewed
  <2> QED BY <2>1 DEF AcceptedContradictsNothing, NoItems
<1>2. ASSUME NEW sheets \in [DOMAIN package.items -> Sheets], NEW answer,
             ReviewPackage(sheets, answer)
      PROVE  AcceptedContradictsNothing'
  <2>1. CASE \A k \in DOMAIN package.items :
                /\ DOMAIN sheets[k] = ChecklistItems
                /\ Reconciles(package.items[k], sheets[k])
    <3>1. /\ review'.drawings = [k \in DOMAIN package.items |-> Verdict(sheets[k])]
          /\ review'.seen = package.items
      BY <1>2, <2>1 DEF ReviewPackage, Reviewed
    <3>2. \A k \in DOMAIN package.items : sheets[k] \in Sheets
      OBVIOUS
    <3>3. \A k \in DOMAIN review'.drawings :
             review'.drawings[k] = "ACCEPTED" =>
                \A item \in BaseItems : Shows[review'.seen[k]][item] # "CONTRADICTED"
      BY <2>1, <3>1, <3>2, AcceptedSheetContradictsNothing
    <3> QED BY <3>3 DEF AcceptedContradictsNothing
  <2>2. CASE ~ \A k \in DOMAIN package.items :
                  /\ DOMAIN sheets[k] = ChecklistItems
                  /\ Reconciles(package.items[k], sheets[k])
    BY <1>1, <1>2, <2>2 DEF ReviewPackage
  <2> QED BY <2>1, <2>2
<1>3. CASE UNCHANGED review
  BY <1>3 DEF AcceptedContradictsNothing
<1>4. \/ Reviewed("REFUSED", NoItems)
      \/ \E sheets \in [DOMAIN package.items -> Sheets], answer \in {"PASS", "FAIL"} :
            ReviewPackage(sheets, answer)
      \/ UNCHANGED review
  BY DEF NextCoverage, vars, StartJob, LeaveBlocked, DrawVerified, DrawUnverified, BuildBlocked,
         BuildReady, BuildFails, ReviewRefused, Damage
<1> QED BY <1>1, <1>2, <1>3, <1>4

(* No checklist that is filled in accepts a drawing that contradicts the     *)
(* records it was made from, whatever its items and the drawings may be.    *)
THEOREM AcceptanceContradictsNothing == Spec => []AcceptedContradictsNothing
<1>1. InitCoverage => AcceptedContradictsNothing
  BY DEF InitCoverage, AcceptedContradictsNothing
<1> QED BY <1>1, ReviewSteps, PTL DEF Spec
=============================================================================
