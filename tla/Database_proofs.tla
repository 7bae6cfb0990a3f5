--------------------------- MODULE Database_proofs ---------------------------
(* Theorems about Backfill, RunOnce, DatabaseSetup and Migrations, for any  *)
(* finite set of keys and any batch size, replicas, tasks and runs.          *)
EXTENDS Backfill, Migrations, RunOnce, DatabaseSetup, FiniteSetTheorems, WellFoundedInduction, TLAPS

-----------------------------------------------------------------------------
(* Sets of keys.                                                             *)

LEMMA LeastElement ==
    ASSUME NEW S \in SUBSET Nat, S # {}
    PROVE  \E k \in S : \A j \in S : k <= j
<1> DEFINE Less == {ss \in Nat \X Nat : ss[1] < ss[2]}
<1>1. IsWellFoundedOn(Less, Nat)
  BY NatLessThanWellFounded, Zenon DEF OpToRel
<1>2. PICK k \in S : \A j \in S : <<j, k>> \notin Less
  <2> HIDE DEF Less
  <2> QED
    BY <1>1, WFMin
<1>3. \A j \in S : ~(j < k)
  BY <1>2
<1> QED
  BY <1>2, <1>3

\* A key with the fewest keys above it is the greatest.
LEMMA GreatestElement ==
    ASSUME NEW S \in SUBSET Keys, S # {}
    PROVE  \E k \in S : \A j \in S : j <= k
<1> DEFINE Above(k) == {j \in S : k < j}
           Counts == {Cardinality(Above(k)) : k \in S}
<1>1. IsFiniteSet(S) /\ S \subseteq Nat
  BY ConstantsAssumption, FS_Subset
<1>2. \A k \in S : IsFiniteSet(Above(k)) /\ Cardinality(Above(k)) \in Nat
  BY <1>1, FS_Subset, FS_CardinalityType
<1>3. Counts \in SUBSET Nat /\ Counts # {}
  BY <1>2
<1>4. PICK k \in S : \A j \in S : Cardinality(Above(k)) <= Cardinality(Above(j))
  <2> HIDE DEF Above
  <2>1. PICK n \in Counts : \A m \in Counts : n <= m
    <3> HIDE DEF Counts
    <3> QED
      BY <1>3, LeastElement
  <2>2. PICK k \in S : n = Cardinality(Above(k))
    BY <2>1
  <2>3. \A j \in S : Cardinality(Above(j)) \in Counts
    OBVIOUS
  <2> QED
    BY <2>1, <2>2, <2>3
<1>5. ASSUME NEW j \in S, k < j PROVE FALSE
  <2>1. Above(j) \in SUBSET Above(k) /\ j \in Above(k) /\ j \notin Above(j)
    <3>1. j \in Nat /\ k \in Nat /\ \A i \in S : i \in Nat
      BY <1>1
    <3>2. \A i \in S : j < i => k < i
      BY <3>1, <1>5
    <3>3. Above(j) \in SUBSET Above(k)
      BY <3>2
    <3>4. j \in Above(k) /\ ~(j < j)
      BY <3>1, <1>5
    <3> QED
      BY <3>3, <3>4
  <2>2. Cardinality(Above(j)) < Cardinality(Above(k))
    <3> HIDE DEF Above
    <3> QED
      BY <2>1, <1>2, FS_Subset
  <2> QED
    BY <2>2, <1>4, <1>2
<1> QED
  BY <1>5, <1>1

LEMMA LastOfIsLast ==
    ASSUME NEW S \in SUBSET Keys, S # {}
    PROVE  LastOf(S) \in S /\ \A j \in S : j <= LastOf(S)
BY GreatestElement DEF LastOf

LEMMA FirstKeyIsFirst ==
    ASSUME NEW S \in SUBSET Keys, S # {}
    PROVE  FirstKey(S) \in S /\ \A j \in S : FirstKey(S) <= j
<1>1. \E k \in S : \A j \in S : j >= k
  BY LeastElement, ConstantsAssumption
<1> QED
  BY <1>1, ConstantsAssumption DEF FirstKey

\* ORDER BY pk LIMIT n leaves no hole: whatever is below a row of the page is
\* on the page as well.
LEMMA FirstOfIsClosed ==
    ASSUME NEW S \in SUBSET Keys, NEW n \in Nat,
           NEW p \in FirstOf(n, S), NEW k \in S, k <= p
    PROVE  k \in FirstOf(n, S)
<1> DEFINE Below(x) == {j \in S : j < x}
<1>1. S \subseteq Nat /\ IsFiniteSet(S)
  BY ConstantsAssumption, FS_Subset
<1>2. p \in S /\ Cardinality(Below(p)) < n
  BY DEF FirstOf
<1>3. /\ Below(k) \in SUBSET Below(p)
      /\ IsFiniteSet(Below(p)) /\ IsFiniteSet(Below(k))
  <2>1. \A j \in S : j < k => j < p
    BY <1>1, <1>2
  <2>2. Below(p) \in SUBSET S /\ Below(k) \in SUBSET Below(p)
    BY <2>1
  <2> HIDE DEF Below
  <2> QED
    BY <1>1, <2>2, FS_Subset
<1>4. /\ Cardinality(Below(k)) <= Cardinality(Below(p))
      /\ Cardinality(Below(k)) \in Nat /\ Cardinality(Below(p)) \in Nat
  <2> HIDE DEF Below
  <2> QED
    BY <1>3, FS_Subset, FS_CardinalityType
<1>5. Cardinality(Below(k)) < n
  <2> HIDE DEF Below
  <2> QED
    BY <1>2, <1>4
<1> QED
  BY <1>5 DEF FirstOf

\* An empty page means that nothing matched.
LEMMA FirstOfNonempty ==
    ASSUME NEW S \in SUBSET Keys, S # {}, NEW n \in Nat \ {0}
    PROVE  FirstOf(n, S) # {}
<1>1. PICK k \in S : \A j \in S : k <= j
  BY LeastElement, ConstantsAssumption
<1>2. \A j \in S : ~(j < k)
  BY <1>1, ConstantsAssumption
<1>3. Cardinality({j \in S : j < k}) = 0
  BY <1>2, {j \in S : j < k} = {}, FS_EmptySet
<1> QED
  BY <1>1, <1>3 DEF FirstOf

-----------------------------------------------------------------------------
(* Types.                                                                    *)

LEMMA PageType ==
    /\ Matching \in SUBSET Keys
    /\ NextPage \in SUBSET Matching
BY DEF Matching, Present, NextPage, FirstOf

LEMMA CardinalityType ==
    ASSUME NEW S \in SUBSET Keys
    PROVE  /\ IsFiniteSet(S)
           /\ Cardinality(S) \in Nat /\ Cardinality(S) <= Cardinality(Keys)
           /\ Cardinality(Keys) \in Nat
BY ConstantsAssumption, FS_Subset, FS_CardinalityType

LEMMA CappedType ==
    ASSUME NEW n \in Nat
    PROVE  Capped(n) \in 0 .. Cardinality(Keys) + 1
BY ConstantsAssumption, FS_CardinalityType DEF Capped

\* Inductive: an UPDATE has rows to update, so that the next cursor is a key.
TypeInv == TypeOK /\ (pc = "updating" => page # {})

LEMMA TypeInvHolds == Spec => []TypeInv
<1>1. Init => TypeInv
  <2> SUFFICES ASSUME Init PROVE TypeInv
    OBVIOUS
  <2>1. 0 \in 0 .. Cardinality(Keys) + 1
    BY CardinalityType
  <2>2. rows \in [Keys -> NoRow \cup {"null", "own", "filled"}]
    BY DEF Init, NoRow
  <2> QED
    BY <2>1, <2>2 DEF Init, TypeInv, TypeOK, Ready
<1>2. TypeInv /\ [Next]_vars => TypeInv'
  <2> SUFFICES ASSUME TypeInv, [Next]_vars PROVE TypeInv'
    OBVIOUS
  <2> USE DEF TypeInv, TypeOK
  <2>1. CASE Begin
    <3> DEFINE there == {k \in Keys : rows[k] \notin NoRow}
    <3>1. there # {} => FirstKey(there) \in Keys /\ LastOf(there) \in Keys
      BY FirstKeyIsFirst, LastOfIsLast
    <3>2. 0 \in 0 .. Cardinality(Keys) + 1
      BY CardinalityType
    <3>3. cursor' \in Keys \cup {0} /\ last' \in Keys \cup {0} /\ pc' \in {"paging", "committing"}
      BY <2>1, <3>1 DEF Begin
    <3> QED
      BY <2>1, <3>2, <3>3 DEF Begin
  <2>2. CASE Page
    BY <2>2, PageType DEF Page
  <2>3. CASE Update
    <3>1. RowCount \in Nat
      BY CardinalityType DEF RowCount
    <3>2. processed' \in 0 .. Cardinality(Keys) + 1
      BY <2>3, <3>1, CappedType, CardinalityType DEF Update
    <3>3. page # {} => NextCursor \in Keys
      BY LastOfIsLast DEF NextCursor
    <3>4. page # {}
      BY <2>3 DEF Update
    <3> QED
      BY <2>3, <3>2, <3>3, <3>4 DEF Update
  <2>4. CASE Commit
    BY <2>4 DEF Commit, Seen, Ready, NoRow
  <2>5. CASE Crash
    BY <2>5 DEF Crash, Ready
  <2>6. ASSUME NEW k \in Keys, Insert(k, "null") \/ Insert(k, "own") PROVE TypeInv'
    BY <2>6 DEF Insert, script
  <2>7. ASSUME NEW k \in Keys, Change(k) \/ Delete(k) PROVE TypeInv'
    BY <2>7 DEF Change, Delete, script, NoRow
  <2>8. CASE UNCHANGED vars
    BY <2>8 DEF vars, script
  <2> QED
    BY <2>1, <2>2, <2>3, <2>4, <2>5, <2>6, <2>7, <2>8 DEF Next, Script
<1> QED
  BY <1>1, <1>2, PTL DEF Spec

\* Every variable keeps its type, whoever writes to the table.
THEOREM TypeCorrect == Spec => []TypeOK
<1>1. TypeInv => TypeOK
  BY DEF TypeInv
<1> QED
  BY <1>1, TypeInvHolds, PTL

-----------------------------------------------------------------------------
(* No row is skipped.                                                        *)

Filled(k) == Seen(k) # "null"

\* Inductive: of the rows that were there at the start, those the script has
\* passed are filled, and none is beyond the last key.
FilledInv ==
    /\ pc \notin Ready => steady \subseteq Present
    /\ pc \in {"paging", "updating"} => \A k \in steady : k <= last
    /\ pc = "paging" => \A k \in steady : k < cursor => Filled(k)
    /\ pc = "updating" =>
         \A k \in steady : k <= LastOf(page) /\ k \notin page => Filled(k)
    /\ pc = "committing" => \A k \in steady : Filled(k)
    /\ pc = "done" => \A k \in steady : rows[k] \notin NoRow \cup {"null"}

\* What an application does to the rows that stay.
LEMMA AppKeepsFilled ==
    ASSUME TypeInv, FilledInv, NEW q \in Keys,
           Insert(q, "null") \/ Insert(q, "own") \/ Change(q) \/ Delete(q)
    PROVE  FilledInv'
<1> USE DEF TypeInv, TypeOK
<1>1. /\ UNCHANGED <<pc, cursor, last, page, written>>
      /\ steady' \subseteq steady
  BY DEF Insert, Change, Delete, script
<1>2. \A k \in steady' \ {q} : rows'[k] = rows[k]
  BY DEF Insert, Change, Delete
<1>3. ASSUME q \in steady', rows[q] \notin NoRow PROVE rows'[q] = "own"
  BY <1>3 DEF Insert, Change, Delete, NoRow
<1>4. ASSUME NEW k \in steady', pc \notin Ready
      PROVE  Seen(k)' \notin NoRow /\ (Filled(k) => Filled(k)')
  <2>1. k \in Keys /\ Seen(k) \notin NoRow
    BY <1>1, <1>4 DEF FilledInv, Present
  <2>2. CASE k \in written
    BY <2>2, <1>1 DEF Seen, Filled, NoRow
  <2>3. CASE k \notin written
    <3>1. rows'[k] \in {rows[k], "own"}
      BY <2>1, <2>3, <1>2, <1>3, <1>4 DEF Seen
    <3> QED
      BY <2>1, <2>3, <3>1, <1>1 DEF Seen, Filled, NoRow
  <2> QED
    BY <2>2, <2>3
<1>5. CASE pc \in Ready
  <2>1. pc = "done" => \A k \in steady' : rows'[k] \notin NoRow \cup {"null"}
    <3> SUFFICES ASSUME pc = "done", NEW k \in steady'
                 PROVE  rows'[k] \notin NoRow \cup {"null"}
      OBVIOUS
    <3>1. rows[k] \notin NoRow \cup {"null"}
      BY <1>1 DEF FilledInv
    <3>2. rows'[k] \in {rows[k], "own"}
      BY <3>1, <1>2, <1>3
    <3> QED
      BY <3>1, <3>2 DEF NoRow
  <2> QED
    BY <2>1, <1>1, <1>5 DEF FilledInv, Ready
<1>6. CASE pc \notin Ready
  <2>1. steady' \subseteq Present'
    BY <1>1, <1>4, <1>6 DEF Present
  <2> QED
    BY <2>1, <1>1, <1>4, <1>6 DEF FilledInv, Ready
<1> QED
  BY <1>5, <1>6

LEMMA FilledInvHolds == Spec => []FilledInv
<1>1. Init => FilledInv
  BY DEF Init, FilledInv, Ready
<1>2. TypeInv /\ TypeInv' /\ FilledInv /\ [Next]_vars => FilledInv'
  <2> SUFFICES ASSUME TypeInv, TypeInv', FilledInv, [Next]_vars PROVE FilledInv'
    OBVIOUS
  <2> USE DEF TypeInv, TypeOK
  <2>1. CASE Begin
    <3> DEFINE there == {k \in Keys : rows[k] \notin NoRow}
    <3>1. /\ steady' = there /\ written' = {} /\ rows' = rows
          /\ pc' = IF there = {} THEN "committing" ELSE "paging"
          /\ there # {} => cursor' = FirstKey(there) /\ last' = LastOf(there)
      BY <2>1 DEF Begin
    <3>2. \A k \in there : Seen(k)' \notin NoRow
      BY <3>1 DEF Seen
    <3>3. \A k \in there : ~(k < cursor') /\ k <= last'
      <4>1. there # {} => /\ FirstKey(there) \in Keys
                          /\ \A k \in there : FirstKey(there) <= k /\ k <= LastOf(there)
        BY FirstKeyIsFirst, LastOfIsLast
      <4> QED
        BY <4>1, <3>1, ConstantsAssumption
    <3> QED
      BY <3>1, <3>2, <3>3 DEF FilledInv, Present
  <2>2. CASE Page
    <3>1. /\ pc = "paging" /\ page' = NextPage
          /\ pc' = IF NextPage = {} THEN "committing" ELSE "updating"
          /\ UNCHANGED <<rows, cursor, last, written, steady>>
      BY <2>2 DEF Page
    <3>2. \A k \in Keys : Seen(k)' = Seen(k)
      BY <3>1 DEF Seen
    <3>3. steady \subseteq Present /\ Present' = Present
      BY <3>1, <3>2 DEF FilledInv, Ready, Present
    <3>4. \A k \in steady : k \in Matching \/ Filled(k)
      BY <3>1, <3>3, ConstantsAssumption DEF FilledInv, Matching, Filled, Ready
    <3>5. size \in Nat \ {0}
      BY ConstantsAssumption
    <3>6. CASE NextPage = {}
      <4>1. Matching = {}
        BY <3>5, <3>6, PageType, FirstOfNonempty DEF NextPage
      <4> QED
        BY <4>1, <3>1, <3>2, <3>3, <3>4, <3>6 DEF FilledInv, Filled, Ready
    <3>7. CASE NextPage # {}
      <4>1. LastOf(NextPage) \in NextPage
        BY <3>7, PageType, LastOfIsLast
      <4>2. \A k \in Matching : k <= LastOf(NextPage) => k \in NextPage
        BY <4>1, <3>5, PageType, FirstOfIsClosed DEF NextPage
      <4> QED
        BY <4>2, <3>1, <3>2, <3>3, <3>4, <3>7 DEF FilledInv, Filled, Ready
    <3> QED
      BY <3>6, <3>7
  <2>3. CASE Update
    <3>1. /\ pc = "updating" /\ written' = written \cup (page \cap Present)
          /\ pc' = IF AtEnd THEN "committing" ELSE "paging"
          /\ ~AtEnd => cursor' = LastOf(page)
          /\ UNCHANGED <<rows, last, steady>>
      BY <2>3 DEF Update, NextCursor
    <3>2. steady \subseteq Present
      BY <3>1 DEF FilledInv, Ready
    <3>3. \A k \in Keys : Seen(k)' = IF k \in written \cup (page \cap Present) THEN "filled" ELSE Seen(k)
      BY <3>1 DEF Seen
    <3>4. \A k \in steady : k <= LastOf(page) => Filled(k)'
      BY <3>1, <3>2, <3>3 DEF FilledInv, Filled
    <3>5. steady \subseteq Present'
      BY <3>2, <3>3 DEF Present, NoRow
    <3>6. LastOf(page) \in Nat /\ last \in Nat /\ steady \subseteq Nat
      <4>1. LastOf(page) \in Keys
        BY <3>1, LastOfIsLast
      <4>2. last \in Keys \cup {0} /\ steady \subseteq Keys
        OBVIOUS
      <4>3. \A k \in Keys : k \in Nat
        BY ConstantsAssumption
      <4>4. LastOf(page) \in Nat
        BY <4>1, <4>3
      <4>5. last \in Nat
        BY <4>2, <4>3
      <4>6. \A k \in steady : k \in Nat
        BY <4>2, <4>3
      <4> QED
        BY <4>4, <4>5, <4>6
    <3>7. AtEnd => \A k \in steady : k <= LastOf(page)
      BY <3>1, <3>6 DEF AtEnd, FilledInv
    <3> QED
      BY <3>1, <3>4, <3>5, <3>6, <3>7 DEF FilledInv, Ready
  <2>4. CASE Commit
    BY <2>4 DEF Commit, FilledInv, Present, Filled, Ready
  <2>5. CASE Crash
    BY <2>5 DEF Crash, FilledInv, Ready
  <2>6. ASSUME NEW k \in Keys,
               Insert(k, "null") \/ Insert(k, "own") \/ Change(k) \/ Delete(k)
        PROVE  FilledInv'
    BY <2>6, AppKeepsFilled
  <2>7. CASE UNCHANGED vars
    BY <2>7 DEF vars, script, FilledInv, Present, Filled, Seen
  <2> QED
    BY <2>1, <2>2, <2>3, <2>4, <2>5, <2>6, <2>7 DEF Next, Script
<1> QED
  BY <1>1, <1>2, TypeInvHolds, PTL DEF Spec

\* A backfill that commits has filled every row that was there when it began,
\* whatever the application did meanwhile (backfill_in_batches).
THEOREM EveryRowFilledHolds == Spec => []EveryRowFilled
<1>1. FilledInv => EveryRowFilled
  BY DEF FilledInv, EveryRowFilled
<1> QED
  BY <1>1, FilledInvHolds, PTL

-----------------------------------------------------------------------------
(* With a where_clause, no row twice and no value overwritten.               *)

\* Inductive: the rows of a page are not updated yet, and what is not NULL
\* among them has changed since the SELECT.
PageInv ==
    pc = "updating" /\ filtered =>
        \A k \in page : /\ k \notin written
                        /\ rows[k] # "absent"
                        /\ ~raced => rows[k] \in {"null", "gone"}

LEMMA PageInvHolds == Spec => []PageInv
<1>1. Init => PageInv
  BY DEF Init, PageInv
<1>2. TypeInv /\ PageInv /\ [Next]_vars => PageInv'
  <2> SUFFICES ASSUME TypeInv, PageInv, [Next]_vars PROVE PageInv'
    OBVIOUS
  <2> USE DEF TypeInv, TypeOK
  <2>1. CASE Page
    <3>1. \A k \in Matching : filtered => k \notin written /\ rows[k] = "null"
      BY DEF Matching, Seen
    <3> QED
      BY <2>1, <3>1, PageType DEF Page, PageInv
  <2>2. CASE Begin \/ Update \/ Commit \/ Crash
    BY <2>2 DEF Begin, Update, Commit, Crash, PageInv
  <2>3. ASSUME NEW q \in Keys, Insert(q, "null") \/ Insert(q, "own") PROVE PageInv'
    BY <2>3 DEF Insert, PageInv, script
  <2>4. ASSUME NEW q \in Keys, Change(q) PROVE PageInv'
    BY <2>4 DEF Change, PageInv, script
  <2>5. ASSUME NEW q \in Keys, Delete(q) PROVE PageInv'
    BY <2>5 DEF Delete, PageInv, script
  <2>6. CASE UNCHANGED vars
    BY <2>6 DEF vars, script, PageInv
  <2> QED
    BY <2>1, <2>2, <2>3, <2>4, <2>5, <2>6 DEF Next, Script
<1> QED
  BY <1>1, <1>2, TypeInvHolds, PTL DEF Spec

\* With a where_clause no row is updated twice: processed is the number of rows
\* changed (BackfillProgress.update).
THEOREM ProcessedIsExactHolds == Spec => []ProcessedIsExact
<1>1. Init => ProcessedIsExact
  BY DEF Init, ProcessedIsExact
<1>2. TypeInv /\ PageInv /\ ProcessedIsExact /\ [Next]_vars => ProcessedIsExact'
  <2> SUFFICES ASSUME TypeInv, PageInv, ProcessedIsExact, [Next]_vars
               PROVE  ProcessedIsExact'
    OBVIOUS
  <2> USE DEF TypeInv, TypeOK, ProcessedIsExact
  <2>1. CASE Begin
    BY <2>1, FS_EmptySet DEF Begin
  <2>2. CASE Update
    <3> SUFFICES ASSUME filtered PROVE processed' = Cardinality(written')
      BY <2>2 DEF Update
    <3>1. processed = Cardinality(written)
      BY <2>2 DEF Update
    <3>2. (page \cap Present) \cap written = {}
      BY <2>2 DEF Update, PageInv
    <3>3. IsFiniteSet(written) /\ IsFiniteSet(page \cap Present)
      BY CardinalityType
    <3>4. Cardinality(written \cup (page \cap Present))
            = Cardinality(written) + Cardinality(page \cap Present)
      <4> DEFINE new == page \cap Present
      <4>1. /\ Cardinality(written) \in Nat /\ Cardinality(new) \in Nat
            /\ Cardinality(written \cap new) = 0
        BY <3>2, CardinalityType, FS_EmptySet
      <4> HIDE DEF new
      <4>2. Cardinality(written \cup new)
              = Cardinality(written) + Cardinality(new) - Cardinality(written \cap new)
        BY <3>3, FS_Union DEF new
      <4>3. Cardinality(written \cup new) = Cardinality(written) + Cardinality(new)
        BY <4>1, <4>2
      <4> QED
        BY <4>3 DEF new
    <3>5. /\ Cardinality(written \cup (page \cap Present)) <= Cardinality(Keys)
          /\ Cardinality(written \cup (page \cap Present)) \in Nat
          /\ Cardinality(Keys) \in Nat
      BY CardinalityType
    <3>6. processed + RowCount = Cardinality(written \cup (page \cap Present))
      BY <3>1, <3>4 DEF RowCount
    <3> QED
      BY <2>2, <3>5, <3>6 DEF Update, Capped
  <2>3. CASE Page \/ Commit \/ Crash
    BY <2>3 DEF Page, Commit, Crash, Ready
  <2>4. ASSUME NEW q \in Keys,
               Insert(q, "null") \/ Insert(q, "own") \/ Change(q) \/ Delete(q)
        PROVE  ProcessedIsExact'
    BY <2>4 DEF Insert, Change, Delete, script
  <2>5. CASE UNCHANGED vars
    BY <2>5 DEF vars, script
  <2> QED
    BY <2>1, <2>2, <2>3, <2>4, <2>5 DEF Next, Script
<1> QED
  BY <1>1, <1>2, TypeInvHolds, PageInvHolds, PTL DEF Spec

\* With a where_clause a value of the application is only overwritten when it
\* was set between the SELECT of its page and the UPDATE.
THEOREM OwnValuesKeptHolds == Spec => OwnValuesKept
<1>1. TypeInv /\ PageInv /\ [Next]_vars
        => [ filtered /\ ~raced
               => \A k \in Keys : rows[k] = "own" /\ k \notin written
                                   => k \notin written' ]_vars
  <2> SUFFICES ASSUME TypeInv, PageInv, [Next]_vars, filtered, ~raced,
                      NEW k \in Keys, rows[k] = "own", k \notin written
               PROVE  k \notin written'
    OBVIOUS
  <2>1. CASE Update
    BY <2>1 DEF Update, PageInv
  <2>2. CASE Begin \/ Page \/ Commit \/ Crash
    BY <2>2 DEF Begin, Page, Commit, Crash
  <2>3. ASSUME NEW q \in Keys,
               Insert(q, "null") \/ Insert(q, "own") \/ Change(q) \/ Delete(q)
        PROVE  k \notin written'
    BY <2>3 DEF Insert, Change, Delete, script
  <2>4. CASE UNCHANGED vars
    BY <2>4 DEF vars, script
  <2> QED
    BY <2>1, <2>2, <2>3, <2>4 DEF Next, Script
<1> QED
  BY <1>1, TypeInvHolds, PageInvHolds, PTL DEF Spec, OwnValuesKept

-----------------------------------------------------------------------------
(* RunOnce.                                                                 *)

\* Only one transaction at a time holds the row, and none while it is there.
RunInv ==
    /\ recorded \in BOOLEAN
    /\ applied \in Nat
    /\ migrator \in [Migrators -> {"idle", "checking", "running", "recording",
                                   "ran", "skipped"}]
    /\ AppliedOnce
    /\ \A m \in Migrators : migrator[m] = "ran" =>
          ~recorded /\ \A n \in Migrators : migrator[n] = "ran" => n = m

\* A migration's effect is in the database exactly when its row is, and once,
\* for any number of replicas (run_idempotent_migration).
THEOREM AppliedOnceHolds == RunSpec => []AppliedOnce
<1>1. RunInit => RunInv
  <2>1. RunInit => ~recorded /\ recorded \in BOOLEAN
    BY DEF RunInit
  <2> QED
    BY <2>1 DEF RunInit, RunInv, AppliedOnce
<1>2. RunInv /\ [RunNext]_runVars => RunInv'
  <2> SUFFICES ASSUME RunInv, [RunNext]_runVars PROVE RunInv'
    OBVIOUS
  <2> USE DEF RunInv, AppliedOnce, Goes
  <2>1. ASSUME NEW m \in Migrators,
               EnsureLog(m) \/ CheckLog(m) \/ RunSql(m) \/ AbortRun(m)
        PROVE  RunInv'
    BY <2>1 DEF EnsureLog, CheckLog, RunSql, AbortRun
  <2>2. ASSUME NEW m \in Migrators, Record(m) PROVE RunInv'
    BY <2>2 DEF Record
  <2>3. ASSUME NEW m \in Migrators, CommitRun(m) PROVE RunInv'
    <3>1. CASE migrator[m] = "ran"
      BY <2>3, <3>1 DEF CommitRun
    <3>2. CASE migrator[m] # "ran"
      BY <2>3, <3>2 DEF CommitRun
    <3> QED
      BY <3>1, <3>2
  <2>4. CASE RunOther
    BY <2>4 DEF RunOther
  <2>5. CASE UNCHANGED runVars
    BY <2>5 DEF runVars
  <2> QED
    BY <2>1, <2>2, <2>3, <2>4, <2>5 DEF RunNext
<1>3. RunInv => AppliedOnce
  BY DEF RunInv
<1> QED
  BY <1>1, <1>2, <1>3, PTL DEF RunSpec

-----------------------------------------------------------------------------
(* DatabaseSetup.                                                           *)

\* As long as the engine has not changed under a creation: the flag speaks of
\* the engine's database, and so does every creation.
TablesInv ==
    /\ task \in [Tasks -> [at : {"away", "waiting", "creating", "session"},
                           db : Urls \cup {NoUrl}]]
    /\ ~overtaken =>
          /\ created => engine \in tables
          /\ \A t \in Tasks : task[t].at = "creating" => task[t].db = engine
          /\ \A t \in Tasks : task[t].at = "session" /\ AutoCreate => task[t].db \in tables

LEMMA EngineType ==
    ASSUME url \in Urls, engine \in Urls \cup {NoUrl}, [SetupNext]_setupVars
    PROVE  url' \in Urls /\ engine' \in Urls \cup {NoUrl}
BY DEF SetupNext, setupVars, EnterInitDb, TakeLock, CreateTables, FailToCreate, CancelTask,
       CloseSession, SwitchUrl, RestartProcess

\* Whoever gets a session finds the tables, for any number of tasks and of
\* databases and any order of failures, cancellations and restarts (init_db,
\* _ensure_session_factories).
THEOREM SessionHasTablesHolds == SetupSpec => []SessionHasTables
<1> DEFINE Engine == url \in Urls /\ engine \in Urls \cup {NoUrl}
<1>1. SetupInit => Engine /\ TablesInv
  BY DatabaseSetupAssumption DEF SetupInit, TablesInv, Away
<1>2. Engine /\ TablesInv /\ [SetupNext]_setupVars => Engine' /\ TablesInv'
  <2> SUFFICES ASSUME Engine, TablesInv, [SetupNext]_setupVars PROVE Engine' /\ TablesInv'
    OBVIOUS
  <2>0. Engine'
    BY EngineType
  <2> USE DEF TablesInv
  <2>1. ASSUME NEW t \in Tasks, EnterInitDb(t) PROVE TablesInv'
    <3>1. CASE created' \/ ~AutoCreate
      <4>1. /\ engine' = url /\ created' = (created /\ engine = url) /\ tables' = tables
            /\ task' = [task EXCEPT ![t] = [at |-> "session", db |-> url]]
        BY <2>1, <3>1 DEF EnterInitDb, Session
      <4>2. [at |-> "session", db |-> url] \in [at : {"away", "waiting", "creating", "session"},
                                               db : Urls \cup {NoUrl}]
        OBVIOUS
      <4>3. task' \in [Tasks -> [at : {"away", "waiting", "creating", "session"},
                                 db : Urls \cup {NoUrl}]]
        BY <4>1, <4>2
      <4>4. \A s \in Tasks : s # t => task'[s] = task[s]
        BY <4>1
      <4>5. task'[t].at = "session" /\ task'[t].db = url
        BY <4>1
      <4>6. ASSUME ~overtaken' PROVE ~overtaken
        BY <2>1, <4>6 DEF EnterInitDb
      <4>7. ASSUME ~overtaken', NEW s \in Tasks, task[s].at = "creating" PROVE engine = url
        BY <2>1, <4>7 DEF EnterInitDb
      <4> HIDE DEF Engine
      <4>8. ASSUME ~overtaken' PROVE created' => engine' \in tables'
        BY <4>1, <4>6, <4>8
      <4>9. ASSUME ~overtaken', NEW s \in Tasks, task'[s].at = "creating"
            PROVE  task'[s].db = engine'
        BY <4>1, <4>4, <4>5, <4>6, <4>7, <4>9
      <4>10. ASSUME ~overtaken', NEW s \in Tasks, task'[s].at = "session", AutoCreate
             PROVE  task'[s].db \in tables'
        <5>1. CASE s = t
          BY <3>1, <4>1, <4>5, <4>8, <4>10, <5>1
        <5>2. CASE s # t
          BY <4>1, <4>4, <4>6, <4>10, <5>2
        <5> QED
          BY <5>1, <5>2
      <4> QED
        BY <4>3, <4>8, <4>9, <4>10
    <3>2. CASE ~(created' \/ ~AutoCreate)
      BY <2>1, <3>2 DEF EnterInitDb
    <3> QED
      BY <3>1, <3>2
  <2>2. ASSUME NEW t \in Tasks, TakeLock(t) PROVE TablesInv'
    <3>1. CASE created
      BY <2>0, <2>2, <3>1 DEF TakeLock, Session
    <3>2. CASE ~created
      BY <2>0, <2>2, <3>2 DEF TakeLock
    <3> QED
      BY <3>1, <3>2
  <2>3. ASSUME NEW t \in Tasks, CreateTables(t) PROVE TablesInv'
    BY <2>0, <2>3 DEF CreateTables, Session
  <2>4. ASSUME NEW t \in Tasks, FailToCreate(t) \/ CancelTask(t) \/ CloseSession(t)
        PROVE  TablesInv'
    BY <2>4 DEF FailToCreate, CancelTask, CloseSession, Away
  <2>5. ASSUME NEW u \in Urls, SwitchUrl(u) PROVE TablesInv'
    BY <2>5 DEF SwitchUrl
  <2>6. CASE RestartProcess
    BY <2>6 DEF RestartProcess, Away
  <2>7. CASE UNCHANGED setupVars
    BY <2>7 DEF setupVars
  <2> QED
    BY <2>0, <2>1, <2>2, <2>3, <2>4, <2>5, <2>6, <2>7 DEF SetupNext
<1>3. TablesInv => SessionHasTables
  BY DEF TablesInv, SessionHasTables
<1> QED
  BY <1>1, <1>2, <1>3, PTL DEF SetupSpec

-----------------------------------------------------------------------------
(* The schema and its version.                                              *)

LEMMA Revisions == LastRevision = 4
BY DEF LastRevision, Upgrades

LEMMA ScriptTypes ==
    ASSUME NEW n \in 1 .. LastRevision
    PROVE  /\ Len(Upgrades[n]) \in Nat /\ Len(Downgrades[n]) \in Nat
           /\ ToSet(Upgrades[n]) = {Upgrades[n][i] : i \in 1 .. Len(Upgrades[n])}
<1>1. /\ Upgrades[1] = Initial /\ Downgrades[1] = InitialUndone
      /\ Upgrades[2] = AuditLogs /\ Downgrades[2] = AuditLogsUndone
      /\ Upgrades[3] = SoftDelete /\ Downgrades[3] = SoftDeleteUndone
      /\ Upgrades[4] = Flags /\ Downgrades[4] = FlagsUndone
  BY DEF Upgrades, Downgrades
<1>2. /\ Len(Initial) = 6 /\ DOMAIN Initial = 1 .. 6 /\ Len(InitialUndone) = 6
      /\ Len(AuditLogs) = 3 /\ DOMAIN AuditLogs = 1 .. 3 /\ Len(AuditLogsUndone) = 3
      /\ Len(SoftDelete) = 1 /\ DOMAIN SoftDelete = 1 .. 1 /\ Len(SoftDeleteUndone) = 1
      /\ Len(Flags) = 1 /\ DOMAIN Flags = 1 .. 1 /\ Len(FlagsUndone) = 1
  BY DEF Initial, InitialUndone, AuditLogs, AuditLogsUndone, SoftDelete, SoftDeleteUndone,
         Flags, FlagsUndone
<1>3. n \in {1, 2, 3, 4}
  BY Revisions
<1>4. /\ Len(Upgrades[n]) \in Nat /\ Len(Downgrades[n]) \in Nat
      /\ DOMAIN Upgrades[n] = 1 .. Len(Upgrades[n])
  BY <1>1, <1>2, <1>3
<1> QED
  BY <1>4 DEF ToSet

LEMMA ThroughGrows ==
    ASSUME NEW n \in 1 .. LastRevision
    PROVE  /\ Through(n) = Through(n - 1) \cup ToSet(Upgrades[n])
           /\ Through(n) \subseteq Revised /\ Through(n - 1) \subseteq Revised
           /\ Through(n - 1) \cup Between(n - 1, LastRevision) = Revised
           /\ Between(n - 1, LastRevision)
                = Between(n - 1, LastRevision - 1) \cup ToSet(Upgrades[LastRevision])
BY Revisions DEF Through, Between, Revised

\* A table's objects.
LEMMA TablesOf ==
    /\ TableOf("users") = UserTable /\ TableOf("revoked_tokens") = RevokedTable
    /\ TableOf("audit_logs") = AuditTable /\ TableOf("feature_flags") = FlagTable
<1>1. \A m, w \in Models : \A o : o \in m /\ o \in w => m = w
  BY DEF Models, UserTable, RevokedTable, AuditTable, FlagTable, OtherTables
<1>2. ASSUME NEW m \in Models, NEW o \in m PROVE TableOf(o) = m
  BY <1>1, <1>2 DEF TableOf
<1>3. {UserTable, RevokedTable, AuditTable, FlagTable} \subseteq Models
  BY DEF Models
<1>4. /\ "users" \in UserTable /\ "revoked_tokens" \in RevokedTable
      /\ "audit_logs" \in AuditTable /\ "feature_flags" \in FlagTable
  BY DEF UserTable, RevokedTable, AuditTable, FlagTable
<1> QED
  BY <1>2, <1>3, <1>4

\* All that the downgrade of revision n drops.
Dropped(n) == UNION {Takes(Downgrades[n][i]) : i \in 1 .. Len(Downgrades[n])}

LEMMA DroppedIs ==
    /\ Dropped(1) = UserTable \cup RevokedTable
    /\ Dropped(2) = AuditTable
    /\ Dropped(3) = {"deleted_at"}
    /\ Dropped(4) = FlagTable
<1> USE DEF Takes, Tables, OtherTables
<1>1. Dropped(1) = UserTable \cup RevokedTable
  <2>1. /\ Len(Downgrades[1]) = 6
        /\ \A i \in 1 .. 6 : Downgrades[1][i] = InitialUndone[i]
    BY DEF Downgrades, InitialUndone
  <2>2. /\ Takes(InitialUndone[1]) = {"ix_revoked_tokens_user_id"}
        /\ Takes(InitialUndone[2]) = {"ix_revoked_tokens_jti"}
        /\ Takes(InitialUndone[3]) = RevokedTable
        /\ Takes(InitialUndone[4]) = {"ix_users_username"}
        /\ Takes(InitialUndone[5]) = {"ix_users_user_id"}
        /\ Takes(InitialUndone[6]) = UserTable
    BY TablesOf DEF InitialUndone
  <2>3. Dropped(1) = UNION {Takes(InitialUndone[i]) : i \in 1 .. 6}
    BY <2>1 DEF Dropped
  <2> QED
    BY <2>2, <2>3 DEF UserTable, RevokedTable
<1>2. Dropped(2) = AuditTable
  <2>1. /\ Len(Downgrades[2]) = 3
        /\ \A i \in 1 .. 3 : Downgrades[2][i] = AuditLogsUndone[i]
    BY DEF Downgrades, AuditLogsUndone
  <2>2. /\ Takes(AuditLogsUndone[1]) = {"ix_audit_logs_action"}
        /\ Takes(AuditLogsUndone[2]) = {"ix_audit_logs_user_id"}
        /\ Takes(AuditLogsUndone[3]) = AuditTable
    BY TablesOf DEF AuditLogsUndone
  <2>3. Dropped(2) = UNION {Takes(AuditLogsUndone[i]) : i \in 1 .. 3}
    BY <2>1 DEF Dropped
  <2> QED
    BY <2>2, <2>3 DEF AuditTable
<1>3. Dropped(3) = {"deleted_at"}
  BY DEF Dropped, Downgrades, SoftDeleteUndone
<1>4. Dropped(4) = FlagTable
  BY TablesOf DEF Dropped, Downgrades, FlagsUndone, FlagTable
<1> QED
  BY <1>1, <1>2, <1>3, <1>4

\* Each downgrade leaves what the revisions before its own have made.
LEMMA DowngradesUndo ==
    ASSUME NEW n \in 1 .. LastRevision
    PROVE  Through(n) \ Dropped(n) = Through(n - 1)
<1>1. /\ ToSet(Upgrades[1]) = {"users", "ix_users_user_id", "ix_users_username", "revoked_tokens",
                               "ix_revoked_tokens_jti", "ix_revoked_tokens_user_id"}
      /\ ToSet(Upgrades[2]) = {"audit_logs", "ix_audit_logs_user_id", "ix_audit_logs_action"}
      /\ ToSet(Upgrades[3]) = {"deleted_at"}
      /\ ToSet(Upgrades[4]) = {"feature_flags"}
  BY DEF ToSet, Upgrades, Initial, AuditLogs, SoftDelete, Flags
<1>2. Through(0) = {}
  BY DEF Through, Between
<1>3. /\ Through(1) = ToSet(Upgrades[1])
      /\ Through(2) = Through(1) \cup ToSet(Upgrades[2])
      /\ Through(3) = Through(2) \cup ToSet(Upgrades[3])
      /\ Through(4) = Through(3) \cup ToSet(Upgrades[4])
  BY <1>2, ThroughGrows, Revisions
<1> USE DEF UserTable, RevokedTable, AuditTable, FlagTable
<1>4. CASE n = 1
  BY <1>1, <1>2, <1>3, <1>4, DroppedIs
<1>5. CASE n = 2
  BY <1>1, <1>3, <1>5, DroppedIs
<1>6. CASE n = 3
  BY <1>1, <1>3, <1>6, DroppedIs
<1>7. CASE n = 4
  BY <1>1, <1>3, <1>7, DroppedIs
<1> QED
  BY <1>4, <1>5, <1>6, <1>7, Revisions

-----------------------------------------------------------------------------

\* The objects of the revisions while a run is at r.
Made(r) == After(r.way, r.rev, r.done, Through(From(r)))

\* In one transaction nothing is ever seen half done.  Without, as long as
\* nothing is spoiled, one run is under way at most, nobody moves the version
\* under it, and what it has made so far is there.
SchemaInv ==
    /\ SchemaTypeOK
    /\ transactional => \A p \in Runners : run[p].done = 0
    /\ transactional /\ ~spoiled => objects \cap Revised = Through(version)
    /\ ~transactional /\ ~spoiled =>
          /\ \A p, q \in Runners : run[p] # Rest /\ run[q] # Rest => p = q
          /\ \A p \in Runners : run[p] # Rest =>
                version = From(run[p]) /\ objects \cap Revised = Made(run[p])
          /\ AtRest => objects \cap Revised = Through(version)

LEMMA StatementsType ==
    ASSUME NEW r \in [way : {"up", "down"}, rev : 1 .. LastRevision, done : Nat]
    PROVE  /\ Statements(r) = IF r.way = "up" THEN Upgrades[r.rev] ELSE Downgrades[r.rev]
           /\ Len(Statements(r)) \in Nat
           /\ r = At(r.way, r.rev, r.done) /\ r # Rest
BY ScriptTypes DEF Statements, Scripts, At, Rest

\* A plan that a run begins with.
LEMMA PlanType ==
    ASSUME NEW way \in {"up", "down"}, NEW n \in 1 .. LastRevision
    PROVE  /\ At(way, n, 0) \in [way : {"up", "down"}, rev : 1 .. LastRevision, done : Nat]
           /\ At(way, n, 0).done <= Len(Statements(At(way, n, 0)))
           /\ At(way, n, 0).done = 0
           /\ Made(At(way, n, 0)) = Through(From(At(way, n, 0)))
           /\ From(At(way, n, 0)) = IF way = "up" THEN n - 1 ELSE n
<1>1. At(way, n, 0) \in [way : {"up", "down"}, rev : 1 .. LastRevision, done : Nat]
  BY DEF At
<1>2. At(way, n, 0).done = 0 /\ At(way, n, 0).way = way /\ At(way, n, 0).rev = n
  BY DEF At
<1>3. Made(At(way, n, 0)) = Through(From(At(way, n, 0)))
  BY <1>2 DEF Made, After
<1> QED
  BY <1>1, <1>2, <1>3, StatementsType DEF From

LEMMA StartKeeps ==
    ASSUME SchemaInv, NEW p \in Runners, StartUpgrade(p) \/ StartDowngrade(p)
    PROVE  SchemaInv'
<1>1. PICK way \in {"up", "down"}, n \in 1 .. LastRevision :
         /\ StartRun(p, At(way, n, 0)) /\ version = From(At(way, n, 0))
  <2>1. CASE StartUpgrade(p)
    <3>1. version + 1 \in 1 .. LastRevision
      BY <2>1, Revisions DEF StartUpgrade, SchemaInv, SchemaTypeOK
    <3>2. version = From(At("up", version + 1, 0))
      <4>1. version \in Nat /\ version + 1 - 1 = version
        BY DEF SchemaInv, SchemaTypeOK
      <4> QED
        BY <3>1, <4>1, PlanType
    <3> QED
      BY <2>1, <3>1, <3>2 DEF StartUpgrade
  <2>2. CASE StartDowngrade(p)
    <3>1. version \in 1 .. LastRevision
      BY <2>2, Revisions DEF StartDowngrade, SchemaInv, SchemaTypeOK
    <3>2. version = From(At("down", version, 0))
      BY <3>1, PlanType
    <3> QED
      BY <2>2, <3>1, <3>2 DEF StartDowngrade
  <2> QED
    BY <2>1, <2>2
<1> DEFINE plan == At(way, n, 0)
<1>2. /\ plan \in [way : {"up", "down"}, rev : 1 .. LastRevision, done : Nat]
      /\ plan.done = 0 /\ plan.done <= Len(Statements(plan)) /\ plan # Rest
      /\ Made(plan) = Through(version) /\ version = From(plan)
  BY <1>1, PlanType, StatementsType
<1>3. /\ run[p] = Rest /\ run' = [run EXCEPT ![p] = plan]
      /\ spoiled' = (spoiled \/ (~transactional /\ ~AtRest))
      /\ UNCHANGED <<transactional, objects, version, started>>
  BY <1>1 DEF StartRun
<1> HIDE DEF plan
<1>4. SchemaTypeOK'
  BY <1>2, <1>3 DEF SchemaInv, SchemaTypeOK
<1>5. \A q \in Runners : run'[q] = IF q = p THEN plan ELSE run[q]
  BY <1>3 DEF SchemaInv, SchemaTypeOK
<1>6. transactional' => \A q \in Runners : run'[q].done = 0
  BY <1>2, <1>3, <1>5 DEF SchemaInv
<1>7. CASE transactional \/ spoiled'
  BY <1>3, <1>4, <1>6, <1>7 DEF SchemaInv
<1>8. CASE ~transactional /\ ~spoiled'
  <2>1. AtRest /\ objects \cap Revised = Through(version)
    BY <1>3, <1>8 DEF SchemaInv
  <2>2. \A q \in Runners : run'[q] # Rest => q = p
    BY <1>5, <2>1 DEF AtRest
  <2>3. ~AtRest'
    BY <1>2, <1>5 DEF AtRest
  <2>4. version' = From(run'[p]) /\ objects' \cap Revised = Made(run'[p])
    BY <1>2, <1>3, <1>5, <2>1
  <2> QED
    BY <1>3, <1>4, <1>8, <2>2, <2>3, <2>4 DEF SchemaInv
<1> QED
  BY <1>7, <1>8

\* The statements of an upgrade only add, those of a downgrade only drop, so the
\* end of a script is the end of its revision.
LEMMA ScriptEnds ==
    ASSUME NEW r \in [way : {"up", "down"}, rev : 1 .. LastRevision, done : Nat],
           r.done = Len(Statements(r))
    PROVE  Made(r) = Through(To(r))
<1>1. CASE r.way = "up"
  <2>1. Made(r) = Through(r.rev - 1) \cup {Upgrades[r.rev][i] : i \in 1 .. Len(Upgrades[r.rev])}
    BY <1>1, StatementsType DEF Made, After, From
  <2>2. r.rev \in 1 .. LastRevision
    OBVIOUS
  <2> QED
    BY <1>1, <2>1, <2>2, ScriptTypes, ThroughGrows DEF To
<1>2. CASE r.way = "down"
  <2>1. Made(r) = Through(r.rev) \ Dropped(r.rev)
    BY <1>2, StatementsType DEF Made, After, From, Dropped
  <2>2. r.rev \in 1 .. LastRevision
    OBVIOUS
  <2> QED
    BY <1>2, <2>1, <2>2, DowngradesUndo DEF To
<1> QED
  BY <1>1, <1>2

LEMMA RunAllKeeps ==
    ASSUME SchemaInv, NEW p \in Runners, RunAll(p)
    PROVE  SchemaInv'
<1> DEFINE r == run[p]
<1>1. /\ transactional /\ r # Rest
      /\ run' = [run EXCEPT ![p] = Rest]
      /\ UNCHANGED <<transactional, started, spoiled>>
  BY DEF RunAll
<1>2. /\ r \in [way : {"up", "down"}, rev : 1 .. LastRevision, done : Nat]
      /\ r.rev \in 1 .. LastRevision /\ r.way \in {"up", "down"}
  BY <1>1 DEF SchemaInv, SchemaTypeOK
<1>3. \A q \in Runners : run'[q] = IF q = p THEN Rest ELSE run[q]
  BY <1>1 DEF SchemaInv, SchemaTypeOK
<1>4. \A q \in Runners : run'[q].done = 0
  BY <1>1, <1>3 DEF SchemaInv, Rest
<1>5. ASSUME version' \in 0 .. LastRevision,
             ~spoiled => objects' \cap Revised = Through(version')
      PROVE  SchemaInv'
  BY <1>1, <1>3, <1>4, <1>5 DEF SchemaInv, SchemaTypeOK
<1>6. CASE ~Succeeds(r)
  BY <1>1, <1>5, <1>6 DEF RunAll, SchemaInv, SchemaTypeOK
<1>7. CASE Succeeds(r) /\ r.way = "up"
  <2>1. version = r.rev - 1 /\ version' = LastRevision
    BY <1>7, Revisions DEF Succeeds, From, RunAll, Final, To, At
  <2>2. objects' = (objects \cup Between(r.rev - 1, LastRevision - 1))
                     \cup {Upgrades[LastRevision][i] : i \in 1 .. Len(Upgrades[LastRevision])}
    BY <1>7 DEF RunAll, Final, After, Reached, Scripts
  <2>3. objects' = objects \cup Between(r.rev - 1, LastRevision)
    <3>1. LastRevision \in 1 .. LastRevision
      BY Revisions
    <3>2. ToSet(Upgrades[LastRevision])
            = {Upgrades[LastRevision][i] : i \in 1 .. Len(Upgrades[LastRevision])}
      BY <3>1, ScriptTypes
    <3>3. Between(r.rev - 1, LastRevision)
            = Between(r.rev - 1, LastRevision - 1) \cup ToSet(Upgrades[LastRevision])
      BY <1>2, ThroughGrows
    <3> QED
      BY <2>2, <3>2, <3>3
  <2>4. ~spoiled => objects' \cap Revised = Through(LastRevision)
    <3>1. ~spoiled => objects \cap Revised = Through(r.rev - 1)
      BY <1>1, <2>1 DEF SchemaInv
    <3>2. Through(r.rev - 1) \cup Between(r.rev - 1, LastRevision) = Revised
      BY <1>2, ThroughGrows
    <3> QED
      BY <2>3, <3>1, <3>2 DEF Revised
  <2> QED
    BY <1>5, <2>1, <2>4, Revisions
<1>8. CASE Succeeds(r) /\ r.way = "down"
  <2>1. version = r.rev /\ version' = r.rev - 1
    BY <1>8 DEF Succeeds, From, RunAll, Final, To, At
  <2>2. objects' = objects \ Dropped(r.rev)
    BY <1>8 DEF RunAll, Final, After, Reached, Scripts, Dropped
  <2>3. ~spoiled => objects' \cap Revised = Through(r.rev - 1)
    <3>1. ~spoiled => objects \cap Revised = Through(r.rev)
      BY <1>1, <2>1 DEF SchemaInv
    <3>2. Through(r.rev) \ Dropped(r.rev) = Through(r.rev - 1)
      BY <1>2, DowngradesUndo
    <3> QED
      BY <2>2, <3>1, <3>2
  <2> QED
    BY <1>2, <1>5, <2>1, <2>3, Revisions
<1> QED
  BY <1>2, <1>6, <1>7, <1>8

\* A run without transactions that ends anyhow but well spoils the schema.
LEMMA SpoilingKeeps ==
    ASSUME SchemaInv, NEW p \in Runners, ~transactional, spoiled',
           run' = [run EXCEPT ![p] = Rest],
           spoiled' \in BOOLEAN, UNCHANGED <<transactional, version, started>>
    PROVE  SchemaInv'
<1>1. \A q \in Runners : run'[q] = IF q = p THEN Rest ELSE run[q]
  BY DEF SchemaInv, SchemaTypeOK
<1> QED
  BY <1>1 DEF SchemaInv, SchemaTypeOK

\* One more statement of a script.
LEMMA OneMore ==
    ASSUME NEW r \in [way : {"up", "down"}, rev : 1 .. LastRevision, done : Nat],
           r.done < Len(Statements(r)), NEW o, o = Statements(r)[r.done + 1]
    PROVE  Made([r EXCEPT !.done = @ + 1])
             = IF r.way = "up" THEN Made(r) \cup {o} ELSE Made(r) \ Takes(o)
<1> DEFINE n == r.rev
           k == r.done
           s == [r EXCEPT !.done = @ + 1]
<1>1. s.way = r.way /\ s.rev = n /\ s.done = k + 1 /\ From(s) = From(r) /\ k \in Nat
  BY DEF From
<1>2. o = IF r.way = "up" THEN Upgrades[n][k + 1] ELSE Downgrades[n][k + 1]
  BY StatementsType
<1>3. 1 .. k + 1 = (1 .. k) \cup {k + 1}
  BY <1>1
<1> HIDE DEF n, k, s
<1> SUFFICES Made(s) = IF r.way = "up" THEN Made(r) \cup {o} ELSE Made(r) \ Takes(o)
  BY DEF s
<1>4. CASE r.way = "up"
  <2>1. /\ Made(r) = Through(From(r)) \cup {Upgrades[n][i] : i \in 1 .. k}
        /\ Made(s) = Through(From(r)) \cup {Upgrades[n][i] : i \in 1 .. k + 1}
    BY <1>1, <1>4 DEF Made, After, n, k
  <2> QED
    BY <1>2, <1>3, <1>4, <2>1
<1>5. CASE r.way # "up"
  <2>1. /\ Made(r) = Through(From(r)) \ UNION {Takes(Downgrades[n][i]) : i \in 1 .. k}
        /\ Made(s) = Through(From(r)) \ UNION {Takes(Downgrades[n][i]) : i \in 1 .. k + 1}
    BY <1>1, <1>5 DEF Made, After, n, k
  <2>2. UNION {Takes(Downgrades[n][i]) : i \in 1 .. k + 1}
          = (UNION {Takes(Downgrades[n][i]) : i \in 1 .. k}) \cup Takes(Downgrades[n][k + 1])
    BY <1>3
  <2> QED
    BY <1>2, <1>5, <2>1, <2>2
<1> QED
  BY <1>4, <1>5

\* What an upgrade creates is of a revision.
LEMMA CreatesRevised ==
    ASSUME NEW r \in [way : {"up", "down"}, rev : 1 .. LastRevision, done : Nat],
           r.way = "up", r.done < Len(Statements(r))
    PROVE  Statements(r)[r.done + 1] \in Revised
<1>1. Statements(r)[r.done + 1] \in ToSet(Upgrades[r.rev])
  <2>1. r.rev \in 1 .. LastRevision /\ r.done + 1 \in 1 .. Len(Upgrades[r.rev])
    BY StatementsType
  <2> QED
    BY <2>1, StatementsType, ScriptTypes
<1> QED
  BY <1>1, ThroughGrows

LEMMA RunOneKeeps ==
    ASSUME SchemaInv, NEW p \in Runners, RunOne(p)
    PROVE  SchemaInv'
<1> DEFINE r == run[p]
           o == Statements(r)[r.done + 1]
           s == [r EXCEPT !.done = @ + 1]
<1>1. /\ ~transactional /\ r # Rest /\ Remaining(r) # {}
      /\ UNCHANGED <<transactional, started>>
  BY DEF RunOne
<1>2. /\ r \in [way : {"up", "down"}, rev : 1 .. LastRevision, done : Nat]
      /\ r.way \in {"up", "down"}
  BY <1>1 DEF SchemaInv, SchemaTypeOK
<1>3. r.done < Len(Statements(r))
  BY <1>1, <1>2, StatementsType DEF Remaining
<1>4. CASE ~Possible(r.way, o, objects)
  <2>1. Fail(p)
    BY <1>4 DEF RunOne
  <2>2. run' = [run EXCEPT ![p] = Rest] /\ spoiled' /\ spoiled' \in BOOLEAN /\ UNCHANGED version
    BY <2>1 DEF Fail
  <2> QED
    BY <1>1, <2>2, SpoilingKeeps
<1>5. CASE Possible(r.way, o, objects)
  <2>1. /\ objects' = IF r.way = "up" THEN objects \cup {o} ELSE objects \ Takes(o)
        /\ run' = [run EXCEPT ![p] = s]
        /\ UNCHANGED <<version, spoiled>>
    BY <1>5 DEF RunOne
  <2>2. /\ s \in [way : {"up", "down"}, rev : 1 .. LastRevision, done : Nat]
        /\ s # Rest /\ From(s) = From(r)
        /\ s.done <= Len(Statements(s))
    <3>1. /\ s \in [way : {"up", "down"}, rev : 1 .. LastRevision, done : Nat]
          /\ s.way = r.way /\ s.rev = r.rev /\ s.done = r.done + 1
      BY <1>2
    <3>2. Statements(s) = Statements(r)
      BY <3>1 DEF Statements
    <3>3. s # Rest
      BY <3>1, StatementsType
    <3> QED
      BY <1>2, <1>3, <3>1, <3>2, <3>3, StatementsType DEF From
  <2>3. Made(s) = IF r.way = "up" THEN Made(r) \cup {o} ELSE Made(r) \ Takes(o)
    BY <1>2, <1>3, OneMore
  <2>4. r.way = "up" => o \in Revised
    BY <1>2, <1>3, CreatesRevised
  <2> HIDE DEF s, o
  <2>5. \A q \in Runners : run'[q] = IF q = p THEN s ELSE run[q]
    BY <2>1 DEF SchemaInv, SchemaTypeOK
  <2>6. SchemaTypeOK'
    BY <1>1, <2>1, <2>2, <2>5 DEF SchemaInv, SchemaTypeOK
  <2>7. ~spoiled => /\ version = From(r) /\ objects \cap Revised = Made(r)
                    /\ \A q \in Runners : run[q] # Rest => q = p
    BY <1>1 DEF SchemaInv
  <2>8. ~spoiled' => objects' \cap Revised = Made(s)
    BY <2>1, <2>3, <2>4, <2>7
  <2>9. ~AtRest'
    BY <2>2, <2>5 DEF AtRest
  <2>10. ~spoiled' => \A q \in Runners : run'[q] # Rest => q = p /\ run'[q] = s
    BY <2>1, <2>5, <2>7
  <2> QED
    BY <1>1, <2>1, <2>2, <2>6, <2>7, <2>8, <2>9, <2>10 DEF SchemaInv
<1> QED
  BY <1>4, <1>5

LEMMA MoveVersionKeeps ==
    ASSUME SchemaInv, NEW p \in Runners, MoveVersion(p)
    PROVE  SchemaInv'
<1> DEFINE r == run[p]
           s == Following(r)
<1>1. /\ ~transactional /\ r # Rest /\ Remaining(r) = {}
      /\ UNCHANGED <<transactional, started>>
  BY DEF MoveVersion
<1>2. /\ r \in [way : {"up", "down"}, rev : 1 .. LastRevision, done : Nat]
      /\ r.way \in {"up", "down"} /\ r.rev \in 1 .. LastRevision
      /\ r.done <= Len(Statements(r))
  BY <1>1 DEF SchemaInv, SchemaTypeOK
<1>3. r.done = Len(Statements(r))
  <2>1. r.done \in Nat /\ Len(Statements(r)) \in Nat
    BY <1>2, StatementsType
  <2>2. ~(r.done + 1 <= Len(Statements(r)))
    <3> SUFFICES ASSUME r.done + 1 <= Len(Statements(r)) PROVE FALSE
      OBVIOUS
    <3>1. r.done + 1 \in Remaining(r)
      BY <2>1 DEF Remaining
    <3> QED
      BY <1>1, <3>1
  <2> QED
    BY <1>2, <2>1, <2>2
<1>4. CASE version # From(r)
  <2>1. Fail(p)
    BY <1>4 DEF MoveVersion
  <2>2. run' = [run EXCEPT ![p] = Rest] /\ spoiled' /\ spoiled' \in BOOLEAN /\ UNCHANGED version
    BY <2>1 DEF Fail
  <2> QED
    BY <1>1, <2>2, SpoilingKeeps
<1>5. CASE version = From(r)
  <2>1. /\ version' = To(r)
        /\ run' = [run EXCEPT ![p] = s]
        /\ UNCHANGED <<objects, spoiled>>
    BY <1>5 DEF MoveVersion
  <2>2. To(r) \in 0 .. LastRevision
    BY <1>2, Revisions DEF To
  <2>3. \/ s = Rest
        \/ /\ s \in [way : {"up", "down"}, rev : 1 .. LastRevision, done : Nat]
           /\ s.done <= Len(Statements(s)) /\ s.done = 0 /\ s # Rest
           /\ From(s) = To(r) /\ Made(s) = Through(To(r))
    <3>1. CASE r.way = "up" /\ r.rev < LastRevision
      <4>1. s = At("up", r.rev + 1, 0) /\ r.rev + 1 \in 1 .. LastRevision /\ To(r) = r.rev
        BY <1>2, <3>1, Revisions DEF Following, To
      <4>2. ASSUME NEW n \in 1 .. LastRevision
            PROVE  From(At("up", n, 0)) = n - 1 /\ Made(At("up", n, 0)) = Through(n - 1)
        BY PlanType
      <4> HIDE DEF s
      <4>3. From(s) = To(r) /\ Made(s) = Through(To(r))
        <5>1. PICK n \in 1 .. LastRevision : n = r.rev + 1
          BY <4>1
        <5>2. s = At("up", n, 0)
          BY <4>1, <5>1
        <5>3. From(s) = n - 1 /\ Made(s) = Through(n - 1)
          BY <4>2, <5>2
        <5>4. n - 1 = To(r)
          BY <1>2, <4>1, <5>1
        <5> QED
          BY <5>3, <5>4
      <4>4. /\ s \in [way : {"up", "down"}, rev : 1 .. LastRevision, done : Nat]
            /\ s.done <= Len(Statements(s)) /\ s.done = 0
        BY <4>1, PlanType
      <4>5. s # Rest
        BY <4>4, StatementsType
      <4> QED
        BY <4>3, <4>4, <4>5
    <3>2. CASE ~(r.way = "up" /\ r.rev < LastRevision)
      BY <3>2 DEF Following
    <3> QED
      BY <3>1, <3>2
  <2>4. Made(r) = Through(To(r))
    BY <1>2, <1>3, ScriptEnds
  <2> HIDE DEF s
  <2>5. \A q \in Runners : run'[q] = IF q = p THEN s ELSE run[q]
    BY <2>1 DEF SchemaInv, SchemaTypeOK
  <2>6. SchemaTypeOK'
    BY <1>1, <2>1, <2>2, <2>3, <2>5 DEF SchemaInv, SchemaTypeOK
  <2>7. ~spoiled' => /\ objects' \cap Revised = Through(version')
                     /\ \A q \in Runners : run'[q] # Rest => q = p /\ run'[q] = s
    BY <1>1, <2>1, <2>4, <2>5 DEF SchemaInv
  <2> QED
    BY <1>1, <2>1, <2>3, <2>6, <2>7 DEF SchemaInv
<1> QED
  BY <1>4, <1>5

LEMMA RunDiesKeeps ==
    ASSUME SchemaInv, NEW p \in Runners, RunDies(p)
    PROVE  SchemaInv'
<1>1. /\ run' = [run EXCEPT ![p] = Rest]
      /\ spoiled' = (spoiled \/ ~transactional)
      /\ UNCHANGED <<transactional, objects, version, started>>
  BY DEF RunDies
<1>2. CASE ~transactional
  BY <1>1, <1>2, SpoilingKeeps
<1>3. CASE transactional
  <2>1. \A q \in Runners : run'[q] = IF q = p THEN Rest ELSE run[q]
    BY <1>1 DEF SchemaInv, SchemaTypeOK
  <2>2. Rest.done = 0
    BY DEF Rest
  <2> QED
    BY <1>1, <1>3, <2>1, <2>2 DEF SchemaInv, SchemaTypeOK
<1> QED
  BY <1>2, <1>3

\* What init_db makes of a revision spoils the schema; the rest is no revision's.
LEMMA CreateAllKeeps ==
    ASSUME SchemaInv, CreateAll
    PROVE  SchemaInv'
<1> DEFINE new == UNION {TableOf(t) : t \in Tables \ objects}
<1>1. /\ objects' = objects \cup new
      /\ started' = TRUE
      /\ spoiled' = (spoiled \/ new \cap Revised # {})
      /\ UNCHANGED <<transactional, version, run>>
  BY DEF CreateAll
<1> HIDE DEF new
<1>2. ~spoiled' => ~spoiled /\ objects' \cap Revised = objects \cap Revised
  BY <1>1
<1>3. SchemaTypeOK'
  BY <1>1 DEF SchemaInv, SchemaTypeOK
<1>4. AtRest' = AtRest
  BY <1>1 DEF AtRest
<1> QED
  BY <1>1, <1>2, <1>3, <1>4 DEF SchemaInv

\* Between runs the schema is that of the version, however many upgrades and
\* downgrades led to it and however they overlapped and failed, unless the
\* application made tables of a revision itself or runs without a transaction
\* overlapped, failed or died: do_run_migrations and the revisions' own
\* upgrade and downgrade.
THEOREM SchemaFollowsVersionHolds == SchemaSpec => []SchemaFollowsVersion
<1>1. SchemaInit => SchemaInv
  <2> SUFFICES ASSUME SchemaInit PROVE SchemaInv
    OBVIOUS
  <2>1. \A p \in Runners : run[p] = Rest /\ run[p].done = 0
    BY DEF SchemaInit, Rest
  <2>2. objects \cap Revised = Through(version)
    BY DEF SchemaInit, Through, Between
  <2>3. SchemaTypeOK
    <3>1. transactional \in BOOLEAN /\ started \in BOOLEAN /\ spoiled \in BOOLEAN
      BY Zenon DEF SchemaInit
    <3>2. version \in 0 .. LastRevision
      BY Revisions DEF SchemaInit
    <3>3. DOMAIN run = Runners
      BY DEF SchemaInit
    <3> QED
      BY <2>1, <3>1, <3>2, <3>3, Zenon DEF SchemaTypeOK
  <2> QED
    BY <2>1, <2>2, <2>3 DEF SchemaInv
<1>2. SchemaInv /\ [SchemaNext]_schemaVars => SchemaInv'
  <2> SUFFICES ASSUME SchemaInv, [SchemaNext]_schemaVars PROVE SchemaInv'
    OBVIOUS
  <2>1. CASE \E p \in Runners : StartUpgrade(p) \/ StartDowngrade(p)
    BY <2>1, StartKeeps
  <2>2. CASE \E p \in Runners : RunAll(p)
    BY <2>2, RunAllKeeps
  <2>3. CASE \E p \in Runners : RunOne(p)
    BY <2>3, RunOneKeeps
  <2>4. CASE \E p \in Runners : MoveVersion(p)
    BY <2>4, MoveVersionKeeps
  <2>5. CASE \E p \in Runners : RunDies(p)
    BY <2>5, RunDiesKeeps
  <2>6. CASE CreateAll
    BY <2>6, CreateAllKeeps
  <2>7. CASE UNCHANGED schemaVars
    BY <2>7 DEF schemaVars, SchemaInv, SchemaTypeOK, AtRest
  <2> QED
    BY <2>1, <2>2, <2>3, <2>4, <2>5, <2>6, <2>7 DEF SchemaNext
<1>3. SchemaInv => SchemaFollowsVersion
  BY DEF SchemaInv, SchemaFollowsVersion
<1> QED
  BY <1>1, <1>2, <1>3, PTL DEF SchemaSpec

=============================================================================
