------------------------- MODULE FeatureFlags_proofs -------------------------
(* Theorems about FeatureFlags, for any number of lookups and writes, any   *)
(* TTL and any pause of a lookup.                                           *)
EXTENDS FeatureFlags, TLAPS

LEMMA CellsAreCells ==
    /\ "global" \in Cells
    /\ Subjects \subseteq Cells
    /\ Cells \subseteq {"user", "tenant", "global"}
BY ConstantsAssumption DEF Cells

LEMMA BoundIsNatural == Bound \in Nat /\ Ttl \in Nat /\ Ttl > 0 /\ MaxPause \in Nat
BY ConstantsAssumption DEF Bound

LEMMA ValueType ==
    ASSUME TypeOK, NEW c \in Cells
    PROVE  Value(c) \in Rows
BY DEF TypeOK, Value, Rows

-----------------------------------------------------------------------------
(* Types.                                                                   *)

LEMMA LookupSet ==
    ASSUME NEW x \in Lookup
    PROVE  /\ \A at \in {"idle", "asking", "querying", "filling"} : [x EXCEPT !.at = at] \in Lookup
           /\ \A c \in Cells : [x EXCEPT !.cell = c] \in Lookup
           /\ \A v \in Rows : [x EXCEPT !.value = v] \in Lookup
<1>1. \A at \in {"idle", "asking", "querying", "filling"} : [x EXCEPT !.at = at] \in Lookup
  BY DEF Lookup
<1>2. \A c \in Cells : [x EXCEPT !.cell = c] \in Lookup
  BY DEF Lookup
<1>3. \A v \in Rows : [x EXCEPT !.value = v] \in Lookup
  BY DEF Lookup
<1> QED
  BY <1>1, <1>2, <1>3

LEMMA WriteSet ==
    ASSUME NEW x \in Write
    PROVE  \A at \in {"idle", "found", "committed", "clearing"} : [x EXCEPT !.at = at] \in Write
BY DEF Write

LEMMA Fields ==
    ASSUME TypeOK
    PROVE  /\ \A r \in Readers : look[r] \in Lookup /\ look[r].cell \in Cells
                                 /\ look[r].value \in Rows
           /\ \A w \in Writers : write[w] \in Write /\ write[w].cell \in Cells
                                 /\ write[w].want \in Rows
BY DEF TypeOK, Lookup, Write

\* Every variable keeps its type.
THEOREM TypeCorrect == Spec => []TypeOK
<1>0. NoLookup \in Lookup /\ NoWrite \in Write
  BY CellsAreCells DEF NoLookup, Lookup, NoWrite, Write, Rows
<1>1. Init => TypeOK
  BY <1>0, BoundIsNatural DEF Init, TypeOK, Rows
<1>2. TypeOK /\ [Next]_vars => TypeOK'
  <2> SUFFICES ASSUME TypeOK, [Next]_vars PROVE TypeOK'
    OBVIOUS
  <2> USE DEF TypeOK
  <2>1. ASSUME NEW r \in Readers, NEW c \in Cells, NEW t \in BOOLEAN, IsEnabled(r, c, t)
        PROVE  TypeOK'
    <3>1. [at |-> "asking", cell |-> c, tenant |-> t, value |-> "none"] \in Lookup
      BY <2>1 DEF IsEnabled, Lookup, Rows
    <3> QED
      BY <2>1, <3>1 DEF IsEnabled
  <2>2. ASSUME NEW r \in Readers, RedisGet(r) PROVE TypeOK'
    <3>1. [look[r] EXCEPT !.at = "querying"] \in Lookup
      BY LookupSet
    <3>2. look' \in [Readers -> Lookup]
      BY <1>0, <2>2, <3>1 DEF RedisGet, Answered
    <3> QED
      BY <2>2, <3>2 DEF RedisGet
  <2>3. ASSUME NEW r \in Readers, Query(r) PROVE TypeOK'
    <3> DEFINE asking == [look[r] EXCEPT !.at = "asking", !.cell = NextCell(r)]
               filling == [look[r] EXCEPT !.at = "filling", !.value = Value(look[r].cell)]
    <3>1. NextCell(r) \in Cells
      <4>1. look[r].tenant => "tenant" \in Cells
        BY CellsAreCells DEF Lookup
      <4> QED
        BY <4>1, CellsAreCells DEF NextCell
    <3>2. asking \in Lookup
      BY <3>1, LookupSet
    <3>3. filling \in Lookup
      BY Fields, ValueType, LookupSet
    <3>4. look' = [look EXCEPT ![r] = asking] \/ look' = [look EXCEPT ![r] = filling]
      BY <2>3 DEF Query
    <3> HIDE DEF asking, filling
    <3>5. look' \in [Readers -> Lookup]
      BY <3>2, <3>3, <3>4
    <3>6. held' \in [Readers -> 0..MaxPause]
      BY <2>3, BoundIsNatural DEF Query
    <3> QED
      BY <2>3, <3>5, <3>6 DEF Query
  <2>4. ASSUME NEW r \in Readers, Fill(r) PROVE TypeOK'
    <3>1. look' \in [Readers -> Lookup]
      BY <1>0, <2>4 DEF Fill, Answered
    <3>2. cache' \in [Cells -> Rows]
      BY <2>4, Fields DEF Fill
    <3>3. ttl' \in [Cells -> 0..Ttl]
      BY <2>4, Fields, BoundIsNatural DEF Fill
    <3> QED
      BY <2>4, <3>1, <3>2, <3>3 DEF Fill
  <2>5. ASSUME NEW w \in Writers, NEW c \in Cells, NEW v \in Rows, Find(w, c, v)
        PROVE  TypeOK'
    <3>1. [at |-> "found", cell |-> c, saw |-> db[c], want |-> v] \in Write
      BY DEF Write
    <3> QED
      BY <2>5, <3>1 DEF Find
  <2>6. ASSUME NEW w \in Writers, UpsertFlag(w) \/ \E s \in Subjects : Override(w, s)
        PROVE  TypeOK'
    BY <2>5, <2>6, CellsAreCells DEF UpsertFlag, Override
  <2>7. ASSUME NEW w \in Writers, Commit(w) PROVE TypeOK'
    <3>1. ASSUME NEW x \in Rows, Changes(w, x)
          PROVE  write' \in [Writers -> Write] /\ db' \in [Cells -> Rows]
                 /\ since' \in [Cells -> 0..(Bound + 1)]
      <4>1. /\ [write[w] EXCEPT !.at = "clearing"] \in Write
            /\ [write[w] EXCEPT !.at = "committed"] \in Write
        BY WriteSet
      <4>2. \/ write' = [write EXCEPT ![w] = [write[w] EXCEPT !.at = "clearing"]]
            \/ write' = [write EXCEPT ![w] = [write[w] EXCEPT !.at = "committed"]]
        BY <3>1 DEF Changes
      <4>3. write' \in [Writers -> Write]
        BY <4>1, <4>2
      <4>4. db' \in [Cells -> Rows] /\ since' \in [Cells -> 0..(Bound + 1)]
        BY <3>1, Fields, BoundIsNatural DEF Changes
      <4> QED
        BY <4>3, <4>4
    <3>2. ASSUME WriteFails(w)
          PROVE  write' \in [Writers -> Write] /\ db' \in [Cells -> Rows]
                 /\ since' \in [Cells -> 0..(Bound + 1)]
      BY <1>0, <3>2 DEF WriteFails
    <3>3. \/ WriteFails(w)
          \/ \E x \in Rows : Changes(w, x)
      BY <2>7, Fields DEF Commit, Rows
    <3>4. UNCHANGED <<cache, ttl, look, held>>
      BY <2>7 DEF Commit
    <3> QED
      BY <3>1, <3>2, <3>3, <3>4
  <2>8. ASSUME NEW w \in Writers, Refresh(w) PROVE TypeOK'
    <3>1. [write[w] EXCEPT !.at = "clearing"] \in Write
      BY WriteSet
    <3> QED
      BY <1>0, <2>8, <3>1 DEF Refresh
  <2>9. ASSUME NEW w \in Writers, Clear(w) PROVE TypeOK'
    BY <1>0, <2>9, BoundIsNatural DEF Clear, Rows
  <2>10. ASSUME NEW w \in Writers, Abandon(w) PROVE TypeOK'
    BY <1>0, <2>10 DEF Abandon, WriteFails
  <2>11. CASE Tick
    <3>1. held' \in [Readers -> 0..MaxPause]
      <4>1. \A r \in Readers : Filling(r) => held[r] + 1 \in 0..MaxPause
        BY <2>11, BoundIsNatural DEF Tick
      <4> QED
        BY <2>11, <4>1 DEF Tick
    <3>2. ttl' \in [Cells -> 0..Ttl]
      BY <2>11, BoundIsNatural DEF Tick
    <3>3. cache' \in [Cells -> Rows]
      BY <2>11 DEF Tick, Rows
    <3>4. since' \in [Cells -> 0..(Bound + 1)]
      BY <2>11, BoundIsNatural DEF Tick
    <3> QED
      BY <2>11, <3>1, <3>2, <3>3, <3>4 DEF Tick
  <2>12. CASE UNCHANGED vars
    BY <2>12 DEF vars
  <2> QED
    BY <2>1, <2>2, <2>3, <2>4, <2>6, <2>7, <2>8, <2>9, <2>10, <2>11, <2>12 DEF Next
<1> QED
  BY <1>1, <1>2, PTL DEF Spec

-----------------------------------------------------------------------------
(* Staleness.                                                               *)

\* An entry that is wrong leaves before the cell has been changed for too long,
\* and a lookup about to store a wrong value has held it since the change.
AgeInv ==
    /\ \A c \in Cells : /\ ttl[c] = 0 => cache[c] = "none"
                        /\ Stale(c) => since[c] + ttl[c] <= Bound
    /\ \A r \in Readers : Filling(r) /\ look[r].value # Value(look[r].cell)
                             => since[look[r].cell] <= held[r]

\* A step that changes nothing an entry, a row or a filling lookup says.
LEMMA Quiet ==
    ASSUME AgeInv, TypeOK, UNCHANGED <<db, cache, ttl, since, held>>,
           \A r \in Readers : look'[r].at = "filling" => look'[r] = look[r]
    PROVE  AgeInv'
<1>1. \A c \in Cells : Value(c)' = Value(c) /\ Stale(c)' = Stale(c)
  BY DEF Value, Stale
<1>2. ASSUME NEW r \in Readers, Filling(r)'
      PROVE  look'[r] = look[r] /\ Filling(r)
  BY <1>2 DEF Filling
<1> QED
  BY <1>1, <1>2, Fields DEF AgeInv

\* However lookups and writes race and whatever fails, a wrong entry is gone
\* within the TTL and one pause after its cell changed (is_enabled, set_flag,
\* set_override, delete_override).
THEOREM BoundedStalenessHolds == Spec => []BoundedStaleness
<1>1. Init => AgeInv
  BY DEF Init, AgeInv, Stale, Filling, NoLookup
<1>2. TypeOK /\ TypeOK' /\ AgeInv /\ [Next]_vars => AgeInv'
  <2> SUFFICES ASSUME TypeOK, TypeOK', AgeInv, [Next]_vars PROVE AgeInv'
    OBVIOUS
  <2>1. ASSUME NEW r \in Readers, NEW c \in Cells, NEW t \in BOOLEAN, IsEnabled(r, c, t)
        PROVE  AgeInv'
    BY <2>1, Quiet DEF IsEnabled, TypeOK
  <2>2. ASSUME NEW r \in Readers, RedisGet(r) PROVE AgeInv'
    <3>1. \A q \in Readers : look'[q].at = "filling" => look'[q] = look[q]
      <4>1. [look[r] EXCEPT !.at = "querying"].at = "querying" /\ NoLookup.at = "idle"
        BY Fields DEF Lookup, NoLookup
      <4> QED
        BY <2>2, <4>1 DEF RedisGet, Answered, TypeOK
    <3> QED
      BY <2>2, <3>1, Quiet DEF RedisGet
  <2>3. ASSUME NEW r \in Readers, Query(r) PROVE AgeInv'
    <3>1. \A c \in Cells : Value(c)' = Value(c) /\ Stale(c)' = Stale(c)
      BY <2>3 DEF Query, Value, Stale
    <3>2. ASSUME NEW q \in Readers, Filling(q)'
          PROVE  \/ Filling(q) /\ look'[q] = look[q] /\ held'[q] = held[q]
                 \/ look'[q].value = Value(look'[q].cell)
      <4> DEFINE asking == [look[r] EXCEPT !.at = "asking", !.cell = NextCell(r)]
                 filling == [look[r] EXCEPT !.at = "filling", !.value = Value(look[r].cell)]
      <4>1. asking.at = "asking"
        BY Fields DEF Lookup
      <4>2. filling.value = Value(look[r].cell) /\ filling.cell = look[r].cell
        BY Fields DEF Lookup
      <4>3. \/ look' = [look EXCEPT ![r] = asking] /\ held' = held
            \/ look' = [look EXCEPT ![r] = filling] /\ held' = [held EXCEPT ![r] = 0]
        BY <2>3 DEF Query
      <4> HIDE DEF asking, filling
      <4> QED
        BY <3>2, <4>1, <4>2, <4>3 DEF Filling, TypeOK
    <3>3. ASSUME NEW q \in Readers, Filling(q)', look'[q].value # Value(look'[q].cell)
          PROVE  since[look'[q].cell] <= held'[q]
      BY <3>2, <3>3 DEF AgeInv
    <3>4. UNCHANGED <<db, cache, ttl, since>>
      BY <2>3 DEF Query
    <3> QED
      BY <3>1, <3>3, <3>4, Fields DEF AgeInv, TypeOK, Value
  <2>4. ASSUME NEW r \in Readers, Fill(r) PROVE AgeInv'
    <3>1. ASSUME NEW c \in Cells
          PROVE  /\ ttl'[c] = 0 => cache'[c] = "none"
                 /\ Stale(c)' => since'[c] + ttl'[c] <= Bound
      <4>1. CASE cache'[c] = cache[c] /\ ttl'[c] = ttl[c]
        BY <2>4, <4>1 DEF Fill, AgeInv, Stale, Value
      <4>2. CASE c = look[r].cell /\ cache'[c] = look[r].value /\ ttl'[c] = Ttl
        <5>1. Stale(c)' => since[c] <= held[r]
          BY <2>4, <4>2 DEF Fill, AgeInv, Stale, Value, Filling
        <5> QED
          BY <2>4, <4>2, <5>1, BoundIsNatural DEF Fill, TypeOK, Bound
      <4> QED
        BY <2>4, <4>1, <4>2, Fields DEF Fill, TypeOK
    <3>2. ASSUME NEW q \in Readers, Filling(q)'
          PROVE  Filling(q) /\ look'[q] = look[q]
      BY <2>4, <3>2 DEF Fill, Answered, NoLookup, Filling, TypeOK
    <3>3. UNCHANGED <<db, held, since>>
      BY <2>4 DEF Fill
    <3> QED
      BY <3>1, <3>2, <3>3 DEF AgeInv, Value
  <2>5. ASSUME NEW w \in Writers,
               UpsertFlag(w) \/ (\E s \in Subjects : Override(w, s)) \/ Refresh(w)
        PROVE  AgeInv'
    BY <2>5, Quiet DEF UpsertFlag, Override, Find, Refresh
  <2>6. ASSUME NEW w \in Writers, Commit(w) PROVE AgeInv'
    <3>1. CASE UNCHANGED <<db, since>>
      BY <2>6, <3>1, Quiet DEF Commit
    <3>2. ASSUME NEW x \in Rows, Changes(w, x), x # db[write[w].cell]
          PROVE  AgeInv'
      <4> DEFINE k == write[w].cell
      <4>1. k \in Cells
        BY Fields
      <4>2. since'[k] = 0 /\ \A c \in Cells \ {k} : since'[c] = since[c] /\ db'[c] = db[c]
        BY <3>2, <4>1 DEF Changes, TypeOK
      <4>3. UNCHANGED <<cache, ttl, look, held>>
        BY <2>6 DEF Commit
      <4>4. ASSUME NEW c \in Cells PROVE Stale(c)' => since'[c] + ttl'[c] <= Bound
        <5>1. CASE c = k
          BY <4>2, <4>3, <5>1, BoundIsNatural DEF TypeOK, Bound
        <5>2. CASE c # k
          BY <4>2, <4>3, <5>2 DEF AgeInv, Stale, Value
        <5> QED
          BY <5>1, <5>2
      <4>5. ASSUME NEW r \in Readers, Filling(r)', (look[r].value # Value(look[r].cell))'
            PROVE  since'[look'[r].cell] <= held'[r]
        <5>1. CASE look[r].cell = k
          BY <4>2, <4>3, <5>1 DEF TypeOK
        <5>2. CASE look[r].cell # k
          BY <4>2, <4>3, <4>5, <5>2, Fields DEF AgeInv, Value, Filling
        <5> QED
          BY <5>1, <5>2
      <4>6. \A c \in Cells : ttl'[c] = 0 => cache'[c] = "none"
        BY <4>3 DEF AgeInv
      <4> QED
        BY <4>3, <4>4, <4>5, <4>6 DEF AgeInv
    <3>3. \/ UNCHANGED <<db, since>>
          \/ \E x \in Rows : Changes(w, x) /\ x # db[write[w].cell]
      BY <2>6, Fields DEF Commit, Changes, WriteFails, TypeOK, Rows
    <3> QED
      BY <3>1, <3>2, <3>3
  <2>7. ASSUME NEW w \in Writers, Clear(w) PROVE AgeInv'
    <3>1. ASSUME NEW c \in Cells
          PROVE  /\ ttl'[c] = 0 => cache'[c] = "none"
                 /\ Stale(c)' => since'[c] + ttl'[c] <= Bound
      <4>1. CASE cache'[c] = cache[c] /\ ttl'[c] = ttl[c]
        BY <2>7, <4>1 DEF Clear, AgeInv, Stale, Value
      <4>2. CASE cache'[c] = "none"
        BY <4>2 DEF Stale
      <4> QED
        BY <2>7, <4>1, <4>2, Fields DEF Clear, TypeOK
    <3> QED
      BY <2>7, <3>1 DEF Clear, AgeInv, Value, Filling
  <2>8. ASSUME NEW w \in Writers, Abandon(w) PROVE AgeInv'
    BY <2>8, Quiet DEF Abandon, WriteFails
  <2>9. CASE Tick
    <3>1. UNCHANGED <<db, look>> /\ \A c \in Cells : Value(c)' = Value(c)
      BY <2>9 DEF Tick, Value
    <3>2. ASSUME NEW c \in Cells
          PROVE  /\ ttl'[c] = 0 => cache'[c] = "none"
                 /\ Stale(c)' => since'[c] + ttl'[c] <= Bound
      <4>1. CASE ttl[c] <= 1
        BY <2>9, <4>1 DEF Tick, AgeInv, Stale, TypeOK
      <4>2. CASE ttl[c] > 1
        <5>1. cache'[c] = cache[c] /\ ttl'[c] = ttl[c] - 1 /\ since'[c] <= since[c] + 1
          BY <2>9, <4>2 DEF Tick, TypeOK
        <5>2. Stale(c)' => since[c] + ttl[c] <= Bound
          BY <3>1, <5>1 DEF AgeInv, Stale
        <5>3. ttl[c] \in Nat /\ since[c] \in Nat /\ since'[c] \in Nat
          BY DEF TypeOK
        <5> QED
          BY <4>2, <5>1, <5>2, <5>3, BoundIsNatural
      <4> QED
        BY <4>1, <4>2 DEF TypeOK
    <3>3. ASSUME NEW r \in Readers, Filling(r)', (look[r].value # Value(look[r].cell))'
          PROVE  since'[look'[r].cell] <= held'[r]
      <4>0. look' = look /\ db' = db /\ Filling(r)
        BY <3>1, <3>3 DEF Filling
      <4>1. since[look[r].cell] <= held[r]
        BY <3>3, <4>0 DEF AgeInv, Value, Filling
      <4>2. held'[r] = held[r] + 1
        BY <2>9, <4>0 DEF Tick
      <4>3. look[r].cell \in Cells
        BY Fields
      <4>4. since'[look[r].cell] <= since[look[r].cell] + 1
        BY <2>9, <4>3 DEF Tick, TypeOK
      <4>5. held[r] \in Nat /\ since[look[r].cell] \in Nat /\ since'[look[r].cell] \in Nat
        BY <4>3 DEF TypeOK
      <4> QED
        BY <4>0, <4>1, <4>2, <4>4, <4>5
    <3> QED
      BY <3>2, <3>3 DEF AgeInv
  <2>10. CASE UNCHANGED vars
    BY <2>10, Quiet DEF vars
  <2> QED
    BY <2>1, <2>2, <2>3, <2>4, <2>5, <2>6, <2>7, <2>8, <2>9, <2>10 DEF Next
<1>3. AgeInv /\ TypeOK => BoundedStaleness
  BY BoundIsNatural DEF AgeInv, TypeOK, BoundedStaleness
<1> QED
  BY <1>1, <1>2, <1>3, TypeCorrect, PTL DEF Spec
=============================================================================
