--------------------------- MODULE ApiKeys_proofs ---------------------------
(* Theorems about ApiKeys, for any keys, requests and terms.                *)
EXTENDS ApiKeys, FiniteSetTheorems, TLAPS

\* The actions, as the proofs split them.
KeyAction(r, k) ==
    BeginRevoke(r, k) \/ BeginRotate(r, k) \/ BeginUse(r, k) \/ CommitRotate(r, k)

-----------------------------------------------------------------------------
(* Types.                                                                   *)

LEMMA BeforeType ==
    ASSUME NEW n \in 0..Never
    PROVE  Before(n) \in 0..Never
BY ConstantsAssumption DEF Before, Never

\* Every variable keeps its type.
THEOREM TypeCorrect == Spec => []TypeOK
<1>1. Init => TypeOK
  BY ConstantsAssumption DEF Init, TypeOK, Never
<1>2. TypeOK /\ [Next]_vars => TypeOK'
  <2> SUFFICES ASSUME TypeOK, [Next]_vars PROVE TypeOK'
    OBVIOUS
  <2> USE DEF TypeOK, history
  <2>1. ASSUME NEW k \in Keys, NEW n \in 1..Never, Issue(k, n) PROVE TypeOK'
    BY <2>1, ConstantsAssumption DEF Issue, Never
  <2>2. ASSUME NEW r \in Requests, NEW k \in Keys, BeginRevoke(r, k) \/ BeginRotate(r, k)
        PROVE  TypeOK'
    BY <2>2 DEF BeginRevoke, BeginRotate, Read, NoteOverlap
  <2>3. ASSUME NEW r \in Requests, NEW k \in Keys, BeginUse(r, k) PROVE TypeOK'
    BY <2>3 DEF BeginUse, Read
  <2>4. ASSUME NEW r \in Requests, NEW k \in Keys, CommitRotate(r, k) PROVE TypeOK'
    BY <2>4 DEF CommitRotate, Replace, HeirsTerm, Answer
  <2>5. ASSUME NEW r \in Requests, CommitRevoke(r) PROVE TypeOK'
    BY <2>5 DEF CommitRevoke, Answer
  <2>6. ASSUME NEW r \in Requests, CommitUse(r) \/ Die(r) PROVE TypeOK'
    BY <2>6 DEF CommitUse, Die, Answer
  <2>7. CASE Tick
    BY <2>7, BeforeType DEF Tick
  <2>8. CASE UNCHANGED vars
    BY <2>8 DEF vars
  <2> QED
    BY <2>1, <2>2, <2>3, <2>4, <2>5, <2>6, <2>7, <2>8 DEF Next, CreateKey, RequestChange
<1> QED
  BY <1>1, <1>2, PTL DEF Spec

-----------------------------------------------------------------------------
(* Revocation, and the term of a line.                                      *)

\* No commit gives a revoked key back (revoke_api_key, rotate_api_key,
\* authenticate_api_key).
THEOREM RevocationIsFinalHolds == Spec => RevocationIsFinal
<1>1. TypeOK /\ [Next]_vars
        => [\A k \in Keys : state[k] = "revoked" => state'[k] = "revoked"]_vars
  <2> SUFFICES ASSUME TypeOK, [Next]_vars, NEW k \in Keys, state[k] = "revoked"
               PROVE  state'[k] = "revoked"
    OBVIOUS
  <2> USE DEF TypeOK
  <2>1. ASSUME NEW q \in Keys, NEW n \in 1..Never, Issue(q, n) PROVE state'[k] = "revoked"
    BY <2>1 DEF Issue
  <2>2. ASSUME NEW r \in Requests, NEW q \in Keys, KeyAction(r, q)
        PROVE  state'[k] = "revoked"
    BY <2>2 DEF KeyAction, BeginRevoke, BeginRotate, BeginUse, CommitRotate, Replace
  <2>3. ASSUME NEW r \in Requests, CommitRevoke(r) \/ CommitUse(r) \/ Die(r)
        PROVE  state'[k] = "revoked"
    BY <2>3 DEF CommitRevoke, CommitUse, Die
  <2>4. CASE Tick \/ UNCHANGED vars
    BY <2>4 DEF Tick, vars
  <2> QED
    BY <2>1, <2>2, <2>3, <2>4 DEF Next, KeyAction, CreateKey, RequestChange
<1> QED
  BY <1>1, TypeCorrect, PTL DEF Spec, RevocationIsFinal

\* Inductive: a line starts with a key that was issued, and keeps its term.
TermInv ==
    /\ \A k \in Keys : state[k] = "unused" => line[k] = k
    /\ \A k \in Keys : state[k] # "unused" => state[line[k]] # "unused"
    /\ \A k \in Keys : line[line[k]] = line[k]
    /\ LineKeepsItsTerm

\* Requests only work on keys that were issued.
Used == \A r \in Requests : at[r] # "idle" => state[key[r]] # "unused"

LEMMA TermInvHolds == Spec => [](TermInv /\ Used)
<1>1. Init => TermInv /\ Used
  BY DEF Init, TermInv, Used, LineKeepsItsTerm
<1>2. TypeOK /\ TermInv /\ Used /\ [Next]_vars => TermInv' /\ Used'
  <2> SUFFICES ASSUME TypeOK, TermInv, Used, [Next]_vars PROVE TermInv' /\ Used'
    OBVIOUS
  <2> USE DEF TypeOK, TermInv, Used, LineKeepsItsTerm, history
  <2>1. ASSUME NEW k \in Keys, NEW n \in 1..Never, Issue(k, n) PROVE TermInv' /\ Used'
    BY <2>1 DEF Issue
  <2>2. ASSUME NEW r \in Requests, NEW k \in Keys,
               BeginRevoke(r, k) \/ BeginRotate(r, k) \/ BeginUse(r, k)
        PROVE  TermInv' /\ Used'
    BY <2>2 DEF BeginRevoke, BeginRotate, BeginUse, Read
  <2>3. ASSUME NEW r \in Requests, NEW k \in Keys, CommitRotate(r, k)
        PROVE  TermInv' /\ Used'
    <3> DEFINE old == key[r]
    <3>1. /\ old \in Keys /\ state[old] # "unused" /\ state[k] = "unused" /\ old # k
          /\ line[k] = k /\ line[old] \in Keys /\ line[old] # k
      BY <2>3 DEF CommitRotate
    <3>2. /\ state' = [state EXCEPT ![old] = "revoked", ![k] = "active"]
          /\ left' = [left EXCEPT ![k] = left[old]]
          /\ line' = [line EXCEPT ![k] = line[old]]
          /\ at' = [at EXCEPT ![r] = "idle"] /\ key' = key
      BY <2>3 DEF CommitRotate, Replace, HeirsTerm, Answer
    <3>3. \A j \in Keys : state[j] # "unused" => line[j] # k
      BY <3>1
    <3>4. \A j \in Keys : j # k => line'[j] = line[j] /\ left'[j] = left[j]
      BY <3>2
    <3>5. \A j \in Keys : state[j] = "unused" /\ j # k => state'[j] = "unused"
      BY <3>1, <3>2
    <3>6. \A j \in Keys : state[j] # "unused" => state'[j] # "unused"
      BY <3>1, <3>2
    <3> HIDE DEF old
    <3>7. /\ line'[k] = line[old] /\ left'[k] = left[old] /\ state'[k] = "active"
      BY <3>1, <3>2
    <3>8. TermInv'
      BY <3>1, <3>3, <3>4, <3>5, <3>6, <3>7
    <3>9. Used'
      BY <3>2, <3>6
    <3> QED
      BY <3>8, <3>9
  <2>4. ASSUME NEW r \in Requests, CommitRevoke(r) PROVE TermInv' /\ Used'
    BY <2>4 DEF CommitRevoke, Answer
  <2>5. ASSUME NEW r \in Requests, CommitUse(r) \/ Die(r) PROVE TermInv' /\ Used'
    BY <2>5 DEF CommitUse, Die, Answer
  <2>6. CASE Tick
    BY <2>6 DEF Tick
  <2>7. CASE UNCHANGED vars
    BY <2>7 DEF vars
  <2> QED
    BY <2>1, <2>2, <2>3, <2>4, <2>5, <2>6, <2>7 DEF Next, CreateKey, RequestChange
<1> QED
  BY <1>1, <1>2, TypeCorrect, PTL DEF Spec

\* Rotation never prolongs a key (rotate_api_key).
THEOREM LineKeepsItsTermHolds == Spec => []LineKeepsItsTerm
<1>1. TermInv => LineKeepsItsTerm
  BY DEF TermInv
<1> QED
  BY <1>1, TermInvHolds, PTL

-----------------------------------------------------------------------------
(* One key in use per line.                                                 *)

\* Inductive, for a line l that no two requests changed at once: at most one
\* key is active and at most one request about to change it; who is about to
\* rotate holds the active key; and once closed the line has none.
Sound(l) ==
    /\ \A j, k \in Active(l) : j = k
    /\ \A q, r \in Changing(l) : q = r
    /\ \A r \in Requests :
          at[r] = "rotating" /\ line[key[r]] = l => state[key[r]] = "active"
    /\ l \in closed => Active(l) = {}

LineInv ==
    /\ \A l \in closed : state[l] # "unused"
    /\ \A l \in Keys \ overlapped : Sound(l)

\* A step that leaves keys and lines alone and adds no request to line l.
LEMMA SoundAsBefore ==
    ASSUME NEW l, Sound(l),
           UNCHANGED <<state, line, closed>>,
           \A r \in Requests : at'[r] \in {"rotating", "revoking"} /\ line[key'[r]] = l
                                => at'[r] = at[r] /\ key'[r] = key[r]
    PROVE  Sound(l)'
BY DEF Sound, Active, Changing

\* A request reads row k to rotate or to revoke it.
LEMMA SoundWhenReading ==
    ASSUME TypeOK, LineInv, NEW r \in Requests, NEW k \in Keys,
           BeginRevoke(r, k) \/ BeginRotate(r, k)
    PROVE  LineInv'
<1> USE DEF TypeOK
<1>1. /\ at[r] = "idle" /\ at'[r] \in {"revoking", "rotating"} /\ key'[r] = k
      /\ at'[r] = "rotating" => state[k] = "active"
      /\ \A q \in Requests \ {r} : at'[q] = at[q] /\ key'[q] = key[q]
      /\ UNCHANGED <<state, line, closed>>
      /\ overlapped' = IF Changing(line[k]) = {} THEN overlapped ELSE overlapped \cup {line[k]}
  BY DEF BeginRevoke, BeginRotate, Read, NoteOverlap
<1>2. ASSUME NEW l \in Keys \ overlapped' PROVE Sound(l)'
  <2>1. Sound(l) /\ l \in Keys \ overlapped
    BY <1>1, <1>2 DEF LineInv
  <2>2. CASE l # line[k]
    BY <2>1, <2>2, <1>1, SoundAsBefore
  <2>3. CASE l = line[k]
    <3>1. Changing(l) = {}
      BY <2>3, <1>1, <1>2
    <3>2. \A q \in Requests : q # r => ~(at'[q] \in {"revoking", "rotating"} /\ line[key'[q]] = l)
      BY <3>1, <1>1 DEF Changing
    <3>3. Active(l)' = Active(l)
      BY <1>1 DEF Active
    <3> QED
      BY <2>1, <3>2, <3>3, <1>1 DEF Sound, Changing
  <2> QED
    BY <2>2, <2>3
<1> QED
  BY <1>1, <1>2 DEF LineInv

LEMMA SoundWhenRotating ==
    ASSUME TypeOK, TermInv, Used, LineInv, NEW r \in Requests, NEW new \in Keys,
           CommitRotate(r, new)
    PROVE  LineInv'
<1> USE DEF TypeOK
<1> DEFINE old == key[r]
<1>1. /\ old \in Keys /\ state[old] # "unused" /\ at[r] = "rotating"
      /\ state[new] = "unused" /\ old # new
      /\ line[new] = new /\ line[old] \in Keys /\ line[old] # new
  BY DEF CommitRotate, TermInv, Used
<1>2. /\ state'[old] = "revoked" /\ state'[new] = "active"
      /\ \A k \in Keys \ {old, new} : state'[k] = state[k]
      /\ line'[new] = line[old]
      /\ \A k \in Keys \ {new} : line'[k] = line[k]
      /\ at'[r] = "idle" /\ \A q \in Requests \ {r} : at'[q] = at[q]
      /\ UNCHANGED <<key, closed, overlapped>>
  BY <1>1 DEF CommitRotate, Replace, Answer, history
<1>3. \A k \in Keys : state[k] # "unused" => line[k] # new
  BY <1>1 DEF TermInv
<1>4. \A q \in Requests : at'[q] # "idle" => /\ q # r /\ at[q] = at'[q] /\ key[q] # new
                                             /\ key[q] \in Keys /\ line'[key[q]] = line[key[q]]
  BY <1>1, <1>2 DEF Used
<1> HIDE DEF old
<1>5. ASSUME NEW l \in Keys \ overlapped PROVE Sound(l)'
  <2>1. Sound(l)
    BY <1>5 DEF LineInv
  <2>2. Changing(l)' \subseteq Changing(l) \ {r}
    BY <1>2, <1>4 DEF Changing
  <2>3. CASE l = line[old]
    <3>1. r \in Changing(l) /\ old \in Active(l)
      BY <2>1, <2>3, <1>1 DEF Changing, Sound, Active, old
    <3>2. Changing(l)' = {}
      BY <2>1, <2>2, <3>1 DEF Sound
    <3>3. l \notin closed
      BY <2>1, <3>1 DEF Sound
    <3>4. \A k \in Active(l)' : k = new
      BY <2>1, <3>1, <1>2 DEF Sound, Active
    <3> QED
      BY <3>2, <3>3, <3>4, <1>2 DEF Sound, Changing
  <2>4. CASE l # line[old]
    <3>1. Active(l)' \subseteq Active(l)
      BY <2>4, <1>1, <1>2 DEF Active
    <3>2. ASSUME NEW q \in Requests, at'[q] = "rotating", line'[key'[q]] = l
          PROVE  state'[key'[q]] = "active"
      <4>1. at[q] = "rotating" /\ key'[q] = key[q] /\ line[key[q]] = l /\ key[q] \in Keys \ {new}
        BY <3>2, <1>2, <1>4
      <4>2. state[key[q]] = "active" /\ key[q] # old
        BY <4>1, <2>1, <2>4 DEF Sound
      <4> QED
        BY <4>1, <4>2, <1>2
    <3> QED
      BY <2>1, <2>2, <3>1, <3>2, <1>2 DEF Sound
  <2> QED
    BY <2>3, <2>4
<1>6. \A l \in closed' : state'[l] # "unused"
  BY <1>2 DEF LineInv
<1> QED
  BY <1>2, <1>5, <1>6 DEF LineInv

LEMMA SoundWhenRevoking ==
    ASSUME TypeOK, TermInv, Used, LineInv, NEW r \in Requests, CommitRevoke(r)
    PROVE  LineInv'
<1> USE DEF TypeOK
<1> DEFINE k == key[r]
<1>1. /\ k \in Keys /\ at[r] = "revoking" /\ state[k] # "unused"
      /\ line[k] \in Keys /\ state[line[k]] # "unused"
      /\ state'[k] = "revoked" /\ \A j \in Keys \ {k} : state'[j] = state[j]
      /\ closed' = IF state[k] = "active" THEN closed \cup {line[k]} ELSE closed
      /\ at'[r] = "idle" /\ \A q \in Requests \ {r} : at'[q] = at[q]
      /\ UNCHANGED <<key, line, overlapped>>
  BY DEF CommitRevoke, Answer, TermInv, Used
<1>2. r \in Changing(line[k])
  BY <1>1 DEF Changing
<1> HIDE DEF k
<1>3. ASSUME NEW l \in Keys \ overlapped PROVE Sound(l)'
  <2>1. Sound(l)
    BY <1>3 DEF LineInv
  <2>2. Changing(l)' \subseteq Changing(l) \ {r} /\ Active(l)' \subseteq Active(l) \ {k}
    BY <1>1 DEF Changing, Active
  <2>3. \A q \in Requests : at'[q] = "rotating" /\ line[key[q]] = l => q \in Changing(l)'
    BY <1>1 DEF Changing
  <2>4. CASE l = line[k]
    <3>1. Changing(l)' = {}
      BY <2>1, <2>2, <2>4, <1>2 DEF Sound
    <3>2. state[k] = "active" => Active(l)' = {}
      BY <2>1, <2>2, <2>4, <1>1 DEF Sound, Active
    <3>3. l \in closed' => Active(l)' = {}
      BY <2>1, <2>2, <3>2, <1>1 DEF Sound
    <3> QED
      BY <2>1, <2>2, <2>3, <3>1, <3>3, <1>1 DEF Sound
  <2>5. CASE l # line[k]
    <3>1. l \in closed' => l \in closed
      BY <2>5, <1>1
    <3>2. ASSUME NEW q \in Requests, at'[q] = "rotating", line'[key'[q]] = l
          PROVE  state'[key'[q]] = "active"
      <4>1. at[q] = "rotating" /\ key'[q] = key[q] /\ line[key[q]] = l /\ key[q] \in Keys
        BY <3>2, <1>1
      <4>2. state[key[q]] = "active" /\ key[q] # k
        BY <4>1, <2>1, <2>5 DEF Sound
      <4> QED
        BY <4>1, <4>2, <1>1
    <3> QED
      BY <2>1, <2>2, <3>1, <3>2 DEF Sound
  <2> QED
    BY <2>4, <2>5
<1>4. \A l \in closed' : state'[l] # "unused"
  BY <1>1 DEF LineInv
<1> QED
  BY <1>1, <1>3, <1>4 DEF LineInv

\* A key that is issued starts a line of its own.
LEMMA SoundWhenIssuing ==
    ASSUME TypeOK, TermInv, Used, LineInv, NEW k \in Keys, NEW n \in 1..Never,
           Issue(k, n)
    PROVE  LineInv'
<1> USE DEF TypeOK
<1>1. /\ state[k] = "unused" /\ line[k] = k /\ k \notin closed
      /\ state'[k] = "active" /\ \A j \in Keys \ {k} : state'[j] = state[j]
      /\ UNCHANGED <<at, key, line, closed, overlapped>>
  BY DEF Issue, history, TermInv, LineInv
<1>2. \A j \in Keys : state[j] # "unused" => line[j] # k
  BY <1>1 DEF TermInv
<1>3. ASSUME NEW l \in Keys \ overlapped PROVE Sound(l)'
  <2>1. Sound(l)
    BY <1>3 DEF LineInv
  <2>2. /\ Changing(l)' = Changing(l)
        /\ Active(l)' = IF l = k THEN {k} ELSE Active(l)
    BY <1>1, <1>2 DEF Changing, Active
  <2>3. ASSUME NEW q \in Requests, at'[q] = "rotating", line'[key'[q]] = l
        PROVE  state'[key'[q]] = "active"
    <3>1. state[key[q]] = "active" /\ key[q] # k /\ key[q] \in Keys
      BY <2>1, <2>3, <1>1 DEF Sound
    <3> QED
      BY <3>1, <1>1
  <2> QED
    BY <2>1, <2>2, <2>3, <1>1 DEF Sound
<1> QED
  BY <1>1, <1>3 DEF LineInv

LEMMA LineInvHolds == Spec => []LineInv
<1>1. Init => LineInv
  BY DEF Init, LineInv, Sound, Active, Changing
<1>2. TypeOK /\ TermInv /\ Used /\ LineInv /\ [Next]_vars => LineInv'
  <2> SUFFICES ASSUME TypeOK, TermInv, Used, LineInv, [Next]_vars PROVE LineInv'
    OBVIOUS
  <2>1. ASSUME NEW k \in Keys, NEW n \in 1..Never, Issue(k, n) PROVE LineInv'
    BY <2>1, SoundWhenIssuing
  <2>2. ASSUME NEW r \in Requests, NEW k \in Keys, BeginRevoke(r, k) \/ BeginRotate(r, k)
        PROVE  LineInv'
    BY <2>2, SoundWhenReading
  <2>3. ASSUME NEW r \in Requests, NEW k \in Keys, CommitRotate(r, k) PROVE LineInv'
    BY <2>3, SoundWhenRotating
  <2>4. ASSUME NEW r \in Requests, CommitRevoke(r) PROVE LineInv'
    BY <2>4, SoundWhenRevoking
  <2>5. ASSUME UNCHANGED <<state, line, closed, overlapped>>,
               \A r \in Requests : at'[r] \in {"rotating", "revoking"}
                                  => at'[r] = at[r] /\ key'[r] = key[r]
        PROVE  LineInv'
    <3>1. ASSUME NEW l \in Keys \ overlapped PROVE Sound(l)'
      BY <3>1, <2>5, SoundAsBefore DEF LineInv
    <3> QED
      BY <3>1, <2>5 DEF LineInv
  <2>6. ASSUME NEW r \in Requests, NEW k \in Keys, BeginUse(r, k) PROVE LineInv'
    BY <2>5, <2>6 DEF BeginUse, Read, history, TypeOK
  <2>7. ASSUME NEW r \in Requests, CommitUse(r) \/ Die(r) PROVE LineInv'
    BY <2>5, <2>7 DEF CommitUse, Die, Answer, history, TypeOK
  <2>8. CASE Tick \/ UNCHANGED vars
    BY <2>5, <2>8 DEF Tick, vars, history
  <2> QED
    BY <2>1, <2>2, <2>3, <2>4, <2>6, <2>7, <2>8 DEF Next, CreateKey, RequestChange
<1> QED
  BY <1>1, <1>2, TypeCorrect, TermInvHolds, PTL DEF Spec

\* Of a key and its replacements at most one works, unless two requests changed
\* it at once (rotate_api_key, revoke_api_key).
THEOREM OneActivePerLineHolds == Spec => []OneActivePerLine
<1>1. LineInv => OneActivePerLine
  <2> SUFFICES ASSUME LineInv, NEW l \in Keys \ overlapped
               PROVE  Cardinality(Active(l)) <= 1
    BY DEF OneActivePerLine
  <2>1. \A j, k \in Active(l) : j = k
    BY DEF LineInv, Sound
  <2>2. Active(l) = {} \/ \E k : Active(l) = {k}
    BY <2>1
  <2>3. CASE Active(l) = {}
    BY <2>3, FS_EmptySet
  <2>4. ASSUME NEW k, Active(l) = {k} PROVE Cardinality(Active(l)) <= 1
    <3>1. Cardinality({k}) = 1
      BY FS_Singleton
    <3> QED
      BY <2>4, <3>1
  <2> QED
    BY <2>2, <2>3, <2>4
<1> QED
  BY <1>1, LineInvHolds, PTL

\* Once the key in use was revoked, no rotation brings its line back, under the
\* same condition (revoke_api_key, rotate_api_key).
THEOREM ClosedStaysClosedHolds == Spec => []ClosedStaysClosed
<1>1. TypeOK /\ LineInv => ClosedStaysClosed
  BY DEF TypeOK, LineInv, Sound, ClosedStaysClosed
<1> QED
  BY <1>1, TypeCorrect, LineInvHolds, PTL

-----------------------------------------------------------------------------
(* The lines of the documentation.                                          *)

\* Only lines that were started can be disputed.
DisputedInv == overlapped \subseteq HandedOut

LEMMA DisputedInvHolds == Spec => []DisputedInv
<1>1. Init => DisputedInv
  BY DEF Init, DisputedInv
<1>2. TypeOK /\ TermInv /\ DisputedInv /\ [Next]_vars => DisputedInv'
  <2> SUFFICES ASSUME TypeOK, TermInv, DisputedInv, [Next]_vars PROVE DisputedInv'
    OBVIOUS
  <2> USE DEF TypeOK, DisputedInv, HandedOut, history
  <2>1. ASSUME NEW k \in Keys, NEW n \in 1..Never, Issue(k, n) PROVE DisputedInv'
    BY <2>1 DEF Issue
  <2>2. ASSUME NEW r \in Requests, NEW k \in Keys, BeginRevoke(r, k) \/ BeginRotate(r, k)
        PROVE  DisputedInv'
    <3>1. line[k] \in Keys /\ state[line[k]] # "unused" /\ state' = state
      BY <2>2 DEF BeginRevoke, BeginRotate, TermInv
    <3> QED
      BY <2>2, <3>1 DEF BeginRevoke, BeginRotate, NoteOverlap
  <2>3. ASSUME NEW r \in Requests, NEW k \in Keys, BeginUse(r, k) PROVE DisputedInv'
    BY <2>3 DEF BeginUse
  <2>4. ASSUME NEW r \in Requests, NEW k \in Keys, CommitRotate(r, k) PROVE DisputedInv'
    BY <2>4 DEF CommitRotate, Replace
  <2>5. ASSUME NEW r \in Requests, CommitRevoke(r) \/ CommitUse(r) \/ Die(r)
        PROVE  DisputedInv'
    BY <2>5 DEF CommitRevoke, CommitUse, Die
  <2>6. CASE Tick \/ UNCHANGED vars
    BY <2>6 DEF Tick, vars
  <2> QED
    BY <2>1, <2>2, <2>3, <2>4, <2>5, <2>6 DEF Next, CreateKey, RequestChange
<1> QED
  BY <1>1, <1>2, TypeCorrect, TermInvHolds, PTL DEF Spec

\* Everything the step lemmas below rest on.
KeysInv == TypeOK /\ TermInv /\ Used /\ LineInv /\ DisputedInv

\* The working keys change with those of the lines that are not disputed.
LEMMA SameWorking ==
    ASSUME \A l \in Keys : (l \in overlapped') = (l \in overlapped),
           \A l \in Keys \ overlapped : Active(l)' = Active(l)
    PROVE  WorkingKeys' = WorkingKeys
BY DEF WorkingKeys

LEMMA OneWorks ==
    ASSUME NEW l \in Keys, NEW s,
           overlapped' = overlapped, l \notin overlapped,
           \A m \in Keys \ {l} : Active(m)' = Active(m),
           Active(l)' = s
    PROVE  WorkingKeys' = [WorkingKeys EXCEPT ![l] = s]
BY DEF WorkingKeys

LEMMA IssueStarts ==
    ASSUME KeysInv, NEW k \in Keys, NEW n \in 1..Never, Issue(k, n)
    PROVE  Lines!Start(k, n)
<1> USE DEF KeysInv, TypeOK
<1>1. /\ state[k] = "unused" /\ line[k] = k
      /\ state'[k] = "active" /\ \A j \in Keys \ {k} : state'[j] = state[j]
      /\ left' = [left EXCEPT ![k] = n]
      /\ UNCHANGED <<line, overlapped>>
  BY DEF Issue, history, TermInv
<1>2. k \notin HandedOut /\ HandedOut' = HandedOut \cup {k}
  BY <1>1 DEF HandedOut
<1>3. \A j \in Keys : state[j] # "unused" => line[j] # k
  BY <1>1 DEF TermInv
<1>4. Active(k)' = {k} /\ \A l \in Keys \ {k} : Active(l)' = Active(l)
  BY <1>1, <1>3 DEF Active
<1>5. k \notin overlapped
  BY <1>2 DEF DisputedInv
<1>6. WorkingKeys' = [WorkingKeys EXCEPT ![k] = {k}]
  BY <1>1, <1>4, <1>5, OneWorks
<1> QED
  BY <1>1, <1>2, <1>6 DEF Lines!Start

LEMMA RotationHandsOver ==
    ASSUME KeysInv, NEW r \in Requests, NEW new \in Keys, CommitRotate(r, new)
    PROVE  \E old \in Keys :
              \/ Lines!RotateDisputed(old, new)
              \/ \E l \in Keys : Lines!Rotate(l, old, new)
<1> USE DEF KeysInv, TypeOK
<1>0. PICK old \in Keys, l \in Keys : old = key[r] /\ l = line[old]
  OBVIOUS
<1>1. /\ state[old] # "unused" /\ at[r] = "rotating"
      /\ state[new] = "unused" /\ old # new
      /\ line[new] = new /\ l # new
  BY <1>0 DEF CommitRotate, TermInv, Used
<1>2. /\ state'[old] = "revoked" /\ state'[new] = "active"
      /\ \A k \in Keys \ {old, new} : state'[k] = state[k]
      /\ line'[new] = l
      /\ \A k \in Keys \ {new} : line'[k] = line[k]
      /\ left' = [left EXCEPT ![new] = left[old]]
      /\ UNCHANGED overlapped
  BY <1>0, <1>1 DEF CommitRotate, Replace, Answer, history, HeirsTerm
<1>3. Lines!HandOver(old, new)
  <2>1. HandedOut' = HandedOut \cup {new} /\ old \in HandedOut /\ new \notin HandedOut
    BY <1>1, <1>2 DEF HandedOut
  <2> QED
    BY <1>2, <2>1 DEF Lines!HandOver
<1>4. \A m \in Keys \ {l} : Active(m)' = Active(m)
  <2> SUFFICES ASSUME NEW m \in Keys \ {l}, NEW k \in Keys
               PROVE  (line'[k] = m /\ state'[k] = "active") <=> (line[k] = m /\ state[k] = "active")
    BY DEF Active
  <2> QED
    BY <1>0, <1>1, <1>2
<1>5. CASE l \in overlapped
  <2>1. \A m \in Keys : old \notin WorkingKeys[m]
    BY <1>0, <1>5 DEF WorkingKeys, Active
  <2>2. WorkingKeys' = WorkingKeys
    BY <1>2, <1>4, <1>5, SameWorking
  <2> QED
    BY <1>1, <1>3, <1>5, <2>1, <2>2 DEF Lines!RotateDisputed
<1>6. CASE l \notin overlapped
  <2>1. Sound(l)
    BY <1>1, <1>6 DEF LineInv
  <2>2. old \in Active(l)
    BY <2>1, <1>0, <1>1 DEF Sound, Active
  <2>3. Active(l) = {old} /\ Active(l)' = {new}
    <3>1. Active(l) = {old}
      BY <2>1, <2>2 DEF Sound
    <3>2. \A k \in Keys : line'[k] = l /\ state'[k] = "active" <=> k = new
      BY <1>1, <1>2, <3>1 DEF Active
    <3> QED
      BY <3>1, <3>2 DEF Active
  <2>4. WorkingKeys' = [WorkingKeys EXCEPT ![l] = {new}]
    BY <1>1, <1>2, <1>4, <1>6, <2>3, OneWorks
  <2>5. WorkingKeys[l] = {old}
    BY <1>1, <1>6, <2>3 DEF WorkingKeys
  <2> QED
    BY <1>1, <1>3, <2>4, <2>5 DEF Lines!Rotate
<1> QED
  BY <1>5, <1>6

LEMMA RevocationCloses ==
    ASSUME KeysInv, NEW r \in Requests, CommitRevoke(r)
    PROVE  (\E l \in Keys : Lines!CloseLine(l)) \/ UNCHANGED Lines!lineVars
<1> USE DEF KeysInv, TypeOK
<1>0. PICK k \in Keys, l \in Keys : k = key[r] /\ l = line[k]
  OBVIOUS
<1>1. /\ state[k] # "unused"
      /\ state'[k] = "revoked" /\ \A j \in Keys \ {k} : state'[j] = state[j]
      /\ UNCHANGED <<left, line, overlapped>>
  BY <1>0 DEF CommitRevoke, Used
<1>2. HandedOut' = HandedOut
  BY <1>1 DEF HandedOut
<1>3. \A m \in Keys : Active(m)' = Active(m) \ {k}
  BY <1>1 DEF Active
<1>4. \A m \in Keys \ {l} : Active(m)' = Active(m)
  BY <1>0, <1>3 DEF Active
<1>5. CASE l \in overlapped \/ state[k] # "active"
  <2>1. \A m \in Keys \ overlapped : Active(m)' = Active(m)
    BY <1>0, <1>3, <1>4, <1>5 DEF Active
  <2>2. WorkingKeys' = WorkingKeys
    BY <1>1, <2>1, SameWorking
  <2> QED
    BY <1>1, <1>2, <2>2 DEF Lines!lineVars
<1>6. CASE l \notin overlapped /\ state[k] = "active"
  <2>1. k \in Active(l)
    BY <1>0, <1>6 DEF Active
  <2>2. Active(l)' = {}
    BY <1>1, <1>3, <1>6, <2>1 DEF LineInv, Sound
  <2>3. WorkingKeys' = [WorkingKeys EXCEPT ![l] = {}] /\ WorkingKeys[l] # {}
    <3>1. WorkingKeys[l] = Active(l)
      BY <1>1, <1>6 DEF WorkingKeys
    <3> QED
      BY <1>1, <1>4, <1>6, <2>1, <2>2, <3>1, OneWorks
  <2> QED
    BY <1>1, <1>2, <2>3 DEF Lines!CloseLine
<1> QED
  BY <1>5, <1>6

\* Reading changes nothing, but for a line that another request is changing.
LEMMA ReadingDisputes ==
    ASSUME KeysInv, NEW r \in Requests, NEW k \in Keys,
           BeginRevoke(r, k) \/ BeginRotate(r, k)
    PROVE  (\E l \in Keys : Lines!Dispute(l)) \/ UNCHANGED Lines!lineVars
<1> USE DEF KeysInv, TypeOK
<1>1. UNCHANGED <<state, left, line>> /\ line[k] \in Keys /\ NoteOverlap(line[k])
  BY DEF BeginRevoke, BeginRotate
<1>2. HandedOut' = HandedOut /\ \A l \in Keys : Active(l)' = Active(l)
  BY <1>1 DEF HandedOut, Active
<1>3. CASE overlapped' = overlapped
  <2>1. WorkingKeys' = WorkingKeys
    BY <1>2, <1>3, SameWorking
  <2> QED
    BY <1>1, <1>2, <1>3, <2>1 DEF Lines!lineVars
<1>4. CASE overlapped' = overlapped \cup {line[k]}
  <2>1. WorkingKeys' = [WorkingKeys EXCEPT ![line[k]] = {}]
    BY <1>1, <1>2, <1>4 DEF WorkingKeys
  <2> QED
    BY <1>1, <1>2, <1>4, <2>1 DEF Lines!Dispute
<1> QED
  BY <1>1, <1>3, <1>4 DEF NoteOverlap

\* Every commit of issue_api_key, rotate_api_key and revoke_api_key does to the
\* lines what the documentation says in one step, for any number of keys and of
\* requests that interleave and die; a line that two requests change at once is
\* disputed, and nothing else changes any line.
THEOREM KeepsItsLinesHolds == Spec => KeepsItsLines
<1>1. Init => Lines!LinesInit
  BY DEF Init, Lines!LinesInit, WorkingKeys, HandedOut, Active
<1>2. KeysInv /\ [Next]_vars => [Lines!LinesNext]_(Lines!lineVars)
  <2> SUFFICES ASSUME KeysInv, [Next]_vars PROVE [Lines!LinesNext]_(Lines!lineVars)
    OBVIOUS
  <2>1. ASSUME NEW k \in Keys, NEW n \in 1..Never, Issue(k, n) PROVE Lines!LinesNext
    BY <2>1, IssueStarts DEF Lines!LinesNext
  <2>2. ASSUME NEW r \in Requests, NEW k \in Keys, CommitRotate(r, k) PROVE Lines!LinesNext
    BY <2>2, RotationHandsOver DEF Lines!LinesNext
  <2>3. ASSUME NEW r \in Requests, CommitRevoke(r)
        PROVE  [Lines!LinesNext]_(Lines!lineVars)
    BY <2>3, RevocationCloses DEF Lines!LinesNext
  <2>4. ASSUME NEW r \in Requests, NEW k \in Keys, BeginRevoke(r, k) \/ BeginRotate(r, k)
        PROVE  [Lines!LinesNext]_(Lines!lineVars)
    BY <2>4, ReadingDisputes DEF Lines!LinesNext
  <2>5. ASSUME UNCHANGED <<state, line, overlapped>>
        PROVE  UNCHANGED <<WorkingKeys, HandedOut, overlapped>>
    BY <2>5 DEF WorkingKeys, HandedOut, Active
  <2>6. CASE Tick
    BY <2>5, <2>6 DEF Tick, history, Before, Lines!Age, Lines!LinesNext
  <2>7. ASSUME NEW r \in Requests, (\E k \in Keys : BeginUse(r, k)) \/ CommitUse(r) \/ Die(r)
        PROVE  UNCHANGED Lines!lineVars
    BY <2>5, <2>7 DEF BeginUse, CommitUse, Die, history, Lines!lineVars
  <2>8. CASE UNCHANGED vars
    BY <2>5, <2>8 DEF vars, history, Lines!lineVars
  <2> QED
    BY <2>1, <2>2, <2>3, <2>4, <2>6, <2>7, <2>8 DEF Next, CreateKey, RequestChange
<1> QED
  BY <1>1, <1>2, TypeCorrect, TermInvHolds, LineInvHolds, DisputedInvHolds, PTL
  DEF Spec, KeysInv, KeepsItsLines, Lines!LinesSpec
=============================================================================
