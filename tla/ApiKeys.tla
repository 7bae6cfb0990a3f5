------------------------------ MODULE ApiKeys ------------------------------
(***************************************************************************)
(* app/services/api_key_service.py: the API keys of one owner, issued,     *)
(* rotated, revoked and used by concurrent requests.  Each operation reads *)
(* a row with one SELECT and writes it back at its commit, with the await  *)
(* in between; nothing makes the UPDATE depend on what the SELECT saw.     *)
(*                                                                         *)
(* Names, prefixes, hashes and scopes are left out, and so is the erasure  *)
(* of the owner.                                                           *)
(***************************************************************************)
EXTENDS Naturals, FiniteSets

CONSTANTS
    Keys,               \* rows of api_keys, each used once
    Requests,           \* slots for requests in progress
    Life                \* the longest expires_days, in units of time

ASSUME ConstantsAssumption == Life \in Nat \ {0}

VARIABLES
    state,              \* "active" while revoked_at is NULL
    left,               \* time until expires_at
    at,                 \* what each request is about to commit
    key,                \* the row it has read
    line,               \* history: the key issued that each descends from
    closed,             \* history: lines whose active key was revoked
    overlapped          \* history: lines that two requests changed at once

history == <<closed, overlapped>>
vars == <<state, left, at, key, line, history>>

\* expires_at is NULL.
Never == Life + 1

TypeOK ==
    /\ state \in [Keys -> {"unused", "active", "revoked"}]
    /\ left \in [Keys -> 0..Never]
    /\ at \in [Requests -> {"idle", "revoking", "rotating", "using"}]
    /\ key \in [Requests -> Keys]
    /\ line \in [Keys -> Keys]
    /\ closed \subseteq Keys /\ overlapped \subseteq Keys

Init ==
    /\ state = [k \in Keys |-> "unused"]
    /\ left = [k \in Keys |-> 0]
    /\ at = [r \in Requests |-> "idle"]
    /\ key \in [Requests -> Keys]
    /\ line = [k \in Keys |-> k]
    /\ closed = {} /\ overlapped = {}

-----------------------------------------------------------------------------
\* issue_api_key; n is what expires_days makes of expires_at.
Issue(k, n) ==
    /\ state[k] = "unused"
    /\ state' = [state EXCEPT ![k] = "active"]
    /\ left' = [left EXCEPT ![k] = n]
    /\ UNCHANGED <<at, key, line, history>>

\* POST /api-keys: expires_days may be left out.
CreateKey(k) == \E n \in 1..Never : Issue(k, n)

\* Request r reads row k and goes on to its commit.
Read(r, k, what) ==
    /\ at[r] = "idle"
    /\ at' = [at EXCEPT ![r] = what]
    /\ key' = [key EXCEPT ![r] = k]

\* Requests about to change a key of line l.
Changing(l) == {r \in Requests : at[r] \in {"revoking", "rotating"} /\ line[key[r]] = l}

NoteOverlap(l) ==
    overlapped' = IF Changing(l) = {} THEN overlapped ELSE overlapped \cup {l}

Answer(r) == at[r] # "idle" /\ at' = [at EXCEPT ![r] = "idle"] /\ UNCHANGED key

-----------------------------------------------------------------------------
(* revoke_api_key.                                                          *)

\* The SELECT finds a key that is revoked already as well.
BeginRevoke(r, k) ==
    /\ state[k] # "unused"
    /\ Read(r, k, "revoking")
    /\ NoteOverlap(line[k])
    /\ UNCHANGED <<state, left, line, closed>>

CommitRevoke(r) ==
    /\ at[r] = "revoking"
    /\ state' = [state EXCEPT ![key[r]] = "revoked"]
    /\ closed' = IF state[key[r]] = "active" THEN closed \cup {line[key[r]]} ELSE closed
    /\ Answer(r)
    /\ UNCHANGED <<left, line, overlapped>>

-----------------------------------------------------------------------------
(* rotate_api_key.                                                          *)

\* Mutant: the SELECT takes a revoked key too.
BeginRotate_revoked(r, k) ==
    /\ state[k] # "unused"
    /\ Read(r, k, "rotating")
    /\ NoteOverlap(line[k])
    /\ UNCHANGED <<state, left, line, closed>>

\* "ApiKey.revoked_at.is_(None)": expiry is not asked for.
BeginRotate(r, k) ==
    /\ state[k] = "active"
    /\ Read(r, k, "rotating")
    /\ NoteOverlap(line[k])
    /\ UNCHANGED <<state, left, line, closed>>

\* Mutant: the replacement is added and the old key forgotten.
Replace_keepsOld(old, new) == state' = [state EXCEPT ![new] = "active"]

\* The old row is updated and the new one inserted by the same commit.
Replace(old, new) == state' = [state EXCEPT ![old] = "revoked", ![new] = "active"]

\* Mutant: the replacement gets a full term.
HeirsTerm_renewed(old) == Life

\* "expires_at=old_key.expires_at"
HeirsTerm(old) == left[old]

\* DELETE /{key_id} and POST /{key_id}/rotate: 404 where the SELECT finds no row.
RequestChange(r, k) == BeginRevoke(r, k) \/ BeginRotate(r, k)

CommitRotate(r, new) ==
    /\ at[r] = "rotating"
    /\ state[new] = "unused"
    /\ Replace(key[r], new)
    /\ left' = [left EXCEPT ![new] = HeirsTerm(key[r])]
    /\ line' = [line EXCEPT ![new] = line[key[r]]]
    /\ Answer(r)
    /\ UNCHANGED history

-----------------------------------------------------------------------------
(* authenticate_api_key.                                                    *)

\* Not revoked, not expired.
BeginUse(r, k) ==
    /\ state[k] = "active" /\ left[k] > 0
    /\ Read(r, k, "using")
    /\ UNCHANGED <<state, left, line, history>>

\* Mutant: the whole row is written back as it was read.
CommitUse_wholeRow(r) ==
    /\ at[r] = "using"
    /\ state' = [state EXCEPT ![key[r]] = "active"]
    /\ Answer(r)
    /\ UNCHANGED <<left, line, history>>

\* Only last_used_at is in the UPDATE.
CommitUse(r) ==
    /\ at[r] = "using"
    /\ Answer(r)
    /\ UNCHANGED <<state, left, line, history>>

-----------------------------------------------------------------------------
\* A request dies before its commit.
Die(r) == Answer(r) /\ UNCHANGED <<state, left, line, history>>

Before(n) == IF n \in {0, Never} THEN n ELSE n - 1

Tick ==
    /\ left' = [k \in Keys |-> Before(left[k])]
    /\ UNCHANGED <<state, at, key, line, history>>

Next ==
    \/ \E k \in Keys : CreateKey(k)
    \/ \E r \in Requests :
          \/ \E k \in Keys : RequestChange(r, k) \/ BeginUse(r, k) \/ CommitRotate(r, k)
          \/ CommitRevoke(r) \/ CommitUse(r) \/ Die(r)
    \/ Tick

Spec == Init /\ [][Next]_vars

-----------------------------------------------------------------------------
(* Properties.                                                              *)

\* "Revoked keys are rejected immediately", and for good: no commit of a request
\* that read the key before gives it back.
RevocationIsFinal ==
    [][ \A k \in Keys : state[k] = "revoked" => state'[k] = "revoked" ]_vars

Active(l) == {k \in Keys : line[k] = l /\ state[k] = "active"}

\* "The old key is immediately revoked; the response contains the new raw key":
\* of a key and its replacements at most one works, as long as nobody revokes or
\* rotates it twice at once.
OneActivePerLine ==
    \A l \in Keys \ overlapped : Cardinality(Active(l)) <= 1

\* Once the key in use was revoked nothing that came of it works, and no
\* rotation brings it back, under the same condition.
ClosedStaysClosed ==
    \A l \in closed \ overlapped : Active(l) = {}

\* Rotation never prolongs a key: every replacement expires with the key first
\* issued.
LineKeepsItsTerm ==
    \A k \in Keys : state[k] # "unused" => left[k] = left[line[k]]

-----------------------------------------------------------------------------
(* What the documentation promises.                                         *)

WorkingKeys == [l \in Keys |-> IF l \in overlapped THEN {} ELSE Active(l)]
HandedOut == {k \in Keys : state[k] # "unused"}

Lines == INSTANCE KeyLines WITH working <- WorkingKeys, handedOut <- HandedOut,
                                term <- left, disputed <- overlapped

\* However the SELECTs and commits of requests interleave, each commit of
\* issue_api_key, rotate_api_key and revoke_api_key does to the lines what the
\* documentation says in one step, and nothing else changes them: a line is
\* handed from one fresh key to the next with its term until it is closed, and
\* is never reopened, unless two requests changed it at once.
KeepsItsLines == Lines!LinesSpec
=============================================================================
