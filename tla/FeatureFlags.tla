---------------------------- MODULE FeatureFlags ----------------------------
(***************************************************************************)
(* app/services/feature_service.py for one flag key: is_enabled looks      *)
(* through the user override, the tenant override and the global flag,     *)
(* each behind a Redis entry with a 60-second TTL; set_flag, set_override  *)
(* and delete_override commit to the database and then delete the entry.   *)
(* Requests of any process interleave at every await.                      *)
(*                                                                         *)
(* A Redis error is swallowed: the lookup misses, the fill or the delete   *)
(* does not happen (without CACHE_ENABLED that is so for all of them).     *)
(***************************************************************************)
EXTENDS Naturals

CONSTANTS
    Readers,            \* slots for is_enabled calls in progress
    Writers,            \* slots for admin writes in progress
    Subjects,           \* the override cells in use, a subset of {"user", "tenant"}
    Ttl,                \* _CACHE_TTL
    MaxPause,           \* the longest a lookup may sit between SELECT and SET
    Faults              \* Redis commands may fail, writers may die

ASSUME ConstantsAssumption ==
    /\ Subjects \subseteq {"user", "tenant"}
    /\ Ttl \in Nat \ {0}
    /\ MaxPause \in Nat
    /\ Faults \in BOOLEAN

Cells == Subjects \cup {"global"}
Rows == {"none", "on", "off"}
Bound == Ttl + MaxPause

VARIABLES
    db,                 \* the row of each cell
    cache, ttl,         \* its Redis entry and the time the entry has left
    look,               \* each lookup: where it is, and what it read
    held,               \* how long a lookup has held what it read
    write,              \* each write: where it is, its cell and value
    since               \* history: time since the cell last changed

vars == <<db, cache, ttl, look, held, write, since>>

\* "tenant" tells whether the call came with a tenant_id.
Lookup == [at : {"idle", "asking", "querying", "filling"},
           cell : Cells, tenant : {t \in BOOLEAN : t => "tenant" \in Subjects},
           value : Rows]

\* "saw" is the row the write found, "want" what it is to become.
Write == [at : {"idle", "found", "committed", "clearing"},
          cell : Cells, saw : Rows, want : Rows]

TypeOK ==
    /\ db \in [Cells -> Rows]
    /\ cache \in [Cells -> Rows]
    /\ ttl \in [Cells -> 0..Ttl]
    /\ look \in [Readers -> Lookup]
    /\ held \in [Readers -> 0..MaxPause]
    /\ write \in [Writers -> Write]
    /\ since \in [Cells -> 0..(Bound + 1)]

NoLookup == [at |-> "idle", cell |-> "global", tenant |-> FALSE, value |-> "none"]
NoWrite == [at |-> "idle", cell |-> "global", saw |-> "none", want |-> "none"]

Init ==
    /\ db = [c \in Cells |-> "none"]
    /\ cache = [c \in Cells |-> "none"]
    /\ ttl = [c \in Cells |-> 0]
    /\ look = [r \in Readers |-> NoLookup]
    /\ held = [r \in Readers |-> 0]
    /\ write = [w \in Writers |-> NoWrite]
    /\ since = [c \in Cells |-> Bound + 1]

-----------------------------------------------------------------------------
(* is_enabled.                                                              *)

Answered(r) == look' = [look EXCEPT ![r] = NoLookup]

\* The first cell is the user's if there is a user_id, and so on.
IsEnabled(r, c, t) ==
    /\ look[r].at = "idle"
    /\ c = "tenant" => t
    /\ t => "tenant" \in Subjects
    /\ c = "global" => ~t
    /\ look' = [look EXCEPT ![r] =
                  [at |-> "asking", cell |-> c, tenant |-> t, value |-> "none"]]
    /\ UNCHANGED <<db, cache, ttl, held, write, since>>

\* _redis_get: a hit is the answer, a miss or an error leads to the database.
RedisGet(r) ==
    /\ look[r].at = "asking"
    /\ \/ /\ cache[look[r].cell] # "none"
          /\ Answered(r)
       \/ /\ cache[look[r].cell] = "none" \/ Faults
          /\ look' = [look EXCEPT ![r].at = "querying"]
    /\ UNCHANGED <<db, cache, ttl, held, write, since>>

NextCell(r) == IF look[r].cell = "user" /\ look[r].tenant THEN "tenant" ELSE "global"

\* What a cell's entry ought to say: a missing global flag counts as off, a
\* missing override has no entry.
Value(c) == IF c = "global" /\ db[c] = "none" THEN "off" ELSE db[c]

\* SELECT: a missing override passes on to the next cell and is not cached.
Query(r) ==
    LET c == look[r].cell IN
    /\ look[r].at = "querying"
    /\ IF Value(c) = "none"
         THEN /\ look' = [look EXCEPT ![r].at = "asking", ![r].cell = NextCell(r)]
              /\ UNCHANGED held
         ELSE /\ look' = [look EXCEPT ![r].at = "filling", ![r].value = Value(c)]
              /\ held' = [held EXCEPT ![r] = 0]
    /\ UNCHANGED <<db, cache, ttl, write, since>>

\* Mutant: the SET does not renew the TTL of an entry that is there.
Fill_noExpiry(r) ==
    LET c == look[r].cell IN
    /\ look[r].at = "filling"
    /\ cache' = [cache EXCEPT ![c] = look[r].value]
    /\ UNCHANGED ttl
    /\ Answered(r)
    /\ UNCHANGED <<db, held, write, since>>

\* _redis_set, and the answer.
Fill(r) ==
    LET c == look[r].cell IN
    /\ look[r].at = "filling"
    /\ \/ /\ cache' = [cache EXCEPT ![c] = look[r].value]
          /\ ttl' = [ttl EXCEPT ![c] = Ttl]
       \/ /\ Faults
          /\ UNCHANGED <<cache, ttl>>
    /\ Answered(r)
    /\ UNCHANGED <<db, held, write, since>>

-----------------------------------------------------------------------------
(* set_flag, set_override, delete_override.                                 *)

\* SELECT the row; there is nothing to delete when there is none (404).
Find(w, c, v) ==
    /\ write[w].at = "idle"
    /\ v = "none" => db[c] # "none"
    /\ write' = [write EXCEPT ![w] =
                   [at |-> "found", cell |-> c, saw |-> db[c], want |-> v]]
    /\ UNCHANGED <<db, cache, ttl, look, held, since>>

\* PUT /{key}: a global flag is never deleted.
UpsertFlag(w) == \E v \in Rows \ {"none"} : Find(w, "global", v)

\* PUT and DELETE /{key}/overrides/{subject_type}/{subject_id}; any other
\* subject_type is a 422.
Override(w, s) == \E v \in Rows : Find(w, s, v)

WriteFails(w) ==
    /\ write' = [write EXCEPT ![w] = NoWrite]
    /\ UNCHANGED <<db, since>>

Changes(w, row) ==
    LET c == write[w].cell IN
    /\ write' = [write EXCEPT ![w].at = IF write[w].want = "none"
                                          THEN "clearing" ELSE "committed"]
    /\ db' = [db EXCEPT ![c] = row]
    /\ since' = IF row # db[c] THEN [since EXCEPT ![c] = 0] ELSE since

\* COMMIT.  An INSERT fails if another made the row meanwhile (primary key,
\* unique constraint), an UPDATE if another deleted it; a row that already
\* had the wanted value when it was read gets no UPDATE at all.  Where the
\* database enforces foreign keys an override needs its flag.
Commit(w) ==
    LET c == write[w].cell
        saw == write[w].saw
        want == write[w].want
    IN
    /\ write[w].at = "found"
    /\ \/ /\ want = "none"
          /\ Changes(w, "none")
       \/ /\ want # "none" /\ saw = want
          /\ Changes(w, db[c])
       \/ /\ want # "none" /\ saw # want
          /\ (saw = "none") <=> (db[c] = "none")
          /\ Changes(w, want)
       \/ /\ want # "none" /\ saw # want
          /\ ~((saw = "none") <=> (db[c] = "none"))
          /\ WriteFails(w)
       \/ /\ want # "none" /\ saw = "none"
          /\ c # "global" /\ db["global"] = "none"
          /\ WriteFails(w)
    /\ UNCHANGED <<cache, ttl, look, held>>

\* db.refresh raises if the row is gone again: the entry is not deleted then.
Refresh(w) ==
    /\ write[w].at = "committed"
    /\ write' = [write EXCEPT ![w] = IF db[write[w].cell] = "none" THEN NoWrite
                                       ELSE [write[w] EXCEPT !.at = "clearing"]]
    /\ UNCHANGED <<db, cache, ttl, look, held, since>>

\* _redis_delete, and the answer to the admin.
Clear(w) ==
    LET c == write[w].cell IN
    /\ write[w].at = "clearing"
    /\ \/ /\ cache' = [cache EXCEPT ![c] = "none"]
          /\ ttl' = [ttl EXCEPT ![c] = 0]
       \/ /\ Faults
          /\ UNCHANGED <<cache, ttl>>
    /\ write' = [write EXCEPT ![w] = NoWrite]
    /\ UNCHANGED <<db, look, held, since>>

\* The request dies, before its commit or between commit and delete.
Abandon(w) ==
    /\ Faults
    /\ write[w].at # "idle"
    /\ WriteFails(w)
    /\ UNCHANGED <<cache, ttl, look, held>>

-----------------------------------------------------------------------------
Filling(r) == look[r].at = "filling"

\* One unit of time.  An entry whose TTL runs out is gone; a lookup does not
\* sit on what it read for longer than MaxPause.
Tick ==
    /\ \A r \in Readers : Filling(r) => held[r] < MaxPause
    /\ held' = [r \in Readers |-> IF Filling(r) THEN held[r] + 1 ELSE held[r]]
    /\ ttl' = [c \in Cells |-> IF ttl[c] > 0 THEN ttl[c] - 1 ELSE 0]
    /\ cache' = [c \in Cells |-> IF ttl[c] = 1 THEN "none" ELSE cache[c]]
    /\ since' = [c \in Cells |-> IF since[c] <= Bound THEN since[c] + 1 ELSE since[c]]
    /\ UNCHANGED <<db, look, write>>

Next ==
    \/ \E r \in Readers :
          \/ \E c \in Cells, t \in BOOLEAN : IsEnabled(r, c, t)
          \/ RedisGet(r) \/ Query(r) \/ Fill(r)
    \/ \E w \in Writers :
          \/ UpsertFlag(w) \/ \E s \in Subjects : Override(w, s)
          \/ Commit(w) \/ Refresh(w) \/ Clear(w) \/ Abandon(w)
    \/ Tick

Spec == Init /\ [][Next]_vars

-----------------------------------------------------------------------------
(* Properties.                                                              *)

Stale(c) == cache[c] # "none" /\ cache[c] # Value(c)

\* Whatever fills, deletes, failures and deaths race, an entry is wrong for no
\* longer than the 60-second TTL and the pause of one slow lookup after the
\* cell changed.
BoundedStaleness == \A c \in Cells : Stale(c) => since[c] <= Bound
=============================================================================
