---------------------------- MODULE Idempotency ----------------------------
(***************************************************************************)
(* app/core/idempotency.py: IdempotencyMiddleware, for the requests that   *)
(* carry one Idempotency-Key on one method and path, in several server     *)
(* processes.  Each looks the key up, runs the handler on a miss, stores   *)
(* the response and answers; every await in between is a step.             *)
(*                                                                         *)
(* A Redis error is swallowed: the dict of the process stands in, for the  *)
(* lookup and for the store.  What a response says is left out; what       *)
(* counts is whether one is stored, and when the handler takes effect.     *)
(***************************************************************************)
EXTENDS Naturals

CONSTANTS
    Processes,
    Requests,           \* slots for requests in progress
    Backends,           \* configurations: "redis" (CACHE_ENABLED), "local"
    Ttl                 \* IDEMPOTENCY_TTL

ASSUME ConstantsAssumption ==
    /\ Backends \subseteq {"redis", "local"}
    /\ Ttl \in Nat \ {0}

VARIABLES
    backend,            \* the configuration of the deployment, fixed
    ttl,                \* time the Redis entry has left, 0 when there is none
    local,              \* the processes whose _local_cache has the key
    at,                 \* the await each request has reached
    on,                 \* the process that serves it
    fresh,              \* history: Ttl counted down since the last store
    effect,             \* history: Ttl counted down since the last effect
    overlapped,         \* history: a request came before the last was answered
    faulted,            \* history: a Redis command raised
    lost                \* history: a response died with its process

happened == <<overlapped, faulted, lost>>
vars == <<backend, ttl, local, at, on, fresh, effect, happened>>

\* A slot whose last request is over: "replayed" if it was answered from the
\* store, "idle" otherwise.
Done == {"idle", "replayed"}

TypeOK ==
    /\ backend \in Backends
    /\ ttl \in 0..Ttl
    /\ local \subseteq Processes
    /\ at \in [Requests -> Done \cup {"looking", "running", "storing"}]
    /\ on \in [Requests -> Processes]
    /\ fresh \in 0..Ttl
    /\ effect \in 0..Ttl
    /\ overlapped \in BOOLEAN /\ faulted \in BOOLEAN /\ lost \in BOOLEAN

Init ==
    /\ backend \in Backends
    /\ ttl = 0
    /\ local = {}
    /\ at = [r \in Requests |-> "idle"]
    /\ on \in [Requests -> Processes]
    /\ fresh = 0
    /\ effect = 0
    /\ overlapped = FALSE /\ faulted = FALSE /\ lost = FALSE

Goto(r, where) == at' = [at EXCEPT ![r] = where]

-----------------------------------------------------------------------------
(* dispatch.                                                                *)

\* A guarded request with the key.
Arrive(r, p) ==
    /\ at[r] \in Done
    /\ Goto(r, "looking")
    /\ on' = [on EXCEPT ![r] = p]
    /\ overlapped' = (overlapped \/ \E s \in Requests : at[s] \notin Done)
    /\ UNCHANGED <<backend, ttl, local, fresh, effect, faulted, lost>>

InDict(r) == on[r] \in local

\* Mutant: with Redis up, only the dict is asked.
Found_dictOnly(r) == InDict(r)

\* _get: without Redis, or on a miss there, the dict of the process is asked.
Found(r) == (backend = "redis" /\ ttl > 0) \/ InDict(r)

\* A hit is answered from the store, a miss goes on to the handler; when GET
\* raises, the dict decides.
Look(r) ==
    /\ at[r] = "looking"
    /\ \/ /\ Goto(r, IF Found(r) THEN "replayed" ELSE "running")
          /\ UNCHANGED faulted
       \/ /\ backend = "redis"
          /\ Goto(r, IF InDict(r) THEN "replayed" ELSE "running")
          /\ faulted' = TRUE
    /\ UNCHANGED <<backend, ttl, local, on, fresh, effect, overlapped, lost>>

\* The handler commits its side effect and returns a response.
Run(r) ==
    /\ at[r] = "running"
    /\ Goto(r, "storing")
    /\ effect' = Ttl
    /\ UNCHANGED <<backend, ttl, local, on, fresh, happened>>

\* The handler raises: nothing is committed, nothing is stored.
HandlerRaises(r) ==
    /\ at[r] = "running"
    /\ Goto(r, "idle")
    /\ UNCHANGED <<backend, ttl, local, on, fresh, effect, happened>>

\* Mutant: SET keeps the TTL the entry had.
StoreInRedis_oldTtl ==
    /\ ttl' = IF ttl > 0 THEN ttl ELSE Ttl
    /\ UNCHANGED <<local, faulted>>

\* SET key value EX ttl.
StoreInRedis == ttl' = Ttl /\ UNCHANGED <<local, faulted>>

\* Mutant: the dict gets a copy whatever the backend, and nothing expires it.
StoreInDict_always(r) ==
    /\ local' = local \cup {on[r]}
    /\ ttl' = IF backend = "redis" THEN Ttl ELSE ttl
    /\ UNCHANGED faulted

StoreInDict(r) ==
    /\ backend = "local"
    /\ local' = local \cup {on[r]}
    /\ UNCHANGED <<ttl, faulted>>

\* A SET that raises may or may not have been carried out.
StoreAfterError(r) ==
    /\ local' = local \cup {on[r]}
    /\ ttl' \in {ttl, Ttl}
    /\ faulted' = TRUE

\* _set, then the answer.
Store(r) ==
    /\ at[r] = "storing"
    /\ Goto(r, "idle")
    /\ \/ backend = "redis" /\ (StoreInRedis \/ StoreAfterError(r))
       \/ StoreInDict(r)
    /\ fresh' = Ttl
    /\ UNCHANGED <<backend, on, effect, overlapped, lost>>

-----------------------------------------------------------------------------
\* Process p dies: its requests fail and its dict is lost.
Restart(p) ==
    /\ at' = [r \in Requests |-> IF on[r] = p THEN "idle" ELSE at[r]]
    /\ local' = local \ {p}
    /\ lost' = (lost \/ p \in local
                     \/ \E r \in Requests : on[r] = p /\ at[r] = "storing")
    /\ UNCHANGED <<backend, ttl, on, fresh, effect, overlapped, faulted>>

Before(n) == IF n > 0 THEN n - 1 ELSE 0

\* One unit of time: Redis drops the entry when its TTL is over, the dict
\* keeps it.
Tick ==
    /\ ttl' = Before(ttl)
    /\ fresh' = Before(fresh)
    /\ effect' = Before(effect)
    /\ UNCHANGED <<backend, local, at, on, happened>>

Next ==
    \/ \E r \in Requests :
          \/ \E p \in Processes : Arrive(r, p)
          \/ Look(r) \/ Run(r) \/ HandlerRaises(r) \/ Store(r)
    \/ \E p \in Processes : Restart(p)
    \/ Tick

Spec == Init /\ [][Next]_vars

-----------------------------------------------------------------------------
(* Properties.                                                              *)

\* "Retry with same key + path -> Cached response": as long as Redis answers,
\* a request that looks within IDEMPOTENCY_TTL of the last response stored
\* never reaches the handler, whichever process serves it and whichever
\* processes have died.
RetryReplays ==
    [][ \A r \in Requests :
          (at[r] = "looking" /\ at'[r] = "running" /\ backend = "redis" /\ ~faulted')
             => fresh = 0 ]_vars

\* "Without risking duplicate side effects": within IDEMPOTENCY_TTL of an
\* effect the handler takes no other, for a client that waits for its answers,
\* while Redis works and no process dies between the handler and the store.
EffectOnce ==
    [][ \A r \in Requests :
          (/\ at[r] = "running" /\ at'[r] = "storing"
           /\ backend = "redis" /\ ~overlapped /\ ~faulted /\ ~lost)
             => effect = 0 ]_vars

\* Short of a restart no response is lost: until its TTL is over Redis or
\* some process still has it, whatever Redis commands fail.
StoredSomewhere == (fresh > 0 /\ ~lost) => (ttl > 0 \/ local # {})

\* "Keys expire after IDEMPOTENCY_TTL seconds": as long as Redis answers,
\* nothing comes from the store once that time has passed since the last
\* response was stored.
ReplayedWithinTtl ==
    [][ \A r \in Requests :
          (at[r] = "looking" /\ at'[r] = "replayed" /\ backend = "redis" /\ ~faulted)
             => fresh > 0 ]_vars
=============================================================================
