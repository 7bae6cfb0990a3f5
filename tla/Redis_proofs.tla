---------------------------- MODULE Redis_proofs ----------------------------
(* Theorems about the two services that keep their state in Redis or in a   *)
(* dict of the process: Idempotency, for any processes, requests and TTL,   *)
(* and LoginThrottle, for any attempts, limits and lockouts.                *)
EXTENDS Idempotency, LoginThrottle, TLAPS

Places == Done \cup {"looking", "running", "storing"}

-----------------------------------------------------------------------------
(* Idempotency: types.                                                      *)

LEMMA BeforeType ==
    ASSUME NEW n \in 0..Ttl
    PROVE  Before(n) \in 0..Ttl /\ Before(n) <= n
BY ConstantsAssumption DEF Before

\* A response that is put in a store, whatever becomes of the SET.
LEMMA StoreType ==
    ASSUME TypeOK, NEW r \in Requests, Store(r)
    PROVE  /\ ttl' \in 0..Ttl /\ local' \subseteq Processes
           /\ faulted' \in BOOLEAN /\ fresh' = Ttl
           /\ at' = [at EXCEPT ![r] = "idle"]
           /\ UNCHANGED <<backend, on, effect, overlapped, lost>>
<1>1. /\ on[r] \in Processes /\ Ttl \in 0..Ttl
      /\ ttl \in 0..Ttl /\ local \subseteq Processes /\ faulted \in BOOLEAN
  BY ConstantsAssumption DEF TypeOK
<1>2. /\ fresh' = Ttl
      /\ at' = [at EXCEPT ![r] = "idle"]
      /\ UNCHANGED <<backend, on, effect, overlapped, lost>>
      /\ StoreInRedis \/ StoreAfterError(r) \/ StoreInDict(r)
  BY DEF Store, Goto
<1>3. ttl' \in {ttl, Ttl} /\ local' \in {local, local \cup {on[r]}}
  BY <1>2 DEF StoreInRedis, StoreInDict, StoreAfterError
<1>4. faulted' \in {faulted, TRUE}
  BY <1>2 DEF StoreInRedis, StoreInDict, StoreAfterError
<1> QED
  BY <1>1, <1>2, <1>3, <1>4

\* Every variable keeps its type through failing commands and restarts.
THEOREM TypeCorrect == Spec => []TypeOK
<1>1. Init => TypeOK
  <2> SUFFICES ASSUME Init PROVE TypeOK
    OBVIOUS
  <2>1. ttl \in 0..Ttl /\ fresh \in 0..Ttl /\ effect \in 0..Ttl
    BY ConstantsAssumption DEF Init
  <2>2. /\ at \in [Requests -> Done \cup {"looking", "running", "storing"}]
        /\ on \in [Requests -> Processes]
    BY DEF Init, Done
  <2> QED
    BY <2>1, <2>2 DEF Init, TypeOK
<1>2. TypeOK /\ [Next]_vars => TypeOK'
  <2> SUFFICES ASSUME TypeOK, [Next]_vars PROVE TypeOK'
    OBVIOUS
  <2> USE ConstantsAssumption
  <2>1. ASSUME NEW r \in Requests, NEW p \in Processes, Arrive(r, p) PROVE TypeOK'
    BY <2>1 DEF Arrive, Goto, TypeOK, Done, happened
  <2>2. ASSUME NEW r \in Requests, Look(r) PROVE TypeOK'
    BY <2>2 DEF Look, Goto, TypeOK, Done, happened
  <2>3. ASSUME NEW r \in Requests, Run(r) PROVE TypeOK'
    BY <2>3 DEF Run, Goto, TypeOK, Done, happened
  <2>4. ASSUME NEW r \in Requests, HandlerRaises(r) PROVE TypeOK'
    BY <2>4 DEF HandlerRaises, Goto, TypeOK, Done, happened
  <2>5. ASSUME NEW r \in Requests, Store(r) PROVE TypeOK'
    BY <2>5, StoreType DEF TypeOK, Done
  <2>6. ASSUME NEW p \in Processes, Restart(p) PROVE TypeOK'
    BY <2>6 DEF Restart, TypeOK, Done
  <2>7. CASE Tick
    BY <2>7, BeforeType DEF Tick, TypeOK, happened
  <2>8. CASE UNCHANGED vars
    BY <2>8 DEF vars, happened, TypeOK
  <2> QED
    BY <2>1, <2>2, <2>3, <2>4, <2>5, <2>6, <2>7, <2>8 DEF Next
<1> QED
  BY <1>1, <1>2, PTL DEF Spec

-----------------------------------------------------------------------------
(* A Redis that answers holds every response, and the dicts none.            *)

\* Inductive: until a command fails, the entry lives exactly as long as the
\* last response should, and nothing is in any dict.
RedisInv ==
    backend = "redis" /\ ~faulted => ttl = fresh /\ local = {}

LEMMA RedisInvHolds == Spec => []RedisInv
<1>1. Init => RedisInv
  BY DEF Init, RedisInv
<1>2. TypeOK /\ RedisInv /\ [Next]_vars => RedisInv'
  <2> SUFFICES ASSUME TypeOK, RedisInv, [Next]_vars PROVE RedisInv'
    OBVIOUS
  <2> USE DEF RedisInv, TypeOK
  <2>1. ASSUME NEW r \in Requests, NEW p \in Processes, Arrive(r, p) PROVE RedisInv'
    BY <2>1 DEF Arrive
  <2>2. ASSUME NEW r \in Requests, Look(r) PROVE RedisInv'
    BY <2>2 DEF Look
  <2>3. ASSUME NEW r \in Requests, Run(r) \/ HandlerRaises(r) PROVE RedisInv'
    BY <2>3 DEF Run, HandlerRaises, happened
  <2>4. ASSUME NEW r \in Requests, Store(r) PROVE RedisInv'
    BY <2>4 DEF Store, StoreInRedis, StoreInDict, StoreAfterError
  <2>5. ASSUME NEW p \in Processes, Restart(p) PROVE RedisInv'
    BY <2>5 DEF Restart
  <2>6. CASE Tick
    BY <2>6 DEF Tick, happened
  <2>7. CASE UNCHANGED vars
    BY <2>7 DEF vars, happened
  <2> QED
    BY <2>1, <2>2, <2>3, <2>4, <2>5, <2>6, <2>7 DEF Next
<1> QED
  BY <1>1, <1>2, TypeCorrect, PTL DEF Spec

\* Only Look takes a request from "looking" to the handler or to an answer.
LEMMA OnlyLook ==
    ASSUME TypeOK, [Next]_vars, NEW r \in Requests,
           at[r] = "looking", at'[r] \in {"running", "replayed"}
    PROVE  Look(r)
<1> USE DEF TypeOK
<1>1. ASSUME NEW q \in Requests, NEW p \in Processes, Arrive(q, p) PROVE FALSE
  BY <1>1 DEF Arrive, Goto, Done
<1>2. ASSUME NEW q \in Requests, Look(q) PROVE q = r
  BY <1>2 DEF Look, Goto
<1>3. ASSUME NEW q \in Requests, Run(q) \/ HandlerRaises(q) \/ Store(q) PROVE FALSE
  BY <1>3 DEF Run, HandlerRaises, Store, Goto
<1>4. ASSUME NEW p \in Processes, Restart(p) PROVE FALSE
  BY <1>4 DEF Restart
<1>5. ~(Tick \/ UNCHANGED vars)
  BY DEF Tick, vars
<1> QED
  BY <1>1, <1>2, <1>3, <1>4, <1>5 DEF Next

\* As long as Redis answers, no retry reaches the handler before the TTL of
\* the last response is over (_get and _set of IdempotencyMiddleware).
THEOREM RetryReplaysHolds == Spec => RetryReplays
<1>1. TypeOK /\ RedisInv /\ [Next]_vars
        => [\A r \in Requests :
              (at[r] = "looking" /\ at'[r] = "running" /\ backend = "redis" /\ ~faulted')
                 => fresh = 0]_vars
  <2> SUFFICES ASSUME TypeOK, RedisInv, [Next]_vars, NEW r \in Requests,
                      at[r] = "looking", at'[r] = "running",
                      backend = "redis", ~faulted'
               PROVE  fresh = 0
    OBVIOUS
  <2>1. Look(r)
    BY OnlyLook
  <2>2. faulted' = faulted /\ at' = [at EXCEPT ![r] = IF Found(r) THEN "replayed" ELSE "running"]
    BY <2>1 DEF Look, Goto
  <2>3. ~Found(r)
    BY <2>2 DEF TypeOK
  <2> QED
    BY <2>2, <2>3 DEF Found, RedisInv, TypeOK
<1> QED
  BY <1>1, TypeCorrect, RedisInvHolds, PTL DEF Spec, RetryReplays

\* As long as Redis answers, nothing is answered from the store after the TTL
\* (_set, and the dict that never forgets).
THEOREM ReplayedWithinTtlHolds == Spec => ReplayedWithinTtl
<1>1. TypeOK /\ RedisInv /\ [Next]_vars
        => [\A r \in Requests :
              (at[r] = "looking" /\ at'[r] = "replayed" /\ backend = "redis" /\ ~faulted)
                 => fresh > 0]_vars
  <2> SUFFICES ASSUME TypeOK, RedisInv, [Next]_vars, NEW r \in Requests,
                      at[r] = "looking", at'[r] = "replayed",
                      backend = "redis", ~faulted
               PROVE  fresh > 0
    OBVIOUS
  <2>1. Look(r) /\ ~InDict(r)
    BY OnlyLook DEF RedisInv, InDict
  <2>2. Found(r)
    BY <2>1 DEF Look, Goto, TypeOK
  <2> QED
    BY <2>1, <2>2 DEF Found, RedisInv, TypeOK
<1> QED
  BY <1>1, TypeCorrect, RedisInvHolds, PTL DEF Spec, ReplayedWithinTtl

-----------------------------------------------------------------------------
(* No response is lost short of a restart.                                   *)

\* Inductive: until a restart takes a response along, the entry lives at least
\* as long as the last response should, or some dict has it.
KeptInv == ~lost => (ttl >= fresh \/ local # {})

\* Redis or some process has the response until its TTL is over, whatever
\* Redis commands fail (_set falling back to _local_cache).
THEOREM StoredSomewhereHolds == Spec => []StoredSomewhere
<1>1. Init => KeptInv
  BY DEF Init, KeptInv
<1>2. TypeOK /\ KeptInv /\ [Next]_vars => KeptInv'
  <2> SUFFICES ASSUME TypeOK, KeptInv, [Next]_vars PROVE KeptInv'
    OBVIOUS
  <2> USE ConstantsAssumption DEF KeptInv, TypeOK
  <2>1. ASSUME NEW r \in Requests, NEW p \in Processes, Arrive(r, p) PROVE KeptInv'
    BY <2>1 DEF Arrive
  <2>2. ASSUME NEW r \in Requests, Look(r) PROVE KeptInv'
    BY <2>2 DEF Look
  <2>3. ASSUME NEW r \in Requests, Run(r) \/ HandlerRaises(r) PROVE KeptInv'
    BY <2>3 DEF Run, HandlerRaises, happened
  <2>4. ASSUME NEW r \in Requests, Store(r) PROVE KeptInv'
    BY <2>4 DEF Store, StoreInRedis, StoreInDict, StoreAfterError
  <2>5. ASSUME NEW p \in Processes, Restart(p) PROVE KeptInv'
    BY <2>5 DEF Restart
  <2>6. CASE Tick
    BY <2>6 DEF Tick, Before, happened
  <2>7. CASE UNCHANGED vars
    BY <2>7 DEF vars, happened
  <2> QED
    BY <2>1, <2>2, <2>3, <2>4, <2>5, <2>6, <2>7 DEF Next
<1>3. TypeOK /\ KeptInv => StoredSomewhere
  BY DEF KeptInv, StoredSomewhere, TypeOK
<1> QED
  BY <1>1, <1>2, <1>3, TypeCorrect, PTL DEF Spec

-----------------------------------------------------------------------------
(* One effect for a patient client.                                          *)

Calm == backend = "redis" /\ ~overlapped /\ ~faulted /\ ~lost

\* Inductive: one request at a time; an effect that still counts is on its way
\* to the store or covered by what is stored; and a request runs the handler
\* only when none still counts.
EffectInv ==
    Calm =>
        /\ \A q, r \in Requests : at[q] \notin Done /\ at[r] \notin Done => q = r
        /\ effect <= fresh \/ \E r \in Requests : at[r] = "storing"
        /\ \A r \in Requests : at[r] = "running" => effect = 0

LEMMA EffectInvHolds == Spec => []EffectInv
<1>1. Init => EffectInv
  BY DEF Init, EffectInv, Done
<1>2. TypeOK /\ RedisInv /\ EffectInv /\ [Next]_vars => EffectInv'
  <2> SUFFICES ASSUME TypeOK, RedisInv, EffectInv, [Next]_vars, Calm'
               PROVE  /\ \A q, r \in Requests :
                            at'[q] \notin Done /\ at'[r] \notin Done => q = r
                      /\ effect' <= fresh' \/ \E r \in Requests : at'[r] = "storing"
                      /\ \A r \in Requests : at'[r] = "running" => effect' = 0
    BY DEF EffectInv
  <2> USE DEF TypeOK
  <2>1. ASSUME NEW r \in Requests, NEW p \in Processes, Arrive(r, p) PROVE EffectInv'
    <3>1. Calm /\ \A q \in Requests : at[q] \in Done
      BY <2>1 DEF Arrive, Calm
    <3>2. effect <= fresh
      BY <3>1 DEF EffectInv, Done
    <3> QED
      BY <2>1, <3>1, <3>2 DEF Arrive, Goto, EffectInv, Done
  <2>2. ASSUME NEW r \in Requests, Look(r) PROVE EffectInv'
    <3>1. Calm /\ at[r] = "looking" /\ faulted' = faulted
      BY <2>2 DEF Look, Calm
    <3>2. \A q \in Requests : q # r => at[q] \in Done
      BY <3>1 DEF EffectInv, Done
    <3>3. effect <= fresh /\ ttl = fresh
      BY <3>1, <3>2 DEF EffectInv, RedisInv, Calm, Done
    <3>4. at' = [at EXCEPT ![r] = IF Found(r) THEN "replayed" ELSE "running"]
      BY <2>2, <3>1 DEF Look, Goto, Calm
    <3>5. ~Found(r) => effect = 0
      BY <3>1, <3>3 DEF Found, Calm
    <3>6. UNCHANGED <<fresh, effect>>
      BY <2>2 DEF Look
    <3> QED
      BY <3>2, <3>3, <3>4, <3>5, <3>6 DEF EffectInv, Done
  <2>3. ASSUME NEW r \in Requests, Run(r) PROVE EffectInv'
    <3>1. Calm /\ at[r] = "running" /\ at' = [at EXCEPT ![r] = "storing"]
      BY <2>3 DEF Run, Goto, Calm, happened
    <3>2. \A q \in Requests : q # r => at[q] \in Done
      BY <3>1 DEF EffectInv, Done
    <3> QED
      BY <3>1, <3>2 DEF EffectInv, Done
  <2>4. ASSUME NEW r \in Requests, HandlerRaises(r) PROVE EffectInv'
    <3>1. /\ Calm /\ at[r] = "running" /\ at' = [at EXCEPT ![r] = "idle"]
          /\ UNCHANGED <<fresh, effect>>
      BY <2>4 DEF HandlerRaises, Goto, Calm, happened
    <3>2. \A q \in Requests : q # r => at[q] \in Done
      BY <3>1 DEF EffectInv, Done
    <3>3. effect = 0
      BY <3>1 DEF EffectInv
    <3> QED
      BY <3>1, <3>2, <3>3 DEF EffectInv, Done
  <2>5. ASSUME NEW r \in Requests, Store(r) PROVE EffectInv'
    <3>1. /\ at' = [at EXCEPT ![r] = "idle"] /\ at[r] = "storing"
          /\ fresh' = Ttl /\ UNCHANGED <<backend, effect, overlapped, lost>>
      BY <2>5, StoreType DEF Store
    <3>2. ~faulted
      BY <2>5 DEF Store, StoreInRedis, StoreInDict, StoreAfterError, Calm
    <3>3. Calm
      BY <3>1, <3>2 DEF Calm
    <3>4. \A q \in Requests : q # r => at[q] \in Done
      BY <3>1, <3>3 DEF EffectInv, Done
    <3>5. effect' <= fresh'
      BY <3>1, ConstantsAssumption
    <3> QED
      BY <3>1, <3>4, <3>5 DEF EffectInv, Done
  <2>6. ASSUME NEW p \in Processes, Restart(p) PROVE EffectInv'
    <3>1. /\ Calm /\ UNCHANGED <<fresh, effect>>
          /\ \A r \in Requests : on[r] = p => at[r] # "storing"
      BY <2>6 DEF Restart, Calm
    <3>2. \A r \in Requests : at'[r] = "idle" \/ at'[r] = at[r]
      BY <2>6 DEF Restart
    <3>3. \A r \in Requests : at[r] = "storing" => at'[r] = "storing"
      BY <2>6, <3>1 DEF Restart
    <3> QED
      BY <3>1, <3>2, <3>3 DEF EffectInv, Done
  <2>7. ASSUME Tick PROVE EffectInv'
    <3>1. Calm /\ UNCHANGED at /\ effect' = Before(effect) /\ fresh' = Before(fresh)
      BY <2>7 DEF Tick, Calm, happened
    <3>2. effect <= fresh => effect' <= fresh'
      BY <3>1 DEF Before
    <3>3. effect = 0 => effect' = 0
      BY <3>1 DEF Before
    <3> QED
      BY <3>1, <3>2, <3>3 DEF EffectInv
  <2>8. ASSUME UNCHANGED vars PROVE EffectInv'
    <3>1. Calm /\ UNCHANGED <<at, fresh, effect>>
      BY <2>8 DEF vars, happened, Calm
    <3> QED
      BY <3>1 DEF EffectInv
  <2>9. EffectInv'
    BY <2>1, <2>2, <2>3, <2>4, <2>5, <2>6, <2>7, <2>8 DEF Next
  <2> QED
    BY <2>9 DEF EffectInv
<1> QED
  BY <1>1, <1>2, TypeCorrect, RedisInvHolds, PTL DEF Spec

\* Within IDEMPOTENCY_TTL the handler takes effect once for a client that waits
\* for its answers, as long as Redis answers and no process dies between the
\* handler and the store (dispatch).
THEOREM EffectOnceHolds == Spec => EffectOnce
<1>1. TypeOK /\ EffectInv /\ [Next]_vars
        => [\A r \in Requests :
              (/\ at[r] = "running" /\ at'[r] = "storing"
               /\ backend = "redis" /\ ~overlapped /\ ~faulted /\ ~lost)
                 => effect = 0]_vars
  BY DEF EffectInv, Calm
<1> QED
  BY <1>1, TypeCorrect, EffectInvHolds, PTL DEF Spec, EffectOnce

-----------------------------------------------------------------------------
(* LoginThrottle: types.                                                    *)

LEMMA CappedType ==
    ASSUME NEW n \in Nat
    PROVE  Capped(n) \in 0..CountCap /\ (n > 0 => Capped(n) > 0)
BY ThrottleAssumption DEF Capped

LEMMA GotoType ==
    ASSUME ThrottleTypeOK, NEW a \in Attempts,
           NEW where \in {"idle", "expiring", "verifying", "resetting"}, GoOn(a, where)
    PROVE  waits' \in [Attempts -> {"idle", "expiring", "verifying", "resetting"}]
BY DEF ThrottleTypeOK, GoOn

\* An attempt that passes is counted.
LEMMA LetThroughType ==
    ASSUME ThrottleTypeOK, NEW n \in Nat, LetThrough(n)
    PROVE  within' \in [1..Lockout -> Nat]
BY ThrottleAssumption DEF ThrottleTypeOK, LetThrough

\* Every variable keeps its type, whichever backend counts and whoever dies.
THEOREM ThrottleTypeCorrect == ThrottleSpec => []ThrottleTypeOK
<1>0. NoneWithin \in [1..Lockout -> Nat]
  BY DEF NoneWithin
<1>1. ThrottleInit => ThrottleTypeOK
  <2>1. ThrottleInit => waits \in [Attempts -> {"idle", "expiring", "verifying", "resetting"}]
    BY DEF ThrottleInit
  <2>2. ThrottleInit => within \in [1..Lockout -> Nat]
    BY <1>0 DEF ThrottleInit
  <2>3. ThrottleInit => count \in 0..CountCap /\ keyTtl \in 0..Lockout /\ age \in 0..(Lockout + 1)
    BY ThrottleAssumption DEF ThrottleInit
  <2> QED
    BY <2>1, <2>2, <2>3 DEF ThrottleInit, ThrottleTypeOK
<1>2. ThrottleTypeOK /\ [ThrottleNext]_throttleVars => ThrottleTypeOK'
  <2> SUFFICES ASSUME ThrottleTypeOK, [ThrottleNext]_throttleVars PROVE ThrottleTypeOK'
    OBVIOUS
  <2> USE ThrottleAssumption
  <2>1. ASSUME NEW a \in Attempts, Incr(a) PROVE ThrottleTypeOK'
    <3>1. count + 1 \in Nat
      BY DEF ThrottleTypeOK
    <3>2. count' \in 0..CountCap
      BY <2>1, <3>1, CappedType DEF Incr
    <3>3. within' \in [1..Lockout -> Nat]
      BY <2>1, <3>1, LetThroughType DEF Incr
    <3>4. waits' \in [Attempts -> {"idle", "expiring", "verifying", "resetting"}]
      BY <2>1 DEF Incr, GoOn, ThrottleTypeOK
    <3> QED
      BY <2>1, <3>2, <3>3, <3>4 DEF Incr, ThrottleTypeOK
  <2>2. ASSUME NEW a \in Attempts, Expire(a) PROVE ThrottleTypeOK'
    <3>1. waits' \in [Attempts -> {"idle", "expiring", "verifying", "resetting"}]
      BY <2>2 DEF Expire, GoOn, ThrottleTypeOK
    <3> QED
      BY <2>2, <3>1 DEF Expire, ThrottleTypeOK
  <2>3. ASSUME NEW a \in Attempts, CountLocally(a) PROVE ThrottleTypeOK'
    <3> DEFINE anew == count = 0 \/ age > Lockout
               n == IF anew THEN 1 ELSE count + 1
    <3>1. n \in Nat
      BY DEF ThrottleTypeOK
    <3>2. /\ count' = Capped(n)
          /\ age' = IF anew THEN 0 ELSE age
          /\ GoOn(a, IF Verdict(n) THEN "verifying" ELSE "idle")
          /\ LetThrough(n)
          /\ UNCHANGED <<counter, keyTtl, died>>
      BY <2>3 DEF CountLocally
    <3>3. count' \in 0..CountCap /\ within' \in [1..Lockout -> Nat]
      BY <3>1, <3>2, CappedType, LetThroughType
    <3>4. waits' \in [Attempts -> {"idle", "expiring", "verifying", "resetting"}]
      BY <3>2 DEF GoOn, ThrottleTypeOK
    <3> QED
      BY <3>2, <3>3, <3>4 DEF ThrottleTypeOK
  <2>4. ASSUME NEW a \in Attempts, Wrong(a) \/ Right(a) PROVE ThrottleTypeOK'
    BY <2>4 DEF Wrong, Right, GoOn, ThrottleTypeOK
  <2>5. ASSUME NEW a \in Attempts, Reset(a) PROVE ThrottleTypeOK'
    BY <2>5 DEF Reset, GoOn, ThrottleTypeOK, NoneWithin
  <2>6. ASSUME NEW a \in Attempts, Fail(a) PROVE ThrottleTypeOK'
    BY <2>6 DEF Fail, GoOn, ThrottleTypeOK
  <2>7. CASE RestartProcess
    BY <2>7 DEF RestartProcess, ThrottleTypeOK, NoneWithin
  <2>8. CASE PassTime
    <3>1. within' \in [1..Lockout -> Nat]
      BY <2>8 DEF PassTime, ThrottleTypeOK
    <3>2. keyTtl' \in 0..Lockout /\ count' \in 0..CountCap /\ age' \in 0..(Lockout + 1)
      BY <2>8 DEF PassTime, ThrottleTypeOK
    <3> QED
      BY <2>8, <3>1, <3>2 DEF PassTime, ThrottleTypeOK
  <2>9. CASE UNCHANGED throttleVars
    BY <2>9 DEF throttleVars, ThrottleTypeOK
  <2> QED
    BY <2>1, <2>2, <2>3, <2>4, <2>5, <2>6, <2>7, <2>8, <2>9 DEF ThrottleNext
<1> QED
  BY <1>1, <1>2, PTL DEF ThrottleSpec

-----------------------------------------------------------------------------
(* No key without a TTL is forgotten.                                       *)

\* A request that is not expiring and does not start to leaves those that are.
LEMMA StillExpiring ==
    ASSUME ThrottleTypeOK, NEW a \in Attempts, a \notin Expiring,
           NEW where \in {"idle", "expiring", "verifying", "resetting"}, GoOn(a, where)
    PROVE  Expiring \subseteq Expiring' /\ (where = "expiring" => a \in Expiring')
BY DEF ThrottleTypeOK, Expiring, GoOn

\* As long as nobody dies between INCR and EXPIRE, a key without a TTL has a
\* request on its way to give it one (check_login_throttle against
\* reset_login_throttle and the expiry of keys).
THEOREM EveryKeyGetsItsTtlHolds == ThrottleSpec => []EveryKeyGetsItsTtl
<1>1. ThrottleInit => EveryKeyGetsItsTtl
  BY DEF ThrottleInit, EveryKeyGetsItsTtl
<1>2. ThrottleTypeOK /\ EveryKeyGetsItsTtl /\ [ThrottleNext]_throttleVars => EveryKeyGetsItsTtl'
  <2> SUFFICES ASSUME ThrottleTypeOK, EveryKeyGetsItsTtl, [ThrottleNext]_throttleVars,
                      counter' = "redis", count' > 0, keyTtl' = 0, ~died'
               PROVE  Expiring' # {}
    BY DEF EveryKeyGetsItsTtl
  <2> USE ThrottleAssumption DEF EveryKeyGetsItsTtl
  <2>1. ASSUME NEW a \in Attempts, Incr(a) PROVE Expiring' # {}
    <3>1. a \notin Expiring /\ UNCHANGED <<counter, keyTtl, died>>
      BY <2>1 DEF Incr, Expiring
    <3>2. CASE count = 0
      BY <2>1, <3>2 DEF Incr, GoOn, Expiring, ThrottleTypeOK
    <3>3. CASE count # 0
      <4>1. Expiring # {}
        BY <3>1, <3>3 DEF ThrottleTypeOK
      <4>2. GoOn(a, "verifying") \/ GoOn(a, "idle")
        BY <2>1, <3>3 DEF Incr
      <4> QED
        BY <3>1, <4>1, <4>2, StillExpiring
    <3> QED
      BY <3>2, <3>3
  <2>2. ASSUME NEW a \in Attempts, Expire(a) PROVE FALSE
    BY <2>2 DEF Expire, ThrottleTypeOK
  <2>3. ASSUME NEW a \in Attempts, CountLocally(a) PROVE FALSE
    BY <2>3 DEF CountLocally
  <2>4. ASSUME NEW a \in Attempts, Wrong(a) \/ Right(a) PROVE Expiring' # {}
    <3>1. a \notin Expiring /\ UNCHANGED <<counter, count, keyTtl, died>>
      BY <2>4 DEF Wrong, Right, Expiring
    <3>2. GoOn(a, "idle") \/ GoOn(a, "resetting")
      BY <2>4 DEF Wrong, Right
    <3> QED
      BY <3>1, <3>2, StillExpiring
  <2>5. ASSUME NEW a \in Attempts, Reset(a) PROVE FALSE
    BY <2>5 DEF Reset
  <2>6. ASSUME NEW a \in Attempts, Fail(a) PROVE Expiring' # {}
    <3>1. a \notin Expiring /\ UNCHANGED <<counter, count, keyTtl>> /\ ~died
      BY <2>6 DEF Fail, ThrottleTypeOK
    <3>2. GoOn(a, "idle")
      BY <2>6 DEF Fail
    <3> QED
      BY <3>1, <3>2, StillExpiring
  <2>7. CASE RestartProcess
    BY <2>7 DEF RestartProcess, ThrottleTypeOK
  <2>8. CASE PassTime
    <3>1. keyTtl = 0 /\ UNCHANGED <<counter, count, waits, died>>
      BY <2>8 DEF PassTime, ThrottleTypeOK
    <3> QED
      BY <3>1 DEF Expiring
  <2>9. CASE UNCHANGED throttleVars
    BY <2>9 DEF throttleVars, Expiring
  <2> QED
    BY <2>1, <2>2, <2>3, <2>4, <2>5, <2>6, <2>7, <2>8, <2>9 DEF ThrottleNext
<1> QED
  BY <1>1, <1>2, ThrottleTypeCorrect, PTL DEF ThrottleSpec

-----------------------------------------------------------------------------
(* What a window lets through.                                              *)

\* The attempts of the present count that passed.
Passed == IF count < MaxAttempts THEN count ELSE MaxAttempts

\* Whatever the present key or entry has lived through saw only its own
\* attempts, and any span of a lockout saw at most one full count before it.
WindowInv ==
    /\ count = 0 => keyTtl = 0
    /\ counter = "local" => keyTtl = 0 /\ Expiring = {}
    /\ \A i \in 1..Lockout :
          /\ within[i] <= MaxAttempts + Passed
          /\ keyTtl > 0 /\ i <= Lockout - keyTtl => within[i] <= Passed
          /\ counter = "local" /\ i <= age => within[i] <= Passed

LEMMA PassedType ==
    ASSUME ThrottleTypeOK
    PROVE  Passed \in 0..MaxAttempts /\ (count = 0 => Passed = 0)
BY ThrottleAssumption DEF ThrottleTypeOK, Passed

\* The n-th attempt of a count adds one to every span if it passes, and to
\* what the count has let through.
LEMMA PassedGrows ==
    ASSUME ThrottleTypeOK, NEW n \in Nat, n > 0, count' = Capped(n), LetThrough(n),
           NEW p \in Nat, p = IF n - 1 < MaxAttempts THEN n - 1 ELSE MaxAttempts
    PROVE  /\ Passed' \in Nat
           /\ Passed' = IF Verdict(n) THEN p + 1 ELSE p
           /\ \A i \in 1..Lockout : within'[i] = IF Verdict(n) THEN within[i] + 1 ELSE within[i]
<1>1. Passed' = IF n < MaxAttempts THEN n ELSE MaxAttempts
  BY ThrottleAssumption DEF Passed, Capped
<1>2. \A i \in 1..Lockout : within'[i] = IF Verdict(n) THEN within[i] + 1 ELSE within[i]
  BY DEF LetThrough, ThrottleTypeOK
<1> QED
  BY <1>1, <1>2, ThrottleAssumption DEF Verdict

\* "Too many login attempts": of the attempts counted in any span of
\* LOGIN_LOCKOUT_SECONDS without a success at most twice LOGIN_MAX_ATTEMPTS
\* verify a password, with either backend, for any number of requests and
\* wherever one dies between INCR and EXPIRE (check_login_throttle).
THEOREM GuessesBoundedHolds == ThrottleSpec => []GuessesBounded
<1>1. ThrottleInit => WindowInv
  BY ThrottleAssumption DEF ThrottleInit, WindowInv, NoneWithin, Passed, Expiring
<1>2. ThrottleTypeOK /\ ThrottleTypeOK' /\ WindowInv /\ [ThrottleNext]_throttleVars => WindowInv'
  <2> SUFFICES ASSUME ThrottleTypeOK, ThrottleTypeOK', WindowInv,
                      [ThrottleNext]_throttleVars
               PROVE  WindowInv'
    OBVIOUS
  <2> USE ThrottleAssumption
  <2>0. /\ Passed \in 0..MaxAttempts /\ (count = 0 => Passed = 0)
        /\ \A i \in 1..Lockout : within[i] \in Nat
        /\ count \in Nat /\ keyTtl \in 0..Lockout /\ age \in 0..(Lockout + 1)
    BY PassedType DEF ThrottleTypeOK
  <2>1. ASSUME NEW a \in Attempts, Incr(a) PROVE WindowInv'
    <3>1. /\ counter = "redis" /\ count' = Capped(count + 1) /\ LetThrough(count + 1)
          /\ UNCHANGED <<counter, keyTtl, age>>
      BY <2>1 DEF Incr
    <3>2. /\ Passed' = IF Verdict(count + 1) THEN Passed + 1 ELSE Passed
          /\ \A i \in 1..Lockout :
                within'[i] = IF Verdict(count + 1) THEN within[i] + 1 ELSE within[i]
      BY <2>0, <3>1, PassedGrows DEF Passed
    <3>3. count' > 0
      BY <2>0, <3>1, CappedType
    <3> QED
      BY <2>0, <3>1, <3>2, <3>3 DEF WindowInv
  <2>2. ASSUME NEW a \in Attempts, Expire(a) PROVE WindowInv'
    <3>1. /\ keyTtl' = IF count > 0 THEN Lockout ELSE 0
          /\ UNCHANGED <<counter, count, age, within>> /\ Passed' = Passed
      BY <2>2 DEF Expire, Passed
    <3>2. counter # "local"
      BY <2>2 DEF Expire, WindowInv, Expiring
    <3> QED
      BY <2>0, <3>1, <3>2 DEF WindowInv
  <2>3. ASSUME NEW a \in Attempts, CountLocally(a) PROVE WindowInv'
    <3> DEFINE anew == count = 0 \/ age > Lockout
               n == IF anew THEN 1 ELSE count + 1
               p == IF n - 1 < MaxAttempts THEN n - 1 ELSE MaxAttempts
    <3>1. /\ counter = "local" /\ count' = Capped(n) /\ LetThrough(n)
          /\ age' = IF anew THEN 0 ELSE age
          /\ UNCHANGED <<counter, keyTtl>>
      BY <2>3 DEF CountLocally
    <3>2. Expiring' = {} /\ keyTtl = 0
      BY <2>3, <3>1 DEF CountLocally, GoOn, Expiring, WindowInv, ThrottleTypeOK
    <3>3. n \in Nat /\ n > 0 /\ p \in Nat
      BY <2>0
    <3>4. /\ Passed' = IF Verdict(n) THEN p + 1 ELSE p
          /\ \A i \in 1..Lockout : within'[i] = IF Verdict(n) THEN within[i] + 1 ELSE within[i]
      <4> HIDE DEF n
      <4> QED
        BY <3>1, <3>3, PassedGrows
    <3>5. anew => p = 0
      OBVIOUS
    <3>6. ~anew => p = Passed
      BY <2>0 DEF Passed
    <3>7. anew => \A i \in 1..Lockout : within[i] <= MaxAttempts
      <4>1. CASE count = 0
        BY <2>0, <4>1 DEF WindowInv
      <4>2. CASE age > Lockout
        BY <2>0, <3>1, <4>2 DEF WindowInv
      <4> QED
        BY <4>1, <4>2
    <3>8. count' > 0
      BY <3>1, <3>3, CappedType
    <3>9. ASSUME NEW i \in 1..Lockout
          PROVE  /\ within'[i] <= MaxAttempts + Passed'
                 /\ i <= age' => within'[i] <= Passed'
      <4> HIDE DEF n, p
      <4>1. CASE anew
        BY <2>0, <3>1, <3>4, <3>5, <3>7, <4>1
      <4>2. CASE ~anew
        BY <2>0, <3>1, <3>4, <3>6, <4>2 DEF WindowInv
      <4> QED
        BY <4>1, <4>2
    <3> QED
      BY <3>1, <3>2, <3>8, <3>9 DEF WindowInv
  <2>4. ASSUME NEW a \in Attempts, Wrong(a) \/ Right(a) \/ Fail(a) PROVE WindowInv'
    <3>1. UNCHANGED <<counter, count, keyTtl, age, within>> /\ (Expiring = {} => Expiring' = {})
      BY <2>4 DEF Wrong, Right, Fail, GoOn, Expiring, ThrottleTypeOK
    <3> QED
      BY <3>1 DEF WindowInv, Passed
  <2>5. ASSUME NEW a \in Attempts, Reset(a) PROVE WindowInv'
    <3>1. counter' = "local" => Expiring' = {}
      BY <2>5 DEF Reset, GoOn, Expiring, WindowInv, ThrottleTypeOK
    <3> QED
      BY <2>5, <3>1 DEF Reset, WindowInv, Passed, NoneWithin
  <2>6. CASE RestartProcess
    <3>1. Expiring' = {} /\ UNCHANGED <<counter, keyTtl>>
      BY <2>6 DEF RestartProcess, Expiring
    <3>2. CASE counter = "local"
      BY <2>6, <3>1, <3>2 DEF RestartProcess, WindowInv, Passed, NoneWithin
    <3>3. CASE counter # "local"
      BY <2>6, <3>1, <3>3 DEF RestartProcess, WindowInv, Passed
    <3> QED
      BY <3>2, <3>3
  <2>7. CASE PassTime
    <3>1. /\ \A i \in 1..Lockout : within'[i] = IF i = 1 THEN 0 ELSE within[i - 1]
          /\ UNCHANGED <<counter, waits>>
      BY <2>7 DEF PassTime
    <3>2. /\ keyTtl # 1 => count' = count
          /\ keyTtl = 1 => count' = 0
          /\ keyTtl' = IF keyTtl = 0 THEN 0 ELSE keyTtl - 1
      BY <2>0, <2>7 DEF PassTime
    <3>3. counter = "local" /\ count > 0 => age' <= age + 1
      BY <2>0, <2>7 DEF PassTime
    <3>4. counter = "local" /\ count = 0 => age' = age
      BY <2>0, <2>7 DEF PassTime
    <3>5. count' = 0 => keyTtl' = 0
      BY <2>0, <3>2 DEF WindowInv
    <3>6. counter = "local" => keyTtl' = 0 /\ Expiring' = {}
      BY <2>0, <3>1, <3>2 DEF WindowInv, Expiring
    <3>7. Passed' = IF keyTtl = 1 THEN 0 ELSE Passed
      BY <2>0, <3>2 DEF Passed
    <3>8. ASSUME NEW i \in 1..Lockout
          PROVE  /\ within'[i] <= MaxAttempts + Passed'
                 /\ keyTtl' > 0 /\ i <= Lockout - keyTtl' => within'[i] <= Passed'
                 /\ counter' = "local" /\ i <= age' => within'[i] <= Passed'
      <4>1. CASE i = 1
        BY <2>0, <3>1, <3>7, <4>1
      <4>2. CASE i > 1
        <5>1. i - 1 \in 1..Lockout /\ within'[i] = within[i - 1]
          BY <3>1, <4>2
        <5>2. /\ within[i - 1] <= MaxAttempts + Passed
              /\ keyTtl > 0 /\ i - 1 <= Lockout - keyTtl => within[i - 1] <= Passed
              /\ counter = "local" /\ i - 1 <= age => within[i - 1] <= Passed
          BY <5>1 DEF WindowInv
        <5>3. counter = "local" => keyTtl = 0
          BY DEF WindowInv
        <5>4. counter = "local" => age' \in Nat /\ age' <= age + 1
          BY <2>0, <3>3, <3>4 DEF ThrottleTypeOK
        <5>5. within[i - 1] \in Nat /\ i - 1 <= Lockout - 1 /\ Passed \in Nat
          BY <2>0, <5>1
        <5>6. within'[i] <= MaxAttempts + Passed'
          BY <2>0, <3>7, <5>1, <5>2, <5>5
        <5>7. keyTtl' > 0 /\ i <= Lockout - keyTtl' => within'[i] <= Passed'
          BY <2>0, <3>2, <3>7, <5>1, <5>2, <5>5
        <5>8. counter' = "local" /\ i <= age' => within'[i] <= Passed'
          BY <2>0, <3>1, <3>7, <5>1, <5>2, <5>3, <5>4, <5>5
        <5> QED
          BY <5>6, <5>7, <5>8
      <4> QED
        BY <4>1, <4>2
    <3>9. counter' = counter
      BY <3>1
    <3>10. counter' = "local" => keyTtl' = 0 /\ Expiring' = {}
      BY <3>6, <3>9
    <3> QED
      BY <3>5, <3>8, <3>10 DEF WindowInv
  <2>8. CASE UNCHANGED throttleVars
    BY <2>8 DEF throttleVars, WindowInv, Passed, Expiring
  <2> QED
    BY <2>1, <2>2, <2>3, <2>4, <2>5, <2>6, <2>7, <2>8 DEF ThrottleNext
<1>3. ThrottleTypeOK /\ WindowInv => GuessesBounded
  BY PassedType, ThrottleAssumption DEF WindowInv, GuessesBounded, ThrottleTypeOK
<1> QED
  BY <1>1, <1>2, <1>3, ThrottleTypeCorrect, PTL DEF ThrottleSpec
=============================================================================
