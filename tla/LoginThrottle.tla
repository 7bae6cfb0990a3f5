--------------------------- MODULE LoginThrottle ---------------------------
(***************************************************************************)
(* app/core/throttle.py as POST /auth/login uses it, for one username:     *)
(* check_login_throttle counts the attempt, the handler verifies the       *)
(* password, reset_login_throttle forgets the count after a success.       *)
(*                                                                         *)
(* With Redis the count is a key shared by all processes, INCR and EXPIRE  *)
(* are two round trips, and a request may die between them.  Without it    *)
(* the count is in a dict of the process and nothing is awaited between    *)
(* its read and its write.                                                 *)
(***************************************************************************)
EXTENDS Naturals

CONSTANTS
    Attempts,           \* slots for login requests in progress
    Counters,           \* configurations: "redis" (CACHE_ENABLED), "local"
    MaxAttempts,        \* LOGIN_MAX_ATTEMPTS
    Lockout,            \* LOGIN_LOCKOUT_SECONDS
    CountCap            \* bound: where the count stops growing

ASSUME ThrottleAssumption ==
    /\ Counters \subseteq {"redis", "local"}
    /\ MaxAttempts \in Nat \ {0}
    /\ Lockout \in Nat \ {0}
    /\ CountCap \in Nat /\ CountCap > MaxAttempts

VARIABLES
    counter,            \* the configuration of the process, fixed
    count,              \* the counter, 0 when there is no key or entry
    keyTtl,             \* Redis: time the key has left, 0 when it has no TTL
    age,                \* dict: now - started_at, up to Lockout + 1
    waits,              \* the await each request has reached
    within,             \* history: attempts let through in the last i units of
                        \* time, since the count was last forgotten
    died                \* history: a request died between INCR and EXPIRE

throttleVars == <<counter, count, keyTtl, age, waits, within, died>>

ThrottleTypeOK ==
    /\ counter \in Counters
    /\ count \in 0..CountCap
    /\ keyTtl \in 0..Lockout
    /\ age \in 0..(Lockout + 1)
    /\ waits \in [Attempts -> {"idle", "expiring", "verifying", "resetting"}]
    /\ within \in [1..Lockout -> Nat]
    /\ died \in BOOLEAN

NoneWithin == [i \in 1..Lockout |-> 0]

ThrottleInit ==
    /\ counter \in Counters
    /\ count = 0
    /\ keyTtl = 0
    /\ age = 0
    /\ waits = [a \in Attempts |-> "idle"]
    /\ within = NoneWithin
    /\ died = FALSE

Capped(n) == IF n > CountCap THEN CountCap ELSE n

GoOn(a, where) == waits' = [waits EXCEPT ![a] = where]

\* Mutant: the attempt after the last one still passes.
Verdict_oneMore(n) == n <= MaxAttempts + 1

\* "if attempts > LOGIN_MAX_ATTEMPTS: raise 429"
Verdict(n) == n <= MaxAttempts

LetThrough(n) ==
    within' = IF Verdict(n) THEN [i \in 1..Lockout |-> within[i] + 1] ELSE within

-----------------------------------------------------------------------------
(* check_login_throttle, with Redis.                                        *)

\* Mutant: EXPIRE is left to the second attempt.
Incr_expireLate(a) ==
    /\ counter = "redis" /\ waits[a] = "idle"
    /\ count' = Capped(count + 1)
    /\ GoOn(a, CASE count = 1 -> "expiring"
                 [] count # 1 /\ Verdict(count + 1) -> "verifying"
                 [] OTHER -> "idle")
    /\ LetThrough(count + 1)
    /\ UNCHANGED <<counter, keyTtl, age, died>>

\* INCR makes a key without TTL when there is none; whoever gets 1 goes on to
\* EXPIRE, any other attempt has its verdict at once.
Incr(a) ==
    /\ counter = "redis" /\ waits[a] = "idle"
    /\ count' = Capped(count + 1)
    /\ GoOn(a, CASE count = 0 -> "expiring"
                 [] count # 0 /\ Verdict(count + 1) -> "verifying"
                 [] OTHER -> "idle")
    /\ LetThrough(count + 1)
    /\ UNCHANGED <<counter, keyTtl, age, died>>

\* EXPIRE gives the key its TTL, or does nothing if the key is gone.
Expire(a) ==
    /\ waits[a] = "expiring"
    /\ keyTtl' = IF count > 0 THEN Lockout ELSE 0
    /\ GoOn(a, IF Verdict(1) THEN "verifying" ELSE "idle")
    /\ UNCHANGED <<counter, count, age, within, died>>

-----------------------------------------------------------------------------
(* check_login_throttle, without.                                           *)

\* Mutant: every attempt renews started_at.
CountLocally_renewing(a) ==
    LET n == IF count = 0 \/ age > Lockout THEN 1 ELSE count + 1
    IN  /\ counter = "local" /\ waits[a] = "idle"
        /\ count' = Capped(n)
        /\ age' = 0
        /\ GoOn(a, IF Verdict(n) THEN "verifying" ELSE "idle")
        /\ LetThrough(n)
        /\ UNCHANGED <<counter, keyTtl, died>>

\* The entry is renewed when it is missing or older than the lockout.
CountLocally(a) ==
    LET fresh == count = 0 \/ age > Lockout
        n == IF fresh THEN 1 ELSE count + 1
    IN  /\ counter = "local" /\ waits[a] = "idle"
        /\ count' = Capped(n)
        /\ age' = IF fresh THEN 0 ELSE age
        /\ GoOn(a, IF Verdict(n) THEN "verifying" ELSE "idle")
        /\ LetThrough(n)
        /\ UNCHANGED <<counter, keyTtl, died>>

-----------------------------------------------------------------------------
(* The rest of the login, and the world around it.                          *)

\* The wrong password, or no such user: 401.
Wrong(a) ==
    /\ waits[a] = "verifying"
    /\ GoOn(a, "idle")
    /\ UNCHANGED <<counter, count, keyTtl, age, within, died>>

Right(a) ==
    /\ waits[a] = "verifying"
    /\ GoOn(a, "resetting")
    /\ UNCHANGED <<counter, count, keyTtl, age, within, died>>

\* reset_login_throttle: DEL, or pop from the dict; the tokens follow.
Reset(a) ==
    /\ waits[a] = "resetting"
    /\ count' = 0
    /\ keyTtl' = 0
    /\ age' = 0
    /\ within' = NoneWithin
    /\ GoOn(a, "idle")
    /\ UNCHANGED <<counter, died>>

Expiring == {a \in Attempts : waits[a] = "expiring"}

\* A Redis error or a lost connection ends the request where it stands.
Fail(a) ==
    /\ waits[a] # "idle"
    /\ GoOn(a, "idle")
    /\ died' = (died \/ a \in Expiring)
    /\ UNCHANGED <<counter, count, keyTtl, age, within>>

\* The process restarts: its requests are gone, and its dict.
RestartProcess ==
    /\ waits' = [a \in Attempts |-> "idle"]
    /\ died' = (died \/ Expiring # {})
    /\ IF counter = "local"
         THEN count' = 0 /\ age' = 0 /\ within' = NoneWithin
         ELSE UNCHANGED <<count, age, within>>
    /\ UNCHANGED <<counter, keyTtl>>

\* One unit of time: a key whose TTL runs out vanishes, a dict entry only
\* gets older.
PassTime ==
    /\ IF keyTtl = 0
         THEN UNCHANGED <<count, keyTtl>>
         ELSE keyTtl' = keyTtl - 1 /\ count' = IF keyTtl = 1 THEN 0 ELSE count
    /\ age' = IF counter = "local" /\ count > 0 /\ age <= Lockout
                THEN age + 1 ELSE age
    /\ within' = [i \in 1..Lockout |-> IF i = 1 THEN 0 ELSE within[i - 1]]
    /\ UNCHANGED <<counter, waits, died>>

ThrottleNext ==
    \/ \E a \in Attempts :
          \/ Incr(a) \/ Expire(a)
          \/ CountLocally(a)
          \/ Wrong(a) \/ Right(a) \/ Reset(a)
          \/ Fail(a)
    \/ RestartProcess
    \/ PassTime

ThrottleSpec == ThrottleInit /\ [][ThrottleNext]_throttleVars

\* Time passes, and a handler that waits for EXPIRE goes on or fails.
ThrottleFairness ==
    /\ WF_throttleVars(PassTime)
    /\ \A a \in Attempts : WF_throttleVars(Expire(a))

ThrottleFairSpec == ThrottleSpec /\ ThrottleFairness

-----------------------------------------------------------------------------
(* Properties.                                                              *)

\* A fixed window promises no more than this: of the attempts counted in any
\* span of LOGIN_LOCKOUT_SECONDS without a success, at most twice
\* LOGIN_MAX_ATTEMPTS come to verify a password, however they interleave and
\* wherever requests die.
GuessesBounded == within[Lockout] <= 2 * MaxAttempts

\* As long as nobody dies between INCR and EXPIRE, a key without a TTL has a
\* request on its way to give it one, even when resets and other first
\* attempts come in between.
EveryKeyGetsItsTtl ==
    (counter = "redis" /\ count > 0 /\ keyTtl = 0 /\ ~died) => Expiring # {}

\* The next attempt would be answered 429.
Locked ==
    /\ count >= MaxAttempts
    /\ counter = "local" => age <= Lockout

\* "Too many login attempts, try again later": a lockout ends by itself.
LockoutEnds == Locked ~> ~Locked

\* It does, with either backend and across restarts, as long as nobody dies
\* between INCR and EXPIRE.
LockoutEndsUnlessDied == [](~died) => LockoutEnds
=============================================================================
