---------------------------- MODULE SignedRequests ----------------------------
(***************************************************************************)
(* app/core/s2s.py: requests that another service signs with a timestamp   *)
(* and a nonce, and the check that lets each of them in once.  The network *)
(* may deliver a request any number of times, in any order, or never, and  *)
(* may damage it; a nonce stands for the one request it was drawn for.     *)
(*                                                                         *)
(* The clock counts ticks, Second of them to a second: the check reads the *)
(* clock with its fraction and a timestamp is cut to whole seconds.  The   *)
(* nonces seen live in the process, and a restart forgets them.            *)
(***************************************************************************)
EXTENDS Integers

CONSTANTS
    Nonces,
    Second,             \* ticks in a second
    Tolerance,          \* _TIMESTAMP_TOLERANCE, in ticks
    Skew,               \* the most a signer's clock is ahead, in ticks
    LastTick            \* bound: the clock stops there

ASSUME SignedRequestsAssumption ==
    /\ Second \in Nat \ {0}
    /\ Tolerance \in Nat
    /\ Skew \in Nat
    /\ LastTick \in Nat

Unset == -1

VARIABLES
    tick,               \* time.time() of the server
    stamp,              \* the timestamp each request was signed with
    expiry,             \* _nonces: when each nonce seen may be forgotten
    accepted,           \* history: times each was accepted by this process
    early               \* history: requests that came before their timestamp

signedVars == <<tick, stamp, expiry, accepted, early>>

SignedTypeOK ==
    /\ tick \in Nat
    /\ stamp \in [Nonces -> Nat \cup {Unset}]
    /\ expiry \in [Nonces -> Nat \cup {Unset}]
    /\ accepted \in [Nonces -> Nat]
    /\ early \subseteq Nonces

SignedInit ==
    /\ tick = 0
    /\ stamp = [n \in Nonces |-> Unset]
    /\ expiry = [n \in Nonces |-> Unset]
    /\ accepted = [n \in Nonces |-> 0]
    /\ early = {}

PassTime ==
    /\ tick < LastTick
    /\ tick' = tick + 1
    /\ UNCHANGED <<stamp, expiry, accepted, early>>

\* sign_request on a clock that is ahead of the server's: whole seconds.
SignRequest(n, ahead) ==
    /\ stamp[n] = Unset
    /\ stamp' = [stamp EXCEPT ![n] = tick + ahead - ((tick + ahead) % Second)]
    /\ UNCHANGED <<tick, expiry, accepted, early>>

\* abs(now - timestamp) > _TIMESTAMP_TOLERANCE is refused.
InTime(n) ==
    /\ tick - stamp[n] <= Tolerance
    /\ stamp[n] - tick <= Tolerance

\* Mutant: a nonce is forgotten at its expiry, not after it.
Remembered_shorter(n) == expiry[n] # Unset /\ expiry[n] > tick

\* _evict_expired_nonces has spared it.
Remembered(n) == expiry[n] # Unset /\ expiry[n] >= tick

\* A request that verify_s2s_signature lets through its first two checks has
\* its nonce remembered, whether or not its signature then proves right; a
\* nonce found expired is dropped either way, and so are all others.
Deliver(n, intact) ==
    /\ stamp[n] # Unset
    /\ InTime(n)
    /\ expiry' = [m \in Nonces |->
                     IF m = n /\ ~Remembered(n) THEN tick + Tolerance
                     ELSE IF Remembered(m) THEN expiry[m] ELSE Unset]
    /\ IF intact /\ ~Remembered(n)
       THEN /\ accepted' = [accepted EXCEPT ![n] = @ + 1]
            /\ early' = IF stamp[n] > tick THEN early \cup {n} ELSE early
       ELSE UNCHANGED <<accepted, early>>
    /\ UNCHANGED <<tick, stamp>>

\* The process ends, and another begins without any nonce.
RestartVerifier ==
    /\ expiry' = [n \in Nonces |-> Unset]
    /\ accepted' = [n \in Nonces |-> 0]
    /\ early' = {}
    /\ UNCHANGED <<tick, stamp>>

SignedNext ==
    \/ PassTime
    \/ \E n \in Nonces, ahead \in 0 .. Skew : SignRequest(n, ahead)
    \/ \E n \in Nonces, intact \in BOOLEAN : Deliver(n, intact)
    \/ RestartVerifier

SignedSpec == SignedInit /\ [][SignedNext]_signedVars

-----------------------------------------------------------------------------
\* "prevents replay within the time window": a process accepts a request at
\* most once, however often it is delivered, for as long as its timestamp is
\* accepted; unless it came before its timestamp, by the server's clock.  The
\* expiry counts from the arrival, so that request's nonce is forgotten while
\* the timestamp is still good (verify_s2s_signature, _evict_expired_nonces).
AcceptedOnce == \A n \in Nonces \ early : accepted[n] <= 1
=============================================================================
