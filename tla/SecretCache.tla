------------------------------ MODULE SecretCache ------------------------------
(***************************************************************************)
(* app/core/secrets.py: a secret store and the two providers that cache    *)
(* what they read of it.  Vault stamps every key and keeps, until its ttl, *)
(* one that the store has dropped; AWS keeps all keys under one stamp.     *)
(* EnvSecretsProvider and DictSecretsProvider read their source each time. *)
(* A provider's call is one step: it is synchronous and never gives way to *)
(* the event loop.  (A read takes no time on this clock: a stamp taken     *)
(* after a slow answer counts from the answer.)                            *)
(***************************************************************************)
EXTENDS Integers

CONSTANTS
    Names,              \* keys of the secret
    Values,
    Missing,            \* no such key: KeyError, or the default
    Ttl,                \* cache_ttl
    LastHour            \* bound: the clock stops there

ASSUME SecretCacheAssumption ==
    /\ Missing \notin Values
    /\ Ttl \in Nat
    /\ LastHour \in Nat

VARIABLES
    hour,               \* time.time()
    secret,             \* what the store holds
    held,               \* history: when each key last had each value
    vault,              \* _cache of VaultSecretsProvider
    aws,                \* _cache and _cache_time of AWSSecretsManagerProvider
    reply               \* what the last call got: provider, key, value

secretVars == <<hour, secret, held, vault, aws, reply>>

Never == -1
Content == [Names -> Values \cup {Missing}]
NoReply == [of |-> "none", name |-> CHOOSE k \in Names : TRUE, value |-> Missing]

SecretTypeOK ==
    /\ hour \in Nat
    /\ secret \in Content
    /\ held \in [Names -> [Values \cup {Missing} -> Nat \cup {Never}]]
    /\ vault \in [Names -> [value : Values \cup {Missing}, at : Nat]]
    /\ aws \in [full : BOOLEAN, data : Content, at : Nat]
    /\ reply \in [of : {"none", "vault", "aws"}, name : Names,
                  value : Values \cup {Missing}]

SecretInit ==
    /\ hour = 0
    /\ secret = [k \in Names |-> Missing]
    /\ held = [k \in Names |-> [v \in Values \cup {Missing} |->
                                   IF v = Missing THEN 0 ELSE Never]]
    /\ vault = [k \in Names |-> [value |-> Missing, at |-> 0]]
    /\ aws = [full |-> FALSE, data |-> secret, at |-> 0]
    /\ reply = NoReply

PassHour ==
    /\ hour < LastHour
    /\ hour' = hour + 1
    /\ held' = [k \in Names |-> [held[k] EXCEPT ![secret[k]] = hour + 1]]
    /\ reply' = NoReply
    /\ UNCHANGED <<secret, vault, aws>>

\* Someone sets, rotates or removes a secret.
Rotate(k, v) ==
    /\ v # secret[k]
    /\ secret' = [secret EXCEPT ![k] = v]
    /\ held' = [held EXCEPT ![k][v] = hour]
    /\ reply' = NoReply
    /\ UNCHANGED <<hour, vault, aws>>

Answer(provider, k, v) == reply' = [of |-> provider, name |-> k, value |-> v]

VaultFresh(k) == vault[k].value # Missing /\ hour - vault[k].at < Ttl
AwsFresh == aws.full /\ hour - aws.at < Ttl

\* VaultSecretsProvider.get on what it has cached.
VaultHit(k) ==
    /\ VaultFresh(k)
    /\ Answer("vault", k, vault[k].value)
    /\ UNCHANGED <<hour, secret, held, vault, aws>>

\* Mutant: a read refreshes what it did not find, too.
VaultMiss_restamped(k) ==
    /\ ~VaultFresh(k)
    /\ vault' = [n \in Names |->
                    IF secret[n] = Missing THEN [vault[n] EXCEPT !.at = hour]
                    ELSE [value |-> secret[n], at |-> hour]]
    /\ Answer("vault", k, secret[k])
    /\ UNCHANGED <<hour, secret, held, aws>>

\* ... and when it has to ask: every key the answer holds is stamped, and the
\* others are left alone.  An error leaves everything as it was.
VaultMiss(k) ==
    /\ ~VaultFresh(k)
    /\ vault' = [n \in Names |->
                    IF secret[n] = Missing THEN vault[n]
                    ELSE [value |-> secret[n], at |-> hour]]
    /\ Answer("vault", k, secret[k])
    /\ UNCHANGED <<hour, secret, held, aws>>

\* AWSSecretsManagerProvider.get: _fetch_all on its cache, and without.
AwsHit(k) ==
    /\ AwsFresh
    /\ Answer("aws", k, aws.data[k])
    /\ UNCHANGED <<hour, secret, held, vault, aws>>

AwsMiss(k) ==
    /\ ~AwsFresh
    /\ aws' = [full |-> TRUE, data |-> secret, at |-> hour]
    /\ Answer("aws", k, secret[k])
    /\ UNCHANGED <<hour, secret, held, vault>>

SecretNext ==
    \/ PassHour
    \/ \E k \in Names, v \in Values \cup {Missing} : Rotate(k, v)
    \/ \E k \in Names : VaultHit(k) \/ VaultMiss(k) \/ AwsHit(k) \/ AwsMiss(k)

SecretSpec == SecretInit /\ [][SecretNext]_secretVars

-----------------------------------------------------------------------------
\* What a caching provider answers was the secret's value at some moment of
\* the last cache_ttl: a rotation or a removal takes effect by then, whichever
\* keys were asked for in between and refreshed the cache for all of them.
AnswersAreRecent ==
    reply.of # "none" =>
        LET last == held[reply.name][reply.value]
        IN  last # Never /\ (last = hour \/ hour - last < Ttl)
=============================================================================
