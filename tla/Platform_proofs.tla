--------------------------- MODULE Platform_proofs ---------------------------
(* Theorems about SignedRequests, SecretCache, Accounts, Roles, AuditLog and *)
(* Sockets, for any sets of actors and any spans of time.                    *)
EXTENDS Accounts, SignedRequests, SecretCache, Roles, AuditLog, Sockets,
        SequenceTheorems, FiniteSetTheorems, TLAPS

-----------------------------------------------------------------------------
(* SignedRequests.                                                          *)

\* A nonce accepted in time is remembered for as long as its timestamp is good.
NonceInv ==
    /\ tick \in Nat
    /\ stamp \in [Nonces -> Int]
    /\ expiry \in [Nonces -> Int]
    /\ accepted \in [Nonces -> Nat]
    /\ \A n \in Nonces : accepted[n] > 0 => stamp[n] # Unset
    /\ \A n \in Nonces \ early :
          /\ accepted[n] <= 1
          /\ accepted[n] = 1 =>
                \/ tick > stamp[n] + Tolerance
                \/ expiry[n] # Unset /\ expiry[n] >= stamp[n] + Tolerance

LEMMA WholeSeconds ==
    ASSUME NEW t \in Nat
    PROVE  t - (t % Second) \in Int
BY SignedRequestsAssumption

\* A process accepts a signed request at most once, whatever the tolerance and
\* the skew of the clocks, unless it arrives before its own timestamp
\* (verify_s2s_signature, _evict_expired_nonces).
THEOREM AcceptedOnceHolds == SignedSpec => []AcceptedOnce
<1>1. SignedInit => NonceInv
  BY DEF SignedInit, NonceInv, Unset
<1>2. NonceInv /\ [SignedNext]_signedVars => NonceInv'
  <2> SUFFICES ASSUME NonceInv, [SignedNext]_signedVars PROVE NonceInv'
    OBVIOUS
  <2> USE SignedRequestsAssumption DEF NonceInv
  <2>1. CASE PassTime
    BY <2>1 DEF PassTime
  <2>2. ASSUME NEW n \in Nonces, NEW ahead \in 0 .. Skew, SignRequest(n, ahead)
        PROVE  NonceInv'
    <3>1. tick + ahead - ((tick + ahead) % Second) \in Int
      BY WholeSeconds
    <3>2. accepted[n] = 0
      BY <2>2 DEF SignRequest
    <3> QED
      BY <2>2, <3>1, <3>2 DEF SignRequest
  <2>3. ASSUME NEW n \in Nonces, NEW intact \in BOOLEAN, Deliver(n, intact)
        PROVE  NonceInv'
    <3>1. /\ stamp[n] # Unset
          /\ tick - stamp[n] <= Tolerance /\ stamp[n] - tick <= Tolerance
          /\ UNCHANGED <<tick, stamp>>
      BY <2>3 DEF Deliver, InTime
    <3>2. expiry' \in [Nonces -> Int]
      BY <2>3 DEF Deliver, Unset
    <3>3. \A m \in Nonces : Remembered(m) => expiry'[m] = expiry[m]
      BY <2>3 DEF Deliver
    <3>4. ASSUME NEW m \in Nonces \ early, accepted[m] = 1
          PROVE  \/ tick > stamp[m] + Tolerance
                 \/ expiry'[m] # Unset /\ expiry'[m] >= stamp[m] + Tolerance
      <4>1. CASE Remembered(m)
        BY <3>3, <3>4, <4>1
      <4>2. CASE ~Remembered(m)
        BY <3>4, <4>2 DEF Remembered
      <4> QED
        BY <4>1, <4>2
    <3>5. CASE intact /\ ~Remembered(n)
      <4>1. /\ accepted' = [accepted EXCEPT ![n] = @ + 1]
            /\ early' = IF stamp[n] > tick THEN early \cup {n} ELSE early
            /\ expiry'[n] = tick + Tolerance
        BY <2>3, <3>5 DEF Deliver
      <4>2. n \notin early => accepted[n] = 0
        BY <3>1, <3>5 DEF Remembered
      <4>3. n \notin early' => expiry'[n] # Unset /\ expiry'[n] >= stamp[n] + Tolerance
        BY <4>1 DEF Unset
      <4> QED
        BY <3>1, <3>2, <3>4, <4>1, <4>2, <4>3
    <3>6. CASE ~(intact /\ ~Remembered(n))
      <4>1. UNCHANGED <<accepted, early>>
        BY <2>3, <3>6 DEF Deliver
      <4> QED
        BY <3>1, <3>2, <3>4, <4>1
    <3> QED
      BY <3>5, <3>6
  <2>4. CASE RestartVerifier
    BY <2>4 DEF RestartVerifier, Unset
  <2>5. CASE UNCHANGED signedVars
    BY <2>5 DEF signedVars
  <2> QED
    BY <2>1, <2>2, <2>3, <2>4, <2>5 DEF SignedNext
<1>3. NonceInv => AcceptedOnce
  BY DEF NonceInv, AcceptedOnce
<1> QED
  BY <1>1, <1>2, <1>3, PTL DEF SignedSpec

-----------------------------------------------------------------------------
(* SecretCache.                                                             *)

Held == Values \cup {Missing}

\* What is cached under a stamp was the value then, or later.
Since(k, v, at) == held[k][v] # Never /\ held[k][v] >= at

ClockInv ==
    /\ hour \in Nat
    /\ secret \in [Names -> Held]
    /\ held \in [Names -> [Held -> Nat \cup {Never}]]
    /\ \A k \in Names : held[k][secret[k]] = hour
    /\ \A k \in Names, v \in Held : held[k][v] <= hour

VaultInv ==
    /\ vault \in [Names -> [value : Held, at : Nat]]
    /\ \A k \in Names :
          vault[k].value # Missing => Since(k, vault[k].value, vault[k].at)

AwsInv ==
    /\ aws.at \in Nat
    /\ aws.data \in [Names -> Held]
    /\ aws.full => \A k \in Names : Since(k, aws.data[k], aws.at)

SecretInv == ClockInv /\ VaultInv /\ AwsInv /\ AnswersAreRecent

\* The moments at which a key had a value only move on.
LEMMA HeldMovesOn ==
    ASSUME ClockInv, NEW k \in Names, NEW v \in Held, NEW at \in Nat, Since(k, v, at),
           hour' \in Nat, hour' >= hour, held'[k][v] \in {held[k][v], hour'}
    PROVE  held'[k][v] # Never /\ held'[k][v] >= at
BY DEF ClockInv, Since, Never

\* No answer of a provider that caches is older than its ttl, for any secret,
\* any ttl and any order of reads and rotations (VaultSecretsProvider.get,
\* AWSSecretsManagerProvider._fetch_all).
THEOREM AnswersAreRecentHolds == SecretSpec => []AnswersAreRecent
<1>1. SecretInit => SecretInv
  <2> SUFFICES ASSUME SecretInit PROVE SecretInv
    OBVIOUS
  <2>1. ClockInv
    BY DEF SecretInit, ClockInv, Held, Never
  <2>2. VaultInv
    BY DEF SecretInit, VaultInv, Held
  <2>3. AwsInv
    BY DEF SecretInit, AwsInv, Held
  <2>4. AnswersAreRecent
    BY DEF SecretInit, AnswersAreRecent, NoReply
  <2> QED
    BY <2>1, <2>2, <2>3, <2>4 DEF SecretInv
<1>2. SecretInv /\ [SecretNext]_secretVars => SecretInv'
  <2> SUFFICES ASSUME SecretInv, [SecretNext]_secretVars PROVE SecretInv'
    OBVIOUS
  <2> USE SecretCacheAssumption
  <2>1. ASSUME ClockInv', hour' >= hour, UNCHANGED <<vault, aws>>, reply' = NoReply,
               \A k \in Names, v \in Held : held'[k][v] \in {held[k][v], hour'}
        PROVE  SecretInv'
    <3>1. hour' \in Nat
      BY <2>1 DEF ClockInv
    <3>2. VaultInv'
      BY <2>1, <3>1, HeldMovesOn DEF SecretInv, VaultInv, Since
    <3>3. AwsInv'
      BY <2>1, <3>1, HeldMovesOn DEF SecretInv, AwsInv, Since
    <3>4. AnswersAreRecent'
      BY <2>1 DEF AnswersAreRecent, NoReply
    <3> QED
      BY <2>1, <3>2, <3>3, <3>4 DEF SecretInv
  <2>2. CASE PassHour
    <3>1. ClockInv'
      BY <2>2 DEF PassHour, SecretInv, ClockInv, Held, Never
    <3>2. /\ hour' >= hour
          /\ \A k \in Names, v \in Held : held'[k][v] \in {held[k][v], hour'}
      BY <2>2 DEF PassHour, SecretInv, ClockInv
    <3> QED
      BY <2>1, <2>2, <3>1, <3>2 DEF PassHour
  <2>3. ASSUME NEW k \in Names, NEW v \in Held, Rotate(k, v) PROVE SecretInv'
    <3>1. ClockInv'
      BY <2>3 DEF Rotate, SecretInv, ClockInv, Never
    <3>2. /\ hour' >= hour
          /\ \A n \in Names, w \in Held : held'[n][w] \in {held[n][w], hour'}
      BY <2>3 DEF Rotate, SecretInv, ClockInv
    <3> QED
      BY <2>1, <2>3, <3>1, <3>2 DEF Rotate
  <2>4. ASSUME UNCHANGED <<hour, secret, held>>, VaultInv', AwsInv',
               NEW provider, NEW k \in Names, NEW v \in Held, Answer(provider, k, v),
               held[k][v] # Never,
               held[k][v] = hour \/ hour - held[k][v] < Ttl
        PROVE  SecretInv'
    <3>1. ClockInv'
      BY <2>4 DEF SecretInv, ClockInv
    <3>2. AnswersAreRecent'
      BY <2>4 DEF AnswersAreRecent, Answer
    <3> QED
      BY <2>4, <3>1, <3>2 DEF SecretInv
  <2>5. ASSUME NEW k \in Names, VaultHit(k) PROVE SecretInv'
    <3>1. VaultInv' /\ AwsInv'
      BY <2>5 DEF VaultHit, SecretInv, VaultInv, AwsInv, Since
    <3>2. /\ vault[k].value \in Held /\ vault[k].at \in Nat
          /\ Since(k, vault[k].value, vault[k].at)
          /\ hour - vault[k].at < Ttl
      BY <2>5 DEF VaultHit, VaultFresh, SecretInv, VaultInv
    <3>3. hour - held[k][vault[k].value] < Ttl
      BY <3>2 DEF SecretInv, ClockInv, Since
    <3> QED
      BY <2>4, <2>5, <3>1, <3>2, <3>3 DEF VaultHit, Since
  <2>6. ASSUME NEW k \in Names PROVE secret[k] \in Held /\ held[k][secret[k]] = hour /\ hour # Never
    BY DEF SecretInv, ClockInv, Never
  <2>7. ASSUME NEW k \in Names, VaultMiss(k) PROVE SecretInv'
    <3>1. \A n \in Names : vault'[n] = IF secret[n] = Missing THEN vault[n]
                                       ELSE [value |-> secret[n], at |-> hour]
      BY <2>7 DEF VaultMiss
    <3>2. vault' \in [Names -> [value : Held, at : Nat]]
      BY <2>7 DEF VaultMiss, SecretInv, ClockInv, VaultInv
    <3>3. \A n \in Names : Since(n, secret[n], hour)
      BY <2>6 DEF Since, SecretInv, ClockInv
    <3>4. VaultInv' /\ AwsInv'
      BY <2>7, <3>1, <3>2, <3>3 DEF VaultMiss, SecretInv, VaultInv, AwsInv, Since
    <3> QED
      BY <2>4, <2>6, <2>7, <3>4 DEF VaultMiss
  <2>8. ASSUME NEW k \in Names, AwsHit(k) PROVE SecretInv'
    <3>1. VaultInv' /\ AwsInv'
      BY <2>8 DEF AwsHit, SecretInv, VaultInv, AwsInv, Since
    <3>2. /\ aws.data[k] \in Held /\ aws.at \in Nat
          /\ Since(k, aws.data[k], aws.at)
          /\ hour - aws.at < Ttl
      BY <2>8 DEF AwsHit, AwsFresh, SecretInv, AwsInv
    <3>3. hour - held[k][aws.data[k]] < Ttl
      BY <3>2 DEF SecretInv, ClockInv, Since
    <3> QED
      BY <2>4, <2>8, <3>1, <3>2, <3>3 DEF AwsHit, Since
  <2>9. ASSUME NEW k \in Names, AwsMiss(k) PROVE SecretInv'
    <3>1. \A n \in Names : Since(n, secret[n], hour)
      BY <2>6 DEF Since, SecretInv, ClockInv
    <3>2. AwsInv'
      BY <2>9, <3>1 DEF AwsMiss, SecretInv, ClockInv, AwsInv, Since
    <3>3. VaultInv'
      BY <2>9 DEF AwsMiss, SecretInv, VaultInv, Since
    <3> QED
      BY <2>4, <2>6, <2>9, <3>2, <3>3 DEF AwsMiss
  <2>10. CASE UNCHANGED secretVars
    BY <2>10 DEF secretVars, SecretInv, ClockInv, VaultInv, AwsInv, Since, AnswersAreRecent
  <2> QED
    BY <2>2, <2>3, <2>5, <2>7, <2>8, <2>9, <2>10 DEF SecretNext, Held
<1>3. SecretInv => AnswersAreRecent
  BY DEF SecretInv
<1> QED
  BY <1>1, <1>2, <1>3, PTL DEF SecretSpec

-----------------------------------------------------------------------------
(* Accounts: types.                                                         *)

\* The fields of a request, one at a time.
LEMMA RequestFields ==
    ASSUME NEW x \in Requested
    PROVE  /\ x.op \in Ops /\ x.user \in Users \cup {None}
           /\ x.mail \in Addresses /\ x.seen \in Addresses
           /\ x.ident \in Identities \cup {None}
BY DEF Requested

LEMMA RequestSet ==
    ASSUME NEW x \in Requested
    PROVE  /\ \A op \in Ops : [x EXCEPT !.op = op] \in Requested
           /\ \A u \in Users \cup {None} : [x EXCEPT !.user = u] \in Requested
           /\ \A e \in Addresses : [x EXCEPT !.mail = e] \in Requested
           /\ \A e \in Addresses : [x EXCEPT !.seen = e] \in Requested
           /\ \A i \in Identities \cup {None} : [x EXCEPT !.ident = i] \in Requested
<1>1. \A op \in Ops : [x EXCEPT !.op = op] \in Requested
  BY DEF Requested
<1>2. \A u \in Users \cup {None} : [x EXCEPT !.user = u] \in Requested
  BY DEF Requested
<1>3. \A e \in Addresses : [x EXCEPT !.mail = e] \in Requested
  BY DEF Requested
<1>4. \A e \in Addresses : [x EXCEPT !.seen = e] \in Requested
  BY DEF Requested
<1>5. \A i \in Identities \cup {None} : [x EXCEPT !.ident = i] \in Requested
  BY DEF Requested
<1> QED
  BY <1>1, <1>2, <1>3, <1>4, <1>5

LEMMA IdleType == Idle \in Requested
BY DEF Idle, Requested, Ops, Addresses

LEMMA OpsMembers ==
    /\ "idle" \in Ops /\ "registering" \in Ops /\ "inserting" \in Ops /\ "updating" \in Ops
    /\ "deleting" \in Ops /\ "logging" \in Ops /\ "rekeying" \in Ops /\ "tokened" \in Ops
    /\ "resetting" \in Ops /\ "erasing" \in Ops /\ "issuing" \in Ops /\ "linked" \in Ops
    /\ "matching" \in Ops /\ "linking" \in Ops /\ "provisioning" \in Ops
BY DEF Ops

\* Every operation in progress on a row has a user, every callback an identity.
ReqInv ==
    \A r \in Requests :
       /\ req[r].op \in {"registering", "inserting"} => req[r].user \in Ids
       /\ req[r].op \notin {"idle", "logging", "matching"} => req[r].user \in Users
       /\ req[r].op \in {"linked", "matching", "linking", "provisioning"} =>
             req[r].ident \in Identities

IdInv == TypeOK /\ ReqInv

LEMMA AccountsTypes == Spec => []IdInv
<1>1. Init => IdInv
  BY IdleType DEF Init, IdInv, TypeOK, ReqInv, Idle, Addresses
<1>2. IdInv /\ [Next]_vars => IdInv'
  <2> SUFFICES ASSUME IdInv, [Next]_vars PROVE IdInv'
    OBVIOUS
  <2> DEFINE Fits(x) ==
        /\ x \in Requested
        /\ x.op \in {"registering", "inserting"} => x.user \in Ids
        /\ x.op \notin {"idle", "logging", "matching"} => x.user \in Users
        /\ x.op \in {"linked", "matching", "linking", "provisioning"} => x.ident \in Identities
      Rows == /\ status \in [Users -> {"none", "live", "deleted"}]
              /\ email \in [Users -> Addresses] /\ password \in [Users -> {"random", "chosen"}]
              /\ link \in [Identities -> Users \cup {None}]
              /\ belongs \subseteq Users /\ minted \subseteq Uuids
      History == /\ unasked \subseteq Users /\ home \in [Identities -> Users \cup {None}]
                 /\ raced \subseteq Users /\ contended \subseteq Users /\ scrubbed \subseteq Users
                 /\ asked \in [Users -> Addresses]
  <2>0. Rows /\ History /\ \A r \in Requests : Fits(req[r])
    BY DEF IdInv, TypeOK, ReqInv
  <2>1. ASSUME NEW r \in Requests, NEW x, Fits(x), req' = [req EXCEPT ![r] = x], Rows', History'
        PROVE  IdInv'
    <3>1. req \in [Requests -> Requested]
      BY DEF IdInv, TypeOK
    <3>2. \A q \in Requests : Fits(req'[q])
      BY <2>0, <2>1, <3>1
    <3> QED
      BY <2>1, <3>1, <3>2 DEF IdInv, TypeOK, ReqInv
  <2>2. /\ Fits(Idle)
        /\ Fits([Idle EXCEPT !.op = "logging"])
        /\ \A op \in Ops \ {"registering", "inserting", "linked", "matching", "linking",
                           "provisioning"}, u \in Users :
              /\ Fits([Idle EXCEPT !.op = op, !.user = u])
              /\ \A e, f \in Addresses :
                    Fits([Idle EXCEPT !.op = op, !.user = u, !.mail = e, !.seen = f])
    <3>1. Fits(Idle)
      BY IdleType DEF Idle
    <3>2. Fits([Idle EXCEPT !.op = "logging"])
      BY IdleType, RequestSet, OpsMembers DEF Idle
    <3>3. ASSUME NEW op \in Ops \ {"registering", "inserting", "linked", "matching", "linking",
                                   "provisioning"}, NEW u \in Users
          PROVE  /\ Fits([Idle EXCEPT !.op = op, !.user = u])
                 /\ \A e, f \in Addresses :
                       Fits([Idle EXCEPT !.op = op, !.user = u, !.mail = e, !.seen = f])
      <4>1. /\ [Idle EXCEPT !.op = op, !.user = u] \in Requested
            /\ \A e, f \in Addresses :
                  [Idle EXCEPT !.op = op, !.user = u, !.mail = e, !.seen = f] \in Requested
        BY IdleType, RequestSet
      <4> QED
        BY <4>1 DEF Idle
    <3> QED
      BY <3>1, <3>2, <3>3
  <2> HIDE DEF Fits, Rows, History
  <2>3. ASSUME UNCHANGED <<rows, history>> PROVE Rows' /\ History'
    BY <2>0, <2>3 DEF Rows, History, rows, history
  <2>4. ASSUME NEW r \in Requests, End(r) \/ GoLog(r), Rows', History' PROVE IdInv'
    BY <2>1, <2>2, <2>4 DEF End, GoLog
  <2>5. ASSUME NEW r \in Requests, NEW u \in Users,
               NEW op \in {"deleting", "tokened", "erasing", "issuing"}, Begin(r, op, u),
               UNCHANGED <<rows, history>>
        PROVE  IdInv'
    BY <2>1, <2>2, <2>3, <2>5, OpsMembers DEF Begin
  <2>6. ASSUME NEW r \in Requests, NEW u \in Users, NEW e \in Addresses,
               NEW op \in {"updating", "rekeying"}, BeginOnRow(r, op, u, e), Rows', History'
        PROVE  IdInv'
    <3>1. email[u] \in Addresses
      BY <2>0 DEF Rows
    <3> QED
      BY <2>1, <2>2, <2>6, <3>1, OpsMembers DEF BeginOnRow
  <2>7. ASSUME NEW r \in Requests PROVE req[r] \in Requested /\ Fits(req[r])
    BY <2>0 DEF Fits
  <2>8. Hidden \in Addresses /\ Emails \subseteq Addresses
    BY DEF Addresses
  <2>9. ASSUME NEW r \in Requests, PostUser(r) PROVE IdInv'
    <3>1. PICK u \in Ids, e \in Emails : BeginRegister(r, u, e)
      BY <2>9 DEF PostUser
    <3> DEFINE x == [Idle EXCEPT !.op = "registering", !.user = u, !.mail = e]
    <3>2. Fits(x)
      BY IdleType, RequestSet, OpsMembers, <2>8 DEF Idle, Users, Fits
    <3>3. req' = [req EXCEPT ![r] = x] /\ UNCHANGED <<rows, history>>
      BY <3>1 DEF BeginRegister
    <3> HIDE DEF x
    <3> QED
      BY <2>1, <2>3, <3>2, <3>3
  <2>10. ASSUME NEW r \in Requests, NEW op \in Ops, NEW e \in Addresses,
                req[r].op \in {"registering", "tokened"},
                req[r].op = "registering" => op = "inserting",
                req[r].op = "tokened" => op = "resetting",
                req' = [req EXCEPT ![r].op = op, ![r].seen = e], UNCHANGED <<rows, history>>
         PROVE  IdInv'
    <3> DEFINE x == [req[r] EXCEPT !.op = op, !.seen = e]
    <3>1. x \in Requested
      BY <2>7, RequestSet
    <3>2. Fits(x)
      BY <2>7, <2>10, <3>1, RequestFields DEF Fits, Users
    <3>3. req' = [req EXCEPT ![r] = x]
      BY <2>10
    <3> HIDE DEF x
    <3> QED
      BY <2>1, <2>3, <2>10, <3>2, <3>3
  <2>11. ASSUME NEW r \in Requests, CheckEmail(r) PROVE IdInv'
    <3>1. Found(r) \in Addresses
      BY <2>7, <2>8, RequestFields DEF Found
    <3> QED
      BY <2>3, <2>4, <2>10, <2>11, <3>1, OpsMembers DEF CheckEmail
  <2>12. ASSUME NEW r \in Requests, BeginReset(r) PROVE IdInv'
    <3>1. email[req[r].user] \in Addresses
      BY <2>0, <2>7, <2>12 DEF BeginReset, Rows, Fits
    <3> QED
      BY <2>10, <2>12, <3>1, OpsMembers DEF BeginReset
  <2>13. ASSUME NEW r \in Requests, req[r].user \in Users, NEW p \in {"random", "chosen"},
                NewRow(r, p)
         PROVE  /\ status' \in [Users -> {"none", "live", "deleted"}]
                /\ email' \in [Users -> Addresses] /\ password' \in [Users -> {"random", "chosen"}]
                /\ unasked' \subseteq Users /\ contended' \subseteq Users
                /\ asked' \in [Users -> Addresses]
    BY <2>0, <2>7, <2>13, RequestFields DEF NewRow, Contend, Rows, History
  <2>14. ASSUME NEW r \in Requests, InsertUser(r) PROVE IdInv'
    <3>1. req[r].user \in Users
      BY <2>7, <2>14 DEF InsertUser, Fits, Users
    <3>2. Rows' /\ History'
      BY <2>0, <2>13, <2>14, <3>1 DEF InsertUser, Rows, History
    <3> QED
      BY <2>4, <2>14, <3>2 DEF InsertUser
  <2>15. ASSUME NEW r \in Requests, NEW u \in Users, NEW e \in Emails, BeginUpdate(r, u, e)
         PROVE  IdInv'
    <3>1. Rows' /\ History'
      BY <2>0, <2>15 DEF BeginUpdate, Contend, rows, Rows, History
    <3> QED
      BY <2>6, <2>8, <2>15, <3>1 DEF BeginUpdate
  <2>16. ASSUME NEW r \in Requests, CommitUpdate(r) PROVE IdInv'
    <3>1. req[r].user \in Users /\ req[r].mail \in Addresses
      BY <2>7, <2>16, RequestFields DEF CommitUpdate, Fits
    <3>2. Rows'
      BY <2>0, <2>16, <3>1 DEF CommitUpdate, Rows
    <3>3. History'
      BY <2>0, <2>16, <3>1, <3>2 DEF CommitUpdate, History, Rows
    <3> QED
      BY <2>4, <2>16, <3>2, <3>3 DEF CommitUpdate
  <2>17. ASSUME NEW r \in Requests, NEW u \in Users,
                BeginRekey(r, u) \/ BeginDelete(r, u) \/ RequestReset(r, u)
                \/ BeginIssue(r, u) \/ RequestErasure(r, u)
         PROVE  IdInv'
    BY <2>3, <2>5, <2>6, <2>8, <2>17
    DEF BeginRekey, BeginDelete, RequestReset, BeginIssue, RequestErasure, BeginErase
  <2>18. ASSUME NEW r \in Requests, CommitDelete(r) \/ Log(r) \/ CommitPassword(r)
                                   \/ CommitErase(r) \/ CommitIssue(r) \/ Die(r)
         PROVE  IdInv'
    <3>1. req[r].op \in {"deleting", "rekeying", "resetting", "erasing", "issuing"}
             => req[r].user \in Users
      BY <2>7 DEF Fits
    <3>2. Rows'
      BY <2>0, <2>3, <2>8, <2>18, <3>1
      DEF CommitDelete, Log, CommitPassword, SetPassword, CommitErase, DeleteRows, CommitIssue,
          Die, Rows, history
    <3>3. History'
      BY <2>0, <2>3, <2>8, <2>18, <3>1
      DEF CommitDelete, Log, CommitPassword, CommitErase, CommitIssue, Die, History, history
    <3> QED
      BY <2>4, <2>18, <3>2, <3>3
      DEF CommitDelete, Log, CommitPassword, CommitErase, CommitIssue, Die
  <2>19. ASSUME NEW u \in Users, RequestPseudonym(u) PROVE IdInv'
    <3>1. Rows' /\ History'
      BY <2>0, <2>8, <2>19 DEF RequestPseudonym, Pseudonymize, Contend, Rows, History
    <3> QED
      BY <2>0, <2>19, <3>1
      DEF RequestPseudonym, Pseudonymize, IdInv, TypeOK, ReqInv, Rows, History
  <2>20. ASSUME NEW r \in Requests, Callback(r) PROVE IdInv'
    <3>1. PICK i \in Identities, e \in Emails : BeginCallback(r, i, e)
      BY <2>20 DEF Callback, Answers
    <3> DEFINE op == IF link[i] = None THEN "matching" ELSE "linked"
               x == [Idle EXCEPT !.op = op, !.user = link[i], !.mail = e, !.ident = i]
    <3>2. link[i] \in Users \cup {None} /\ op \in Ops
      BY <2>0, OpsMembers DEF Rows
    <3>3. x \in Requested
      BY <2>8, <3>2, IdleType, RequestSet
    <3>4. Fits(x)
      BY <3>2, <3>3 DEF Fits, Idle
    <3>5. req' = [req EXCEPT ![r] = x] /\ UNCHANGED <<rows, history>>
      BY <3>1 DEF BeginCallback
    <3> HIDE DEF x
    <3> QED
      BY <2>1, <2>3, <3>4, <3>5
  <2>21. ASSUME NEW r \in Requests, NEW u \in Users, SignIn(r, u), req[r].ident \in Identities
         PROVE  home' \in [Identities -> Users \cup {None}]
    BY <2>0, <2>21 DEF SignIn, History
  <2>22. ASSUME NEW r \in Requests, FindLinked(r) PROVE IdInv'
    <3>1. req[r].user \in Users /\ req[r].ident \in Identities
      BY <2>7, <2>22 DEF FindLinked, Fits
    <3>2. Rows' /\ History'
      BY <2>0, <2>21, <2>22, <3>1 DEF FindLinked, rows, Rows, History
    <3> DEFINE x == [req[r] EXCEPT !.op = "matching"]
    <3>3. x \in Requested
      BY <2>7, RequestSet, OpsMembers
    <3>4. Fits(x)
      BY <2>7, <3>1, <3>3, RequestFields DEF Fits
    <3>5. End(r) \/ req' = [req EXCEPT ![r] = x]
      BY <2>22 DEF FindLinked, Become
    <3> HIDE DEF x
    <3> QED
      BY <2>1, <2>4, <3>2, <3>4, <3>5
  <2>23. ASSUME NEW r \in Requests, NEW u \in Users, MatchByEmail(r, u) PROVE IdInv'
    <3> DEFINE x == [req[r] EXCEPT !.op = "linking", !.user = u]
    <3>1. x \in Requested
      BY <2>7, RequestSet, OpsMembers
    <3>2. Fits(x)
      BY <2>7, <2>23, <3>1, RequestFields DEF MatchByEmail, Fits
    <3>3. req' = [req EXCEPT ![r] = x] /\ UNCHANGED <<rows, history>>
      BY <2>23 DEF MatchByEmail
    <3> HIDE DEF x
    <3> QED
      BY <2>1, <2>3, <3>2, <3>3
  <2>24. ASSUME NEW r \in Requests, NEW u \in Users, MatchNobody(r, u) PROVE IdInv'
    <3> DEFINE x == [req[r] EXCEPT !.op = "provisioning", !.user = u, !.seen = Found(r)]
    <3>1. Found(r) \in Addresses
      BY <2>7, <2>8, RequestFields DEF Found
    <3>2. x \in Requested
      BY <2>7, <3>1, RequestSet, OpsMembers
    <3>3. Fits(x)
      BY <2>7, <2>24, <3>2, RequestFields DEF MatchNobody, Fits
    <3>4. req' = [req EXCEPT ![r] = x]
      BY <2>24 DEF MatchNobody
    <3>5. Rows' /\ History'
      BY <2>0, <2>24 DEF MatchNobody, history, Rows, History
    <3> HIDE DEF x
    <3> QED
      BY <2>1, <3>3, <3>4, <3>5
  <2>25. ASSUME NEW r \in Requests, CommitLink(r) PROVE IdInv'
    <3>1. req[r].user \in Users /\ req[r].ident \in Identities
      BY <2>7, <2>25 DEF CommitLink, Fits
    <3>2. AddUser(r) /\ End(r) /\ UNCHANGED <<belongs, minted, raced, scrubbed>>
      BY <2>25 DEF CommitLink
    <3>3. /\ status' \in [Users -> {"none", "live", "deleted"}]
          /\ email' \in [Users -> Addresses] /\ password' \in [Users -> {"random", "chosen"}]
          /\ unasked' \subseteq Users /\ contended' \subseteq Users
          /\ asked' \in [Users -> Addresses]
      BY <2>0, <2>13, <3>1, <3>2 DEF AddUser, Rows, History
    <3>4. link' \in [Identities -> Users \cup {None}]
      BY <2>0, <2>25, <3>1 DEF CommitLink, Rows
    <3>5. home' \in [Identities -> Users \cup {None}]
      BY <2>0, <2>21, <2>25, <3>1 DEF CommitLink, History
    <3>6. Rows' /\ History'
      BY <2>0, <3>2, <3>3, <3>4, <3>5 DEF Rows, History
    <3> QED
      BY <2>4, <3>2, <3>6
  <2>26. CASE UNCHANGED vars
    BY <2>26 DEF vars, rows, history, IdInv, TypeOK, ReqInv
  <2> QED
    BY <2>9, <2>11, <2>12, <2>14, <2>15, <2>16, <2>17, <2>18, <2>19, <2>20, <2>22, <2>23,
       <2>24, <2>25, <2>26 DEF Next, Handle
<1> QED
  BY <1>1, <1>2, PTL DEF Spec

\* What a step does to the other requests, and to the one that makes it.
Becomes(r, ops) ==
    /\ \A q \in Requests \ {r} : req'[q] = req[q]
    /\ req'[r].op \in ops

\* The steps that read, and those whose commit these theorems do not mind.
Reads(r) ==
    \/ PostUser(r) \/ Log(r) \/ Die(r) \/ BeginReset(r)
    \/ \E u \in Users : \/ BeginRekey(r, u) \/ BeginDelete(r, u) \/ RequestReset(r, u)
                        \/ RequestErasure(r, u)

LEMMA ReadsStep ==
    ASSUME IdInv, NEW r \in Requests, Reads(r)
    PROVE  /\ UNCHANGED <<rows, history>>
           /\ Becomes(r, {"idle", "registering", "resetting", "rekeying", "deleting",
                          "tokened", "erasing"})
<1> USE DEF IdInv, TypeOK, Becomes, Idle
<1>1. CASE PostUser(r)
  BY <1>1 DEF PostUser, BeginRegister
<1>2. CASE Log(r) \/ Die(r)
  BY <1>2 DEF Log, Die, End
<1>3. CASE BeginReset(r)
  BY <1>3, RequestFields DEF BeginReset, Requested
<1>4. ASSUME NEW u \in Users, BeginRekey(r, u) \/ BeginDelete(r, u) \/ RequestReset(r, u)
                              \/ RequestErasure(r, u)
      PROVE  /\ UNCHANGED <<rows, history>>
             /\ Becomes(r, {"idle", "registering", "resetting", "rekeying", "deleting",
                            "tokened", "erasing"})
  BY <1>4 DEF BeginRekey, BeginDelete, RequestReset, RequestErasure, BeginErase, Begin, BeginOnRow
<1> QED
  BY <1>1, <1>2, <1>3, <1>4 DEF Reads

LEMMA Ends ==
    ASSUME IdInv, NEW r \in Requests, End(r) \/ GoLog(r)
    PROVE  Becomes(r, {"idle", "logging"})
BY DEF IdInv, TypeOK, Becomes, Idle, End, GoLog

-----------------------------------------------------------------------------
(* An id that uuid4 has made is provisioned once.                           *)

FreshInv ==
    /\ \A u \in Uuids : Exists(u) => u \in minted
    /\ \A r \in Doing({"provisioning"}) : req[r].user \in minted /\ ~Exists(req[r].user)
    /\ \A q, r \in Doing({"provisioning"}) : req[q].user = req[r].user => q = r

LEMMA UuidsAreFresh == Spec => []FreshInv
<1>1. Init => FreshInv
  BY DEF Init, FreshInv, Exists, Doing, Idle, Users
<1>2. IdInv /\ FreshInv /\ [Next]_vars => FreshInv'
  <2> SUFFICES ASSUME IdInv, FreshInv, [Next]_vars PROVE FreshInv'
    OBVIOUS
  <2>1. ASSUME NEW r \in Requests, Becomes(r, Ops \ {"provisioning"}), minted' = minted,
               \A u \in Uuids : status'[u] # "none" => status[u] # "none"
        PROVE  FreshInv'
    BY <2>1 DEF IdInv, TypeOK, Becomes, FreshInv, Exists, Doing
  <2>2. ASSUME NEW r \in Requests, Reads(r) PROVE FreshInv'
    BY <2>1, <2>2, ReadsStep, OpsMembers DEF rows, Becomes
  <2>3. ASSUME NEW r \in Requests, End(r) \/ GoLog(r) PROVE Becomes(r, Ops \ {"provisioning"})
    BY <2>3, Ends, OpsMembers DEF Becomes
  <2>4. ASSUME NEW r \in Requests, CheckEmail(r) PROVE FreshInv'
    BY <2>1, <2>3, <2>4, OpsMembers DEF CheckEmail, rows, IdInv, TypeOK, Requested, Becomes
  <2>5. ASSUME NEW r \in Requests, InsertUser(r) PROVE FreshInv'
    <3>1. req[r].user \notin Uuids
      BY <2>5, AccountsAssumption DEF InsertUser, IdInv, ReqInv
    <3>2. \A u \in Uuids : status'[u] # "none" => status[u] # "none"
      BY <2>5, <3>1 DEF InsertUser, NewRow, IdInv, TypeOK, Users
    <3> QED
      BY <2>1, <2>3, <2>5, <3>2 DEF InsertUser
  <2>6. ASSUME NEW r \in Requests, CommitUpdate(r) \/ CommitPassword(r) \/ CommitIssue(r)
        PROVE  FreshInv'
    BY <2>1, <2>3, <2>6 DEF CommitUpdate, CommitPassword, CommitIssue
  <2>7. ASSUME NEW r \in Requests, CommitDelete(r) \/ CommitErase(r) PROVE FreshInv'
    <3>1. \A u \in Uuids : status'[u] # "none" => status[u] # "none"
      BY <2>7 DEF CommitDelete, CommitErase, DeleteRows, Exists, IdInv, TypeOK, Users
    <3> QED
      BY <2>1, <2>3, <2>7, <3>1 DEF CommitDelete, CommitErase
  <2>8. ASSUME NEW u \in Users, RequestPseudonym(u) PROVE FreshInv'
    BY <2>8 DEF RequestPseudonym, Pseudonymize, IdInv, TypeOK, FreshInv, Exists, Doing, Users
  <2>9. ASSUME NEW r \in Requests, NEW u \in Users,
               BeginIssue(r, u) \/ \E e \in Emails : BeginUpdate(r, u, e)
        PROVE  FreshInv'
    <3>1. CASE BeginIssue(r, u)
      BY <2>1, <3>1, OpsMembers DEF BeginIssue, Begin, rows, IdInv, TypeOK, Becomes, Idle
    <3>2. CASE \E e \in Emails : BeginUpdate(r, u, e)
      BY <2>1, <3>2, OpsMembers DEF BeginUpdate, BeginOnRow, rows, IdInv, TypeOK, Becomes, Idle
    <3> QED
      BY <2>9, <3>1, <3>2
  <2>10. ASSUME NEW r \in Requests, Callback(r) \/ FindLinked(r) PROVE FreshInv'
    <3>1. CASE Callback(r)
      BY <2>1, <3>1, OpsMembers
      DEF Callback, Answers, BeginCallback, rows, IdInv, TypeOK, Becomes, Idle
    <3>2. CASE FindLinked(r)
      BY <2>1, <2>3, <3>2, OpsMembers
      DEF FindLinked, Become, rows, IdInv, TypeOK, Requested, Becomes
    <3> QED
      BY <2>10, <3>1, <3>2
  <2>11. ASSUME NEW r \in Requests, NEW u \in Users, MatchByEmail(r, u) PROVE FreshInv'
    BY <2>1, <2>11, OpsMembers DEF MatchByEmail, rows, IdInv, TypeOK, Requested, Becomes
  <2>12. ASSUME NEW r \in Requests, NEW u \in Users, MatchNobody(r, u) PROVE FreshInv'
    <3>1. /\ \A q \in Requests \ {r} : req'[q] = req[q]
          /\ req'[r].user = u
      BY <2>12 DEF MatchNobody, IdInv, TypeOK, Requested
    <3>2. u \in Uuids \ minted /\ minted' = minted \cup {u} /\ status' = status
      BY <2>12 DEF MatchNobody
    <3> QED
      BY <3>1, <3>2 DEF FreshInv, Exists, Doing
  <2>13. ASSUME NEW r \in Requests, CommitLink(r) PROVE FreshInv'
    <3>1. Becomes(r, {"idle", "logging"}) /\ minted' = minted
      BY <2>13, Ends DEF CommitLink
    <3>2. \/ status' = status
          \/ req[r].op = "provisioning" /\ status' = [status EXCEPT ![req[r].user] = "live"]
      BY <2>13 DEF CommitLink, AddUser, NewRow
    <3> QED
      BY <3>1, <3>2 DEF IdInv, TypeOK, Becomes, FreshInv, Exists, Doing, Users
  <2>14. CASE UNCHANGED vars
    BY <2>14 DEF vars, rows, FreshInv, Exists, Doing
  <2> QED
    BY <2>2, <2>4, <2>5, <2>6, <2>7, <2>8, <2>9, <2>10, <2>11, <2>12, <2>13, <2>14
    DEF Next, Handle, Reads
<1> QED
  BY <1>1, <1>2, AccountsTypes, PTL DEF Spec

-----------------------------------------------------------------------------
(* Addresses.                                                               *)

\* The steps that change no row of users but its password, and do not start
\* or carry out a change of the address.
Steady(r) ==
    \/ Reads(r) \/ CheckEmail(r) \/ CommitPassword(r) \/ CommitIssue(r)
    \/ Callback(r) \/ FindLinked(r)
    \/ \E u \in Users : BeginIssue(r, u) \/ MatchByEmail(r, u) \/ MatchNobody(r, u)

LEMMA SteadyStep ==
    ASSUME IdInv, NEW r \in Requests, Steady(r)
    PROVE  /\ UNCHANGED <<status, email, unasked, asked, contended, scrubbed>>
           /\ Becomes(r, Ops \ {"updating"})
<1> USE OpsMembers DEF IdInv, TypeOK, Becomes, rows, history
<1>1. CASE Reads(r)
  BY <1>1, ReadsStep
<1>2. CASE CheckEmail(r)
  BY <1>2, Ends DEF CheckEmail, Requested
<1>3. CASE CommitPassword(r) \/ CommitIssue(r)
  BY <1>3, Ends DEF CommitPassword, SetPassword, CommitIssue
<1>4. CASE Callback(r)
  BY <1>4 DEF Callback, Answers, BeginCallback, Idle
<1>5. CASE FindLinked(r)
  BY <1>5, Ends DEF FindLinked, Become, Requested
<1>6. ASSUME NEW u \in Users, BeginIssue(r, u) \/ MatchByEmail(r, u) \/ MatchNobody(r, u)
      PROVE  /\ UNCHANGED <<status, email, unasked, asked, contended, scrubbed>>
             /\ Becomes(r, Ops \ {"updating"})
  <2>1. CASE BeginIssue(r, u)
    BY <2>1 DEF BeginIssue, Begin, Idle
  <2>2. CASE MatchByEmail(r, u)
    BY <2>2 DEF MatchByEmail, Requested
  <2>3. CASE MatchNobody(r, u)
    BY <2>3 DEF MatchNobody, Requested
  <2> QED
    BY <1>6, <2>1, <2>2, <2>3
<1> QED
  BY <1>1, <1>2, <1>3, <1>4, <1>5, <1>6 DEF Steady

\* A new account, by either way: where CommitLink makes none it changes no
\* address.
Makes(r, p) == NewRow(r, p) /\ ~Exists(req[r].user)

LEMMA NewAccount ==
    ASSUME IdInv, FreshInv, NEW r \in Requests, InsertUser(r) \/ CommitLink(r)
    PROVE  /\ Becomes(r, {"idle", "logging"})
           /\ req[r].op \in {"inserting", "linking", "provisioning"}
           /\ req[r].user \in Users /\ req[r].mail \in Addresses
           /\ scrubbed' = scrubbed /\ raced' = raced /\ belongs' = belongs
           /\ \/ /\ UNCHANGED <<status, email, password, unasked, asked, contended>>
                 /\ req[r].op = "provisioning" => ~LinkIsFree(req[r].ident)
              \/ Makes(r, "chosen") /\ req[r].op = "inserting"
              \/ Makes(r, "random") /\ req[r].op = "provisioning" /\ LinkIsFree(req[r].ident)
<1>1. req[r].op \in {"inserting", "linking", "provisioning"}
  BY DEF InsertUser, CommitLink
<1>2. req[r].user \in Users /\ req[r].mail \in Addresses
  BY <1>1, RequestFields DEF IdInv, TypeOK, ReqInv
<1>3. CASE InsertUser(r)
  BY <1>1, <1>2, <1>3, Ends DEF InsertUser, Makes
<1>4. CASE CommitLink(r)
  <2>1. req[r].op = "provisioning" => ~Exists(req[r].user)
    BY DEF FreshInv, Doing
  <2> QED
    BY <1>1, <1>2, <1>4, <2>1, Ends DEF CommitLink, AddUser, Makes
<1> QED
  BY <1>3, <1>4

ScrubbedInv ==
    \A u \in scrubbed : /\ status[u] = "deleted" /\ email[u] = Hidden
                        /\ \A r \in Requests : req[r].op = "updating" => req[r].user # u

\* A pseudonymised account stays so: no later request, and none that was not
\* already changing its address, puts personal data back (pseudonymize_user,
\* update_user, create_user, get_or_create_oauth_user).
THEOREM ScrubbedStaysHolds == Spec => []ScrubbedStays
<1>1. Init => ScrubbedInv
  BY DEF Init, ScrubbedInv
<1>2. IdInv /\ FreshInv /\ ScrubbedInv /\ [Next]_vars => ScrubbedInv'
  <2> SUFFICES ASSUME IdInv, FreshInv, ScrubbedInv, [Next]_vars PROVE ScrubbedInv'
    OBVIOUS
  <2> USE DEF ScrubbedInv
  <2>0. scrubbed \subseteq Users
    BY DEF IdInv, TypeOK
  <2>1. ASSUME NEW r \in Requests, Becomes(r, Ops \ {"updating"}),
               scrubbed' \subseteq scrubbed,
               \A u \in scrubbed' : status'[u] = "deleted" /\ email'[u] = Hidden
        PROVE  ScrubbedInv'
    BY <2>1 DEF Becomes
  <2>2. ASSUME NEW r \in Requests, Steady(r) PROVE ScrubbedInv'
    BY <2>1, <2>2, SteadyStep
  <2>3. ASSUME NEW r \in Requests, End(r) \/ GoLog(r) PROVE Becomes(r, Ops \ {"updating"})
    BY <2>3, Ends, OpsMembers DEF Becomes
  <2>4. ASSUME NEW r \in Requests, InsertUser(r) \/ CommitLink(r) PROVE ScrubbedInv'
    <3>1. \A u \in scrubbed' : status'[u] = "deleted" /\ email'[u] = Hidden
      BY <2>0, <2>4, NewAccount DEF Makes, NewRow, Exists, IdInv, TypeOK
    <3>2. Becomes(r, Ops \ {"updating"}) /\ scrubbed' = scrubbed
      BY <2>4, NewAccount, OpsMembers DEF Becomes
    <3> QED
      BY <2>1, <3>1, <3>2
  <2>5. ASSUME NEW r \in Requests, NEW u \in Users, NEW e \in Emails, BeginUpdate(r, u, e)
        PROVE  ScrubbedInv'
    <3>1. u \notin scrubbed
      BY <2>5 DEF BeginUpdate, Live
    <3>2. /\ \A q \in Requests \ {r} : req'[q] = req[q]
          /\ req'[r].user = u
          /\ UNCHANGED <<status, email, scrubbed>>
      BY <2>5 DEF BeginUpdate, BeginOnRow, Idle, rows, IdInv, TypeOK
    <3> QED
      BY <3>1, <3>2
  <2>6. ASSUME NEW r \in Requests, CommitUpdate(r) PROVE ScrubbedInv'
    <3>1. req[r].user \notin scrubbed
      BY <2>6 DEF CommitUpdate
    <3>2. \A u \in scrubbed : email'[u] = email[u]
      BY <2>0, <2>6, <3>1 DEF CommitUpdate, IdInv, TypeOK
    <3> QED
      BY <2>1, <2>3, <2>6, <3>2 DEF CommitUpdate
  <2>7. ASSUME NEW r \in Requests, CommitDelete(r) PROVE ScrubbedInv'
    <3>1. \A u \in scrubbed : status'[u] = "deleted"
      BY <2>0, <2>7 DEF CommitDelete, IdInv, TypeOK
    <3> QED
      BY <2>1, <2>3, <2>7, <3>1 DEF CommitDelete
  <2>8. ASSUME NEW r \in Requests, CommitErase(r) PROVE ScrubbedInv'
    <3>1. \A u \in scrubbed' : status'[u] = "deleted" /\ email'[u] = Hidden
      BY <2>0, <2>8 DEF CommitErase, DeleteRows, IdInv, TypeOK
    <3> QED
      BY <2>1, <2>3, <2>8, <3>1 DEF CommitErase
  <2>9. ASSUME NEW u \in Users, RequestPseudonym(u) PROVE ScrubbedInv'
    <3>1. /\ req' = req
          /\ \A v \in scrubbed' : status'[v] = "deleted" /\ email'[v] = Hidden
      BY <2>0, <2>9 DEF RequestPseudonym, Pseudonymize, IdInv, TypeOK
    <3>2. \A v \in scrubbed', r \in Requests : req[r].op = "updating" => req[r].user # v
      BY <2>0, <2>9 DEF RequestPseudonym, Pseudonymize, On, Doing
    <3> QED
      BY <3>1, <3>2
  <2>10. CASE UNCHANGED vars
    BY <2>10 DEF vars, rows, history
  <2> QED
    BY <2>2, <2>4, <2>5, <2>6, <2>7, <2>8, <2>9, <2>10 DEF Next, Handle, Steady, Reads
<1>3. ScrubbedInv => ScrubbedStays
  BY DEF ScrubbedInv, ScrubbedStays
<1> QED
  BY <1>1, <1>2, <1>3, AccountsTypes, UuidsAreFresh, PTL DEF Spec

LastInv ==
    \A u \in Users \ contended :
       Exists(u) =>
          /\ email[u] = asked[u]
          /\ \A r \in On({"updating"}, u) :
                req[r].seen = email[u] /\ On({"updating"}, u) = {r}

\* The address of an account is the last one asked for, however many other
\* requests overlap, as long as no two ask at once (update_user,
\* confirm_password_reset, pseudonymize_user).
THEOREM LastChangePrevailsHolds == Spec => []LastChangePrevails
<1>1. Init => LastInv
  BY DEF Init, LastInv, Exists
<1>2. IdInv /\ FreshInv /\ LastInv /\ [Next]_vars => LastInv'
  <2> SUFFICES ASSUME IdInv, FreshInv, LastInv, [Next]_vars PROVE LastInv'
    OBVIOUS
  <2>1. ASSUME NEW r \in Requests, Becomes(r, Ops \ {"updating"}),
               contended \subseteq contended' \cup {u \in Users : status'[u] = "none"},
               \A u \in Users \ contended' :
                  status'[u] # "none" =>
                     \/ Exists(u) /\ email'[u] = email[u] /\ asked'[u] = asked[u]
                     \/ email'[u] = asked'[u] /\ On({"updating"}, u) \subseteq {r}
        PROVE  LastInv'
    <3> SUFFICES ASSUME NEW u \in Users \ contended', status'[u] # "none"
                 PROVE  /\ email'[u] = asked'[u]
                        /\ \A q \in On({"updating"}, u)' :
                              req'[q].seen = email'[u] /\ On({"updating"}, u)' = {q}
      BY DEF LastInv, Exists
    <3>1. On({"updating"}, u)' = On({"updating"}, u) \ {r}
      BY <2>1 DEF On, Doing, Becomes
    <3>2. \A q \in Requests \ {r} : req'[q] = req[q]
      BY <2>1 DEF Becomes
    <3>3. u \notin contended
      BY <2>1
    <3> QED
      BY <2>1, <3>1, <3>2, <3>3 DEF LastInv, On, Doing
  <2>2. ASSUME NEW r \in Requests, Steady(r) PROVE LastInv'
    BY <2>1, <2>2, SteadyStep DEF Exists
  <2>3. ASSUME NEW r \in Requests, End(r) \/ GoLog(r) PROVE Becomes(r, Ops \ {"updating"})
    BY <2>3, Ends, OpsMembers DEF Becomes
  <2>4. ASSUME NEW r \in Requests, InsertUser(r) \/ CommitLink(r) PROVE LastInv'
    <3>1. Becomes(r, Ops \ {"updating"})
      BY <2>4, NewAccount, OpsMembers DEF Becomes
    <3>2. CASE UNCHANGED <<status, email, password, unasked, asked, contended>>
      BY <2>1, <3>1, <3>2 DEF Exists
    <3>3. CASE \E p \in {"chosen", "random"} : Makes(r, p)
      <4>1. contended \subseteq contended'
        BY <3>3 DEF Makes, NewRow, Contend
      <4>2. ASSUME NEW u \in Users \ contended', status'[u] # "none"
            PROVE  \/ Exists(u) /\ email'[u] = email[u] /\ asked'[u] = asked[u]
                   \/ email'[u] = asked'[u] /\ On({"updating"}, u) \subseteq {r}
        BY <3>3, <4>2 DEF Makes, NewRow, Contend, Exists, IdInv, TypeOK
      <4> QED
        BY <2>1, <3>1, <4>1, <4>2
    <3> QED
      BY <2>4, <3>2, <3>3, NewAccount
  <2>5. ASSUME NEW r \in Requests, NEW u \in Users, NEW e \in Emails, BeginUpdate(r, u, e)
        PROVE  LastInv'
    <3>1. /\ \A q \in Requests \ {r} : req'[q] = req[q]
          /\ req'[r].user = u /\ req'[r].op = "updating" /\ req'[r].seen = email[u]
          /\ req[r].op = "idle"
          /\ UNCHANGED <<status, email, asked>>
      BY <2>5 DEF BeginUpdate, BeginOnRow, Idle, rows, IdInv, TypeOK
    <3>2. \A v \in Users : On({"updating"}, v)' = IF v = u THEN On({"updating"}, v) \cup {r}
                                                  ELSE On({"updating"}, v)
      BY <3>1 DEF On, Doing
    <3>3. contended \subseteq contended' /\ (u \notin contended' => On({"updating"}, u) = {})
      BY <2>5 DEF BeginUpdate, Contend
    <3>4. ASSUME NEW v \in Users \ contended', status'[v] # "none"
          PROVE  /\ email'[v] = asked'[v]
                 /\ \A q \in On({"updating"}, v)' :
                       req'[q].seen = email'[v] /\ On({"updating"}, v)' = {q}
      <4>1. CASE v = u
        <5>1. On({"updating"}, v)' = {r} /\ v \notin contended
          BY <3>2, <3>3, <3>4, <4>1
        <5>2. email[v] = asked[v]
          BY <3>1, <3>4, <5>1 DEF LastInv, Exists
        <5> QED
          BY <3>1, <4>1, <5>1, <5>2
      <4>2. CASE v # u
        <5>1. r \notin On({"updating"}, v)
          BY <3>1 DEF On, Doing
        <5> QED
          BY <3>1, <3>2, <3>3, <3>4, <4>2, <5>1 DEF LastInv, Exists, On, Doing
      <4> QED
        BY <4>1, <4>2
    <3> QED
      BY <3>4 DEF LastInv, Exists
  <2>6. ASSUME NEW r \in Requests, CommitUpdate(r) PROVE LastInv'
    <3> DEFINE u == req[r].user
    <3>1. /\ Becomes(r, Ops \ {"updating"}) /\ status' = status
          /\ u \in Users /\ r \in On({"updating"}, u)
          /\ contended' = IF On({"updating"}, u) = {r} THEN contended \ {u} ELSE contended
      BY <2>3, <2>6 DEF CommitUpdate, IdInv, ReqInv, On, Doing
    <3>2. \A v \in Users : On({"updating"}, v)' = On({"updating"}, v) \ {r}
      BY <3>1 DEF On, Doing, Becomes
    <3>3. Exists(u) =>
             /\ email' = [email EXCEPT ![u] = IF req[r].mail = req[r].seen THEN @
                                              ELSE req[r].mail]
             /\ asked' = [asked EXCEPT ![u] = IF u \in contended THEN email'[u]
                                              ELSE req[r].mail]
      BY <2>6 DEF CommitUpdate
    <3>4. ~Exists(u) => UNCHANGED <<email, asked>>
      BY <2>6 DEF CommitUpdate
    <3> HIDE DEF u
    <3>5. ASSUME NEW v \in Users \ contended', status'[v] # "none"
          PROVE  /\ email'[v] = asked'[v]
                 /\ \A q \in On({"updating"}, v)' :
                       req'[q].seen = email'[v] /\ On({"updating"}, v)' = {q}
      <4>1. CASE v # u
        <5>1. email'[v] = email[v] /\ asked'[v] = asked[v] /\ v \notin contended
          BY <3>1, <3>3, <3>4, <3>5, <4>1 DEF IdInv, TypeOK
        <5>2. r \notin On({"updating"}, v)
          BY <4>1 DEF On, u
        <5> QED
          BY <3>1, <3>2, <3>5, <5>1, <5>2 DEF LastInv, Exists, Becomes, On, Doing
      <4>2. CASE v = u /\ u \in contended
        <5>1. On({"updating"}, v)' = {}
          BY <3>1, <3>2, <3>5, <4>2
        <5>2. email'[u] = asked'[u]
          BY <3>1, <3>3, <3>5, <4>2 DEF Exists, IdInv, TypeOK
        <5> QED
          BY <4>2, <5>1, <5>2
      <4>3. CASE v = u /\ u \notin contended
        <5>1. req[r].seen = email[u] /\ On({"updating"}, u) = {r}
          BY <3>1, <3>5, <4>3 DEF LastInv, Exists
        <5>2. On({"updating"}, v)' = {}
          BY <3>2, <4>3, <5>1
        <5>3. email'[u] = asked'[u]
          BY <3>1, <3>3, <3>5, <4>3, <5>1 DEF Exists, IdInv, TypeOK
        <5> QED
          BY <4>3, <5>2, <5>3
      <4> QED
        BY <4>1, <4>2, <4>3
    <3> QED
      BY <3>5 DEF LastInv, Exists
  <2>7. ASSUME NEW r \in Requests, CommitDelete(r) PROVE LastInv'
    <3>1. \A u \in Users : status'[u] # "none" => Exists(u)
      BY <2>7 DEF CommitDelete, Exists, IdInv, TypeOK
    <3> QED
      BY <2>1, <2>3, <2>7, <3>1 DEF CommitDelete
  <2>8. ASSUME NEW r \in Requests, CommitErase(r) PROVE LastInv'
    <3>1. \A u \in Users : \/ status'[u] = "none"
                           \/ status'[u] = status[u] /\ email'[u] = email[u] /\ asked'[u] = asked[u]
      BY <2>8 DEF CommitErase, DeleteRows, IdInv, TypeOK
    <3>2. contended \subseteq contended' \cup {u \in Users : status'[u] = "none"}
      BY <2>8 DEF CommitErase, DeleteRows, IdInv, TypeOK
    <3> QED
      BY <2>1, <2>3, <2>8, <3>1, <3>2 DEF CommitErase, Exists
  <2>9. ASSUME NEW u \in Users, RequestPseudonym(u) PROVE LastInv'
    <3>1. /\ req' = req
          /\ contended \subseteq contended' /\ (u \notin contended' => On({"updating"}, u) = {})
          /\ \A v \in Users : IF v = u THEN email'[v] = asked'[v] ELSE
                email'[v] = email[v] /\ asked'[v] = asked[v] /\ status'[v] = status[v]
      BY <2>9 DEF RequestPseudonym, Pseudonymize, Contend, IdInv, TypeOK
    <3>2. \A v \in Users : On({"updating"}, v)' = On({"updating"}, v)
      BY <3>1 DEF On, Doing
    <3> QED
      BY <3>1, <3>2 DEF LastInv, Exists
  <2>10. CASE UNCHANGED vars
    BY <2>10 DEF vars, rows, history, LastInv, Exists, On, Doing
  <2> QED
    BY <2>2, <2>4, <2>5, <2>6, <2>7, <2>8, <2>9, <2>10 DEF Next, Handle, Steady, Reads
<1>3. LastInv => LastChangePrevails
  BY DEF LastInv, LastChangePrevails
<1> QED
  BY <1>1, <1>2, <1>3, AccountsTypes, UuidsAreFresh, PTL DEF Spec

\* A request that looked, found its address free, and was alone in it.
Clean(r) == req[r].op \in {"inserting", "provisioning"} /\ req[r].seen # req[r].mail

UniqueInv ==
    /\ EmailsUnique
    /\ \A r \in Requests, v \in Users \ unasked :
          Clean(r) /\ Live(v) => email[v] # req[r].mail
    /\ \A q, r \in Requests :
          Clean(q) /\ Clean(r) /\ req[q].mail = req[r].mail => q = r

\* Two accounts that were asked for one at a time never share an address,
\* whatever else overlaps (create_user, get_or_create_oauth_user).
THEOREM EmailsUniqueHolds == Spec => []EmailsUnique
<1>1. Init => UniqueInv
  BY DEF Init, UniqueInv, EmailsUnique, Live, Clean, Idle
<1>2. IdInv /\ FreshInv /\ UniqueInv /\ [Next]_vars => UniqueInv'
  <2> SUFFICES ASSUME IdInv, FreshInv, UniqueInv, [Next]_vars PROVE UniqueInv'
    OBVIOUS
  <2>1. ASSUME NEW r \in Requests, Becomes(r, Ops \ {"inserting", "provisioning"}),
               \A u \in Users \ unasked' :
                  status'[u] = "live" => Live(u) /\ u \notin unasked /\ email'[u] = email[u]
        PROVE  UniqueInv'
    BY <2>1 DEF Becomes, UniqueInv, EmailsUnique, Live, Clean
  <2>2. ASSUME NEW r \in Requests, End(r) \/ GoLog(r)
        PROVE  Becomes(r, Ops \ {"inserting", "provisioning"})
    BY <2>2, Ends, OpsMembers DEF Becomes
  <2>3. ASSUME NEW r \in Requests, Reads(r) PROVE UniqueInv'
    BY <2>1, <2>3, ReadsStep, OpsMembers DEF Becomes, rows, history, Live
  \* A look at an address that is free.
  <2>4. ASSUME NEW r \in Requests, ~Taken(req[r].mail),
               req[r].op \notin {"inserting", "provisioning"},
               \A q \in Requests \ {r} : req'[q] = req[q],
               req'[r].op \in {"inserting", "provisioning"},
               req'[r].mail = req[r].mail, req'[r].seen = Found(r),
               UNCHANGED <<status, email, unasked>>
        PROVE  UniqueInv'
    <3>1. Clean(r)' => \A q \in Doing({"inserting", "provisioning"}) : req[q].mail # req[r].mail
      BY <2>4 DEF Clean, Found
    <3>2. \A v \in Users : Live(v) => email[v] # req[r].mail
      BY <2>4 DEF Taken
    <3>3. \A q \in Requests \ {r} : Clean(q)' = Clean(q)
      BY <2>4 DEF Clean
    <3>4. EmailsUnique'
      BY <2>4 DEF UniqueInv, EmailsUnique, Live
    <3>5. ASSUME NEW q \in Requests, NEW v \in Users \ unasked', Clean(q)', Live(v)'
          PROVE  email'[v] # req'[q].mail
      BY <2>4, <3>2, <3>3, <3>5 DEF UniqueInv, Live
    <3>6. ASSUME NEW q \in Requests \ {r}, Clean(q)', Clean(r)' PROVE req'[q].mail # req'[r].mail
      BY <2>4, <3>1, <3>3, <3>6 DEF Clean, Doing
    <3>7. ASSUME NEW p \in Requests, NEW q \in Requests, Clean(p)', Clean(q)',
                 req'[p].mail = req'[q].mail
          PROVE  p = q
      BY <2>4, <3>3, <3>6, <3>7 DEF UniqueInv
    <3> QED
      BY <3>4, <3>5, <3>7 DEF UniqueInv
  <2>5. ASSUME NEW r \in Requests, CheckEmail(r) PROVE UniqueInv'
    <3>1. CASE Taken(req[r].mail)
      BY <2>1, <2>2, <2>5, <3>1 DEF CheckEmail, rows, history, Live
    <3>2. CASE ~Taken(req[r].mail)
      BY <2>4, <2>5, <3>2 DEF CheckEmail, rows, history, IdInv, TypeOK, Requested
    <3> QED
      BY <3>1, <3>2
  <2>6. ASSUME NEW r \in Requests, NEW u \in Users, MatchNobody(r, u) PROVE UniqueInv'
    BY <2>4, <2>6 DEF MatchNobody, history, IdInv, TypeOK, Requested
  <2>7. ASSUME NEW r \in Requests, InsertUser(r) \/ CommitLink(r) PROVE UniqueInv'
    <3>1. /\ Becomes(r, {"idle", "logging"})
          /\ req[r].user \in Users
      BY <2>7, NewAccount
    <3>2. CASE UNCHANGED <<status, email, password, unasked, asked, contended>>
      BY <2>1, <3>1, <3>2, OpsMembers DEF Becomes, Live
    <3>3. ASSUME NEW p, Makes(r, p), req[r].op \in {"inserting", "provisioning"} PROVE UniqueInv'
      <4>1. /\ status' = [status EXCEPT ![req[r].user] = "live"]
            /\ email' = [email EXCEPT ![req[r].user] = req[r].mail]
            /\ unasked' = IF req[r].seen = req[r].mail THEN unasked \cup {req[r].user}
                                                       ELSE unasked \ {req[r].user}
        BY <3>3 DEF Makes, NewRow
      <4>2. req[r].user \notin unasked' => Clean(r)
        BY <3>3, <4>1 DEF Clean
      <4>3. \A q \in Requests : Clean(q)' => q # r /\ Clean(q) /\ req'[q] = req[q]
        BY <3>1 DEF Becomes, Clean
      <4>4. \A v \in Users \ unasked' :
               Live(v)' => \/ v # req[r].user /\ v \notin unasked /\ Live(v) /\ email'[v] = email[v]
                           \/ v = req[r].user /\ Clean(r) /\ email'[v] = req[r].mail
        BY <3>1, <4>1, <4>2 DEF Live, IdInv, TypeOK
      <4>5. EmailsUnique'
        BY <4>4 DEF UniqueInv, EmailsUnique
      <4>6. ASSUME NEW q \in Requests, NEW v \in Users \ unasked', Clean(q)', Live(v)'
            PROVE  email'[v] # req'[q].mail
        BY <4>3, <4>4, <4>6 DEF UniqueInv
      <4>7. ASSUME NEW q \in Requests, NEW s \in Requests, Clean(q)', Clean(s)',
                   req'[q].mail = req'[s].mail
            PROVE  q = s
        BY <4>3, <4>7 DEF UniqueInv
      <4> QED
        BY <4>5, <4>6, <4>7 DEF UniqueInv
    <3> QED
      BY <2>7, <3>2, <3>3, NewAccount
  <2>8. ASSUME NEW r \in Requests, NEW u \in Users,
               BeginIssue(r, u) \/ MatchByEmail(r, u) \/ \E e \in Emails : BeginUpdate(r, u, e)
        PROVE  UniqueInv'
    <3>1. UNCHANGED <<status, email, unasked>>
      BY <2>8 DEF BeginIssue, MatchByEmail, BeginUpdate, rows, history
    <3>2. CASE BeginIssue(r, u)
      BY <2>1, <3>1, <3>2, OpsMembers DEF BeginIssue, Begin, IdInv, TypeOK, Becomes, Idle, Live
    <3>3. CASE MatchByEmail(r, u)
      BY <2>1, <3>1, <3>3, OpsMembers DEF MatchByEmail, IdInv, TypeOK, Requested, Becomes, Live
    <3>4. CASE \E e \in Emails : BeginUpdate(r, u, e)
      BY <2>1, <3>1, <3>4, OpsMembers
      DEF BeginUpdate, BeginOnRow, IdInv, TypeOK, Becomes, Idle, Live
    <3> QED
      BY <2>8, <3>2, <3>3, <3>4
  <2>9. ASSUME NEW r \in Requests, Callback(r) \/ FindLinked(r) PROVE UniqueInv'
    <3>1. CASE Callback(r)
      BY <2>1, <3>1, OpsMembers
      DEF Callback, Answers, BeginCallback, rows, history, IdInv, TypeOK, Becomes, Idle, Live
    <3>2. CASE FindLinked(r)
      BY <2>1, <2>2, <3>2, OpsMembers
      DEF FindLinked, Become, rows, IdInv, TypeOK, Requested, Becomes, Live
    <3> QED
      BY <2>9, <3>1, <3>2
  <2>10. ASSUME NEW r \in Requests, CommitUpdate(r) \/ CommitPassword(r) \/ CommitIssue(r)
         PROVE  UniqueInv'
    <3>1. CASE CommitUpdate(r)
      <4>1. req[r].user \in Users
        BY <3>1 DEF CommitUpdate, IdInv, ReqInv
      <4>2. \A u \in Users \ unasked' :
               status'[u] = "live" => Live(u) /\ u \notin unasked /\ email'[u] = email[u]
        BY <3>1, <4>1 DEF CommitUpdate, Exists, Live, IdInv, TypeOK
      <4> QED
        BY <2>1, <2>2, <3>1, <4>2 DEF CommitUpdate
    <3>2. CASE CommitPassword(r) \/ CommitIssue(r)
      BY <2>1, <2>2, <3>2 DEF CommitPassword, SetPassword, CommitIssue, history, Live
    <3> QED
      BY <2>10, <3>1, <3>2
  <2>11. ASSUME NEW r \in Requests, CommitDelete(r) \/ CommitErase(r) PROVE UniqueInv'
    <3>1. \A u \in Users \ unasked' :
             status'[u] = "live" => Live(u) /\ u \notin unasked /\ email'[u] = email[u]
      BY <2>11 DEF CommitDelete, CommitErase, DeleteRows, Live, IdInv, TypeOK
    <3> QED
      BY <2>1, <2>2, <2>11, <3>1 DEF CommitDelete, CommitErase
  <2>12. ASSUME NEW u \in Users, RequestPseudonym(u) PROVE UniqueInv'
    <3>1. \A v \in Users \ unasked' :
             status'[v] = "live" => Live(v) /\ v \notin unasked /\ email'[v] = email[v]
      BY <2>12 DEF RequestPseudonym, Pseudonymize, Live, IdInv, TypeOK
    <3>2. req' = req
      BY <2>12 DEF RequestPseudonym, Pseudonymize
    <3> QED
      BY <3>1, <3>2 DEF UniqueInv, EmailsUnique, Live, Clean
  <2>13. CASE UNCHANGED vars
    BY <2>13 DEF vars, rows, history, UniqueInv, EmailsUnique, Live, Clean
  <2> QED
    BY <2>3, <2>5, <2>6, <2>7, <2>8, <2>9, <2>10, <2>11, <2>12, <2>13 DEF Next, Handle, Reads
<1>3. UniqueInv => EmailsUnique
  BY DEF UniqueInv
<1> QED
  BY <1>1, <1>2, <1>3, AccountsTypes, UuidsAreFresh, PTL DEF Spec

-----------------------------------------------------------------------------
(* What refers to an account.                                               *)

Referring == {"issuing", "linking", "linked"}

LinksInv ==
    /\ LinksFollowAccounts
    /\ \A r \in Doing(Referring) : req[r].user \notin raced => Exists(req[r].user)

\* The steps that change no account and nothing that refers to one, and do not
\* start to.
Unrelated(r) ==
    \/ Reads(r) \/ CheckEmail(r) \/ CommitUpdate(r)
    \/ \E u \in Users : MatchNobody(r, u) \/ \E e \in Emails : BeginUpdate(r, u, e)

LEMMA UnrelatedStep ==
    ASSUME IdInv, NEW r \in Requests, Unrelated(r)
    PROVE  /\ UNCHANGED <<status, password, link, belongs, home, raced>>
           /\ Becomes(r, Ops \ Referring)
<1> USE OpsMembers DEF IdInv, TypeOK, Becomes, rows, history, Referring
<1>1. CASE Reads(r)
  BY <1>1, ReadsStep
<1>2. CASE CheckEmail(r)
  BY <1>2, Ends DEF CheckEmail, Requested
<1>3. CASE CommitUpdate(r)
  BY <1>3, Ends DEF CommitUpdate
<1>4. ASSUME NEW u \in Users, MatchNobody(r, u)
      PROVE  /\ UNCHANGED <<status, password, link, belongs, home, raced>>
             /\ Becomes(r, Ops \ Referring)
  BY <1>4 DEF MatchNobody, Requested
<1>5. ASSUME NEW u \in Users, NEW e \in Emails, BeginUpdate(r, u, e)
      PROVE  /\ UNCHANGED <<status, password, link, belongs, home, raced>>
             /\ Becomes(r, Ops \ Referring)
  BY <1>5 DEF BeginUpdate, BeginOnRow, Idle
<1> QED
  BY <1>1, <1>2, <1>3, <1>4, <1>5 DEF Unrelated

\* Erasure leaves no link, key or role behind, and an account that signs in only
\* through a provider has its link from the first (delete_user_data,
\* issue_api_key, get_or_create_oauth_user).
THEOREM LinksFollowAccountsHolds == Spec => []LinksFollowAccounts
<1>1. Init => LinksInv
  BY AccountsAssumption DEF Init, LinksInv, LinksFollowAccounts, Exists, Doing, Idle, Referring, Users
<1>2. IdInv /\ FreshInv /\ LinksInv /\ [Next]_vars => LinksInv'
  <2> SUFFICES ASSUME IdInv, FreshInv, LinksInv, [Next]_vars PROVE LinksInv'
    OBVIOUS
  <2>1. ASSUME NEW r \in Requests, Becomes(r, Ops \ Referring),
               UNCHANGED <<link, belongs, raced>>,
               \A u \in Users : /\ Exists(u)' = Exists(u)
                                /\ Exists(u) /\ password'[u] = "random" => password[u] = "random"
        PROVE  LinksInv'
    <3>1. \A q \in Doing(Referring)' : q \in Doing(Referring) /\ req'[q] = req[q]
                                       /\ req[q].user \in Users
      BY <2>1 DEF Becomes, Doing, IdInv, ReqInv, Referring
    <3> QED
      BY <2>1, <3>1 DEF LinksInv, LinksFollowAccounts
  <2>2. ASSUME NEW r \in Requests, End(r) \/ GoLog(r) PROVE Becomes(r, Ops \ Referring)
    BY <2>2, Ends, OpsMembers DEF Becomes, Referring
  <2>3. ASSUME NEW r \in Requests, Unrelated(r) PROVE LinksInv'
    BY <2>1, <2>3, UnrelatedStep DEF Exists
  <2>4. ASSUME NEW r \in Requests, CommitDelete(r) \/ CommitPassword(r) PROVE LinksInv'
    <3>1. CASE CommitDelete(r)
      <4>1. \A u \in Users : Exists(u)' = Exists(u)
        BY <3>1 DEF CommitDelete, Exists, IdInv, TypeOK
      <4> QED
        BY <2>1, <2>2, <3>1, <4>1 DEF CommitDelete
    <3>2. CASE CommitPassword(r)
      <4>1. \A u \in Users : password'[u] = "random" => password[u] = "random"
        BY <3>2 DEF CommitPassword, SetPassword, IdInv, TypeOK
      <4> QED
        BY <2>1, <2>2, <3>2, <4>1 DEF CommitPassword, Exists
    <3> QED
      BY <2>4, <3>1, <3>2
  <2>5. ASSUME NEW u \in Users, RequestPseudonym(u) PROVE LinksInv'
    <3>1. \A v \in Users : Exists(v)' = Exists(v)
      BY <2>5 DEF RequestPseudonym, Pseudonymize, Exists, IdInv, TypeOK
    <3>2. UNCHANGED <<link, belongs, raced, password, req>>
      BY <2>5 DEF RequestPseudonym, Pseudonymize
    <3>3. \A r \in Doing(Referring) : req[r].user \in Users
      BY DEF Doing, Referring, IdInv, ReqInv
    <3> QED
      BY <3>1, <3>2, <3>3 DEF LinksInv, LinksFollowAccounts, Doing
  \* Someone starts to refer to an account that exists, or was found referred to.
  <2>6. ASSUME NEW r \in Requests, \A q \in Requests \ {r} : req'[q] = req[q],
               UNCHANGED <<status, password, link, belongs, raced>>,
               req'[r].op \in Referring => req'[r].user \in raced \/ Exists(req'[r].user)
        PROVE  LinksInv'
    BY <2>6 DEF LinksInv, LinksFollowAccounts, Doing, Exists
  <2>7. ASSUME NEW r \in Requests, NEW u \in Users, BeginIssue(r, u) \/ MatchByEmail(r, u)
        PROVE  LinksInv'
    <3>1. CASE BeginIssue(r, u)
      BY <2>6, <3>1 DEF BeginIssue, Begin, rows, history, Idle, IdInv, TypeOK
    <3>2. CASE MatchByEmail(r, u)
      BY <2>6, <3>2 DEF MatchByEmail, rows, history, Live, Exists, IdInv, TypeOK, Requested
    <3> QED
      BY <2>7, <3>1, <3>2
  <2>8. ASSUME NEW r \in Requests, Callback(r) PROVE LinksInv'
    <3>1. PICK i \in Identities, e \in Emails : BeginCallback(r, i, e)
      BY <2>8 DEF Callback, Answers
    <3>2. link[i] # None => link[i] \in raced \/ Exists(link[i])
      BY DEF LinksInv, LinksFollowAccounts, IdInv, TypeOK
    <3> QED
      BY <2>6, <3>1, <3>2 DEF BeginCallback, rows, history, Idle, Referring, IdInv, TypeOK
  <2>9. ASSUME NEW r \in Requests, FindLinked(r) PROVE LinksInv'
    <3>1. UNCHANGED <<status, password, link, belongs, raced>>
      BY <2>9 DEF FindLinked, rows
    <3>2. Becomes(r, {"idle", "matching", "logging"})
      BY <2>9, Ends DEF FindLinked, Become, Becomes, IdInv, TypeOK, Requested
    <3> QED
      BY <2>6, <3>1, <3>2 DEF Becomes, Referring
  <2>10. ASSUME NEW r \in Requests, CommitIssue(r) PROVE LinksInv'
    <3>1. req[r].user \in raced \/ Exists(req[r].user)
      BY <2>10 DEF CommitIssue, LinksInv, Doing, Referring
    <3>2. /\ belongs' = belongs \cup {req[r].user}
          /\ UNCHANGED <<status, password, link, raced>>
          /\ Becomes(r, Ops \ Referring)
      BY <2>2, <2>10 DEF CommitIssue, history
    <3> QED
      BY <3>1, <3>2 DEF LinksInv, LinksFollowAccounts, Becomes, Doing, Exists
  <2>11. ASSUME NEW r \in Requests, CommitErase(r) PROVE LinksInv'
    <3> DEFINE u == req[r].user
    <3>1. u \in Users
      BY <2>11 DEF CommitErase, IdInv, ReqInv
    <3>2. /\ Becomes(r, Ops \ Referring)
          /\ status' = [status EXCEPT ![u] = "none"]
          /\ belongs' = belongs \ {u}
          /\ link' = [i \in Identities |-> IF link[i] = u THEN None ELSE link[i]]
          /\ password' = [password EXCEPT ![u] = "random"]
          /\ raced' = IF On(Referring, u) = {} THEN raced \ {u} ELSE raced \cup {u}
      BY <2>2, <2>11 DEF CommitErase, DeleteRows, On, Doing, Referring
    <3>0. None \notin Users
      BY AccountsAssumption DEF Users
    <3>3. ASSUME NEW v \in Users \ {u}
          PROVE  /\ status'[v] = status[v] /\ password'[v] = password[v]
                 /\ (v \in raced') <=> (v \in raced)
                 /\ (v \in belongs') <=> (v \in belongs)
                 /\ \A i \in Identities : (link'[i] = v) <=> (link[i] = v)
      <4>1. status'[v] = status[v] /\ password'[v] = password[v]
        BY <3>1, <3>2 DEF IdInv, TypeOK
      <4>2. ((v \in raced') <=> (v \in raced)) /\ ((v \in belongs') <=> (v \in belongs))
        BY <3>2
      <4>3. \A i \in Identities : (link'[i] = v) <=> (link[i] = v)
        BY <3>0, <3>2
      <4> QED
        BY <4>1, <4>2, <4>3
    <3>4. status'[u] = "none" /\ u \notin belongs' /\ \A i \in Identities : link'[i] # u
      BY <3>0, <3>1, <3>2 DEF IdInv, TypeOK
    <3> HIDE DEF u
    <3>5. ASSUME NEW v \in Users
          PROVE  /\ ~Exists(v)' /\ v \notin raced'
                       => v \notin belongs' /\ \A i \in Identities : link'[i] # v
                 /\ Exists(v)' /\ password'[v] = "random" => \E i \in Identities : link'[i] = v
      <4>1. CASE v = u
        BY <3>4, <4>1 DEF Exists
      <4>2. CASE v # u
        BY <3>3, <4>2 DEF LinksInv, LinksFollowAccounts, Exists
      <4> QED
        BY <4>1, <4>2
    <3>6. ASSUME NEW q \in Doing(Referring)', req'[q].user \notin raced' PROVE Exists(req[q].user)'
      <4>1. q \in Doing(Referring) /\ req'[q] = req[q] /\ req[q].user \in Users
        BY <3>2 DEF Becomes, Doing, IdInv, ReqInv, Referring
      <4>2. req[q].user # u
        BY <3>2, <3>6, <4>1 DEF On
      <4> QED
        BY <3>3, <3>6, <4>1, <4>2 DEF LinksInv, Exists
    <3> QED
      BY <3>5, <3>6 DEF LinksInv, LinksFollowAccounts
  <2>12. ASSUME NEW r \in Requests, InsertUser(r) \/ CommitLink(r) PROVE LinksInv'
    <3> DEFINE u == req[r].user
    <3>1. /\ Becomes(r, Ops \ Referring) /\ u \in Users
          /\ UNCHANGED <<belongs, raced>>
      BY <2>12, NewAccount, OpsMembers DEF Becomes, Referring
    <3>2. \A q \in Doing(Referring)' : q \in Doing(Referring) /\ req'[q] = req[q]
      BY <3>1 DEF Becomes, Doing
    <3>3. CASE InsertUser(r)
      <4>1. link' = link
        BY <3>3 DEF InsertUser
      <4>2. \/ UNCHANGED <<status, password>>
            \/ /\ status' = [status EXCEPT ![u] = "live"]
               /\ password' = [password EXCEPT ![u] = "chosen"]
        BY <3>3 DEF InsertUser, NewRow
      <4>3. \A v \in Users : /\ Exists(v) => Exists(v)'
                             /\ Exists(v)' /\ password'[v] = "random"
                                   => Exists(v) /\ password[v] = "random"
        BY <3>1, <4>2 DEF Exists, IdInv, TypeOK
      <4>4. \A q \in Doing(Referring) : req[q].user \in Users
        BY DEF Doing, Referring, IdInv, ReqInv
      <4> QED
        BY <3>1, <3>2, <4>1, <4>3, <4>4 DEF LinksInv, LinksFollowAccounts
    <3>4. CASE CommitLink(r)
      <4> DEFINE i == req[r].ident
      <4>1. i \in Identities
        BY <3>4 DEF CommitLink, IdInv, ReqInv
      <4>2. \/ UNCHANGED <<status, password>> /\ req[r].op = "linking"
            \/ UNCHANGED <<status, password>> /\ ~LinkIsFree(i)
            \/ /\ LinkIsFree(i)
               /\ status' = [status EXCEPT ![u] = "live"]
               /\ password' = [password EXCEPT ![u] = "random"]
        BY <3>4 DEF CommitLink, AddUser, NewRow
      <4>3. link' = IF LinkIsFree(i) THEN [link EXCEPT ![i] = u] ELSE link
        BY <3>4 DEF CommitLink
      <4>4. \A v \in Users : Exists(v) => Exists(v)'
        BY <3>1, <4>2 DEF Exists, IdInv, TypeOK
      <4>5. req[r].op = "linking" => u \in raced \/ Exists(u)
        BY DEF LinksInv, Doing, Referring
      <4>6. LinkIsFree(i) => link'[i] = u /\ (u \in raced \/ status'[u] # "none")
        <5>1. LinkIsFree(i) => link'[i] = u
          BY <4>1, <4>3 DEF IdInv, TypeOK
        <5>2. LinkIsFree(i) => u \in raced \/ status'[u] # "none"
          BY <3>1, <4>2, <4>4, <4>5 DEF Exists, IdInv, TypeOK
        <5> QED
          BY <5>1, <5>2
      <4>7. \A v \in Users \ {u} : Exists(v)' = Exists(v) /\ password'[v] = password[v]
        BY <3>1, <4>2 DEF Exists, IdInv, TypeOK
      <4>8. \A v \in Users, j \in Identities : link[j] = v => link'[j] = v
        BY <4>1, <4>3, AccountsAssumption DEF LinkIsFree, IdInv, TypeOK, Users
      <4>9. \A v \in Users \ {u}, j \in Identities : link'[j] = v => link[j] = v
        BY <4>1, <4>3 DEF IdInv, TypeOK
      <4> HIDE DEF u, i
      <4>10. ASSUME NEW v \in Users, ~Exists(v)', v \notin raced'
             PROVE  v \notin belongs' /\ \A j \in Identities : link'[j] # v
        <5>1. v \notin belongs /\ \A j \in Identities : link[j] # v
          BY <3>1, <4>4, <4>10 DEF LinksInv, LinksFollowAccounts
        <5>2. CASE v = u
          <6>1. ~LinkIsFree(i)
            BY <3>1, <4>6, <4>10, <5>2 DEF Exists
          <6> QED
            BY <3>1, <4>3, <5>1, <6>1
        <5>3. CASE v # u
          BY <3>1, <4>9, <5>1, <5>3
        <5> QED
          BY <5>2, <5>3
      <4>11. ASSUME NEW v \in Users, Exists(v)', password'[v] = "random"
             PROVE  \E j \in Identities : link'[j] = v
        <5>1. CASE v = u /\ LinkIsFree(i)
          BY <4>1, <4>6, <5>1
        <5>2. CASE ~(v = u /\ LinkIsFree(i))
          <6>1. Exists(v) /\ password[v] = "random"
            BY <4>2, <4>7, <4>11, <5>2 DEF Exists
          <6> QED
            BY <4>8, <6>1 DEF LinksInv, LinksFollowAccounts
        <5> QED
          BY <5>1, <5>2
      <4>12. \A q \in Doing(Referring) : req[q].user \in Users
        BY DEF Doing, Referring, IdInv, ReqInv
      <4>13. \A q \in Doing(Referring)' : req'[q].user \notin raced' => Exists(req[q].user)'
        BY <3>1, <3>2, <4>4, <4>12 DEF LinksInv
      <4> QED
        BY <4>10, <4>11, <4>13 DEF LinksInv, LinksFollowAccounts
    <3> QED
      BY <2>12, <3>3, <3>4
  <2>13. CASE UNCHANGED vars
    BY <2>13 DEF vars, rows, history, LinksInv, LinksFollowAccounts, Exists, Doing
  <2> QED
    BY <2>3, <2>4, <2>5, <2>7, <2>8, <2>9, <2>10, <2>11, <2>12, <2>13
    DEF Next, Handle, Unrelated, Reads
<1>3. LinksInv => LinksFollowAccounts
  BY DEF LinksInv
<1> QED
  BY <1>1, <1>2, <1>3, AccountsTypes, UuidsAreFresh, PTL DEF Spec

HomeInv ==
    /\ \A i \in Identities : home[i] \notin raced \cup {None} => link[i] = home[i]
    /\ \A r \in Doing({"linked"}) : req[r].user \notin raced => link[req[r].ident] = req[r].user

\* An identity never moves to another account while its own exists, for any
\* number of callbacks (get_or_create_oauth_user, delete_user_data).
THEOREM IdentityKeepsItsAccountHolds == Spec => IdentityKeepsItsAccount
<1> DEFINE Kept ==
      \A i \in Identities :
         home[i] \notin raced \cup {None} =>
            \/ home'[i] \in {home[i]} \cup raced
            \/ status'[home[i]] = "none"
<1>1. Init => HomeInv
  BY DEF Init, HomeInv, Doing, Idle
<1>2. IdInv /\ HomeInv /\ [Next]_vars => HomeInv' /\ [Kept]_vars
  <2> SUFFICES ASSUME IdInv, HomeInv, [Next]_vars PROVE HomeInv' /\ Kept
    OBVIOUS
  <2>0. None \notin Users
    BY AccountsAssumption DEF Users
  <2>1. ASSUME NEW r \in Requests, \A q \in Requests \ {r} : req'[q] = req[q],
               UNCHANGED <<link, home, raced>>,
               req'[r].op = "linked" => link[req'[r].ident] = req'[r].user
        PROVE  HomeInv' /\ Kept
    BY <2>1 DEF HomeInv, Doing
  <2>2. ASSUME NEW r \in Requests, End(r) \/ GoLog(r) PROVE Becomes(r, Ops \ Referring)
    BY <2>2, Ends, OpsMembers DEF Becomes, Referring
  <2>3. ASSUME NEW r \in Requests, Unrelated(r) PROVE HomeInv' /\ Kept
    BY <2>1, <2>3, UnrelatedStep DEF Becomes, Referring
  <2>4. ASSUME NEW r \in Requests,
               InsertUser(r) \/ CommitDelete(r) \/ CommitPassword(r) \/ CommitIssue(r)
        PROVE  HomeInv' /\ Kept
    <3>1. UNCHANGED <<link, home, raced>> /\ (End(r) \/ GoLog(r))
      BY <2>4 DEF InsertUser, CommitDelete, CommitPassword, CommitIssue, history
    <3> QED
      BY <2>1, <2>2, <3>1 DEF Becomes, Referring
  <2>5. ASSUME NEW u \in Users, RequestPseudonym(u) PROVE HomeInv' /\ Kept
    BY <2>5 DEF RequestPseudonym, Pseudonymize, HomeInv, Doing
  <2>6. ASSUME NEW r \in Requests, NEW u \in Users, BeginIssue(r, u) \/ MatchByEmail(r, u)
        PROVE  HomeInv' /\ Kept
    <3>1. CASE BeginIssue(r, u)
      BY <2>1, <3>1 DEF BeginIssue, Begin, rows, history, Idle, IdInv, TypeOK
    <3>2. CASE MatchByEmail(r, u)
      BY <2>1, <3>2 DEF MatchByEmail, rows, history, IdInv, TypeOK, Requested
    <3> QED
      BY <2>6, <3>1, <3>2
  <2>7. ASSUME NEW r \in Requests, Callback(r) PROVE HomeInv' /\ Kept
    BY <2>1, <2>7 DEF Callback, Answers, BeginCallback, rows, history, Idle, IdInv, TypeOK
  <2>8. ASSUME NEW r \in Requests, FindLinked(r) PROVE HomeInv' /\ Kept
    <3> DEFINE u == req[r].user
               i == req[r].ident
    <3>1. i \in Identities /\ (u \notin raced => link[i] = u)
      BY <2>8 DEF FindLinked, HomeInv, Doing, IdInv, ReqInv
    <3>2. UNCHANGED <<link, raced>> /\ Becomes(r, {"idle", "logging", "matching"})
      BY <2>8, Ends DEF FindLinked, rows, Become, Becomes, IdInv, TypeOK, Requested
    <3>3. home' = home \/ home' = [home EXCEPT ![i] = u]
      BY <2>8 DEF FindLinked, SignIn
    <3>4. \A q \in Doing({"linked"})' : q \in Doing({"linked"}) /\ req'[q] = req[q]
      BY <3>2 DEF Becomes, Doing
    <3> HIDE DEF u, i
    <3>5. \A j \in Identities : home'[j] = home[j] \/ (j = i /\ home'[j] = u)
      BY <3>3 DEF IdInv, TypeOK
    <3>6. HomeInv'
      BY <3>1, <3>2, <3>4, <3>5 DEF HomeInv
    <3>7. Kept
      BY <3>1, <3>5 DEF HomeInv
    <3> QED
      BY <3>6, <3>7
  <2>9. ASSUME NEW r \in Requests, CommitLink(r) PROVE HomeInv' /\ Kept
    <3> DEFINE u == req[r].user
               i == req[r].ident
    <3>1. i \in Identities /\ u \in Users
      BY <2>9 DEF CommitLink, IdInv, ReqInv
    <3>2. raced' = raced /\ Becomes(r, {"idle", "logging"})
      BY <2>9, Ends DEF CommitLink
    <3>3. \A q \in Doing({"linked"})' : q \in Doing({"linked"}) /\ req'[q] = req[q]
                                        /\ req[q].user \in Users /\ req[q].ident \in Identities
      BY <3>2 DEF Becomes, Doing, IdInv, ReqInv
    <3>4. CASE ~LinkIsFree(i)
      <4>1. UNCHANGED <<link, home>>
        BY <2>9, <3>4 DEF CommitLink
      <4> QED
        BY <3>2, <3>3, <4>1 DEF HomeInv
    <3>5. CASE LinkIsFree(i)
      <4>1. /\ link[i] = None
            /\ link' = [link EXCEPT ![i] = u]
            /\ home' = home \/ home' = [home EXCEPT ![i] = u]
        BY <2>9, <3>5 DEF CommitLink, SignIn, LinkIsFree
      <4> HIDE DEF u, i
      <4>2. home[i] \in raced \cup {None}
        BY <3>1, <4>1 DEF HomeInv
      <4>3. \A j \in Identities \ {i} : link'[j] = link[j] /\ home'[j] = home[j]
        BY <4>1 DEF IdInv, TypeOK
      <4>4. link'[i] = u /\ home'[i] \in {home[i], u}
        BY <3>1, <4>1 DEF IdInv, TypeOK
      <4>5. \A q \in Doing({"linked"})' : req[q].user \notin raced => req[q].ident # i
        BY <2>0, <3>3, <4>1 DEF HomeInv
      <4>6. HomeInv'
        BY <3>2, <3>3, <4>2, <4>3, <4>4, <4>5 DEF HomeInv
      <4>7. Kept
        BY <4>2, <4>3
      <4> QED
        BY <4>6, <4>7
    <3> QED
      BY <3>4, <3>5
  <2>10. ASSUME NEW r \in Requests, CommitErase(r) PROVE HomeInv' /\ Kept
    <3> DEFINE u == req[r].user
    <3>1. u \in Users
      BY <2>10 DEF CommitErase, IdInv, ReqInv
    <3>2. /\ Becomes(r, {"idle", "logging"})
          /\ status' = [status EXCEPT ![u] = "none"]
          /\ link' = [i \in Identities |-> IF link[i] = u THEN None ELSE link[i]]
          /\ home' = [i \in Identities |-> IF home[i] = u THEN None ELSE home[i]]
          /\ raced' = IF On(Referring, u) = {} THEN raced \ {u} ELSE raced \cup {u}
      BY <2>10, Ends DEF CommitErase, DeleteRows, On, Doing, Referring
    <3>3. \A q \in Doing({"linked"})' : q \in Doing({"linked"}) /\ req'[q] = req[q]
                                        /\ req[q].ident \in Identities
      BY <3>2 DEF Becomes, Doing, IdInv, ReqInv
    <3>4. status'[u] = "none"
      BY <3>1, <3>2 DEF IdInv, TypeOK
    <3>5. \A q \in Doing({"linked"})' : req[q].user = u => u \in raced'
      BY <3>2, <3>3 DEF On, Doing, Referring
    <3> HIDE DEF u
    <3>6. \A v \in Users \ {u} : (v \in raced') <=> (v \in raced)
      BY <3>2
    <3>7. ASSUME NEW i \in Identities, home'[i] \notin raced' \cup {None} PROVE link'[i] = home'[i]
      <4>1. home[i] \in Users \ {u} /\ home'[i] = home[i]
        BY <3>2, <3>7 DEF IdInv, TypeOK
      <4>2. link[i] = home[i]
        BY <2>0, <3>6, <3>7, <4>1 DEF HomeInv
      <4> QED
        BY <3>2, <4>1, <4>2
    <3>8. ASSUME NEW q \in Doing({"linked"})', req'[q].user \notin raced'
          PROVE  link'[req'[q].ident] = req'[q].user
      <4>1. req[q].user \in Users \ {u}
        BY <3>3, <3>5, <3>8 DEF Doing, IdInv, ReqInv
      <4>2. link[req[q].ident] = req[q].user
        BY <3>3, <3>6, <3>8, <4>1 DEF HomeInv
      <4> QED
        BY <3>2, <3>3, <4>1, <4>2
    <3>9. Kept
      BY <3>2, <3>4
    <3> QED
      BY <3>7, <3>8, <3>9 DEF HomeInv
  <2>11. CASE UNCHANGED vars
    BY <2>11 DEF vars, rows, history, HomeInv, Doing
  <2> QED
    BY <2>3, <2>4, <2>5, <2>6, <2>7, <2>8, <2>9, <2>10, <2>11
    DEF Next, Handle, Unrelated, Reads
<1> QED
  BY <1>1, <1>2, AccountsTypes, PTL DEF Spec, IdentityKeepsItsAccount

-----------------------------------------------------------------------------
(* Roles: the lineage of a set of roles.                                    *)

LEMMA LineageFacts ==
    ASSUME RolesTypeOK, NEW R \in SUBSET RoleIds
    PROVE  /\ R \subseteq Lineage(R) /\ Lineage(R) \subseteq RoleIds
           /\ Closed(Lineage(R))
           /\ \A S \in SUBSET RoleIds : R \subseteq S /\ Closed(S) => Lineage(R) \subseteq S
<1>1. Closed(Lineage(R))
  <2> SUFFICES ASSUME NEW r \in Lineage(R) \cap Created, parent[r] # NoRole
               PROVE  parent[r] \in Lineage(R)
    BY DEF Closed
  <2>1. parent[r] \in RoleIds
    BY DEF RolesTypeOK
  <2>2. ASSUME NEW S \in SUBSET RoleIds, R \subseteq S, Closed(S) PROVE parent[r] \in S
    BY <2>2 DEF Lineage, Closed
  <2> QED
    BY <2>1, <2>2 DEF Lineage
<1> QED
  BY <1>1 DEF Lineage

\* No step takes a role away or gives it another parent, or takes a
\* permission from a role.
Grows ==
    /\ Created \subseteq Created' /\ \A r \in Created : parent'[r] = parent[r]
    /\ \A r \in RoleIds : attached[r] \subseteq attached'[r]

LEMMA LineageGrows ==
    ASSUME RolesTypeOK, Grows, NEW R \in SUBSET RoleIds
    PROVE  Lineage(R) \subseteq Lineage(R)' /\ Given(R) \subseteq Given(R)'
<1>1. Lineage(R) \subseteq Lineage(R)'
  <2> SUFFICES ASSUME NEW r \in Lineage(R), NEW S \in SUBSET RoleIds, R \subseteq S, Closed(S)'
               PROVE  r \in S
    BY DEF Lineage
  <2>1. Closed(S)
    BY DEF Closed, Grows
  <2> QED
    BY <2>1 DEF Lineage
<1> QED
  BY <1>1 DEF Given, Grows, Lineage

-----------------------------------------------------------------------------
(* Roles: types.                                                            *)

LEMMA WalkFields ==
    ASSUME NEW w \in Walk
    PROVE  /\ w.at \in {"idle", "own", "parent", "done"} /\ w.role \in RoleIds \cup {NoRole}
           /\ w.todo \subseteq RoleIds /\ w.visited \subseteq RoleIds
           /\ w.found \subseteq RoleIds /\ w.perms \subseteq Permissions
BY DEF Walk

\* The walk goes on with a role it has still to visit, or is done.
LEMMA NextRoleGives ==
    ASSUME NEW w \in Walk, NEW v \in NextRole(w)
    PROVE  /\ v \in Walk /\ v.found = w.found /\ v.perms = w.perms
           /\ \/ /\ w.todo \subseteq w.visited
                 /\ v.at = "done" /\ v.role = NoRole /\ v.todo = {} /\ v.visited = w.visited
              \/ /\ v.at = "own" /\ v.role \in w.todo /\ v.role \notin w.visited
                 /\ v.todo \subseteq w.todo
                 /\ w.todo \subseteq v.todo \cup v.visited
                 /\ v.visited = w.visited \cup {v.role}
<1> DEFINE ahead == w.todo \ w.visited
<1> USE WalkFields
<1>1. CASE ahead = {}
  <2>1. v = [w EXCEPT !.at = "done", !.role = NoRole, !.todo = {}]
    BY <1>1 DEF NextRole
  <2> QED
    BY <1>1, <2>1 DEF Walk
<1>2. CASE ahead # {}
  <2>1. PICK r \in ahead : v = [w EXCEPT !.at = "own", !.role = r, !.todo = ahead \ {r},
                                        !.visited = @ \cup {r}]
    BY <1>2 DEF NextRole
  <2>2. /\ v \in Walk /\ v.found = w.found /\ v.perms = w.perms
        /\ v.at = "own" /\ v.role = r /\ v.todo = ahead \ {r}
        /\ v.visited = w.visited \cup {r}
    BY <2>1 DEF Walk
  <2> QED
    BY <2>2
<1> QED
  BY <1>1, <1>2

\* The first walk of a check.
LEMMA FirstWalk ==
    ASSUME NEW R \in SUBSET RoleIds
    PROVE  LET w == [NoWalk EXCEPT !.todo = R, !.found = R]
           IN  /\ w \in Walk /\ w.at = "idle" /\ w.role = NoRole /\ w.todo = R
               /\ w.visited = {} /\ w.found = R /\ w.perms = {}
BY DEF NoWalk, Walk

LEMMA BuiltinWalk ==
    LET w == [[NoWalk EXCEPT !.todo = {}, !.found = {}]
                 EXCEPT !.at = "done", !.perms = Builtin]
    IN  w \in Walk /\ w.at = "done" /\ w.found = {} /\ w.perms = Builtin
BY RolesAssumption DEF NoWalk, Walk

LEMMA GivenType ==
    ASSUME RolesTypeOK, NEW R \in SUBSET RoleIds
    PROVE  Given(R) \subseteq Permissions
BY DEF Given, Lineage, RolesTypeOK

-----------------------------------------------------------------------------
(* Roles: what a check answers with.                                        *)

\* The roles a walk may come to, what they give, and those that it has read.
Reach(c) == Lineage(check[c].found)
Yield(c) == UNION {attached[r] : r \in Reach(c)}
Read(c) == IF check[c].at = "own" THEN check[c].visited \ {check[c].role}
           ELSE check[c].visited

\* A walk has come to roles of the lineage only, and to the parent of every
\* one but the last; what the roles found gave when it began is collected, or
\* is still with one of them that it has not read.
Walking(c) ==
    /\ check[c].at # "idle" /\ check[c].found # {} /\ check[c].found \subseteq Created
    /\ check[c].todo \subseteq check[c].found
    /\ check[c].visited \subseteq Reach(c) \cap Created
    /\ check[c].found \subseteq check[c].visited \cup check[c].todo
    /\ check[c].at \in {"own", "parent"} => check[c].role \in check[c].visited
    /\ check[c].at = "done" => check[c].role = NoRole /\ check[c].todo = {}
    /\ \A r \in check[c].visited \ {check[c].role} :
          parent[r] # NoRole => parent[r] \in check[c].visited
    /\ check[c].perms \subseteq Yield(c)
    /\ \A p \in promised[c] \ check[c].perms :
          \E r \in Reach(c) \ Read(c) : p \in attached[r]

ByBuiltin(c) == check[c].at = "done" /\ check[c].found = {} /\ check[c].perms = Builtin

RolesInv ==
    /\ RolesTypeOK
    /\ \A u \in Holders : holds[u] \subseteq Created
    /\ \A c \in Checks : check[c].at = "idle" \/ ByBuiltin(c) \/ Walking(c)

LEMMA AtRole ==
    ASSUME RolesInv, NEW c \in Checks, check[c].at \in {"own", "parent"}
    PROVE  Walking(c) /\ check[c].role \in Created /\ check[c].role \in RoleIds
BY DEF RolesInv, ByBuiltin, Walking, RolesTypeOK

\* What reading a role's permissions leaves, field by field.
LEMMA ReadOwnGives ==
    ASSUME RolesInv, NEW c \in Checks, ReadOwn(c)
    PROVE  \E v \in Walk :
              /\ check' = [check EXCEPT ![c] = v]
              /\ v.at = "parent" /\ v.role = check[c].role
              /\ v.perms = check[c].perms \cup attached[check[c].role]
              /\ v.todo = check[c].todo /\ v.visited = check[c].visited
              /\ v.found = check[c].found
<1> DEFINE w == check[c]
           own == attached[w.role]
           v == [w EXCEPT !.at = "parent", !.perms = @ \cup own]
<1>1. w \in Walk
  BY DEF RolesTypeOK, RolesInv
<1>2. own \subseteq Permissions
  BY AtRole DEF RolesTypeOK, RolesInv, ReadOwn
<1>3. check' = [check EXCEPT ![c] = v]
  BY DEF ReadOwn
<1>4. /\ v \in Walk /\ v.at = "parent" /\ v.role = w.role /\ v.perms = w.perms \cup own
      /\ v.todo = w.todo /\ v.visited = w.visited /\ v.found = w.found
  <2> HIDE DEF w, own
  <2> QED
    BY <1>1, <1>2 DEF Walk
<1> QED
  BY <1>3, <1>4

\* And what reading its parent does: up to the parent, or on to another role.
LEMMA ReadParentGives ==
    ASSUME RolesInv, NEW c \in Checks, ReadParent(c)
    PROVE  LET w == check[c]  p == parent[w.role] IN
           \E v \in Walk :
              /\ check' = [check EXCEPT ![c] = v]
              /\ v.found = w.found /\ v.perms = w.perms
              /\ \/ /\ p \in Created /\ p \notin w.visited
                    /\ v.at = "own" /\ v.role = p /\ v.todo = w.todo
                    /\ v.visited = w.visited \cup {p}
                 \/ /\ p = NoRole \/ p \in w.visited
                    /\ v \in NextRole(w)
<1> DEFINE w == check[c]
           p == parent[w.role]
           v == [w EXCEPT !.at = "own", !.role = p, !.visited = @ \cup {p}]
<1>1. w \in Walk /\ w.at = "parent" /\ p \in Created \cup {NoRole}
  BY AtRole DEF RolesTypeOK, RolesInv, ReadParent
<1>2. CASE p # NoRole /\ p \notin w.visited
  <2>1. check' = [check EXCEPT ![c] = v]
    BY <1>2 DEF ReadParent
  <2>2. p \in RoleIds
    BY <1>1, <1>2 DEF RolesTypeOK, RolesInv
  <2>3. /\ v \in Walk /\ v.found = w.found /\ v.perms = w.perms
        /\ v.at = "own" /\ v.role = p /\ v.todo = w.todo /\ v.visited = w.visited \cup {p}
    <3> HIDE DEF w, p
    <3> QED
      BY <1>1, <2>2 DEF Walk
  <2> HIDE DEF v
  <2> QED
    BY <1>1, <1>2, <2>1, <2>3
<1>3. CASE ~(p # NoRole /\ p \notin w.visited)
  <2>1. PICK x \in NextRole(w) : check' = [check EXCEPT ![c] = x]
    BY <1>3 DEF ReadParent
  <2>2. x \in Walk /\ x.found = w.found /\ x.perms = w.perms
    BY <1>1, NextRoleGives
  <2> QED
    BY <1>1, <1>3, <2>1, <2>2
<1> QED
  BY <1>2, <1>3

\* Every variable keeps its type.
LEMMA RolesTypes ==
    ASSUME RolesInv, [RolesNext]_roleVars
    PROVE  RolesTypeOK'
<1>0. NoWalk \in Walk
  BY DEF NoWalk, Walk
<1> USE DEF RolesTypeOK, RolesInv
<1>1. ASSUME NEW r \in RoleIds, NEW p \in Created \cup {NoRole}, CreateNewRole(r, p)
      PROVE  RolesTypeOK'
  BY <1>1 DEF CreateNewRole, CreateRole, Created
<1>2. ASSUME NEW p \in Permissions, CreatePermission(p) PROVE RolesTypeOK'
  BY <1>2 DEF CreatePermission, Created
<1>3. ASSUME NEW r \in RoleIds, NEW p \in Permissions, Attach(r, p) PROVE RolesTypeOK'
  BY <1>3 DEF Attach, Created
<1>4. ASSUME NEW u \in Holders, NEW r \in RoleIds, AssignOrRemove(u, r) PROVE RolesTypeOK'
  BY <1>4 DEF AssignOrRemove, Grant, Revoke, Created
<1>5. ASSUME NEW c \in Checks, NEW u \in Holders, BeginCheck(c, u) PROVE RolesTypeOK'
  <2>1. promised' \in [Checks -> SUBSET Permissions]
    BY <1>5, GivenType DEF BeginCheck
  <2>2. check' \in [Checks -> Walk]
    <3>1. CASE holds[u] = {}
      BY <1>5, <3>1, BuiltinWalk DEF BeginCheck
    <3>2. CASE holds[u] # {}
      <4> DEFINE start == [NoWalk EXCEPT !.todo = holds[u], !.found = holds[u]]
      <4>1. start \in Walk
        BY FirstWalk
      <4>2. PICK w \in NextRole(start) : check' = [check EXCEPT ![c] = w]
        BY <1>5, <3>2 DEF BeginCheck
      <4>3. w \in Walk
        <5> HIDE DEF start
        <5> QED
          BY <4>1, <4>2, NextRoleGives
      <4> QED
        BY <4>2, <4>3
    <3> QED
      BY <3>1, <3>2
  <2> QED
    BY <1>5, <2>1, <2>2 DEF BeginCheck, Created
<1>6. ASSUME NEW c \in Checks, ReadOwn(c) PROVE RolesTypeOK'
  BY <1>6, ReadOwnGives DEF ReadOwn, Created
<1>7. ASSUME NEW c \in Checks, ReadParent(c) PROVE RolesTypeOK'
  BY <1>7, ReadParentGives DEF ReadParent, Created
<1>8. ASSUME NEW c \in Checks, EndCheck(c) PROVE RolesTypeOK'
  BY <1>0, <1>8 DEF EndCheck, Created
<1>9. CASE UNCHANGED roleVars
  BY <1>9 DEF roleVars, Created
<1> QED
  BY <1>1, <1>2, <1>3, <1>4, <1>5, <1>6, <1>7, <1>8, <1>9 DEF RolesNext

\* A walk keeps its invariant while others take theirs and the roles grow.
LEMMA WalkingKept ==
    ASSUME RolesInv, Grows, NEW c \in Checks, Walking(c),
           check'[c] = check[c], promised'[c] = promised[c]
    PROVE  Walking(c)'
<1>1. check[c].found \subseteq RoleIds /\ check[c].visited \subseteq Created
  BY DEF RolesInv, RolesTypeOK, Walking
<1>2. Reach(c) \subseteq Reach(c)'
  <2> SUFFICES ASSUME NEW r \in Reach(c), NEW S \in SUBSET RoleIds,
                      check[c].found \subseteq S, Closed(S)'
               PROVE  r \in S
    BY DEF Reach, Lineage
  <2>1. Closed(S)
    BY DEF Closed, Grows
  <2> QED
    BY <2>1 DEF Reach, Lineage
<1>3. \A r \in Reach(c) : attached[r] \subseteq attached'[r]
  BY DEF Grows, Reach, Lineage
<1>4. Yield(c) \subseteq Yield(c)'
  BY <1>2, <1>3 DEF Yield
<1>5. Read(c)' = Read(c)
  BY DEF Read
<1>6. \A r \in check[c].visited \ {check[c].role} :
          parent'[r] # NoRole => parent'[r] \in check[c].visited
  BY <1>1 DEF Walking, Grows
<1>7. ASSUME NEW p \in promised[c] \ check[c].perms
      PROVE  \E r \in Reach(c)' \ Read(c) : p \in attached'[r]
  BY <1>2, <1>3 DEF Walking
<1>8. Created \subseteq Created'
  BY DEF Grows
<1> QED
  BY <1>2, <1>4, <1>5, <1>6, <1>7, <1>8 DEF Walking

LEMMA OthersKept ==
    ASSUME RolesInv, Grows, NEW d \in Checks, NEW v,
           check' = [check EXCEPT ![d] = v],
           \A c \in Checks \ {d} : promised'[c] = promised[c]
    PROVE  \A c \in Checks \ {d} : (check[c].at = "idle" \/ ByBuiltin(c) \/ Walking(c))'
<1> SUFFICES ASSUME NEW c \in Checks \ {d}
             PROVE  (check[c].at = "idle" \/ ByBuiltin(c) \/ Walking(c))'
  OBVIOUS
<1>1. check'[c] = check[c] /\ promised'[c] = promised[c]
  BY DEF RolesInv, RolesTypeOK
<1>2. check[c].at = "idle" \/ ByBuiltin(c) \/ Walking(c)
  BY DEF RolesInv
<1> QED
  BY <1>1, <1>2, WalkingKept DEF ByBuiltin

\* A walk over several SELECTs answers with all that the roles of the user gave
\* when it began, and with nothing they do not give by the time it ends,
\* whatever administrators do meanwhile and however the roles are related
\* (get_effective_permissions, _collect_role_permissions).
THEOREM CheckIsBracketedHolds == RolesSpec => []CheckIsBracketed
<1>1. RolesInit => RolesInv
  <2>0. NoWalk \in Walk /\ NoWalk.at = "idle"
    BY DEF NoWalk, Walk
  <2> QED
    BY <2>0 DEF RolesInit, RolesInv, RolesTypeOK, Created
<1>2. RolesInv /\ [RolesNext]_roleVars => RolesInv'
  <2> SUFFICES ASSUME RolesInv, [RolesNext]_roleVars PROVE RolesInv'
    OBVIOUS
  <2>0. RolesTypeOK'
    BY RolesTypes
  <2> DEFINE Holding == (\A u \in Holders : holds[u] \subseteq Created)'
             Fine(c) == (check[c].at = "idle" \/ ByBuiltin(c) \/ Walking(c))'
  <2>1. ASSUME Grows, UNCHANGED <<check, promised>>
        PROVE  \A c \in Checks : Fine(c)
    BY <2>1, WalkingKept DEF RolesInv, ByBuiltin
  <2>2. ASSUME NEW r \in RoleIds, NEW p \in Created \cup {NoRole}, CreateNewRole(r, p)
        PROVE  Holding /\ \A c \in Checks : Fine(c)
    <3>1. Grows /\ UNCHANGED <<holds, check, promised>>
      BY <2>2 DEF CreateNewRole, CreateRole, Grows, Created
    <3> QED
      BY <2>1, <3>1 DEF RolesInv, Grows
  <2>3. ASSUME NEW p \in Permissions, CreatePermission(p)
        PROVE  Holding /\ \A c \in Checks : Fine(c)
    <3>1. Grows /\ UNCHANGED <<holds, check, promised>>
      BY <2>3 DEF CreatePermission, Grows, Created
    <3> QED
      BY <2>1, <3>1 DEF RolesInv, Grows
  <2>4. ASSUME NEW r \in RoleIds, NEW p \in Permissions, Attach(r, p)
        PROVE  Holding /\ \A c \in Checks : Fine(c)
    <3>1. Grows /\ UNCHANGED <<holds, check, promised>>
      BY <2>4 DEF Attach, Grows, Created, RolesInv, RolesTypeOK
    <3> QED
      BY <2>1, <3>1 DEF RolesInv, Grows
  <2>5. ASSUME NEW u \in Holders, NEW r \in RoleIds, AssignOrRemove(u, r)
        PROVE  Holding /\ \A c \in Checks : Fine(c)
    <3>1. Grows /\ UNCHANGED <<check, promised>>
      BY <2>5 DEF AssignOrRemove, Grant, Revoke, Grows, Created
    <3>2. Holding
      BY <2>5 DEF AssignOrRemove, Grant, Revoke, Created, RolesInv, RolesTypeOK
    <3> QED
      BY <2>1, <3>1, <3>2
  <2>6. ASSUME NEW d \in Checks, NEW u \in Holders, BeginCheck(d, u)
        PROVE  Holding /\ \A c \in Checks : Fine(c)
    <3>1. Grows /\ UNCHANGED <<parent, attached, holds>>
      BY <2>6 DEF BeginCheck, Grows, Created
    <3>2. Holding
      BY <3>1 DEF RolesInv, Created
    <3>3. \E v : check' = [check EXCEPT ![d] = v]
      BY <2>6 DEF BeginCheck
    <3>4. \A c \in Checks \ {d} : Fine(c)
      BY <2>6, <3>1, <3>3, OthersKept DEF BeginCheck, RolesInv, RolesTypeOK
    <3>5. CASE holds[u] = {}
      <4>1. ByBuiltin(d)'
        BY <2>6, <3>5, BuiltinWalk DEF BeginCheck, ByBuiltin, RolesInv, RolesTypeOK
      <4> QED
        BY <3>2, <3>4, <4>1
    <3>6. CASE holds[u] # {}
      <4> DEFINE start == [NoWalk EXCEPT !.todo = holds[u], !.found = holds[u]]
      <4>1. PICK v \in NextRole(start) : check' = [check EXCEPT ![d] = v]
        BY <2>6, <3>6 DEF BeginCheck
      <4>2. holds[u] \subseteq RoleIds /\ holds[u] \subseteq Created
        BY DEF RolesInv, RolesTypeOK
      <4>3. /\ start \in Walk /\ start.todo = holds[u] /\ start.visited = {}
            /\ start.found = holds[u] /\ start.perms = {}
        BY <4>2, FirstWalk
      <4>4. /\ v.found = holds[u] /\ v.perms = {} /\ v.at = "own" /\ v.role \in holds[u]
            /\ v.todo \subseteq holds[u] /\ holds[u] \subseteq v.todo \cup v.visited
            /\ v.visited = {v.role}
        <5> HIDE DEF start
        <5> QED
          BY <3>6, <4>1, <4>3, NextRoleGives
      <4>5. check'[d] = v /\ promised'[d] = Given(holds[u])
        BY <2>6, <4>1 DEF BeginCheck, RolesInv, RolesTypeOK
      <4>6. Reach(d)' = Lineage(holds[u]) /\ holds[u] \subseteq Lineage(holds[u])
        <5>1. \A S : Closed(S)' = Closed(S)
          BY <3>1 DEF Closed, Created
        <5> QED
          BY <4>2, <4>4, <4>5, <5>1, LineageFacts DEF Reach, Lineage, RolesInv
      <4>7. Read(d)' = {}
        BY <4>4, <4>5 DEF Read
      <4>8. \A p \in promised'[d] : \E r \in Reach(d)' : p \in attached'[r]
        BY <3>1, <4>5, <4>6 DEF Given
      <4>9. Created' = Created
        BY <3>1 DEF Created
      <4>10. Walking(d)'
        BY <3>6, <4>2, <4>4, <4>5, <4>6, <4>7, <4>8, <4>9 DEF Walking
      <4> QED
        BY <3>2, <3>4, <4>10
    <3> QED
      BY <3>5, <3>6
  <2>7. ASSUME NEW d \in Checks, ReadOwn(d)
        PROVE  Holding /\ \A c \in Checks : Fine(c)
    <3>1. Grows /\ UNCHANGED <<parent, attached, holds>>
      BY <2>7 DEF ReadOwn, Grows, Created
    <3>2. Holding
      BY <3>1 DEF RolesInv, Created
    <3>3. PICK v \in Walk :
              /\ check' = [check EXCEPT ![d] = v]
              /\ v.at = "parent" /\ v.role = check[d].role
              /\ v.perms = check[d].perms \cup attached[check[d].role]
              /\ v.todo = check[d].todo /\ v.visited = check[d].visited
              /\ v.found = check[d].found
      BY <2>7, ReadOwnGives
    <3>4. promised' = promised /\ check[d].at = "own" /\ check'[d] = v
      BY <2>7, <3>3 DEF ReadOwn, RolesInv, RolesTypeOK
    <3>5. \A c \in Checks \ {d} : Fine(c)
      BY <3>1, <3>3, <3>4, OthersKept
    <3>6. Walking(d) /\ check[d].role \in check[d].visited
      BY <3>4, AtRole DEF Walking
    <3>7. Reach(d)' = Reach(d) /\ Yield(d)' = Yield(d) /\ Created' = Created
      <4>1. Reach(d)' = Reach(d) /\ Created' = Created
        BY <3>1, <3>3, <3>4 DEF Reach, Lineage, Closed, Created
      <4> QED
        BY <3>1, <4>1 DEF Yield
    <3>8. Read(d)' = Read(d) \cup {check[d].role}
      BY <3>3, <3>4, <3>6 DEF Read
    <3>9. v.perms \subseteq Yield(d)
      BY <3>3, <3>6 DEF Walking, Yield
    <3>10. ASSUME NEW p \in promised[d] \ v.perms
           PROVE  \E r \in Reach(d) \ Read(d)' : p \in attached[r]
      BY <3>3, <3>6, <3>8 DEF Walking
    <3>11. Walking(d)'
      BY <3>1, <3>3, <3>4, <3>6, <3>7, <3>9, <3>10 DEF Walking
    <3> QED
      BY <3>2, <3>5, <3>11
  <2>8. ASSUME NEW d \in Checks, ReadParent(d)
        PROVE  Holding /\ \A c \in Checks : Fine(c)
    <3>1. Grows /\ UNCHANGED <<parent, attached, holds>>
      BY <2>8 DEF ReadParent, Grows, Created
    <3>2. Holding
      BY <3>1 DEF RolesInv, Created
    <3> DEFINE w == check[d]
               p == parent[w.role]
    <3>3. PICK v \in Walk :
              /\ check' = [check EXCEPT ![d] = v]
              /\ v.found = w.found /\ v.perms = w.perms
              /\ \/ /\ p \in Created /\ p \notin w.visited
                    /\ v.at = "own" /\ v.role = p /\ v.todo = w.todo
                    /\ v.visited = w.visited \cup {p}
                 \/ /\ p = NoRole \/ p \in w.visited
                    /\ v \in NextRole(w)
      BY <2>8, ReadParentGives
    <3>4. promised' = promised /\ w.at = "parent" /\ check'[d] = v
      BY <2>8, <3>3 DEF ReadParent, RolesInv, RolesTypeOK
    <3>5. \A c \in Checks \ {d} : Fine(c)
      BY <3>1, <3>3, <3>4, OthersKept
    <3>6. Walking(d) /\ w.role \in w.visited /\ w.role \in Created /\ Read(d) = w.visited
      BY <3>4, AtRole DEF Walking, Read
    <3>7. Reach(d)' = Reach(d) /\ Yield(d)' = Yield(d) /\ Created' = Created
      <4>1. Reach(d)' = Reach(d) /\ Created' = Created
        BY <3>1, <3>3, <3>4 DEF Reach, Lineage, Closed, Created
      <4> QED
        BY <3>1, <4>1 DEF Yield
    <3>8. w.found \subseteq Reach(d) /\ Closed(Reach(d)) /\ NoRole \notin Created
      <4>1. w.found \in SUBSET RoleIds /\ RolesTypeOK
        BY <3>6 DEF Walking, RolesInv, RolesTypeOK
      <4>2. w.found \subseteq Lineage(w.found) /\ Closed(Lineage(w.found))
        <5> HIDE DEF w
        <5> QED
          BY <4>1, LineageFacts
      <4> QED
        BY <4>1, <4>2, RolesAssumption DEF Reach, RolesTypeOK
    <3>9. CASE /\ p \in Created /\ p \notin w.visited
               /\ v.at = "own" /\ v.role = p /\ v.todo = w.todo
               /\ v.visited = w.visited \cup {p}
      <4>1. p \in Reach(d)
        BY <3>6, <3>8, <3>9 DEF Closed, Walking
      <4>2. Read(d)' = w.visited
        BY <3>4, <3>9 DEF Read
      <4>3. Walking(d)'
        BY <3>1, <3>3, <3>4, <3>6, <3>7, <3>9, <4>1, <4>2 DEF Walking
      <4> QED
        BY <3>2, <3>5, <4>3
    <3>10. CASE (p = NoRole \/ p \in w.visited) /\ v \in NextRole(w)
      <4>1. \/ /\ w.todo \subseteq w.visited
               /\ v.at = "done" /\ v.role = NoRole /\ v.todo = {} /\ v.visited = w.visited
            \/ /\ v.at = "own" /\ v.role \in w.todo /\ v.role \notin w.visited
               /\ v.todo \subseteq w.todo
               /\ w.todo \subseteq v.todo \cup v.visited
               /\ v.visited = w.visited \cup {v.role}
        <5>1. w \in Walk
          BY DEF RolesInv, RolesTypeOK
        <5> HIDE DEF w, p
        <5> QED
          BY <3>10, <5>1, NextRoleGives
      <4>2. Read(d)' = w.visited
        BY <3>4, <4>1 DEF Read
      <4>3. \A r \in w.visited : parent[r] # NoRole => parent[r] \in w.visited
        BY <3>6, <3>10 DEF Walking
      <4>4. Walking(d)'
        BY <3>1, <3>3, <3>4, <3>6, <3>7, <3>8, <4>1, <4>2, <4>3 DEF Walking
      <4> QED
        BY <3>2, <3>5, <4>4
    <3> QED
      BY <3>3, <3>9, <3>10
  <2>9. ASSUME NEW d \in Checks, EndCheck(d)
        PROVE  Holding /\ \A c \in Checks : Fine(c)
    <3>1. Grows /\ UNCHANGED <<parent, attached, holds>>
      BY <2>9 DEF EndCheck, Grows, Created
    <3>2. Holding
      BY <3>1 DEF RolesInv, Created
    <3>3. check' = [check EXCEPT ![d] = NoWalk] /\ NoWalk.at = "idle"
      BY <2>9 DEF EndCheck, NoWalk
    <3>4. \A c \in Checks \ {d} : Fine(c)
      BY <2>9, <3>1, <3>3, OthersKept DEF EndCheck, RolesInv, RolesTypeOK
    <3>5. check'[d].at = "idle"
      BY <3>3 DEF RolesInv, RolesTypeOK
    <3> QED
      BY <3>2, <3>4, <3>5
  <2>10. CASE UNCHANGED roleVars
    <3>1. Grows /\ UNCHANGED <<holds, check, promised>>
      BY <2>10 DEF roleVars, Grows, Created
    <3> QED
      BY <2>0, <2>1, <3>1 DEF RolesInv, Grows
  <2> QED
    BY <2>0, <2>2, <2>3, <2>4, <2>5, <2>6, <2>7, <2>8, <2>9, <2>10 DEF RolesNext, RolesInv
<1>3. RolesInv => CheckIsBracketed
  <2> SUFFICES ASSUME RolesInv, NEW c \in Checks, check[c].at = "done", check[c].found # {}
               PROVE  promised[c] \subseteq check[c].perms
                      /\ check[c].perms \subseteq Given(check[c].found)
    BY DEF RolesInv, CheckIsBracketed, ByBuiltin, Walking
  <2>1. Walking(c)
    BY DEF RolesInv, ByBuiltin
  <2>2. /\ check[c].found \in SUBSET RoleIds /\ check[c].visited \in SUBSET RoleIds
        /\ check[c].found \subseteq check[c].visited /\ Closed(check[c].visited)
        /\ Read(c) = check[c].visited
    BY <2>1, RolesAssumption DEF Walking, RolesInv, RolesTypeOK, Closed, Read
  <2>3. Reach(c) \subseteq check[c].visited
    BY <2>2, LineageFacts DEF Reach, RolesInv
  <2> QED
    BY <2>1, <2>2, <2>3 DEF Walking, Yield, Reach, Given
<1> QED
  BY <1>1, <1>2, <1>3, PTL DEF RolesSpec

-----------------------------------------------------------------------------
(* AuditLog.                                                                *)

LEMMA MinOfTwo ==
    ASSUME NEW m \in Nat, NEW n \in Nat
    PROVE  Min({m, n}) = IF m <= n THEN m ELSE n
<1>1. \E x \in {m, n} : \A y \in {m, n} : x <= y
  BY DEF Min
<1>2. Min({m, n}) \in {m, n} /\ \A y \in {m, n} : Min({m, n}) <= y
  BY <1>1 DEF Min
<1> QED
  BY <1>2

\* How many committed entries a page shows before this one.
Rank(e) == Cardinality({f \in logged : Before(f, e)})

\* What a client that reads on has still to get is not behind its offset, or
\* shares its moment with another.
AuditInv ==
    /\ AuditTypeOK
    /\ IsFiniteSet(logged)
    /\ pages.offset \in Nat
    /\ pages.at = "resting" => kept = {}
    /\ kept \subseteq logged
    /\ pages.at = "reading" =>
          \A e \in kept : e \in pages.got \/ Tied(e) \/ Rank(e) >= pages.offset
    /\ PagesMissNothing

LEMMA RankType ==
    ASSUME AuditInv, NEW e \in logged
    PROVE  Rank(e) \in Nat /\ Rank(e) < Cardinality(logged) /\ Cardinality(logged) \in Nat
<1> DEFINE newer == {f \in logged : Before(f, e)}
<1>1. newer \subseteq logged \ {e}
  BY DEF Before, AuditInv, AuditTypeOK
<1>2. /\ IsFiniteSet(logged \ {e}) /\ Cardinality(logged) \in Nat
      /\ Cardinality(logged \ {e}) = Cardinality(logged) - 1
  BY FS_RemoveElement, FS_CardinalityType DEF AuditInv
<1>3. IsFiniteSet(newer) /\ Cardinality(newer) <= Cardinality(logged) - 1
  BY <1>1, <1>2, FS_Subset
<1>4. Cardinality(newer) \in Nat
  BY <1>3, FS_CardinalityType
<1> QED
  BY <1>2, <1>3, <1>4 DEF Rank

\* A page either has the entry or comes entirely before it, with all that was
\* skipped: then the page is full.
LEMMA PageCovers ==
    ASSUME AuditInv, NEW k \in Nat, NEW n \in Nat, NEW p \in Window(k, n),
           NEW e \in logged, ~Tied(e), Rank(e) >= k, e \notin p
    PROVE  Cardinality(p) = n /\ Rank(e) >= k + n
<1> DEFINE size == Cardinality(logged)
           newer == {f \in logged : Before(f, e)}
<1>1. /\ p \subseteq logged /\ IsFiniteSet(logged)
      /\ Rank(e) \in Nat /\ Rank(e) < size /\ size \in Nat
  BY RankType DEF Window, AuditInv
<1>2. Min({k, size}) = k
  BY <1>1, MinOfTwo
<1>3. PICK skipped \in SUBSET (logged \ p) :
           /\ Cardinality(skipped) = k
           /\ \A x \in logged \ skipped, s \in skipped : ~Before(x, s)
           /\ \A x \in p, f \in (logged \ skipped) \ p : ~Before(f, x)
  BY <1>2 DEF Window
<1>4. Cardinality(p) = Min({n, size - k})
  BY <1>2 DEF Window
<1>5. /\ IsFiniteSet(p) /\ Cardinality(p) \in Nat
      /\ IsFiniteSet(skipped) /\ IsFiniteSet(newer)
  BY <1>1, FS_Subset, FS_CardinalityType
<1>6. \A x \in logged : dated[x] \in Nat
  BY DEF AuditInv, AuditTypeOK
<1>7. e \notin skipped
  <2> SUFFICES ASSUME e \in skipped PROVE FALSE
    OBVIOUS
  <2>1. newer \subseteq skipped \ {e}
    BY <1>3, <1>6 DEF Before
  <2>2. IsFiniteSet(skipped \ {e}) /\ Cardinality(skipped \ {e}) = k - 1
    BY <1>3, <1>5, FS_RemoveElement
  <2>3. Cardinality(newer) <= k - 1
    BY <2>1, <2>2, FS_Subset
  <2> QED
    BY <1>1, <2>3 DEF Rank
<1>8. p \cup skipped \subseteq newer
  <2>1. \A x \in p \cup skipped : ~Before(e, x) /\ x # e /\ x \in logged
    BY <1>1, <1>3, <1>7
  <2>2. \A x \in logged : x # e => dated[x] # dated[e]
    BY DEF Tied, AuditInv, AuditTypeOK
  <2> QED
    BY <1>6, <2>1, <2>2 DEF Before
<1>9. Rank(e) >= Cardinality(p) + k
  <2>1. p \cap skipped = {}
    BY <1>3
  <2>2. Cardinality(p \cup skipped) = Cardinality(p) + k
    <3>1. Cardinality(p \cup skipped)
             = Cardinality(p) + Cardinality(skipped) - Cardinality(p \cap skipped)
      BY <1>5, FS_Union
    <3> QED
      BY <1>3, <1>5, <2>1, <3>1, FS_EmptySet
  <2>3. Cardinality(p \cup skipped) <= Cardinality(newer)
    BY <1>5, <1>8, FS_Subset
  <2> QED
    BY <1>1, <1>3, <1>5, <2>2, <2>3 DEF Rank
<1>10. Cardinality(p) = IF n <= size - k THEN n ELSE size - k
  BY <1>1, <1>4, MinOfTwo
<1> QED
  BY <1>1, <1>5, <1>9, <1>10

\* Entries that a client counts on keep their rank or move back, and one that
\* shares its moment goes on doing so.
LEMMA RankKept ==
    ASSUME AuditInv, NEW e \in kept, e \in logged', dated'[e] = dated[e],
           IsFiniteSet(logged'),
           \A f \in Entries : dated[f] > 0 /\ dated[f] >= dated[e] => dated'[f] = dated[f],
           \A f \in logged : dated[f] > dated[e] => f \in logged'
    PROVE  /\ Tied(e) => Tied(e)'
           /\ Rank(e)' \in Nat /\ Rank(e)' >= Rank(e)
<1>1. e \in Entries /\ dated[e] > 0 /\ e \in logged
  BY DEF AuditInv, AuditTypeOK
<1>2. Tied(e) => Tied(e)'
  BY <1>1 DEF Tied, AuditInv, AuditTypeOK
<1> DEFINE newer == {f \in logged : Before(f, e)}
           later == {f \in logged' : dated'[f] > dated[e]}
<1>3. newer \subseteq later
  <2>1. \A f \in newer : f \in Entries /\ dated[f] > dated[e] /\ dated[f] > 0
    BY <1>1 DEF Before, AuditInv, AuditTypeOK
  <2>2. \A f \in newer : dated'[f] = dated[f]
    BY <1>1, <2>1 DEF AuditInv, AuditTypeOK
  <2> QED
    BY <2>1, <2>2
<1>4. IsFiniteSet(later) /\ Cardinality(later) \in Nat
  BY FS_Subset, FS_CardinalityType
<1>5. Cardinality(newer) <= Cardinality(later)
  BY <1>3, <1>4, FS_Subset
<1>6. Rank(e)' = Cardinality(later)
  BY DEF Rank, Before
<1> QED
  BY <1>2, <1>4, <1>5, <1>6 DEF Rank

\* The same for all entries, when the client does nothing.
LEMMA ReaderWaits ==
    ASSUME AuditInv, AuditTypeOK', pages' = pages, kept' \subseteq kept,
           kept' \subseteq logged', IsFiniteSet(logged'),
           \A e \in kept' : /\ dated'[e] = dated[e]
                            /\ \A f \in Entries : dated[f] > 0 /\ dated[f] >= dated[e]
                                                    => dated'[f] = dated[f]
                            /\ \A f \in logged : dated[f] > dated[e] => f \in logged'
    PROVE  AuditInv'
<1>1. ASSUME NEW e \in kept'
      PROVE  (Tied(e) => Tied(e)') /\ Rank(e)' \in Nat /\ Rank(e)' >= Rank(e)
  BY RankKept
<1>2. \A e \in kept : Rank(e) \in Nat
  BY RankType DEF AuditInv
<1>3. ASSUME pages'.at = "reading"
      PROVE  \A e \in kept' : e \in pages'.got \/ Tied(e)' \/ Rank(e)' >= pages'.offset
  BY <1>1, <1>2, <1>3 DEF AuditInv
<1>4. PagesMissNothing'
  BY <1>1 DEF AuditInv, PagesMissNothing
<1> QED
  BY <1>3, <1>4 DEF AuditInv

LEMMA AuditTypes == ASSUME AuditInv, [AuditNext]_auditVars PROVE AuditTypeOK'
<1> USE AuditAssumption DEF AuditInv, AuditTypeOK
<1>1. ASSUME NewMoment PROVE AuditTypeOK'
  BY <1>1 DEF NewMoment
<1>2. ASSUME NEW e \in Entries, Make(e) \/ CommitEntry(e) PROVE AuditTypeOK'
  BY <1>2 DEF Make, CommitEntry
<1>3. ASSUME NEW t \in 2 .. LastMoment, Retain(t) PROVE AuditTypeOK'
  BY <1>3 DEF Retain
<1>4. ASSUME Open \/ Leave PROVE AuditTypeOK'
  BY <1>4 DEF Open, Leave, Resting
<1>5. ASSUME ReadPage PROVE AuditTypeOK'
  BY <1>5 DEF ReadPage, Window
<1>6. ASSUME Export PROVE AuditTypeOK'
  BY <1>6 DEF Export, Window
<1>7. CASE UNCHANGED auditVars
  BY <1>7 DEF auditVars
<1> QED
  BY <1>1, <1>2, <1>3, <1>4, <1>5, <1>6, <1>7 DEF AuditNext

\* A client that has read to the last page has every entry that was there when
\* it began and is not deleted, for any number of entries and any limits, and
\* whatever is logged between its calls (list_audit_logs, export_audit_logs).
THEOREM PagesMissNothingHolds == AuditSpec => []PagesMissNothing
<1>1. AuditInit => AuditInv
  BY AuditAssumption, FS_EmptySet DEF AuditInit, AuditInv, AuditTypeOK, Resting, PagesMissNothing
<1>2. AuditInv /\ [AuditNext]_auditVars => AuditInv'
  <2> SUFFICES ASSUME AuditInv, [AuditNext]_auditVars PROVE AuditInv'
    OBVIOUS
  <2>0. /\ AuditTypeOK' /\ AuditTypeOK /\ IsFiniteSet(logged) /\ kept \subseteq logged
        /\ pages.offset \in Nat
    BY AuditTypes DEF AuditInv
  <2>1. CASE NewMoment
    BY <2>0, <2>1, ReaderWaits DEF NewMoment
  <2>2. ASSUME NEW e \in Entries, Make(e) PROVE AuditInv'
    <3>1. \A f \in Entries : dated[f] > 0 => dated'[f] = dated[f]
      BY <2>0, <2>2 DEF Make, AuditTypeOK
    <3>2. \A k \in kept : dated'[k] = dated[k]
      BY <2>0, <3>1 DEF AuditTypeOK
    <3> QED
      BY <2>0, <2>2, <3>1, <3>2, ReaderWaits DEF Make
  <2>3. ASSUME NEW e \in Entries, CommitEntry(e) PROVE AuditInv'
    <3>1. IsFiniteSet(logged')
      BY <2>0, <2>3, FS_AddElement DEF CommitEntry
    <3> QED
      BY <2>0, <2>3, <3>1, ReaderWaits DEF CommitEntry
  <2>4. ASSUME NEW t \in 2 .. LastMoment, Retain(t) PROVE AuditInv'
    <3> DEFINE old == {e \in logged : dated[e] < t}
    <3>1. /\ logged' = logged \ old /\ kept' = kept \ old /\ pages' = pages
          /\ dated' = [e \in Entries |-> IF e \in old THEN 0 ELSE dated[e]]
      BY <2>4 DEF Retain
    <3>2. IsFiniteSet(logged')
      BY <2>0, <3>1, FS_Subset
    <3>3. ASSUME NEW e \in kept'
          PROVE  /\ dated'[e] = dated[e]
                 /\ \A f \in Entries : dated[f] >= dated[e] => f \notin old
      BY <2>0, <3>1 DEF AuditTypeOK
    <3>4. ASSUME NEW e \in kept'
          PROVE  \A f \in logged : dated[f] > dated[e] => f \in logged'
      BY <2>0, <3>1, <3>3 DEF AuditTypeOK
    <3>5. ASSUME NEW e \in kept'
          PROVE  \A f \in Entries : dated[f] > 0 /\ dated[f] >= dated[e] => dated'[f] = dated[f]
      BY <3>1, <3>3
    <3> QED
      BY <2>0, <3>1, <3>2, <3>3, <3>4, <3>5, ReaderWaits
  <2>5. CASE Open
    <3>1. \A e \in logged : Rank(e)' \in Nat
      <4>1. \A e \in logged : Rank(e) \in Nat
        BY RankType
      <4>2. \A e \in logged : Rank(e)' = Rank(e)
        BY <2>5 DEF Open, Rank, Before
      <4> QED
        BY <4>1, <4>2
    <3> QED
      BY <2>0, <2>5, <3>1 DEF Open, AuditInv, Resting, PagesMissNothing
  <2>6. CASE ReadPage
    <3>1. PICK p \in Window(pages.offset, Limit) :
             pages' = [at |-> IF Cardinality(p) < Limit THEN "read" ELSE "reading",
                       offset |-> pages.offset + Limit, got |-> pages.got \cup p]
      BY <2>6 DEF ReadPage
    <3>2. pages.at = "reading" /\ UNCHANGED <<moment, dated, logged, kept>> /\ Limit \in Nat
      BY <2>6, AuditAssumption DEF ReadPage
    <3>3. ASSUME NEW e \in kept, ~Tied(e), e \notin pages.got, e \notin p
          PROVE  Cardinality(p) = Limit /\ Rank(e) >= pages.offset + Limit
      <4>1. Rank(e) >= pages.offset /\ e \in logged
        BY <2>0, <3>2, <3>3 DEF AuditInv
      <4> QED
        BY <2>0, <3>2, <3>3, <4>1, PageCovers
    <3>4. \A e \in kept : Tied(e)' = Tied(e) /\ Rank(e)' = Rank(e)
      BY <3>2 DEF Tied, Rank, Before
    <3>5. PagesMissNothing'
      BY <2>0, <3>1, <3>2, <3>3, <3>4 DEF PagesMissNothing
    <3>6. pages'.at = "reading" =>
             \A e \in kept' : e \in pages'.got \/ Tied(e)' \/ Rank(e)' >= pages'.offset
      BY <3>1, <3>2, <3>3, <3>4
    <3> QED
      BY <2>0, <3>1, <3>2, <3>5, <3>6 DEF AuditInv
  <2>7. CASE Export
    <3>1. PICK p \in Window(0, ExportLimit) :
             pages' = [at |-> IF Cardinality(logged) > ExportLimit THEN "cut" ELSE "read",
                       offset |-> 0, got |-> p]
      BY <2>7 DEF Export
    <3>2. /\ kept' = logged /\ UNCHANGED <<moment, dated, logged>> /\ ExportLimit \in Nat
          /\ Cardinality(logged) \in Nat
      BY <2>0, <2>7, AuditAssumption, FS_CardinalityType DEF Export
    <3>3. Cardinality(logged) <= ExportLimit => p = logged
      <4>1. Min({0, Cardinality(logged)}) = 0
        BY <3>2, MinOfTwo
      <4>2. p \subseteq logged /\ Cardinality(p) = Min({ExportLimit, Cardinality(logged) - 0})
        BY <4>1 DEF Window
      <4>3. Cardinality(logged) <= ExportLimit => Cardinality(p) = Cardinality(logged)
        BY <3>2, <4>2, MinOfTwo
      <4> QED
        BY <2>0, <4>2, <4>3, FS_Subset
    <3> QED
      BY <2>0, <3>1, <3>2, <3>3 DEF AuditInv, PagesMissNothing
  <2>8. CASE Leave
    BY <2>0, <2>8 DEF Leave, AuditInv, Resting, PagesMissNothing
  <2>9. CASE UNCHANGED auditVars
    BY <2>0, <2>9, ReaderWaits DEF auditVars
  <2> QED
    BY <2>1, <2>2, <2>3, <2>4, <2>5, <2>6, <2>7, <2>8, <2>9 DEF AuditNext
<1>3. AuditInv => PagesMissNothing
  BY DEF AuditInv
<1> QED
  BY <1>1, <1>2, <1>3, PTL DEF AuditSpec

-----------------------------------------------------------------------------
(* Sockets: lists.                                                          *)

\* list.remove, of a member that is there once.
LEMMA RemoveOnce ==
    ASSUME NEW S, NEW list \in Seq(S), NEW k \in 1 .. Len(list),
           \A j \in 1 .. Len(list) : list[j] = list[k] => j = k
    PROVE  LET rest == RemoveFirst(list, list[k]) IN
           /\ rest \in Seq(S) /\ Len(rest) = Len(list) - 1
           /\ \A j \in 1 .. Len(rest) : rest[j] = IF j < k THEN list[j] ELSE list[j + 1]
<1> DEFINE before == SubSeq(list, 1, k - 1)
           after == SubSeq(list, k + 1, Len(list))
           I == {i \in 1 .. Len(list) : list[i] = list[k]}
<1>1. I = {k} /\ k \in Nat /\ Len(list) \in Nat
  OBVIOUS
<1>2. Min({k}) = k
  BY <1>1 DEF Min
<1>3. SelectInSeq(list, LAMBDA v : v = list[k]) = k
  BY <1>1, <1>2 DEF SelectInSeq
<1>4. RemoveFirst(list, list[k]) = before \o after
  BY <1>3 DEF RemoveFirst, RemoveAt
<1>5. /\ before \in Seq(S) /\ Len(before) = k - 1
      /\ \A i \in 1 .. k - 1 : before[i] = list[i]
  BY <1>1
<1>6. /\ after \in Seq(S) /\ Len(after) = Len(list) - k
      /\ \A i \in 1 .. Len(list) - k : after[i] = list[k + i]
  BY <1>1
<1>7. /\ before \o after \in Seq(S) /\ Len(before \o after) = Len(list) - 1
      /\ \A i \in 1 .. Len(list) - 1 :
            (before \o after)[i] = IF i <= k - 1 THEN before[i] ELSE after[i - (k - 1)]
  <2> HIDE DEF before, after
  <2>1. Len(before) + Len(after) = Len(list) - 1
    BY <1>1, <1>5, <1>6
  <2>2. /\ before \o after \in Seq(S) /\ Len(before \o after) = Len(before) + Len(after)
        /\ \A i \in 1 .. Len(before) + Len(after) :
              (before \o after)[i] = IF i <= Len(before) THEN before[i]
                                                        ELSE after[i - Len(before)]
    <3>1. before \in Seq(S) /\ after \in Seq(S)
      BY <1>5, <1>6
    <3> QED
      BY <3>1, ConcatProperties, Zenon
  <2>3. Len(before) = k - 1
    BY <1>5
  <2> QED
    BY <2>1, <2>2, <2>3
<1>8. \A j \in 1 .. Len(list) - 1 :
          (before \o after)[j] = IF j < k THEN list[j] ELSE list[j + 1]
  <2> HIDE DEF before, after
  <2> SUFFICES ASSUME NEW j \in 1 .. Len(list) - 1
               PROVE  (before \o after)[j] = IF j < k THEN list[j] ELSE list[j + 1]
    OBVIOUS
  <2>1. CASE j < k
    BY <1>1, <1>5, <1>7, <2>1
  <2>2. CASE j >= k
    <3>1. j - (k - 1) \in 1 .. Len(list) - k /\ k + (j - (k - 1)) = j + 1
      BY <1>1, <2>2
    <3>2. (before \o after)[j] = after[j - (k - 1)]
      BY <1>1, <1>7, <2>2
    <3>3. after[j - (k - 1)] = list[k + (j - (k - 1))]
      BY <1>6, <3>1
    <3> QED
      BY <1>1, <2>2, <3>1, <3>2, <3>3
  <2>3. j < k \/ j >= k
    BY <1>1
  <2> QED
    BY <2>1, <2>2, <2>3, Zenon
<1> QED
  BY <1>4, <1>7, <1>8

LEMMA RemoveNone ==
    ASSUME NEW S, NEW list \in Seq(S), NEW e, \A j \in 1 .. Len(list) : list[j] # e
    PROVE  RemoveFirst(list, e) = list
BY DEF RemoveFirst

LEMMA FunctionSeq ==
    ASSUME NEW S, NEW n \in Nat, NEW f \in [1 .. n -> S]
    PROVE  f \in Seq(S) /\ Len(f) = n
OBVIOUS

-----------------------------------------------------------------------------
(* Sockets: who is listed where.                                            *)

\* Socket s is the j-th of entry i.
At(s, i, j) ==
    /\ i \in 1 .. Len(entries) /\ j \in 1 .. Len(entries[i].sockets)
    /\ entries[i].sockets[j] = s

\* A socket is listed once at most, under the only key of its user, from when
\* it is accepted until its endpoint takes it out; an empty list has no key.
ListsInv ==
    /\ entries \in Seq(Entry)
    /\ socket \in [SocketIds -> {"new", "open", "closed", "gone", "stuck"}]
    /\ \A s, i, j, k, l : At(s, i, j) /\ At(s, k, l) => i = k /\ j = l
    /\ \A s \in SocketIds : socket[s] \in {"open", "closed"} => \E i, j : At(s, i, j)
    /\ \A s, i, j : At(s, i, j) => s \in SocketIds /\ socket[s] # "new"
    /\ \A i \in 1 .. Len(entries) : entries[i].live \/ entries[i].sockets = << >>
    /\ \A i, k \in Places : entries[i].user = entries[k].user => i = k

LEMMA EntryFields ==
    ASSUME NEW e \in Entry
    PROVE  e.user \in Clients /\ e.sockets \in Seq(SocketIds) /\ e.live \in BOOLEAN
BY DEF Entry

\* connect puts the socket in one place, which nothing had.
LEMMA ConnectLists ==
    ASSUME ListsInv, NEW s \in SocketIds, NEW u \in Clients, Connect(s, u)
    PROVE  /\ entries' \in Seq(Entry) /\ Len(entries') >= Len(entries)
           /\ \E a \in Nat, b \in Nat :
                 \A x, i, j : At(x, i, j)' <=> At(x, i, j) \/ (x = s /\ i = a /\ j = b)
           /\ \A i \in 1 .. Len(entries') : entries'[i].live \/ entries'[i].sockets = << >>
           /\ \A i, k \in Places' : entries'[i].user = entries'[k].user => i = k
<1>0. /\ Len(entries) \in Nat /\ entries \in [1 .. Len(entries) -> Entry]
      /\ DOMAIN entries = 1 .. Len(entries)
  BY LenProperties DEF ListsInv
<1>1. CASE KeyOf(u) = {}
  <2> DEFINE e == [user |-> u, sockets |-> <<s>>, live |-> TRUE]
             a == Len(entries) + 1
  <2>1. entries' = Append(entries, e)
    BY <1>1 DEF Connect
  <2>2. e \in Entry /\ e.user = u /\ e.sockets = <<s>> /\ e.live = TRUE
    BY DEF Entry
  <2>3. /\ entries' \in Seq(Entry) /\ Len(entries') = a
        /\ \A i \in 1 .. Len(entries) : entries'[i] = entries[i]
        /\ entries'[a] = e
    <3> HIDE DEF e
    <3> QED
      BY <1>0, <2>1, <2>2 DEF ListsInv
  <2>4. \A x, i, j : At(x, i, j)' <=> At(x, i, j) \/ (x = s /\ i = a /\ j = 1)
    <3> SUFFICES ASSUME NEW x, NEW i, NEW j
                 PROVE  At(x, i, j)' <=> At(x, i, j) \/ (x = s /\ i = a /\ j = 1)
      OBVIOUS
    <3>1. CASE i \in 1 .. Len(entries)
      BY <1>0, <2>3, <3>1 DEF At
    <3>2. CASE i = a
      <4>1. Len(<<s>>) = 1 /\ <<s>>[1] = s
        OBVIOUS
      <4>2. At(x, i, j)' <=> j \in 1 .. 1 /\ <<s>>[j] = x
        BY <1>0, <2>2, <2>3, <3>2, <4>1 DEF At
      <4>3. ~At(x, i, j)
        BY <1>0, <3>2 DEF At
      <4> QED
        BY <3>2, <4>1, <4>2, <4>3
    <3>3. CASE i \notin 1 .. a
      BY <1>0, <2>3, <3>3 DEF At
    <3> QED
      BY <1>0, <3>1, <3>2, <3>3
  <2>5. \A i \in 1 .. Len(entries') : entries'[i].live \/ entries'[i].sockets = << >>
    BY <1>0, <2>2, <2>3 DEF ListsInv
  <2>6. \A i \in Places' : \/ i \in Places /\ entries'[i] = entries[i]
                           \/ i = a /\ entries'[i].user = u
    BY <1>0, <2>2, <2>3 DEF Places
  <2>7. \A i \in Places : entries[i].user # u
    BY <1>1 DEF KeyOf
  <2>8. \A i, k \in Places' : entries'[i].user = entries'[k].user => i = k
    BY <2>6, <2>7 DEF ListsInv
  <2>9. a \in Nat /\ 1 \in Nat /\ Len(entries') >= Len(entries)
    BY <1>0, <2>3
  <2> QED
    BY <2>3, <2>4, <2>5, <2>8, <2>9
<1>2. CASE KeyOf(u) # {}
  <2>1. PICK a \in 1 .. Len(entries) : KeyOf(u) = {a} /\ entries[a].live
    BY <1>2 DEF KeyOf, Places, ListsInv
  <2> DEFINE list == entries[a].sockets
             more == [entries[a] EXCEPT !.sockets = Append(list, s)]
             b == Len(list) + 1
  <2>2. /\ list \in Seq(SocketIds) /\ Append(list, s) \in Seq(SocketIds)
        /\ Len(list) \in Nat /\ Len(Append(list, s)) = b
        /\ \A j \in 1 .. b : Append(list, s)[j] = IF j = b THEN s ELSE list[j]
    <3>1. list \in Seq(SocketIds)
      BY <1>0, <2>1, EntryFields
    <3> HIDE DEF list
    <3> QED
      BY <3>1
  <2>3. /\ more \in Entry /\ more.user = entries[a].user
        /\ more.sockets = Append(list, s) /\ more.live = entries[a].live
    <3> DEFINE e == entries[a]
               q == Append(list, s)
    <3>1. e \in Entry /\ q \in Seq(SocketIds)
      BY <1>0, <2>1, <2>2
    <3>2. more = [e EXCEPT !.sockets = q]
      OBVIOUS
    <3>3. /\ [e EXCEPT !.sockets = q] \in Entry
          /\ [e EXCEPT !.sockets = q].user = e.user
          /\ [e EXCEPT !.sockets = q].sockets = q /\ [e EXCEPT !.sockets = q].live = e.live
      <4> HIDE DEF e, q, more
      <4> QED
        BY <3>1 DEF Entry
    <3> HIDE DEF more
    <3> QED
      BY <3>2, <3>3
  <2>4. entries' = [i \in 1 .. Len(entries) |-> IF i = a THEN more ELSE entries[i]]
    BY <1>0, <1>2, <2>1 DEF Connect
  <2> HIDE DEF more
  <2>5. /\ entries' \in Seq(Entry) /\ Len(entries') = Len(entries)
        /\ \A i \in 1 .. Len(entries) : entries'[i] = IF i = a THEN more ELSE entries[i]
    <3>1. entries' \in [1 .. Len(entries) -> Entry]
      BY <1>0, <2>3, <2>4
    <3> QED
      BY <1>0, <2>4, <3>1, FunctionSeq
  <2>6. \A x, i, j : At(x, i, j)' <=> At(x, i, j) \/ (x = s /\ i = a /\ j = b)
    <3> SUFFICES ASSUME NEW x, NEW i, NEW j
                 PROVE  At(x, i, j)' <=> At(x, i, j) \/ (x = s /\ i = a /\ j = b)
      OBVIOUS
    <3>1. CASE i # a
      BY <1>0, <2>5, <3>1 DEF At
    <3>2. CASE i = a
      <4>1. At(x, i, j)' <=> j \in 1 .. b /\ Append(list, s)[j] = x
        BY <2>1, <2>2, <2>3, <2>5, <3>2 DEF At
      <4>2. At(x, i, j) <=> j \in 1 .. Len(list) /\ list[j] = x
        BY <2>1, <3>2 DEF At
      <4>3. j \in 1 .. b <=> j \in 1 .. Len(list) \/ j = b
        BY <2>2
      <4>4. b \notin 1 .. Len(list)
        BY <2>2
      <4> HIDE DEF b, list
      <4> QED
        BY <2>2, <3>2, <4>1, <4>2, <4>3, <4>4
    <3> QED
      BY <3>1, <3>2
  <2>7. \A i \in 1 .. Len(entries') : entries'[i].live \/ entries'[i].sockets = << >>
    BY <2>1, <2>3, <2>5 DEF ListsInv
  <2>8. \A i \in Places' : i \in Places /\ entries'[i].user = entries[i].user
    BY <2>3, <2>5 DEF Places
  <2>9. \A i, k \in Places' : entries'[i].user = entries'[k].user => i = k
    BY <2>8 DEF ListsInv
  <2>10. a \in Nat /\ b \in Nat /\ Len(entries') >= Len(entries)
    BY <1>0, <2>2, <2>5
  <2> QED
    BY <2>5, <2>6, <2>7, <2>9, <2>10
<1> QED
  BY <1>1, <1>2

\* disconnect takes the socket out, and those behind it move up.
LEMMA DisconnectLists ==
    ASSUME ListsInv, NEW s \in SocketIds, Disconnect(s)
    PROVE  /\ entries' \in Seq(Entry) /\ Len(entries') = Len(entries)
           /\ \E a \in Nat, b \in Nat :
                 /\ At(s, a, b)
                 /\ \A x, i : \A j \in Nat :
                       At(x, i, j)' <=> IF i = a /\ j >= b THEN At(x, i, j + 1) ELSE At(x, i, j)
           /\ \A i \in 1 .. Len(entries') : entries'[i].live \/ entries'[i].sockets = << >>
           /\ \A i, k \in Places' : entries'[i].user = entries'[k].user => i = k
<1>0. /\ Len(entries) \in Nat /\ entries \in [1 .. Len(entries) -> Entry]
      /\ DOMAIN entries = 1 .. Len(entries)
  BY LenProperties DEF ListsInv
<1> DEFINE rest(i) == RemoveFirst(entries[i].sockets, s)
           less(i) == [entries[i] EXCEPT !.sockets = rest(i), !.live = @ /\ rest(i) # << >>]
<1>1. PICK a, b : At(s, a, b)
  BY DEF Disconnect, ListsInv
<1>2. /\ a \in 1 .. Len(entries) /\ b \in 1 .. Len(entries[a].sockets)
      /\ entries[a].sockets[b] = s /\ b \in Nat /\ a \in Nat
  BY <1>0, <1>1 DEF At
<1>3. \A i, j : At(s, i, j) => i = a /\ j = b
  BY <1>1 DEF ListsInv
<1>4. \A i \in 1 .. Len(entries) : \A j \in 1 .. Len(entries[i].sockets) :
          entries[i].sockets[j] = s => i = a /\ j = b
  BY <1>3 DEF At
<1>5. \A i \in 1 .. Len(entries) : entries[i] \in Entry /\ entries[i].sockets \in Seq(SocketIds)
  BY <1>0, EntryFields
<1>6. \A i \in 1 .. Len(entries) : i # a => rest(i) = entries[i].sockets
  <2> SUFFICES ASSUME NEW i \in 1 .. Len(entries), i # a PROVE rest(i) = entries[i].sockets
    OBVIOUS
  <2> DEFINE list == entries[i].sockets
  <2>1. list \in Seq(SocketIds) /\ \A j \in 1 .. Len(list) : list[j] # s
    BY <1>4, <1>5
  <2> HIDE DEF list
  <2>2. RemoveFirst(list, s) = list
    BY <2>1, RemoveNone
  <2> QED
    BY <2>2 DEF list
<1>7. /\ rest(a) \in Seq(SocketIds) /\ Len(rest(a)) = Len(entries[a].sockets) - 1
      /\ \A j \in 1 .. Len(rest(a)) :
            rest(a)[j] = IF j < b THEN entries[a].sockets[j] ELSE entries[a].sockets[j + 1]
  <2> DEFINE list == entries[a].sockets
  <2>1. list \in Seq(SocketIds) /\ s = list[b] /\ b \in 1 .. Len(list)
        /\ \A j \in 1 .. Len(list) : list[j] = list[b] => j = b
    BY <1>2, <1>4, <1>5
  <2> HIDE DEF list
  <2>2. /\ RemoveFirst(list, s) \in Seq(SocketIds) /\ Len(RemoveFirst(list, s)) = Len(list) - 1
        /\ \A j \in 1 .. Len(RemoveFirst(list, s)) :
              RemoveFirst(list, s)[j] = IF j < b THEN list[j] ELSE list[j + 1]
    BY <2>1, RemoveOnce
  <2> QED
    BY <2>2 DEF list
<1>8. \A i \in 1 .. Len(entries) : rest(i) \in Seq(SocketIds)
  BY <1>5, <1>6, <1>7
<1>9. ASSUME NEW i \in 1 .. Len(entries)
      PROVE  /\ less(i) \in Entry /\ less(i).user = entries[i].user
             /\ less(i).sockets = rest(i)
             /\ less(i).live <=> entries[i].live /\ rest(i) # << >>
  <2> DEFINE e == entries[i]
             q == rest(i)
             l == e.live /\ q # << >>
  <2>1. e \in Entry /\ q \in Seq(SocketIds) /\ l \in BOOLEAN
    BY <1>5, <1>8
  <2>2. less(i) = [e EXCEPT !.sockets = q, !.live = l]
    OBVIOUS
  <2>3. /\ [e EXCEPT !.sockets = q, !.live = l] \in Entry
        /\ [e EXCEPT !.sockets = q, !.live = l].user = e.user
        /\ [e EXCEPT !.sockets = q, !.live = l].sockets = q
        /\ [e EXCEPT !.sockets = q, !.live = l].live = l
    <3> HIDE DEF e, q, l
    <3> QED
      BY <2>1 DEF Entry
  <2> HIDE DEF less
  <2> QED
    BY <2>2, <2>3
<1>10. entries' = [i \in 1 .. Len(entries) |-> less(i)]
  BY <1>0 DEF Disconnect
<1> HIDE DEF less, rest
<1>11. /\ entries' \in Seq(Entry) /\ Len(entries') = Len(entries)
       /\ \A i \in 1 .. Len(entries) :
             /\ entries'[i].user = entries[i].user /\ entries'[i].sockets = rest(i)
             /\ entries'[i].live <=> entries[i].live /\ rest(i) # << >>
  <2>1. entries' \in [1 .. Len(entries) -> Entry]
    BY <1>9, <1>10
  <2>2. \A i \in 1 .. Len(entries) : entries'[i] = less(i)
    BY <1>10
  <2> QED
    BY <1>0, <1>9, <2>1, <2>2, FunctionSeq
<1>12. ASSUME NEW x, NEW i, NEW j \in Nat
       PROVE  At(x, i, j)' <=> IF i = a /\ j >= b THEN At(x, i, j + 1) ELSE At(x, i, j)
  <2>1. CASE i # a
    BY <1>6, <1>11, <2>1 DEF At
  <2>2. CASE i = a
    <3> DEFINE list == entries[a].sockets
    <3>1. At(x, i, j)' <=> j \in 1 .. Len(rest(a)) /\ rest(a)[j] = x
      BY <1>2, <1>11, <2>2 DEF At
    <3>2. \A k \in Nat : At(x, i, k) <=> k \in 1 .. Len(list) /\ list[k] = x
      BY <1>2, <2>2 DEF At
    <3>3. Len(list) \in Nat
      BY <1>2, <1>5
    <3> HIDE DEF list
    <3>4. b \in 1 .. Len(list) /\ Len(rest(a)) = Len(list) - 1
          /\ \A k \in 1 .. Len(list) - 1 : rest(a)[k] = IF k < b THEN list[k] ELSE list[k + 1]
      BY <1>2, <1>7 DEF list
    <3>5. CASE j >= b
      <4>1. j \in 1 .. Len(list) - 1 <=> j + 1 \in 1 .. Len(list)
        BY <3>3, <3>4, <3>5
      <4>2. j \in 1 .. Len(list) - 1 => rest(a)[j] = list[j + 1]
        BY <1>2, <3>4, <3>5
      <4>3. At(x, i, j + 1) <=> j + 1 \in 1 .. Len(list) /\ list[j + 1] = x
        BY <3>2
      <4> QED
        BY <2>2, <3>1, <3>4, <3>5, <4>1, <4>2, <4>3
    <3>6. CASE ~(j >= b)
      <4>1. j \in 1 .. Len(list) - 1 <=> j \in 1 .. Len(list)
        BY <1>2, <3>3, <3>4, <3>6
      <4>2. j \in 1 .. Len(list) - 1 => rest(a)[j] = list[j]
        BY <1>2, <3>4, <3>6
      <4> QED
        BY <2>2, <3>1, <3>2, <3>4, <3>6, <4>1, <4>2
    <3> QED
      BY <3>5, <3>6
  <2> QED
    BY <2>1, <2>2
<1>13. \A i \in 1 .. Len(entries') : entries'[i].live \/ entries'[i].sockets = << >>
  <2> SUFFICES ASSUME NEW i \in 1 .. Len(entries), ~entries[i].live PROVE rest(i) = << >>
    BY <1>11
  <2>1. entries[i].sockets = << >>
    BY DEF ListsInv
  <2>2. i # a
    BY <1>2, <2>1
  <2> QED
    BY <1>6, <2>1, <2>2
<1>14. \A i, k \in Places' : entries'[i].user = entries'[k].user => i = k
  BY <1>11 DEF Places, ListsInv
<1> QED
  BY <1>1, <1>2, <1>11, <1>12, <1>13, <1>14

LEMMA AtType ==
    ASSUME NEW s, NEW i, NEW j, At(s, i, j)
    PROVE  /\ i \in Nat /\ j \in Nat /\ i >= 1 /\ j >= 1
           /\ i \in 1 .. Len(entries) /\ entries[i].sockets[j] = s
BY DEF At

\* Every step keeps the lists as they should be.
LEMMA ListsStep ==
    ASSUME ListsInv, [SocketsNext]_socketVars
    PROVE  ListsInv'
<1>1. ASSUME NEW s \in SocketIds, NEW u \in Clients, Connect(s, u) PROVE ListsInv'
  <2>1. PICK a \in Nat, b \in Nat :
           \A x, i, j : At(x, i, j)' <=> At(x, i, j) \/ (x = s /\ i = a /\ j = b)
    BY <1>1, ConnectLists
  <2>2. socket[s] = "new" /\ socket' = [socket EXCEPT ![s] = "open"]
    BY <1>1 DEF Connect
  <2>3. \A i, j : ~At(s, i, j)
    BY <2>2 DEF ListsInv
  <2>4. \A x, i, j, k, l : At(x, i, j)' /\ At(x, k, l)' => i = k /\ j = l
    BY <2>1, <2>3 DEF ListsInv
  <2>5. \A x \in SocketIds : socket'[x] \in {"open", "closed"} => \E i, j : At(x, i, j)'
    BY <2>1, <2>2 DEF ListsInv
  <2>6. \A x, i, j : At(x, i, j)' => x \in SocketIds /\ socket'[x] # "new"
    BY <2>1, <2>2 DEF ListsInv
  <2>7. socket' \in [SocketIds -> {"new", "open", "closed", "gone", "stuck"}]
    BY <2>2 DEF ListsInv
  <2> QED
    BY <1>1, <2>4, <2>5, <2>6, <2>7, ConnectLists DEF ListsInv
<1>2. ASSUME NEW s \in SocketIds, Disconnect(s) PROVE ListsInv'
  <2>1. PICK a \in Nat, b \in Nat :
           /\ At(s, a, b)
           /\ \A x, i : \A j \in Nat :
                 At(x, i, j)' <=> IF i = a /\ j >= b THEN At(x, i, j + 1) ELSE At(x, i, j)
    BY <1>2, DisconnectLists
  <2>2. socket' = [socket EXCEPT ![s] = "gone"]
    BY <1>2 DEF Disconnect
  <2>3. ASSUME NEW x, NEW i, NEW j, At(x, i, j)'
        PROVE  /\ i \in Nat /\ j \in Nat
               /\ IF i = a /\ j >= b THEN At(x, i, j + 1) ELSE At(x, i, j)
    <3>1. i \in Nat /\ j \in Nat
      BY <2>3 DEF At
    <3> QED
      BY <2>1, <2>3, <3>1
  <2>4. ASSUME NEW x, NEW i, NEW j, NEW k, NEW l, At(x, i, j)', At(x, k, l)'
        PROVE  i = k /\ j = l
    <3>1. /\ i \in Nat /\ j \in Nat /\ k \in Nat /\ l \in Nat
          /\ IF i = a /\ j >= b THEN At(x, i, j + 1) ELSE At(x, i, j)
          /\ IF k = a /\ l >= b THEN At(x, k, l + 1) ELSE At(x, k, l)
      BY <2>3, <2>4
    <3>2. i = k /\ (IF i = a /\ j >= b THEN j + 1 ELSE j) = (IF k = a /\ l >= b THEN l + 1 ELSE l)
      <4>1. At(x, i, IF i = a /\ j >= b THEN j + 1 ELSE j)
        BY <3>1
      <4>2. At(x, k, IF k = a /\ l >= b THEN l + 1 ELSE l)
        BY <3>1
      <4> QED
        BY <4>1, <4>2 DEF ListsInv
    <3> QED
      BY <3>1, <3>2
  <2>5. ASSUME NEW x \in SocketIds, socket'[x] \in {"open", "closed"}
        PROVE  \E i, j : At(x, i, j)'
    <3>1. x # s /\ socket[x] \in {"open", "closed"}
      BY <2>2, <2>5 DEF ListsInv
    <3>2. PICK i, j : At(x, i, j)
      BY <3>1 DEF ListsInv
    <3>3. i \in Nat /\ j \in Nat /\ j >= 1
      BY <3>2, AtType
    <3>4. CASE i = a /\ j >= b
      <4>1. j # b
        BY <2>1, <3>1, <3>2, <3>4 DEF At
      <4>2. j - 1 \in Nat /\ j - 1 >= b /\ (j - 1) + 1 = j
        BY <3>3, <3>4, <4>1
      <4>3. At(x, i, j - 1)'
        BY <2>1, <3>2, <3>4, <4>2
      <4> QED
        BY <4>3
    <3>5. CASE ~(i = a /\ j >= b)
      BY <2>1, <3>2, <3>3, <3>5
    <3> QED
      BY <3>4, <3>5
  <2>6. ASSUME NEW x, NEW i, NEW j, At(x, i, j)'
        PROVE  x \in SocketIds /\ socket'[x] # "new"
    BY <2>2, <2>3, <2>6 DEF ListsInv
  <2>7. socket' \in [SocketIds -> {"new", "open", "closed", "gone", "stuck"}]
    BY <2>2 DEF ListsInv
  <2> QED
    BY <1>2, <2>4, <2>5, <2>6, <2>7, DisconnectLists DEF ListsInv
<1>3. ASSUME entries' = entries,
             socket' = socket \/ \E s \in SocketIds : socket[s] \in {"open", "closed"} /\
                        \/ socket' = [socket EXCEPT ![s] = "closed"]
                        \/ socket' = [socket EXCEPT ![s] = "stuck"]
      PROVE  ListsInv'
  <2>1. \A x, i, j : At(x, i, j)' <=> At(x, i, j)
    BY <1>3 DEF At
  <2>2. Places' = Places
    BY <1>3 DEF Places
  <2>3. /\ socket' \in [SocketIds -> {"new", "open", "closed", "gone", "stuck"}]
        /\ \A s \in SocketIds : /\ socket'[s] = "new" <=> socket[s] = "new"
                                /\ socket'[s] \in {"open", "closed"}
                                      => socket[s] \in {"open", "closed"}
    BY <1>3 DEF ListsInv
  <2> QED
    BY <1>3, <2>1, <2>2, <2>3 DEF ListsInv
<1>4. ASSUME NEW s \in SocketIds, EndpointFails(s) \/ ClientLeaves(s) PROVE ListsInv'
  BY <1>3, <1>4 DEF EndpointFails, ClientLeaves
<1>5. CASE BeginBroadcast \/ NextKey \/ Send \/ EndBroadcast
  BY <1>3, <1>5 DEF BeginBroadcast, NextKey, Send, EndBroadcast
<1>6. CASE UNCHANGED socketVars
  BY <1>3, <1>6 DEF socketVars
<1> QED
  BY <1>1, <1>2, <1>4, <1>5, <1>6 DEF SocketsNext, WebsocketEndpoint

-----------------------------------------------------------------------------
(* Sockets: what a broadcast has reached.                                   *)

Cast == [at : {"idle", "choosing", "sending", "done", "failed"}, keys : Nat,
         entry : Nat, place : Nat, audience : SUBSET SocketIds]

Iterating == cast.at \in {"choosing", "sending"}

\* The places the iteration has left behind.
Passed(i, j) == \/ i < cast.entry
                \/ i = cast.entry /\ (cast.at = "sending" => j < cast.place)

\* Who is listed further on has not been sent anything, and behind the cursor
\* everyone has, until a removal moves someone across it.
CastTypes ==
    /\ cast \in Cast
    /\ got \in [SocketIds -> {0, 1}]
    /\ left \in BOOLEAN
    /\ cast.at = "sending" => cast.entry \in 1 .. Len(entries) /\ cast.place >= 1
    /\ cast.entry <= Len(entries)
    /\ \A s \in SocketIds : socket[s] = "new" => got[s] = 0 /\ s \notin cast.audience

Sent ==
    \A s, i, j : At(s, i, j) =>
        /\ ~Passed(i, j) => got[s] = 0
        /\ Passed(i, j) /\ ~left /\ s \in cast.audience /\ socket[s] = "open" => got[s] = 1

CastInv == CastTypes /\ (Iterating => Sent) /\ BroadcastDelivers

ToKey(c, i) == [c EXCEPT !.at = "sending", !.entry = i, !.place = 1]
ToPlace(c, n) == [c EXCEPT !.place = n]

LEMMA CastFields ==
    ASSUME NEW c \in Cast
    PROVE  /\ c.keys \in Nat /\ c.entry \in Nat /\ c.place \in Nat
           /\ c.audience \subseteq SocketIds
           /\ \A at \in {"done", "failed", "choosing"} :
                 /\ [c EXCEPT !.at = at] \in Cast /\ [c EXCEPT !.at = at].at = at
                 /\ [c EXCEPT !.at = at].entry = c.entry
                 /\ [c EXCEPT !.at = at].audience = c.audience
BY DEF Cast

LEMMA KeyFields ==
    ASSUME NEW c \in Cast, NEW i \in Nat
    PROVE  /\ ToKey(c, i) \in Cast /\ ToKey(c, i).at = "sending" /\ ToKey(c, i).entry = i
           /\ ToKey(c, i).place = 1 /\ ToKey(c, i).audience = c.audience
BY DEF Cast, ToKey

LEMMA PlaceFields ==
    ASSUME NEW c \in Cast, NEW n \in Nat
    PROVE  /\ ToPlace(c, n) \in Cast /\ ToPlace(c, n).at = c.at
           /\ ToPlace(c, n).entry = c.entry /\ ToPlace(c, n).place = n
           /\ ToPlace(c, n).audience = c.audience
BY DEF Cast, ToPlace

\* A step of anyone but the broadcast.
LEMMA CastWaits ==
    ASSUME ListsInv, CastInv, cast' = cast, got' = got, left' \in BOOLEAN,
           Len(entries') >= Len(entries), Len(entries') \in Nat, Len(entries) \in Nat,
           left => left',
           \A s \in SocketIds : /\ socket'[s] = "new" => socket[s] = "new"
                                /\ socket'[s] = "open" => socket[s] \in {"new", "open"},
           \A s, i, j : At(s, i, j)' =>
              /\ s \in SocketIds
              /\ \/ At(s, i, j)
                 \/ socket[s] = "new"
                 \/ left' /\ j \in Nat /\ At(s, i, j + 1)
    PROVE  CastInv'
<1>1. Iterating' = Iterating /\ \A i, j : Passed(i, j)' = Passed(i, j)
  BY DEF Iterating, Passed
<1>2. cast.entry \in Nat /\ cast.place \in Nat
  BY CastFields DEF CastInv, CastTypes, Sent
<1>3. ASSUME NEW i, NEW j \in Nat, ~Passed(i, j) PROVE ~Passed(i, j + 1)
  BY <1>2, <1>3 DEF Passed
<1>4. ASSUME Iterating, NEW s, NEW i, NEW j, At(s, i, j)'
      PROVE  /\ ~Passed(i, j) => got[s] = 0
             /\ Passed(i, j) /\ ~left' /\ s \in cast.audience /\ socket'[s] = "open" => got[s] = 1
  <2>1. s \in SocketIds
    BY <1>4
  <2>2. CASE At(s, i, j)
    BY <1>4, <2>1, <2>2 DEF CastInv, CastTypes, Sent
  <2>3. CASE socket[s] = "new"
    BY <2>1, <2>3 DEF CastInv, CastTypes, Sent
  <2>4. CASE left' /\ j \in Nat /\ At(s, i, j + 1)
    BY <1>3, <1>4, <2>1, <2>4 DEF CastInv, CastTypes, Sent
  <2> QED
    BY <1>4, <2>2, <2>3, <2>4
<1>5. BroadcastDelivers'
  BY CastFields DEF CastInv, CastTypes, Sent, BroadcastDelivers
<1>6. cast'.at = "sending" => cast'.entry \in 1 .. Len(entries') /\ cast'.place >= 1
  BY DEF CastInv, CastTypes, Sent
<1>7. cast'.entry <= Len(entries')
  BY <1>2 DEF CastInv, CastTypes, Sent
<1>8. \A s \in SocketIds : socket'[s] = "new" => got'[s] = 0 /\ s \notin cast'.audience
  BY DEF CastInv, CastTypes, Sent
<1> QED
  BY <1>1, <1>4, <1>5, <1>6, <1>7, <1>8 DEF CastInv, CastTypes, Sent

LEMMA PlacesType ==
    ASSUME ListsInv
    PROVE  Cardinality(Places) \in Nat /\ Len(entries) \in Nat
<1>1. Len(entries) \in Nat
  BY LenProperties DEF ListsInv
<1>2. IsFiniteSet(1 .. Len(entries)) /\ Places \subseteq 1 .. Len(entries)
  BY <1>1, FS_Interval DEF Places
<1> QED
  BY <1>1, <1>2, FS_Subset, FS_CardinalityType

\* A broadcast that returns has reached every connection that was open when it
\* began and stayed so, unless another was taken out meanwhile, and nobody is
\* sent the message twice, for any users and sockets and whoever comes and goes
\* (broadcast, connect, disconnect).
THEOREM BroadcastDeliversHolds == SocketsSpec => []BroadcastDelivers
<1>1. SocketsInit => ListsInv /\ CastInv
  <2>1. Quiet \in Cast /\ Quiet.at = "idle" /\ Quiet.entry = 0 /\ Quiet.audience = {}
    BY DEF Quiet, Cast
  <2>2. ASSUME SocketsInit PROVE \A s, i, j : ~At(s, i, j)
    BY <2>2 DEF SocketsInit, At
  <2>3. ASSUME SocketsInit PROVE entries \in Seq(Entry) /\ Len(entries) = 0 /\ Places = {}
    BY <2>3 DEF SocketsInit, Places
  <2> SUFFICES ASSUME SocketsInit PROVE ListsInv /\ CastInv
    OBVIOUS
  <2>4. /\ entries = << >> /\ cast = Quiet /\ left = FALSE
        /\ socket = [s \in SocketIds |-> "new"] /\ got = [s \in SocketIds |-> 0]
    BY DEF SocketsInit
  <2>5. ListsInv
    BY <2>2, <2>3, <2>4 DEF ListsInv
  <2>6. BroadcastDelivers
    BY <2>1, <2>4 DEF BroadcastDelivers
  <2>7. CastTypes
    <3>1. got \in [SocketIds -> {0, 1}] /\ \A s \in SocketIds : got[s] = 0
      BY <2>4
    <3>2. left \in BOOLEAN
      BY <2>4, Zenon
    <3> QED
      BY <2>1, <2>3, <2>4, <3>1, <3>2 DEF CastTypes
  <2>8. ~Iterating
    BY <2>1, <2>4 DEF Iterating
  <2> QED
    BY <2>5, <2>6, <2>7, <2>8, Zenon DEF CastInv
<1>2. ListsInv /\ CastInv /\ [SocketsNext]_socketVars => ListsInv' /\ CastInv'
  <2> SUFFICES ASSUME ListsInv, CastInv, [SocketsNext]_socketVars PROVE ListsInv' /\ CastInv'
    OBVIOUS
  <2>0. ListsInv'
    BY ListsStep
  <2>1. Len(entries) \in Nat /\ Len(entries') \in Nat
    BY <2>0, LenProperties DEF ListsInv
  <2>2. /\ cast \in Cast /\ cast.entry \in Nat /\ cast.place \in Nat
        /\ \A s, i, j : At(s, i, j) => s \in SocketIds
    BY CastFields DEF CastInv, CastTypes, Sent, ListsInv
  <2>3. ASSUME NEW s \in SocketIds, NEW u \in Clients, Connect(s, u) PROVE CastInv'
    <3>1. cast' = cast /\ got' = got /\ left' = left /\ socket[s] = "new"
          /\ socket' = [socket EXCEPT ![s] = "open"] /\ Len(entries') >= Len(entries)
      BY <2>3, ConnectLists DEF Connect
    <3>2. PICK a \in Nat, b \in Nat :
             \A x, i, j : At(x, i, j)' <=> At(x, i, j) \/ (x = s /\ i = a /\ j = b)
      BY <2>3, ConnectLists
    <3>3. \A x \in SocketIds : /\ socket'[x] = "new" => socket[x] = "new"
                               /\ socket'[x] = "open" => socket[x] \in {"new", "open"}
      BY <3>1 DEF ListsInv
    <3>4. left' \in BOOLEAN /\ (left => left')
      BY <3>1 DEF CastInv, CastTypes, Sent
    <3>5. \A x, i, j : At(x, i, j)' =>
              /\ x \in SocketIds
              /\ \/ At(x, i, j)
                 \/ socket[x] = "new"
                 \/ left' /\ j \in Nat /\ At(x, i, j + 1)
      BY <2>2, <3>1, <3>2
    <3> QED
      BY <2>1, <3>1, <3>3, <3>4, <3>5, CastWaits, Zenon
  <2>4. ASSUME NEW s \in SocketIds, Disconnect(s) PROVE CastInv'
    <3>1. cast' = cast /\ got' = got /\ left' = TRUE /\ socket' = [socket EXCEPT ![s] = "gone"]
      BY <2>4 DEF Disconnect
    <3>6. Len(entries') >= Len(entries)
      BY <2>1, <2>4, DisconnectLists
    <3>7. left' \in BOOLEAN /\ (left => left')
      BY <3>1
    <3>2. PICK a \in Nat, b \in Nat :
             \A x, i : \A j \in Nat :
                At(x, i, j)' <=> IF i = a /\ j >= b THEN At(x, i, j + 1) ELSE At(x, i, j)
      BY <2>4, DisconnectLists
    <3>3. \A x, i, j : At(x, i, j)' => j \in Nat
      BY DEF At
    <3>4. \A x \in SocketIds : /\ socket'[x] = "new" => socket[x] = "new"
                               /\ socket'[x] = "open" => socket[x] \in {"new", "open"}
      BY <3>1 DEF ListsInv
    <3>5. \A x, i, j : At(x, i, j)' =>
              /\ x \in SocketIds
              /\ \/ At(x, i, j)
                 \/ socket[x] = "new"
                 \/ left' /\ j \in Nat /\ At(x, i, j + 1)
      BY <2>2, <3>1, <3>2, <3>3
    <3> QED
      BY <2>1, <3>1, <3>4, <3>5, <3>6, <3>7, CastWaits, Zenon
  <2>5. ASSUME NEW s \in SocketIds, EndpointFails(s) \/ ClientLeaves(s) PROVE CastInv'
    <3>1. entries' = entries /\ cast' = cast /\ got' = got /\ left' = left
      BY <2>5 DEF EndpointFails, ClientLeaves
    <3>2. \A x, i, j : At(x, i, j)' <=> At(x, i, j)
      BY <3>1 DEF At
    <3>3. \A x \in SocketIds : /\ socket'[x] = "new" => socket[x] = "new"
                               /\ socket'[x] = "open" => socket[x] \in {"new", "open"}
      BY <2>5 DEF EndpointFails, ClientLeaves, ListsInv
    <3>4. left' \in BOOLEAN /\ (left => left') /\ Len(entries') >= Len(entries)
      BY <2>1, <3>1 DEF CastInv, CastTypes, Sent
    <3> QED
      BY <2>1, <2>2, <3>1, <3>2, <3>3, <3>4, CastWaits, Zenon
  <2>6. CASE BeginBroadcast
    <3> DEFINE c == [Quiet EXCEPT !.at = "choosing", !.keys = Cardinality(Places),
                                  !.audience = {s \in SocketIds : socket[s] = "open"}]
    <3>1. /\ cast' = c /\ got' = [s \in SocketIds |-> 0] /\ left' = FALSE
          /\ UNCHANGED <<entries, socket>>
      BY <2>6 DEF BeginBroadcast
    <3>2. /\ c \in Cast /\ c.at = "choosing" /\ c.entry = 0
          /\ c.audience = {s \in SocketIds : socket[s] = "open"}
      BY PlacesType DEF Quiet, Cast
    <3> HIDE DEF c
    <3>3. ASSUME NEW s, NEW i, NEW j, At(s, i, j)' PROVE ~Passed(i, j)' /\ s \in SocketIds
      BY <2>2, <3>1, <3>2, <3>3 DEF At, Passed
    <3>4. BroadcastDelivers'
      BY <3>1, <3>2 DEF BroadcastDelivers
    <3> QED
      <4>1. CastTypes'
        <5>1. got' \in [SocketIds -> {0, 1}] /\ \A s \in SocketIds : got'[s] = 0
          BY <3>1
        <5>2. left' \in BOOLEAN
          BY <3>1, Zenon
        <5>3. \A s \in SocketIds : socket'[s] = "new" => s \notin cast'.audience
          BY <3>1, <3>2
        <5> QED
          BY <2>1, <3>1, <3>2, <5>1, <5>2, <5>3 DEF CastTypes
      <4>2. Sent'
        BY <3>1, <3>3 DEF Sent
      <4> QED
        BY <2>0, <3>4, <4>1, <4>2, Zenon DEF CastInv
  <2>7. CASE NextKey
    <3>1. /\ cast.at = "choosing" /\ UNCHANGED <<entries, socket, got, left>>
          /\ \/ cast' = [cast EXCEPT !.at = "failed"]
             \/ /\ \A k \in Places : ~(k > cast.entry)
                /\ cast' = [cast EXCEPT !.at = "done"]
             \/ \E i \in Places :
                   /\ i > cast.entry /\ \A k \in Places : k > cast.entry => i <= k
                   /\ cast' = [cast EXCEPT !.at = "sending", !.entry = i, !.place = 1]
      BY <2>7 DEF NextKey
    <3>2. \A s, i, j : At(s, i, j)' <=> At(s, i, j)
      BY <3>1 DEF At
    <3>3. ASSUME NEW s, NEW i, NEW j, At(s, i, j)
          PROVE  /\ i \in Places /\ i \in Nat /\ j \in Nat /\ j >= 1 /\ s \in SocketIds
                 /\ Passed(i, j) <=> ~(i > cast.entry)
      <4>1. i \in 1 .. Len(entries) /\ j \in 1 .. Len(entries[i].sockets)
        BY <3>3 DEF At
      <4>2. j \in Nat /\ j >= 1 /\ i \in Nat
        BY <3>3, AtType
      <4>3. entries[i].sockets # << >>
        BY <4>1, <4>2
      <4>4. i \in Places
        BY <4>1, <4>3 DEF ListsInv, Places
      <4>5. Passed(i, j) <=> ~(i > cast.entry)
        <5>1. cast.at # "sending"
          BY <3>1
        <5> QED
          BY <2>2, <4>2, <5>1 DEF Passed
      <4> QED
        BY <2>2, <3>3, <4>2, <4>4, <4>5
    <3>4. /\ cast'.audience = cast.audience /\ cast'.entry <= Len(entries)
          /\ cast' \in Cast /\ cast'.entry \in Nat
          /\ \/ cast'.at = "failed"
             \/ cast'.at = "done" /\ \A k \in Places : ~(k > cast.entry)
             \/ /\ cast'.at = "sending" /\ cast'.place = 1 /\ cast'.entry \in Places
                /\ cast'.entry > cast.entry
                /\ \A k \in Places : k > cast.entry => cast'.entry <= k
      <4>1. CASE cast' = [cast EXCEPT !.at = "failed"]
        BY <2>2, <4>1, CastFields DEF CastInv, CastTypes, Sent
      <4>2. CASE /\ \A k \in Places : ~(k > cast.entry)
                 /\ cast' = [cast EXCEPT !.at = "done"]
        BY <2>2, <4>2, CastFields DEF CastInv, CastTypes, Sent
      <4>3. ASSUME NEW i \in Places,
                   i > cast.entry, \A k \in Places : k > cast.entry => i <= k,
                   cast' = [cast EXCEPT !.at = "sending", !.entry = i, !.place = 1]
            PROVE  /\ cast'.audience = cast.audience /\ cast'.entry <= Len(entries)
                   /\ cast' \in Cast /\ cast'.entry \in Nat
                   /\ cast'.at = "sending" /\ cast'.place = 1 /\ cast'.entry \in Places
                   /\ cast'.entry > cast.entry
                   /\ \A k \in Places : k > cast.entry => cast'.entry <= k
        <5>1. i \in Nat /\ i <= Len(entries)
          BY <2>1 DEF Places
        <5>2. /\ cast' \in Cast /\ cast'.entry = i /\ cast'.place = 1 /\ cast'.at = "sending"
              /\ cast'.audience = cast.audience
          <6>1. cast' = ToKey(cast, i)
            BY <4>3 DEF ToKey
          <6>2. /\ ToKey(cast, i) \in Cast /\ ToKey(cast, i).at = "sending"
                /\ ToKey(cast, i).entry = i /\ ToKey(cast, i).place = 1
                /\ ToKey(cast, i).audience = cast.audience
            BY <2>2, <5>1, KeyFields
          <6> QED
            BY <6>1, <6>2, Zenon
        <5> QED
          BY <4>3, <5>1, <5>2
      <4> QED
        BY <3>1, <4>1, <4>2, <4>3
    <3>5. Iterating' => cast'.at = "sending"
      BY <3>4 DEF Iterating
    <3>6. ASSUME Iterating', NEW s, NEW i, NEW j, At(s, i, j)
          PROVE  /\ ~Passed(i, j)' => got[s] = 0
                 /\ Passed(i, j)' /\ ~left /\ s \in cast.audience /\ socket[s] = "open" => got[s] = 1
      <4>1. Passed(i, j)' <=> i < cast'.entry
        BY <3>3, <3>4, <3>5, <3>6 DEF Passed
      <4>2. Passed(i, j)' <=> Passed(i, j)
        BY <2>2, <3>3, <3>4, <3>5, <3>6, <4>1
      <4>3. Iterating
        BY <3>1 DEF Iterating
      <4> QED
        BY <3>6, <4>2, <4>3 DEF CastInv, CastTypes, Sent
    <3>7. ASSUME cast'.at = "done", ~left, NEW s \in cast.audience, socket[s] = "open"
          PROVE  got[s] = 1
      <4>1. s \in SocketIds
        BY <2>2, CastFields
      <4>2. PICK i, j : At(s, i, j)
        BY <3>7, <4>1 DEF ListsInv
      <4>3. Passed(i, j)
        BY <3>3, <3>4, <3>7, <4>2
      <4> QED
        BY <3>1, <3>7, <4>2, <4>3 DEF CastInv, CastTypes, Sent, Iterating
    <3>8. BroadcastDelivers'
      BY <3>1, <3>4, <3>7 DEF CastInv, CastTypes, Sent, BroadcastDelivers
    <3>9. cast'.at = "sending" => cast'.entry \in 1 .. Len(entries') /\ cast'.place >= 1
      <4>1. ASSUME cast'.at = "sending" PROVE cast'.entry \in Places /\ cast'.place = 1
        BY <3>4, <4>1
      <4> QED
        <5>1. entries' = entries
          BY <3>1
        <5>2. \A k \in Places : k \in 1 .. Len(entries)
          BY DEF Places
        <5> QED
          BY <4>1, <5>1, <5>2
    <3> QED
      <4>1. CastTypes'
        BY <3>1, <3>4, <3>9 DEF CastInv, CastTypes
      <4>2. Iterating' => Sent'
        BY <3>1, <3>2, <3>4, <3>6 DEF Sent
      <4> QED
        BY <2>0, <3>8, <4>1, <4>2, Zenon DEF CastInv
  <2>8. CASE Send
    <3> DEFINE list == entries[cast.entry].sockets
               one == list[cast.place]
    <3>1. /\ cast.at = "sending" /\ UNCHANGED <<entries, socket, left>>
          /\ \/ /\ cast.place > Len(list) /\ got' = got
                /\ cast' = [cast EXCEPT !.at = "choosing"]
             \/ /\ cast.place <= Len(list) /\ socket[one] = "open"
                /\ got' = [got EXCEPT ![one] = @ + 1]
                /\ cast' = [cast EXCEPT !.place = @ + 1]
             \/ /\ got' = got
                /\ cast' = [cast EXCEPT !.at = "failed"]
      BY <2>8 DEF Send
    <3>2. \A s, i, j : At(s, i, j)' <=> At(s, i, j)
      BY <3>1 DEF At
    <3>3. /\ Iterating /\ cast.entry \in 1 .. Len(entries) /\ cast.place >= 1
          /\ list \in Seq(SocketIds) /\ Len(list) \in Nat
      <4>1. Iterating /\ cast.entry \in 1 .. Len(entries) /\ cast.place >= 1
        BY <3>1 DEF Iterating, CastInv, CastTypes, Sent
      <4>2. entries[cast.entry] \in Entry
        BY <4>1 DEF ListsInv
      <4>3. list \in Seq(SocketIds)
        BY <4>2, EntryFields
      <4> QED
        BY <4>1, <4>3, LenProperties
    <3>4. ASSUME NEW s, NEW i, NEW j, At(s, i, j)
          PROVE  /\ i \in Nat /\ j \in Nat /\ s \in SocketIds
                 /\ i = cast.entry => j <= Len(list) /\ s = list[j]
                 /\ Passed(i, j) <=> i < cast.entry \/ (i = cast.entry /\ j < cast.place)
      <4>1. i \in Nat /\ j \in Nat
        BY <3>4, AtType
      <4>2. i = cast.entry => j <= Len(list) /\ s = list[j]
        BY <3>3, <3>4, <4>1 DEF At
      <4> QED
        BY <2>2, <3>1, <3>4, <4>1, <4>2 DEF Passed
    <3>5. CASE /\ cast.place > Len(list) /\ got' = got
               /\ cast' = [cast EXCEPT !.at = "choosing"]
      <4>1. /\ cast' \in Cast /\ cast'.at = "choosing" /\ cast'.entry = cast.entry
            /\ cast'.audience = cast.audience
        BY <2>2, <3>5, CastFields
      <4>2. ASSUME NEW s, NEW i, NEW j, At(s, i, j) PROVE Passed(i, j)' <=> Passed(i, j)
        BY <2>2, <3>3, <3>4, <3>5, <4>1, <4>2 DEF Passed
      <4>3. BroadcastDelivers'
        BY <3>1, <3>5, <4>1 DEF CastInv, CastTypes, Sent, BroadcastDelivers
      <4>4. ASSUME NEW s, NEW i, NEW j, At(s, i, j)
            PROVE  /\ ~Passed(i, j)' => got[s] = 0
                   /\ Passed(i, j)' /\ ~left /\ s \in cast.audience /\ socket[s] = "open"
                         => got[s] = 1
        BY <3>3, <4>2, <4>4 DEF CastInv, CastTypes, Sent
      <4> QED
        <5>1. CastTypes'
          BY <3>1, <3>5, <4>1 DEF CastInv, CastTypes
        <5>2. Sent'
          BY <3>1, <3>2, <3>5, <4>1, <4>4 DEF Sent
        <5> QED
          BY <2>0, <4>3, <5>1, <5>2, Zenon DEF CastInv
    <3>6. CASE /\ cast.place <= Len(list) /\ socket[one] = "open"
               /\ got' = [got EXCEPT ![one] = @ + 1]
               /\ cast' = [cast EXCEPT !.place = @ + 1]
      <4>1. /\ cast' \in Cast /\ cast'.at = "sending" /\ cast'.entry = cast.entry
            /\ cast'.audience = cast.audience /\ cast'.place = cast.place + 1
        <5>1. cast.place + 1 \in Nat /\ cast' = ToPlace(cast, cast.place + 1)
          BY <2>2, <3>6 DEF ToPlace
        <5>2. /\ ToPlace(cast, cast.place + 1) \in Cast
              /\ ToPlace(cast, cast.place + 1).at = cast.at
              /\ ToPlace(cast, cast.place + 1).entry = cast.entry
              /\ ToPlace(cast, cast.place + 1).place = cast.place + 1
              /\ ToPlace(cast, cast.place + 1).audience = cast.audience
          BY <2>2, <5>1, PlaceFields
        <5> QED
          BY <3>1, <5>1, <5>2, Zenon
      <4>2. At(one, cast.entry, cast.place)
        BY <2>2, <3>3, <3>6 DEF At
      <4>3. one \in SocketIds /\ got[one] = 0
        <5>1. ~Passed(cast.entry, cast.place)
          BY <2>2, <3>4, <4>2
        <5> QED
          BY <2>2, <3>3, <4>2, <5>1 DEF CastInv, CastTypes, Sent
      <4>4. /\ got' \in [SocketIds -> {0, 1}] /\ got'[one] = 1
            /\ \A s \in SocketIds : s # one => got'[s] = got[s]
        <5> HIDE DEF one
        <5> QED
          BY <3>6, <4>3 DEF CastInv, CastTypes, Sent
      <4>5. ASSUME NEW s, NEW i, NEW j, At(s, i, j)
            PROVE  /\ ~Passed(i, j)' => got'[s] = 0
                   /\ Passed(i, j)' /\ ~left /\ s \in cast.audience /\ socket[s] = "open"
                         => got'[s] = 1
        <5>1. CASE s = one
          <6>1. i = cast.entry /\ j = cast.place
            BY <4>2, <4>5, <5>1 DEF ListsInv
          <6>2. Passed(i, j)'
            BY <2>2, <4>1, <6>1 DEF Passed
          <6> QED
            BY <4>4, <5>1, <6>2
        <5>2. CASE s # one
          <6>1. i = cast.entry => j # cast.place
            BY <3>4, <4>5, <5>2
          <6>2. Passed(i, j)' <=> i < cast.entry \/ (i = cast.entry /\ j < cast.place + 1)
            BY <4>1 DEF Passed
          <6>3. Passed(i, j)' <=> Passed(i, j)
            BY <2>2, <3>4, <4>5, <6>1, <6>2
          <6>4. got'[s] = got[s]
            BY <3>4, <4>4, <4>5, <5>2
          <6> QED
            BY <3>3, <4>5, <6>3, <6>4 DEF CastInv, CastTypes, Sent
        <5> QED
          BY <5>1, <5>2
      <4>6. BroadcastDelivers'
        BY <4>1, <4>4 DEF BroadcastDelivers
      <4>7. \A s \in SocketIds : socket[s] = "new" => got'[s] = 0 /\ s \notin cast.audience
        BY <3>6, <4>4 DEF CastInv, CastTypes, Sent
      <4>8. cast'.entry \in 1 .. Len(entries) /\ cast'.place >= 1
        BY <2>2, <3>3, <4>1
      <4> HIDE DEF one, list
      <4> QED
        <5>1. CastTypes'
          BY <3>1, <4>1, <4>4, <4>7, <4>8 DEF CastInv, CastTypes
        <5>2. Sent'
          BY <3>1, <3>2, <4>1, <4>5 DEF Sent
        <5> QED
          BY <2>0, <4>6, <5>1, <5>2, Zenon DEF CastInv
    <3>7. CASE got' = got /\ cast' = [cast EXCEPT !.at = "failed"]
      <4>1. /\ cast' \in Cast /\ cast'.at = "failed" /\ cast'.entry = cast.entry
            /\ cast'.audience = cast.audience
        BY <2>2, <3>7, CastFields
      <4>2. BroadcastDelivers'
        BY <3>1, <3>7, <4>1 DEF CastInv, CastTypes, Sent, BroadcastDelivers
      <4> QED
        <5>1. CastTypes'
          BY <3>1, <3>7, <4>1 DEF CastInv, CastTypes
        <5>2. ~Iterating'
          BY <4>1 DEF Iterating
        <5> QED
          BY <2>0, <4>2, <5>1, <5>2, Zenon DEF CastInv
    <3> QED
      BY <3>1, <3>5, <3>6, <3>7
  <2>9. CASE EndBroadcast
    <3>1. cast' = Quiet /\ UNCHANGED <<entries, socket, got, left>>
      BY <2>9 DEF EndBroadcast
    <3>2. Quiet \in Cast /\ Quiet.at = "idle" /\ Quiet.entry = 0 /\ Quiet.audience = {}
      BY DEF Quiet, Cast
    <3> QED
      <4>1. CastTypes'
        BY <2>1, <3>1, <3>2 DEF CastInv, CastTypes
      <4>2. ~Iterating' /\ BroadcastDelivers'
        BY <3>1, <3>2 DEF CastInv, CastTypes, Iterating, BroadcastDelivers
      <4> QED
        BY <2>0, <4>1, <4>2, Zenon DEF CastInv
  <2>10. CASE UNCHANGED socketVars
    <3>1. entries' = entries /\ socket' = socket /\ cast' = cast /\ got' = got /\ left' = left
      BY <2>10 DEF socketVars
    <3>2. \A x, i, j : At(x, i, j)' <=> At(x, i, j)
      BY <3>1 DEF At
    <3>3. left' \in BOOLEAN /\ (left => left') /\ Len(entries') >= Len(entries)
      BY <2>1, <3>1 DEF CastInv, CastTypes, Sent
    <3>4. \A x, i, j : At(x, i, j)' =>
              /\ x \in SocketIds
              /\ \/ At(x, i, j)
                 \/ socket[x] = "new"
                 \/ left' /\ j \in Nat /\ At(x, i, j + 1)
      BY <2>2, <3>2
    <3>5. \A x \in SocketIds : /\ socket'[x] = "new" => socket[x] = "new"
                               /\ socket'[x] = "open" => socket[x] \in {"new", "open"}
      BY <3>1
    <3> QED
      BY <2>0, <2>1, <3>1, <3>3, <3>4, <3>5, CastWaits, Zenon
  <2> QED
    BY <2>0, <2>3, <2>4, <2>5, <2>6, <2>7, <2>8, <2>9, <2>10 DEF SocketsNext, WebsocketEndpoint
<1>3. ListsInv /\ CastInv => BroadcastDelivers
  BY DEF CastInv, CastTypes, Sent
<1> QED
  BY <1>1, <1>2, <1>3, PTL DEF SocketsSpec
=============================================================================
