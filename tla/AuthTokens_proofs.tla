------------------------- MODULE AuthTokens_proofs -------------------------
(* Theorems about AuthTokens, for any users, jtis, requests and lifetimes.  *)
EXTENDS AuthTokens, TLAPS

-----------------------------------------------------------------------------
(* Types.                                                                   *)

LEMMA IssuePairType ==
    ASSUME TypeOK, NEW u \in Users, NEW s \in Tokens \cup {NoToken}, IssuePair(u, s)
    PROVE  /\ type' \in [Tokens -> {"none", "access", "refresh"}]
           /\ sub' \in [Tokens -> Users]
           /\ exp' \in [Tokens -> Nat]
           /\ login' \in [Tokens -> Tokens]
BY ConstantsAssumption DEF IssuePair, TypeOK

LEMMA RevokeType ==
    ASSUME TypeOK, NEW r \in Requests, req[r] \in Request, NEW t \in Tokens,
           NEW next \in {"exchanged", "accessRevoked", "logging"},
           Revoke(r, t, next)
    PROVE  TypeOK'
BY DEF Revoke, TypeOK, Request, Idle, claims

LEMMA AdvanceType ==
    ASSUME TypeOK, NEW r \in Requests, req[r] \in Request,
           NEW to \in {"userload", "loaded", "logging"}, Advance(r, to)
    PROVE  TypeOK'
BY DEF Advance, TypeOK, Request, Idle, claims

LEMMA AnswerType ==
    ASSUME TypeOK, NEW r \in Requests, Answer(r)
    PROVE  TypeOK'
BY DEF Answer, TypeOK, claims

LEMMA BeginType ==
    ASSUME TypeOK, NEW r \in Requests, NEW g \in {"resource", "refresh", "logout"},
           NEW t \in Tokens, NEW b \in Tokens \cup {NoToken}, Begin(r, g, t, b)
    PROVE  TypeOK'
<1>1. [at |-> "lookup", goal |-> g, token |-> t, body |-> b] \in Request
  BY DEF Request
<1> QED
  BY <1>1 DEF Begin, TypeOK, claims

\* Every variable keeps its type through every interleaving of requests,
\* crashes, purges and erasures.
THEOREM TypeCorrect == Spec => []TypeOK
<1>1. Init => TypeOK
  BY DEF Init, TypeOK
<1>2. TypeOK /\ [Next]_vars => TypeOK'
  <2> SUFFICES ASSUME TypeOK, [Next]_vars PROVE TypeOK'
    OBVIOUS
  <2>0. ASSUME NEW r \in Requests, req[r].at # "idle"
        PROVE  req[r] \in Request
    BY <2>0 DEF TypeOK, Idle
  <2>1. ASSUME NEW u \in Users, Login(u) PROVE TypeOK'
    BY <2>1, IssuePairType DEF Login, TypeOK
  <2>2. ASSUME NEW u \in Users, EraseAccount(u) PROVE TypeOK'
    BY <2>2 DEF EraseAccount, TypeOK, claims
  <2>3. ASSUME NEW r \in Requests, NEW t \in Tokens,
               \/ PresentAccess(r, t)
               \/ PresentRefresh(r, t)
               \/ \E b \in Issued \cup {NoToken} : PresentLogout(r, t, b)
        PROVE  TypeOK'
    BY <2>3, BeginType DEF PresentAccess, PresentRefresh, PresentLogout, Issued
  <2>4. ASSUME NEW r \in Requests, Lookup(r) PROVE TypeOK'
    BY <2>4, <2>0, AdvanceType, AnswerType DEF Lookup
  <2>5. ASSUME NEW r \in Requests, UserLoad(r) PROVE TypeOK'
    BY <2>5, <2>0, AdvanceType, AnswerType DEF UserLoad
  <2>6. ASSUME NEW r \in Requests, Exchange(r) PROVE TypeOK'
    <3>1. req[r] \in Request /\ req[r].token \in Tokens
      BY <2>6, <2>0 DEF Exchange, Request
    <3> QED
      BY <2>6, <3>1, RevokeType DEF Exchange
  <2>7. ASSUME NEW r \in Requests, Reissue(r) PROVE TypeOK'
    <3>1. req[r] \in Request /\ req[r].token \in Tokens
      BY <2>7, <2>0 DEF Reissue, Request
    <3>2. sub[req[r].token] \in Users /\ login[req[r].token] \in Tokens
      BY <3>1 DEF TypeOK
    <3>3. IssuePair(sub[req[r].token], login[req[r].token])
      BY <2>7 DEF Reissue
    <3> QED
      BY <2>7, <3>2, <3>3, IssuePairType DEF Reissue, TypeOK
  <2>8. ASSUME NEW r \in Requests, LogoutAccess(r) PROVE TypeOK'
    <3>1. req[r] \in Request /\ req[r].token \in Tokens
      BY <2>8, <2>0 DEF LogoutAccess, Request
    <3> QED
      BY <2>8, <3>1, RevokeType, AnswerType DEF LogoutAccess
  <2>9. ASSUME NEW r \in Requests, LogoutRefresh(r) PROVE TypeOK'
    <3>1. req[r] \in Request /\ req[r].body \in Tokens \cup {NoToken}
      BY <2>9, <2>0 DEF LogoutRefresh, Request
    <3>2. \/ Advance(r, "logging")
          \/ Answer(r)
          \/ req[r].body # NoToken /\ Revoke(r, req[r].body, "logging")
      BY <2>9 DEF LogoutRefresh
    <3> QED
      BY <3>1, <3>2, RevokeType, AdvanceType, AnswerType
  <2>10. ASSUME NEW r \in Requests, LogoutDone(r) \/ Crash(r) PROVE TypeOK'
    BY <2>10, AnswerType DEF LogoutDone, Crash
  <2>11. CASE Cleanup
    BY <2>11 DEF Cleanup, TypeOK, claims
  <2>12. CASE Tick
    BY <2>12 DEF Tick, TypeOK, claims
  <2>13. CASE UNCHANGED vars
    BY <2>13 DEF vars, TypeOK, claims
  <2> QED
    BY <2>1, <2>2, <2>3, <2>4, <2>5, <2>6, <2>7, <2>8, <2>9, <2>10, <2>11,
       <2>12, <2>13 DEF Next
<1> QED
  BY <1>1, <1>2, PTL DEF Spec
-----------------------------------------------------------------------------
(* A token is consumed once.                                                 *)

\* Inductive: requests carry issued tokens only, only issued tokens have been
\* revoked, and the row of a revoked token stays until the token has expired.
CarriesIssued(r) ==
    req[r] # Idle => /\ req[r].token \in Issued
                     /\ req[r].body \in Issued \cup {NoToken}
                     /\ req[r].goal = "refresh" => type[req[r].token] = "refresh"
RowKept(t) ==
    consumed[t] > 0 => t \in Issued /\ (t \in revoked \/ Expired(t))
ConsumedInv ==
    /\ \A r \in Requests : CarriesIssued(r)
    /\ \A t \in Tokens : RowKept(t)
    /\ ConsumedOnce

\* Where a handler may go next.
Points == {"userload", "loaded", "exchanged", "accessRevoked", "logging"}

\* A step that only moves requests along keeps what they carry.
LEMMA SameCarriage ==
    ASSUME TypeOK, NEW r \in Requests, \A q \in Requests : CarriesIssued(q),
           req[r] # Idle, UNCHANGED type,
           \/ \E to \in Points : req' = [req EXCEPT ![r].at = to]
           \/ req' = [req EXCEPT ![r] = Idle]
    PROVE  \A q \in Requests : CarriesIssued(q)'
<1> SUFFICES ASSUME NEW q \in Requests PROVE CarriesIssued(q)'
  OBVIOUS
<1>1. CASE q # r
  BY <1>1 DEF CarriesIssued, Issued, TypeOK
<1>2. CASE q = r
  <2>1. req[r] \in Request
    BY DEF TypeOK
  <2>2. CASE req' = [req EXCEPT ![r] = Idle]
    BY <1>2, <2>2 DEF CarriesIssued, TypeOK
  <2>3. ASSUME NEW to \in Points, req' = [req EXCEPT ![r].at = to]
        PROVE  CarriesIssued(q)'
    <3>1. /\ req'[r].token = req[r].token
          /\ req'[r].body = req[r].body
          /\ req'[r].goal = req[r].goal
      BY <2>1, <2>3 DEF Request, TypeOK
    <3> QED
      BY <1>2, <3>1 DEF CarriesIssued, Issued
  <2> QED
    BY <2>2, <2>3
<1> QED
  BY <1>1, <1>2

\* Issuing a pair touches fresh jtis only.
LEMMA IssuePairFresh ==
    ASSUME TypeOK, NEW u \in Users, NEW s \in Tokens \cup {NoToken}, IssuePair(u, s)
    PROVE  /\ Issued \subseteq Issued'
           /\ \A t \in Issued : /\ type'[t] = type[t]
                                /\ exp'[t] = exp[t]
                                /\ login'[t] = login[t]
           /\ \A t \in Issued' \ Issued :
                 \/ type'[t] = "access"
                 \/ type'[t] = "refresh"
           /\ \A f, g \in Issued' \ Issued :
                 type'[f] = "refresh" /\ type'[g] = "refresh" => f = g
           /\ \A f \in Issued' \ Issued :
                 \/ s = NoToken /\ login'[f] \in Issued' \ Issued
                 \/ s # NoToken /\ login'[f] = s
BY DEF IssuePair, Issued, TypeOK

\* A step of _revoke_token consumes an unexpired token once more only if its
\* row is not there.
LEMMA RevokeConsumes ==
    ASSUME TypeOK, ConsumedInv, NEW r \in Requests, req[r] # Idle,
           NEW t \in Issued, NEW next \in Points, Revoke(r, t, next)
    PROVE  ConsumedInv'
<1>0. t \in Tokens /\ Issued' = Issued
  BY DEF Issued, Revoke, claims
<1>1. \A q \in Requests : CarriesIssued(q)'
  BY SameCarriage DEF ConsumedInv, Revoke, claims
<1>2. \A s \in Tokens : Expired(s)' = Expired(s)
  BY DEF Expired, Revoke, claims
<1>3. \A s \in Tokens : RowKept(s)'
  BY <1>0, <1>2 DEF ConsumedInv, RowKept, Revoke, TypeOK
<1>4. ConsumedOnce'
  BY <1>0, <1>2 DEF ConsumedInv, ConsumedOnce, RowKept, Revoke, TypeOK
<1> QED
  BY <1>1, <1>3, <1>4 DEF ConsumedInv

\* Moving a request on, or answering it, leaves the table alone.
LEMMA MoveConsumes ==
    ASSUME TypeOK, ConsumedInv, NEW r \in Requests, req[r] # Idle,
           Answer(r) \/ (\E to \in Points : Advance(r, to))
    PROVE  ConsumedInv'
<1>1. \A q \in Requests : CarriesIssued(q)'
  BY SameCarriage DEF ConsumedInv, Answer, Advance, claims
<1> QED
  BY <1>1 DEF ConsumedInv, RowKept, ConsumedOnce, Expired, Issued, Answer, Advance, claims

LEMMA IssueConsumes ==
    ASSUME TypeOK, ConsumedInv, UNCHANGED <<now, revoked, consumed>>,
           NEW u \in Users, NEW s \in Tokens \cup {NoToken}, IssuePair(u, s),
           \A q \in Requests : req'[q] = req[q] \/ req'[q] = Idle
    PROVE  ConsumedInv'
<1>1. \A q \in Requests : CarriesIssued(q)'
  BY IssuePairFresh DEF ConsumedInv, CarriesIssued
<1>2. \A t \in Issued : Expired(t)' = Expired(t)
  BY IssuePairFresh DEF Expired
<1>3. \A t \in Tokens : RowKept(t)'
  BY <1>2, IssuePairFresh DEF ConsumedInv, RowKept
<1>4. ConsumedOnce'
  <2> SUFFICES ASSUME NEW t \in Tokens, consumed[t] > 1 PROVE Expired(t)'
    BY DEF ConsumedOnce
  <2>1. consumed[t] > 0
    BY DEF TypeOK
  <2> QED
    BY <1>2, <2>1 DEF ConsumedInv, RowKept, ConsumedOnce
<1> QED
  BY <1>1, <1>3, <1>4 DEF ConsumedInv

LEMMA ConsumedInvInductive ==
    ASSUME TypeOK, ConsumedInv, [Next]_vars
    PROVE  ConsumedInv'
<1>0. ASSUME NEW r \in Requests, req[r].at # "idle"
      PROVE  req[r] # Idle /\ req[r].token \in Issued /\ req[r].token \in Tokens
  BY <1>0 DEF TypeOK, Idle, ConsumedInv, CarriesIssued, Issued
<1>1. ASSUME NEW u \in Users, Login(u) PROVE ConsumedInv'
  BY <1>1, IssueConsumes DEF Login
<1>2. ASSUME NEW u \in Users, EraseAccount(u) PROVE ConsumedInv'
  BY <1>2 DEF EraseAccount, claims, ConsumedInv, CarriesIssued, RowKept,
              ConsumedOnce, Expired, Issued
<1>3. ASSUME NEW r \in Requests, NEW t \in Tokens,
             \/ PresentAccess(r, t)
             \/ PresentRefresh(r, t)
             \/ \E b \in Issued \cup {NoToken} : PresentLogout(r, t, b)
      PROVE  ConsumedInv'
  <2>1. PICK g \in {"resource", "refresh", "logout"}, b \in Issued \cup {NoToken} :
          Begin(r, g, t, b) /\ (g = "refresh" => type[t] = "refresh")
    BY <1>3 DEF PresentAccess, PresentRefresh, PresentLogout
  <2>2. \A q \in Requests : CarriesIssued(q)'
    <3> SUFFICES ASSUME NEW q \in Requests PROVE CarriesIssued(q)'
      OBVIOUS
    <3>1. t \in Issued /\ type' = type /\ Issued' = Issued
      BY <2>1 DEF Begin, Decodes, claims, Issued
    <3>2. CASE q = r
      BY <2>1, <3>1, <3>2 DEF Begin, CarriesIssued, TypeOK
    <3>3. CASE q # r
      BY <2>1, <3>1, <3>3 DEF Begin, CarriesIssued, ConsumedInv, TypeOK
    <3> QED
      BY <3>2, <3>3
  <2> QED
    BY <2>1, <2>2 DEF Begin, claims, ConsumedInv, RowKept, ConsumedOnce, Expired, Issued
<1>4. ASSUME NEW r \in Requests,
             \/ Lookup(r) \/ UserLoad(r) \/ LogoutDone(r) \/ Crash(r)
      PROVE  ConsumedInv'
  <2>1. req[r] # Idle /\ (Answer(r) \/ (\E to \in Points : Advance(r, to)))
    <3>1. CASE Crash(r)
      BY <3>1 DEF Crash
    <3>2. CASE Lookup(r) \/ UserLoad(r) \/ LogoutDone(r)
      <4>1. req[r] # Idle
        BY <3>2, <1>0 DEF Lookup, UserLoad, LogoutDone
      <4>2. Answer(r) \/ Advance(r, "userload") \/ Advance(r, "loaded")
        BY <3>2 DEF Lookup, UserLoad, LogoutDone
      <4> QED
        BY <4>1, <4>2 DEF Points
    <3> QED
      BY <1>4, <3>1, <3>2
  <2> QED
    BY <2>1, MoveConsumes
<1>5. ASSUME NEW r \in Requests, Exchange(r) PROVE ConsumedInv'
  <2>1. req[r] # Idle /\ req[r].token \in Issued
    BY <1>5, <1>0 DEF Exchange
  <2>2. Revoke(r, req[r].token, "exchanged") /\ "exchanged" \in Points
    BY <1>5 DEF Exchange, Points
  <2> QED
    BY <2>1, <2>2, RevokeConsumes
<1>6. ASSUME NEW r \in Requests, Reissue(r) PROVE ConsumedInv'
  <2>1. req[r].token \in Tokens
    BY <1>6, <1>0 DEF Reissue
  <2>2. sub[req[r].token] \in Users /\ login[req[r].token] \in Tokens
    BY <2>1 DEF TypeOK
  <2>3. \A q \in Requests : req'[q] = req[q] \/ req'[q] = Idle
    BY <1>6 DEF Reissue, TypeOK
  <2>4. IssuePair(sub[req[r].token], login[req[r].token])
        /\ UNCHANGED <<now, revoked, consumed>>
    BY <1>6 DEF Reissue
  <2> QED
    BY <2>2, <2>3, <2>4, IssueConsumes
<1>7. ASSUME NEW r \in Requests, LogoutAccess(r) PROVE ConsumedInv'
  <2>1. req[r] # Idle /\ req[r].token \in Issued
    BY <1>7, <1>0 DEF LogoutAccess
  <2>2. Revoke(r, req[r].token, "accessRevoked") \/ Answer(r)
    BY <1>7 DEF LogoutAccess
  <2>3. "accessRevoked" \in Points
    BY DEF Points
  <2> QED
    BY <2>1, <2>2, <2>3, RevokeConsumes, MoveConsumes
<1>8. ASSUME NEW r \in Requests, LogoutRefresh(r) PROVE ConsumedInv'
  <2>1. \/ Answer(r) \/ Advance(r, "logging")
        \/ req[r].body \in Issued /\ Revoke(r, req[r].body, "logging")
    BY <1>8 DEF LogoutRefresh, Decodes
  <2>3. "logging" \in Points
    BY DEF Points
  <2>2. req[r] # Idle
    BY <1>8, <1>0 DEF LogoutRefresh
  <2> QED
    BY <2>1, <2>2, <2>3, RevokeConsumes, MoveConsumes
<1>9. CASE Cleanup
  <2>1. \A t \in Tokens : RowKept(t)'
    BY <1>9 DEF Cleanup, claims, ConsumedInv, RowKept, Expired, Issued
  <2> QED
    BY <1>9, <2>1 DEF Cleanup, claims, ConsumedInv, CarriesIssued, ConsumedOnce,
                      Expired, Issued
<1>10. CASE Tick
  <2>1. \A t \in Tokens : Expired(t) => Expired(t)'
    BY <1>10 DEF Tick, claims, Expired, TypeOK
  <2> QED
    BY <1>10, <2>1 DEF Tick, claims, ConsumedInv, CarriesIssued, RowKept,
                       ConsumedOnce, Issued
<1>11. CASE UNCHANGED vars
  BY <1>11 DEF vars, claims, ConsumedInv, CarriesIssued, RowKept, ConsumedOnce,
               Expired, Issued
<1> QED
  BY <1>1, <1>2, <1>3, <1>4, <1>5, <1>6, <1>7, <1>8, <1>9, <1>10, <1>11 DEF Next

LEMMA ConsumedInvHolds == Spec => []ConsumedInv
<1>1. Init => ConsumedInv
  BY DEF Init, ConsumedInv, CarriesIssued, RowKept, ConsumedOnce
<1> QED
  BY <1>1, TypeCorrect, ConsumedInvInductive, PTL DEF Spec

\* Whatever refreshes and logouts race for it, a token is revoked at most once
\* before it expires, so it yields at most one successor pair (_revoke_token
\* and the unique jti).
THEOREM ConsumedOnceHolds == Spec => []ConsumedOnce
BY ConsumedInvHolds, PTL DEF ConsumedInv

\* A revoked token passes no later revocation lookup before it expires, the
\* purge notwithstanding (get_current_user, refresh_tokens, _cleanup).
THEOREM RevokedIsRefusedHolds == Spec => RevokedIsRefused
<1>1. TypeOK /\ ConsumedInv /\ [Next]_vars
        => [\A r \in Requests :
              (req[r].at = "lookup" /\ req'[r].at = "userload")
                 => (consumed[req[r].token] = 0 \/ Expired(req[r].token))]_vars
  <2> SUFFICES ASSUME TypeOK, ConsumedInv, [Next]_vars, NEW r \in Requests,
                      req[r].at = "lookup", req'[r].at = "userload"
               PROVE  consumed[req[r].token] = 0 \/ Expired(req[r].token)
    OBVIOUS
  <2>0. req[r] \in Request /\ req[r].token \in Tokens
    BY DEF TypeOK, Request, Idle
  <2>1. req[r].token \notin revoked
    <3>1. req' # req
      OBVIOUS
    <3>2. ASSUME NEW q \in Requests, req' = [req EXCEPT ![q] = Idle] PROVE FALSE
      BY <3>2 DEF TypeOK, Idle
    <3>3. ASSUME NEW q \in Requests, NEW to \in Points, to # "userload",
                 req' = [req EXCEPT ![q].at = to]
          PROVE  FALSE
      BY <2>0, <3>3 DEF TypeOK, Request
    <3>4. ASSUME NEW q \in Requests, NEW t \in Tokens, NEW g, NEW b, Begin(q, g, t, b)
          PROVE  FALSE
      BY <3>4 DEF Begin, TypeOK, Idle
    <3>5. ASSUME NEW q \in Requests, Lookup(q) PROVE req[r].token \notin revoked
      <4>1. CASE q = r
        BY <3>5, <4>1, <3>2 DEF Lookup, Answer
      <4>2. CASE q # r
        BY <3>5, <4>2 DEF Lookup, Answer, Advance, TypeOK
      <4> QED
        BY <4>1, <4>2
    <3>6. ASSUME NEW q \in Requests, UserLoad(q) PROVE FALSE
      BY <3>6, <3>2, <3>3 DEF UserLoad, Answer, Advance, Points
    <3>7. ASSUME NEW q \in Requests,
                 \/ Exchange(q) \/ Reissue(q) \/ LogoutAccess(q)
                 \/ LogoutRefresh(q) \/ LogoutDone(q) \/ Crash(q)
          PROVE  FALSE
      <4>1. \/ req' = [req EXCEPT ![q] = Idle]
            \/ req' = [req EXCEPT ![q].at = "exchanged"]
            \/ req' = [req EXCEPT ![q].at = "accessRevoked"]
            \/ req' = [req EXCEPT ![q].at = "logging"]
        BY <3>7 DEF Exchange, Reissue, LogoutAccess, LogoutRefresh, LogoutDone,
                    Crash, Revoke, Answer, Advance
      <4> QED
        BY <4>1, <3>2, <3>3 DEF Points
    <3>8. ASSUME NEW u \in Users, Login(u) \/ EraseAccount(u) PROVE FALSE
      BY <3>1, <3>8 DEF Login, EraseAccount
    <3>9. CASE Cleanup \/ Tick \/ UNCHANGED vars
      BY <3>1, <3>9 DEF Cleanup, Tick, vars
    <3> QED
      BY <3>4, <3>5, <3>6, <3>7, <3>8, <3>9
      DEF Next, PresentAccess, PresentRefresh, PresentLogout
  <2> QED
    BY <2>0, <2>1 DEF ConsumedInv, RowKept, TypeOK
<1> QED
  BY <1>1, TypeCorrect, ConsumedInvHolds, PTL DEF Spec, RevokedIsRefused
-----------------------------------------------------------------------------
(* Sessions never fork.                                                      *)

\* Inductive: besides the unspent token of a session, a refresh that has
\* revoked its token and not yet made the next pair stands for the session,
\* and there is one or the other, once - unless one of its tokens was revoked
\* twice.  Unspent, and not usable, since the purge takes rows away.
OneUnspent(l) ==
    /\ \A s, t \in Tokens :
          Unspent(s) /\ Unspent(t) /\ login[s] = l /\ login[t] = l => s = t
    /\ \A r \in Requests, t \in Tokens :
          InExchange(r) /\ Unspent(t) /\ login[t] = l => login[req[r].token] # l
    /\ \A q, r \in Requests :
          InExchange(q) /\ InExchange(r) /\ login[req[q].token] = l /\ login[req[r].token] = l
             => q = r
Rooted(t) ==
    /\ login[t] \in Issued /\ type[login[t]] = "refresh"
    /\ sub[login[t]] = sub[t]
SessionInv ==
    /\ \A t \in Issued : Rooted(t)
    /\ \A l \in Tokens \ Twice : OneUnspent(l)

\* No step forgets that a token was revoked.
LEMMA TwiceForEver ==
    ASSUME TypeOK, UNCHANGED claims,
           \A t \in Tokens : consumed'[t] \in Nat /\ consumed'[t] >= consumed[t]
    PROVE  Twice \subseteq Twice'
<1> SUFFICES ASSUME NEW t \in Tokens, type[t] = "refresh", consumed[t] > 1
             PROVE  login[t] \in Twice'
  BY DEF Twice
<1>1. consumed'[t] > 1 /\ type'[t] = "refresh" /\ login'[t] = login[t]
  BY DEF claims, TypeOK
<1> QED
  BY <1>1 DEF Twice

\* Fewer unspent tokens, and no new exchange: the invariant survives.
LEMMA SessionShrinks ==
    ASSUME TypeOK, SessionInv, UNCHANGED claims,
           \A t \in Tokens : consumed'[t] \in Nat /\ consumed'[t] >= consumed[t],
           \A r \in Requests : InExchange(r)' => InExchange(r) /\ req'[r].token = req[r].token
    PROVE  SessionInv'
<1>1. \A t \in Tokens : Unspent(t)' => Unspent(t)
  BY DEF Unspent, claims, TypeOK
<1>2. Issued' = Issued /\ login' = login /\ type' = type /\ sub' = sub
  BY DEF Issued, claims
<1>3. \A l \in Tokens \ Twice' : OneUnspent(l)'
  <2> SUFFICES ASSUME NEW l \in Tokens \ Twice PROVE OneUnspent(l)'
    BY TwiceForEver
  <2> QED
    BY <1>1, <1>2 DEF SessionInv, OneUnspent
<1> QED
  BY <1>2, <1>3 DEF SessionInv, Rooted

LEMMA MoveShrinks ==
    ASSUME TypeOK, SessionInv, NEW r \in Requests, req[r] # Idle,
           \/ Answer(r) 
           \/ \E to \in Points \ {"exchanged"} : Advance(r, to)
    PROVE  SessionInv'
<1>1. ASSUME NEW q \in Requests, InExchange(q)'
      PROVE  InExchange(q) /\ req'[q].token = req[q].token
  <2>1. q # r
    <3>1. CASE Answer(r)
      BY <1>1, <3>1 DEF Answer, InExchange, TypeOK
    <3>2. ASSUME NEW to \in Points \ {"exchanged"}, Advance(r, to) PROVE q # r
      BY <1>1, <3>2 DEF Advance, InExchange, TypeOK, Request
    <3> QED
      BY <3>1, <3>2
  <2>2. req'[q] = req[q]
    BY <2>1 DEF Answer, Advance, TypeOK
  <2> QED
    BY <1>1, <2>2 DEF InExchange
<1>2. UNCHANGED claims
      /\ \A t \in Tokens : consumed'[t] \in Nat /\ consumed'[t] >= consumed[t]
  BY DEF Answer, Advance, TypeOK
<1> QED
  BY <1>1, <1>2, SessionShrinks

LEMMA RevokeShrinks ==
    ASSUME TypeOK, SessionInv, NEW r \in Requests, req[r] # Idle,
           NEW t \in Tokens, NEW next \in Points \ {"exchanged"}, Revoke(r, t, next)
    PROVE  SessionInv'
<1>1. ASSUME NEW q \in Requests, InExchange(q)'
      PROVE  InExchange(q) /\ req'[q].token = req[q].token
  <2>1. q # r
    BY <1>1 DEF Revoke, InExchange, TypeOK, Request
  <2>2. req'[q] = req[q]
    BY <2>1 DEF Revoke, TypeOK
  <2> QED
    BY <1>1, <2>2 DEF InExchange
<1>2. UNCHANGED claims
      /\ \A s \in Tokens : consumed'[s] \in Nat /\ consumed'[s] >= consumed[s]
  BY DEF Revoke, TypeOK
<1> QED
  BY <1>1, <1>2, SessionShrinks

\* New tokens are not among those revoked twice.
LEMMA IssueTwice ==
    ASSUME TypeOK, ConsumedInv, UNCHANGED consumed,
           NEW u \in Users, NEW s \in Tokens \cup {NoToken}, IssuePair(u, s)
    PROVE  Twice' = Twice
<1>1. \A t \in Tokens : consumed[t] > 1 =>
         /\ t \in Issued /\ type'[t] = type[t] /\ login'[t] = login[t]
  BY IssuePairFresh DEF ConsumedInv, RowKept, TypeOK
<1> QED
  BY <1>1 DEF Twice

\* A pair for a session that nothing stands for any more.
LEMMA IssueForks ==
    ASSUME TypeOK, SessionInv, ConsumedInv, UNCHANGED consumed,
           NEW u \in Users, NEW s \in Issued \cup {NoToken}, IssuePair(u, s),
           s # NoToken => type[s] = "refresh" /\ sub[s] = u,
           s # NoToken /\ s \notin Twice =>
              /\ \A t \in Tokens : Unspent(t) => login[t] # s
              /\ \A r \in Requests : InExchange(r)' => login[req[r].token] # s,
           \A r \in Requests : InExchange(r)' => InExchange(r) /\ req'[r] = req[r]
    PROVE  SessionInv'
<1>0. s \in Tokens \cup {NoToken} /\ (s \in Issued => s # NoToken)
  BY ConstantsAssumption DEF Issued
<1> DEFINE New == Issued' \ Issued
<1>1. /\ Issued \subseteq Issued'
      /\ \A t \in Issued : type'[t] = type[t] /\ login'[t] = login[t]
      /\ \A f, g \in New : type'[f] = "refresh" /\ type'[g] = "refresh" => f = g
      /\ \A f \in New : \/ s = NoToken /\ login'[f] \in New
                        \/ s # NoToken /\ login'[f] = s
  BY <1>0, IssuePairFresh
<1>2. \A t \in Issued' : Rooted(t)'
  <2>1. \A t \in Issued : sub'[t] = sub[t]
    BY DEF IssuePair, Issued, TypeOK
  <2>2. ASSUME NEW t \in Issued PROVE Rooted(t)'
    BY <1>1, <2>1 DEF SessionInv, Rooted
  <2>3. ASSUME NEW t \in New PROVE Rooted(t)'
    <3>1. /\ sub'[t] = u
          /\ s = NoToken => /\ login'[t] \in New /\ type'[login'[t]] = "refresh"
                            /\ sub'[login'[t]] = u
          /\ s # NoToken => login'[t] = s
      BY <1>0, <2>3 DEF IssuePair, Issued, TypeOK
    <3>2. CASE s = NoToken
      BY <3>1, <3>2 DEF Rooted
    <3>3. CASE s # NoToken
      BY <1>1, <2>1, <3>1, <3>3 DEF Rooted
    <3> QED
      BY <3>2, <3>3
  <2> QED
    BY <2>2, <2>3
<1>3. ASSUME NEW l \in Tokens \ Twice PROVE OneUnspent(l)'
  <2>0. OneUnspent(l)
    BY DEF SessionInv
  <2>1. \A t \in Tokens : Unspent(t)' =>
           \/ t \in Issued /\ Unspent(t)
           \/ t \in New /\ type'[t] = "refresh"
    BY <1>1 DEF Unspent, Issued
  <2>2. \A t \in Tokens : Unspent(t) => t \in Issued
    BY DEF Unspent, Issued
  <2>3. \A r \in Requests : InExchange(r)' =>
           /\ InExchange(r) /\ req'[r] = req[r]
           /\ req[r].token \in Issued
           /\ login'[req[r].token] = login[req[r].token]
    BY <1>1 DEF InExchange, ConsumedInv, CarriesIssued
  <2>4. \A f \in New, t \in Issued :
           login'[f] = l /\ (Unspent(t) \/ (\E r \in Requests : InExchange(r)' /\ t = req[r].token))
              => login'[t] # l
    <3> SUFFICES ASSUME NEW f \in New, NEW t \in Issued, login'[f] = l,
                        Unspent(t) \/ (\E r \in Requests : InExchange(r)' /\ t = req[r].token)
                 PROVE  login'[t] # l
      OBVIOUS
    <3>1. login'[t] = login[t] /\ login[t] \in Issued
      BY <1>1 DEF SessionInv, Rooted
    <3>2. s # NoToken => s = l /\ login[t] # s
      <4>1. s # NoToken => s = l
        BY <1>1
      <4> QED
        BY <1>3, <4>1 DEF Issued
    <3> QED
      BY <1>1, <3>1, <3>2
  <2>5. \A f, g \in Tokens :
           Unspent(f)' /\ Unspent(g)' /\ login'[f] = l /\ login'[g] = l => f = g
    BY <1>1, <2>0, <2>1, <2>4 DEF OneUnspent
  <2>6. ASSUME NEW r \in Requests, NEW t \in Tokens, InExchange(r)', Unspent(t)', login'[t] = l
        PROVE  login'[req'[r].token] # l
    <3>1. CASE t \in Issued /\ Unspent(t)
      BY <1>1, <2>0, <2>3, <2>6, <3>1 DEF OneUnspent
    <3>2. CASE t \in New
      BY <2>3, <2>4, <2>6, <3>2
    <3> QED
      BY <2>1, <2>6, <3>1, <3>2
  <2>7. \A q, r \in Requests :
           InExchange(q)' /\ InExchange(r)' /\ login'[req'[q].token] = l
              /\ login'[req'[r].token] = l => q = r
    <3> SUFFICES ASSUME NEW q \in Requests, NEW r \in Requests, InExchange(q)', InExchange(r)',
                        login'[req'[q].token] = l, login'[req'[r].token] = l
                 PROVE  q = r
      OBVIOUS
    <3>1. InExchange(q) /\ login[req[q].token] = l
      BY <2>3
    <3>2. InExchange(r) /\ login[req[r].token] = l
      BY <2>3
    <3> QED
      BY <2>0, <3>1, <3>2 DEF OneUnspent
  <2> QED
    BY <2>5, <2>6, <2>7 DEF OneUnspent
<1> QED
  BY <1>0, <1>2, <1>3, IssueTwice DEF SessionInv

LEMMA SessionInvInductive ==
    ASSUME TypeOK, ConsumedInv, SessionInv, [Next]_vars
    PROVE  SessionInv'
<1>0. ASSUME NEW r \in Requests, req[r].at # "idle"
      PROVE  req[r] # Idle /\ req[r].token \in Issued /\ req[r].token \in Tokens
  BY <1>0 DEF TypeOK, Idle, ConsumedInv, CarriesIssued, Issued
<1>1. ASSUME NEW u \in Users, Login(u) PROVE SessionInv'
  <2>1. \A r \in Requests : InExchange(r)' => InExchange(r) /\ req'[r] = req[r]
    BY <1>1 DEF Login, InExchange
  <2> QED
    BY <1>1, <2>1, IssueForks DEF Login
<1>2. ASSUME NEW r \in Requests, Reissue(r) PROVE SessionInv'
  <2>1. /\ InExchange(r)
        /\ req[r].token \in Issued /\ req[r].token \in Tokens
    BY <1>2, <1>0 DEF Reissue, InExchange
  <2>2. /\ sub[req[r].token] \in Users
        /\ login[req[r].token] \in Issued /\ Rooted(req[r].token)
    BY <2>1 DEF TypeOK, SessionInv, Rooted
  <2>3. \A q \in Requests : InExchange(q)' => q # r /\ InExchange(q) /\ req'[q] = req[q]
    BY <1>2 DEF Reissue, InExchange, TypeOK
  <2>4. login[req[r].token] \notin Twice =>
          \A t \in Tokens : Unspent(t) => login[t] # login[req[r].token]
    BY <2>1, <2>2 DEF SessionInv, OneUnspent, Issued
  <2>5. login[req[r].token] \notin Twice =>
          \A q \in Requests : InExchange(q)' => login[req[q].token] # login[req[r].token]
    BY <2>1, <2>2, <2>3 DEF SessionInv, OneUnspent, Issued
  <2>6. IssuePair(sub[req[r].token], login[req[r].token]) /\ UNCHANGED consumed
    BY <1>2 DEF Reissue
  <2> QED
    BY <2>2, <2>3, <2>4, <2>5, <2>6, IssueForks DEF Rooted
<1>3. ASSUME NEW r \in Requests, Exchange(r) PROVE SessionInv'
  <2> DEFINE t == req[r].token
  <2>1. /\ req[r] # Idle /\ req[r] \in Request
        /\ t \in Issued /\ t \in Tokens /\ type[t] = "refresh"
    BY <1>3, <1>0 DEF Exchange, ConsumedInv, CarriesIssued, TypeOK
  <2>2. CASE t \in revoked
    <3>1. req' = [req EXCEPT ![r] = Idle] /\ UNCHANGED <<claims, consumed>>
      BY <1>3, <2>2 DEF Exchange, Revoke
    <3>2. \A q \in Requests : InExchange(q)' => InExchange(q) /\ req'[q].token = req[q].token
      BY <3>1 DEF InExchange, TypeOK
    <3>3. \A s \in Tokens : consumed'[s] \in Nat /\ consumed'[s] >= consumed[s]
      BY <3>1 DEF TypeOK
    <3> QED
      BY <3>1, <3>2, <3>3, SessionShrinks
  <2>3. CASE t \notin revoked
    <3>1. /\ consumed' = [consumed EXCEPT ![t] = @ + 1]
          /\ req' = [req EXCEPT ![r].at = "exchanged"]
          /\ UNCHANGED claims
      BY <1>3, <2>3 DEF Exchange, Revoke
    <3>2. Issued' = Issued /\ login' = login
      BY <3>1 DEF Issued, claims
    <3>3. \A s \in Tokens : /\ consumed'[s] \in Nat /\ consumed'[s] >= consumed[s]
                            /\ Unspent(s)' => Unspent(s) /\ s # t
      BY <2>1, <3>1 DEF Unspent, claims, TypeOK
    <3>4. ASSUME NEW l \in Tokens \ Twice' PROVE OneUnspent(l)'
      <4>1. login[t] = l => Unspent(t)
        <5> SUFFICES ASSUME login[t] = l, consumed[t] # 0 PROVE FALSE
          BY <2>1 DEF Unspent
        <5>1. consumed'[t] > 1 /\ type'[t] = "refresh" /\ login'[t] = l
          BY <2>1, <3>1 DEF claims, TypeOK
        <5> QED
          BY <2>1, <3>4, <5>1 DEF Twice
      <4>2. OneUnspent(l)
        BY <3>1, <3>3, <3>4, TwiceForEver DEF SessionInv
      <4>3. \A q \in Requests : req'[q].token = req[q].token
        BY <2>1, <3>1 DEF TypeOK, Request
      <4>4. \A q \in Requests : InExchange(q)' => InExchange(q) \/ q = r
        BY <3>1 DEF InExchange, TypeOK
      <4>5. \A s \in Tokens : Unspent(s)' /\ login[s] = l => login[t] # l
        BY <2>1, <3>3, <4>1, <4>2 DEF OneUnspent
      <4>6. \A q \in Requests : InExchange(q)' /\ q # r /\ login[t] = l => login[req[q].token] # l
        BY <2>1, <4>1, <4>2, <4>4 DEF OneUnspent
      <4>7. \A q \in Requests, s \in Tokens :
               InExchange(q)' /\ Unspent(s)' /\ login'[s] = l => login'[req'[q].token] # l
        BY <3>2, <3>3, <4>2, <4>3, <4>4, <4>5 DEF OneUnspent
      <4>8. \A p, q \in Requests :
               InExchange(p)' /\ InExchange(q)' /\ login'[req'[p].token] = l
                  /\ login'[req'[q].token] = l => p = q
        <5> SUFFICES ASSUME NEW p \in Requests, NEW q \in Requests, InExchange(p)', InExchange(q)',
                            login'[req'[p].token] = l, login'[req'[q].token] = l
                     PROVE  p = q
          OBVIOUS
        <5>1. login[req[p].token] = l /\ login[req[q].token] = l
          BY <3>2, <4>3
        <5>2. CASE p = r \/ q = r
          BY <4>6, <5>1, <5>2
        <5>3. CASE InExchange(p) /\ InExchange(q)
          BY <4>2, <5>1, <5>3 DEF OneUnspent
        <5> QED
          BY <4>4, <5>2, <5>3
      <4> QED
        BY <3>2, <3>3, <4>2, <4>7, <4>8 DEF OneUnspent
    <3> QED
      BY <3>1, <3>2, <3>4 DEF SessionInv, Rooted, claims
  <2> QED
    BY <2>2, <2>3
<1>4. ASSUME NEW r \in Requests, LogoutAccess(r) PROVE SessionInv'
  <2>1. req[r] # Idle /\ req[r].token \in Tokens
    BY <1>4, <1>0 DEF LogoutAccess
  <2>2. Revoke(r, req[r].token, "accessRevoked") \/ Answer(r)
    BY <1>4 DEF LogoutAccess
  <2>3. "accessRevoked" \in Points \ {"exchanged"}
    BY DEF Points
  <2> QED
    BY <2>1, <2>2, <2>3, RevokeShrinks, MoveShrinks
<1>5. ASSUME NEW r \in Requests, LogoutRefresh(r) PROVE SessionInv'
  <2>1. req[r] # Idle
    BY <1>5, <1>0 DEF LogoutRefresh
  <2>2. \/ Answer(r) \/ Advance(r, "logging")
        \/ req[r].body \in Tokens /\ Revoke(r, req[r].body, "logging")
    BY <1>5 DEF LogoutRefresh, Decodes, Issued
  <2>3. "logging" \in Points \ {"exchanged"}
    BY DEF Points
  <2> QED
    BY <2>1, <2>2, <2>3, RevokeShrinks, MoveShrinks
<1>6. ASSUME NEW r \in Requests,
             Lookup(r) \/ UserLoad(r) \/ LogoutDone(r) \/ Crash(r)
      PROVE  SessionInv'
  <2>1. Answer(r) \/ Advance(r, "userload") \/ Advance(r, "loaded")
    BY <1>6 DEF Lookup, UserLoad, LogoutDone, Crash
  <2>2. req[r] # Idle
    BY <1>6, <1>0 DEF Lookup, UserLoad, LogoutDone, Crash
  <2>3. {"userload", "loaded"} \subseteq Points \ {"exchanged"}
    BY DEF Points
  <2> QED
    BY <2>1, <2>2, <2>3, MoveShrinks
<1>7. ASSUME NEW r \in Requests, NEW t \in Tokens,
             \/ PresentAccess(r, t)
             \/ PresentRefresh(r, t)
             \/ \E b \in Issued \cup {NoToken} : PresentLogout(r, t, b)
      PROVE  SessionInv'
  <2>1. PICK g \in {"resource", "refresh", "logout"}, b \in Issued \cup {NoToken} :
          Begin(r, g, t, b)
    BY <1>7 DEF PresentAccess, PresentRefresh, PresentLogout
  <2>2. \A q \in Requests : InExchange(q)' => InExchange(q) /\ req'[q].token = req[q].token
    BY <2>1 DEF Begin, InExchange, TypeOK
  <2> QED
    BY <2>1, <2>2, SessionShrinks DEF Begin, TypeOK
<1>8. ASSUME UNCHANGED <<claims, consumed, req>> PROVE SessionInv'
  BY <1>8, SessionShrinks DEF InExchange, TypeOK
<1>9. ASSUME NEW u \in Users, EraseAccount(u) PROVE SessionInv'
  BY <1>8, <1>9 DEF EraseAccount
<1>10. CASE Cleanup \/ Tick \/ UNCHANGED vars
  BY <1>8, <1>10 DEF Cleanup, Tick, vars
<1> QED
  BY <1>1, <1>2, <1>3, <1>4, <1>5, <1>6, <1>7, <1>9, <1>10 DEF Next

LEMMA SessionInvHolds == Spec => []SessionInv
<1>1. Init => SessionInv
  BY DEF Init, SessionInv, OneUnspent, Unspent, Issued, InExchange
<1>2. TypeOK /\ ConsumedInv /\ SessionInv /\ [Next]_vars => SessionInv'
  BY SessionInvInductive
<1> QED
  BY <1>1, <1>2, TypeCorrect, ConsumedInvHolds, PTL DEF Spec

\* Of a session at most one refresh token is usable, or one refresh is about
\* to make it, whatever requests race, fail or crash and whatever the purge
\* removes, unless a token of it was consumed a second time after its row had gone
\* (refresh_tokens, logout, _revoke_token, _cleanup).
THEOREM OneUsablePerSessionHolds == Spec => []OneUsablePerSession
<1>1. TypeOK /\ ConsumedInv /\ SessionInv => OneUsablePerSession
  <2> SUFFICES ASSUME TypeOK, ConsumedInv, SessionInv PROVE OneUsablePerSession
    OBVIOUS
  <2>1. \A t \in Tokens : Usable(t) => Unspent(t) /\ login[t] \in Tokens
    BY DEF Usable, Unspent, ConsumedInv, RowKept, TypeOK
  <2>2. \A r \in Requests : InExchange(r) => login[req[r].token] \in Tokens
    BY DEF InExchange, TypeOK, Request
  <2> QED
    BY <2>1, <2>2 DEF OneUsablePerSession, SessionInv, OneUnspent
<1> QED
  BY <1>1, TypeCorrect, ConsumedInvHolds, SessionInvHolds, PTL

-----------------------------------------------------------------------------
(* Every step is one of a session, or none.                                  *)

\* What the proofs of single steps rest on.
TokensInv == TypeOK /\ ConsumedInv /\ SessionInv

\* A session changes only with its tokens and the refreshes under way.
LEMMA SameSessions ==
    ASSUME UNCHANGED <<claims, consumed>>,
           \A q \in Requests : /\ InExchange(q)' <=> InExchange(q)
                               /\ InExchange(q) => req'[q].token = req[q].token
    PROVE  UNCHANGED Abstract!sessionVars
<1>1. Twice' = Twice /\ Owner' = Owner
  BY DEF Twice, Owner, claims
<1>2. Live' = Live
  BY <1>1 DEF Live, Unspent, claims
<1>3. TurnedIn' = TurnedIn
  BY <1>1 DEF TurnedIn, claims
<1> QED
  BY <1>1, <1>2, <1>3 DEF Abstract!sessionVars

\* Moving on or answering a request that is not half way through a refresh.
LEMMA MovesNoSession ==
    ASSUME TokensInv, NEW r \in Requests, req[r] # Idle, ~InExchange(r),
           \/ Answer(r)
           \/ \E to \in Points \ {"exchanged"} : Advance(r, to)
    PROVE  UNCHANGED Abstract!sessionVars
<1>1. ASSUME NEW q \in Requests
      PROVE  /\ InExchange(q)' <=> InExchange(q)
             /\ InExchange(q) => req'[q].token = req[q].token
  <2>1. CASE q # r
    <3>1. req'[q] = req[q]
      BY <2>1 DEF Answer, Advance, TokensInv, TypeOK
    <3> QED
      BY <3>1 DEF InExchange
  <2>2. CASE q = r
    <3>1. CASE Answer(r)
      BY <2>2, <3>1 DEF Answer, InExchange, TokensInv, TypeOK
    <3>2. ASSUME NEW to \in Points \ {"exchanged"}, Advance(r, to) PROVE ~InExchange(r)'
      BY <3>2 DEF Advance, InExchange, TokensInv, TypeOK, Request
    <3> QED
      BY <2>2, <3>1, <3>2
  <2> QED
    BY <2>1, <2>2
<1>2. UNCHANGED <<claims, consumed>>
  BY DEF Answer, Advance
<1> QED
  BY <1>1, <1>2, SameSessions

\* A refresh that dies between its commit and the new pair closes its session.
LEMMA DeathCloses ==
    ASSUME TokensInv, NEW r \in Requests, InExchange(r), Answer(r)
    PROVE  [Abstract!SessionsNext]_(Abstract!sessionVars)
<1> DEFINE s == login[req[r].token]
<1>1. s \in Tokens
  BY DEF InExchange, TokensInv, TypeOK, Request
<1>2. Twice' = Twice /\ Owner' = Owner /\ Live' = Live
  BY DEF Answer, Twice, Owner, Live, Unspent, claims
<1>3. \A q \in Requests : /\ InExchange(q)' <=> InExchange(q) /\ q # r
                          /\ q # r => req'[q] = req[q]
  BY DEF Answer, InExchange, TokensInv, TypeOK
<1>4. TurnedIn' = {login[req[q].token] : q \in {x \in Requests : InExchange(x) /\ x # r}} \ Twice
  BY <1>2, <1>3 DEF TurnedIn, Answer, claims
<1>5. CASE s \in Twice
  <2>1. TurnedIn' = TurnedIn
    BY <1>4, <1>5 DEF TurnedIn
  <2> QED
    BY <1>2, <2>1 DEF Abstract!sessionVars
<1>6. CASE s \notin Twice
  <2>1. OneUnspent(s)
    BY <1>1, <1>6 DEF TokensInv, SessionInv
  <2>2. \A q \in Requests : InExchange(q) /\ q # r => login[req[q].token] # s
    BY <2>1 DEF OneUnspent
  <2>3. s \in TurnedIn /\ TurnedIn' = TurnedIn \ {s}
    BY <1>4, <1>6, <2>2 DEF TurnedIn
  <2>4. Live[s] = {}
    BY <1>1, <2>1 DEF Live, OneUnspent
  <2>5. Live' = [Live EXCEPT ![s] = {}]
    BY <1>2, <2>4 DEF Live
  <2>6. Abstract!Close(s)
    BY <1>2, <2>3, <2>5 DEF Abstract!Close
  <2> QED
    BY <1>1, <2>6 DEF Abstract!SessionsNext
<1> QED
  BY <1>5, <1>6

\* The commit of _revoke_token: it turns in the live token of a session, or
\* closes the session, or the token had been turned in before.
LEMMA RevocationOfSession ==
    ASSUME TokensInv, NEW r \in Requests, req[r] # Idle, ~InExchange(r),
           NEW t \in Tokens, NEW next \in Points,
           next = "exchanged" => t = req[r].token /\ type[t] = "refresh",
           UNCHANGED claims, consumed' = [consumed EXCEPT ![t] = @ + 1],
           req' = [req EXCEPT ![r].at = next]
    PROVE  [Abstract!SessionsNext]_(Abstract!sessionVars)
<1> DEFINE s == login[t]
<1>0. /\ req[r] \in Request /\ s \in Tokens
      /\ consumed[t] \in Nat /\ \A x \in Tokens : consumed'[x] = IF x = t THEN consumed[t] + 1 ELSE consumed[x]
  BY DEF TokensInv, TypeOK
<1>1. Owner' = Owner /\ login' = login /\ type' = type
  BY DEF Owner, claims
<1>2. \A q \in Requests : /\ InExchange(q)' <=> (InExchange(q) \/ (q = r /\ next = "exchanged"))
                          /\ req'[q].token = req[q].token
  <2>1. ASSUME NEW q \in Requests, q # r PROVE req'[q] = req[q]
    BY <2>1 DEF TokensInv, TypeOK
  <2>2. /\ InExchange(r)' <=> next = "exchanged"
        /\ req'[r].token = req[r].token
    <3>1. req'[r] = [req[r] EXCEPT !.at = next]
      BY DEF TokensInv, TypeOK
    <3>2. /\ req'[r].at = next /\ req'[r].token = req[r].token
          /\ req'[r].goal \in {"resource", "refresh", "logout"}
      BY <1>0, <3>1 DEF Request
    <3>3. req'[r] # Idle
      BY <3>2 DEF Idle
    <3> QED
      BY <3>2, <3>3 DEF InExchange
  <2>3. ASSUME NEW q \in Requests, q # r
        PROVE  (InExchange(q)' <=> InExchange(q)) /\ req'[q].token = req[q].token
    BY <2>1, <2>3 DEF InExchange
  <2> SUFFICES ASSUME NEW q \in Requests
               PROVE  /\ InExchange(q)' <=> (InExchange(q) \/ (q = r /\ next = "exchanged"))
                      /\ req'[q].token = req[q].token
    OBVIOUS
  <2>4. CASE q = r
    BY <2>2, <2>4
  <2>5. CASE q # r
    BY <2>3, <2>5
  <2> QED
    BY <2>4, <2>5
<1>3. {login'[req'[q].token] : q \in {x \in Requests : InExchange(x)'}}
        = {login[req[q].token] : q \in {x \in Requests : InExchange(x)}}
            \cup (IF next = "exchanged" THEN {s} ELSE {})
  <2>1. \A q \in Requests : login'[req'[q].token] = login[req[q].token]
    BY <1>1, <1>2
  <2>2. CASE next = "exchanged"
    <3>1. {x \in Requests : InExchange(x)'} = {x \in Requests : InExchange(x)} \cup {r}
      BY <1>2, <2>2
    <3>2. s = login[req[r].token]
      BY <2>2
    <3>3. {login'[req'[q].token] : q \in {x \in Requests : InExchange(x)'}}
            = {login[req[q].token] : q \in {x \in Requests : InExchange(x)} \cup {r}}
      BY <2>1, <3>1
    <3> DEFINE under == {x \in Requests : InExchange(x)}
    <3>4. {login[req[q].token] : q \in under \cup {r}}
            = {login[req[q].token] : q \in under} \cup {login[req[r].token]}
      <4> HIDE DEF under
      <4> QED
        OBVIOUS
    <3> QED
      BY <2>2, <3>2, <3>3, <3>4
  <2>3. CASE next # "exchanged"
    <3>1. {x \in Requests : InExchange(x)'} = {x \in Requests : InExchange(x)}
      BY <1>2, <2>3
    <3> QED
      BY <2>1, <2>3, <3>1
  <2> QED
    BY <2>2, <2>3
<1>4. CASE type[t] # "refresh"
  <2>1. Twice' = Twice
    BY <1>0, <1>1, <1>4 DEF Twice
  <2>2. Live' = Live
    BY <1>0, <1>1, <1>4, <2>1 DEF Live, Unspent
  <2>3. TurnedIn' = TurnedIn
    BY <1>3, <1>4, <2>1 DEF TurnedIn
  <2> QED
    BY <1>1, <2>1, <2>2, <2>3 DEF Abstract!sessionVars
<1>5. CASE type[t] = "refresh" /\ s \in Twice
  <2>1. Twice' = Twice
    BY <1>0, <1>1, <1>5 DEF Twice
  <2>2. Live' = Live
    <3>1. \A l \in Tokens : Live'[l] = Live[l]
      BY <1>0, <1>1, <1>5, <2>1 DEF Live, Unspent
    <3> QED
      BY <3>1 DEF Live
  <2>3. TurnedIn' = TurnedIn
    BY <1>3, <1>5, <2>1 DEF TurnedIn
  <2> QED
    BY <1>1, <2>1, <2>2, <2>3 DEF Abstract!sessionVars
<1>6. CASE type[t] = "refresh" /\ s \notin Twice /\ consumed[t] = 0
  <2>1. Twice' = Twice
    BY <1>0, <1>1, <1>6 DEF Twice
  <2>2. OneUnspent(s) /\ Unspent(t)
    BY <1>0, <1>6 DEF TokensInv, SessionInv, Unspent
  <2>3. t \in Live[s]
    BY <1>0, <1>6, <2>2 DEF Live
  <2>4. Live' = [Live EXCEPT ![s] = {}]
    <3>1. ASSUME NEW l \in Tokens PROVE Live'[l] = IF l = s THEN {} ELSE Live[l]
      <4>1. \A x \in Tokens : Unspent(x)' <=> Unspent(x) /\ x # t
        BY <1>0, <1>1, <2>2 DEF Unspent
      <4>2. \A x \in Tokens : Unspent(x) /\ login[x] = s => x = t
        BY <2>2 DEF OneUnspent
      <4> QED
        BY <1>1, <2>1, <4>1, <4>2 DEF Live
    <3> QED
      BY <1>0, <3>1 DEF Live
  <2>5. s \notin TurnedIn
    BY <2>2 DEF OneUnspent, TurnedIn
  <2>6. CASE next = "exchanged"
    <3>1. TurnedIn' = TurnedIn \cup {s}
      BY <1>3, <1>6, <2>1, <2>6 DEF TurnedIn
    <3>2. Abstract!TurnIn(s)
      BY <1>1, <2>1, <2>3, <2>4, <3>1 DEF Abstract!TurnIn
    <3> QED
      BY <1>0, <3>2 DEF Abstract!SessionsNext
  <2>7. CASE next # "exchanged"
    <3>1. TurnedIn' = TurnedIn \ {s}
      BY <1>3, <2>1, <2>5, <2>7 DEF TurnedIn
    <3>2. Abstract!Close(s)
      BY <1>1, <2>1, <2>3, <2>4, <3>1 DEF Abstract!Close
    <3> QED
      BY <1>0, <3>2 DEF Abstract!SessionsNext
  <2> QED
    BY <2>6, <2>7
<1>7. CASE type[t] = "refresh" /\ s \notin Twice /\ consumed[t] # 0
  <2>1. Twice' = Twice \cup {s}
    <3>1. {x \in Tokens : type'[x] = "refresh" /\ consumed'[x] > 1}
            = {x \in Tokens : type[x] = "refresh" /\ consumed[x] > 1} \cup {t}
      BY <1>0, <1>1, <1>7
    <3> QED
      BY <1>1, <3>1 DEF Twice
  <2>2. Live' = [Live EXCEPT ![s] = {}]
    <3>1. \A x \in Tokens : Unspent(x)' <=> Unspent(x)
      BY <1>0, <1>1, <1>7 DEF Unspent
    <3>2. ASSUME NEW l \in Tokens PROVE Live'[l] = IF l = s THEN {} ELSE Live[l]
      BY <1>1, <2>1, <3>1 DEF Live
    <3> QED
      BY <1>0, <3>2 DEF Live
  <2>3. TurnedIn' = TurnedIn \ {s}
    BY <1>3, <2>1 DEF TurnedIn
  <2>4. Abstract!Dispute(s)
    BY <1>1, <1>7, <2>1, <2>2, <2>3 DEF Abstract!Dispute
  <2> QED
    BY <1>0, <2>4 DEF Abstract!SessionsNext
<1> QED
  BY <1>4, <1>5, <1>6, <1>7

\* Either outcome of _revoke_token: the loser of a race ends.
LEMMA RevokeOfSession ==
    ASSUME TokensInv, NEW r \in Requests, req[r] # Idle, ~InExchange(r),
           NEW t \in Tokens, NEW next \in Points,
           next = "exchanged" => t = req[r].token /\ type[t] = "refresh",
           Revoke(r, t, next)
    PROVE  [Abstract!SessionsNext]_(Abstract!sessionVars)
<1>1. CASE t \notin revoked
  BY <1>1, RevocationOfSession DEF Revoke
<1>2. CASE t \in revoked
  <2>1. Answer(r)
    BY <1>2 DEF Revoke, Answer
  <2> QED
    BY <2>1, MovesNoSession
<1> QED
  BY <1>1, <1>2

\* A new pair gives a session one more token, and no other session anything.
LEMMA IssueGives ==
    ASSUME TokensInv, UNCHANGED consumed,
           NEW u \in Users, NEW s \in Issued \cup {NoToken}, IssuePair(u, s)
    PROVE  /\ Twice' = Twice /\ Twice \subseteq Issued
           /\ \A x \in Issued : login'[x] = login[x]
           /\ \E f \in Tokens \ Issued, l \in Tokens :
                 /\ l = IF s = NoToken THEN f ELSE s
                 /\ Abstract!Give(f, u)
                 /\ Live' = [Live EXCEPT ![l] = IF l \in Twice THEN @ ELSE @ \cup {f}]
<1>0. s \in Tokens \cup {NoToken}
  BY DEF Issued
<1>1. Twice' = Twice
  BY <1>0, IssueTwice DEF TokensInv
<1>2. Twice \subseteq Issued
  BY DEF Twice, TokensInv, SessionInv, Rooted, Issued
<1>3. PICK a \in Tokens \ Issued, f \in Tokens \ Issued :
        /\ a # f
        /\ type' = [type EXCEPT ![a] = "access", ![f] = "refresh"]
        /\ sub' = [sub EXCEPT ![a] = u, ![f] = u]
        /\ LET first == IF s = NoToken THEN f ELSE s
           IN  login' = [login EXCEPT ![a] = first, ![f] = first]
  BY DEF IssuePair
<1> DEFINE l == IF s = NoToken THEN f ELSE s
<1>4. /\ l \in Tokens
      /\ \A x \in Tokens : login'[x] = IF x \in {a, f} THEN l ELSE login[x]
      /\ \A x \in Tokens : type'[x] = IF x = a THEN "access" ELSE IF x = f THEN "refresh" ELSE type[x]
      /\ \A x \in Tokens \ {a, f} : sub'[x] = sub[x]
      /\ sub'[f] = u
      /\ type[a] = "none" /\ type[f] = "none" /\ a # f
  BY <1>0, <1>3 DEF TokensInv, TypeOK, Issued
<1> HIDE DEF l
<1>5. \A x \in Issued : login'[x] = login[x]
  BY <1>3, <1>4 DEF Issued
<1>6. Abstract!Give(f, u)
  <2>1. {x \in Tokens : type'[x] = "refresh"} = {x \in Tokens : type[x] = "refresh"} \cup {f}
    <3>1. \A x \in Tokens : type'[x] = "refresh" <=> type[x] = "refresh" \/ x = f
      BY <1>4
    <3> QED
      BY <3>1
  <2>2. Owner' = [x \in {y \in Tokens : type[y] = "refresh"} \cup {f} |-> sub'[x]]
    BY <2>1 DEF Owner
  <2>3. DOMAIN Owner = {y \in Tokens : type[y] = "refresh"}
    BY DEF Owner
  <2>4. \A x \in DOMAIN Owner : x # f /\ sub'[x] = Owner[x]
    BY <1>4, <2>3 DEF Owner
  <2>5. Owner' = [x \in DOMAIN Owner \cup {f} |-> IF x = f THEN u ELSE Owner[x]]
    BY <1>4, <2>2, <2>3, <2>4
  <2> QED
    BY <2>4, <2>5 DEF Abstract!Give, Abstract!HandedOut
<1>7. Live' = [Live EXCEPT ![l] = IF l \in Twice THEN @ ELSE @ \cup {f}]
  <2>1. consumed[f] = 0
    BY <1>3 DEF TokensInv, ConsumedInv, RowKept, TypeOK
  <2>2. \A x \in Tokens : Unspent(x)' <=> Unspent(x) \/ x = f
    BY <1>4, <2>1 DEF Unspent
  <2>3. \A x \in Tokens : Unspent(x) => login'[x] = login[x] /\ x # f
    BY <1>4 DEF Unspent
  <2>4. login'[f] = l
    BY <1>3, <1>4
  <2>5. ASSUME NEW k \in Tokens
        PROVE  Live'[k] = IF k = l /\ l \notin Twice THEN Live[l] \cup {f} ELSE Live[k]
    <3>1. Live'[k] = {x \in Tokens : Unspent(x)' /\ login'[x] = k /\ k \notin Twice}
      BY <1>1 DEF Live
    <3>2. Live[k] = {x \in Tokens : Unspent(x) /\ login[x] = k /\ k \notin Twice}
      BY DEF Live
    <3> QED
      BY <1>3, <2>2, <2>3, <2>4, <3>1, <3>2
  <2>6. Live' = [k \in Tokens |-> Live'[k]] /\ Live = [k \in Tokens |-> Live[k]]
    BY DEF Live
  <2> QED
    BY <1>4, <2>5, <2>6
<1> QED
  BY <1>1, <1>2, <1>3, <1>4, <1>5, <1>6, <1>7 DEF l

LEMMA LoginOpens ==
    ASSUME TokensInv, NEW u \in Users, Login(u)
    PROVE  Abstract!SessionsNext
<1>1. PICK f \in Tokens \ Issued :
        /\ Twice' = Twice /\ Twice \subseteq Issued
        /\ \A x \in Issued : login'[x] = login[x]
        /\ Abstract!Give(f, u)
        /\ Live' = [Live EXCEPT ![f] = IF f \in Twice THEN @ ELSE @ \cup {f}]
  <2>1. IssuePair(u, NoToken) /\ UNCHANGED consumed
    BY DEF Login
  <2>2. NoToken \in Issued \cup {NoToken}
    OBVIOUS
  <2> QED
    BY <2>1, <2>2, IssueGives
<1>2. Live[f] = {}
  BY <1>1 DEF Live, Unspent, TokensInv, SessionInv, Rooted, Issued
<1>3. Live' = [Live EXCEPT ![f] = {f}]
  BY <1>1, <1>2 DEF Live
<1>4. TurnedIn' = TurnedIn
  <2>1. \A q \in Requests : InExchange(q) => req[q].token \in Issued
    BY DEF InExchange, TokensInv, ConsumedInv, CarriesIssued
  <2>2. \A q \in Requests : InExchange(q)' <=> InExchange(q)
    BY DEF Login, InExchange
  <2>3. req' = req
    BY DEF Login
  <2> QED
    BY <1>1, <2>1, <2>2, <2>3 DEF TurnedIn
<1>5. Abstract!Open(f, u)
  BY <1>1, <1>3, <1>4 DEF Abstract!Open
<1> QED
  BY <1>5 DEF Abstract!SessionsNext

LEMMA ReissueHandsOut ==
    ASSUME TokensInv, NEW r \in Requests, Reissue(r)
    PROVE  Abstract!SessionsNext
<1> DEFINE t == req[r].token
           s == login[t]
<1>1. /\ InExchange(r) /\ t \in Issued /\ t \in Tokens /\ Rooted(t)
      /\ s \in Issued /\ s \in Tokens /\ type[s] = "refresh" /\ sub[s] = sub[t]
      /\ sub[t] \in Users /\ s # NoToken
  <2>1. req[r] # Idle /\ InExchange(r)
    BY DEF Reissue, InExchange, Idle
  <2>2. t \in Issued /\ t \in Tokens
    BY <2>1 DEF TokensInv, ConsumedInv, CarriesIssued, Issued
  <2>3. Rooted(t)
    BY <2>2 DEF TokensInv, SessionInv
  <2> QED
    BY <2>1, <2>2, <2>3, ConstantsAssumption DEF Rooted, Issued, TokensInv, TypeOK
<1> HIDE DEF t, s
<1>2. PICK f \in Tokens \ Issued :
        /\ Twice' = Twice
        /\ \A x \in Issued : login'[x] = login[x]
        /\ Abstract!Give(f, sub[t])
        /\ Live' = [Live EXCEPT ![s] = IF s \in Twice THEN @ ELSE @ \cup {f}]
  <2>1. IssuePair(sub[t], s) /\ UNCHANGED consumed
    BY DEF Reissue, t, s
  <2> QED
    BY <1>1, <2>1, IssueGives
<1>3. Owner[s] = sub[t]
  BY <1>1 DEF Owner
<1>4. \A q \in Requests : /\ InExchange(q)' <=> InExchange(q) /\ q # r
                          /\ q # r => req'[q] = req[q]
                          /\ InExchange(q) => req[q].token \in Issued
  <2>1. \A q \in Requests : /\ InExchange(q)' <=> InExchange(q) /\ q # r
                            /\ q # r => req'[q] = req[q]
    BY DEF Reissue, InExchange, TokensInv, TypeOK
  <2>2. \A q \in Requests : InExchange(q) => req[q].token \in Issued
    BY DEF InExchange, TokensInv, ConsumedInv, CarriesIssued
  <2> QED
    BY <2>1, <2>2
<1>5. TurnedIn' = {login[req[q].token] : q \in {x \in Requests : InExchange(x) /\ x # r}} \ Twice
  BY <1>2, <1>4 DEF TurnedIn
<1>6. CASE s \in Twice
  <2>1. Live' = Live
    BY <1>2, <1>6 DEF Live
  <2>2. TurnedIn' = TurnedIn
    BY <1>5, <1>6 DEF TurnedIn, s, t
  <2>3. Abstract!HandOutDisputed(s)
    BY <1>2, <1>3, <1>6, <2>1, <2>2 DEF Abstract!HandOutDisputed
  <2> QED
    BY <1>1, <2>3 DEF Abstract!SessionsNext
<1>7. CASE s \notin Twice
  <2>1. OneUnspent(s)
    BY <1>1, <1>7 DEF TokensInv, SessionInv
  <2>2. Live[s] = {}
    BY <1>1, <2>1 DEF Live, OneUnspent, s, t
  <2>3. Live' = [Live EXCEPT ![s] = {f}]
    BY <1>2, <1>7, <2>2 DEF Live
  <2>4. \A q \in Requests : InExchange(q) /\ q # r => login[req[q].token] # s
    BY <1>1, <2>1 DEF OneUnspent, s, t
  <2>5. s \in TurnedIn /\ TurnedIn' = TurnedIn \ {s}
    BY <1>1, <1>5, <1>7, <2>4 DEF TurnedIn, s, t
  <2>6. Abstract!HandOut(s)
    BY <1>2, <1>3, <2>3, <2>5 DEF Abstract!HandOut
  <2> QED
    BY <1>1, <2>6 DEF Abstract!SessionsNext
<1> QED
  BY <1>6, <1>7

\* Every commit of login, refresh_tokens and logout, every death of a request
\* and every purge is one step of a session or none: its token is passed on by
\* a refresh only, to a token of the same user, and once a logout or a refresh
\* that failed half way has closed it, it never has a token again.
THEOREM KeepsItsSessionsHolds == Spec => KeepsItsSessions
<1>1. Init => Abstract!SessionsInit
  <2> SUFFICES ASSUME Init PROVE Abstract!SessionsInit
    OBVIOUS
  <2>1. \A t \in Tokens : type[t] = "none" /\ consumed[t] = 0
    BY DEF Init
  <2>2. Twice = {} /\ Live = [s \in Tokens |-> {}]
    BY <2>1 DEF Twice, Live, Unspent
  <2>3. TurnedIn = {}
    BY DEF Init, TurnedIn, InExchange
  <2>4. Owner = [t \in {} |-> {}]
    BY <2>1 DEF Owner
  <2> QED
    BY <2>2, <2>3, <2>4 DEF Abstract!SessionsInit
<1>2. TokensInv /\ [Next]_vars => [Abstract!SessionsNext]_(Abstract!sessionVars)
  <2> SUFFICES ASSUME TokensInv, [Next]_vars
               PROVE  [Abstract!SessionsNext]_(Abstract!sessionVars)
    OBVIOUS
  <2>0. ASSUME NEW r \in Requests, req[r].at # "idle"
        PROVE  /\ req[r] # Idle /\ req[r] \in Request
               /\ req[r].token \in Tokens
               /\ req[r].at # "exchanged" => ~InExchange(r)
               /\ req[r].goal = "refresh" => type[req[r].token] = "refresh"
    BY <2>0 DEF TokensInv, TypeOK, Idle, Request, InExchange, ConsumedInv, CarriesIssued
  <2>1. ASSUME NEW u \in Users, Login(u) PROVE Abstract!SessionsNext
    BY <2>1, LoginOpens
  <2>2. ASSUME NEW r \in Requests, Reissue(r) PROVE Abstract!SessionsNext
    BY <2>2, ReissueHandsOut
  <2>3. ASSUME NEW r \in Requests, Exchange(r)
        PROVE  [Abstract!SessionsNext]_(Abstract!sessionVars)
    <3>1. /\ req[r] # Idle /\ ~InExchange(r) /\ req[r].token \in Tokens
          /\ type[req[r].token] = "refresh" /\ "exchanged" \in Points
          /\ Revoke(r, req[r].token, "exchanged")
      BY <2>0, <2>3 DEF Exchange, Points
    <3> QED
      BY <3>1, RevokeOfSession
  <2>4. ASSUME NEW r \in Requests, LogoutAccess(r)
        PROVE  [Abstract!SessionsNext]_(Abstract!sessionVars)
    <3>1. /\ req[r] # Idle /\ ~InExchange(r) /\ req[r].token \in Tokens
          /\ "accessRevoked" \in Points
          /\ Revoke(r, req[r].token, "accessRevoked") \/ Answer(r)
      BY <2>0, <2>4 DEF LogoutAccess, Points
    <3> QED
      BY <3>1, RevokeOfSession, MovesNoSession
  <2>5. ASSUME NEW r \in Requests, LogoutRefresh(r)
        PROVE  [Abstract!SessionsNext]_(Abstract!sessionVars)
    <3>1. req[r] # Idle /\ ~InExchange(r)
      BY <2>0, <2>5 DEF LogoutRefresh
    <3>2. \/ Answer(r) \/ Advance(r, "logging")
          \/ req[r].body \in Tokens /\ Revoke(r, req[r].body, "logging")
      BY <2>5 DEF LogoutRefresh, Decodes, Issued
    <3>3. "logging" \in Points \ {"exchanged"}
      BY DEF Points
    <3> QED
      BY <3>1, <3>2, <3>3, RevokeOfSession, MovesNoSession
  <2>6. ASSUME NEW r \in Requests, Lookup(r) \/ UserLoad(r) \/ LogoutDone(r)
        PROVE  UNCHANGED Abstract!sessionVars
    <3>1. req[r] # Idle /\ ~InExchange(r)
      BY <2>0, <2>6 DEF Lookup, UserLoad, LogoutDone
    <3>2. Answer(r) \/ Advance(r, "userload") \/ Advance(r, "loaded")
      BY <2>6 DEF Lookup, UserLoad, LogoutDone
    <3>3. {"userload", "loaded"} \subseteq Points \ {"exchanged"}
      BY DEF Points
    <3> QED
      BY <3>1, <3>2, <3>3, MovesNoSession
  <2>7. ASSUME NEW r \in Requests, Crash(r)
        PROVE  [Abstract!SessionsNext]_(Abstract!sessionVars)
    BY <2>7, DeathCloses, MovesNoSession DEF Crash
  <2>8. ASSUME NEW r \in Requests, NEW t \in Tokens,
               \/ PresentAccess(r, t)
               \/ PresentRefresh(r, t)
               \/ \E b \in Issued \cup {NoToken} : PresentLogout(r, t, b)
        PROVE  UNCHANGED Abstract!sessionVars
    <3>1. PICK g \in {"resource", "refresh", "logout"}, b \in Issued \cup {NoToken} : Begin(r, g, t, b)
      BY <2>8 DEF PresentAccess, PresentRefresh, PresentLogout
    <3>2. \A q \in Requests : /\ InExchange(q)' <=> InExchange(q)
                              /\ InExchange(q) => req'[q].token = req[q].token
      BY <3>1 DEF Begin, InExchange, TokensInv, TypeOK
    <3> QED
      BY <3>1, <3>2, SameSessions DEF Begin
  <2>9. ASSUME UNCHANGED <<claims, consumed, req>> PROVE UNCHANGED Abstract!sessionVars
    BY <2>9, SameSessions DEF InExchange
  <2>10. ASSUME NEW u \in Users, EraseAccount(u) PROVE UNCHANGED Abstract!sessionVars
    BY <2>9, <2>10 DEF EraseAccount
  <2>11. CASE Cleanup \/ Tick \/ UNCHANGED vars
    BY <2>9, <2>11 DEF Cleanup, Tick, vars
  <2> QED
    BY <2>1, <2>2, <2>3, <2>4, <2>5, <2>6, <2>7, <2>8, <2>10, <2>11 DEF Next
<1> QED
  BY <1>1, <1>2, TypeCorrect, ConsumedInvHolds, SessionInvHolds, PTL
  DEF Spec, TokensInv, KeepsItsSessions, Abstract!SessionsSpec
=============================================================================
