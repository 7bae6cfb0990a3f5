----------------------------- MODULE AuthTokens -----------------------------
(***************************************************************************)
(* JWT sessions with TOKEN_REVOCATION_ENABLED=true (the default): login,   *)
(* refresh and logout (app/routers/auth.py), the bearer check of every     *)
(* protected route (app/core/deps.py), the tokens (app/core/auth.py), the  *)
(* revoked_tokens table and the celery task that is meant to purge it      *)
(* (app/tasks/cleanup_tasks.py).                                           *)
(*                                                                         *)
(* Requests run concurrently, in one process or many: every await on the   *)
(* database is a step, and a request may die at any of them.  The unique   *)
(* index on revoked_tokens.jti is what the requests meet at.               *)
(***************************************************************************)
EXTENDS Naturals, FiniteSets

CONSTANTS
    Users,
    Tokens,             \* jtis, drawn by uuid4: a login never repeats one
    Requests,           \* slots for requests in progress
    NoToken,            \* no refresh_token in the logout body
    AccessLife, RefreshLife,
    MaxTime,            \* bound: the clock stops here
    SessionBound        \* cleanup_tasks imported SessionLocal after it was set

ASSUME ConstantsAssumption ==
    /\ NoToken \notin Tokens
    /\ AccessLife \in Nat /\ RefreshLife \in Nat /\ MaxTime \in Nat
    /\ SessionBound \in BOOLEAN

VARIABLES
    now,
    accounts,           \* rows of users
    type, sub, exp,     \* the claims of each token; type "none": not issued
    revoked,            \* rows of revoked_tokens, by jti
    req,                \* each request slot: the handler's progress
    consumed,           \* history: how often each token was revoked
    login               \* history: the first refresh token of its session

claims == <<type, sub, exp, login>>
vars == <<now, accounts, claims, revoked, req, consumed>>

\* A request: the await it has reached, what it is for, the token it came
\* with and the refresh_token in its body (a logout may have one).
Request ==
    [at : {"lookup", "userload", "loaded", "exchanged", "accessRevoked", "logging"},
     goal : {"resource", "refresh", "logout"},
     token : Tokens,
     body : Tokens \cup {NoToken}]
Idle == [at |-> "idle", goal |-> "none", token |-> NoToken, body |-> NoToken]

TypeOK ==
    /\ now \in Nat
    /\ accounts \subseteq Users
    /\ type \in [Tokens -> {"none", "access", "refresh"}]
    /\ sub \in [Tokens -> Users]
    /\ exp \in [Tokens -> Nat]
    /\ login \in [Tokens -> Tokens]
    /\ revoked \subseteq Tokens
    /\ req \in [Requests -> Request \cup {Idle}]
    /\ consumed \in [Tokens -> Nat]

Issued == {t \in Tokens : type[t] # "none"}

Init ==
    /\ now = 0
    /\ accounts = Users
    /\ type = [t \in Tokens |-> "none"]
    /\ \E u \in Users : sub = [t \in Tokens |-> u]
    /\ exp = [t \in Tokens |-> 0]
    /\ login = [t \in Tokens |-> t]
    /\ revoked = {}
    /\ req = [r \in Requests |-> Idle]
    /\ consumed = [t \in Tokens |-> 0]

-----------------------------------------------------------------------------
(* Tokens.                                                                  *)

\* decode_token: the signature always holds here, so only expiry can fail.
Decodes(t) == t \in Issued /\ now < exp[t]

\* create_access_token and create_refresh_token, for session s: it starts
\* with this refresh token when s is NoToken.
IssuePair(u, s) ==
    \E a, f \in Tokens \ Issued :
        /\ a # f
        /\ type' = [type EXCEPT ![a] = "access", ![f] = "refresh"]
        /\ sub' = [sub EXCEPT ![a] = u, ![f] = u]
        /\ exp' = [exp EXCEPT ![a] = now + AccessLife, ![f] = now + RefreshLife]
        /\ LET first == IF s = NoToken THEN f ELSE s
           IN  login' = [login EXCEPT ![a] = first, ![f] = first]

\* Mutant: no unique index, a second row with the same jti goes in.
Revoke_noIndex(r, t, next) ==
    /\ revoked' = revoked \cup {t}
    /\ consumed' = [consumed EXCEPT ![t] = @ + 1]
    /\ req' = [req EXCEPT ![r].at = next]
    /\ UNCHANGED <<now, accounts, claims>>

\* _revoke_token: INSERT and COMMIT of one row, and what happens next;
\* a second row with that jti breaks the unique index and the request ends
\* in an error.
Revoke(r, t, next) ==
    /\ \/ /\ t \notin revoked
          /\ revoked' = revoked \cup {t}
          /\ consumed' = [consumed EXCEPT ![t] = @ + 1]
          /\ req' = [req EXCEPT ![r].at = next]
       \/ /\ t \in revoked
          /\ req' = [req EXCEPT ![r] = Idle]
          /\ UNCHANGED <<revoked, consumed>>
    /\ UNCHANGED <<now, accounts, claims>>

-----------------------------------------------------------------------------
(* Requests.                                                                *)

\* The handler moves on to its next await, or answers.
Advance(r, to) ==
    /\ req' = [req EXCEPT ![r].at = to]
    /\ UNCHANGED <<now, accounts, claims, revoked, consumed>>

Answer(r) ==
    /\ req' = [req EXCEPT ![r] = Idle]
    /\ UNCHANGED <<now, accounts, claims, revoked, consumed>>


\* POST /auth/login with the right password.
Login(u) ==
    /\ u \in accounts
    /\ IssuePair(u, NoToken)
    /\ UNCHANGED <<now, accounts, revoked, req, consumed>>

Begin(r, g, t, b) ==
    /\ req[r] = Idle
    /\ Decodes(t)
    /\ req' = [req EXCEPT ![r] =
                 [at |-> "lookup", goal |-> g, token |-> t, body |-> b]]
    /\ UNCHANGED <<now, accounts, claims, revoked, consumed>>

\* get_current_user, up to its first query, for any protected route ...
PresentAccess(r, t) ==
    type[t] = "access" /\ Begin(r, "resource", t, NoToken)

\* ... and for POST /auth/logout, which may carry any token in its body.
PresentLogout(r, t, b) ==
    type[t] = "access" /\ Begin(r, "logout", t, b)

\* POST /auth/refresh.
PresentRefresh(r, t) ==
    type[t] = "refresh" /\ Begin(r, "refresh", t, NoToken)

\* SELECT ... FROM revoked_tokens: 401 if there is a row.
Lookup(r) ==
    /\ req[r].at = "lookup"
    /\ IF req[r].token \in revoked THEN Answer(r) ELSE Advance(r, "userload")

\* SELECT ... FROM users: 401 if the account is gone.  A plain protected
\* request is past its bearer check here and of no further interest.
UserLoad(r) ==
    /\ req[r].at = "userload"
    /\ IF sub[req[r].token] \notin accounts \/ req[r].goal = "resource"
         THEN Answer(r)
         ELSE Advance(r, "loaded")

\* Mutant: refresh reissues without revoking.
Exchange_noRevoke(r) ==
    /\ req[r].at = "loaded" /\ req[r].goal = "refresh"
    /\ Advance(r, "exchanged")

\* Refresh revokes the old refresh token first ...
Exchange(r) ==
    /\ req[r].at = "loaded" /\ req[r].goal = "refresh"
    /\ Revoke(r, req[r].token, "exchanged")

\* ... and only then makes the new pair.
Reissue(r) ==
    /\ req[r].at = "exchanged"
    /\ IssuePair(sub[req[r].token], login[req[r].token])
    /\ req' = [req EXCEPT ![r] = Idle]
    /\ UNCHANGED <<now, accounts, revoked, consumed>>

\* Logout decodes the access token once more, then revokes it.
LogoutAccess(r) ==
    /\ req[r].at = "loaded" /\ req[r].goal = "logout"
    /\ IF Decodes(req[r].token)
         THEN Revoke(r, req[r].token, "accessRevoked")
         ELSE Answer(r)

\* Then the token in the body, if there is one: 401 when it has expired -
\* the access token stays revoked - and nothing when it is someone else's.
LogoutRefresh(r) ==
    LET b == req[r].body IN
    /\ req[r].at = "accessRevoked"
    /\ \/ /\ b = NoToken
          /\ Advance(r, "logging")
       \/ /\ b # NoToken
          /\ ~Decodes(b)
          /\ Answer(r)
       \/ /\ b # NoToken
          /\ Decodes(b)
          /\ IF sub[b] = sub[req[r].token]
               THEN Revoke(r, b, "logging")
               ELSE Advance(r, "logging")

\* log_action commits the LOGOUT row and the client gets its 204.
LogoutDone(r) ==
    /\ req[r].at = "logging"
    /\ Answer(r)

\* The process dies, or the database fails, while the request awaits.
Crash(r) ==
    /\ req[r] # Idle
    /\ Answer(r)

-----------------------------------------------------------------------------
(* The rest of the system.                                                  *)

\* gdpr_service.delete_user_data removes the user's row.
EraseAccount(u) ==
    /\ u \in accounts
    /\ accounts' = accounts \ {u}
    /\ UNCHANGED <<now, claims, revoked, req, consumed>>

Tick ==
    /\ now < MaxTime
    /\ now' = now + 1
    /\ UNCHANGED <<accounts, claims, revoked, req, consumed>>

Expired(t) == exp[t] < now

\* Mutant: the comparison with the cutoff is the wrong way round.
Cleanup_swapped ==
    /\ SessionBound
    /\ revoked' = {t \in revoked : Expired(t)}
    /\ UNCHANGED <<now, accounts, claims, req, consumed>>

\* tasks.cleanup_revoked_tokens.  cleanup_tasks binds the name SessionLocal
\* when it is imported; if that was before init_db it is None for good and
\* the task raises before its DELETE.
Cleanup ==
    /\ SessionBound
    /\ revoked' = {t \in revoked : ~Expired(t)}
    /\ UNCHANGED <<now, accounts, claims, req, consumed>>

Next ==
    \/ \E u \in Users : Login(u) \/ EraseAccount(u)
    \/ \E r \in Requests, t \in Tokens :
          \/ PresentAccess(r, t)
          \/ PresentRefresh(r, t)
          \/ \E b \in Issued \cup {NoToken} : PresentLogout(r, t, b)
    \/ \E r \in Requests :
          \/ Lookup(r) \/ UserLoad(r)
          \/ Exchange(r) \/ Reissue(r)
          \/ LogoutAccess(r) \/ LogoutRefresh(r) \/ LogoutDone(r)
          \/ Crash(r)
    \/ Cleanup
    \/ Tick

Spec == Init /\ [][Next]_vars

-----------------------------------------------------------------------------
(* Properties.                                                              *)

\* Until it has expired, a token is revoked at most once, however many
\* refreshes and logouts race with it: the loser of the race meets the unique
\* index.  So a refresh token yields at most one successor, and none after a
\* logout that revoked it.
ConsumedOnce ==
    \A t \in Tokens : consumed[t] > 1 => Expired(t)

\* A token that was ever revoked passes no revocation lookup before it has
\* expired: not on a protected route, not at refresh, not at logout; not even
\* with the purge running in between.
RevokedIsRefused ==
    [][ \A r \in Requests :
          (req[r].at = "lookup" /\ req'[r].at = "userload")
             => (consumed[req[r].token] = 0 \/ Expired(req[r].token)) ]_vars

\* Usable: presented at refresh now, the token would be exchanged.
Usable(t) == type[t] = "refresh" /\ ~Expired(t) /\ t \notin revoked

\* A refresh that has revoked its token and not made the next pair yet.
InExchange(r) == req[r] # Idle /\ req[r].at = "exchanged"

\* A refresh token that nobody has turned in or revoked yet, whether or not the
\* purge has removed rows since.
Unspent(t) == type[t] = "refresh" /\ consumed[t] = 0

\* Sessions in which a refresh has outlived its own token and, on top of that,
\* the row of the rival that won: then a token was consumed twice.
Twice == {login[t] : t \in {x \in Tokens : type[x] = "refresh" /\ consumed[x] > 1}}

\* Refreshing never forks a session: of all the refresh tokens that descend
\* from one login and the refreshes about to make one, there is at most one,
\* however refreshes and logouts race, fail or crash, unless one of its tokens
\* was consumed twice.
OneUsablePerSession ==
    /\ \A s, t \in Tokens :
          Usable(s) /\ Usable(t) /\ login[s] = login[t] => s = t \/ login[s] \in Twice
    /\ \A r \in Requests, t \in Tokens :
          InExchange(r) /\ Usable(t) /\ login[t] = login[req[r].token] => login[t] \in Twice
    /\ \A q, r \in Requests :
          InExchange(q) /\ InExchange(r) /\ login[req[q].token] = login[req[r].token]
             => q = r \/ login[req[r].token] \in Twice

-----------------------------------------------------------------------------
(* Sessions, without the requests.                                          *)

Live == [s \in Tokens |-> {t \in Tokens : Unspent(t) /\ login[t] = s /\ s \notin Twice}]
TurnedIn == {login[req[r].token] : r \in {q \in Requests : InExchange(q)}} \ Twice
Owner == [t \in {x \in Tokens : type[x] = "refresh"} |-> sub[t]]

Abstract == INSTANCE Sessions WITH live <- Live, turnedIn <- TurnedIn, owner <- Owner,
                                   disputed <- Twice

\* However logins, refreshes, logouts, crashes and the purge interleave, each of
\* their commits is one step of a session or none: a session is of one user and
\* has one live token, which only a refresh passes on, to a token of the same
\* user, and once closed, by a logout or by a refresh that fails between its
\* commit and its answer, it never has a token again.
KeepsItsSessions == Abstract!SessionsSpec
=============================================================================
