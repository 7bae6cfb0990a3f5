------------------------------ MODULE Accounts ------------------------------
(***************************************************************************)
(* The rows of users and the rows that refer to them without a foreign     *)
(* key: OAuth links, API keys and role assignments.  Concurrent requests   *)
(* register, change, soft-delete, pseudonymise and erase accounts, reset   *)
(* passwords and sign in through an identity provider.  A step ends with   *)
(* the await of a SELECT or of a commit.                                   *)
(*                                                                         *)
(* A user id stands for the id and the username, which are checked and     *)
(* kept unique together.  Phone numbers, roles and names are left out.     *)
(***************************************************************************)
EXTENDS FiniteSets

CONSTANTS
    Ids,                \* user ids that clients choose at registration
    Uuids,              \* user ids that uuid4 makes, each once
    Emails,
    Identities,         \* (provider, provider_user_id) pairs
    Requests,           \* slots for requests in progress
    None,               \* no user, no identity
    Hidden              \* the pseudonym of an address

ASSUME AccountsAssumption ==
    /\ Ids \cap Uuids = {} /\ None \notin Ids \cup Uuids \cup Identities
    /\ Hidden \notin Emails

VARIABLES
    status,             \* of the row of users; "deleted" has deleted_at set
    email, password,    \* its columns
    link,               \* the user_id of the row of oauth_accounts, if any
    belongs,            \* ids that api_keys or user_roles mention
    minted,             \* ids that uuid4 has made
    req,                \* what each request has read and is about to do
    unasked,            \* history: accounts whose address another request may
                        \* have found free, or was set without a look
    home,               \* history: the account an identity signs in to, while there
    raced,              \* history: ids erased under a request for them
    asked, contended,   \* history: last address asked for; two ask at once
    scrubbed            \* history: pseudonymised with no change under way

rows == <<status, email, password, link, belongs, minted>>
history == <<unasked, home, raced, asked, contended, scrubbed>>
vars == <<rows, req, history>>

Users == Ids \cup Uuids
Addresses == Emails \cup {Hidden}
Idle == [op |-> "idle", user |-> None, mail |-> Hidden, seen |-> Hidden, ident |-> None]

Ops == {"idle", "registering", "inserting", "updating", "deleting", "logging", "rekeying",
        "tokened", "resetting", "erasing", "issuing", "linked", "matching", "linking", "provisioning"}

Requested ==
    [op : Ops, user : Users \cup {None}, mail : Addresses, seen : Addresses,
     ident : Identities \cup {None}]

TypeOK ==
    /\ status \in [Users -> {"none", "live", "deleted"}]
    /\ email \in [Users -> Addresses] /\ password \in [Users -> {"random", "chosen"}]
    /\ link \in [Identities -> Users \cup {None}]
    /\ belongs \subseteq Users /\ minted \subseteq Uuids
    /\ req \in [Requests -> Requested]
    /\ unasked \subseteq Users /\ home \in [Identities -> Users \cup {None}]
    /\ raced \subseteq Users /\ contended \subseteq Users /\ scrubbed \subseteq Users
    /\ asked \in [Users -> Addresses]

Init ==
    /\ status = [u \in Users |-> "none"] /\ link = [i \in Identities |-> None]
    /\ email = [u \in Users |-> Hidden] /\ password = [u \in Users |-> "random"]
    /\ belongs = {} /\ minted = {}
    /\ req = [r \in Requests |-> Idle]
    /\ unasked = {} /\ home = [i \in Identities |-> None] /\ raced = {}
    /\ asked = email /\ contended = {} /\ scrubbed = {}

Exists(u) == status[u] # "none"
Live(u) == status[u] = "live"
Doing(ops) == {r \in Requests : req[r].op \in ops}
On(ops, u) == {r \in Doing(ops) : req[r].user = u}
Become(r, op) == req' = [req EXCEPT ![r].op = op]
End(r) == req' = [req EXCEPT ![r] = Idle]
GoLog(r) == req' = [req EXCEPT ![r] = [Idle EXCEPT !.op = "logging"]]

\* Request r starts with operation op on user u.
Begin(r, op, u) ==
    /\ req[r] = Idle
    /\ req' = [req EXCEPT ![r] = [Idle EXCEPT !.op = op, !.user = u]]

\* The same, having loaded the row of u, to set its address to e.
BeginOnRow(r, op, u, e) ==
    /\ req[r] = Idle
    /\ req' = [req EXCEPT ![r] = [Idle EXCEPT !.op = op, !.user = u, !.mail = e,
                                              !.seen = email[u]]]

\* Somebody asks for an address of u while a change of it is under way.
Contend(u) == contended' = IF On({"updating"}, u) = {} THEN contended ELSE contended \cup {u}

-----------------------------------------------------------------------------
(* create_user.                                                             *)

NewRow(r, p) ==
    LET u == req[r].user  e == req[r].mail IN
    /\ status' = [status EXCEPT ![u] = "live"]
    /\ email' = [email EXCEPT ![u] = e]
    /\ password' = [password EXCEPT ![u] = p]
    /\ unasked' = IF req[r].seen = e THEN unasked \cup {u} ELSE unasked \ {u}
    /\ asked' = [asked EXCEPT ![u] = e]
    /\ Contend(u)

\* get_user, get_user_by_username: soft-deleted rows are not seen.
BeginRegister(r, u, e) ==
    /\ ~Live(u)
    /\ req[r] = Idle
    /\ req' = [req EXCEPT ![r] = [Idle EXCEPT !.op = "registering", !.user = u, !.mail = e]]
    /\ UNCHANGED <<rows, history>>

\* POST /users.
PostUser(r) == \E u \in Ids, e \in Emails : BeginRegister(r, u, e)

Taken(e) == \E u \in Users : Live(u) /\ email[u] = e

\* The address was found free; seen marks that another request found it so too.
Found(r) ==
    LET e == req[r].mail IN
    IF \E q \in Doing({"inserting", "provisioning"}) : req[q].mail = e THEN e ELSE Hidden

\* Mutant: the address is not looked up.
CheckEmail_skipped(r) ==
    /\ req[r].op = "registering"
    /\ req' = [req EXCEPT ![r].op = "inserting", ![r].seen = Found(r)]
    /\ UNCHANGED <<rows, history>>

\* get_user_by_email; 409 if it is taken.
CheckEmail(r) ==
    /\ req[r].op = "registering"
    /\ IF Taken(req[r].mail)
       THEN End(r)
       ELSE req' = [req EXCEPT ![r].op = "inserting", ![r].seen = Found(r)]
    /\ UNCHANGED <<rows, history>>

\* The INSERT: the primary key counts soft-deleted rows too.
InsertUser(r) ==
    LET u == req[r].user IN
    /\ req[r].op = "inserting"
    /\ End(r)
    /\ IF Exists(u) THEN UNCHANGED <<status, email, password, unasked, asked, contended>>
                    ELSE NewRow(r, "chosen")
    /\ UNCHANGED <<link, belongs, minted, home, raced, scrubbed>>

-----------------------------------------------------------------------------
(* update_user, delete_user.                                                *)

\* Mutant: get_user finds soft-deleted rows.
BeginUpdate_deleted(r, u, e) ==
    /\ Exists(u)
    /\ BeginOnRow(r, "updating", u, e)
    /\ Contend(u)
    /\ UNCHANGED <<rows, unasked, home, raced, asked, scrubbed>>

\* get_user for a change of the address (nobody asks whether it is taken).
BeginUpdate(r, u, e) ==
    /\ Live(u)
    /\ BeginOnRow(r, "updating", u, e)
    /\ Contend(u)
    /\ UNCHANGED <<rows, unasked, home, raced, asked, scrubbed>>

\* The UPDATE has the columns that differ from what was loaded; if the row is
\* gone it raises.
CommitUpdate(r) ==
    LET u == req[r].user  e == req[r].mail IN
    /\ req[r].op = "updating"
    /\ End(r)
    /\ IF Exists(u)
       THEN /\ email' = [email EXCEPT ![u] = IF e = req[r].seen THEN @ ELSE e]
            /\ asked' = [asked EXCEPT ![u] = IF u \in contended THEN email'[u] ELSE e]
            /\ unasked' = unasked \cup {u}
       ELSE UNCHANGED <<email, asked, unasked>>
    /\ contended' = IF On({"updating"}, u) = {r} THEN contended \ {u} ELSE contended
    /\ UNCHANGED <<status, password, link, belongs, minted, home, raced, scrubbed>>

\* get_user for a change of the password, or for delete_user.
BeginRekey(r, u) ==
    /\ Live(u) /\ BeginOnRow(r, "rekeying", u, Hidden)
    /\ UNCHANGED <<rows, history>>

BeginDelete(r, u) ==
    /\ Live(u) /\ Begin(r, "deleting", u)
    /\ UNCHANGED <<rows, history>>

\* deleted_at is set and committed; the audit row needs a commit of its own.
CommitDelete(r) ==
    LET u == req[r].user IN
    /\ req[r].op = "deleting"
    /\ IF Exists(u)
       THEN /\ status' = [status EXCEPT ![u] = "deleted"]
            /\ GoLog(r)
       ELSE End(r) /\ UNCHANGED status
    /\ UNCHANGED <<email, password, link, belongs, minted,
                   unasked, home, raced, asked, contended, scrubbed>>

\* log_action, whose row nothing here reads.
Log(r) ==
    /\ req[r].op = "logging"
    /\ End(r)
    /\ UNCHANGED <<rows, history>>

-----------------------------------------------------------------------------
(* Password reset.                                                          *)

\* request_password_reset: the slot now stands for whoever holds the token; a
\* token that is used twice is two tokens.
RequestReset(r, u) ==
    /\ Exists(u)
    /\ Begin(r, "tokened", u)
    /\ UNCHANGED <<rows, history>>

\* confirm_password_reset loads the user, soft-deleted or not.
BeginReset(r) ==
    LET u == req[r].user IN
    /\ req[r].op = "tokened" /\ Exists(u)
    /\ req' = [req EXCEPT ![r].op = "resetting", ![r].seen = email[u]]
    /\ UNCHANGED <<rows, history>>

\* Mutant: the row is written back as it was read.
SetPassword_wholeRow(r, u) ==
    /\ password' = [password EXCEPT ![u] = "chosen"]
    /\ email' = [email EXCEPT ![u] = req[r].seen]

\* Only password_hash is in the UPDATE.
SetPassword(r, u) ==
    /\ password' = [password EXCEPT ![u] = "chosen"]
    /\ UNCHANGED email

CommitPassword(r) ==
    LET u == req[r].user IN
    /\ req[r].op \in {"rekeying", "resetting"}
    /\ IF Exists(u) THEN SetPassword(r, u) ELSE UNCHANGED <<email, password>>
    /\ IF Exists(u) /\ req[r].op = "resetting" THEN GoLog(r) ELSE End(r)
    /\ UNCHANGED <<status, link, belongs, minted,
                   unasked, home, raced, asked, contended, scrubbed>>

-----------------------------------------------------------------------------
(* GDPR.                                                                    *)

\* pseudonymize_user: the fields marked as PII and deleted_at, in one commit.
Pseudonymize(u) ==
    /\ email' = [email EXCEPT ![u] = Hidden]
    /\ status' = [status EXCEPT ![u] = "deleted"]
    /\ asked' = [asked EXCEPT ![u] = Hidden]
    /\ scrubbed' = IF On({"updating"}, u) = {} THEN scrubbed \cup {u} ELSE scrubbed
    /\ unasked' = unasked \ {u}
    /\ Contend(u)
    /\ UNCHANGED <<password, link, belongs, minted, req, home, raced>>

BeginErase(r, u) ==
    /\ Begin(r, "erasing", u)
    /\ UNCHANGED <<rows, history>>

\* POST /users/{user_id}/pseudonymize, whether or not the user is deleted already.
RequestPseudonym(u) == Exists(u) /\ Pseudonymize(u)

\* DELETE /users/{user_id}/erase: 404 without the user.
RequestErasure(r, u) == Exists(u) /\ BeginErase(r, u)

\* Mutant: the links stay.
DeleteRows_links(u) ==
    /\ status' = [status EXCEPT ![u] = "none"]
    /\ belongs' = belongs \ {u}
    /\ UNCHANGED link

\* The DELETEs of delete_user_data.
DeleteRows(u) ==
    /\ status' = [status EXCEPT ![u] = "none"]
    /\ belongs' = belongs \ {u}
    /\ link' = [i \in Identities |-> IF link[i] = u THEN None ELSE link[i]]

CommitErase(r) ==
    LET u == req[r].user IN
    /\ req[r].op = "erasing"
    /\ DeleteRows(u)
    /\ raced' = IF On({"issuing", "linking", "linked"}, u) = {} THEN raced \ {u}
                                                               ELSE raced \cup {u}
    /\ contended' = contended \ {u} /\ unasked' = unasked \ {u}
    /\ email' = [email EXCEPT ![u] = Hidden] /\ password' = [password EXCEPT ![u] = "random"]
    /\ scrubbed' = scrubbed \ {u} /\ asked' = [asked EXCEPT ![u] = Hidden]
    /\ home' = [i \in Identities |-> IF home[i] = u THEN None ELSE home[i]]
    /\ End(r)
    /\ UNCHANGED minted

-----------------------------------------------------------------------------
(* API keys and roles.                                                      *)

\* issue_api_key for the user found by the token, or grant_role, which would take
\* any id, for a user the administrator sees.
BeginIssue(r, u) ==
    /\ Exists(u)
    /\ Begin(r, "issuing", u)
    /\ UNCHANGED <<rows, history>>

CommitIssue(r) ==
    /\ req[r].op = "issuing"
    /\ belongs' = belongs \cup {req[r].user}
    /\ End(r)
    /\ UNCHANGED <<status, email, password, link, minted, history>>

-----------------------------------------------------------------------------
(* get_or_create_oauth_user, called by the OAuth and SAML callbacks.        *)

\* The provider has answered with identity i and address e; the link is read.
BeginCallback(r, i, e) ==
    /\ req[r] = Idle
    /\ req' = [req EXCEPT ![r] =
                 [Idle EXCEPT !.op = IF link[i] = None THEN "matching" ELSE "linked",
                              !.user = link[i], !.mail = e, !.ident = i]]
    /\ UNCHANGED <<rows, history>>

\* What a provider may answer: GitHub makes up an address for a user who hides it,
\* SAML takes the name for it.
Answers == Identities \X Emails

\* google_callback, and those of GitHub and SAML: without an answer, no request.
Callback(r) == \E a \in Answers : BeginCallback(r, a[1], a[2])

\* The tokens are made for this user.
SignIn(r, u) == home' = [home EXCEPT ![req[r].ident] = u]

\* The linked user, soft-deleted or not; a link to nobody is passed over.
FindLinked(r) ==
    /\ req[r].op = "linked"
    /\ IF Exists(req[r].user) THEN SignIn(r, req[r].user) /\ End(r)
                              ELSE Become(r, "matching") /\ UNCHANGED home
    /\ UNCHANGED <<rows, unasked, raced, asked, contended, scrubbed>>

\* The first user that is not deleted and has the address.
MatchByEmail(r, u) ==
    /\ req[r].op = "matching"
    /\ Live(u) /\ email[u] = req[r].mail
    /\ req' = [req EXCEPT ![r].op = "linking", ![r].user = u]
    /\ UNCHANGED <<rows, history>>

\* Nobody has it: a user will be provisioned.
MatchNobody(r, u) ==
    /\ req[r].op = "matching"
    /\ ~Taken(req[r].mail)
    /\ u \in Uuids \ minted /\ minted' = minted \cup {u}
    /\ req' = [req EXCEPT ![r].op = "provisioning", ![r].user = u, ![r].seen = Found(r)]
    /\ UNCHANGED <<status, email, password, link, belongs, history>>

\* Mutant: the link is replaced, not inserted.
LinkIsFree_replaced(i) == TRUE

\* uq_oauth_provider_uid
LinkIsFree(i) == link[i] = None

\* The new user is only flushed: a link that cannot be inserted takes it away.
AddUser(r) ==
    IF req[r].op = "provisioning" /\ LinkIsFree(req[r].ident)
    THEN NewRow(r, "random")
    ELSE UNCHANGED <<status, email, password, unasked, asked, contended>>

\* The commit, and the refresh, which fails if the user is gone by now.
CommitLink(r) ==
    LET u == req[r].user  i == req[r].ident IN
    /\ req[r].op \in {"linking", "provisioning"}
    /\ AddUser(r)
    /\ IF LinkIsFree(i)
       THEN /\ link' = [link EXCEPT ![i] = u]
            /\ IF status'[u] # "none" THEN SignIn(r, u) ELSE UNCHANGED home
       ELSE UNCHANGED <<link, home>>
    /\ End(r)
    /\ UNCHANGED <<belongs, minted, raced, scrubbed>>

-----------------------------------------------------------------------------
\* A request dies, with what it has not committed; a token expires.
Die(r) ==
    /\ req[r] # Idle
    /\ End(r)
    /\ UNCHANGED <<rows, history>>

Handle(r) ==
    \/ CheckEmail(r) \/ InsertUser(r) \/ CommitUpdate(r) \/ CommitDelete(r) \/ Log(r)
    \/ CommitPassword(r) \/ CommitErase(r) \/ CommitIssue(r)
    \/ BeginReset(r) \/ FindLinked(r) \/ CommitLink(r) \/ Die(r)

Next ==
    \/ \E r \in Requests :
          \/ Handle(r)
          \/ PostUser(r)
          \/ \E u \in Users :
                \/ \E e \in Emails : BeginUpdate(r, u, e)
                \/ BeginRekey(r, u) \/ BeginDelete(r, u)
                \/ RequestReset(r, u) \/ BeginIssue(r, u)
                \/ MatchByEmail(r, u) \/ MatchNobody(r, u)
          \/ Callback(r)
          \/ \E u \in Users : RequestErasure(r, u)
    \/ \E u \in Users : RequestPseudonym(u)

Spec == Init /\ [][Next]_vars

-----------------------------------------------------------------------------
(* Properties.                                                              *)

\* No two accounts share an address, as create_user and the callbacks promise by
\* looking first: unless two requests looked at once, or a profile change, which
\* does not look, has set it.
EmailsUnique ==
    \A u, v \in Users \ unasked :
        (Live(u) /\ Live(v) /\ email[u] = email[v]) => u = v

\* "Each OAuth identity is linked to exactly one local User": as long as the
\* account exists, deleted or not, its identity never signs in to another,
\* however first callbacks race and wherever requests die; unless the account, or
\* an earlier one with its id, was erased during a callback.
IdentityKeepsItsAccount ==
    [][ \A i \in Identities :
           home[i] \notin raced \cup {None} =>
               \/ home'[i] \in {home[i]} \cup raced
               \/ status'[home[i]] = "none" ]_vars

\* Links and accounts come and go together: erasure leaves no link, key or role
\* behind that the next owner of the id would inherit, unless one was being added
\* while the account was erased, and an account provisioned with a password nobody
\* knows has its link from the first, whatever fails.
LinksFollowAccounts ==
    \A u \in Users :
        /\ ~Exists(u) /\ u \notin raced =>
              u \notin belongs /\ \A i \in Identities : link[i] # u
        /\ Exists(u) /\ password[u] = "random" => \E i \in Identities : link[i] = u

\* The address of an account is the one last asked for: a reset, a deletion or a
\* login that read the row before does not write it back.  Two profile changes
\* at once may undo each other.
LastChangePrevails ==
    \A u \in Users \ contended : Exists(u) => email[u] = asked[u]

\* "After this call the user's PII is gone", for good: no request that does not
\* overlap the call puts it back.
ScrubbedStays == \A u \in scrubbed : email[u] = Hidden
=============================================================================
