------------------------------- MODULE Sessions -------------------------------
(***************************************************************************)
(* What the refresh tokens of a login amount to: a session of one user, in  *)
(* which one token at a time is live.  A refresh turns it in and hands out  *)
(* its successor; a logout, or a refresh that fails half way, closes the    *)
(* session for good.  Nothing here knows of requests, of rows or of the     *)
(* clock: a live token may have expired, but no other is accepted.          *)
(*                                                                         *)
(* Of a session in which a token was turned in twice nothing is promised    *)
(* any more but its user: it is disputed.                                   *)
(***************************************************************************)
CONSTANTS
    Tokens,     \* every token, and every session by the token it began with
    Users

VARIABLES
    live,       \* the live token of each session, or none
    turnedIn,   \* sessions whose token was turned in and not yet replaced
    owner,      \* of each token that was handed out, its user
    disputed    \* sessions that nothing more is promised of

sessionVars == <<live, turnedIn, owner, disputed>>

HandedOut == DOMAIN owner

SessionsInit ==
    /\ live = [s \in Tokens |-> {}]
    /\ turnedIn = {}
    /\ owner = [t \in {} |-> {}]
    /\ disputed = {}

\* User u gets a fresh token.
Give(t, u) ==
    /\ t \notin HandedOut
    /\ owner' = [x \in HandedOut \cup {t} |-> IF x = t THEN u ELSE owner[x]]

\* Login.
Open(s, u) ==
    /\ Give(s, u)
    /\ live' = [live EXCEPT ![s] = {s}]
    /\ UNCHANGED <<turnedIn, disputed>>

\* The first half of a refresh ...
TurnIn(s) ==
    /\ live[s] # {}
    /\ live' = [live EXCEPT ![s] = {}]
    /\ turnedIn' = turnedIn \cup {s}
    /\ UNCHANGED <<owner, disputed>>

\* ... and the second.
HandOut(s) ==
    /\ s \in turnedIn
    /\ \E t \in Tokens :
          /\ Give(t, owner[s])
          /\ live' = [live EXCEPT ![s] = {t}]
    /\ turnedIn' = turnedIn \ {s}
    /\ UNCHANGED disputed

\* No later step gives the session a token.
Close(s) ==
    /\ live[s] # {} \/ s \in turnedIn
    /\ live' = [live EXCEPT ![s] = {}]
    /\ turnedIn' = turnedIn \ {s}
    /\ UNCHANGED <<owner, disputed>>

Dispute(s) ==
    /\ s \notin disputed
    /\ disputed' = disputed \cup {s}
    /\ live' = [live EXCEPT ![s] = {}]
    /\ turnedIn' = turnedIn \ {s}
    /\ UNCHANGED owner

HandOutDisputed(s) ==
    /\ s \in disputed
    /\ \E t \in Tokens : Give(t, owner[s])
    /\ UNCHANGED <<live, turnedIn, disputed>>

SessionsNext ==
    \E s \in Tokens :
        \/ \E u \in Users : Open(s, u)
        \/ TurnIn(s) \/ HandOut(s) \/ Close(s)
        \/ Dispute(s) \/ HandOutDisputed(s)

SessionsSpec == SessionsInit /\ [][SessionsNext]_sessionVars
=============================================================================
