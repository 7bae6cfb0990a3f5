-------------------------------- MODULE Sockets --------------------------------
(***************************************************************************)
(* app/core/ws.py and app/routers/ws.py: the connections of each user, the *)
(* endpoint that registers one and takes it out when its client leaves,    *)
(* and a broadcast that iterates over dict and lists and gives way to      *)
(* them at every send.                                                     *)
(*                                                                         *)
(* active_connections is the sequence of its entries as a dict keeps them: *)
(* a new key goes to the end, and a deleted one leaves a gap that the      *)
(* iteration skips.  (A dict closes its gaps when it grows; it does not    *)
(* grow before its sixth key, and an instance has at most five sockets.)   *)
(***************************************************************************)
EXTENDS Naturals, Sequences, FiniteSets, SequencesExt

CONSTANTS Clients, SocketIds

ASSUME SocketsAssumption == IsFiniteSet(SocketIds) /\ Cardinality(SocketIds) <= 5

VARIABLES
    entries,            \* active_connections, in the order of the dict
    socket,             \* what has become of each socket
    cast,               \* the broadcast in progress
    got,                \* history: how often the broadcast's message was sent
    left                \* history: a connection was taken out meanwhile

socketVars == <<entries, socket, cast, got, left>>

Entry == [user : Clients, sockets : Seq(SocketIds), live : BOOLEAN]
Quiet == [at |-> "idle", keys |-> 0, entry |-> 0, place |-> 0, audience |-> {}]

SocketsTypeOK ==
    /\ entries \in Seq(Entry)
    /\ socket \in [SocketIds -> {"new", "open", "closed", "gone", "stuck"}]
    /\ cast \in [at : {"idle", "choosing", "sending", "done", "failed"}, keys : Nat,
                 entry : Nat, place : Nat, audience : SUBSET SocketIds]
    /\ got \in [SocketIds -> Nat]
    /\ left \in BOOLEAN

SocketsInit ==
    /\ entries = << >>
    /\ socket = [s \in SocketIds |-> "new"]
    /\ cast = Quiet
    /\ got = [s \in SocketIds |-> 0]
    /\ left = FALSE

\* Positions of the keys the dict has now, and of the one for a user.
Places == {i \in 1 .. Len(entries) : entries[i].live}
KeyOf(u) == {i \in Places : entries[i].user = u}
Listed == UNION {{entries[i].sockets[j] : j \in 1 .. Len(entries[i].sockets)} : i \in Places}

\* Mutant: the connection takes the place of the user's others.
Connect_alone(s, u) ==
    /\ socket[s] = "new"
    /\ socket' = [socket EXCEPT ![s] = "open"]
    /\ entries' = IF KeyOf(u) = {}
                  THEN Append(entries, [user |-> u, sockets |-> <<s>>, live |-> TRUE])
                  ELSE [i \in DOMAIN entries |->
                           IF i \in KeyOf(u) THEN [entries[i] EXCEPT !.sockets = <<s>>]
                           ELSE entries[i]]
    /\ UNCHANGED <<cast, got, left>>

\* connect: accepted, and at the end of the user's list, which the
\* defaultdict makes if there is none.
Connect(s, u) ==
    /\ socket[s] = "new"
    /\ socket' = [socket EXCEPT ![s] = "open"]
    /\ entries' = IF KeyOf(u) = {}
                  THEN Append(entries, [user |-> u, sockets |-> <<s>>, live |-> TRUE])
                  ELSE [i \in DOMAIN entries |->
                           IF i \in KeyOf(u)
                           THEN [entries[i] EXCEPT !.sockets = Append(@, s)]
                           ELSE entries[i]]
    /\ UNCHANGED <<cast, got, left>>

\* The client goes; its endpoint has not noticed.
ClientLeaves(s) ==
    /\ socket[s] = "open"
    /\ socket' = [socket EXCEPT ![s] = "closed"]
    /\ UNCHANGED <<entries, cast, got, left>>

\* WebSocketDisconnect in the endpoint, and disconnect: out of the list, and
\* the key goes with its last connection.
Disconnect(s) ==
    /\ socket[s] = "closed"
    /\ socket' = [socket EXCEPT ![s] = "gone"]
    /\ entries' = [i \in DOMAIN entries |->
                      LET rest == RemoveFirst(entries[i].sockets, s)
                      IN  [entries[i] EXCEPT !.sockets = rest,
                                             !.live = @ /\ rest # << >>]]
    /\ left' = TRUE
    /\ UNCHANGED <<cast, got>>

\* Any other exception ends the endpoint without disconnect (a message that
\* is not text, a reply on a connection that has closed): the socket stays.
EndpointFails(s) ==
    /\ socket[s] \in {"open", "closed"}
    /\ socket' = [socket EXCEPT ![s] = "stuck"]
    /\ UNCHANGED <<entries, cast, got, left>>

\* websocket_endpoint from the token to its end.
WebsocketEndpoint(s) ==
    \/ \E u \in Clients : Connect(s, u)
    \/ Disconnect(s) \/ EndpointFails(s)

\* broadcast up to its first key.
BeginBroadcast ==
    /\ cast.at = "idle"
    /\ cast' = [Quiet EXCEPT !.at = "choosing", !.keys = Cardinality(Places),
                             !.audience = {s \in SocketIds : socket[s] = "open"}]
    /\ got' = [s \in SocketIds |-> 0]
    /\ left' = FALSE
    /\ UNCHANGED <<entries, socket>>

\* The next key: a dict that has another number of keys raises RuntimeError.
NextKey ==
    /\ cast.at = "choosing"
    /\ LET ahead == {i \in Places : i > cast.entry} IN
       \/ /\ Cardinality(Places) # cast.keys
          /\ cast' = [cast EXCEPT !.at = "failed"]
       \/ /\ Cardinality(Places) = cast.keys /\ ahead = {}
          /\ cast' = [cast EXCEPT !.at = "done"]
       \/ /\ Cardinality(Places) = cast.keys
          /\ \E i \in ahead :
                /\ \A k \in ahead : i <= k
                /\ cast' = [cast EXCEPT !.at = "sending", !.entry = i, !.place = 1]
    /\ UNCHANGED <<entries, socket, got, left>>

\* The next connection of the list, which another task may have changed, and
\* send_json to it: a connection that is gone raises, and ends the broadcast.
Send ==
    /\ cast.at = "sending"
    /\ LET list == entries[cast.entry].sockets IN
       \/ /\ cast.place > Len(list)
          /\ cast' = [cast EXCEPT !.at = "choosing"]
          /\ UNCHANGED got
       \/ /\ cast.place <= Len(list)
          /\ socket[list[cast.place]] = "open"
          /\ got' = [got EXCEPT ![list[cast.place]] = @ + 1]
          /\ cast' = [cast EXCEPT !.place = @ + 1]
       \/ /\ cast.place <= Len(list)
          /\ socket[list[cast.place]] # "open"
          /\ cast' = [cast EXCEPT !.at = "failed"]
          /\ UNCHANGED got
    /\ UNCHANGED <<entries, socket, left>>

EndBroadcast ==
    /\ cast.at \in {"done", "failed"}
    /\ cast' = Quiet
    /\ UNCHANGED <<entries, socket, got, left>>

SocketsNext ==
    \/ \E s \in SocketIds : WebsocketEndpoint(s) \/ ClientLeaves(s)
    \/ BeginBroadcast \/ NextKey \/ Send \/ EndBroadcast

SocketsSpec == SocketsInit /\ [][SocketsNext]_socketVars

-----------------------------------------------------------------------------
\* A broadcast that returns has reached every connection that was open when it
\* began and stayed so, unless another was taken out meanwhile: the iteration
\* then passes over the one that moved into its place.  Nobody is sent the
\* message twice, whoever comes and goes (broadcast, connect, disconnect).
BroadcastDelivers ==
    /\ \A s \in SocketIds : got[s] <= 1
    /\ cast.at = "done" /\ ~left =>
           \A s \in cast.audience : socket[s] = "open" => got[s] = 1
=============================================================================
