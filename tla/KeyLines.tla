------------------------------- MODULE KeyLines -------------------------------
(***************************************************************************)
(* What docs/identity/api-keys.md and the docstrings of                    *)
(* app/services/api_key_service.py promise: each key that is issued starts *)
(* a line, which has one working key from then on until it is closed.      *)
(* Rotation puts a fresh key in its place, with the time it had left;      *)
(* revocation closes the line for good.                                    *)
(*                                                                         *)
(* Nothing here knows of requests.  Of a line that its owner let two of    *)
(* them change at once nothing is promised but the term: it is disputed.   *)
(***************************************************************************)
EXTENDS Naturals

CONSTANTS
    Keys,       \* every key, and every line by the key that started it
    Never       \* the term of a key that does not expire

VARIABLES
    working,    \* the working key of each line, or none
    handedOut,  \* keys that somebody was given
    term,       \* time each key has left
    disputed    \* lines that nothing more is promised of

lineVars == <<working, handedOut, term, disputed>>

LinesInit ==
    /\ working = [l \in Keys |-> {}]
    /\ handedOut = {}
    /\ term = [k \in Keys |-> 0]
    /\ disputed = {}

\* Issuing a key starts its line.
Start(l, n) ==
    /\ l \notin handedOut
    /\ handedOut' = handedOut \cup {l}
    /\ working' = [working EXCEPT ![l] = {l}]
    /\ term' = [term EXCEPT ![l] = n]
    /\ UNCHANGED disputed

\* A fresh key replaces one of the line.
HandOver(old, new) ==
    /\ old \in handedOut /\ new \notin handedOut
    /\ handedOut' = handedOut \cup {new}
    /\ term' = [term EXCEPT ![new] = term[old]]
    /\ UNCHANGED disputed

\* Rotation: it was the working key.
Rotate(l, old, new) ==
    /\ working[l] = {old}
    /\ working' = [working EXCEPT ![l] = {new}]
    /\ HandOver(old, new)

\* Revocation: no later step gives the line a key.
CloseLine(l) ==
    /\ working[l] # {}
    /\ working' = [working EXCEPT ![l] = {}]
    /\ UNCHANGED <<handedOut, term, disputed>>

Dispute(l) ==
    /\ disputed' = disputed \cup {l}
    /\ working' = [working EXCEPT ![l] = {}]
    /\ UNCHANGED <<handedOut, term>>

\* What comes of a rotation in a disputed line is no line's working key.
RotateDisputed(old, new) ==
    /\ disputed # {} /\ \A l \in Keys : old \notin working[l]
    /\ HandOver(old, new)
    /\ UNCHANGED working

Age ==
    /\ term' = [k \in Keys |-> IF term[k] \in {0, Never} THEN term[k] ELSE term[k] - 1]
    /\ UNCHANGED <<working, handedOut, disputed>>

LinesNext ==
    \/ \E l \in Keys : \/ \E n \in 1..Never : Start(l, n)
                       \/ CloseLine(l) \/ Dispute(l)
    \/ \E old, new \in Keys : RotateDisputed(old, new) \/ \E l \in Keys : Rotate(l, old, new)
    \/ Age

LinesSpec == LinesInit /\ [][LinesNext]_lineVars
=============================================================================
