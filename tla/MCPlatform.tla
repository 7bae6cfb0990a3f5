----------------------------- MODULE MCPlatform -----------------------------
(* The instances of six parts that share no state: a behaviour is one of a  *)
(* single part, the others keep their initial states.                       *)
EXTENDS Accounts, Roles, AuditLog, SignedRequests, Sockets, SecretCache, TLC

CONSTANTS a1, u1, e1, e2, i1, r1, r2, ra, rb, rc, pa, ua, c1,
          la, lb, lc, na, nb, ka, kb, sa, sb, sc, xa, xb, va

OneId == {a1}
OneUuid == {u1}
TwoEmails == {e1, e2}
OneIdentity == {i1}
TwoRequests == {r1, r2}
ThreeRoles == {ra, rb, rc}
OnePermission == {pa}
OneHolder == {ua}
OneCheck == {c1}
ThreeEntries == {la, lb, lc}
TwoNonces == {na, nb}
TwoClients == {ka, kb}
ThreeSockets == {sa, sb, sc}
TwoNames == {xa, xb}
OneValue == {va}
Alike == Permutations(TwoEmails) \cup Permutations(TwoRequests)

VARIABLE part

Parts == {"accounts", "roles", "audit", "signed", "sockets", "secrets"}

MCInit ==
    /\ part \in Parts
    /\ Init /\ RolesInit /\ AuditInit /\ SignedInit /\ SocketsInit /\ SecretInit

Keep(p, v) == part # p => UNCHANGED v

MCNext ==
    /\ UNCHANGED part
    /\ Keep("accounts", vars) /\ Keep("roles", roleVars) /\ Keep("audit", auditVars)
    /\ Keep("signed", signedVars) /\ Keep("sockets", socketVars)
    /\ Keep("secrets", secretVars)
    /\ \/ part = "accounts" /\ Next
       \/ part = "roles" /\ RolesNext
       \/ part = "audit" /\ AuditNext
       \/ part = "signed" /\ SignedNext
       \/ part = "sockets" /\ SocketsNext
       \/ part = "secrets" /\ SecretNext

allVars == <<part, vars, roleVars, auditVars, signedVars, socketVars, secretVars>>

MCSpec == MCInit /\ [][MCNext]_allVars
=============================================================================
