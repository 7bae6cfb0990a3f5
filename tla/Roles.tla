-------------------------------- MODULE Roles --------------------------------
(***************************************************************************)
(* app/services/rbac_service.py: roles with a parent, the permissions      *)
(* attached to them, the roles a user holds, and the check that walks from *)
(* the roles held up to their ancestors, one SELECT at a time, while       *)
(* administrators change all of it.                                        *)
(*                                                                         *)
(* A change is one step, its commit: unique constraints decide what two    *)
(* of them at once may do, a role is never removed and never gets another  *)
(* parent, and a permission never leaves a role.  A permission is drawn    *)
(* from Permissions; "*:*" and "resource:*" are members like any other.    *)
(***************************************************************************)
EXTENDS Naturals, FiniteSets

CONSTANTS
    RoleIds,
    Permissions,
    Holders,
    Checks,             \* slots for requests that need a permission
    NoRole,             \* parent_role_id NULL
    Builtin             \* what _BUILTIN_ROLE_PERMS gives for User.role

ASSUME RolesAssumption ==
    /\ IsFiniteSet(RoleIds)
    /\ NoRole \notin RoleIds
    /\ Builtin \subseteq Permissions

VARIABLES
    parent,             \* parent_role_id of each role created
    known,              \* rows of permissions
    attached,           \* role_permissions
    holds,              \* user_roles
    check,              \* each get_effective_permissions in progress
    promised            \* history: what the roles found by a check gave then

roleVars == <<parent, known, attached, holds, check, promised>>

Created == DOMAIN parent

\* A walk is at a role about to read its permissions ("own") or its parent
\* ("parent"); todo holds the roles of the user it has not come to yet.
Walk == [at : {"idle", "own", "parent", "done"}, role : RoleIds \cup {NoRole},
         todo : SUBSET RoleIds, visited : SUBSET RoleIds,
         found : SUBSET RoleIds, perms : SUBSET Permissions]

NoWalk == [at |-> "idle", role |-> NoRole, todo |-> {}, visited |-> {},
         found |-> {}, perms |-> {}]

RolesTypeOK ==
    /\ Created \subseteq RoleIds
    /\ parent \in [Created -> Created \cup {NoRole}]
    /\ known \subseteq Permissions
    /\ attached \in [RoleIds -> SUBSET known]
    /\ holds \in [Holders -> SUBSET RoleIds]
    /\ check \in [Checks -> Walk]
    /\ promised \in [Checks -> SUBSET Permissions]

RolesInit ==
    /\ parent = [r \in {} |-> NoRole]
    /\ known = {}
    /\ attached = [r \in RoleIds |-> {}]
    /\ holds = [u \in Holders |-> {}]
    /\ check = [c \in Checks |-> NoWalk]
    /\ promised = [c \in Checks |-> {}]

-----------------------------------------------------------------------------
\* What a set of roles gives: its permissions and those of all ancestors.

Closed(S) == \A r \in S \cap Created : parent[r] # NoRole => parent[r] \in S

\* The smallest set of roles that has R and the parent of each of its members.
Lineage(R) ==
    {r \in RoleIds : \A S \in SUBSET RoleIds : R \subseteq S /\ Closed(S) => r \in S}

Given(R) == UNION {attached[r] : r \in Lineage(R)}

-----------------------------------------------------------------------------
\* The administrators' requests.

\* create_role: the INSERT.
CreateRole(r, p) ==
    /\ parent' = [x \in Created \cup {r} |-> IF x = r THEN p ELSE parent[x]]
    /\ UNCHANGED <<known, attached, holds, check, promised>>

\* POST /roles: 409 if there is one of that name, 404 without the parent it names.
CreateNewRole(r, p) ==
    /\ r \notin Created
    /\ p \in Created \cup {NoRole}
    /\ CreateRole(r, p)

\* get_or_create_permission, when there is none yet.
CreatePermission(p) ==
    /\ known' = known \cup {p}
    /\ UNCHANGED <<parent, attached, holds, check, promised>>

\* assign_permission_to_role: None when the row is there already.
Attach(r, p) ==
    /\ r \in Created
    /\ p \in known \ attached[r]
    /\ attached' = [attached EXCEPT ![r] = @ \cup {p}]
    /\ UNCHANGED <<parent, known, holds, check, promised>>

\* grant_role: nothing is written when the user holds it (and the second
\* first() on one result raises).
Grant(u, r) ==
    /\ r \notin holds[u]
    /\ holds' = [holds EXCEPT ![u] = @ \cup {r}]
    /\ UNCHANGED <<parent, known, attached, check, promised>>

\* revoke_role: False when there is nothing to revoke.
Revoke(u, r) ==
    /\ r \in holds[u]
    /\ holds' = [holds EXCEPT ![u] = @ \ {r}]
    /\ UNCHANGED <<parent, known, attached, check, promised>>

\* POST and DELETE below /users/{user_id}/roles: 404 without the role, or the
\* assignment.
AssignOrRemove(u, r) ==
    \/ r \in Created /\ Grant(u, r)
    \/ Revoke(u, r)

-----------------------------------------------------------------------------
\* A request that asks for a permission.

\* The walk goes on with a role of the user that it has not visited.
\* A role visited on the way up from another gives nothing again.
NextRole(w) ==
    LET left == w.todo \ w.visited
    IN  IF left = {}
        THEN {[w EXCEPT !.at = "done", !.role = NoRole, !.todo = {}]}
        ELSE {[w EXCEPT !.at = "own", !.role = r, !.todo = left \ {r},
                        !.visited = @ \cup {r}] : r \in left}

\* SELECT of the user's roles; without any, the built-in map answers.
BeginCheck(c, u) ==
    /\ check[c].at = "idle"
    /\ LET start == [NoWalk EXCEPT !.todo = holds[u], !.found = holds[u]]
       IN  IF holds[u] = {}
           THEN check' = [check EXCEPT ![c] = [start EXCEPT !.at = "done", !.perms = Builtin]]
           ELSE \E w \in NextRole(start) : check' = [check EXCEPT ![c] = w]
    /\ promised' = [promised EXCEPT ![c] = Given(holds[u])]
    /\ UNCHANGED <<parent, known, attached, holds>>

\* Mutant: the role's permissions replace those collected so far.
ReadOwn_replacing(c) ==
    /\ check[c].at = "own"
    /\ check' = [check EXCEPT ![c].at = "parent",
                              ![c].perms = attached[check[c].role]]
    /\ UNCHANGED <<parent, known, attached, holds, promised>>

\* SELECT of the role's own permissions.
ReadOwn(c) ==
    /\ check[c].at = "own"
    /\ check' = [check EXCEPT ![c].at = "parent",
                              ![c].perms = @ \cup attached[check[c].role]]
    /\ UNCHANGED <<parent, known, attached, holds, promised>>

\* SELECT of the role itself, and on to its parent unless visited before.
ReadParent(c) ==
    /\ check[c].at = "parent"
    /\ LET w == check[c]
           p == parent[w.role]
       IN  IF p # NoRole /\ p \notin w.visited
           THEN check' = [check EXCEPT ![c] = [w EXCEPT !.at = "own", !.role = p,
                                                        !.visited = @ \cup {p}]]
           ELSE \E v \in NextRole(w) : check' = [check EXCEPT ![c] = v]
    /\ UNCHANGED <<parent, known, attached, holds, promised>>

\* user_has_permission compares, and the request ends with 200 or 403.
EndCheck(c) ==
    /\ check[c].at = "done"
    /\ check' = [check EXCEPT ![c] = NoWalk]
    /\ promised' = [promised EXCEPT ![c] = {}]
    /\ UNCHANGED <<parent, known, attached, holds>>

RolesNext ==
    \/ \E r \in RoleIds : \E p \in Created \cup {NoRole} : CreateNewRole(r, p)
    \/ \E p \in Permissions : CreatePermission(p)
    \/ \E r \in RoleIds, p \in Permissions : Attach(r, p)
    \/ \E u \in Holders, r \in RoleIds : AssignOrRemove(u, r)
    \/ \E c \in Checks, u \in Holders : BeginCheck(c, u)
    \/ \E c \in Checks : ReadOwn(c) \/ ReadParent(c) \/ EndCheck(c)

RolesSpec == RolesInit /\ [][RolesNext]_roleVars

-----------------------------------------------------------------------------
\* A walk over several SELECTs combines what it read at different times,
\* yet it answers with all that the roles it found gave when it began, and
\* with nothing they do not give by the time it ends: no ancestor and no
\* role of the user is passed over, however they are related
\* (get_effective_permissions, _collect_role_permissions and its visited).
CheckIsBracketed ==
    \A c \in Checks :
        LET w == check[c]
        IN  w.at = "done" =>
                IF w.found = {}
                THEN w.perms = Builtin
                ELSE promised[c] \subseteq w.perms /\ w.perms \subseteq Given(w.found)
=============================================================================
