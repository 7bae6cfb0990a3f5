------------------------------ MODULE Migrations ------------------------------
(***************************************************************************)
(* alembic/versions and alembic/env.py, next to the create_all of init_db:  *)
(* two ways to the schema that the models expect.  Runs of "alembic upgrade *)
(* head" and "alembic downgrade -1" overlap, fail and die while processes   *)
(* of the application start.                                                *)
(*                                                                         *)
(* The schema is a set of objects: tables, their indexes, and the two       *)
(* columns that came after their table.  Where DDL is transactional         *)
(* (PostgreSQL) a run is one transaction and whoever meets its tables waits *)
(* for its end; elsewhere (SQLite) every statement commits itself.          *)
(* alembic's own part is external: it reads the version once, executes the  *)
(* statements of each revision, and moves the version from the one revision *)
(* to the other, which fails if another run has moved it.                   *)
(***************************************************************************)
EXTENDS Naturals, Sequences, SequencesExt

CONSTANTS
    Runners             \* slots for runs of alembic

VARIABLES
    transactional,      \* whether DDL is
    objects,            \* the schema that is committed
    version,            \* alembic_version; 0 is its absence
    run,                \* the revision each run of alembic is at
    started,            \* whether the application has started
    spoiled             \* history: create_all made objects of a revision, or
                        \* runs without transactions overlapped or failed

schemaVars == <<transactional, objects, version, run, started, spoiled>>

-----------------------------------------------------------------------------
(* The revisions, as what they create and drop, in their order.             *)

Initial == <<"users", "ix_users_user_id", "ix_users_username",
             "revoked_tokens", "ix_revoked_tokens_jti", "ix_revoked_tokens_user_id">>

\* Mutant: the downgrade forgets the tables of its second half.
InitialUndone_half == <<"ix_users_username", "ix_users_user_id", "users">>

InitialUndone == <<"ix_revoked_tokens_user_id", "ix_revoked_tokens_jti", "revoked_tokens",
                   "ix_users_username", "ix_users_user_id", "users">>

AuditLogs == <<"audit_logs", "ix_audit_logs_user_id", "ix_audit_logs_action">>
AuditLogsUndone == <<"ix_audit_logs_action", "ix_audit_logs_user_id", "audit_logs">>

SoftDelete == <<"deleted_at">>
SoftDeleteUndone == <<"deleted_at">>

Flags == <<"feature_flags">>
FlagsUndone == <<"feature_flags">>

Upgrades == <<Initial, AuditLogs, SoftDelete, Flags>>
Downgrades == <<InitialUndone, AuditLogsUndone, SoftDeleteUndone, FlagsUndone>>
LastRevision == Len(Upgrades)

-----------------------------------------------------------------------------
(* The models, as the objects of each table.                                *)

UserTable == {"users", "ix_users_user_id", "ix_users_username", "deleted_at"}
RevokedTable == {"revoked_tokens", "ix_revoked_tokens_jti", "ix_revoked_tokens_user_id"}
AuditTable == {"audit_logs", "ix_audit_logs_user_id", "ix_audit_logs_action", "hmac_signature"}
FlagTable == {"feature_flags"}

\* Tables no revision knows, of modules that init_db imports.
OtherTables == {"feature_flag_overrides", "api_keys", "oauth_accounts", "roles"}

Models ==
    {UserTable, RevokedTable, AuditTable, FlagTable} \cup {{t} : t \in OtherTables}
Expected == UNION Models
Tables == {"users", "revoked_tokens", "audit_logs", "feature_flags"} \cup OtherTables

\* What goes with table t.
TableOf(t) == CHOOSE m \in Models : t \in m

\* What the upgrades to version v create after version u, and from the beginning.
Between(u, v) == UNION {ToSet(Upgrades[n]) : n \in u + 1 .. v}
Through(v) == Between(0, v)
Revised == Through(LastRevision)

-----------------------------------------------------------------------------
(* Runs.                                                                    *)

\* A run of alembic: the revision it is at, and how many of the statements of
\* its upgrade or downgrade are behind it.
Rest == [way |-> "none", rev |-> 0, done |-> 0]
At(way, n, k) == [way |-> way, rev |-> n, done |-> k]

Scripts == [up |-> Upgrades, down |-> Downgrades]
Statements(r) == Scripts[r.way][r.rev]
Remaining(r) == r.done + 1 .. Len(Statements(r))

\* The version its revision leads from, and to.
From(r) == IF r.way = "up" THEN r.rev - 1 ELSE r.rev
To(r) == IF r.way = "up" THEN r.rev ELSE r.rev - 1

\* upgrade head goes on with the next revision, downgrade -1 is done.
Following(r) ==
    IF r.way = "up" /\ r.rev < LastRevision THEN At("up", r.rev + 1, 0) ELSE Rest

\* An object other than a table belongs to one that exists.
HasTable(o, objs) == o \in Tables \/ \E t \in Tables \cap objs : o \in TableOf(t)

Possible(way, o, objs) ==
    IF way = "up" THEN o \notin objs /\ HasTable(o, objs) ELSE o \in objs

\* A dropped table takes what belongs to it along.
Takes(o) == IF o \in Tables THEN TableOf(o) ELSE {o}

\* What the first k statements of revision n make of the objects.
After(way, n, k, objs) ==
    IF way = "up" THEN objs \cup {Upgrades[n][i] : i \in 1 .. k}
                  ELSE objs \ UNION {Takes(Downgrades[n][i]) : i \in 1 .. k}

-----------------------------------------------------------------------------

SchemaTypeOK ==
    /\ transactional \in BOOLEAN /\ started \in BOOLEAN /\ spoiled \in BOOLEAN
    /\ version \in 0 .. LastRevision
    /\ \A p \in Runners : \/ run[p] = Rest
                          \/ /\ run[p] \in [way : {"up", "down"}, rev : 1 .. LastRevision, done : Nat]
                             /\ run[p].done <= Len(Statements(run[p]))
    /\ DOMAIN run = Runners

SchemaInit ==
    /\ transactional \in BOOLEAN
    /\ objects = {} /\ version = 0
    /\ run = [p \in Runners |-> Rest]
    /\ started = FALSE /\ spoiled = FALSE

AtRest == \A p \in Runners : run[p] = Rest

\* The version is read, and the plan follows from it.
StartRun(p, r) ==
    /\ run[p] = Rest
    /\ run' = [run EXCEPT ![p] = r]
    /\ spoiled' = (spoiled \/ (~transactional /\ ~AtRest))
    /\ UNCHANGED <<transactional, objects, version, started>>

StartUpgrade(p) == version < LastRevision /\ StartRun(p, At("up", version + 1, 0))
StartDowngrade(p) == version > 0 /\ StartRun(p, At("down", version, 0))

\* The last revision of a run that was begun at r.
Final(r) == IF r.way = "up" THEN LastRevision ELSE r.rev

\* The objects when a run that was begun at r, in one transaction, comes to
\* revision n.
Reached(r, n) == IF r.way = "up" THEN objects \cup Between(r.rev - 1, n - 1) ELSE objects

Succeeds(r) ==
    /\ version = From(r)
    /\ \A n \in r.rev .. Final(r) : \A i \in 1 .. Len(Scripts[r.way][n]) :
          Possible(r.way, Scripts[r.way][n][i], After(r.way, n, i - 1, Reached(r, n)))

\* do_run_migrations in one transaction: all of it or nothing.
RunAll(p) ==
    LET r == run[p]  last == Final(r) IN
    /\ transactional /\ r # Rest
    /\ IF Succeeds(r)
       THEN /\ objects' = After(r.way, last, Len(Scripts[r.way][last]), Reached(r, last))
            /\ version' = To(At(r.way, last, 0))
       ELSE UNCHANGED <<objects, version>>
    /\ run' = [run EXCEPT ![p] = Rest]
    /\ UNCHANGED <<transactional, started, spoiled>>

\* Without transactions a run that fails ends where it is.
Fail(p) ==
    /\ run' = [run EXCEPT ![p] = Rest]
    /\ spoiled' = TRUE
    /\ UNCHANGED <<objects, version>>

\* The same statement by statement ...
RunOne(p) ==
    LET r == run[p]  o == Statements(r)[r.done + 1] IN
    /\ ~transactional /\ r # Rest /\ Remaining(r) # {}
    /\ IF Possible(r.way, o, objects)
       THEN /\ objects' = IF r.way = "up" THEN objects \cup {o} ELSE objects \ Takes(o)
            /\ run' = [run EXCEPT ![p].done = @ + 1]
            /\ UNCHANGED <<version, spoiled>>
       ELSE Fail(p)
    /\ UNCHANGED <<transactional, started>>

\* ... and at the end of each revision the version, which another run may have
\* moved.
MoveVersion(p) ==
    LET r == run[p] IN
    /\ ~transactional /\ r # Rest /\ Remaining(r) = {}
    /\ IF version = From(r)
       THEN /\ version' = To(r)
            /\ run' = [run EXCEPT ![p] = Following(r)]
            /\ UNCHANGED <<objects, spoiled>>
       ELSE Fail(p)
    /\ UNCHANGED <<transactional, started>>

\* A run dies.
RunDies(p) ==
    /\ run[p] # Rest
    /\ run' = [run EXCEPT ![p] = Rest]
    /\ spoiled' = (spoiled \/ ~transactional)
    /\ UNCHANGED <<transactional, objects, version, started>>

\* init_db at the start of the application: a table that is there is left as
\* it is, whatever columns it has.
CreateAll ==
    LET new == UNION {TableOf(t) : t \in Tables \ objects} IN
    /\ objects' = objects \cup new
    /\ started' = TRUE
    /\ spoiled' = (spoiled \/ new \cap Revised # {})
    /\ UNCHANGED <<transactional, version, run>>

SchemaNext ==
    \/ \E p \in Runners : StartUpgrade(p) \/ StartDowngrade(p) \/ RunAll(p) \/ RunOne(p)
                          \/ MoveVersion(p) \/ RunDies(p)
    \/ CreateAll

SchemaSpec == SchemaInit /\ [][SchemaNext]_schemaVars

-----------------------------------------------------------------------------
\* "with a safe downgrade": between runs the schema is that of the version,
\* whatever upgrades and downgrades led to it, overlapped and failed, unless the
\* application created tables of a revision itself, or runs without a
\* transaction overlapped, failed or died.
SchemaFollowsVersion == AtRest /\ ~spoiled => objects \cap Revised = Through(version)

\* "Run migrations ... Start app": a database that was only ever upgraded to the
\* head, without failure, serves an application that has started.
MigratedSchemaServes ==
    AtRest /\ ~spoiled /\ version = LastRevision /\ started => Expected \subseteq objects
=============================================================================
