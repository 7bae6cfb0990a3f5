------------------------------- MODULE RunOnce -------------------------------
(***************************************************************************)
(* run_idempotent_migration of app/db/migration_helpers.py: a migration    *)
(* and the row that records it, in one transaction of the caller, run by   *)
(* several processes at once (every replica of a deployment migrates) and  *)
(* again after failures.                                                   *)
(*                                                                         *)
(* PostgreSQL, READ COMMITTED: DDL is transactional, and an INSERT of a    *)
(* key that a transaction in progress has inserted waits for its end.      *)
(***************************************************************************)
EXTENDS Naturals, FiniteSets

CONSTANTS
    Migrators,
    RunCap              \* bound: calls started

ASSUME RunOnceAssumption == RunCap \in Nat

VARIABLES
    logTable,           \* the tracking table is there
    recorded,           \* it has the migration's row
    applied,            \* times the migration's effect is in the database
    migrator,           \* where each call is
    making,             \* calls whose transaction has made the table
    calls

runVars == <<logTable, recorded, applied, migrator, making, calls>>

RunTypeOK ==
    /\ logTable \in BOOLEAN
    /\ recorded \in BOOLEAN
    /\ applied \in Nat
    /\ migrator \in [Migrators -> {"idle", "checking", "running", "recording",
                                   "ran", "skipped"}]
    /\ making \subseteq Migrators
    /\ calls \in Nat

RunInit ==
    /\ logTable = FALSE
    /\ recorded = FALSE
    /\ applied = 0
    /\ migrator = [m \in Migrators |-> "idle"]
    /\ making = {}
    /\ calls = 0

Goes(m, to) == migrator' = [migrator EXCEPT ![m] = to]

\* CREATE TABLE IF NOT EXISTS: one transaction at a time can be making it.
EnsureLog(m) ==
    /\ migrator[m] = "idle"
    /\ calls < RunCap
    /\ calls' = calls + 1
    /\ making \subseteq {m}
    /\ Goes(m, "checking")
    /\ making' = IF logTable THEN making ELSE making \cup {m}
    /\ UNCHANGED <<logTable, recorded, applied>>

\* Another migration has run, and made the table they share.
RunOther ==
    /\ making = {}
    /\ ~logTable
    /\ logTable' = TRUE
    /\ UNCHANGED <<recorded, applied, migrator, making, calls>>

\* SELECT from the log, of committed rows.
CheckLog(m) ==
    /\ migrator[m] = "checking"
    /\ Goes(m, IF recorded THEN "skipped" ELSE "running")
    /\ UNCHANGED <<logTable, recorded, applied, making, calls>>

\* The migration's own SQL.
RunSql(m) ==
    /\ migrator[m] = "running"
    /\ Goes(m, "recording")
    /\ UNCHANGED <<logTable, recorded, applied, making, calls>>

\* Mutant: a row that is there already is no error.
Record_onConflictDoNothing(m) ==
    /\ migrator[m] = "recording"
    /\ \A n \in Migrators : migrator[n] # "ran"
    /\ Goes(m, "ran")
    /\ UNCHANGED <<logTable, recorded, applied, making, calls>>

\* INSERT of the row, which waits for another's, and fails on one committed.
Record(m) ==
    /\ migrator[m] = "recording"
    /\ \A n \in Migrators : migrator[n] # "ran"
    /\ ~recorded
    /\ Goes(m, "ran")
    /\ UNCHANGED <<logTable, recorded, applied, making, calls>>

\* The caller's transaction commits.
CommitRun(m) ==
    /\ migrator[m] \in {"ran", "skipped"}
    /\ logTable' = (logTable \/ m \in making)
    /\ IF migrator[m] = "ran"
       THEN recorded' = TRUE /\ applied' = applied + 1
       ELSE UNCHANGED <<recorded, applied>>
    /\ making' = making \ {m}
    /\ Goes(m, "idle")
    /\ UNCHANGED calls

\* A statement fails (the INSERT on its primary key among them), the process
\* dies or the connection breaks: all of it is rolled back.
AbortRun(m) ==
    /\ migrator[m] # "idle"
    /\ making' = making \ {m}
    /\ Goes(m, "idle")
    /\ UNCHANGED <<logTable, recorded, applied, calls>>

RunNext ==
    \/ \E m \in Migrators : \/ EnsureLog(m) \/ CheckLog(m) \/ RunSql(m) \/ Record(m)
                            \/ CommitRun(m) \/ AbortRun(m)
    \/ RunOther

RunSpec == RunInit /\ [][RunNext]_runVars

-----------------------------------------------------------------------------
\* "Run a data migration exactly once": its effect is in the database once if
\* it is recorded and not at all if it is not, whichever calls overlap, fail
\* or start over (run_idempotent_migration).
AppliedOnce == applied = IF recorded THEN 1 ELSE 0
=============================================================================
