----------------------------- MODULE MCDatabase -----------------------------
(* The instances of four parts that touch the database and share no state:  *)
(* a behaviour is one of a single part, the others keep an initial state.   *)
EXTENDS Backfill, Migrations, DatabaseSetup, RunOnce

CONSTANTS p1, p2, t1, t2, t3, d1, d2, m1, m2

FourKeys == {10, 20, 30, 40}
TwoRunners == {p1, p2}
ThreeTasks == {t1, t2, t3}
TwoUrls == {d1, d2}
TwoMigrators == {m1, m2}

VARIABLE part

Parts == {"backfill", "schema", "setup", "runonce"}

MCInit ==
    /\ part \in Parts
    /\ Init /\ SchemaInit /\ SetupInit /\ RunInit
    /\ part # "backfill" => size = 1 /\ filtered /\ rows = [k \in Keys |-> "absent"]
    /\ part # "schema" => transactional

Keep(p, v) == part # p => UNCHANGED v

MCNext ==
    /\ UNCHANGED part
    /\ Keep("backfill", vars) /\ Keep("schema", schemaVars)
    /\ Keep("setup", setupVars) /\ Keep("runonce", runVars)
    /\ \/ part = "backfill" /\ Next
       \/ part = "schema" /\ ~spoiled /\ SchemaNext   \* nothing is said of a spoiled one
       \/ part = "setup" /\ SetupNext
       \/ part = "runonce" /\ RunNext

allVars == <<part, vars, schemaVars, setupVars, runVars>>

\* Every part with the fairness it states for itself.
MCSpec == MCInit /\ [][MCNext]_allVars /\ BackfillFairness /\ SetupFairness
=============================================================================
