------------------------------ MODULE Backfill ------------------------------
(***************************************************************************)
(* app/db/migration_helpers.py: safe_backfill and backfill_in_batches, run *)
(* by a script while the application writes to the same table.             *)
(*                                                                         *)
(* The script of docs/migrations/zero-downtime.md wraps everything in one  *)
(* engine.begin(): a statement sees what others have committed and what    *)
(* the script wrote (READ COMMITTED), the rows the script wrote are locked *)
(* until its commit, and a crash rolls all of them back.  The application  *)
(* inserts, changes and deletes rows in transactions of its own.           *)
(***************************************************************************)
EXTENDS Naturals, FiniteSets

CONSTANTS
    Keys,               \* primary keys, in the order of the column
    BatchSizes,         \* batch sizes the script may be called with
    Filters             \* is there a where_clause?

ASSUME ConstantsAssumption ==
    /\ Keys \subseteq Nat /\ IsFiniteSet(Keys)
    /\ BatchSizes \subseteq Nat \ {0}
    /\ Filters \subseteq BOOLEAN

VARIABLES
    rows,               \* the committed table: the column, or no row
    size,               \* batch_size
    filtered,           \* where_clause is "column IS NULL", not ""
    pc,                 \* the statement the script has reached
    cursor,
    last,               \* max_pk
    page,               \* pks
    written,            \* rows updated in the open transaction
    processed,          \* BackfillProgress.processed
    steady,             \* history: rows there since the start, not deleted
    raced               \* history: a row changed between SELECT and UPDATE

script == <<size, filtered, pc, cursor, last, page, written, processed>>
vars == <<rows, script, steady, raced>>

NoRow == {"absent", "gone"}
Ready == {"ready", "done"}

TypeOK ==
    /\ rows \in [Keys -> NoRow \cup {"null", "own", "filled"}]
    /\ size \in BatchSizes /\ filtered \in Filters
    /\ pc \in Ready \cup {"paging", "updating", "committing"}
    /\ cursor \in Keys \cup {0} /\ last \in Keys \cup {0}
    /\ page \subseteq Keys /\ written \subseteq Keys /\ steady \subseteq Keys
    /\ processed \in 0 .. Cardinality(Keys) + 1
    /\ raced \in BOOLEAN

Init ==
    /\ rows \in [Keys -> {"absent", "null", "own"}]
    /\ size \in BatchSizes /\ filtered \in Filters
    /\ pc = "ready" /\ cursor = 0 /\ last = 0
    /\ page = {} /\ written = {} /\ steady = {}
    /\ processed = 0 /\ raced = FALSE

-----------------------------------------------------------------------------
(* What the script sees.                                                    *)

Seen(k) == IF k \in written THEN "filled" ELSE rows[k]
Present == {k \in Keys : Seen(k) \notin NoRow}

\* The rows the SELECT of a page would return without its LIMIT.
Matching == {k \in Present : k >= cursor /\ (filtered => Seen(k) = "null")}

\* ORDER BY pk LIMIT n
FirstOf(n, S) == {k \in S : Cardinality({j \in S : j < k}) < n}

\* Mutant: pages are cut by OFFSET.
NextPage_offset ==
    LET n == Cardinality(written)
    IN  FirstOf(n + size, Matching) \ FirstOf(n, Matching)

\* Mutant: the filter only applies to the first page.
NextPage_unfiltered ==
    FirstOf(size, IF written = {} THEN Matching ELSE {k \in Present : k >= cursor})

NextPage == FirstOf(size, Matching)

LastOf(S) == CHOOSE k \in S : \A j \in S : j <= k
FirstKey(S) == CHOOSE k \in S : \A j \in S : j >= k

-----------------------------------------------------------------------------
(* The script.                                                              *)

\* The transaction begins, and SELECT MIN, MAX sets the range; with an empty
\* table the generator is over.
Begin ==
    /\ pc \in Ready
    /\ written' = {} /\ page' = {} /\ processed' = 0
    /\ LET there == {k \in Keys : rows[k] \notin NoRow}
       IN  /\ steady' = there
           /\ IF there = {}
              THEN pc' = "committing" /\ UNCHANGED <<cursor, last>>
              ELSE pc' = "paging" /\ cursor' = FirstKey(there) /\ last' = LastOf(there)
    /\ raced' = FALSE
    /\ UNCHANGED <<rows, size, filtered>>

\* SELECT pk ... LIMIT; an empty page ends the loop.
Page ==
    /\ pc = "paging"
    /\ page' = NextPage
    /\ pc' = IF NextPage = {} THEN "committing" ELSE "updating"
    /\ UNCHANGED <<rows, size, filtered, cursor, last, written, processed, steady, raced>>

\* Mutant: the row with the highest key does not end the loop.
AtEnd_strict == LastOf(page) > last

\* "if pks[-1] >= max_pk: break"
AtEnd == LastOf(page) >= last

\* Mutant: the rows of the page are counted, not those updated.
RowCount_page == Cardinality(page)

\* rowcount: rows deleted since the SELECT are not updated.
RowCount == Cardinality(page \cap Present)

\* "cursor = pks[-1]": the last row of a page may be the first of the next.
NextCursor == LastOf(page)

\* The counter never runs past Cardinality(Keys) + 1.
Capped(n) == IF n > Cardinality(Keys) THEN Cardinality(Keys) + 1 ELSE n

\* UPDATE ... WHERE pk IN (pks), the yield, and progress.update.
Update ==
    /\ pc = "updating"
    /\ written' = written \cup (page \cap Present)
    /\ processed' = Capped(processed + RowCount)
    /\ IF AtEnd
       THEN pc' = "committing" /\ UNCHANGED cursor
       ELSE pc' = "paging" /\ cursor' = NextCursor
    /\ page' = {}
    /\ UNCHANGED <<rows, size, filtered, last, steady, raced>>

\* engine.begin() commits.
Commit ==
    /\ pc = "committing"
    /\ rows' = [k \in Keys |-> Seen(k)]
    /\ pc' = "done"
    /\ UNCHANGED <<size, filtered, cursor, last, page, written, processed, steady, raced>>

\* The script dies; the operator may run it again.
Crash ==
    /\ pc \notin Ready
    /\ pc' = "ready" /\ written' = {} /\ page' = {}
    /\ UNCHANGED <<rows, size, filtered, cursor, last, processed, steady, raced>>

-----------------------------------------------------------------------------
(* The application.                                                         *)

Locked(k) == pc \notin Ready /\ k \in written

\* Old code leaves the column NULL, new code sets it.  A key is used once.
Insert(k, value) ==
    /\ rows[k] = "absent"
    /\ rows' = [rows EXCEPT ![k] = value]
    /\ UNCHANGED <<script, steady, raced>>

\* New code sets the column of a row.
Change(k) ==
    /\ rows[k] \in {"null", "filled"} /\ ~Locked(k)
    /\ rows' = [rows EXCEPT ![k] = "own"]
    /\ raced' = (raced \/ k \in page)
    /\ UNCHANGED <<script, steady>>

Delete(k) ==
    /\ rows[k] \notin NoRow /\ ~Locked(k)
    /\ rows' = [rows EXCEPT ![k] = "gone"]
    /\ steady' = steady \ {k}
    /\ UNCHANGED <<script, raced>>

Script == Begin \/ Page \/ Update \/ Commit

Next ==
    \/ Script
    \/ Crash
    \/ \E k \in Keys : Insert(k, "null") \/ Insert(k, "own") \/ Change(k) \/ Delete(k)

Spec == Init /\ [][Next]_vars

\* The script runs on between its statements.
BackfillFairness == WF_vars(Page \/ Update \/ Commit)
FairSpec == Spec /\ BackfillFairness

-----------------------------------------------------------------------------
(* Properties.                                                              *)

\* "Once all rows are populated": when backfill_in_batches has committed, no
\* row that was there when it began has the column NULL, whatever was inserted,
\* changed and deleted meanwhile.
EveryRowFilled == pc = "done" => \A k \in steady : rows[k] # "null"

\* With a where_clause no row is updated twice, and processed is exactly the
\* number of rows the script has changed.
ProcessedIsExact ==
    filtered /\ pc # "ready" => processed = Cardinality(written)

\* With a where_clause the script overwrites no value that the application set,
\* unless it was set between the SELECT of its page and the UPDATE.
OwnValuesKept ==
    [][ filtered /\ ~raced
          => \A k \in Keys : rows[k] = "own" /\ k \notin written => k \notin written' ]_vars

\* The loop of backfill_in_batches can only be endless without a where_clause,
\* with pages of one row or with its last row deleted on the way.
MayBeEndless == ~filtered /\ (size = 1 \/ (last # 0 /\ rows[last] = "gone"))

\* safe_backfill returns.
Finishes == pc \notin Ready ~> (pc \in Ready \/ MayBeEndless)
=============================================================================
