------------------------------- MODULE AuditLog -------------------------------
(***************************************************************************)
(* app/services/audit_service.py and app/routers/audit.py: entries that are *)
(* dated when they are made and seen when they are committed, in another    *)
(* order perhaps; clients that page through them, newest first; and the     *)
(* retention job of the documentation, which deletes the oldest.            *)
(* What an entry says, and its signature, are left out.                     *)
(***************************************************************************)
EXTENDS Naturals, FiniteSets, Sequences, FiniteSetsExt

CONSTANTS
    Entries,            \* ids that uuid4 makes
    Limit,              \* entries on a page
    ExportLimit,        \* the 10_000 of an export
    LastMoment          \* bound on the clock

ASSUME AuditAssumption == {Limit, ExportLimit, LastMoment} \subseteq Nat \ {0}

VARIABLES
    moment,             \* the clock
    dated,              \* created_at of every entry made, 0 before
    logged,             \* entries that are committed
    pages,              \* the client that reads
    kept                \* history: entries committed when it began, and not
                        \* deleted since

auditVars == <<moment, dated, logged, pages, kept>>

\* offset is what the next call skips; got is what came.
Resting == [at |-> "resting", offset |-> 0, got |-> {}]

AuditInit ==
    /\ moment = 1
    /\ dated = [e \in Entries |-> 0] /\ logged = {}
    /\ pages = Resting /\ kept = {}

NewMoment ==
    /\ moment < LastMoment
    /\ moment' = moment + 1
    /\ UNCHANGED <<dated, logged, pages, kept>>

\* log_action dates the entry, and commits it later.
Make(e) ==
    /\ dated[e] = 0
    /\ dated' = [dated EXCEPT ![e] = moment]
    /\ UNCHANGED <<moment, logged, pages, kept>>

CommitEntry(e) ==
    /\ dated[e] > 0 /\ e \notin logged
    /\ logged' = logged \cup {e}
    /\ UNCHANGED <<moment, dated, pages, kept>>

\* DELETE FROM audit_logs WHERE created_at < t.  An entry made this long ago is
\* committed.
Retain(t) ==
    /\ t \in 2 .. moment
    /\ \A e \in Entries : dated[e] \in 1 .. t - 1 => e \in logged
    /\ LET old == {e \in logged : dated[e] < t} IN
       /\ old # {}
       /\ logged' = logged \ old /\ kept' = kept \ old
       /\ dated' = [e \in Entries |-> IF e \in old THEN 0 ELSE dated[e]]
    /\ UNCHANGED <<moment, pages>>

\* Mutant: oldest first.
Before_oldest(e, f) == dated[e] < dated[f]

\* ORDER BY created_at DESC.
Before(e, f) == dated[e] > dated[f]

\* What LIMIT n OFFSET k may give: the order of entries of one moment is open.
Window(k, n) ==
    {p \in SUBSET logged :
        /\ Cardinality(p) = Min({n, Cardinality(logged) - Min({k, Cardinality(logged)})})
        /\ \E skipped \in SUBSET (logged \ p) :
              /\ Cardinality(skipped) = Min({k, Cardinality(logged)})
              /\ \A e \in logged \ skipped, s \in skipped : ~Before(e, s)
              /\ \A e \in p, f \in (logged \ skipped) \ p : ~Before(f, e)}

\* list_audit_logs for a client that has seen nothing yet.
Open ==
    /\ pages.at = "resting"
    /\ pages' = [Resting EXCEPT !.at = "reading"]
    /\ kept' = logged
    /\ UNCHANGED <<moment, dated, logged>>

\* One call of list_audit_logs, the offset moved on; a short page is the last.
ReadPage ==
    /\ pages.at = "reading"
    /\ \E p \in Window(pages.offset, Limit) :
          pages' = [at |-> IF Cardinality(p) < Limit THEN "read" ELSE "reading",
                    offset |-> pages.offset + Limit, got |-> pages.got \cup p]
    /\ UNCHANGED <<moment, dated, logged, kept>>

\* export_audit_logs is a single call, whose limit nobody hears of.
Export ==
    /\ pages.at = "resting"
    /\ \E p \in Window(0, ExportLimit) :
          pages' = [at |-> IF Cardinality(logged) > ExportLimit THEN "cut" ELSE "read",
                    offset |-> 0, got |-> p]
    /\ kept' = logged
    /\ UNCHANGED <<moment, dated, logged>>

Leave ==
    /\ pages.at \in {"read", "cut"}
    /\ pages' = Resting /\ kept' = {}
    /\ UNCHANGED <<moment, dated, logged>>

AuditNext ==
    \/ NewMoment
    \/ \E e \in Entries : Make(e) \/ CommitEntry(e)
    \/ \E t \in 2 .. LastMoment : Retain(t)
    \/ Open \/ ReadPage \/ Export \/ Leave

AuditSpec == AuditInit /\ [][AuditNext]_auditVars

AuditTypeOK ==
    /\ moment \in 1 .. LastMoment
    /\ dated \in [Entries -> 0 .. LastMoment]
    /\ logged \subseteq {e \in Entries : dated[e] > 0}
    /\ pages.at \in {"resting", "reading", "read", "cut"} /\ pages.got \subseteq Entries
    /\ kept \subseteq Entries

-----------------------------------------------------------------------------
\* The same moment leaves the order open, so a page may repeat one and miss the
\* other.
Tied(e) == \E f \in Entries \ {e} : dated[f] = dated[e]

\* A client that has read to the last page has every entry that was there when
\* it began and is not deleted, whatever is logged, and however late, between
\* its calls (list_audit_logs, export_audit_logs).
PagesMissNothing ==
    pages.at = "read" => \A e \in kept : e \in pages.got \/ Tied(e)
=============================================================================
