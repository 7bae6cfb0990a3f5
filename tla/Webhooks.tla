------------------------------ MODULE Webhooks ------------------------------
(***************************************************************************)
(* app/services/webhook_service.py: endpoints, the delivery log, and the   *)
(* three kinds of request that work on it.  dispatch_event writes one row  *)
(* per subscribed endpoint, POSTs after each INSERT and commits once, at   *)
(* the end; replay_delivery loads a row, POSTs again and commits what it   *)
(* changed; delete_endpoint takes an endpoint and the rows it found.       *)
(*                                                                         *)
(* Foreign keys are enforced (PostgreSQL): an INSERT needs its endpoint,   *)
(* and holds a share lock on it until the transaction ends.                *)
(***************************************************************************)
EXTENDS Naturals, Functions

CONSTANTS
    Endpoints,
    Deliveries,         \* uuids of rows, each drawn once
    Dispatches,         \* slots for dispatch_event calls in progress
    Replays,            \* slots for replay_delivery calls in progress
    MaxAttempts,        \* _MAX_ATTEMPTS
    PostCap             \* bound: no replay starts after so many POSTs

ASSUME ConstantsAssumption ==
    /\ MaxAttempts \in Nat \ {0}
    /\ PostCap \in Nat

VARIABLES
    endpoint,           \* what has become of each endpoint
    row,                \* webhook_deliveries, with the rows not committed yet
    job,                \* each dispatch in progress
    replay,             \* each replay in progress
    deletion,           \* each endpoint's deletion in progress
    posts,              \* history: POSTs sent for each delivery
    received,           \* history: deliveries some POST of which got a 2xx
    contended,          \* history: deliveries two replays worked on at once
    crashed             \* history: a request died at work

vars == <<endpoint, row, job, replay, deletion, posts, received, contended, crashed>>

Statuses == {"pending", "success", "failed"}

\* What a row says of its delivery; "retry" tells whether next_retry_at is set.
Log == [status : Statuses, attempts : Nat, retry : BOOLEAN]
NoAttempt == [status |-> "pending", attempts |-> 0, retry |-> FALSE]

\* "draft": inserted, not committed; "lost": rolled back; "deleted": taken
\* along with its endpoint.
Row == [life : {"unused", "draft", "saved", "lost", "deleted"},
        endpoint : Endpoints, log : Log]

\* A dispatch: the endpoints still to do, the rows it has made, and the last.
Job == [at : {"idle", "choosing", "posting"}, todo : SUBSET Endpoints,
        made : SUBSET Deliveries, current : Deliveries]

\* A replay: the row as it was loaded, and as it is going to be.
Replay == [at : {"idle", "posting", "committing"}, delivery : Deliveries,
           found : Log, mine : Log]

TypeOK ==
    /\ endpoint \in [Endpoints -> {"unknown", "registered", "deleted"}]
    /\ row \in [Deliveries -> Row]
    /\ job \in [Dispatches -> Job]
    /\ replay \in [Replays -> Replay]
    /\ deletion \in [Endpoints -> [at : {"idle", "found"}, rows : SUBSET Deliveries]]
    /\ posts \in [Deliveries -> Nat]
    /\ received \subseteq Deliveries
    /\ contended \subseteq Deliveries
    /\ crashed \in BOOLEAN

NoDeletion == [at |-> "idle", rows |-> {}]

Init ==
    /\ endpoint = [e \in Endpoints |-> "unknown"]
    /\ \E e \in Endpoints, d \in Deliveries :
          /\ row = [x \in Deliveries |->
                       [life |-> "unused", endpoint |-> e, log |-> NoAttempt]]
          /\ job = [j \in Dispatches |->
                       [at |-> "idle", todo |-> {}, made |-> {}, current |-> d]]
          /\ replay = [k \in Replays |->
                          [at |-> "idle", delivery |-> d,
                           found |-> NoAttempt, mine |-> NoAttempt]]
    /\ deletion = [e \in Endpoints |-> NoDeletion]
    /\ posts = [d \in Deliveries |-> 0]
    /\ received = {}
    /\ contended = {}
    /\ crashed = FALSE

Registered == {e \in Endpoints : endpoint[e] = "registered"}

-----------------------------------------------------------------------------
(* One attempt.                                                             *)

\* Mutant: given up one attempt early.
ScheduleRetry_early(r) ==
    IF r.attempts + 1 >= MaxAttempts
      THEN [r EXCEPT !.status = "failed", !.retry = FALSE]
      ELSE [r EXCEPT !.status = "pending", !.retry = TRUE]

\* _schedule_retry.
ScheduleRetry(r) ==
    IF r.attempts >= MaxAttempts
      THEN [r EXCEPT !.status = "failed", !.retry = FALSE]
      ELSE [r EXCEPT !.status = "pending", !.retry = TRUE]

\* Mutant: only failed attempts are counted.
Delivered_failuresOnly(r, ok) ==
    IF ok THEN [r EXCEPT !.status = "success", !.retry = FALSE]
          ELSE ScheduleRetry([r EXCEPT !.attempts = @ + 1])

\* _deliver: the attempt is counted, the POST is answered with a 2xx or with
\* anything else, no answer included.
Delivered(r, ok) ==
    LET counted == [r EXCEPT !.attempts = @ + 1]
    IN  IF ok THEN [counted EXCEPT !.status = "success", !.retry = FALSE]
              ELSE ScheduleRetry(counted)

Sent(d, ok) ==
    /\ posts' = [posts EXCEPT ![d] = @ + 1]
    /\ received' = IF ok THEN received \cup {d} ELSE received

-----------------------------------------------------------------------------
(* dispatch_event.                                                          *)

\* SELECT the active endpoints; the event matches any set of them.
DispatchEvent(j, matching) ==
    /\ job[j].at = "idle"
    /\ matching \subseteq Registered
    /\ job' = [job EXCEPT ![j].at = "choosing", ![j].todo = matching]
    /\ UNCHANGED <<endpoint, row, replay, deletion, posts, received, contended, crashed>>

\* The transaction of a dispatch ends.
Ended(j, life) ==
    /\ row' = [d \in Deliveries |-> IF d \in job[j].made
                                      THEN [row[d] EXCEPT !.life = life] ELSE row[d]]
    /\ job' = [job EXCEPT ![j].at = "idle", ![j].todo = {}, ![j].made = {}]
    /\ UNCHANGED <<endpoint, replay, deletion, posts, received, contended>>

\* INSERT the next row; the exception of a missing endpoint rolls back all.
Insert(j, e, d) ==
    /\ job[j].at = "choosing"
    /\ e \in job[j].todo
    /\ row[d].life = "unused"
    /\ \/ /\ e \in Registered
          /\ row' = [row EXCEPT ![d] = [@ EXCEPT !.life = "draft", !.endpoint = e]]
          /\ job' = [job EXCEPT ![j] = [at |-> "posting", todo |-> @.todo \ {e},
                                        made |-> @.made \cup {d}, current |-> d]]
          /\ UNCHANGED <<endpoint, replay, deletion, posts, received, contended, crashed>>
       \/ /\ e \notin Registered
          /\ Ended(j, "lost")
          /\ UNCHANGED crashed

Post(j, ok) ==
    LET d == job[j].current IN
    /\ job[j].at = "posting"
    /\ row' = [row EXCEPT ![d].log = Delivered(@, ok)]
    /\ Sent(d, ok)
    /\ job' = [job EXCEPT ![j].at = "choosing"]
    /\ UNCHANGED <<endpoint, replay, deletion, contended, crashed>>

\* Mutant: the rows are left to the session, which never commits.
CommitDispatch_forgotten(j) ==
    /\ job[j].at = "choosing"
    /\ job[j].todo = {}
    /\ Ended(j, "lost")
    /\ UNCHANGED crashed

CommitDispatch(j) ==
    /\ job[j].at = "choosing"
    /\ job[j].todo = {}
    /\ Ended(j, "saved")
    /\ UNCHANGED crashed

\* The process dies and the database rolls back.
CrashDispatch(j) ==
    /\ job[j].at # "idle"
    /\ Ended(j, "lost")
    /\ crashed' = TRUE

-----------------------------------------------------------------------------
(* replay_delivery.                                                         *)

AtWork(k, d) == replay[k].at # "idle" /\ replay[k].delivery = d

\* SELECT the row with its endpoint.
ReplayDelivery(k, d) ==
    /\ replay[k].at = "idle"
    /\ SumFunction(posts) < PostCap
    /\ replay' = [replay EXCEPT ![k] =
                    [at |-> "posting", delivery |-> d, found |-> row[d].log,
                     mine |-> [row[d].log EXCEPT !.status = "pending", !.retry = FALSE]]]
    /\ contended' = IF \E l \in Replays : AtWork(l, d)
                      THEN contended \cup {d} ELSE contended
    /\ UNCHANGED <<endpoint, row, job, deletion, posts, received, crashed>>

Saved == {d \in Deliveries : row[d].life = "saved"}

\* POST /deliveries/{delivery_id}/replay, 404 if it is gone.
RequestReplay(k) == \E d \in Saved : ReplayDelivery(k, d)

PostAgain(k, ok) ==
    /\ replay[k].at = "posting"
    /\ Sent(replay[k].delivery, ok)
    /\ replay' = [replay EXCEPT ![k].at = "committing",
                                ![k].mine = Delivered(@, ok)]
    /\ UNCHANGED <<endpoint, row, job, deletion, contended, crashed>>

ReplayEnds(k) ==
    replay' = [replay EXCEPT ![k].at = "idle",
                             ![k].found = NoAttempt, ![k].mine = NoAttempt]

\* The columns an UPDATE writes: those that differ from what was loaded.  A
\* new retry time always does.
Updated(r, found, mine) ==
    [r EXCEPT !.status = IF mine.status # found.status THEN mine.status ELSE @,
              !.attempts = mine.attempts,
              !.retry = IF mine.retry \/ found.retry THEN mine.retry ELSE @]

\* COMMIT; the UPDATE of a row that is gone raises.
CommitReplay(k) ==
    LET d == replay[k].delivery IN
    /\ replay[k].at = "committing"
    /\ row' = IF row[d].life = "saved"
                THEN [row EXCEPT ![d].log = Updated(@, replay[k].found, replay[k].mine)]
                ELSE row
    /\ ReplayEnds(k)
    /\ UNCHANGED <<endpoint, job, deletion, posts, received, contended, crashed>>

CrashReplay(k) ==
    /\ replay[k].at # "idle"
    /\ ReplayEnds(k)
    /\ crashed' = TRUE
    /\ UNCHANGED <<endpoint, row, job, deletion, posts, received, contended>>

-----------------------------------------------------------------------------
(* register_endpoint and delete_endpoint.                                   *)

RegisterEndpoint(e) ==
    /\ endpoint' = [endpoint EXCEPT ![e] = "registered"]
    /\ UNCHANGED <<row, job, replay, deletion, posts, received, contended, crashed>>

\* POST /: every call makes an endpoint, with an id of its own.
PostEndpoint(e) == endpoint[e] = "unknown" /\ RegisterEndpoint(e)

RowsOf(e, life) == {d \in Deliveries : row[d].life = life /\ row[d].endpoint = e}

\* SELECT the endpoint, and its deliveries for the cascade.
FindEndpoint(e) ==
    /\ deletion[e].at = "idle"
    /\ deletion' = [deletion EXCEPT ![e] = [at |-> "found", rows |-> RowsOf(e, "saved")]]
    /\ UNCHANGED <<endpoint, row, job, replay, posts, received, contended, crashed>>

\* DELETE /{endpoint_id}, 404 without it.
RequestDeletion(e) == e \in Registered /\ FindEndpoint(e)

\* DELETE the rows, then the endpoint: it waits for the transactions that
\* hold a share lock, and fails if a row came in meanwhile.
DeleteEndpoint(e) ==
    /\ deletion[e].at = "found"
    /\ RowsOf(e, "draft") = {}
    /\ IF RowsOf(e, "saved") \subseteq deletion[e].rows
         THEN /\ row' = [d \in Deliveries |-> IF d \in RowsOf(e, "saved")
                           THEN [row[d] EXCEPT !.life = "deleted"] ELSE row[d]]
              /\ endpoint' = [endpoint EXCEPT ![e] = "deleted"]
         ELSE UNCHANGED <<row, endpoint>>
    /\ deletion' = [deletion EXCEPT ![e] = NoDeletion]
    /\ UNCHANGED <<job, replay, posts, received, contended, crashed>>

-----------------------------------------------------------------------------
Next ==
    \/ \E j \in Dispatches :
          \/ \E S \in SUBSET Endpoints : DispatchEvent(j, S)
          \/ \E e \in Endpoints, d \in Deliveries : Insert(j, e, d)
          \/ \E ok \in BOOLEAN : Post(j, ok)
          \/ CommitDispatch(j) \/ CrashDispatch(j)
    \/ \E k \in Replays :
          \/ RequestReplay(k)
          \/ \E ok \in BOOLEAN : PostAgain(k, ok)
          \/ CommitReplay(k) \/ CrashReplay(k)
    \/ \E e \in Endpoints :
          PostEndpoint(e) \/ RequestDeletion(e) \/ DeleteEndpoint(e)

Spec == Init /\ [][Next]_vars

-----------------------------------------------------------------------------
(* Properties that hold whatever races and dies.                            *)

\* A delivery is given up only after _MAX_ATTEMPTS POSTs were really sent:
\* replays that overwrite each other's count can only lose attempts.
GivenUpAfterMaxAttempts ==
    \A d \in Saved : row[d].log.status = "failed" => posts[d] >= MaxAttempts

\* The log says "success" only of a delivery whose receiver answered 2xx,
\* even when a replay that failed is committed over one that did not.
SuccessIsReal ==
    \A d \in Saved : row[d].log.status = "success" => d \in received

\* So the log never claims more than what happened, however dispatches, replays,
\* deletions and deaths interleave.
LogIsHonest == GivenUpAfterMaxAttempts /\ SuccessIsReal

-----------------------------------------------------------------------------
(* The delivery log, as documented.                                         *)

Logged(d) == posts[d] > 0 => row[d].life \in {"draft", "saved", "deleted"}

\* "All outcomes are recorded in the delivery log": as long as no request
\* dies, a delivery that was POSTed has its row, until its endpoint is deleted.
EveryPostLogged == ~crashed => \A d \in Deliveries : Logged(d)

\* They are as long as no endpoint is deleted either: one commit at the end of
\* a dispatch keeps every row, however dispatches and replays interleave.
EveryPostLoggedUnlessDeleted ==
    (~crashed /\ \A e \in Endpoints : endpoint[e] # "deleted")
        => \A d \in Deliveries : Logged(d)

\* The "attempt count" of the log: when no replay is at work on a delivery,
\* its row counts every POST, provided no two replays worked on it at once.
AttemptsCountPosts ==
    ~crashed =>
        \A d \in Saved \ contended :
            (\A k \in Replays : ~AtWork(k, d)) => row[d].log.attempts = posts[d]
=============================================================================
