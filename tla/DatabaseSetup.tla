---------------------------- MODULE DatabaseSetup ----------------------------
(***************************************************************************)
(* app/db/database.py: every request gets its session through init_db,     *)
(* which builds the engine when the configured URL is another one and      *)
(* creates the tables once, under an asyncio lock and behind a flag.  The  *)
(* tasks are the requests of one process and its startup (lifespan).       *)
(*                                                                         *)
(* asyncio.Lock serves its waiters in the order they came: the sequence    *)
(* queue is the lock, its holder first.                                    *)
(***************************************************************************)
EXTENDS Naturals, Sequences

CONSTANTS
    Tasks,
    Urls,               \* values of DATABASE_URL
    NoUrl,
    AutoCreate,         \* AUTO_CREATE_TABLES
    SwitchCap           \* bound: changes of the URL

ASSUME DatabaseSetupAssumption ==
    /\ Urls # {}
    /\ NoUrl \notin Urls
    /\ AutoCreate \in BOOLEAN
    /\ SwitchCap \in Nat

VARIABLES
    url,                \* settings.DATABASE_URL
    engine,             \* _current_db_url, and what engine and SessionLocal are bound to
    created,            \* _tables_created
    queue,              \* _tables_lock: its holder, and who waits for it
    task,               \* where each task is, and the database it works on
    tables,             \* databases that have their tables
    switches,
    overtaken           \* history: the engine changed under a creation

setupVars == <<url, engine, created, queue, task, tables, switches, overtaken>>

Away == [at |-> "away", db |-> NoUrl]

In(q, t) == \E i \in 1 .. Len(q) : q[i] = t
Without(q, t) == SelectSeq(q, LAMBDA x : x # t)

SetupTypeOK ==
    /\ url \in Urls
    /\ engine \in Urls \cup {NoUrl}
    /\ created \in BOOLEAN
    /\ queue \in Seq(Tasks)
    /\ task \in [Tasks -> [at : {"away", "waiting", "creating", "session"},
                           db : Urls \cup {NoUrl}]]
    /\ tables \subseteq Urls
    /\ switches \in Nat
    /\ overtaken \in BOOLEAN

SetupInit ==
    /\ url = CHOOSE u \in Urls : TRUE
    /\ engine = NoUrl
    /\ created = FALSE
    /\ queue = << >>
    /\ task = [t \in Tasks |-> Away]
    /\ tables = {}
    /\ switches = 0
    /\ overtaken = FALSE

\* A session of SessionLocal, as it is bound once init_db has returned.
Session == [at |-> "session", db |-> engine']

\* init_db up to its first await: _ensure_session_factories, and the answer
\* when there is nothing to create.
EnterInitDb(t) ==
    /\ task[t].at = "away"
    /\ engine' = url
    /\ created' = (created /\ engine = url)
    /\ overtaken' = (\/ overtaken
                     \/ engine # url /\ \E s \in Tasks : task[s].at = "creating")
    /\ IF created' \/ ~AutoCreate
       THEN task' = [task EXCEPT ![t] = Session] /\ UNCHANGED queue
       ELSE /\ task' = [task EXCEPT ![t].at = "waiting"]
            /\ queue' = Append(queue, t)
    /\ UNCHANGED <<url, tables, switches>>

\* The lock is t's.  The flag is read again, and the engine as it is now.
TakeLock(t) ==
    /\ queue # << >> /\ t = Head(queue)
    /\ task[t].at = "waiting"
    /\ UNCHANGED engine
    /\ IF created
       THEN task' = [task EXCEPT ![t] = Session] /\ queue' = Tail(queue)
       ELSE /\ task' = [task EXCEPT ![t] = [at |-> "creating", db |-> engine]]
            /\ UNCHANGED queue
    /\ UNCHANGED <<url, created, tables, switches, overtaken>>

\* Mutant: the flag is raised whatever became of the tables.
CreateTables_flagFirst(t) ==
    /\ task[t].at = "creating"
    /\ created' = TRUE
    /\ UNCHANGED <<engine, tables>>
    /\ task' = [task EXCEPT ![t] = Session]
    /\ queue' = Tail(queue)
    /\ UNCHANGED <<url, switches, overtaken>>

\* create_all has committed on the engine it began with.
CreateTables(t) ==
    /\ task[t].at = "creating"
    /\ tables' = tables \cup {task[t].db}
    /\ created' = TRUE
    /\ UNCHANGED engine
    /\ task' = [task EXCEPT ![t] = Session]
    /\ queue' = Tail(queue)
    /\ UNCHANGED <<url, switches, overtaken>>

\* Mutant: the lock is not given back.
FailToCreate_locked(t) ==
    /\ task[t].at = "creating"
    /\ task' = [task EXCEPT ![t] = Away]
    /\ UNCHANGED <<url, engine, created, queue, tables, switches, overtaken>>

\* create_all fails, say because the database is unreachable; the request is
\* answered with an error, and async with releases the lock.
FailToCreate(t) ==
    /\ task[t].at = "creating"
    /\ task' = [task EXCEPT ![t] = Away]
    /\ queue' = Tail(queue)
    /\ UNCHANGED <<url, engine, created, tables, switches, overtaken>>

\* The request is cancelled while it waits for the lock.
CancelTask(t) ==
    /\ task[t].at = "waiting"
    /\ task' = [task EXCEPT ![t] = Away]
    /\ queue' = Without(queue, t)
    /\ UNCHANGED <<url, engine, created, tables, switches, overtaken>>

CloseSession(t) ==
    /\ task[t].at = "session"
    /\ task' = [task EXCEPT ![t] = Away]
    /\ UNCHANGED <<url, engine, created, queue, tables, switches, overtaken>>

\* The settings are read anew and name another database.
SwitchUrl(u) ==
    /\ u # url
    /\ switches < SwitchCap
    /\ switches' = switches + 1
    /\ url' = u
    /\ UNCHANGED <<engine, created, queue, task, tables, overtaken>>

\* The process ends in the middle of anything; create_all rolls back.
RestartProcess ==
    /\ engine' = NoUrl
    /\ created' = FALSE
    /\ queue' = << >>
    /\ task' = [t \in Tasks |-> Away]
    /\ overtaken' = FALSE
    /\ UNCHANGED <<url, tables, switches>>

SetupNext ==
    \/ \E t \in Tasks : \/ EnterInitDb(t) \/ TakeLock(t) \/ CreateTables(t)
                        \/ FailToCreate(t) \/ CancelTask(t) \/ CloseSession(t)
    \/ \E u \in Urls : SwitchUrl(u)
    \/ RestartProcess

\* The event loop runs the task that holds the lock, and the database answers
\* or the driver gives up; nobody is obliged to cancel or to switch.
SetupFairness ==
    \A t \in Tasks : /\ WF_setupVars(TakeLock(t))
                     /\ WF_setupVars(CreateTables(t) \/ FailToCreate(t))

SetupSpec == SetupInit /\ [][SetupNext]_setupVars /\ SetupFairness

-----------------------------------------------------------------------------
\* Whoever gets a session finds the tables of its database, through failures,
\* restarts, and changes of the URL, which reset the flag; unless the URL
\* changed while a creation was under way: that creation raises the flag for
\* a database it has not touched (init_db, _ensure_session_factories).
SessionHasTables ==
    \A t \in Tasks :
        task[t].at = "session" /\ AutoCreate /\ ~overtaken => task[t].db \in tables

\* A request that waits for the tables goes on or ends: a creation that fails
\* or is cancelled leaves the lock to the next.
NobodyWaitsForEver ==
    \A t \in Tasks : task[t].at \in {"waiting", "creating"} ~>
                     task[t].at \in {"session", "away"}
=============================================================================
