--------------------------- MODULE StateConnections ---------------------------
(***************************************************************************)
(* Connections to the state database: backend/spam_detection/database.py.   *)
(* Every process (a gunicorn worker, a cron job) has a pool of connections  *)
(* for transactions, and a limiter for the sessions that hold advisory      *)
(* locks.  The workers run requests as greenlets: waiting for the limiter   *)
(* and for object storage lets the others run, but the driver does not: a   *)
(* query, and the wait for an advisory lock, stop the whole process.        *)
(***************************************************************************)
EXTENDS Naturals, FiniteSets

CONSTANTS
    Process,
    Request,
    Lock,            \* names of advisory locks
    LockConnections, \* SPAM_DETECTION_STATE_DB_LOCK_CONNECTIONS
    PoolMin,         \* SPAM_DETECTION_STATE_DB_POOL_MIN
    PoolSize,        \* SPAM_DETECTION_STATE_DB_POOL_MAX without LockConnections
    MaxRestarts,     \* bound: how often the database server restarts
    Proc,            \* the process of each request
    None             \* no lock

ASSUME ConnectionsAssumption ==
    /\ Proc \in [Request -> Process]
    /\ IsFiniteSet(Request)
    /\ None \notin Lock
    /\ MaxRestarts \in Nat

\* _postgres_connection_limits refuses any other configuration.
ASSUME LimitsAssumption ==
    /\ LockConnections \in Nat \ {0} /\ PoolMin \in Nat \ {0} /\ PoolSize \in Nat
    /\ PoolSize >= PoolMin

VARIABLES
    ready,   \* the processes that have created the schema (_INITIALIZED_STATE_DBS)
    pool,    \* the pool of each process
    req,     \* the requests
    restarts \* how often the server has restarted

vars == <<ready, pool, req, restarts>>

\* stale connections are idle ones the server has closed; used ones are those
\* checked out and not returned.
Pool == [idle: Nat, stale: Nat, used: Nat]

\* queue: waiting for the limiter.  ask: waiting for the lock, with the process.
\* left: how many calls to object storage, each between two transactions, are
\* still to come; session and conn: the lock's connection and the transaction's.
Req == [pc: {"idle", "queue", "ask", "work", "schema", "query", "storage"},
        lock: Lock \cup {None}, left: 0 .. 1,
        session: {"none", "open", "dead"}, conn: {"none", "open", "dead"}]

NoReq == [pc |-> "idle", lock |-> None, left |-> 0, session |-> "none", conn |-> "none"]

TypeOK ==
    /\ ready \subseteq Process
    /\ pool \in [Process -> Pool]
    /\ req \in [Request -> Req]
    /\ restarts \in 0 .. MaxRestarts

\* A pool opens its minimum when it is created.
Init ==
    /\ ready = {}
    /\ pool = [p \in Process |-> [idle |-> PoolMin, stale |-> 0, used |-> 0]]
    /\ req = [r \in Request |-> NoReq]
    /\ restarts = 0

Goto(r, pc) == req' = [req EXCEPT ![r].pc = pc]

\* Mutant of Finish: the request ends without unlocking or closing its session.
FinishLocked(r) == req' = [req EXCEPT ![r] = [NoReq EXCEPT !.lock = req[r].lock,
                                                         !.session = req[r].session]]

\* The request is over: its lock is released, its session closed and its place in
\* the limiter given up.
Finish(r) == req' = [req EXCEPT ![r] = NoReq]

\* The driver gives the process back only when the database has answered.
InDriver == {"schema", "ask", "query"}
Runs(r)  == \A q \in Request \ {r} : Proc[q] = Proc[r] => req[q].pc \notin InDriver

(***************************************************************************)
(* The pool                                                                *)
(***************************************************************************)
\* connect_state_db when pool p has an open connection, or room for one: the
\* statement that sets the search path succeeds.
CheckOut(p) ==
    \/ /\ pool[p].idle > 0
       /\ pool' = [pool EXCEPT ![p].idle = @ - 1, ![p].used = @ + 1]
    \/ /\ pool[p].idle + pool[p].stale = 0 /\ pool[p].used < PoolSize
       /\ pool' = [pool EXCEPT ![p].used = @ + 1]

\* ... when the connection is stale: its first statement fails, so does the
\* rollback, and putconn is never reached.
LoseSlot(p) ==
    /\ pool[p].stale > 0
    /\ pool' = [pool EXCEPT ![p].stale = @ - 1, ![p].used = @ + 1]

Exhausted(p) == pool[p].idle + pool[p].stale = 0 /\ pool[p].used >= PoolSize

\* Mutant of Return: __exit__ closes only after the rollback, which raises on a
\* connection the server has closed.
ReturnUnlessDead(r) ==
    LET p == Proc[r]
        kept == IF pool[p].idle + pool[p].stale < PoolMin THEN 1 ELSE 0 IN
    pool' = IF req[r].conn # "open" THEN pool
            ELSE [pool EXCEPT ![p].used = @ - 1, ![p].idle = @ + kept]

\* Mutant of Return: closed twice.
ReturnTwice(r) ==
    LET p == Proc[r] IN
    pool' = [pool EXCEPT ![p].used = @ - 1,
                         ![p].idle = IF req[r].conn = "open" THEN PoolMin ELSE @]

\* close: putconn keeps the minimum of open connections and drops the others.
Return(r) ==
    LET p == Proc[r]
        kept == IF req[r].conn = "open" /\ pool[p].idle + pool[p].stale < PoolMin
                THEN 1 ELSE 0 IN
    pool' = IF req[r].conn = "none" THEN pool
            ELSE [pool EXCEPT ![p].used = @ - 1, ![p].idle = @ + kept]

(***************************************************************************)
(* A request, with or without an advisory lock                             *)
(***************************************************************************)
Begin(r, l) ==
    /\ Runs(r) /\ req[r].pc = "idle"
    /\ req' = [req EXCEPT ![r] = [NoReq EXCEPT !.lock = l, !.left = 1,
                                   !.pc = IF l = None THEN "work" ELSE "queue"]]
    /\ UNCHANGED <<ready, pool, restarts>>

\* The requests of process p that are past its limiter.
Admitted(p) == {r \in Request : Proc[r] = p /\ req[r].session # "none"}

\* Mutant of Permits: no limiter.
PermitsAll(p) == TRUE

\* _postgres_lock_limiter.
Permits(p) == Cardinality(Admitted(p)) < LockConnections

\* Mutant of AskLock: the lock's session is one of the pool.
AskLockPooled(r) ==
    /\ Runs(r) /\ req[r].pc = "queue" /\ Permits(Proc[r])
    /\ CheckOut(Proc[r])
    /\ req' = [req EXCEPT ![r].pc = "ask", ![r].session = "open"]
    /\ UNCHANGED <<ready, restarts>>

\* state_advisory_lock: past the limiter, a connection of its own asks for the lock.
AskLock(r) ==
    /\ Runs(r) /\ req[r].pc = "queue" /\ Permits(Proc[r])
    /\ req' = [req EXCEPT ![r].pc = "ask", ![r].session = "open"]
    /\ UNCHANGED <<ready, pool, restarts>>

\* The requests whose session the server knows to hold a lock.
Holders(l) == {r \in Request : /\ req[r].lock = l /\ req[r].session = "open"
                               /\ req[r].pc # "ask"}

GetLock(r) ==
    /\ req[r].pc = "ask" /\ req[r].session = "open"
    /\ Holders(req[r].lock) = {}
    /\ Goto(r, "work")
    /\ UNCHANGED <<ready, pool, restarts>>

\* initialize_state_db, which a process does before its first transaction.
Initialize(r) ==
    /\ Runs(r) /\ req[r].pc = "work" /\ Proc[r] \notin ready
    /\ CheckOut(Proc[r])
    /\ req' = [req EXCEPT ![r].pc = "schema", ![r].conn = "open"]
    /\ UNCHANGED <<ready, restarts>>

\* It waits for other processes that do so, which wait for nothing
\* (pg_advisory_xact_lock).
Initialized(r) ==
    /\ req[r].pc = "schema" /\ req[r].conn = "open"
    /\ Return(r)
    /\ ready' = ready \cup {Proc[r]}
    /\ req' = [req EXCEPT ![r].pc = "work", ![r].conn = "none"]
    /\ UNCHANGED restarts

\* A transaction of the store.
Query(r) ==
    /\ Runs(r) /\ req[r].pc = "work" /\ Proc[r] \in ready
    /\ CheckOut(Proc[r])
    /\ req' = [req EXCEPT ![r].pc = "query", ![r].conn = "open"]
    /\ UNCHANGED <<ready, restarts>>

\* After it, more work for object storage or the end of the request, which
\* unlocks and leaves the limiter.
Answered(r) ==
    /\ req[r].pc = "query" /\ req[r].conn = "open"
    /\ Return(r)
    /\ IF req[r].left = 0 THEN Finish(r)
       ELSE req' = [req EXCEPT ![r].pc = "storage", ![r].conn = "none", ![r].left = @ - 1]
    /\ UNCHANGED <<ready, restarts>>

\* An answer of object storage wakes the greenlet.
Stored(r) ==
    /\ Runs(r) /\ req[r].pc = "storage"
    /\ Goto(r, "work")
    /\ UNCHANGED <<ready, pool, restarts>>

\* connect_state_db or the pool raises, and the request ends with an error.
NoConnection(r) ==
    /\ Runs(r) /\ req[r].pc = "work"
    /\ \/ LoseSlot(Proc[r])
       \/ Exhausted(Proc[r]) /\ UNCHANGED pool
    /\ Finish(r)
    /\ UNCHANGED <<ready, restarts>>

\* A statement on a connection the server has closed raises.
Broken(r) ==
    /\ \/ req[r].pc \in {"schema", "query"} /\ req[r].conn = "dead"
       \/ req[r].pc = "ask" /\ req[r].session = "dead"
    /\ Return(r)
    /\ Finish(r)
    /\ UNCHANGED <<ready, restarts>>

\* Object storage or the code of the request raises, or psycopg2.connect does, for
\* a request past the limiter.
Raise(r) ==
    /\ Runs(r)
    /\ \/ req[r].pc \in {"work", "storage"}
       \/ req[r].pc = "queue" /\ Permits(Proc[r])
    /\ Finish(r)
    /\ UNCHANGED <<ready, pool, restarts>>

\* A restart of the server ends every session, and with it every lock.
Restart ==
    /\ restarts < MaxRestarts
    /\ restarts' = restarts + 1
    /\ pool' = [p \in Process |-> [pool[p] EXCEPT !.idle = 0, !.stale = @ + pool[p].idle]]
    /\ req' = [r \in Request |->
          [req[r] EXCEPT !.session = IF @ = "open" THEN "dead" ELSE @,
                         !.conn = IF @ = "open" THEN "dead" ELSE @]]
    /\ UNCHANGED ready

Step(r) ==
    \/ AskLock(r) \/ GetLock(r) \/ Initialize(r) \/ Initialized(r) \/ Query(r)
    \/ Answered(r) \/ Stored(r) \/ NoConnection(r) \/ Broken(r)

Next ==
    \/ \E r \in Request : \/ \E l \in Lock \cup {None} : Begin(r, l)
                          \/ Step(r) \/ Raise(r)
    \/ Restart

Spec == Init /\ [][Next]_vars
=============================================================================
