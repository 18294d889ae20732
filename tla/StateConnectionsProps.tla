------------------------ MODULE StateConnectionsProps ------------------------
(***************************************************************************)
(* What is claimed of the connections, over StateConnections.              *)
(***************************************************************************)
EXTENDS StateConnections

\* The driver waits for an advisory lock.
Stopped(p) == \E r \in Request : Proc[r] = p /\ req[r].pc = "ask"

\* A process that stops for an advisory lock waits for a request whose process
\* does not: no worker hangs for good on a lock that one of its own greenlets
\* holds, and no two workers on each other's (state_advisory_lock).
NoHang ==
    \A r \in Request : req[r].pc = "ask" =>
        \A h \in Holders(req[r].lock) : ~Stopped(Proc[h])

\* A request of the process has the connection.
CheckedOut(p) == {r \in Request : Proc[r] = p /\ req[r].conn # "none"}

\* The slots of the pool that no request gives back.
Lost(p) == pool[p].used - Cardinality(CheckedOut(p))

\* A step adds at most n to the slots that are lost or go with a stale connection.
Spends(n) ==
    \A p \in Process : Lost(p)' + pool'[p].stale <= Lost(p) + pool[p].stale + n

\* However transactions end, their slots come back, and the sessions of advisory
\* locks take none; a slot is lost only with a connection that a restart of the
\* server closed while it was idle, and a restart closes no more of those than the
\* pool's minimum (connect_state_db, _PostgresConnection.close).
RestartCosts == [][Spends(IF restarts' = restarts THEN 0 ELSE PoolMin)]_vars

\* Greenlets are scheduled, limiter and database queue first come first served,
\* and object storage answers or raises (all calls have timeouts).
FairSpec == Spec /\ \A r \in Request : SF_vars(Step(r))

\* Every request ends, with its answer or an error, whatever the locks others hold.
Served == \A r \in Request : req[r].pc # "idle" ~> req[r].pc = "idle"
=============================================================================
