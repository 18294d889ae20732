----------------------- MODULE StateConnectionsProofs -----------------------
(***************************************************************************)
(* Theorems of StateConnections, for any number of processes, requests,     *)
(* locks and restarts, and pools of any size.                               *)
(***************************************************************************)
EXTENDS StateConnectionsProps, FiniteSetTheorems, TLAPS

\* A request has a session once it is past the limiter, and a connection while it
\* is in a transaction.
Shape(r) ==
    /\ r.session # "none" => r.pc \in {"ask", "work", "schema", "query", "storage"}
    /\ r.conn # "none" => r.pc \in {"schema", "query"}
    /\ r.pc = "ask" => r.session # "none"

\* The slots taken in a pool pl from which n connections are checked out, after k
\* restarts: each restart turns at most PoolMin idle connections stale, and every
\* slot that is lost had been one of those.
PoolWhole(pl, n, k) ==
    /\ pl \in Pool
    /\ n <= pl.used
    /\ pl.used + pl.stale <= n + PoolMin * k
    /\ pl.idle <= PoolMin

Out(p) == Cardinality(CheckedOut(p))

ConnInv ==
    /\ TypeOK
    /\ \A r \in Request : Shape(req[r])
    /\ \A p \in Process : PoolWhole(pool[p], Out(p), restarts)
    /\ \A p \in Process : Cardinality(Admitted(p)) <= LockConnections

\* The sets that are counted are finite.
LEMMA Finite ==
    ASSUME NEW p \in Process
    PROVE  /\ IsFiniteSet(CheckedOut(p)) /\ Out(p) \in Nat
           /\ IsFiniteSet(Admitted(p)) /\ Cardinality(Admitted(p)) \in Nat
<1>1. CheckedOut(p) \in SUBSET Request /\ Admitted(p) \in SUBSET Request
  BY DEF CheckedOut, Admitted
<1> QED
  BY <1>1, FS_Subset, FS_CardinalityType, ConnectionsAssumption DEF Out

\* The pool's arithmetic, one lemma for each thing that can happen to a connection.
LEMMA TakeWhole ==
    ASSUME NEW pl, NEW n \in Nat, NEW k \in Nat, PoolWhole(pl, n, k), NEW i \in {0, 1}, i <= pl.idle
    PROVE  PoolWhole([pl EXCEPT !.idle = @ - i, !.used = @ + 1], n + 1, k)
<1> DEFINE q == [pl EXCEPT !.idle = @ - i, !.used = @ + 1]
           c == PoolMin * k
<1>1. /\ q.idle = pl.idle - i /\ q.used = pl.used + 1 /\ q.stale = pl.stale
      /\ pl.idle \in Nat /\ pl.used \in Nat /\ pl.stale \in Nat /\ PoolMin \in Nat /\ c \in Nat
  BY LimitsAssumption DEF PoolWhole, Pool
<1>2. q \in Pool
  <2>1. pl.idle - i \in Nat /\ pl.used + 1 \in Nat
    BY <1>1
  <2> QED
    BY <2>1 DEF PoolWhole, Pool
<1>3. pl.used + pl.stale <= n + c /\ n <= pl.used /\ pl.idle <= PoolMin
  BY DEF PoolWhole
<1> HIDE DEF q, c
<1>4. n + 1 <= q.used /\ q.used + q.stale <= (n + 1) + c /\ q.idle <= PoolMin
  BY <1>1, <1>3
<1> QED
  BY <1>2, <1>4 DEF PoolWhole, q, c

\* A connection that is returned gives its slot back.
LEMMA ReturnWhole ==
    ASSUME NEW pl, NEW n \in Nat \ {0}, NEW k \in Nat, PoolWhole(pl, n, k), NEW i \in {0, 1},
           i = 1 => pl.idle + pl.stale < PoolMin
    PROVE  PoolWhole([pl EXCEPT !.used = @ - 1, !.idle = @ + i], n - 1, k)
<1> DEFINE q == [pl EXCEPT !.used = @ - 1, !.idle = @ + i]
           c == PoolMin * k
<1>1. /\ q.idle = pl.idle + i /\ q.used = pl.used - 1 /\ q.stale = pl.stale
      /\ pl.idle \in Nat /\ pl.used \in Nat /\ pl.stale \in Nat /\ PoolMin \in Nat /\ c \in Nat
  BY LimitsAssumption DEF PoolWhole, Pool
<1>2. pl.used + pl.stale <= n + c /\ n <= pl.used /\ pl.idle <= PoolMin
  BY DEF PoolWhole
<1>3. q \in Pool
  <2>1. pl.idle + i \in Nat /\ pl.used - 1 \in Nat
    BY <1>1, <1>2
  <2> QED
    BY <2>1 DEF PoolWhole, Pool
<1> HIDE DEF q, c
<1>4. n - 1 <= q.used /\ q.used + q.stale <= (n - 1) + c /\ q.idle <= PoolMin
  BY <1>1, <1>2
<1> QED
  BY <1>3, <1>4 DEF PoolWhole, q, c

\* A slot that is lost was a stale connection's.
LEMMA LoseWhole ==
    ASSUME NEW pl, NEW n \in Nat, NEW k \in Nat, PoolWhole(pl, n, k), pl.stale > 0
    PROVE  PoolWhole([pl EXCEPT !.stale = @ - 1, !.used = @ + 1], n, k)
<1> DEFINE q == [pl EXCEPT !.stale = @ - 1, !.used = @ + 1]
           c == PoolMin * k
<1>1. /\ q.idle = pl.idle /\ q.used = pl.used + 1 /\ q.stale = pl.stale - 1
      /\ pl.idle \in Nat /\ pl.used \in Nat /\ pl.stale \in Nat /\ PoolMin \in Nat /\ c \in Nat
  BY LimitsAssumption DEF PoolWhole, Pool
<1>2. pl.used + pl.stale <= n + c /\ n <= pl.used /\ pl.idle <= PoolMin
  BY DEF PoolWhole
<1>3. q \in Pool
  <2>1. pl.stale - 1 \in Nat /\ pl.used + 1 \in Nat
    BY <1>1
  <2> QED
    BY <2>1 DEF PoolWhole, Pool
<1> HIDE DEF q, c
<1>4. n <= q.used /\ q.used + q.stale <= n + c /\ q.idle <= PoolMin
  BY <1>1, <1>2
<1> QED
  BY <1>3, <1>4 DEF PoolWhole, q, c

\* A restart makes the idle connections stale, PoolMin of them at most.
LEMMA RestartWhole ==
    ASSUME NEW pl, NEW n \in Nat, NEW k \in Nat, PoolWhole(pl, n, k)
    PROVE  PoolWhole([pl EXCEPT !.idle = 0, !.stale = @ + pl.idle], n, k + 1)
<1> DEFINE q == [pl EXCEPT !.idle = 0, !.stale = @ + pl.idle]
           c == PoolMin * k
           d == PoolMin * (k + 1)
<1>1. /\ q.idle = 0 /\ q.used = pl.used /\ q.stale = pl.stale + pl.idle
      /\ pl.idle \in Nat /\ pl.used \in Nat /\ pl.stale \in Nat /\ PoolMin \in Nat /\ c \in Nat
      /\ d = c + PoolMin
  BY LimitsAssumption DEF PoolWhole, Pool
<1>2. pl.used + pl.stale <= n + c /\ n <= pl.used /\ pl.idle <= PoolMin
  BY DEF PoolWhole
<1>3. q \in Pool
  <2>1. pl.stale + pl.idle \in Nat
    BY <1>1
  <2> QED
    BY <2>1 DEF PoolWhole, Pool
<1> HIDE DEF q, c, d
<1>4. n <= q.used /\ q.used + q.stale <= n + d /\ q.idle <= PoolMin
  BY <1>1, <1>2
<1> QED
  BY <1>3, <1>4 DEF PoolWhole, q, d

(***************************************************************************)
(* What a step of one request changes of the sets that are counted         *)
(***************************************************************************)
LEMMA OneRequest ==
    ASSUME ConnInv, NEW r \in Request, NEW s \in Req, req' = [req EXCEPT ![r] = s]
    PROVE  /\ req' \in [Request -> Req] /\ req'[r] = s
           /\ \A q \in Request \ {r} : req'[q] = req[q]
  BY DEF ConnInv, TypeOK

\* A connection checked out by r.
LEMMA OutAdds ==
    ASSUME ConnInv, NEW r \in Request, NEW s \in Req, req' = [req EXCEPT ![r] = s],
           req[r].conn = "none", s.conn # "none"
    PROVE  \A p \in Process : Out(p)' = IF p = Proc[r] THEN Out(p) + 1 ELSE Out(p)
<1> SUFFICES ASSUME NEW p \in Process
             PROVE  Out(p)' = IF p = Proc[r] THEN Out(p) + 1 ELSE Out(p)
  OBVIOUS
<1>1. CASE p = Proc[r]
  <2>1. CheckedOut(p)' = CheckedOut(p) \cup {r} /\ r \notin CheckedOut(p)
    BY <1>1, OneRequest DEF CheckedOut
  <2> QED
    BY <1>1, <2>1, Finite, FS_AddElement DEF Out
<1>2. CASE p # Proc[r]
  <2>1. CheckedOut(p)' = CheckedOut(p)
    BY <1>2, OneRequest DEF CheckedOut
  <2> QED
    BY <1>2, <2>1 DEF Out
<1> QED
  BY <1>1, <1>2

\* A connection returned by r.
LEMMA OutDrops ==
    ASSUME ConnInv, NEW r \in Request, NEW s \in Req, req' = [req EXCEPT ![r] = s],
           req[r].conn # "none", s.conn = "none"
    PROVE  /\ Out(Proc[r]) \in Nat \ {0}
           /\ \A p \in Process : Out(p)' = IF p = Proc[r] THEN Out(p) - 1 ELSE Out(p)
<1>1. ASSUME NEW p \in Process, p = Proc[r]
      PROVE  Out(p)' = Out(p) - 1 /\ Out(p) \in Nat \ {0}
  <2>1. CheckedOut(p)' = CheckedOut(p) \ {r} /\ r \in CheckedOut(p)
    BY <1>1, OneRequest DEF CheckedOut
  <2>2. Out(p) # 0
    BY <2>1, Finite, FS_EmptySet DEF Out
  <2> QED
    BY <2>1, <2>2, Finite, FS_RemoveElement DEF Out
<1>2. ASSUME NEW p \in Process, p # Proc[r]
      PROVE  Out(p)' = Out(p)
  <2>1. CheckedOut(p)' = CheckedOut(p)
    BY <1>2, OneRequest DEF CheckedOut
  <2> QED
    BY <2>1 DEF Out
<1> QED
  BY <1>1, <1>2, ConnectionsAssumption

\* Connections stay checked out when no request takes or returns one.
LEMMA OutStays ==
    ASSUME ConnInv, NEW r \in Request, NEW s \in Req, req' = [req EXCEPT ![r] = s],
           req[r].conn = "none" <=> s.conn = "none"
    PROVE  \A p \in Process : Out(p)' = Out(p)
<1>1. \A p \in Process : CheckedOut(p)' = CheckedOut(p)
  BY OneRequest DEF CheckedOut
<1> QED
  BY <1>1 DEF Out

\* Only the limiter admits.
LEMMA AdmittedFalls ==
    ASSUME ConnInv, NEW r \in Request, NEW s \in Req, req' = [req EXCEPT ![r] = s],
           s.session = "none" \/ req[r].session # "none"
    PROVE  \A p \in Process : Cardinality(Admitted(p))' <= LockConnections
<1> SUFFICES ASSUME NEW p \in Process PROVE Cardinality(Admitted(p))' <= LockConnections
  OBVIOUS
<1>1. Admitted(p)' \in SUBSET Admitted(p)
  BY OneRequest DEF Admitted
<1>2. /\ Cardinality(Admitted(p)') \in Nat /\ Cardinality(Admitted(p)) \in Nat
      /\ Cardinality(Admitted(p)') <= Cardinality(Admitted(p))
      /\ Cardinality(Admitted(p)) <= LockConnections /\ LockConnections \in Nat
  BY <1>1, Finite, FS_Subset, FS_CardinalityType, LimitsAssumption DEF ConnInv
<1> QED
  BY <1>2

\* A step of one request that admits nobody, given what it does to the pools.
LEMMA RequestConn ==
    ASSUME ConnInv, NEW r \in Request, NEW s \in Req, req' = [req EXCEPT ![r] = s], Shape(s),
           s.session = "none" \/ req[r].session # "none",
           ready' \subseteq Process, restarts' = restarts,
           pool' = [p \in Process |-> pool'[p]],
           \A p \in Process : PoolWhole(pool'[p], Out(p)', restarts)
    PROVE  ConnInv'
<1>1. pool' \in [Process -> Pool]
  BY DEF PoolWhole
<1>2. TypeOK'
  BY <1>1, OneRequest DEF ConnInv, TypeOK
<1>3. \A q \in Request : Shape(req'[q])
  BY OneRequest DEF ConnInv
<1> QED
  BY <1>2, <1>3, AdmittedFalls DEF ConnInv, Shape, PoolWhole

(***************************************************************************)
(* The steps                                                               *)
(***************************************************************************)
LEMMA Requests ==
    ASSUME ConnInv, NEW r \in Request
    PROVE  /\ req[r] \in Req /\ Shape(req[r]) /\ NoReq \in Req /\ Shape(NoReq)
           /\ NoReq.session = "none" /\ NoReq.conn = "none"
           /\ Proc[r] \in Process /\ pool \in [Process -> Pool] /\ restarts \in Nat
           /\ ready \subseteq Process
  BY ConnectionsAssumption DEF ConnInv, TypeOK, NoReq, Req, Shape

\* What a step spends of the slots, from what it does to pools and connections.
LEMMA Account ==
    ASSUME ConnInv, NEW c \in Nat,
           \A p \in Process :
               /\ pool'[p] \in Pool /\ Out(p)' \in Nat
               /\ pool'[p].used + pool'[p].stale + Out(p)
                    <= pool[p].used + pool[p].stale + Out(p)' + c
    PROVE  Spends(c)
<1>1. ASSUME NEW p \in Process
      PROVE  (pool'[p].used - Out(p)') + pool'[p].stale
                 <= (pool[p].used - Out(p)) + pool[p].stale + c
  <2>1. /\ pool[p].used \in Nat /\ pool[p].stale \in Nat /\ Out(p) \in Nat
        /\ pool'[p].used \in Nat /\ pool'[p].stale \in Nat /\ Out(p)' \in Nat
    BY Requests, Finite DEF ConnInv, TypeOK, Pool
  <2> QED
    BY <2>1
<1> QED
  BY <1>1 DEF Spends, Lost, Out

\* A step that changes neither spends nothing.
LEMMA Unspent ==
    ASSUME ConnInv, pool' = pool, \A p \in Process : Out(p)' = Out(p)
    PROVE  Spends(0)
<1>1. ASSUME NEW p \in Process
      PROVE  /\ pool'[p] \in Pool /\ Out(p)' \in Nat
             /\ pool'[p].used + pool'[p].stale + Out(p)
                  <= pool[p].used + pool[p].stale + Out(p)' + 0
  <2>1. pool'[p] = pool[p] /\ pool[p] \in Pool /\ Out(p)' = Out(p) /\ Out(p) \in Nat
    BY Finite DEF ConnInv, TypeOK
  <2> QED
    BY <2>1 DEF Pool
<1> QED
  BY <1>1, Account

\* Steps that leave pools and connections alone and admit nobody.
LEMMA QuietConn ==
    ASSUME ConnInv, NEW r \in Request, NEW s \in Req, req' = [req EXCEPT ![r] = s], Shape(s),
           s.session = "none" \/ req[r].session # "none",
           req[r].conn = "none" <=> s.conn = "none",
           UNCHANGED <<ready, pool, restarts>>
    PROVE  ConnInv' /\ Spends(0)
<1>1. \A p \in Process : PoolWhole(pool'[p], Out(p)', restarts)
  BY OutStays DEF ConnInv
<1>2. pool' = [p \in Process |-> pool'[p]] /\ ready' \subseteq Process
  BY Requests
<1>3. Spends(0)
  BY OutStays, Unspent
<1> QED
  BY <1>1, <1>2, <1>3, RequestConn

\* A request that begins has neither session nor connection.
LEMMA BeginConn ==
    ASSUME ConnInv, NEW r \in Request, NEW l \in Lock \cup {None}, Begin(r, l)
    PROVE  ConnInv' /\ Spends(0)
<1> DEFINE pc == IF l = None THEN "work" ELSE "queue"
           s == [NoReq EXCEPT !.lock = l, !.left = 1, !.pc = pc]
<1>1. s \in Req /\ Shape(s) /\ s.session = "none" /\ s.conn = "none"
  <2>1. 1 \in 0 .. 1 /\ pc \in {"work", "queue"}
    OBVIOUS
  <2>2. NoReq \in Req /\ NoReq.session = "none" /\ NoReq.conn = "none"
    BY Requests
  <2> HIDE DEF pc
  <2>3. s \in Req /\ s.session = "none" /\ s.conn = "none" /\ s.pc = pc
    BY <2>1, <2>2 DEF Req
  <2> QED
    BY <2>1, <2>3 DEF Shape
<1>2. req' = [req EXCEPT ![r] = s] /\ req[r].pc = "idle" /\ UNCHANGED <<ready, pool, restarts>>
  BY DEF Begin
<1>3. req[r].conn = "none"
  BY <1>2, Requests DEF Shape, Req
<1> HIDE DEF s
<1> QED
  BY <1>1, <1>2, <1>3, QuietConn

\* The limiter admits one more while there is room.
LEMMA AskLockConn ==
    ASSUME ConnInv, NEW r \in Request, AskLock(r)
    PROVE  ConnInv' /\ Spends(0)
<1> DEFINE s == [req[r] EXCEPT !.pc = "ask", !.session = "open"]
<1>1. /\ req[r] \in Req /\ Shape(req[r]) /\ req[r].pc = "queue"
      /\ UNCHANGED <<ready, pool, restarts>>
  BY Requests DEF AskLock
<1>2. s \in Req /\ s.session = "open" /\ s.conn = req[r].conn /\ s.pc = "ask" /\ s.lock = req[r].lock
  BY <1>1 DEF Req
<1>3. Shape(s)
  BY <1>1, <1>2 DEF Shape
<1>4. req' = [req EXCEPT ![r] = s]
  BY DEF AskLock
<1> HIDE DEF s
<1>5. req' \in [Request -> Req] /\ req'[r] = s /\ \A q \in Request \ {r} : req'[q] = req[q]
  BY <1>2, <1>4, OneRequest
<1>6. ASSUME NEW p \in Process
      PROVE  Cardinality(Admitted(p))' <= LockConnections
  <2>1. Admitted(p)' \in SUBSET (Admitted(p) \cup {r}) /\ (p # Proc[r] => Admitted(p)' = Admitted(p))
    BY <1>5 DEF Admitted
  <2>2. CASE p = Proc[r]
    <3>1. Cardinality(Admitted(p)) < LockConnections
      BY <2>2 DEF AskLock, Permits
    <3>2. IsFiniteSet(Admitted(p) \cup {r})
          /\ Cardinality(Admitted(p) \cup {r}) <= Cardinality(Admitted(p)) + 1
      <4>1. IsFiniteSet(Admitted(p)) /\ Cardinality(Admitted(p)) \in Nat
        BY Finite
      <4>2. /\ IsFiniteSet(Admitted(p) \cup {r})
            /\ Cardinality(Admitted(p) \cup {r})
                 = IF r \in Admitted(p) THEN Cardinality(Admitted(p)) ELSE Cardinality(Admitted(p)) + 1
        BY <4>1, FS_AddElement
      <4> QED
        BY <4>1, <4>2
    <3>3. /\ Cardinality(Admitted(p)') <= Cardinality(Admitted(p) \cup {r})
          /\ Cardinality(Admitted(p)') \in Nat /\ Cardinality(Admitted(p) \cup {r}) \in Nat
      BY <2>1, <3>2, FS_Subset, FS_CardinalityType
    <3> QED
      BY <3>1, <3>2, <3>3, Finite, LimitsAssumption
  <2>3. CASE p # Proc[r]
    BY <2>1, <2>3 DEF ConnInv
  <2> QED
    BY <2>2, <2>3
<1>7. \A p \in Process : PoolWhole(pool[p], Out(p)', restarts)
  BY <1>2, <1>4, OutStays DEF ConnInv
<1>8. TypeOK'
  BY <1>1, <1>5 DEF ConnInv, TypeOK
<1>9. \A q \in Request : Shape(req'[q])
  BY <1>3, <1>5 DEF ConnInv
<1>10. Spends(0)
  BY <1>1, <1>2, <1>4, OutStays, Unspent
<1> QED
  BY <1>1, <1>6, <1>7, <1>8, <1>9, <1>10 DEF ConnInv, Shape, PoolWhole

\* Waking up, and the end of a request that has no connection.
LEMMA WakeConn ==
    ASSUME ConnInv, NEW r \in Request, GetLock(r) \/ Stored(r)
    PROVE  ConnInv' /\ Spends(0)
<1> DEFINE s == [req[r] EXCEPT !.pc = "work"]
<1>1. /\ req[r] \in Req /\ Shape(req[r]) /\ req[r].pc \in {"ask", "storage"}
      /\ req' = [req EXCEPT ![r] = s] /\ UNCHANGED <<ready, pool, restarts>>
  BY Requests DEF GetLock, Stored, Goto
<1>2. s \in Req /\ s.session = req[r].session /\ s.conn = req[r].conn /\ s.pc = "work"
  BY <1>1 DEF Req
<1>3. req[r].conn = "none" /\ Shape(s)
  BY <1>1, <1>2 DEF Shape
<1> HIDE DEF s
<1> QED
  BY <1>1, <1>2, <1>3, QuietConn

\* One that ends leaves neither.
LEMMA FinishConn ==
    ASSUME ConnInv, NEW r \in Request, req[r].conn = "none", Finish(r),
           UNCHANGED <<ready, pool, restarts>>
    PROVE  ConnInv' /\ Spends(0)
  BY Requests, QuietConn DEF Finish

\* connect_state_db hands out an idle connection or opens one.
LEMMA CheckOutConn ==
    ASSUME ConnInv, NEW r \in Request, Initialize(r) \/ Query(r)
    PROVE  ConnInv' /\ Spends(0)
<1>1. PICK pc \in {"schema", "query"} : req' = [req EXCEPT ![r].pc = pc, ![r].conn = "open"]
  BY DEF Initialize, Query
<1> DEFINE s == [req[r] EXCEPT !.pc = pc, !.conn = "open"]
           p == Proc[r]
<1>2. /\ req[r] \in Req /\ Shape(req[r]) /\ req[r].pc = "work" /\ CheckOut(p)
      /\ ready' = ready /\ restarts' = restarts /\ p \in Process
      /\ pool \in [Process -> Pool] /\ restarts \in Nat /\ ready \subseteq Process
  BY Requests DEF Initialize, Query
<1>3. /\ s \in Req /\ s.session = req[r].session /\ s.conn = "open" /\ s.pc = pc
      /\ req' = [req EXCEPT ![r] = s]
  BY <1>1, <1>2 DEF Req
<1>4. req[r].conn = "none" /\ Shape(s)
  BY <1>2, <1>3 DEF Shape
<1>5. PICK i \in {0, 1} : /\ i <= pool[p].idle
                          /\ pool' = [pool EXCEPT ![p] = [pool[p] EXCEPT !.idle = @ - i, !.used = @ + 1]]
  <2>1. pool[p] \in Pool
    BY <1>2
  <2>2. CASE pool[p].idle > 0 /\ pool' = [pool EXCEPT ![p].idle = @ - 1, ![p].used = @ + 1]
    <3>1. 1 <= pool[p].idle /\ 1 \in {0, 1}
      BY <2>1, <2>2 DEF Pool
    <3>2. pool' = [pool EXCEPT ![p] = [pool[p] EXCEPT !.idle = @ - 1, !.used = @ + 1]]
      BY <1>2, <2>2
    <3> QED
      BY <3>1, <3>2
  <2>3. CASE pool' = [pool EXCEPT ![p].used = @ + 1]
    <3>1. pool[p].idle - 0 = pool[p].idle /\ 0 <= pool[p].idle /\ 0 \in {0, 1}
      BY <2>1 DEF Pool
    <3>2. [pool[p] EXCEPT !.used = @ + 1]
          = [pool[p] EXCEPT !.idle = pool[p].idle - 0, !.used = @ + 1]
      BY <2>1, <3>1 DEF Pool
    <3>3. pool' = [pool EXCEPT ![p] = [pool[p] EXCEPT !.idle = @ - 0, !.used = @ + 1]]
      BY <1>2, <2>3, <3>2
    <3> QED
      BY <3>1, <3>3
  <2> QED
    BY <1>2, <2>2, <2>3 DEF CheckOut
<1> HIDE DEF s
<1>6. \A x \in Process : Out(x)' = IF x = p THEN Out(x) + 1 ELSE Out(x)
  BY <1>3, <1>4, OutAdds
<1>7. ASSUME NEW x \in Process
      PROVE  PoolWhole(pool'[x], Out(x)', restarts)
  <2>1. CASE x = p
    <3>1. /\ pool'[p] = [pool[p] EXCEPT !.idle = @ - i, !.used = @ + 1]
          /\ PoolWhole(pool[p], Out(p), restarts) /\ Out(p) \in Nat
      BY <1>2, <1>5, Finite DEF ConnInv
    <3>2. PoolWhole([pool[p] EXCEPT !.idle = @ - i, !.used = @ + 1], Out(p) + 1, restarts)
      BY <1>2, <1>5, <3>1, TakeWhole
    <3> QED
      BY <1>2, <1>6, <2>1, <3>1, <3>2
  <2>2. CASE x # p
    BY <1>2, <1>5, <1>6, <2>2 DEF ConnInv
  <2> QED
    BY <2>1, <2>2
<1>8. pool' = [x \in Process |-> pool'[x]]
  BY <1>2, <1>5
<1>9. Spends(0)
  <2>1. ASSUME NEW x \in Process
        PROVE  /\ pool'[x] \in Pool /\ Out(x)' \in Nat
               /\ pool'[x].used + pool'[x].stale + Out(x)
                    <= pool[x].used + pool[x].stale + Out(x)' + 0
    <3>1. /\ pool[x] \in Pool /\ pool'[x] \in Pool /\ Out(x) \in Nat
          /\ pool'[x].used = IF x = p THEN pool[x].used + 1 ELSE pool[x].used
          /\ pool'[x].stale = pool[x].stale
      BY <1>2, <1>5, <1>7, Finite DEF PoolWhole, Pool
    <3> QED
      BY <1>6, <3>1 DEF Pool
  <2> QED
    BY <2>1, Account
<1> QED
  BY <1>2, <1>3, <1>4, <1>7, <1>8, <1>9, RequestConn

\* _PostgresConnection.close gives the slot back, whatever became of the connection.
LEMMA ReturnConn ==
    ASSUME ConnInv, NEW r \in Request, req[r].conn # "none", Return(r),
           NEW s \in Req, req' = [req EXCEPT ![r] = s], Shape(s), s.conn = "none",
           s.session = "none" \/ req[r].session # "none",
           ready' \subseteq Process, restarts' = restarts
    PROVE  ConnInv' /\ Spends(0)
<1> DEFINE p == Proc[r]
<1>1. /\ p \in Process /\ pool \in [Process -> Pool] /\ restarts \in Nat
      /\ pool[p] \in Pool
  BY Requests
<1>2. PICK i \in {0, 1} :
          /\ i = 1 => pool[p].idle + pool[p].stale < PoolMin
          /\ pool' = [pool EXCEPT ![p] = [pool[p] EXCEPT !.used = @ - 1, !.idle = @ + i]]
  <2> DEFINE i == IF req[r].conn = "open" /\ pool[p].idle + pool[p].stale < PoolMin THEN 1 ELSE 0
  <2>1. i \in {0, 1} /\ (i = 1 => pool[p].idle + pool[p].stale < PoolMin)
    OBVIOUS
  <2>2. pool' = [pool EXCEPT ![p] = [pool[p] EXCEPT !.used = @ - 1, !.idle = @ + i]]
    BY <1>1 DEF Return, Pool
  <2> HIDE DEF i
  <2> QED
    BY <2>1, <2>2
<1>3. Out(p) \in Nat \ {0} /\ \A x \in Process : Out(x)' = IF x = p THEN Out(x) - 1 ELSE Out(x)
  BY OutDrops
<1>4. ASSUME NEW x \in Process
      PROVE  PoolWhole(pool'[x], Out(x)', restarts)
  <2>1. CASE x = p
    <3>1. /\ pool'[p] = [pool[p] EXCEPT !.used = @ - 1, !.idle = @ + i]
          /\ PoolWhole(pool[p], Out(p), restarts)
      BY <1>1, <1>2 DEF ConnInv
    <3>2. PoolWhole([pool[p] EXCEPT !.used = @ - 1, !.idle = @ + i], Out(p) - 1, restarts)
      BY <1>1, <1>2, <1>3, <3>1, ReturnWhole
    <3> QED
      BY <1>1, <1>3, <2>1, <3>1, <3>2
  <2>2. CASE x # p
    BY <1>1, <1>2, <1>3, <2>2 DEF ConnInv
  <2> QED
    BY <2>1, <2>2
<1>5. pool' = [x \in Process |-> pool'[x]]
  BY <1>1, <1>2
<1>6. Spends(0)
  <2>1. ASSUME NEW x \in Process
        PROVE  /\ pool'[x] \in Pool /\ Out(x)' \in Nat
               /\ pool'[x].used + pool'[x].stale + Out(x)
                    <= pool[x].used + pool[x].stale + Out(x)' + 0
    <3>1. /\ pool[x] \in Pool /\ pool'[x] \in Pool /\ Out(x) \in Nat
          /\ pool'[x].used = IF x = p THEN pool[x].used - 1 ELSE pool[x].used
          /\ pool'[x].stale = pool[x].stale
      BY <1>1, <1>2, <1>4, Finite DEF PoolWhole, Pool
    <3>2. x = p => pool[x].used \in Nat \ {0}
      BY <1>1, <1>3, <3>1 DEF ConnInv, PoolWhole, Pool
    <3> QED
      BY <1>3, <3>1, <3>2 DEF Pool
  <2> QED
    BY <2>1, Account
<1> QED
  BY <1>4, <1>5, <1>6, RequestConn

\* An answered query returns its connection.
LEMMA AnsweredConn ==
    ASSUME ConnInv, NEW r \in Request, Initialized(r) \/ Answered(r)
    PROVE  ConnInv' /\ Spends(0)
<1>1. /\ req[r] \in Req /\ Shape(req[r]) /\ req[r].conn = "open" /\ Return(r)
      /\ ready' \subseteq Process /\ restarts' = restarts
  BY Requests DEF Initialized, Answered
<1>2. ASSUME NEW pc \in {"work", "storage"}, NEW n \in {0, 1},
             req' = [req EXCEPT ![r] = [req[r] EXCEPT !.pc = pc, !.conn = "none", !.left = n]]
      PROVE  ConnInv' /\ Spends(0)
  <2> DEFINE s == [req[r] EXCEPT !.pc = pc, !.conn = "none", !.left = n]
  <2>1. s \in Req /\ s.session = req[r].session /\ s.conn = "none" /\ s.pc = pc
    <3>1. n \in 0 .. 1
      OBVIOUS
    <3> QED
      BY <1>1, <3>1 DEF Req
  <2>2. Shape(s)
    BY <2>1 DEF Shape
  <2> HIDE DEF s
  <2> QED
    BY <1>1, <1>2, <2>1, <2>2, ReturnConn DEF s
<1>3. CASE Initialized(r)
  <2>1. req[r].left \in {0, 1}
    BY <1>1 DEF Req
  <2>2. [req[r] EXCEPT !.pc = "work", !.conn = "none"]
        = [req[r] EXCEPT !.pc = "work", !.conn = "none", !.left = req[r].left]
    BY <1>1 DEF Req
  <2>3. req' = [req EXCEPT ![r] = [req[r] EXCEPT !.pc = "work", !.conn = "none"]]
    BY <1>1, <1>3 DEF Initialized
  <2> QED
    BY <1>2, <2>1, <2>2, <2>3
<1>4. CASE Answered(r)
  <2>1. CASE req[r].left = 0
    BY <1>1, <1>4, <2>1, Requests, ReturnConn DEF Answered, Finish
  <2>2. CASE req[r].left # 0
    <3>1. /\ req[r].left = 1
          /\ req' = [req EXCEPT ![r] = [req[r] EXCEPT !.pc = "storage", !.conn = "none", !.left = 0]]
      BY <1>1, <1>4, <2>2 DEF Answered, Req
    <3> QED
      BY <1>2, <3>1
  <2> QED
    BY <2>1, <2>2
<1> QED
  BY <1>3, <1>4

\* So does one that fails on a connection the server closed.
LEMMA BrokenConn ==
    ASSUME ConnInv, NEW r \in Request, Broken(r)
    PROVE  ConnInv' /\ Spends(0)
<1>1. CASE req[r].conn = "none"
  BY <1>1, FinishConn DEF Broken, Return
<1>2. CASE req[r].conn # "none"
  BY <1>2, Requests, ReturnConn DEF Broken, Finish
<1> QED
  BY <1>1, <1>2

\* The request ends; a stale connection keeps its slot.
LEMMA NoConnectionConn ==
    ASSUME ConnInv, NEW r \in Request, NoConnection(r)
    PROVE  ConnInv' /\ Spends(0)
<1> DEFINE p == Proc[r]
<1>1. /\ req[r].conn = "none" /\ Finish(r) /\ UNCHANGED <<ready, restarts>>
      /\ p \in Process /\ pool \in [Process -> Pool] /\ restarts \in Nat /\ ready \subseteq Process
  BY Requests DEF NoConnection, Shape
<1>2. CASE UNCHANGED pool
  BY <1>1, <1>2, FinishConn
<1>3. CASE LoseSlot(p)
  <2>1. /\ pool[p].stale > 0
        /\ pool' = [pool EXCEPT ![p] = [pool[p] EXCEPT !.stale = @ - 1, !.used = @ + 1]]
    BY <1>1, <1>3 DEF LoseSlot, Pool
  <2>2. \A x \in Process : Out(x)' = Out(x)
    BY <1>1, Requests, OutStays DEF Finish
  <2>3. ASSUME NEW x \in Process
        PROVE  PoolWhole(pool'[x], Out(x)', restarts)
    <3>1. CASE x = p
      <4>1. /\ pool'[p] = [pool[p] EXCEPT !.stale = @ - 1, !.used = @ + 1]
            /\ PoolWhole(pool[p], Out(p), restarts) /\ Out(p) \in Nat
        BY <1>1, <2>1, Finite DEF ConnInv
      <4> QED
        BY <1>1, <2>1, <2>2, <3>1, <4>1, LoseWhole
    <3>2. CASE x # p
      BY <1>1, <2>1, <2>2, <3>2 DEF ConnInv
    <3> QED
      BY <3>1, <3>2
  <2>4. pool' = [x \in Process |-> pool'[x]]
    BY <1>1, <2>1
  <2>5. ConnInv'
    BY <1>1, <2>3, <2>4, Requests, RequestConn DEF Finish
  <2>6. ASSUME NEW x \in Process
        PROVE  /\ pool'[x] \in Pool /\ Out(x)' \in Nat
               /\ pool'[x].used + pool'[x].stale + Out(x)
                    <= pool[x].used + pool[x].stale + Out(x)' + 0
    <3>1. /\ pool[x] \in Pool /\ pool'[x] \in Pool /\ Out(x) \in Nat
          /\ pool'[x].used = IF x = p THEN pool[x].used + 1 ELSE pool[x].used
          /\ pool'[x].stale = IF x = p THEN pool[x].stale - 1 ELSE pool[x].stale
      BY <1>1, <2>1, <2>3, Finite DEF PoolWhole, Pool
    <3> QED
      BY <2>2, <3>1 DEF Pool
  <2> QED
    BY <2>5, <2>6, Account
<1> QED
  BY <1>2, <1>3 DEF NoConnection

\* A restart.
LEMMA RestartConn ==
    ASSUME ConnInv, Restart
    PROVE  ConnInv' /\ Spends(PoolMin)
<1>1. /\ pool \in [Process -> Pool] /\ req \in [Request -> Req] /\ restarts \in 0 .. MaxRestarts
      /\ ready' = ready /\ restarts' = restarts + 1 /\ restarts < MaxRestarts
      /\ MaxRestarts \in Nat /\ restarts \in Nat
  <2>1. /\ pool \in [Process -> Pool] /\ req \in [Request -> Req] /\ restarts \in 0 .. MaxRestarts
        /\ MaxRestarts \in Nat
    BY ConnectionsAssumption DEF ConnInv, TypeOK
  <2>2. ready' = ready /\ restarts' = restarts + 1 /\ restarts < MaxRestarts
    BY DEF Restart
  <2> QED
    BY <2>1, <2>2
<1>2. ASSUME NEW r \in Request
      PROVE  /\ req'[r] \in Req /\ Shape(req'[r])
             /\ req'[r].conn = "none" <=> req[r].conn = "none"
             /\ req'[r].session = "none" <=> req[r].session = "none"
  <2> DEFINE s == [req[r] EXCEPT !.session = IF @ = "open" THEN "dead" ELSE @,
                                 !.conn = IF @ = "open" THEN "dead" ELSE @]
  <2>1. req'[r] = s /\ req[r] \in Req /\ Shape(req[r])
    BY <1>1 DEF Restart, ConnInv
  <2>2. /\ s \in Req /\ s.pc = req[r].pc
        /\ s.conn = "none" <=> req[r].conn = "none"
        /\ s.session = "none" <=> req[r].session = "none"
    BY <2>1 DEF Req
  <2> HIDE DEF s
  <2> QED
    BY <2>1, <2>2 DEF Shape
<1>3. \A p \in Process : Out(p)' = Out(p) /\ Cardinality(Admitted(p))' = Cardinality(Admitted(p))
  <2>1. \A p \in Process : CheckedOut(p)' = CheckedOut(p) /\ Admitted(p)' = Admitted(p)
    BY <1>2 DEF CheckedOut, Admitted
  <2> QED
    BY <2>1 DEF Out
<1>4. ASSUME NEW p \in Process
      PROVE  PoolWhole(pool'[p], Out(p)', restarts')
  <2>1. /\ pool'[p] = [pool[p] EXCEPT !.idle = 0, !.stale = @ + pool[p].idle]
        /\ PoolWhole(pool[p], Out(p), restarts) /\ Out(p) \in Nat
    BY <1>1, Finite DEF Restart, ConnInv
  <2>2. PoolWhole([pool[p] EXCEPT !.idle = 0, !.stale = @ + pool[p].idle], Out(p), restarts + 1)
    BY <1>1, <2>1, RestartWhole
  <2> QED
    BY <1>1, <1>3, <2>1, <2>2
<1>5. pool' \in [Process -> Pool]
  <2>1. pool' = [p \in Process |-> pool'[p]]
    BY DEF Restart
  <2> QED
    BY <1>4, <2>1 DEF PoolWhole
<1>6. req' \in [Request -> Req]
  <2>1. req' = [r \in Request |-> req'[r]]
    BY DEF Restart
  <2> QED
    BY <1>2, <2>1
<1>7. TypeOK'
  BY <1>1, <1>5, <1>6 DEF ConnInv, TypeOK
<1>8. ASSUME NEW p \in Process
      PROVE  /\ pool'[p] \in Pool /\ Out(p)' \in Nat
             /\ pool'[p].used + pool'[p].stale + Out(p)
                  <= pool[p].used + pool[p].stale + Out(p)' + PoolMin
  <2>1. /\ pool[p] \in Pool /\ pool'[p] \in Pool /\ Out(p) \in Nat /\ PoolMin \in Nat
        /\ pool'[p].used = pool[p].used /\ pool'[p].stale = pool[p].stale + pool[p].idle
        /\ pool[p].idle <= PoolMin
    BY <1>1, <1>5, Finite, LimitsAssumption DEF Restart, ConnInv, PoolWhole, Pool
  <2> QED
    BY <1>3, <2>1 DEF Pool
<1>9. Spends(PoolMin)
  BY <1>8, Account, LimitsAssumption
<1> QED
  BY <1>2, <1>3, <1>4, <1>7, <1>9 DEF ConnInv, Shape, PoolWhole

\* Every step keeps the pools whole, and only a restart spends slots.
LEMMA StepConn ==
    ASSUME ConnInv, [Next]_vars
    PROVE  ConnInv' /\ Spends(IF restarts' = restarts THEN 0 ELSE PoolMin)
<1> DEFINE c == IF restarts' = restarts THEN 0 ELSE PoolMin
<1>1. CASE UNCHANGED vars
  <2>1. ConnInv'
    BY <1>1 DEF vars, ConnInv, TypeOK, Shape, PoolWhole, Out, CheckedOut, Admitted
  <2>2. \A p \in Process : Out(p)' = Out(p)
    BY <1>1 DEF vars, Out, CheckedOut
  <2>3. Spends(0)
    BY <1>1, <2>2, Unspent DEF vars
  <2>4. c = 0
    BY <1>1 DEF vars
  <2> QED
    BY <2>1, <2>3, <2>4
<1>2. ASSUME NEW r \in Request, NEW l \in Lock \cup {None}, Begin(r, l)
      PROVE  ConnInv' /\ Spends(c)
  <2>1. c = 0
    BY <1>2 DEF Begin
  <2> QED
    BY <1>2, <2>1, BeginConn
<1>3. ASSUME NEW r \in Request, Step(r)
      PROVE  ConnInv' /\ Spends(c)
  <2>1. c = 0
    BY <1>3 DEF Step, AskLock, GetLock, Initialize, Initialized, Query, Answered, Stored,
                NoConnection, Broken
  <2>2. ConnInv' /\ Spends(0)
    BY <1>3, AskLockConn, WakeConn, CheckOutConn, AnsweredConn, NoConnectionConn, BrokenConn
       DEF Step
  <2> QED
    BY <2>1, <2>2
<1>4. ASSUME NEW r \in Request, Raise(r)
      PROVE  ConnInv' /\ Spends(c)
  <2>1. c = 0
    BY <1>4 DEF Raise
  <2>2. ConnInv' /\ Spends(0)
    BY <1>4, Requests, FinishConn DEF Raise, Shape
  <2> QED
    BY <2>1, <2>2
<1>5. CASE Restart
  <2>1. c = PoolMin
    <3>1. restarts \in 0 .. MaxRestarts /\ MaxRestarts \in Nat /\ restarts' = restarts + 1
      BY <1>5, ConnectionsAssumption DEF Restart, ConnInv, TypeOK
    <3>2. restarts' # restarts
      BY <3>1
    <3> QED
      BY <3>2
  <2> QED
    BY <1>5, <2>1, RestartConn
<1> QED
  BY <1>1, <1>2, <1>3, <1>4, <1>5 DEF Next

\* Pools start with their minimum and no request.
LEMMA InitConn == Init => ConnInv
<1> SUFFICES ASSUME Init PROVE ConnInv
  OBVIOUS
<1>1. \A r \in Request : req[r] = NoReq
  BY DEF Init
<1>2. NoReq \in Req /\ Shape(NoReq) /\ NoReq.conn = "none" /\ NoReq.session = "none"
  BY DEF NoReq, Req, Shape
<1>3. \A p \in Process : Out(p) = 0 /\ Cardinality(Admitted(p)) = 0
  <2>1. \A p \in Process : CheckedOut(p) = {} /\ Admitted(p) = {}
    BY <1>1, <1>2 DEF CheckedOut, Admitted
  <2> QED
    BY <2>1, FS_EmptySet DEF Out
<1>4. /\ \A p \in Process : pool[p] = [idle |-> PoolMin, stale |-> 0, used |-> 0]
      /\ PoolMin \in Nat /\ LockConnections \in Nat /\ restarts = 0 /\ 0 \in 0 .. MaxRestarts
  BY LimitsAssumption, ConnectionsAssumption DEF Init
<1>5. PoolWhole([idle |-> PoolMin, stale |-> 0, used |-> 0], 0, 0)
  BY <1>4 DEF PoolWhole, Pool
<1>6. TypeOK
  BY <1>2, <1>4 DEF Init, TypeOK, Pool
<1> QED
  BY <1>1, <1>2, <1>3, <1>4, <1>5, <1>6 DEF ConnInv

\* Pools, limiter and requests keep the invariant, for any number of workers.
THEOREM ConnectionsInductive == Spec => []ConnInv
  BY InitConn, StepConn, PTL DEF Spec

\* Pools, requests and counters stay well formed.
THEOREM ConnectionsTyped == Spec => []TypeOK
<1>1. ConnInv => TypeOK
  BY DEF ConnInv
<1> QED
  BY <1>1, ConnectionsInductive, PTL

\* With one lock connection for each process, the default, no process waits for a
\* lock of its own, nor two for each other's.
THEOREM WorkersNeverHang ==
    ASSUME LockConnections = 1
    PROVE  Spec => []NoHang
<1>1. ConnInv => NoHang
  <2> SUFFICES ASSUME ConnInv, NEW r \in Request, req[r].pc = "ask",
                      NEW h \in Holders(req[r].lock), Stopped(Proc[h])
               PROVE  FALSE
    BY DEF NoHang
  <2>1. PICK q \in Request : Proc[q] = Proc[h] /\ req[q].pc = "ask"
    BY DEF Stopped
  <2> DEFINE p == Proc[h]
  <2>2. /\ h \in Request /\ p \in Process /\ h \in Admitted(p) /\ q \in Admitted(p) /\ h # q
    BY <2>1, Requests DEF Holders, Admitted, Shape
  <2>3. Cardinality(Admitted(p)) <= 1 /\ IsFiniteSet(Admitted(p)) /\ Cardinality(Admitted(p)) \in Nat
    BY <2>2, Finite DEF ConnInv
  <2>4. Cardinality(Admitted(p)) # 0
    BY <2>2, <2>3, FS_EmptySet
  <2>5. Cardinality(Admitted(p)) = 1
    BY <2>3, <2>4
  <2>6. \E x : Admitted(p) = {x}
    BY <2>3, <2>5, FS_Singleton
  <2> QED
    BY <2>2, <2>6
<1> QED
  BY <1>1, ConnectionsInductive, PTL

\* A slot is lost only with a connection that a restart closed while it was idle,
\* and a restart closes at most PoolMin of those, whatever fails.
THEOREM RestartsCostTheMinimum == Spec => RestartCosts
  BY InitConn, StepConn, PTL DEF Spec, RestartCosts
=============================================================================
