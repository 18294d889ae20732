---------------------------- MODULE ScanRunProofs ----------------------------
(***************************************************************************)
(* Theorems of ScanRun: the scan lease holds for any number of processes,  *)
(* runs and repositories, and any timing.  The inductive invariant is      *)
(* LeaseInv; each step is taken apart into the step of the process (Proc), *)
(* of its run (the rows, their ages, what starting scans found) and of the *)
(* tables the invariant does not relate.                                   *)
(***************************************************************************)
EXTENDS ScanRunProps, TLAPS

\* The smaller of two numbers, for the page size and the naps.
LEMMA MinOfTwo ==
    ASSUME NEW m \in Nat, NEW n \in Nat
    PROVE  /\ Min({m, n}) \in {m, n}
           /\ Min({m, n}) <= m /\ Min({m, n}) <= n
<1>1. \E x \in {m, n} : \A y \in {m, n} : x <= y
  <2>1. m <= n \/ n <= m  OBVIOUS
  <2>2. CASE m <= n  BY <2>2
  <2>3. CASE n <= m  BY <2>3
  <2> QED  BY <2>1, <2>2, <2>3
<1> QED  BY <1>1 DEF Min

\* A process that goes on well typed leaves the processes well typed.
LEMMA GotoTyped ==
    ASSUME proc \in [Scanner -> Proc], NEW s \in Scanner, NEW next \in Proc, Goto(s, next)
    PROVE  /\ proc' \in [Scanner -> Proc]
           /\ \A x \in Scanner : x # s => proc'[x] = proc[x]
           /\ proc'[s].pc = next.pc /\ proc'[s].run = next.run /\ proc'[s].repo = next.repo
<1>1. [next EXCEPT !.busy = 0] \in Proc  BY DEF Proc
<1> QED  BY <1>1 DEF Goto, Proc

\* An idle process is well typed.
LEMMA IdleTyped ==
    ASSUME ScanAssumption
    PROVE  Idle \in Proc
BY DEF Idle, Proc, Zero, Count, Looping, ScanAssumption

\* And so is one that stops.
LEMMA StopTyped ==
    ASSUME ScanAssumption, proc \in [Scanner -> Proc], NEW s \in Scanner, Stop(s)
    PROVE  /\ proc' \in [Scanner -> Proc]
           /\ \A x \in Scanner : x # s => proc'[x] = proc[x]
           /\ proc'[s].pc = "idle"
BY IdleTyped DEF Stop, Idle

\* The locals of a process after one iteration of the loop (run_scan).
LEMMA VisitedTyped ==
    ASSUME NEW s \in Scanner, proc \in [Scanner -> Proc], Repo \subseteq Nat,
           NEW row \in [id: Repo, kind: Kinds]
    PROVE  /\ Visited(s, row) \in Proc
           /\ Visited(s, row).run = proc[s].run
           /\ Visited(s, row).pc \in {"match", "visit"}
           /\ Visited(s, row).pc = "match" => Visited(s, row).repo \in Repo
<1> DEFINE p == proc[s]
<1>1. p \in Proc  OBVIOUS
<1>2. p.count \in Count /\ p.page \in SUBSET [id: Repo, kind: Kinds]  BY <1>1 DEF Proc
<1>3. row.id \in Repo /\ row.id \in Nat  OBVIOUS
<1> DEFINE c1 == [p.count EXCEPT !.scanned = @ + 1]
           c2 == [c1 EXCEPT !.matched = IF row.kind = "spam" THEN @ + 1 ELSE @]
<1>4. c1 \in Count  BY <1>2 DEF Count
<1>5. c2 \in Count
  <2> HIDE DEF c1
  <2>1. (IF row.kind = "spam" THEN c1.matched + 1 ELSE c1.matched) \in Nat
    BY <1>4 DEF Count
  <2> QED  BY <1>4, <2>1 DEF Count
<1> DEFINE next == [p EXCEPT !.page = @ \ {row}, !.last = row.id, !.count = c2,
                             !.repo = IF row.kind = "spam" THEN row.id ELSE None,
                             !.pc = IF row.kind = "spam" THEN "match" ELSE "visit"]
<1>6. Visited(s, row) = next  BY <1>1, <1>2 DEF Visited, Proc, Count
<1>7. next \in Proc
  <2>1. p.page \ {row} \in SUBSET [id: Repo, kind: Kinds]  BY <1>2
  <2>2. (IF row.kind = "spam" THEN row.id ELSE None) \in Repo \cup {None}  BY <1>3
  <2>3. (IF row.kind = "spam" THEN "match" ELSE "visit") \in {"match", "visit"}  OBVIOUS
  <2> HIDE DEF c2, c1
  <2> QED  BY <1>1, <1>3, <1>5, <2>1, <2>2, <2>3 DEF Proc, Looping
<1>8. /\ next.run = p.run
      /\ next.pc = IF row.kind = "spam" THEN "match" ELSE "visit"
      /\ next.repo = IF row.kind = "spam" THEN row.id ELSE None
  BY <1>1 DEF Proc
<1> HIDE DEF next
<1> QED  BY <1>3, <1>6, <1>7, <1>8

\* The step of a process as the invariant sees it: well typed, with its run and
\* the repository in hand known where they are needed.
ProcOK(p) ==
    /\ p \in Proc
    /\ p.pc \in Looping \cup {"failing"} => p.run \in Run
    /\ p.pc \in {"match", "flag"} => p.repo \in Repo

\* A process that goes on leaves every process as the invariant wants it.
LEMMA GotoKeeps ==
    ASSUME LeaseInv, NEW s \in Scanner, NEW next, ProcOK(next), Goto(s, next)
    PROVE  proc' \in [Scanner -> Proc] /\ InHand'
<1>1. proc \in [Scanner -> Proc] /\ next \in Proc  BY DEF LeaseInv, TypeOK, ProcOK
<1>2. /\ proc' \in [Scanner -> Proc]
      /\ \A x \in Scanner : x # s => proc'[x] = proc[x]
      /\ proc'[s].pc = next.pc /\ proc'[s].run = next.run /\ proc'[s].repo = next.repo
  BY <1>1, GotoTyped
<1>3. ASSUME NEW x \in Scanner
      PROVE  /\ proc'[x].pc \in Looping \cup {"failing"} => proc'[x].run \in Run
             /\ proc'[x].pc \in {"match", "flag"} => proc'[x].repo \in Repo
  <2>1. CASE x = s  BY <1>2, <2>1 DEF ProcOK
  <2>2. CASE x # s  BY <1>2, <2>2 DEF LeaseInv, InHand
  <2> QED  BY <2>1, <2>2
<1> QED  BY <1>2, <1>3 DEF InHand

\* So does a process that stops.
LEMMA StopKeeps ==
    ASSUME ScanAssumption, LeaseInv, NEW s \in Scanner, Stop(s)
    PROVE  proc' \in [Scanner -> Proc] /\ InHand'
<1>1. proc \in [Scanner -> Proc]  BY DEF LeaseInv, TypeOK
<1>2. /\ proc' \in [Scanner -> Proc]
      /\ \A x \in Scanner : x # s => proc'[x] = proc[x]
      /\ proc'[s].pc = "idle"
  BY <1>1, StopTyped
<1>3. ASSUME NEW x \in Scanner
      PROVE  /\ proc'[x].pc \in Looping \cup {"failing"} => proc'[x].run \in Run
             /\ proc'[x].pc \in {"match", "flag"} => proc'[x].repo \in Repo
  <2>1. CASE x = s  BY <1>2, <2>1 DEF Looping
  <2>2. CASE x # s  BY <1>2, <2>2 DEF LeaseInv, InHand
  <2> QED  BY <2>1, <2>2
<1> QED  BY <1>2, <1>3 DEF InHand

\* heartbeat_scan_run: the heartbeat is new and no starting scan may recover the
\* run any more; or the lease is lost.
LEMMA RenewKeeps ==
    ASSUME ScanAssumption, LeaseInv, NEW s \in Scanner, proc[s].pc \in Looping,
           NEW next, ProcOK(next), Renew(s, next), owed' \in [Scanner -> SUBSET Repo]
    PROVE  LeaseInv'
<1>1. UNCHANGED <<run, match, record, review, kind, phase>>  BY DEF Renew
<1>2. proc[s] \in Proc /\ ProcOK(proc[s])
  BY DEF LeaseInv, TypeOK, ProcOK, InHand
<1>3. CASE /\ Holds(s)
           /\ age' = [age EXCEPT ![proc[s].run] = 0]
           /\ stale' = [x \in Scanner |-> stale[x] \ {proc[s].run}]
           /\ Goto(s, [next EXCEPT !.since = 0])
  <2>1. ProcOK([next EXCEPT !.since = 0])  BY DEF ProcOK, Proc
  <2>2. proc' \in [Scanner -> Proc] /\ InHand'  BY <1>3, <2>1, GotoKeeps
  <2>3. age' \in [Run -> 0 .. Timeout]
    <3>1. 0 \in 0 .. Timeout  BY DEF ScanAssumption
    <3> QED  BY <1>3, <3>1 DEF LeaseInv, TypeOK
  <2>4. stale' \in [Scanner -> SUBSET Run]  BY <1>3 DEF LeaseInv, TypeOK
  <2>5. TypeOK'  BY <1>1, <2>2, <2>3, <2>4 DEF LeaseInv, TypeOK
  <2>6. StaleStayOld'
    <3> SUFFICES ASSUME NEW x \in Scanner, NEW r \in stale'[x]
                 PROVE  run'[r].status # "none" /\ (r \in Running' => age'[r] = Timeout)
      BY DEF StaleStayOld
    <3>1. r \in stale[x] /\ r # proc[s].run  BY <1>3
    <3>2. r \in Run /\ age \in [Run -> 0 .. Timeout]  BY <3>1 DEF LeaseInv, TypeOK
    <3>3. age'[r] = age[r]  BY <1>3, <3>1, <3>2
    <3> QED  BY <1>1, <3>1, <3>3 DEF LeaseInv, StaleStayOld, Running
  <2>7. OneRunning'  BY <1>1 DEF LeaseInv, OneRunning, Running
  <2> QED  BY <2>2, <2>5, <2>6, <2>7 DEF LeaseInv
<1>4. CASE /\ ~Holds(s)
           /\ Goto(s, [proc[s] EXCEPT !.pc = "failing"])
           /\ UNCHANGED <<age, stale>>
  <2>1. ProcOK([proc[s] EXCEPT !.pc = "failing"])
    BY <1>2 DEF ProcOK, Proc, Looping
  <2>2. proc' \in [Scanner -> Proc] /\ InHand'  BY <1>4, <2>1, GotoKeeps
  <2>3. TypeOK'  BY <1>1, <1>4, <2>2 DEF LeaseInv, TypeOK
  <2>4. StaleStayOld'  BY <1>1, <1>4 DEF LeaseInv, StaleStayOld, Running
  <2>5. OneRunning'  BY <1>1 DEF LeaseInv, OneRunning, Running
  <2> QED  BY <2>2, <2>3, <2>4, <2>5 DEF LeaseInv
<1> QED  BY <1>3, <1>4 DEF Renew

\* A step that leaves the rows of the runs, their ages and what starting scans
\* found alone.
LEMMA LocalKeeps ==
    ASSUME LeaseInv, proc' \in [Scanner -> Proc], InHand',
           UNCHANGED <<run, age, stale, phase>>,
           match' \in [Run -> SUBSET Repo], record' \in [Run -> SUBSET Repo],
           review' \in [Repo -> Review], kind' \in [Repo -> Kinds],
           owed' \in [Scanner -> SUBSET Repo]
    PROVE  LeaseInv'
<1>1. TypeOK'  BY DEF LeaseInv, TypeOK
<1>2. OneRunning'  BY DEF LeaseInv, OneRunning, Running
<1>3. StaleStayOld'  BY DEF LeaseInv, StaleStayOld, Running
<1> QED  BY <1>1, <1>2, <1>3 DEF LeaseInv

\* update_scan_run ends a running run and touches no other.
LEMMA UpdatedKeeps ==
    ASSUME LeaseInv, NEW r, NEW status \in Ended, NEW count \in Count,
           Updated(r, status, count)
    PROVE  /\ run' \in [Run -> RunRow]
           /\ Running' \subseteq Running
           /\ \A q \in Run : run[q].status # "none" => run'[q].status # "none"
           /\ \A q \in Run : q # r \/ q \notin Running => run'[q] = run[q]
<1>1. run \in [Run -> RunRow]  BY DEF LeaseInv, TypeOK
<1>2. [status |-> status, count |-> count] \in RunRow  BY DEF RunRow, Ended
<1>3. status \notin {"none", "running"}  BY DEF Ended
<1>4. CASE r \in Running /\ run' = [run EXCEPT ![r] = [status |-> status, count |-> count]]
  BY <1>1, <1>2, <1>3, <1>4 DEF Running
<1>5. CASE run' = run  BY <1>1, <1>5 DEF Running
<1> QED  BY <1>4, <1>5 DEF Updated

\* Complete and Fail: a step that ends a run and leaves ages and tables alone.
LEMMA EndingKeeps ==
    ASSUME LeaseInv, proc' \in [Scanner -> Proc], InHand',
           NEW r, NEW status \in Ended, NEW count \in Count, Updated(r, status, count),
           UNCHANGED <<age, match, record, review, kind, stale, owed, phase>>
    PROVE  LeaseInv'
<1>1. /\ run' \in [Run -> RunRow]
      /\ Running' \subseteq Running
      /\ \A q \in Run : run[q].status # "none" => run'[q].status # "none"
  BY UpdatedKeeps
<1>2. TypeOK'  BY <1>1 DEF LeaseInv, TypeOK
<1>3. OneRunning'  BY <1>1 DEF LeaseInv, OneRunning
<1>4. StaleStayOld'
  <2> SUFFICES ASSUME NEW x \in Scanner, NEW q \in stale'[x]
               PROVE  run'[q].status # "none" /\ (q \in Running' => age'[q] = Timeout)
    BY DEF StaleStayOld
  <2>1. q \in stale[x] /\ q \in Run  BY DEF LeaseInv, TypeOK
  <2>2. run[q].status # "none" /\ (q \in Running => age[q] = Timeout)
    BY <2>1 DEF LeaseInv, StaleStayOld
  <2> QED  BY <1>1, <2>1, <2>2
<1> QED  BY <1>2, <1>3, <1>4 DEF LeaseInv

\* create_scan_run: what was recovered had a stale heartbeat, and the index admits
\* the new row only beside ended ones.
LEMMA CreateRunKeeps ==
    ASSUME ScanAssumption, LeaseInv, NEW s \in Scanner, NEW r \in Run, CreateRun(s, r)
    PROVE  LeaseInv'
<1> DEFINE recovered == stale[s] \cap Running
           others == Running \ recovered
<1>1. /\ run \in [Run -> RunRow] /\ age \in [Run -> 0 .. Timeout]
      /\ proc[s] \in Proc /\ stale \in [Scanner -> SUBSET Run]
      /\ owed \in [Scanner -> SUBSET Repo]
  BY DEF LeaseInv, TypeOK
<1>2. UNCHANGED <<match, record, review, kind, phase>> /\ stale' = [stale EXCEPT ![s] = {}]
  BY DEF CreateRun
<1>3. CASE /\ Admits(others) /\ NextRun(r)
           /\ run' = [q \in Run |->
                  IF q \in recovered THEN [run[q] EXCEPT !.status = "failed"]
                  ELSE IF q = r THEN [run[q] EXCEPT !.status = "running"]
                  ELSE run[q]]
           /\ age' = [age EXCEPT ![r] = proc[s].late]
           /\ owed' = [owed EXCEPT ![s] = {p \in Repo : kind[p] # "out"}]
           /\ Goto(s, [proc[s] EXCEPT !.pc = "top", !.run = r])
  <2>1. ASSUME NEW q \in Run
        PROVE  /\ run'[q] \in RunRow
               /\ q # r => run'[q].status # "running"
               /\ run[q].status # "none" => run'[q].status # "none"
    <3>0. run[q] \in RunRow  BY <1>1
    <3>1. CASE q \in recovered
      <4>1. run'[q] = [run[q] EXCEPT !.status = "failed"]  BY <1>3, <3>1
      <4> QED  BY <3>0, <4>1 DEF RunRow, Ended
    <3>2. CASE q \notin recovered /\ q = r
      <4>1. run'[q] = [run[q] EXCEPT !.status = "running"]  BY <1>3, <3>2
      <4> QED  BY <3>0, <3>2, <4>1 DEF RunRow
    <3>3. CASE q \notin recovered /\ q # r
      <4>1. run'[q] = run[q]  BY <1>3, <3>3
      <4>2. q \notin Running  BY <1>3, <3>3 DEF Admits
      <4> QED  BY <3>0, <4>1, <4>2 DEF Running
    <3> QED  BY <3>1, <3>2, <3>3
  <2>2. run' \in [Run -> RunRow]
    <3> HIDE DEF recovered, others
    <3> QED  BY <1>3, <2>1
  <2>3. OneRunning'  BY <2>1 DEF OneRunning, Running
  <2>4. proc[s].late \in 0 .. Timeout
    <3>1. proc[s].late \in 0 .. StartDelay  BY <1>1 DEF Proc
    <3>2. StartDelay \in Nat /\ Timeout \in Nat /\ StartDelay < Timeout
      BY DEF ScanAssumption
    <3> QED  BY <3>1, <3>2
  <2>5. age' \in [Run -> 0 .. Timeout]  BY <1>1, <1>3, <2>4
  <2>6. ProcOK([proc[s] EXCEPT !.pc = "top", !.run = r])
    BY <1>1 DEF ProcOK, Proc, Looping
  <2>7. proc' \in [Scanner -> Proc] /\ InHand'  BY <1>3, <2>6, GotoKeeps
  <2>8. TypeOK'
    <3>1. stale' \in [Scanner -> SUBSET Run]  BY <1>1, <1>2
    <3>2. owed' \in [Scanner -> SUBSET Repo]  BY <1>1, <1>3
    <3> QED  BY <1>2, <2>2, <2>5, <2>7, <3>1, <3>2 DEF LeaseInv, TypeOK
  <2>9. StaleStayOld'
    <3> SUFFICES ASSUME NEW x \in Scanner, NEW q \in stale'[x]
                 PROVE  run'[q].status # "none" /\ (q \in Running' => age'[q] = Timeout)
      BY DEF StaleStayOld
    <3>1. q \in stale[x]  BY <1>1, <1>2
    <3>2. q \in Run  BY <1>1, <3>1
    <3>3. run[q].status # "none"  BY <3>1 DEF LeaseInv, StaleStayOld
    <3>4. q # r  BY <1>3, <3>3 DEF NextRun
    <3> QED  BY <2>1, <3>2, <3>3, <3>4 DEF Running
  <2> QED  BY <2>3, <2>7, <2>8, <2>9 DEF LeaseInv
<1>4. CASE ~Admits(others) /\ Stop(s) /\ UNCHANGED <<run, age, owed>>
  <2>1. proc' \in [Scanner -> Proc] /\ InHand'  BY <1>4, StopKeeps
  <2>2. TypeOK'
    <3>1. stale' \in [Scanner -> SUBSET Run]  BY <1>1, <1>2
    <3> QED  BY <1>2, <1>4, <2>1, <3>1 DEF LeaseInv, TypeOK
  <2>3. OneRunning'  BY <1>4 DEF LeaseInv, OneRunning, Running
  <2>4. StaleStayOld'
    <3>1. \A x \in Scanner : stale'[x] \subseteq stale[x]  BY <1>1, <1>2
    <3> QED  BY <1>4, <3>1 DEF LeaseInv, StaleStayOld, Running
  <2> QED  BY <2>1, <2>2, <2>3, <2>4 DEF LeaseInv
<1> QED  BY <1>3, <1>4 DEF CreateRun

\* A scan begins: what it finds stale has a row and the oldest age there is.
LEMMA BeginScanKeeps ==
    ASSUME ScanAssumption, LeaseInv, NEW s \in Scanner, NEW budget \in Budgets,
           NEW dry \in DryRuns, BeginScan(s, budget, dry)
    PROVE  LeaseInv'
<1>1. /\ age \in [Run -> 0 .. Timeout] /\ stale \in [Scanner -> SUBSET Run]
      /\ proc \in [Scanner -> Proc]
  BY DEF LeaseInv, TypeOK
<1>2. ProcOK([Idle EXCEPT !.pc = "start", !.budget = budget, !.dry = dry])
  <2>1. Idle \in Proc /\ budget \in Nat /\ dry \in BOOLEAN
    BY IdleTyped DEF ScanAssumption
  <2> QED  BY <2>1 DEF ProcOK, Proc, Looping
<1>3. proc' \in [Scanner -> Proc] /\ InHand'  BY <1>2, GotoKeeps DEF BeginScan
<1>4. /\ stale' = [stale EXCEPT ![s] = {r \in Running : age[r] >= Timeout}]
      /\ UNCHANGED <<run, age, match, record, review, kind, owed, phase>>
  BY DEF BeginScan
<1>5. stale' \in [Scanner -> SUBSET Run]  BY <1>1, <1>4 DEF Running
<1>6. TypeOK'  BY <1>3, <1>4, <1>5 DEF LeaseInv, TypeOK
<1>7. StaleStayOld'
  <2> SUFFICES ASSUME NEW x \in Scanner, NEW r \in stale'[x]
               PROVE  run[r].status # "none" /\ (r \in Running => age[r] = Timeout)
    BY <1>4 DEF StaleStayOld, Running
  <2>1. CASE x = s
    <3>1. r \in Running /\ age[r] >= Timeout  BY <1>1, <1>4, <2>1
    <3>2. r \in Run /\ run[r].status = "running"  BY <3>1 DEF Running
    <3>3. age[r] \in 0 .. Timeout /\ Timeout \in Nat  BY <1>1, <3>2 DEF ScanAssumption
    <3> QED  BY <3>1, <3>2, <3>3
  <2>2. CASE x # s
    <3>1. r \in stale[x]  BY <1>1, <1>4, <2>2
    <3> QED  BY <3>1 DEF LeaseInv, StaleStayOld
  <2> QED  BY <2>1, <2>2
<1>8. OneRunning'  BY <1>4 DEF LeaseInv, OneRunning, Running
<1> QED  BY <1>3, <1>6, <1>7, <1>8 DEF LeaseInv

\* One repository of a page, with the renewal that is due.
LEMMA VisitKeeps ==
    ASSUME ScanAssumption, LeaseInv, NEW s \in Scanner,
           NEW row \in [id: Repo, kind: Kinds], Visit(s, row)
    PROVE  LeaseInv'
<1>1. /\ proc \in [Scanner -> Proc] /\ owed \in [Scanner -> SUBSET Repo]
      /\ proc[s].pc = "visit" /\ Repo \subseteq Nat
  BY DEF LeaseInv, TypeOK, Visit, ScanAssumption
<1>2. proc[s].run \in Run  BY <1>1 DEF LeaseInv, InHand, Looping
<1>3. ProcOK(Visited(s, row))
  <2>1. /\ Visited(s, row) \in Proc
        /\ Visited(s, row).run = proc[s].run
        /\ Visited(s, row).pc \in {"match", "visit"}
        /\ Visited(s, row).pc = "match" => Visited(s, row).repo \in Repo
    BY <1>1, VisitedTyped
  <2> QED  BY <1>2, <2>1 DEF ProcOK
<1>4. owed' \in [Scanner -> SUBSET Repo]
  <2>1. owed' = [owed EXCEPT ![s] = IF proc'[s].pc = "failing" THEN owed[s]
                                    ELSE owed[s] \ {row.id}]
    BY DEF Visit
  <2>2. (IF proc'[s].pc = "failing" THEN owed[s] ELSE owed[s] \ {row.id}) \in SUBSET Repo
    BY <1>1
  <2> QED  BY <1>1, <2>1, <2>2
<1>5. CASE Renew(s, Visited(s, row))
  <2>1. proc[s].pc \in Looping  BY <1>1 DEF Looping
  <2> QED  BY <1>3, <1>4, <1>5, <2>1, RenewKeeps
<1>6. CASE /\ Goto(s, Visited(s, row))
           /\ UNCHANGED <<run, age, match, record, review, kind, stale, phase>>
  <2>1. proc' \in [Scanner -> Proc] /\ InHand'  BY <1>3, <1>6, GotoKeeps
  <2> QED  BY <1>4, <1>6, <2>1, LocalKeeps DEF LeaseInv, TypeOK
<1> QED  BY <1>5, <1>6 DEF Visit

\* The steps of the loop that only move the process on.
LEMMA LoopKeeps ==
    ASSUME ScanAssumption, LeaseInv, NEW s \in Scanner, Fetch(s) \/ EndPage(s)
    PROVE  LeaseInv'
<1>1. proc[s] \in Proc  BY DEF LeaseInv, TypeOK
<1>2. proc[s].run \in Run  BY DEF LeaseInv, InHand, Looping, Fetch, EndPage
<1>3. UNCHANGED <<run, age, match, record, review, kind, stale, owed, phase>>
  BY DEF Fetch, EndPage
<1>4. CASE Fetch(s)
  <2> DEFINE next == [proc[s] EXCEPT !.page = NextPage(s),
                          !.pc = IF NextPage(s) = {} THEN "finish" ELSE "visit"]
  <2>1. NextPage(s) \in SUBSET [id: Repo, kind: Kinds]
    <3>1. \A p \in Repo : [id |-> p, kind |-> kind[p]] \in [id: Repo, kind: Kinds]
      BY DEF LeaseInv, TypeOK
    <3>2. \A row \in NextPage(s) : \E p \in Repo : row = [id |-> p, kind |-> kind[p]]
      BY DEF NextPage
    <3>3. ASSUME NEW row \in NextPage(s)  PROVE row \in [id: Repo, kind: Kinds]
      <4>1. PICK p \in Repo : row = [id |-> p, kind |-> kind[p]]  BY <3>2
      <4> QED  BY <3>1, <4>1
    <3> QED  BY <3>3
  <2>2. ProcOK(next)  BY <1>1, <1>2, <2>1 DEF ProcOK, Proc, Looping
  <2>3. Goto(s, next)  BY <1>4 DEF Fetch
  <2> HIDE DEF next
  <2>4. proc' \in [Scanner -> Proc] /\ InHand'  BY <2>2, <2>3, GotoKeeps
  <2> QED  BY <1>3, <2>4, LocalKeeps DEF LeaseInv, TypeOK
<1>5. CASE EndPage(s)
  <2> DEFINE next == [proc[s] EXCEPT !.pc = IF Sleep > 0 THEN "nap" ELSE "top",
                                     !.nap = Sleep]
  <2>1. ProcOK(next)  BY <1>1, <1>2 DEF ProcOK, Proc, Looping, ScanAssumption
  <2>2. Goto(s, next)  BY <1>5 DEF EndPage
  <2> HIDE DEF next
  <2>3. proc' \in [Scanner -> Proc] /\ InHand'  BY <2>1, <2>2, GotoKeeps
  <2> QED  BY <1>3, <2>3, LocalKeeps DEF LeaseInv, TypeOK
<1> QED  BY <1>4, <1>5

\* The renewals between pages and within a pause.
LEMMA RenewalsKeep ==
    ASSUME ScanAssumption, LeaseInv, NEW s \in Scanner, RenewAtTop(s) \/ RenewAfterNap(s)
    PROVE  LeaseInv'
<1>1. proc[s] \in Proc /\ owed' \in [Scanner -> SUBSET Repo]
  BY DEF LeaseInv, TypeOK, RenewAtTop, RenewAfterNap
<1>2. proc[s].pc \in Looping  BY DEF RenewAtTop, RenewAfterNap, Looping
<1>3. proc[s].run \in Run  BY <1>2 DEF LeaseInv, InHand
<1>4. CASE RenewAtTop(s)
  <2> DEFINE next == [proc[s] EXCEPT
           !.pc = IF proc[s].budget # 0 /\ proc[s].budget <= proc[s].count.scanned
                  THEN "finish" ELSE "fetch"]
  <2>1. ProcOK(next)  BY <1>1, <1>3 DEF ProcOK, Proc, Looping
  <2>2. Renew(s, next)  BY <1>4 DEF RenewAtTop
  <2> HIDE DEF next
  <2> QED  BY <1>1, <1>2, <2>1, <2>2, RenewKeeps
<1>5. CASE RenewAfterNap(s)
  <2> DEFINE next == [proc[s] EXCEPT !.nap = @ - Nap(s),
                                !.pc = IF proc[s].nap > Nap(s) THEN "nap" ELSE "top"]
  <2>1. proc[s].nap \in Nat  BY <1>1 DEF Proc
  <2>2. HeartbeatInterval \in Nat
    <3>1. Timeout * Second \in Nat /\ 30 * Second \in Nat  BY DEF ScanAssumption
    <3>2. (Timeout * Second) \div 3 \in Nat  BY <3>1
    <3> QED  BY <3>1, <3>2, MinOfTwo DEF HeartbeatInterval
  <2>3. Nap(s) \in Nat /\ Nap(s) <= proc[s].nap  BY <2>1, <2>2, MinOfTwo DEF Nap
  <2>4. proc[s].nap - Nap(s) \in Nat  BY <2>1, <2>3
  <2>5. ProcOK(next)  BY <1>1, <1>3, <2>4 DEF ProcOK, Proc, Looping
  <2>6. Renew(s, next)  BY <1>5 DEF RenewAfterNap
  <2> HIDE DEF next
  <2> QED  BY <1>1, <1>2, <2>5, <2>6, RenewKeeps
<1> QED  BY <1>4, <1>5

\* add_scan_match and create_flagged_record.
LEMMA WritesKeep ==
    ASSUME ScanAssumption, LeaseInv, NEW s \in Scanner, AddMatch(s) \/ FlagMatch(s)
    PROVE  LeaseInv'
<1>1. proc[s] \in Proc /\ review \in [Repo -> Review]  BY DEF LeaseInv, TypeOK
<1>2. proc[s].run \in Run /\ proc[s].repo \in Repo
  BY DEF LeaseInv, InHand, Looping, AddMatch, FlagMatch
<1>3. UNCHANGED <<run, age, kind, stale, owed, phase>>  BY DEF AddMatch, FlagMatch
<1>4. CASE AddMatch(s)
  <2> DEFINE next == [proc[s] EXCEPT !.pc = IF proc[s].dry THEN "visit" ELSE "flag"]
  <2>1. ProcOK(next)  BY <1>1, <1>2 DEF ProcOK, Proc, Looping
  <2>2. Goto(s, next)  BY <1>4 DEF AddMatch
  <2> HIDE DEF next
  <2>3. proc' \in [Scanner -> Proc] /\ InHand'  BY <2>1, <2>2, GotoKeeps
  <2>4. UNCHANGED <<record, review>>  BY <1>4 DEF AddMatch
  <2>5. match' \in [Run -> SUBSET Repo]
    BY <1>2, <1>4 DEF AddMatch, LeaseInv, TypeOK
  <2> QED  BY <1>3, <2>3, <2>4, <2>5, LocalKeeps DEF LeaseInv, TypeOK
<1>5. CASE FlagMatch(s)
  <2> DEFINE outcome == review[proc[s].repo]
             count == Counted(proc[s].count, outcome)
             next == [proc[s] EXCEPT !.pc = "visit", !.count = count]
  <2>1. proc[s].count \in Count /\ outcome \in Review  BY <1>1, <1>2 DEF Proc
  <2>2. count \in Count
    <3>1. CASE outcome = "free"
      <4>1. count = [proc[s].count EXCEPT !.flagged = @ + 1]  BY <3>1 DEF Counted
      <4> QED  BY <2>1, <4>1 DEF Count
    <3>2. CASE outcome = "open"
      <4>1. count = proc[s].count  BY <3>2 DEF Counted
      <4> QED  BY <2>1, <4>1
    <3>3. CASE outcome = "suppressed"
      <4>1. count = [proc[s].count EXCEPT !.skipped = @ + 1]  BY <3>3 DEF Counted
      <4> QED  BY <2>1, <4>1 DEF Count
    <3> QED  BY <2>1, <3>1, <3>2, <3>3 DEF Review
  <2>3. Goto(s, next)  BY <1>5 DEF FlagMatch
  <2> HIDE DEF count
  <2>4. ProcOK(next)  BY <1>1, <1>2, <2>2 DEF ProcOK, Proc, Looping
  <2> HIDE DEF next
  <2>5. proc' \in [Scanner -> Proc] /\ InHand'  BY <2>3, <2>4, GotoKeeps
  <2>6. match' = match /\ record' \in [Run -> SUBSET Repo]
    BY <1>2, <1>5 DEF FlagMatch, LeaseInv, TypeOK
  <2>7. review' \in [Repo -> Review]
    BY <1>2, <1>5 DEF FlagMatch, LeaseInv, TypeOK, Review
  <2> QED  BY <1>3, <2>5, <2>6, <2>7, LocalKeeps DEF LeaseInv, TypeOK
<1> QED  BY <1>4, <1>5

\* The end of a scan: its run completes or fails.
LEMMA EndsKeep ==
    ASSUME ScanAssumption, LeaseInv, NEW s \in Scanner, Complete(s) \/ Fail(s)
    PROVE  LeaseInv'
<1>1. proc[s] \in Proc  BY DEF LeaseInv, TypeOK
<1>2. proc[s].run \in Run  BY DEF LeaseInv, InHand, Looping, Complete, Fail
<1>3. proc[s].count \in Count  BY <1>1 DEF Proc
<1>4. ProcOK([proc[s] EXCEPT !.pc = "failing"])  BY <1>1, <1>2 DEF ProcOK, Proc, Looping
<1>5. CASE Complete(s)
  <2>1. \/ Stop(s) \/ Goto(s, [proc[s] EXCEPT !.pc = "failing"])  BY <1>5 DEF Complete
  <2>2. proc' \in [Scanner -> Proc] /\ InHand'  BY <1>4, <2>1, GotoKeeps, StopKeeps
  <2>3. /\ Updated(proc[s].run, "completed", proc[s].count)
        /\ UNCHANGED <<age, match, record, review, kind, stale, owed, phase>>
    BY <1>5 DEF Complete
  <2>4. "completed" \in Ended  BY DEF Ended
  <2> QED  BY <1>3, <2>2, <2>3, <2>4, EndingKeeps
<1>6. CASE Fail(s)
  <2>1. proc' \in [Scanner -> Proc] /\ InHand'  BY <1>6, StopKeeps DEF Fail
  <2>2. /\ Updated(proc[s].run, "failed", proc[s].count)
        /\ UNCHANGED <<age, match, record, review, kind, stale, owed, phase>>
    BY <1>6 DEF Fail
  <2>3. "failed" \in Ended  BY DEF Ended
  <2> QED  BY <1>3, <2>1, <2>2, <2>3, EndingKeeps
<1> QED  BY <1>5, <1>6

\* An exception or the death of the process.
LEMMA FaultsKeep ==
    ASSUME ScanAssumption, LeaseInv, NEW s \in Scanner, Raise(s) \/ Crash(s)
    PROVE  LeaseInv'
<1>1. proc[s] \in Proc  BY DEF LeaseInv, TypeOK
<1>2. CASE Raise(s)
  <2>1. proc[s].run \in Run  BY <1>2 DEF LeaseInv, InHand, Raise
  <2>2. ProcOK([proc[s] EXCEPT !.pc = "failing"])  BY <1>1, <2>1 DEF ProcOK, Proc, Looping
  <2>3. proc' \in [Scanner -> Proc] /\ InHand'  BY <1>2, <2>2, GotoKeeps DEF Raise
  <2>4. UNCHANGED <<run, age, match, kind, stale, owed, phase>>  BY <1>2 DEF Raise
  <2>5. /\ record' \in [Run -> SUBSET Repo]
        /\ review' \in [Repo -> Review]
    <3>1. CASE UNCHANGED <<record, review>>  BY <3>1 DEF LeaseInv, TypeOK
    <3>2. CASE /\ proc[s].pc = "flag"
               /\ record' = [record EXCEPT ![proc[s].run] = @ \cup {proc[s].repo}]
               /\ review' = [review EXCEPT ![proc[s].repo] = "open"]
      <4>1. proc[s].repo \in Repo  BY <3>2 DEF LeaseInv, InHand
      <4> QED  BY <2>1, <3>2, <4>1 DEF LeaseInv, TypeOK, Review
    <3> QED  BY <1>2, <3>1, <3>2 DEF Raise
  <2> QED  BY <2>3, <2>4, <2>5, LocalKeeps DEF LeaseInv, TypeOK
<1>3. CASE Crash(s)
  <2>1. proc' \in [Scanner -> Proc] /\ InHand'  BY <1>3, StopKeeps DEF Crash
  <2>2. /\ stale' = [stale EXCEPT ![s] = {}]
        /\ UNCHANGED <<run, age, match, record, review, kind, owed, phase>>
    BY <1>3 DEF Crash
  <2>3. /\ stale' \in [Scanner -> SUBSET Run]
        /\ \A x \in Scanner : stale'[x] \subseteq stale[x]
    BY <2>2 DEF LeaseInv, TypeOK
  <2>4. TypeOK'  BY <2>1, <2>2, <2>3 DEF LeaseInv, TypeOK
  <2>5. StaleStayOld'  BY <2>2, <2>3 DEF LeaseInv, StaleStayOld, Running
  <2>6. OneRunning'  BY <2>2 DEF LeaseInv, OneRunning, Running
  <2> QED  BY <2>1, <2>4, <2>5, <2>6 DEF LeaseInv
<1> QED  BY <1>2, <1>3

\* What happens to repositories and their reviews meanwhile.
LEMMA WorldKeeps ==
    ASSUME ScanAssumption, LeaseInv, NEW p \in Repo,
           (\E k \in Kinds : RepositoryBecomes(p, k)) \/ Decide(p)
    PROVE  LeaseInv'
<1>1. /\ review \in [Repo -> Review] /\ kind \in [Repo -> Kinds]
      /\ owed \in [Scanner -> SUBSET Repo]
  BY DEF LeaseInv, TypeOK
<1>2. UNCHANGED <<run, age, match, record, proc, stale, phase>>
  BY DEF RepositoryBecomes, Decide
<1>3. InHand' /\ proc' \in [Scanner -> Proc]
  BY <1>2 DEF LeaseInv, TypeOK, InHand
<1>4. review' \in [Repo -> Review]  BY <1>1 DEF RepositoryBecomes, Decide, Review
<1>5. kind' \in [Repo -> Kinds] /\ owed' \in [Scanner -> SUBSET Repo]
  BY <1>1 DEF RepositoryBecomes, Decide
<1> QED  BY <1>2, <1>3, <1>4, <1>5, LocalKeeps DEF LeaseInv, TypeOK

\* Time passes: ages only grow, up to the timeout.
LEMMA TickKeeps ==
    ASSUME ScanAssumption, LeaseInv, Tick
    PROVE  LeaseInv'
<1> DEFINE boundary == phase = Second - 1
<1>1. /\ age \in [Run -> 0 .. Timeout] /\ proc \in [Scanner -> Proc]
      /\ stale \in [Scanner -> SUBSET Run] /\ phase \in 0 .. Second - 1
      /\ Timeout \in Nat /\ Second \in Nat \ {0} /\ StartDelay \in Nat
  BY DEF LeaseInv, TypeOK, ScanAssumption
<1>2. UNCHANGED <<run, match, record, review, kind, stale, owed>>  BY DEF Tick
<1>3. age' = [r \in Run |-> IF boundary /\ r \in Running THEN Aged(age[r], Timeout)
                            ELSE age[r]]
  BY DEF Tick
<1>4. ASSUME NEW r \in Run
      PROVE  age'[r] \in 0 .. Timeout /\ (age[r] = Timeout => age'[r] = Timeout)
  <2>1. age[r] \in 0 .. Timeout  BY <1>1
  <2>2. Aged(age[r], Timeout) \in 0 .. Timeout
        /\ (age[r] = Timeout => Aged(age[r], Timeout) = Timeout)
    BY <1>1, <2>1 DEF Aged
  <2> QED  BY <1>3, <2>1, <2>2
<1>5. age' \in [Run -> 0 .. Timeout]  BY <1>3, <1>4
<1>6. phase' \in 0 .. Second - 1
  <2>1. phase' = (phase + 1) % Second  BY DEF Tick
  <2>2. phase + 1 \in Nat  BY <1>1
  <2> QED  BY <1>1, <2>1, <2>2
<1>7. ASSUME NEW s \in Scanner
      PROVE  \/ proc'[s] \in Proc /\ UNCHANGED <<proc[s].pc, proc[s].run, proc[s].repo>>
             \/ proc'[s] = Idle
  <2>1. proc[s] \in Proc  BY <1>1
  <2>2. CASE proc[s].pc = "idle"  BY <2>2 DEF Tick
  <2>3. CASE proc[s].pc # "idle"
    <3>1. PICK since, busy, late :
              /\ since = Aged(proc[s].since, HeartbeatInterval)
              /\ busy = Aged(proc[s].busy, StepLimit(s))
              /\ late = IF boundary /\ proc[s].pc = "start" THEN proc[s].late + 1
                        ELSE proc[s].late
      OBVIOUS
    <3>2. proc'[s] = [proc[s] EXCEPT !.since = since, !.busy = busy, !.late = late]
      BY <2>3, <3>1 DEF Tick
    <3>3. since \in Nat /\ busy \in Nat  BY <2>1, <3>1 DEF Proc, Aged
    <3>4. late \in 0 .. StartDelay
      <4>1. proc[s].late \in 0 .. StartDelay  BY <2>1 DEF Proc
      <4>2. boundary /\ proc[s].pc = "start" => proc[s].late < StartDelay  BY DEF Tick
      <4> QED  BY <1>1, <3>1, <4>1, <4>2
    <3> QED  BY <2>1, <3>2, <3>3, <3>4 DEF Proc
  <2> QED  BY <2>2, <2>3
<1>8. proc' \in [Scanner -> Proc]
  <2>1. \A s \in Scanner : proc'[s] \in Proc  BY <1>7, IdleTyped
  <2>2. proc' = [s \in Scanner |-> proc'[s]]  BY DEF Tick
  <2> QED  BY <2>1, <2>2
<1>9. InHand'
  <2> SUFFICES ASSUME NEW s \in Scanner
               PROVE  /\ proc'[s].pc \in Looping \cup {"failing"} => proc'[s].run \in Run
                      /\ proc'[s].pc \in {"match", "flag"} => proc'[s].repo \in Repo
    BY DEF InHand
  <2>1. CASE UNCHANGED <<proc[s].pc, proc[s].run, proc[s].repo>>
    BY <2>1 DEF LeaseInv, InHand
  <2>2. CASE proc'[s] = Idle  BY <2>2 DEF Idle, Looping
  <2> QED  BY <1>7, <2>1, <2>2
<1>10. TypeOK'  BY <1>2, <1>5, <1>6, <1>8 DEF LeaseInv, TypeOK
<1>11. OneRunning'  BY <1>2 DEF LeaseInv, OneRunning, Running
<1>12. StaleStayOld'
  <2> SUFFICES ASSUME NEW x \in Scanner, NEW r \in stale[x]
               PROVE  run[r].status # "none" /\ (r \in Running => age'[r] = Timeout)
    BY <1>2 DEF StaleStayOld, Running
  <2>1. r \in Run  BY <1>1
  <2>2. run[r].status # "none" /\ (r \in Running => age[r] = Timeout)
    BY DEF LeaseInv, StaleStayOld
  <2> QED  BY <1>4, <2>1, <2>2
<1> QED  BY <1>9, <1>10, <1>11, <1>12 DEF LeaseInv

\* A state database without scans, and processes at rest.
LEMMA LeaseInit ==
    ASSUME ScanAssumption, Init
    PROVE  LeaseInv
<1>1. [status |-> "none", count |-> Zero] \in RunRow  BY DEF RunRow, Zero, Count
<1>2. 0 \in 0 .. Timeout /\ 0 \in 0 .. Second - 1  BY DEF ScanAssumption
<1>3. TypeOK  BY <1>1, <1>2, IdleTyped DEF Init, TypeOK
<1>4. Running = {}  BY DEF Init, Running
<1>5. OneRunning  BY <1>4 DEF OneRunning
<1>6. StaleStayOld  BY DEF Init, StaleStayOld
<1>7. InHand  BY DEF Init, InHand, Idle, Looping
<1> QED  BY <1>3, <1>5, <1>6, <1>7 DEF LeaseInv

\* Every step of the code, of the repositories and of the clocks keeps the lease.
LEMMA LeaseStep ==
    ASSUME ScanAssumption, LeaseInv, [Next]_vars
    PROVE  LeaseInv'
<1>1. ASSUME NEW s \in Scanner, Begins(s)  PROVE LeaseInv'
  BY <1>1, BeginScanKeeps DEF Begins
<1>2. ASSUME NEW s \in Scanner, NEW r \in Run, CreateRun(s, r)  PROVE LeaseInv'
  BY <1>2, CreateRunKeeps
<1>3. ASSUME NEW s \in Scanner, RenewAtTop(s) \/ RenewAfterNap(s)  PROVE LeaseInv'
  BY <1>3, RenewalsKeep
<1>4. ASSUME NEW s \in Scanner, Fetch(s) \/ EndPage(s)  PROVE LeaseInv'
  BY <1>4, LoopKeeps
<1>5. ASSUME NEW s \in Scanner, NEW row \in [id: Repo, kind: Kinds], Visit(s, row)
      PROVE LeaseInv'
  BY <1>5, VisitKeeps
<1>6. ASSUME NEW s \in Scanner, AddMatch(s) \/ FlagMatch(s)  PROVE LeaseInv'
  BY <1>6, WritesKeep
<1>7. ASSUME NEW s \in Scanner, Complete(s) \/ Fail(s)  PROVE LeaseInv'
  BY <1>7, EndsKeep
<1>8. ASSUME NEW s \in Scanner, Raise(s) \/ Crash(s)  PROVE LeaseInv'
  BY <1>8, FaultsKeep
<1>9. ASSUME NEW p \in Repo, (\E k \in Kinds : RepositoryBecomes(p, k)) \/ Decide(p)
      PROVE LeaseInv'
  BY <1>9, WorldKeeps
<1>10. CASE Tick  BY <1>10, TickKeeps
<1>11. CASE UNCHANGED vars
  BY <1>11 DEF vars, LeaseInv, TypeOK, OneRunning, Running, StaleStayOld, InHand
<1> QED
  BY <1>1, <1>2, <1>3, <1>4, <1>5, <1>6, <1>7, <1>8, <1>9, <1>10, <1>11 DEF Next, Code

\* The lease invariant holds in every reachable state: one run is running, and
\* only runs past the timeout wait to be recovered (create_scan_run).
THEOREM LeaseInductive == Spec => []LeaseInv
<1>1. Init => LeaseInv  BY LeaseInit, ScanAssumption
<1>2. LeaseInv /\ [Next]_vars => LeaseInv'  BY LeaseStep, ScanAssumption
<1> QED  BY <1>1, <1>2, PTL DEF Spec

\* At most one run is running, whatever stalls, crashes and recoveries happen
\* (spam_scan_run_one_running_idx).
THEOREM OneRunningRun == Spec => []OneRunning
<1>1. LeaseInv => OneRunning  BY DEF LeaseInv
<1> QED  BY <1>1, LeaseInductive, PTL

\* What one step may do to the row of a run: create it, end a running one, or
\* fail one whose heartbeat is as old as the timeout.
RowStep(r) ==
    \/ run'[r] = run[r]
    \/ run[r].status = "none"
    \/ /\ r \in Running
       /\ \/ run'[r].status = "completed"
          \/ age[r] = Timeout
          \/ \E s \in Scanner : proc[s].pc = "failing" /\ proc[s].run = r

\* Every step of the program does no more than that to any row.
LEMMA RowsStep ==
    ASSUME LeaseInv, [Next]_vars, NEW r \in Run
    PROVE  RowStep(r)
<1>0. run \in [Run -> RunRow]  BY DEF LeaseInv, TypeOK
<1>1. ASSUME NEW s \in Scanner, NEW new \in Run, CreateRun(s, new)  PROVE RowStep(r)
  <2> DEFINE recovered == stale[s] \cap Running
             others == Running \ recovered
  <2>1. CASE UNCHANGED run  BY <2>1 DEF RowStep
  <2>2. CASE /\ NextRun(new)
             /\ run' = [q \in Run |->
                    IF q \in recovered THEN [run[q] EXCEPT !.status = "failed"]
                    ELSE IF q = new THEN [run[q] EXCEPT !.status = "running"]
                    ELSE run[q]]
    <3>1. CASE r \in recovered
      <4>1. age[r] = Timeout /\ r \in Running  BY <3>1 DEF LeaseInv, StaleStayOld
      <4> QED  BY <4>1 DEF RowStep
    <3>2. CASE r \notin recovered /\ r = new  BY <2>2, <3>2 DEF NextRun, RowStep
    <3>3. CASE r \notin recovered /\ r # new
      <4> HIDE DEF recovered
      <4>1. run'[r] = run[r]  BY <2>2, <3>3
      <4> QED  BY <4>1 DEF RowStep
    <3> QED  BY <3>1, <3>2, <3>3
  <2> QED  BY <1>1, <2>1, <2>2 DEF CreateRun
<1>2. ASSUME NEW s \in Scanner, Complete(s)  PROVE RowStep(r)
  <2>1. Updated(proc[s].run, "completed", proc[s].count)  BY <1>2 DEF Complete
  <2>2. CASE run' = run  BY <2>2 DEF RowStep
  <2>3. CASE /\ proc[s].run \in Running
             /\ run' = [run EXCEPT ![proc[s].run] =
                            [status |-> "completed", count |-> proc[s].count]]
    <3>1. CASE r = proc[s].run
      <4>1. run'[r] = [status |-> "completed", count |-> proc[s].count]
        BY <1>0, <2>3, <3>1
      <4> QED  BY <2>3, <3>1, <4>1 DEF RowStep
    <3>2. CASE r # proc[s].run  BY <1>0, <2>3, <3>2 DEF RowStep
    <3> QED  BY <3>1, <3>2
  <2> QED  BY <2>1, <2>2, <2>3 DEF Updated
<1>3. ASSUME NEW s \in Scanner, Fail(s)  PROVE RowStep(r)
  <2>1. /\ Updated(proc[s].run, "failed", proc[s].count)
        /\ proc[s].pc = "failing"
    BY <1>3 DEF Fail
  <2>2. CASE run' = run  BY <2>2 DEF RowStep
  <2>3. CASE /\ proc[s].run \in Running
             /\ run' = [run EXCEPT ![proc[s].run] =
                            [status |-> "failed", count |-> proc[s].count]]
    <3>1. CASE r = proc[s].run  BY <2>1, <2>3, <3>1 DEF RowStep
    <3>2. CASE r # proc[s].run  BY <1>0, <2>3, <3>2 DEF RowStep
    <3> QED  BY <3>1, <3>2
  <2> QED  BY <2>1, <2>2, <2>3 DEF Updated
<1>4. ASSUME UNCHANGED run  PROVE RowStep(r)  BY <1>4 DEF RowStep
<1>5. ASSUME NEW s \in Scanner, Begins(s) \/ Raise(s) \/ Crash(s)  PROVE UNCHANGED run
  BY <1>5 DEF Begins, BeginScan, Raise, Crash
<1>6. ASSUME NEW s \in Scanner, RenewAtTop(s) \/ RenewAfterNap(s)  PROVE UNCHANGED run
  BY <1>6 DEF RenewAtTop, RenewAfterNap, Renew
<1>7. ASSUME NEW s \in Scanner, Fetch(s) \/ EndPage(s) \/ AddMatch(s) \/ FlagMatch(s)
      PROVE UNCHANGED run
  BY <1>7 DEF Fetch, EndPage, AddMatch, FlagMatch
<1>8. ASSUME NEW s \in Scanner, NEW row \in [id: Repo, kind: Kinds], Visit(s, row)
      PROVE UNCHANGED run
  BY <1>8 DEF Visit, Renew
<1>9. ASSUME NEW p \in Repo, (\E k \in Kinds : RepositoryBecomes(p, k)) \/ Decide(p)
      PROVE UNCHANGED run
  BY <1>9 DEF RepositoryBecomes, Decide
<1>10. CASE Tick  BY <1>4, <1>10 DEF Tick
<1>11. CASE UNCHANGED vars  BY <1>4, <1>11 DEF vars
<1> QED
  BY <1>1, <1>2, <1>3, <1>4, <1>5, <1>6, <1>7, <1>8, <1>9, <1>10, <1>11 DEF Next, Code

\* Every variable keeps its type: counters are numbers, cursors are within the pages
\* of the repositories, ages within the timeout (run_scan and its locals).
THEOREM ScanTyped == Spec => []TypeOK
<1>1. LeaseInv => TypeOK  BY DEF LeaseInv
<1> QED  BY <1>1, LeaseInductive, PTL

\* The status and counters of a run that ended are never rewritten, not even by
\* its own process when the run was recovered under it (update_scan_run).
THEOREM EndedForGood == Spec => EndedRunsKeep
<1>1. LeaseInv /\ [Next]_vars =>
        [\A r \in Run : run[r].status \in Ended => run'[r] = run[r]]_vars
  BY RowsStep DEF RowStep, Running, Ended
<1> QED  BY <1>1, LeaseInductive, PTL DEF Spec, EndedRunsKeep

\* A run is failed by another process only when its heartbeat is as old as the
\* timeout at that moment: the UPDATE of create_scan_run compares it again.
THEOREM RecoveredWhenStale == Spec => OnlyStaleAreRecovered
<1>1. ASSUME LeaseInv, [Next]_vars, NEW r \in Running
      PROVE  \/ run'[r].status # "failed"
             \/ age[r] >= Timeout
             \/ \E s \in Scanner : proc[s].pc = "failing" /\ proc[s].run = r
  <2>1. r \in Run /\ run[r].status = "running"  BY DEF Running
  <2>2. RowStep(r)  BY <1>1, <2>1, RowsStep
  <2>3. Timeout >= Timeout  BY ScanAssumption DEF ScanAssumption
  <2> QED  BY <2>1, <2>2, <2>3 DEF RowStep
<1>2. LeaseInv /\ [Next]_vars =>
        [\A r \in Running :
            \/ run'[r].status # "failed"
            \/ age[r] >= Timeout
            \/ \E s \in Scanner : proc[s].pc = "failing" /\ proc[s].run = r]_vars
  BY <1>1
<1> QED  BY <1>2, LeaseInductive, PTL DEF Spec, OnlyStaleAreRecovered

==============================================================================
