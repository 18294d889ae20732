-------------------------- MODULE ScanProgressProofs --------------------------
(***************************************************************************)
(* A scan that makes progress keeps its lease, for any settings that leave *)
(* room for it (Punctual), any number of processes and pauses of any       *)
(* length.  ProgressInv relates the clocks of a process, which count       *)
(* ticks, to the age of its heartbeat, which counts second boundaries.     *)
(***************************************************************************)
EXTENDS ScanReportsProofs

(***************************************************************************)
(* Clocks                                                                  *)
(***************************************************************************)
\* Products are ordered as their factors.
LEMMA ProductsOrdered ==
    ASSUME NEW m \in Nat, NEW n \in Nat, NEW k \in Nat, m * k < n * k
    PROVE  m < n
<1> SUFFICES ASSUME n <= m  PROVE FALSE  OBVIOUS
<1>1. PICK d \in Nat : m = n + d
  <2>1. m - n \in Nat /\ m = n + (m - n)  OBVIOUS
  <2> QED  BY <2>1
<1>2. m * k = n * k + d * k  BY <1>1
<1>3. n * k \in Nat /\ d * k \in Nat  OBVIOUS
<1> QED  BY <1>2, <1>3

\* A heartbeat is due at least every tick of a positive interval.
LEMMA IntervalPositive ==
    ASSUME ScanAssumption
    PROVE  HeartbeatInterval \in Nat \ {0}
<1>1. PICK t \in Nat : t = Timeout * Second /\ t >= 3  BY DEF ScanAssumption
<1>2. t \div 3 \in Nat \ {0}  BY <1>1
<1>3. 30 * Second \in Nat \ {0}  BY DEF ScanAssumption
<1> QED  BY <1>1, <1>2, <1>3, MinOfTwo DEF HeartbeatInterval

\* What is slept at a time is no more than an interval, nor than a pause is long.
LEMMA NapPiece ==
    ASSUME ScanAssumption, NEW s \in Scanner, proc[s].nap \in Nat, proc[s].nap <= Sleep
    PROVE  /\ Nap(s) \in Nat /\ Nap(s) <= proc[s].nap
           /\ Nap(s) <= Min({Sleep, HeartbeatInterval})
<1>1. HeartbeatInterval \in Nat /\ Sleep \in Nat  BY IntervalPositive DEF ScanAssumption
<1>2. /\ Nap(s) \in {proc[s].nap, HeartbeatInterval}
      /\ Nap(s) <= proc[s].nap /\ Nap(s) <= HeartbeatInterval
  BY <1>1, MinOfTwo DEF Nap
<1>3. Min({Sleep, HeartbeatInterval}) \in {Sleep, HeartbeatInterval}  BY <1>1, MinOfTwo
<1> QED  BY <1>1, <1>2, <1>3

\* The room Punctual leaves at each point of the loop.
LEMMA RoomAtEachPoint ==
    ASSUME ScanAssumption, Punctual, NEW s \in Scanner, proc[s] \in Proc,
           proc[s].nap <= Sleep, proc[s].pc \in Looping
    PROVE  Arrival[proc[s].pc] + StepLimit(s) + Second <= Timeout * Second
<1>0. PICK H, N, T : H = HeartbeatInterval /\ N = Min({Sleep, H}) /\ T = Timeout * Second
  OBVIOUS
<1>1. /\ H \in Nat \ {0} /\ Slack \in Nat /\ Second \in Nat /\ T \in Nat
      /\ Sleep \in Nat /\ proc[s].nap \in Nat
  BY <1>0, IntervalPositive DEF ScanAssumption, Proc
<1>2. N \in Nat  BY <1>0, <1>1, MinOfTwo
<1>3. H - 1 + 4 * Slack + N + Second <= T  BY <1>0 DEF Punctual
<1>4. Nap(s) \in Nat /\ Nap(s) <= N  BY <1>0, <1>1, NapPiece
<1>5. Arrival[proc[s].pc] + StepLimit(s) + Second <= T
  <2>1. CASE proc[s].pc = "nap"
    <3>1. Arrival[proc[s].pc] = H - 1 + 3 * Slack  BY <1>0, <2>1 DEF Arrival
    <3>2. StepLimit(s) = Slack + Nap(s)  BY <2>1 DEF StepLimit
    <3> QED  BY <1>1, <1>2, <1>3, <1>4, <3>1, <3>2
  <2>2. CASE proc[s].pc # "nap"
    <3>1. StepLimit(s) = Slack  BY <1>1, <2>2 DEF StepLimit
    <3>2. PICK A \in {0, Slack, H - 1, H - 1 + Slack, H - 1 + 2 * Slack, H - 1 + 3 * Slack} :
              A = Arrival[proc[s].pc]
      BY <1>0, <2>2 DEF Arrival, Looping
    <3>3. A \in Int /\ A <= H - 1 + 3 * Slack  BY <1>1
    <3> QED  BY <1>1, <1>2, <1>3, <3>1, <3>2, <3>3
  <2> QED  BY <2>1, <2>2
<1> QED  BY <1>0, <1>5

\* A heartbeat in the loop is younger than the timeout.
LEMMA HeartbeatYoung ==
    ASSUME ScanAssumption, Punctual, LeaseInv, ProgressInv, NEW s \in Scanner,
           proc[s].pc \in Looping
    PROVE  age[proc[s].run] # Timeout
<1> DEFINE a == age[proc[s].run]
           A == Arrival[proc[s].pc]
<1>1. /\ proc[s] \in Proc /\ a \in Nat /\ phase \in Nat /\ Timeout \in Nat
      /\ Second \in Nat \ {0} /\ proc[s].busy \in Nat
  <2>1. proc[s] \in Proc /\ proc[s].run \in Run /\ age \in [Run -> 0 .. Timeout]
        /\ phase \in 0 .. Second - 1
    BY DEF LeaseInv, TypeOK, InHand
  <2>2. Timeout \in Nat /\ Second \in Nat \ {0}  BY DEF ScanAssumption
  <2>3. a \in 0 .. Timeout  BY <2>1
  <2>4. proc[s].busy \in Nat  BY <2>1 DEF Proc
  <2> QED  BY <2>1, <2>2, <2>3, <2>4
<1>2. /\ Elapsed(s) < A + proc[s].busy + Second
      /\ proc[s].busy <= StepLimit(s) /\ proc[s].nap <= Sleep
  BY DEF ProgressInv, Timely
<1>3. A + StepLimit(s) + Second <= Timeout * Second  BY <1>1, <1>2, RoomAtEachPoint
<1>4. Elapsed(s) = a * Second + phase  BY DEF Elapsed, Looping
<1>5. a * Second \in Nat /\ Timeout * Second \in Nat  BY <1>1
<1>6. A \in Int /\ StepLimit(s) \in Nat
  <2>1. HeartbeatInterval \in Nat /\ Slack \in Nat /\ Nap(s) \in Nat
    BY <1>1, <1>2, NapPiece, IntervalPositive DEF ScanAssumption, Proc
  <2> QED  BY <2>1 DEF Arrival, Looping, StepLimit
<1> HIDE DEF a, A
<1>7. a * Second < Timeout * Second  BY <1>1, <1>2, <1>3, <1>4, <1>5, <1>6
<1>8. a < Timeout  BY <1>1, <1>7, ProductsOrdered
<1> QED  BY <1>1, <1>8 DEF a

(***************************************************************************)
(* The steps of a process                                                  *)
(***************************************************************************)
\* A process q that comes to a point of the loop, or begins, with a heartbeat of a
\* seconds.
Ready(q, a) ==
    /\ q.nap <= Sleep
    /\ q.since < HeartbeatInterval => a * Second + phase < q.since + Second
    /\ a * Second + phase < Arrival[q.pc] + Second

\* A step of s does not touch the runs of the others in the loop.
OthersKeep(s) ==
    \A x \in Scanner \ {s} :
        /\ proc'[x] = proc[x]
        /\ proc[x].pc \in Looping => /\ proc[x].run \in Running'
                                     /\ age'[proc[x].run] = age[proc[x].run]

\* A process that leaves the loop.
LEMMA ProgressLeaves ==
    ASSUME ProgressInv, NEW s \in Scanner, OthersKeep(s), phase' = phase,
           proc'[s].pc \notin Looping \cup {"start"}
    PROVE  ProgressInv'
<1>1. ASSUME NEW x \in Scanner, proc'[x].pc \in Looping \cup {"start"}
      PROVE  /\ Timely(x)'
             /\ proc'[x].pc \in Looping => Holds(x)'
  <2>1. x # s /\ proc'[x] = proc[x] /\ Timely(x)  BY <1>1 DEF OthersKeep, ProgressInv
  <2>2. Elapsed(x)' = Elapsed(x)  BY <1>1, <2>1 DEF Elapsed, OthersKeep
  <2>3. StepLimit(x)' = StepLimit(x)  BY <2>1 DEF StepLimit, Nap
  <2> QED  BY <1>1, <2>1, <2>2, <2>3 DEF Timely, Holds, OthersKeep
<1> QED  BY <1>1 DEF ProgressInv, ProgressKeepsLease

\* A process that goes on.
LEMMA ProgressGoes ==
    ASSUME ScanAssumption, LeaseInv, ProgressInv, NEW s \in Scanner, OthersKeep(s), phase' = phase,
           NEW next \in Proc, Goto(s, next), next.pc \in Looping \cup {"start"},
           next.pc \in Looping => next.run \in Running' /\ Ready(next, age'[next.run]),
           next.pc = "start" => Ready(next, next.late)
    PROVE  ProgressInv'
<1>1. proc' = [proc EXCEPT ![s] = [next EXCEPT !.busy = 0]] /\ proc \in [Scanner -> Proc]
  BY DEF Goto, LeaseInv, TypeOK
<1>2. /\ proc'[s].pc = next.pc /\ proc'[s].run = next.run /\ proc'[s].late = next.late
      /\ proc'[s].since = next.since /\ proc'[s].nap = next.nap /\ proc'[s].busy = 0
      /\ next.nap \in Nat /\ next.since \in Nat
  BY <1>1 DEF Proc
<1>3. PICK a : /\ a = (IF next.pc = "start" THEN next.late ELSE age'[next.run])
               /\ Ready(next, a) /\ Elapsed(s)' = a * Second + phase
  BY <1>2 DEF Elapsed, Looping
<1>4. Timely(s)'
  <2>1. Ready(next, a)  BY <1>3
  <2>2. StepLimit(s)' >= 0
    <3>1. HeartbeatInterval \in Nat /\ Slack \in Nat
      BY IntervalPositive DEF ScanAssumption
    <3>2. Nap(s)' \in Nat
      <4>1. Min({next.nap, HeartbeatInterval}) \in Nat  BY <1>2, <3>1, MinOfTwo
      <4> QED  BY <1>2, <4>1 DEF Nap
    <3> QED  BY <3>1, <3>2 DEF StepLimit
  <2>3. Arrival[next.pc] + 0 = Arrival[next.pc]
    <3>1. HeartbeatInterval \in Nat /\ Slack \in Nat
      BY IntervalPositive DEF ScanAssumption
    <3> QED  BY <3>1 DEF Arrival, Looping
  <2>4. Elapsed(s)' < Arrival[proc'[s].pc] + proc'[s].busy + Second
    BY <1>2, <1>3, <2>1, <2>3 DEF Ready
  <2> QED  BY <1>2, <1>3, <2>1, <2>2, <2>4 DEF Ready, Timely
<1>5. ASSUME NEW x \in Scanner \ {s}, proc'[x].pc \in Looping \cup {"start"}
      PROVE  /\ Timely(x)'
             /\ proc'[x].pc \in Looping => Holds(x)'
  <2>1. proc'[x] = proc[x] /\ Timely(x)  BY <1>5 DEF OthersKeep, ProgressInv
  <2>2. Elapsed(x)' = Elapsed(x)  BY <1>5, <2>1 DEF Elapsed, OthersKeep
  <2>3. StepLimit(x)' = StepLimit(x)  BY <2>1 DEF StepLimit, Nap
  <2> QED  BY <1>5, <2>1, <2>2, <2>3 DEF Timely, Holds, OthersKeep
<1>6. proc'[s].pc \in Looping => Holds(s)'  BY <1>2 DEF Holds
<1> QED  BY <1>4, <1>5, <1>6 DEF ProgressInv, ProgressKeepsLease

\* A step that writes neither the rows of the runs nor their ages.
LEMMA OthersUntouched ==
    ASSUME LeaseInv, ProgressInv, NEW s \in Scanner, UNCHANGED <<run, age>>,
           \A x \in Scanner \ {s} : proc'[x] = proc[x]
    PROVE  OthersKeep(s)
BY DEF ProgressInv, ProgressKeepsLease, OthersKeep, Holds, Running

\* A process goes from one point of the loop to the next without a renewal.
LEMMA ProgressOnward ==
    ASSUME ScanAssumption, LeaseInv, ProgressInv, NEW s \in Scanner, proc[s].pc \in Looping,
           NEW next \in Proc, Goto(s, next), UNCHANGED <<run, age, phase>>,
           next.run = proc[s].run, next.since = proc[s].since, next.nap <= Sleep,
           next.pc \in Looping,
           \/ Arrival[proc[s].pc] + StepLimit(s) <= Arrival[next.pc]
           \/ proc[s].since < HeartbeatInterval /\ next.pc \in {"match", "visit"}
    PROVE  ProgressInv'
<1> DEFINE a == age[proc[s].run]
<1>1. /\ proc \in [Scanner -> Proc] /\ proc[s] \in Proc /\ a \in Nat /\ phase \in Nat
      /\ Second \in Nat /\ proc[s].busy \in Nat /\ proc[s].since \in Nat
  <2>1. proc[s] \in Proc /\ proc[s].run \in Run /\ age \in [Run -> 0 .. Timeout]
        /\ phase \in 0 .. Second - 1 /\ proc \in [Scanner -> Proc]
    BY DEF LeaseInv, TypeOK, InHand
  <2>2. Timeout \in Nat /\ Second \in Nat \ {0}  BY DEF ScanAssumption
  <2>3. a \in 0 .. Timeout  BY <2>1
  <2>4. proc[s].busy \in Nat /\ proc[s].since \in Nat  BY <2>1 DEF Proc
  <2> QED  BY <2>1, <2>2, <2>3, <2>4
<1>2. OthersKeep(s)  BY <1>1, GotoAlike, OthersUntouched
<1>3. Holds(s) /\ Timely(s)  BY DEF ProgressInv, ProgressKeepsLease
<1>4. Elapsed(s) = a * Second + phase  BY DEF Elapsed, Looping
<1>5. /\ Arrival[proc[s].pc] \in Int /\ Arrival[next.pc] \in Int /\ StepLimit(s) \in Nat
      /\ HeartbeatInterval \in Nat \ {0}
      /\ next.pc \in {"match", "visit"} => HeartbeatInterval - 1 <= Arrival[next.pc]
  <2>1. HeartbeatInterval \in Nat \ {0} /\ Slack \in Nat /\ Nap(s) \in Nat
    <3>1. proc[s].nap \in Nat /\ proc[s].nap <= Sleep  BY <1>1, <1>3 DEF Timely, Proc
    <3> QED  BY <3>1, NapPiece, IntervalPositive DEF ScanAssumption
  <2> QED  BY <2>1 DEF Arrival, Looping, StepLimit
<1>6. PICK e \in Nat : e = a * Second + phase  BY <1>1
<1>7. Ready(next, a)
  <2>1. /\ proc[s].since < HeartbeatInterval => e < proc[s].since + Second
        /\ e < Arrival[proc[s].pc] + proc[s].busy + Second
        /\ proc[s].busy <= StepLimit(s)
    BY <1>3, <1>4, <1>6 DEF Timely
  <2>2. e < Arrival[next.pc] + Second
    <3> HIDE DEF a
    <3> QED  BY <1>1, <1>5, <2>1
  <2> QED  BY <1>6, <2>1, <2>2 DEF Ready
<1>8. next.run \in Running' /\ age'[next.run] = a  BY <1>3 DEF Holds, Running
<1> HIDE DEF a
<1>9. next.pc # "start"  BY DEF Looping
<1> QED  BY <1>2, <1>7, <1>8, <1>9, ProgressGoes

\* heartbeat_scan_run finds the run running, and the heartbeat is new.
LEMMA ProgressRenews ==
    ASSUME ScanAssumption, LeaseInv, TablesInv, ProgressInv, NEW s \in Scanner,
           proc[s].pc \in Looping, NEW next \in Proc, Renew(s, next),
           next.run = proc[s].run, next.nap <= Sleep, next.pc \in Looping
    PROVE  ProgressInv'
<1> DEFINE renewed == [next EXCEPT !.since = 0]
           r == proc[s].run
<1>1. /\ proc \in [Scanner -> Proc] /\ age \in [Run -> 0 .. Timeout] /\ r \in Run
      /\ phase \in 0 .. Second - 1
  BY DEF LeaseInv, TypeOK, InHand
<1>2. Holds(s)  BY DEF ProgressInv, ProgressKeepsLease
<1>3. /\ age' = [age EXCEPT ![r] = 0] /\ Goto(s, renewed) /\ UNCHANGED <<run, phase>>
  BY <1>2 DEF Renew
<1>4. /\ renewed \in Proc /\ renewed.run = r /\ renewed.since = 0
      /\ renewed.nap = next.nap /\ renewed.pc = next.pc
  BY DEF Proc
<1> HIDE DEF renewed
<1>5. OthersKeep(s)
  <2> SUFFICES ASSUME NEW x \in Scanner \ {s}
               PROVE  /\ proc'[x] = proc[x]
                      /\ proc[x].pc \in Looping => /\ proc[x].run \in Running'
                                                   /\ age'[proc[x].run] = age[proc[x].run]
    BY DEF OthersKeep
  <2>1. proc'[x] = proc[x]  BY <1>1, <1>3, <1>4, GotoAlike
  <2>2. ASSUME proc[x].pc \in Looping
        PROVE  /\ proc[x].run \in Running'
               /\ age'[proc[x].run] = age[proc[x].run]
    <3>1. Holds(x) /\ proc[x].run \in Run
      BY <2>2 DEF ProgressInv, ProgressKeepsLease, Holds, Running
    <3>2. proc[x].run # r  BY <2>2 DEF TablesInv, Owned, Owner
    <3> QED  BY <1>1, <1>3, <3>1, <3>2 DEF Holds, Running
  <2> QED  BY <2>1, <2>2
<1>6. age'[r] = 0 /\ r \in Running'  BY <1>1, <1>2, <1>3 DEF Holds, Running
<1>7. Ready(renewed, 0)
  <2>1. phase \in Nat /\ phase < Second /\ Second \in Nat /\ HeartbeatInterval \in Nat \ {0}
        /\ Slack \in Nat
    BY <1>1, IntervalPositive DEF ScanAssumption
  <2>2. Arrival[next.pc] \in Nat  BY <2>1 DEF Arrival, Looping
  <2>3. 0 * Second + phase = phase  BY <2>1
  <2> QED  BY <1>4, <2>1, <2>2, <2>3 DEF Ready
<1>8. next.pc # "start"  BY DEF Looping
<1> QED  BY <1>3, <1>4, <1>5, <1>6, <1>7, <1>8, ProgressGoes

\* create_scan_run reads the clock.
LEMMA ProgressBegins ==
    ASSUME ScanAssumption, LeaseInv, ProgressInv, NEW s \in Scanner, Begins(s)
    PROVE  ProgressInv'
<1>1. PICK budget \in Budgets, dry \in DryRuns : BeginScan(s, budget, dry)  BY DEF Begins
<1> DEFINE next == [Idle EXCEPT !.pc = "start", !.budget = budget, !.dry = dry]
<1>2. /\ Goto(s, next) /\ UNCHANGED <<run, age, phase>> /\ proc \in [Scanner -> Proc]
      /\ phase \in 0 .. Second - 1
  BY <1>1 DEF BeginScan, LeaseInv, TypeOK
<1>3. /\ next \in Proc /\ next.pc = "start" /\ next.since = 0 /\ next.nap = 0 /\ next.late = 0
  <2>1. Idle \in Proc /\ budget \in Nat /\ dry \in BOOLEAN  BY IdleTyped DEF ScanAssumption
  <2> QED  BY <2>1 DEF Proc, Idle
<1> HIDE DEF next
<1>4. OthersKeep(s)  BY <1>2, <1>3, GotoAlike, OthersUntouched
<1>5. Ready(next, 0)
  <2>1. /\ phase \in Nat /\ phase < Second /\ Second \in Nat /\ Sleep \in Nat
        /\ HeartbeatInterval \in Nat
    BY <1>2, IntervalPositive DEF ScanAssumption
  <2>2. 0 * Second + phase = phase  BY <2>1
  <2> QED  BY <1>3, <2>1, <2>2 DEF Ready, Arrival
<1>6. "start" \notin Looping  BY DEF Looping
<1> QED  BY <1>2, <1>3, <1>4, <1>5, <1>6, ProgressGoes

\* create_scan_run inserts the row only if nobody is in the loop: the run of one that is
\* is running and young, so it is not among those recovered.
LEMMA ProgressCreates ==
    ASSUME ScanAssumption, Punctual, LeaseInv, ProgressInv, NEW s \in Scanner, NEW r \in Run,
           CreateRun(s, r)
    PROVE  ProgressInv'
<1> DEFINE next == [proc[s] EXCEPT !.pc = "top", !.run = r]
           late == proc[s].late
<1>1. /\ proc \in [Scanner -> Proc] /\ proc[s] \in Proc /\ age \in [Run -> 0 .. Timeout]
      /\ run \in [Run -> RunRow] /\ proc[s].pc = "start" /\ phase' = phase
      /\ phase \in 0 .. Second - 1
  BY DEF LeaseInv, TypeOK, CreateRun
<1>2. CASE Stop(s) /\ UNCHANGED <<run, age>>
  <2>1. /\ proc'[s].pc \notin Looping \cup {"start"}
        /\ \A x \in Scanner \ {s} : proc'[x] = proc[x]
    BY <1>1, <1>2 DEF Stop, Idle, Looping
  <2> QED  BY <1>1, <1>2, <2>1, OthersUntouched, ProgressLeaves
<1>3. CASE /\ Admits(Running \ (stale[s] \cap Running)) /\ NextRun(r)
           /\ run' = [q \in Run |->
                  IF q \in stale[s] \cap Running THEN [run[q] EXCEPT !.status = "failed"]
                  ELSE IF q = r THEN [run[q] EXCEPT !.status = "running"]
                  ELSE run[q]]
           /\ age' = [age EXCEPT ![r] = late]
           /\ Goto(s, next)
  <2>1. /\ next \in Proc /\ next.pc = "top" /\ next.run = r /\ next.since = proc[s].since
        /\ next.nap = proc[s].nap /\ late \in Nat /\ proc[s].busy \in Nat
        /\ proc[s].since \in Nat
    <3>1. late \in 0 .. StartDelay /\ StartDelay \in Nat  BY <1>1 DEF Proc, ScanAssumption
    <3>2. late \in Nat  BY <3>1
    <3> QED  BY <1>1, <3>2 DEF Proc, Looping
  <2> HIDE DEF next
  <2>2. \A x \in Scanner : proc[x].pc \notin Looping
    <3> SUFFICES ASSUME NEW x \in Scanner, proc[x].pc \in Looping  PROVE FALSE  OBVIOUS
    <3>1. proc[x].run \in Running /\ age[proc[x].run] # Timeout
      BY HeartbeatYoung DEF ProgressInv, ProgressKeepsLease, Holds
    <3>2. proc[x].run \notin stale[s]  BY <3>1 DEF LeaseInv, StaleStayOld
    <3> QED  BY <1>3, <3>1, <3>2 DEF Admits
  <2>3. OthersKeep(s)  BY <1>1, <1>3, <2>1, <2>2, GotoAlike DEF OthersKeep
  <2>4. age'[r] = late  BY <1>1, <1>3
  <2>5. r \in Running'
    <3>1. run[r].status = "none" /\ run[r] \in RunRow  BY <1>1, <1>3 DEF NextRun
    <3>2. r \notin stale[s] \cap Running  BY <3>1 DEF Running
    <3>3. run'[r] = [run[r] EXCEPT !.status = "running"]  BY <1>3, <3>2
    <3> QED  BY <3>1, <3>3 DEF Running, RunRow
  <2>6. Ready(next, late)
    <3>1. PICK e \in Nat : e = late * Second + phase
      <4>1. late * Second \in Nat /\ phase \in Nat  BY <1>1, <2>1 DEF ScanAssumption
      <4> QED  BY <4>1
    <3>2. /\ proc[s].since < HeartbeatInterval => e < proc[s].since + Second
          /\ e < 0 + proc[s].busy + Second
          /\ proc[s].busy <= Slack + 0 /\ proc[s].nap <= Sleep
      BY <1>1, <3>1 DEF ProgressInv, Timely, Elapsed, Arrival, StepLimit
    <3>3. e < Arrival["top"] + Second
      <4>1. Arrival["top"] = HeartbeatInterval - 1 + 3 * Slack  BY DEF Arrival
      <4>2. HeartbeatInterval \in Nat \ {0} /\ Slack \in Nat /\ Second \in Nat
        BY IntervalPositive DEF ScanAssumption
      <4> QED  BY <2>1, <3>2, <4>1, <4>2
    <3> QED  BY <2>1, <3>1, <3>2, <3>3 DEF Ready
  <2>7. "top" \in Looping /\ "top" # "start"  BY DEF Looping
  <2> HIDE DEF late
  <2> QED  BY <1>1, <1>3, <2>1, <2>3, <2>4, <2>5, <2>6, <2>7, ProgressGoes
<1> QED  BY <1>2, <1>3 DEF CreateRun

\* The renewals between pages and within a pause.
LEMMA ProgressRenewals ==
    ASSUME ScanAssumption, LeaseInv, TablesInv, ProgressInv, NEW s \in Scanner,
           RenewAtTop(s) \/ RenewAfterNap(s)
    PROVE  ProgressInv'
<1>1. /\ proc[s] \in Proc /\ proc[s].pc \in Looping /\ proc[s].nap \in Nat
      /\ proc[s].nap <= Sleep /\ Sleep \in Nat
  BY DEF LeaseInv, TypeOK, RenewAtTop, RenewAfterNap, Looping, Proc, ProgressInv, Timely,
         ScanAssumption
<1>2. CASE RenewAtTop(s)
  <2> DEFINE next == [proc[s] EXCEPT
           !.pc = IF proc[s].budget # 0 /\ proc[s].budget <= proc[s].count.scanned
                  THEN "finish" ELSE "fetch"]
  <2>1. /\ next \in Proc /\ next.run = proc[s].run /\ next.nap = proc[s].nap
        /\ next.pc \in Looping
    BY <1>1 DEF Proc, Looping
  <2>2. Renew(s, next)  BY <1>2 DEF RenewAtTop
  <2> HIDE DEF next
  <2> QED  BY <1>1, <2>1, <2>2, ProgressRenews
<1>3. CASE RenewAfterNap(s)
  <2> DEFINE next == [proc[s] EXCEPT !.nap = @ - Nap(s),
                                !.pc = IF proc[s].nap > Nap(s) THEN "nap" ELSE "top"]
  <2>1. /\ Nap(s) \in Nat /\ Nap(s) <= proc[s].nap  BY <1>1, NapPiece
  <2>2. proc[s].nap - Nap(s) \in Nat /\ proc[s].nap - Nap(s) <= Sleep  BY <1>1, <2>1
  <2>3. /\ next \in Proc /\ next.run = proc[s].run /\ next.nap = proc[s].nap - Nap(s)
        /\ next.pc \in Looping
    BY <1>1, <2>2 DEF Proc, Looping
  <2>4. Renew(s, next)  BY <1>3 DEF RenewAfterNap
  <2> HIDE DEF next
  <2> QED  BY <1>1, <2>2, <2>3, <2>4, ProgressRenews
<1> QED  BY <1>2, <1>3

\* A repository is visited, with the renewal that is due; an iteration that finds none
\* due leaves the heartbeat younger than the interval.
LEMMA ProgressVisits ==
    ASSUME ScanAssumption, LeaseInv, TablesInv, ProgressInv, NEW s \in Scanner,
           NEW row \in [id: Repo, kind: Kinds], Visit(s, row)
    PROVE  ProgressInv'
<1> DEFINE next == Visited(s, row)
<1>1. /\ proc \in [Scanner -> Proc] /\ proc[s] \in Proc /\ proc[s].pc = "visit"
      /\ proc[s].pc \in Looping /\ Repo \subseteq Nat /\ proc[s].nap <= Sleep
  BY DEF LeaseInv, TypeOK, Visit, Looping, ScanAssumption, ProgressInv, Timely
<1>2. /\ next \in Proc /\ next.run = proc[s].run /\ next.pc \in {"match", "visit"}
  BY <1>1, VisitedTyped
<1>3. next.nap = proc[s].nap /\ next.since = proc[s].since  BY <1>1 DEF Visited, Proc
<1>4. next.pc \in Looping  BY <1>2 DEF Looping
<1>5. \/ Renew(s, next)
      \/ proc[s].since < HeartbeatInterval /\ Goto(s, next) /\ UNCHANGED <<run, age, phase>>
  BY DEF Visit
<1> HIDE DEF next
<1> QED  BY <1>1, <1>2, <1>3, <1>4, <1>5, ProgressRenews, ProgressOnward

\* The other steps of the loop take no more than the room between their points.
LEMMA ProgressMoves ==
    ASSUME ScanAssumption, LeaseInv, ProgressInv, NEW s \in Scanner,
           Fetch(s) \/ AddMatch(s) \/ FlagMatch(s) \/ EndPage(s)
    PROVE  ProgressInv'
<1>1. /\ proc \in [Scanner -> Proc] /\ proc[s] \in Proc /\ review \in [Repo -> Review]
      /\ kind \in [Repo -> Kinds] /\ proc[s].pc \in Looping \ {"nap"}
      /\ proc[s].pc \in {"match", "flag"} => proc[s].repo \in Repo
      /\ UNCHANGED <<run, age, phase>>
  BY DEF LeaseInv, TypeOK, InHand, Fetch, AddMatch, FlagMatch, EndPage, Looping
<1>2. proc[s].nap <= Sleep /\ Sleep \in Nat  BY <1>1 DEF ProgressInv, Timely, ScanAssumption
<1>3. /\ StepLimit(s) = Slack /\ Slack \in Nat /\ HeartbeatInterval \in Nat
  BY <1>1, IntervalPositive DEF StepLimit, ScanAssumption
<1>4. CASE Fetch(s)
  <2> DEFINE next == [proc[s] EXCEPT !.page = NextPage(s),
                          !.pc = IF NextPage(s) = {} THEN "finish" ELSE "visit"]
  <2>1. next \in Proc  BY <1>1, PageTyped DEF Proc, Looping
  <2>2. /\ next.run = proc[s].run /\ next.since = proc[s].since /\ next.nap = proc[s].nap
        /\ next.pc \in {"finish", "visit"} /\ Goto(s, next) /\ proc[s].pc = "fetch"
    BY <1>1, <1>4 DEF Fetch, Proc
  <2> HIDE DEF next
  <2>3. Arrival[proc[s].pc] + StepLimit(s) <= Arrival[next.pc] /\ next.pc \in Looping
    BY <1>3, <2>2, IntervalPositive DEF Arrival, Looping
  <2> QED  BY <1>1, <1>2, <2>1, <2>2, <2>3, ProgressOnward
<1>5. CASE AddMatch(s)
  <2> DEFINE next == [proc[s] EXCEPT !.pc = IF proc[s].dry THEN "visit" ELSE "flag"]
  <2>1. /\ next \in Proc /\ next.run = proc[s].run /\ next.since = proc[s].since
        /\ next.nap = proc[s].nap /\ next.pc \in {"flag", "visit"} /\ Goto(s, next)
        /\ proc[s].pc = "match"
    BY <1>1, <1>5 DEF AddMatch, Proc, Looping
  <2> HIDE DEF next
  <2>2. Arrival[proc[s].pc] + StepLimit(s) <= Arrival[next.pc] /\ next.pc \in Looping
    BY <1>3, <2>1 DEF Arrival, Looping
  <2> QED  BY <1>1, <1>2, <2>1, <2>2, ProgressOnward
<1>6. CASE FlagMatch(s)
  <2> DEFINE next == [proc[s] EXCEPT !.pc = "visit",
                          !.count = Counted(@, review[proc[s].repo])]
  <2>1. Counted(proc[s].count, review[proc[s].repo]) \in Count
    BY <1>1, <1>6, CountedTyped DEF FlagMatch, Proc
  <2>2. /\ next \in Proc /\ next.run = proc[s].run /\ next.since = proc[s].since
        /\ next.nap = proc[s].nap /\ next.pc = "visit" /\ Goto(s, next)
        /\ proc[s].pc = "flag"
    BY <1>1, <1>6, <2>1 DEF FlagMatch, Proc, Looping
  <2> HIDE DEF next
  <2>3. Arrival[proc[s].pc] + StepLimit(s) <= Arrival[next.pc] /\ next.pc \in Looping
    BY <1>3, <2>2 DEF Arrival, Looping
  <2> QED  BY <1>1, <1>2, <2>2, <2>3, ProgressOnward
<1>7. CASE EndPage(s)
  <2>1. PICK point \in {"nap", "top"} :
            Goto(s, [proc[s] EXCEPT !.pc = point, !.nap = Sleep]) /\ proc[s].pc = "visit"
    BY <1>7 DEF EndPage
  <2> DEFINE next == [proc[s] EXCEPT !.pc = point, !.nap = Sleep]
  <2>2. point \in Looping  BY DEF Looping
  <2>3. next \in Proc  BY <1>1, <1>2, <2>2 DEF Proc
  <2>4. next.run = proc[s].run /\ next.since = proc[s].since /\ next.nap = Sleep /\ next.pc = point
    BY <1>1 DEF Proc
  <2>5. Goto(s, next)  BY <2>1
  <2> HIDE DEF next
  <2>6. Arrival[proc[s].pc] + StepLimit(s) <= Arrival[next.pc]
    BY <1>3, <2>1, <2>4 DEF Arrival
  <2> QED  BY <1>1, <1>2, <2>2, <2>3, <2>4, <2>5, <2>6, ProgressOnward
<1> QED  BY <1>4, <1>5, <1>6, <1>7

\* A scan that ends, fails or dies writes no row but its own.
LEMMA ProgressEnds ==
    ASSUME LeaseInv, TablesInv, ProgressInv, NEW s \in Scanner,
           Complete(s) \/ Fail(s) \/ Raise(s) \/ Crash(s)
    PROVE  ProgressInv'
<1>1. proc \in [Scanner -> Proc] /\ proc[s] \in Proc /\ run \in [Run -> RunRow]
  BY DEF LeaseInv, TypeOK
<1>2. /\ proc'[s].pc \notin Looping \cup {"start"}
      /\ \A x \in Scanner \ {s} : proc'[x] = proc[x]
  <2>1. CASE Stop(s)  BY <1>1, <2>1 DEF Stop, Idle, Looping
  <2>2. CASE Goto(s, [proc[s] EXCEPT !.pc = "failing"])
    BY <1>1, <2>2 DEF Goto, Proc, Looping
  <2> QED  BY <2>1, <2>2 DEF Complete, Fail, Raise, Crash
<1>3. CASE Raise(s) \/ Crash(s)
  <2>1. UNCHANGED <<run, age, phase>>  BY <1>3 DEF Raise, Crash
  <2> QED  BY <1>2, <2>1, OthersUntouched, ProgressLeaves
<1>4. CASE Complete(s) \/ Fail(s)
  <2>1. /\ UNCHANGED <<age, phase>> /\ Owner(s)
        /\ \A q \in Run \ {proc[s].run} : run'[q] = run[q]
    BY <1>1, <1>4 DEF Complete, Fail, Updated, Owner, Looping
  <2>2. OthersKeep(s)
    <3> SUFFICES ASSUME NEW x \in Scanner \ {s}, proc[x].pc \in Looping
                 PROVE  proc[x].run \in Running'
      BY <1>2, <2>1 DEF OthersKeep
    <3>1. proc[x].run \in Running /\ proc[x].run # proc[s].run
      BY <2>1 DEF ProgressInv, ProgressKeepsLease, Holds, TablesInv, Owned, Owner
    <3> QED  BY <2>1, <3>1 DEF Running
  <2> QED  BY <1>2, <2>1, <2>2, ProgressLeaves
<1> QED  BY <1>3, <1>4

\* Owners and operators touch neither runs nor processes.
LEMMA ProgressWorld ==
    ASSUME ProgressInv, UNCHANGED <<run, age, proc, phase>>
    PROVE  ProgressInv'
BY DEF ProgressInv, ProgressKeepsLease, Timely, Holds, Running, Elapsed, StepLimit, Nap

\* What a tick does to the age of a heartbeat, in ticks: n are its second boundaries.
LEMMA TickElapses ==
    ASSUME ScanAssumption, phase \in 0 .. Second - 1, phase' = (phase + 1) % Second,
           NEW n \in Nat, NEW m \in Nat, m = n \/ (phase = Second - 1 /\ m = n + 1),
           phase = Second - 1 \/ m = n
    PROVE  m * Second + phase' <= n * Second + phase + 1
<1>1. Second \in Nat \ {0} /\ phase \in Nat  BY DEF ScanAssumption
<1>2. CASE phase = Second - 1
  <2>1. phase + 1 = Second  BY <1>1, <1>2
  <2>2. Second % Second = 0  BY <1>1
  <2>3. phase' = 0  BY <2>1, <2>2
  <2>4. n * Second \in Nat /\ (n + 1) * Second = n * Second + Second  BY <1>1
  <2> QED  BY <1>1, <1>2, <2>3, <2>4
<1>3. CASE phase # Second - 1
  <2>1. phase + 1 \in 0 .. Second - 1  BY <1>1, <1>3
  <2>2. (phase + 1) % Second = phase + 1  BY <1>1, <2>1
  <2>3. n * Second \in Nat  BY <1>1
  <2> QED  BY <1>1, <1>3, <2>2, <2>3
<1> QED  BY <1>2, <1>3

\* A tick reaches the clocks of a process that is busy: its steps stay within their
\* limits, because the instance is Prompt.
LEMMA TickClocks ==
    ASSUME ScanAssumption, Prompt, LeaseInv, Tick, NEW x \in Scanner, proc[x].pc # "idle"
    PROVE  /\ Alike(proc[x], proc'[x]) /\ proc'[x].nap = proc[x].nap
           /\ proc[x].busy < StepLimit(x) /\ proc'[x].busy = proc[x].busy + 1
           /\ proc'[x].since = Aged(proc[x].since, HeartbeatInterval)
           /\ proc'[x].late = IF phase = Second - 1 /\ proc[x].pc = "start"
                              THEN proc[x].late + 1 ELSE proc[x].late
<1>1. proc[x] \in Proc  BY DEF LeaseInv, TypeOK
<1>2. proc[x].busy < StepLimit(x)  BY DEF Tick
<1>3. PICK since, busy, late :
          /\ since = Aged(proc[x].since, HeartbeatInterval)
          /\ busy = Aged(proc[x].busy, StepLimit(x))
          /\ late = IF phase = Second - 1 /\ proc[x].pc = "start" THEN proc[x].late + 1
                    ELSE proc[x].late
  OBVIOUS
<1>4. proc'[x] = [proc[x] EXCEPT !.since = since, !.busy = busy, !.late = late]
  BY <1>3 DEF Tick
<1>5. busy = proc[x].busy + 1  BY <1>2, <1>3 DEF Aged
<1> QED  BY <1>1, <1>2, <1>3, <1>4, <1>5 DEF Proc, Alike

\* Time passes: every clock that counts moves with the age of the heartbeat.
LEMMA ProgressTicks ==
    ASSUME ScanAssumption, Punctual, LeaseInv, ProgressInv, Tick
    PROVE  ProgressInv'
<1>1. /\ age \in [Run -> 0 .. Timeout] /\ proc \in [Scanner -> Proc] /\ run' = run
      /\ phase \in 0 .. Second - 1 /\ phase' = (phase + 1) % Second /\ Timeout \in Nat
      /\ Second \in Nat \ {0} /\ HeartbeatInterval \in Nat \ {0} /\ Prompt
      /\ Slack \in Nat
  BY IntervalPositive DEF LeaseInv, TypeOK, Tick, ScanAssumption, Punctual
<1>2. ASSUME NEW x \in Scanner, proc'[x].pc \in Looping \cup {"start"}
      PROVE  Timely(x)' /\ (proc'[x].pc \in Looping => Holds(x)')
  <2>1. proc[x].pc # "idle"
    <3>1. proc[x].pc = "idle" => proc'[x] = Idle  BY DEF Tick
    <3> QED  BY <1>2, <3>1 DEF Idle, Looping
  <2>2. /\ proc'[x].pc = proc[x].pc /\ proc'[x].run = proc[x].run /\ proc'[x].nap = proc[x].nap
        /\ proc[x].busy < StepLimit(x) /\ proc'[x].busy = proc[x].busy + 1
        /\ proc'[x].since = Aged(proc[x].since, HeartbeatInterval)
        /\ proc'[x].late = IF phase = Second - 1 /\ proc[x].pc = "start"
                           THEN proc[x].late + 1 ELSE proc[x].late
    BY <1>1, <2>1, TickClocks DEF Alike
  <2>3. /\ Timely(x) /\ (proc[x].pc \in Looping => Holds(x) /\ proc[x].run \in Run)
        /\ proc[x].busy \in Nat /\ proc[x].since \in Nat /\ proc[x].late \in Nat
    <3>1. proc[x] \in Proc /\ StartDelay \in Nat  BY <1>1 DEF ScanAssumption
    <3>2. proc[x].late \in 0 .. StartDelay /\ proc[x].busy \in Nat /\ proc[x].since \in Nat
      BY <3>1 DEF Proc
    <3>3. proc[x].late \in Nat  BY <3>1, <3>2
    <3> QED  BY <1>2, <2>2, <3>2, <3>3 DEF ProgressInv, ProgressKeepsLease, Holds, Running
  <2>4. StepLimit(x)' = StepLimit(x)  BY <2>2 DEF StepLimit, Nap
  <2>5. PICK n \in Nat, m \in Nat :
            /\ Elapsed(x) = n * Second + phase /\ Elapsed(x)' = m * Second + phase'
            /\ m = n \/ (phase = Second - 1 /\ m = n + 1)
    <3>1. CASE proc[x].pc = "start"
      <4>1. /\ Elapsed(x) = proc[x].late * Second + phase
            /\ Elapsed(x)' = proc'[x].late * Second + phase'
        BY <2>2, <3>1 DEF Elapsed
      <4>2. PICK n \in Nat, m \in Nat : n = proc[x].late /\ m = proc'[x].late
        BY <2>2, <2>3
      <4>3. m = n \/ (phase = Second - 1 /\ m = n + 1)  BY <2>2, <4>2
      <4> QED  BY <4>1, <4>2, <4>3
    <3>2. CASE proc[x].pc # "start"
      <4>1. proc[x].run \in Run /\ proc[x].pc \in Looping  BY <1>2, <2>2, <2>3, <3>2
      <4> DEFINE a == age[proc[x].run]
                 b == age'[proc[x].run]
      <4>2. a \in 0 .. Timeout  BY <1>1, <4>1
      <4>3. b = IF phase = Second - 1 /\ proc[x].run \in Running THEN Aged(a, Timeout) ELSE a
        BY <4>1 DEF Tick
      <4>4. Elapsed(x) = a * Second + phase /\ Elapsed(x)' = b * Second + phase'
        BY <2>2, <3>2 DEF Elapsed
      <4> HIDE DEF a, b
      <4>5. a \in Nat /\ b \in Nat /\ (b = a \/ (phase = Second - 1 /\ b = a + 1))
        BY <1>1, <4>2, <4>3 DEF Aged
      <4> QED  BY <4>4, <4>5
    <3> QED  BY <3>1, <3>2
  <2>6. m * Second + phase' <= n * Second + phase + 1  BY <1>1, <2>5, TickElapses
  <2>7. PICK e \in Nat, f \in Nat : e = Elapsed(x) /\ f = Elapsed(x)' /\ f <= e + 1
    <3>1. n * Second + phase \in Nat  BY <1>1
    <3>2. m * Second + phase' \in Nat
      <4>1. phase' \in Nat  BY <1>1
      <4> QED  BY <1>1, <4>1
    <3> QED  BY <2>5, <2>6, <3>1, <3>2
  <2>8. Arrival[proc[x].pc] \in Int /\ StepLimit(x) \in Int
    <3>1. proc[x].nap \in Nat /\ proc[x].nap <= Sleep  BY <1>1, <2>3 DEF Timely, Proc
    <3>2. Nap(x) \in Nat  BY <3>1, NapPiece
    <3> QED  BY <1>1, <1>2, <2>2, <3>2 DEF Arrival, Looping, StepLimit
  <2>9. Timely(x)'
    <3>1. /\ proc[x].since < HeartbeatInterval => e < proc[x].since + Second
          /\ e < Arrival[proc[x].pc] + proc[x].busy + Second /\ proc[x].nap <= Sleep
      BY <2>3, <2>7 DEF Timely
    <3>2. proc'[x].since < HeartbeatInterval => f < proc'[x].since + Second
      BY <1>1, <2>2, <2>3, <2>7, <3>1 DEF Aged
    <3>3. f < Arrival[proc[x].pc] + (proc[x].busy + 1) + Second
      BY <1>1, <2>3, <2>7, <2>8, <3>1
    <3>4. proc[x].busy + 1 <= StepLimit(x)  BY <2>2, <2>3, <2>8
    <3> QED  BY <2>2, <2>4, <2>7, <3>1, <3>2, <3>3, <3>4 DEF Timely
  <2>10. proc'[x].pc \in Looping => Holds(x)'
    BY <1>1, <2>2, <2>3 DEF Holds, Running
  <2> QED  BY <2>9, <2>10
<1> QED  BY <1>2 DEF ProgressInv, ProgressKeepsLease

(***************************************************************************)
(* The theorems                                                            *)
(***************************************************************************)
\* No scan has begun.
LEMMA ProgressInit ==
    ASSUME Init
    PROVE  ProgressInv
BY DEF Init, ProgressInv, ProgressKeepsLease, Idle, Looping

\* No step of the scans breaks the invariant.
LEMMA ProgressStep ==
    ASSUME ScanAssumption, Punctual, LeaseInv, TablesInv, ProgressInv, [Next]_vars
    PROVE  ProgressInv'
<1>1. ASSUME NEW s \in Scanner, Begins(s)  PROVE ProgressInv'
  BY <1>1, ProgressBegins
<1>2. ASSUME NEW s \in Scanner, NEW r \in Run, CreateRun(s, r)  PROVE ProgressInv'
  BY <1>2, ProgressCreates
<1>3. ASSUME NEW s \in Scanner, RenewAtTop(s) \/ RenewAfterNap(s)  PROVE ProgressInv'
  BY <1>3, ProgressRenewals
<1>4. ASSUME NEW s \in Scanner, NEW row \in [id: Repo, kind: Kinds], Visit(s, row)
      PROVE ProgressInv'
  BY <1>4, ProgressVisits
<1>5. ASSUME NEW s \in Scanner, Fetch(s) \/ AddMatch(s) \/ FlagMatch(s) \/ EndPage(s)
      PROVE ProgressInv'
  BY <1>5, ProgressMoves
<1>6. ASSUME NEW s \in Scanner, Complete(s) \/ Fail(s) \/ Raise(s) \/ Crash(s)
      PROVE ProgressInv'
  BY <1>6, ProgressEnds
<1>7. ASSUME NEW p \in Repo, (\E k \in Kinds : RepositoryBecomes(p, k)) \/ Decide(p)
      PROVE ProgressInv'
  BY <1>7, ProgressWorld DEF RepositoryBecomes, Decide
<1>8. CASE Tick  BY <1>8, ProgressTicks
<1>9. CASE UNCHANGED vars  BY <1>9, ProgressWorld DEF vars
<1> QED  BY <1>1, <1>2, <1>3, <1>4, <1>5, <1>6, <1>7, <1>8, <1>9 DEF Next, Code

\* ProgressInv holds of every behaviour of an instance that is Punctual: the clocks of
\* run_scan agree with the heartbeat the database keeps, to a second.
THEOREM ProgressInductive ==
    ASSUME Punctual
    PROVE  Spec => []ProgressInv
<1>1. Init => ProgressInv  BY ProgressInit
<1>2. LeaseInv /\ TablesInv /\ ProgressInv /\ [Next]_vars => ProgressInv'
  BY ProgressStep, ScanAssumption
<1> QED  BY <1>1, <1>2, LeaseInductive, TablesInductive, PTL DEF Spec

\* A scan whose process makes progress is never recovered under it, whatever pages and
\* pauses it goes through and whoever starts another scan (heartbeat_scan_run,
\* _sleep_with_lease, create_scan_run).
THEOREM KeepsLease ==
    ASSUME Punctual
    PROVE  Spec => []ProgressKeepsLease
<1>1. ProgressInv => ProgressKeepsLease  BY DEF ProgressInv
<1> QED  BY <1>1, ProgressInductive, PTL
=============================================================================
