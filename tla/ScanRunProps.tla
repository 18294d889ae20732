---------------------------- MODULE ScanRunProps ----------------------------
(***************************************************************************)
(* What a scan of spam_detection promises, over the module ScanRun.        *)
(***************************************************************************)
EXTENDS ScanRun

\* At most one run is running, so at most one process flags repositories with
\* a lease: spam_scan_run_one_running_idx against several console workers.
OneRunning == \A q, r \in Running : q = r

\* What a run was reported to have done is never rewritten: a process whose run
\* was recovered under it can neither complete nor fail it afterwards
\* (update_scan_run's status = 'running').
EndedRunsKeep == [][\A r \in Run : run[r].status \in Ended => run'[r] = run[r]]_vars

\* A starting scan that has found a run past its timeout still finds it so, unless
\* the run ended; and nothing is found before it exists.
StaleStayOld ==
    \A s \in Scanner : \A r \in stale[s] :
        run[r].status # "none" /\ (r \in Running => age[r] = Timeout)

\* A process in the loop knows its run, one that writes has a repository in hand.
InHand ==
    \A s \in Scanner :
        /\ proc[s].pc \in Looping \cup {"failing"} => proc[s].run \in Run
        /\ proc[s].pc \in {"match", "flag"} => proc[s].repo \in Repo

\* The inductive invariant behind the lease: types, one running row, and what the
\* starting scans remember (create_scan_run, heartbeat_scan_run).
LeaseInv == TypeOK /\ OneRunning /\ StaleStayOld /\ InHand

\* A run is failed by somebody else only when its heartbeat is at least the
\* timeout old at that moment, not only when the starting scan looked
\* (create_scan_run repeats heartbeat_at <= stale_before in its UPDATE).
OnlyStaleAreRecovered ==
    [][\A r \in Running :
        \/ run'[r].status # "failed"
        \/ age[r] >= Timeout
        \/ \E s \in Scanner : proc[s].pc = "failing" /\ proc[s].run = r]_vars

\* A completed run reports what the tables hold: its matches, the records its
\* matches opened, and no more skipped than the rest of its matches.
ReportsAreTrue ==
    \A r \in Run : run[r].status = "completed" =>
        LET count == run[r].count IN
        /\ count.matched = Cardinality(match[r])
        /\ count.flagged = Cardinality(record[r])
        /\ count.flagged + count.skipped <= count.matched
        /\ record[r] \subseteq match[r]

\* A scan without a budget that is about to complete has visited every
\* repository that was in scope all the time since the run was created, whatever
\* came and went between two pages (keyset paging on last_seen_id).
NothingMissed ==
    \A s \in Scanner :
        proc[s].pc = "finish" /\ proc[s].budget = 0 => owed[s] = {}

\* A scan with a budget classifies at most that many repositories.
BudgetKept ==
    \A s \in Scanner : proc[s].budget > 0 => proc[s].count.scanned <= proc[s].budget

\* A process that makes progress keeps its lease, through pages and pauses of
\* any length: nobody recovers its run
\* (test_scan_does_not_recover_long_running_scan_with_fresh_heartbeat).
ProgressKeepsLease == \A s \in Scanner : proc[s].pc \in Looping => Holds(s)

\* What the settings must leave room for: every step between two renewals as slow as
\* a step may be, the longest piece of a pause among them, and the second that
\* rounding takes off.
Punctual ==
    /\ Prompt
    /\ (HeartbeatInterval - 1) + 4 * Slack + Min({Sleep, HeartbeatInterval}) + Second
           <= Timeout * Second

\* What the age of the heartbeat of s stands for, in ticks: the second boundaries in it
\* and the ticks since the last.  A run not inserted yet has the age it will have then.
Elapsed(s) ==
    (IF proc[s].pc = "start" THEN proc[s].late ELSE age[proc[s].run]) * Second + phase

\* How old a heartbeat can be, but for rounding, when a process comes to each point:
\* Visit is where one younger than HeartbeatInterval is not renewed.
Arrival ==
    [start |-> 0, fetch |-> 0, finish |-> Slack,
     match |-> HeartbeatInterval - 1,
     flag  |-> HeartbeatInterval - 1 + Slack,
     visit |-> HeartbeatInterval - 1 + 2 * Slack,
     nap   |-> HeartbeatInterval - 1 + 3 * Slack,
     top   |-> HeartbeatInterval - 1 + 3 * Slack]

\* The clocks of a process agree with the age of its heartbeat.
Timely(s) ==
    /\ proc[s].since < HeartbeatInterval => Elapsed(s) < proc[s].since + Second
    /\ Elapsed(s) < Arrival[proc[s].pc] + proc[s].busy + Second
    /\ proc[s].busy <= StepLimit(s)
    /\ proc[s].nap <= Sleep

\* The inductive invariant behind ProgressKeepsLease, where Punctual.
ProgressInv ==
    /\ ProgressKeepsLease
    /\ \A s \in Scanner : proc[s].pc \in Looping \cup {"start"} => Timely(s)

\* Only the last run of the model may have nobody to recover it.
Recoverable(r) == \E q \in Run : q > r

\* Every run ends, whatever happens to its process, as long as somebody scans
\* again: a crashed or hanging scan does not block scanning for ever.
EveryRunEnds ==
    \A r \in Run : Recoverable(r) => (r \in Running ~> r \notin Running)

\* The transaction of create_scan_run ends, one way or another.
Created(s) ==
    \/ \E r \in Run : CreateRun(s, r)
    \/ proc[s].pc = "start" /\ Crash(s)
==============================================================================
