------------------------------- MODULE ScanRun -------------------------------
(***************************************************************************)
(* A scan of the repositories: run_scan of                                 *)
(* backend/spam_detection/scanner.py over the spam_scan_run and            *)
(* spam_scan_match tables of store.py and the pages of quay_db.py.         *)
(*                                                                         *)
(* A run is a lease: its row is 'running' while its process renews the     *)
(* heartbeat, the next scan to start fails the ones that stopped, and a    *)
(* unique index admits one running row.  The process of a run that was     *)
(* failed under it does not know before its next renewal.                  *)
(*                                                                         *)
(* Time passes in ticks.  The database keeps whole seconds, so an age is   *)
(* the number of second boundaries passed; the process measures ticks.     *)
(***************************************************************************)
EXTENDS Naturals, FiniteSets, FiniteSetsExt

CONSTANTS
    Scanner,    \* processes that scan: console workers and the CLI
    Run,        \* ids of spam_scan_run, in order of creation
    Repo,       \* ids of repositories, from 1
    BatchSize,  \* the policy's batch_size
    Budgets,    \* values of max_repos a scan is started with; 0: all
    DryRuns,    \* values of dry_run a scan is started with
    Kinds,      \* the kinds of repositories of this instance
    Sleep,      \* sleep_between_batches, in ticks
    Second,     \* ticks in a second
    Timeout,    \* SPAM_DETECTION_STALE_SCAN_TIMEOUT_SECONDS
    StartDelay, \* seconds create_scan_run may take, less than Timeout
    Prompt,     \* whether no step of a live process lasts longer than Slack
    Slack,      \* ticks
    None

ASSUME ScanAssumption ==
    /\ Run \subseteq Nat /\ Repo \subseteq Nat /\ 0 \notin Repo
    /\ BatchSize \in Nat \ {0} /\ Budgets \subseteq Nat /\ DryRuns \subseteq BOOLEAN
    /\ Kinds \subseteq {"out", "ham", "spam"}
    /\ Sleep \in Nat /\ Second \in Nat \ {0} /\ Timeout \in Nat \ {0}
    /\ Timeout * Second >= 3
    /\ StartDelay \in Nat /\ StartDelay < Timeout
    /\ Prompt \in BOOLEAN /\ Slack \in Nat
    /\ None \notin Run \cup Repo

VARIABLES
    run,     \* rows of spam_scan_run
    age,     \* second boundaries since each run's heartbeat_at
    match,   \* spam_scan_match: the repositories each run has rows for
    record,  \* the repositories whose review record a match of the run opened
    review,  \* what a scan finds of each repository's review records
    kind,    \* of each repository: "out" of the page query, harmless or spam
    proc,    \* each scan process: its place in run_scan and its locals
    stale,   \* the runs each starting scan has found past the timeout
    owed,    \* history: repositories in scope since the scan began, not visited
    phase    \* ticks since the last second boundary

vars == <<run, age, match, record, review, kind, proc, stale, owed, phase>>

Count == [scanned: Nat, matched: Nat, flagged: Nat, skipped: Nat]
Zero  == [scanned |-> 0, matched |-> 0, flagged |-> 0, skipped |-> 0]

Ended == {"completed", "failed"}
RunRow == [status: {"none", "running"} \cup Ended, count: Count]

\* An open record, one whose newest decision suppresses the match, or neither.
Review == {"open", "suppressed", "free"}

Looping == {"top", "fetch", "visit", "match", "flag", "nap", "finish"}

\* last is last_seen_id, page the rows still to visit, repo the one in hand,
\* nap the sleep left; since counts ticks from the last clock reading that went
\* into heartbeat_at and busy those of the current step.
Proc == [pc: {"idle", "start", "failing"} \cup Looping, run: Run \cup {None},
         budget: Nat, dry: BOOLEAN, last: Nat, page: SUBSET [id: Repo, kind: Kinds],
         repo: Repo \cup {None}, count: Count, nap: Nat, since: Nat, busy: Nat, late: 0 .. StartDelay]

Idle == [pc |-> "idle", run |-> None, budget |-> 0, dry |-> TRUE, last |-> 0,
         page |-> {}, repo |-> None, count |-> Zero, nap |-> 0, since |-> 0,
         busy |-> 0, late |-> 0]

TypeOK ==
    /\ run \in [Run -> RunRow]
    /\ age \in [Run -> 0 .. Timeout]
    /\ match \in [Run -> SUBSET Repo] /\ record \in [Run -> SUBSET Repo]
    /\ review \in [Repo -> Review] /\ kind \in [Repo -> Kinds]
    /\ proc \in [Scanner -> Proc]
    /\ stale \in [Scanner -> SUBSET Run] /\ owed \in [Scanner -> SUBSET Repo]
    /\ phase \in 0 .. Second - 1

Init ==
    /\ run = [r \in Run |-> [status |-> "none", count |-> Zero]]
    /\ age = [r \in Run |-> 0]
    /\ match = [r \in Run |-> {}] /\ record = [r \in Run |-> {}]
    /\ review \in [Repo -> Review]
    /\ kind \in [Repo -> Kinds]
    /\ proc = [s \in Scanner |-> Idle]
    /\ stale = [s \in Scanner |-> {}] /\ owed = [s \in Scanner |-> {}]
    /\ phase = 0

Running == {r \in Run : run[r].status = "running"}
Holds(s) == proc[s].run \in Running

\* Mutant of HeartbeatInterval: half of the timeout.
HeartbeatIntervalHalf == Min({(Timeout * Second) \div 2, 30 * Second})

\* A third of the timeout, at most 30 seconds.
HeartbeatInterval == Min({(Timeout * Second) \div 3, 30 * Second})

\* The process goes on at pc; a new step begins.
Goto(s, next) == proc' = [proc EXCEPT ![s] = [next EXCEPT !.busy = 0]]
Stop(s) == proc' = [proc EXCEPT ![s] = Idle]

(***************************************************************************)
(* The lease                                                               *)
(***************************************************************************)
\* create_scan_run reads the clock first; _load_active writes nothing.
BeginScan(s, budget, dry) ==
    /\ proc[s].pc = "idle"
    /\ Goto(s, [Idle EXCEPT !.pc = "start", !.budget = budget, !.dry = dry])
    /\ stale' = [stale EXCEPT ![s] = {r \in Running : age[r] >= Timeout}]
    /\ UNCHANGED <<run, age, match, record, review, kind, owed, phase>>

NextRun(r) == /\ run[r].status = "none"
              /\ \A q \in Run : run[q].status = "none" => r <= q

\* Mutant of Admits: spam_scan_run_one_running_idx is missing.
AdmitsAny(running) == TRUE

\* spam_scan_run_one_running_idx, for a row to be inserted as running.
Admits(running) == running = {}

\* Mutant of CreateRun: a running scan refuses the new one before the stale
\* ones are recovered.
CreateRunWithoutRecovery(s, r) ==
    /\ proc[s].pc = "start"
    /\ \/ /\ Admits(Running) /\ NextRun(r)
          /\ run' = [run EXCEPT ![r].status = "running"]
          /\ age' = [age EXCEPT ![r] = proc[s].late]
          /\ owed' = [owed EXCEPT ![s] = {p \in Repo : kind[p] # "out"}]
          /\ Goto(s, [proc[s] EXCEPT !.pc = "top", !.run = r])
       \/ /\ ~Admits(Running)
          /\ Stop(s) /\ UNCHANGED <<run, age, owed>>
    /\ stale' = [stale EXCEPT ![s] = {}]
    /\ UNCHANGED <<match, record, review, kind, phase>>

\* One transaction: the stale runs that have not been renewed since are failed
\* and the new run inserted; a run still running rolls all of it back.
CreateRun(s, r) ==
    LET recovered == stale[s] \cap Running
        others == Running \ recovered IN
    /\ proc[s].pc = "start"
    /\ \/ /\ Admits(others) /\ NextRun(r)
          /\ run' = [q \in Run |-> IF q \in recovered THEN [run[q] EXCEPT !.status = "failed"]
                                   ELSE IF q = r THEN [run[q] EXCEPT !.status = "running"]
                                   ELSE run[q]]
          /\ age' = [age EXCEPT ![r] = proc[s].late]
          /\ owed' = [owed EXCEPT ![s] = {p \in Repo : kind[p] # "out"}]
          /\ Goto(s, [proc[s] EXCEPT !.pc = "top", !.run = r])
       \/ /\ ~Admits(others)
          /\ Stop(s) /\ UNCHANGED <<run, age, owed>>
    /\ stale' = [stale EXCEPT ![s] = {}]
    /\ UNCHANGED <<match, record, review, kind, phase>>

\* Mutant of Renew: a recovery does not look at the heartbeat again.
RenewUnseen(s, next) ==
    /\ \/ /\ Holds(s)
          /\ age' = [age EXCEPT ![proc[s].run] = 0]
          /\ Goto(s, [next EXCEPT !.since = 0])
       \/ /\ ~Holds(s)
          /\ Goto(s, [proc[s] EXCEPT !.pc = "failing"])
          /\ UNCHANGED age
    /\ UNCHANGED <<run, match, record, review, kind, stale, phase>>

\* heartbeat_scan_run and what follows it: the next local state, or the
\* ScanError of a lost lease.
Renew(s, next) ==
    /\ \/ /\ Holds(s)
          /\ age' = [age EXCEPT ![proc[s].run] = 0]
          /\ stale' = [x \in Scanner |-> stale[x] \ {proc[s].run}]
          /\ Goto(s, [next EXCEPT !.since = 0])
       \/ /\ ~Holds(s)
          /\ Goto(s, [proc[s] EXCEPT !.pc = "failing"])
          /\ UNCHANGED <<age, stale>>
    /\ UNCHANGED <<run, match, record, review, kind, phase>>

\* Mutant of Updated: the update does not ask for a running row.
UpdatedAlways(r, status, count) == run' = [run EXCEPT ![r] = [status |-> status, count |-> count]]

\* update_scan_run.
Updated(r, status, count) ==
    run' = IF r \in Running THEN [run EXCEPT ![r] = [status |-> status, count |-> count]]
           ELSE run

(***************************************************************************)
(* The loop of run_scan                                                    *)
(***************************************************************************)
Remaining(s) == proc[s].budget - proc[s].count.scanned

RenewAtTop(s) ==
    /\ proc[s].pc = "top"
    /\ Renew(s, [proc[s] EXCEPT
           !.pc = IF proc[s].budget # 0 /\ proc[s].budget <= proc[s].count.scanned
                  THEN "finish" ELSE "fetch"])
    /\ UNCHANGED owed

\* Mutant of PageSize: a page is cut to the budget, not to what is left of it.
PageSizeOfBudget(s) ==
    IF proc[s].budget = 0 THEN BatchSize ELSE Min({BatchSize, proc[s].budget})

PageSize(s) == IF proc[s].budget = 0 THEN BatchSize ELSE Min({BatchSize, Remaining(s)})

\* Mutant of NextPage: the database is not asked for the rows in order of id.
NextPageUnordered(s) ==
    LET ahead == {p \in Repo : p > proc[s].last /\ kind[p] # "out"} IN
    {[id |-> p, kind |-> kind[p]] :
        p \in {q \in ahead : Cardinality({x \in ahead : x > q}) < PageSize(s)}}

\* The first PageSize repositories in scope after last_seen_id, as rows.
NextPage(s) ==
    LET ahead == {p \in Repo : p > proc[s].last /\ kind[p] # "out"} IN
    {[id |-> p, kind |-> kind[p]] :
        p \in {q \in ahead : Cardinality({x \in ahead : x < q}) < PageSize(s)}}

\* fetch_repository_batch.
Fetch(s) ==
    /\ proc[s].pc = "fetch"
    /\ Goto(s, [proc[s] EXCEPT !.page = NextPage(s),
                               !.pc = IF NextPage(s) = {} THEN "finish" ELSE "visit"])
    /\ UNCHANGED <<run, age, match, record, review, kind, stale, owed, phase>>

\* Mutant of Visited: every score passes the threshold.
VisitedAll(s, row) ==
    [proc[s] EXCEPT !.page = @ \ {row}, !.last = row.id, !.count.scanned = @ + 1,
                    !.count.matched = @ + 1, !.pc = "match"]

\* The rest of one iteration that ends before the database is written.
Visited(s, row) ==
    [proc[s] EXCEPT !.page = @ \ {row}, !.last = row.id, !.count.scanned = @ + 1,
                    !.count.matched = IF row.kind = "spam" THEN @ + 1 ELSE @,
                    !.repo = IF row.kind = "spam" THEN row.id ELSE None,
                    !.pc = IF row.kind = "spam" THEN "match" ELSE "visit"]

\* One repository of the page, in order of id, with the renewal that is due.
Visit(s, row) ==
    /\ proc[s].pc = "visit"
    /\ row \in proc[s].page /\ \A other \in proc[s].page : row.id <= other.id
    /\ \/ /\ proc[s].since >= HeartbeatInterval
          /\ Renew(s, Visited(s, row))
       \/ /\ proc[s].since < HeartbeatInterval
          /\ Goto(s, Visited(s, row))
          /\ UNCHANGED <<run, age, match, record, review, kind, stale, phase>>
    /\ owed' = [owed EXCEPT ![s] = IF proc'[s].pc = "failing" THEN @ ELSE @ \ {row.id}]

\* add_scan_match; the run is not asked whether it is still running.
AddMatch(s) ==
    /\ proc[s].pc = "match"
    /\ match' = [match EXCEPT ![proc[s].run] = @ \cup {proc[s].repo}]
    /\ Goto(s, [proc[s] EXCEPT !.pc = IF proc[s].dry THEN "visit" ELSE "flag"])
    /\ UNCHANGED <<run, age, record, review, kind, stale, owed, phase>>

\* Mutant of Counted: a record somebody else's match opened counts as flagged.
CountedTwice(count, outcome) ==
    CASE outcome = "free"       -> [count EXCEPT !.flagged = @ + 1]
      [] outcome = "open"       -> [count EXCEPT !.flagged = @ + 1]
      [] outcome = "suppressed" -> [count EXCEPT !.skipped = @ + 1]

\* A record that is returned but belongs to another match is not counted.
Counted(count, outcome) ==
    CASE outcome = "free"       -> [count EXCEPT !.flagged = @ + 1]
      [] outcome = "open"       -> count
      [] outcome = "suppressed" -> [count EXCEPT !.skipped = @ + 1]

\* create_flagged_record, as one step here: QuarantineReview has its races.
FlagMatch(s) ==
    LET p == proc[s].repo
        outcome == review[p] IN
    /\ proc[s].pc = "flag"
    /\ record' = IF outcome = "free" THEN [record EXCEPT ![proc[s].run] = @ \cup {p}]
                 ELSE record
    /\ review' = IF outcome = "free" THEN [review EXCEPT ![p] = "open"] ELSE review
    /\ Goto(s, [proc[s] EXCEPT !.pc = "visit", !.count = Counted(@, outcome)])
    /\ UNCHANGED <<run, age, match, kind, stale, owed, phase>>

EndPage(s) ==
    /\ proc[s].pc = "visit" /\ proc[s].page = {}
    /\ Goto(s, [proc[s] EXCEPT !.pc = IF Sleep > 0 THEN "nap" ELSE "top",
                               !.nap = Sleep])
    /\ UNCHANGED <<run, age, match, record, review, kind, stale, owed, phase>>

\* Mutant of Nap: the whole pause is slept in one piece.
NapWhole(s) == proc[s].nap

\* _sleep_with_lease sleeps an interval at a time.
Nap(s) == Min({proc[s].nap, HeartbeatInterval})

RenewAfterNap(s) ==
    /\ proc[s].pc = "nap" /\ proc[s].busy >= Nap(s)
    /\ Renew(s, [proc[s] EXCEPT !.nap = @ - Nap(s),
                                !.pc = IF proc[s].nap > Nap(s) THEN "nap" ELSE "top"])
    /\ UNCHANGED owed

\* The run completes; a run that was recovered meanwhile is an error.
Complete(s) ==
    /\ proc[s].pc = "finish"
    /\ Updated(proc[s].run, "completed", proc[s].count)
    /\ IF Holds(s) THEN Stop(s) ELSE Goto(s, [proc[s] EXCEPT !.pc = "failing"])
    /\ UNCHANGED <<age, match, record, review, kind, stale, owed, phase>>

Fail(s) ==
    /\ proc[s].pc = "failing"
    /\ Updated(proc[s].run, "failed", proc[s].count)
    /\ Stop(s)
    /\ UNCHANGED <<age, match, record, review, kind, stale, owed, phase>>

\* An exception in the loop.  A write it interrupts may have been committed:
\* that is the step followed by Raise, but for the count of a new record.
Raise(s) ==
    /\ proc[s].pc \in Looping
    /\ Goto(s, [proc[s] EXCEPT !.pc = "failing"])
    /\ \/ UNCHANGED <<record, review>>
       \/ /\ proc[s].pc = "flag" /\ review[proc[s].repo] = "free"
          /\ record' = [record EXCEPT ![proc[s].run] = @ \cup {proc[s].repo}]
          /\ review' = [review EXCEPT ![proc[s].repo] = "open"]
    /\ UNCHANGED <<run, age, match, kind, stale, owed, phase>>

Crash(s) ==
    /\ proc[s].pc # "idle"
    /\ Stop(s)
    /\ stale' = [stale EXCEPT ![s] = {}]
    /\ UNCHANGED <<run, age, match, record, review, kind, owed, phase>>

(***************************************************************************)
(* The world around the scans                                              *)
(***************************************************************************)
\* Owners and pushes move repositories in and out of scope; no decision
\* suppresses a new description.
RepositoryBecomes(p, k) ==
    /\ kind' = [kind EXCEPT ![p] = k]
    /\ review' \in {review, [review EXCEPT ![p] = IF @ = "suppressed" THEN "free" ELSE @]}
    /\ owed' = [s \in Scanner |-> IF k = "out" THEN owed[s] \ {p} ELSE owed[s]]
    /\ UNCHANGED <<run, age, match, record, proc, stale, phase>>

\* An operator closes a record.
Decide(p) ==
    /\ review[p] = "open"
    /\ review' = [review EXCEPT ![p] = "suppressed"]
    /\ UNCHANGED <<run, age, match, record, kind, proc, stale, owed, phase>>

\* How long the step a process is in may last.
StepLimit(s) == Slack + (IF proc[s].pc = "nap" THEN Nap(s) ELSE 0)

Aged(n, bound) == IF n < bound THEN n + 1 ELSE n

Tick ==
    LET boundary == phase = Second - 1 IN
    /\ Prompt => \A s \in Scanner : proc[s].pc # "idle" => proc[s].busy < StepLimit(s)
    /\ boundary => \A s \in Scanner : proc[s].pc = "start" => proc[s].late < StartDelay
    /\ phase' = (phase + 1) % Second
    /\ age' = [r \in Run |-> IF boundary /\ r \in Running THEN Aged(age[r], Timeout) ELSE age[r]]
    /\ proc' = [s \in Scanner |->
           IF proc[s].pc = "idle" THEN Idle
           ELSE [proc[s] EXCEPT !.since = Aged(@, HeartbeatInterval),
                                !.busy = Aged(@, StepLimit(s)),
                                !.late = IF boundary /\ proc[s].pc = "start" THEN @ + 1 ELSE @]]
    /\ UNCHANGED <<run, match, record, review, kind, stale, owed>>

(***************************************************************************)
(* The specification                                                       *)
(***************************************************************************)
Code(s) ==
    \/ \E r \in Run : CreateRun(s, r)
    \/ RenewAtTop(s) \/ Fetch(s)
    \/ (\E row \in [id: Repo, kind: Kinds] : Visit(s, row))
    \/ AddMatch(s) \/ FlagMatch(s) \/ EndPage(s) \/ RenewAfterNap(s)
    \/ Complete(s) \/ Fail(s)

Begins(s) == \E budget \in Budgets, dry \in DryRuns : BeginScan(s, budget, dry)

Next ==
    \/ \E s \in Scanner : Begins(s) \/ Code(s) \/ Raise(s) \/ Crash(s)
    \/ \E p \in Repo : (\E k \in Kinds : RepositoryBecomes(p, k)) \/ Decide(p)
    \/ Tick

Spec == Init /\ [][Next]_vars
==============================================================================
