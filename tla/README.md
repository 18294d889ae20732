# Verification of quay-service-tool

Quay-service-tool is the console and command line with which the operators of
a Quay registry look after accounts, banners and, above all, repositories whose
descriptions are spam.  This directory holds TLA+ models of it, the TLC
configurations that check them, and proofs checked by TLAPS.

Paths below are relative to `src/`; unless another directory is named, Python
files are those of `backend/spam_detection/`.

## The system

Several console workers (gunicorn with gevent) and a command line run by hand
or by cron share two PostgreSQL databases and an object store.  None of them
talks to another except through those.

| Component | State it keeps | Operations |
|---|---|---|
| Review and remediation, `remediation.py` | none of its own; each request carries what it has read | report a false negative, quarantine, restore, dismiss, redact, reopen, classify |
| State store, `store.py`, `schema.sql` | policy, classifiers, training examples, scan runs and matches, review records, action history | one transaction per function, READ COMMITTED, with partial unique indexes |
| Quay database access, `quay_db.py` | none; reads and conditionally updates the description of a repository row | page of candidates, fetch by id or name, update if still current |
| Scanner, `scanner.py` | a run row that serves as a lease, local cursor and counters | run_scan, preview, inspect_repository |
| Classifier, `classifier.py`, `training_import.py` | classifier rows, artifacts in object storage and a local cache | train, import, export, promote, activate, classify a text |
| Artifact storage, `artifact_storage.py` | an artifact object and its checksum object per version | put, get, promote between buckets |
| Connections and locks, `database.py` | a pool per process, a limiter of advisory-lock connections, schema set-up | connect, advisory lock, initialize |
| HTTP endpoints, `backend/tasks/spam_detection.py` | none | permission checks, limits, error codes in front of the above |
| Authorization, `backend/utils.py`, `backend/app.py` | none | roles of a token |
| Account tasks, `backend/tasks/*.py` | none; Quay's own data model | rename, enable, replace a robot token, federated logins, organization owners |
| Front end, `frontend/src/app` | React state | forms and reloads |

How they interact: a **scan** reads pages of the Quay database, writes matches
and opens `flagged` review records in the state store; an **operator** decides
on a record, which reads the repository in Quay, saves what is needed to undo
the decision in the state store, updates the repository in Quay only if it still
shows what was read, and commits the decision with its training example and
history row; **training** turns the examples into an artifact; **activation**
makes one classifier the one scans use.

What is hard about it:

* The two databases share no transaction.  A decision is a chain of three or
  four commits, and the process may die or be refused between any two.
* Requests check the status of a row in one transaction and write it in
  another.  Scans, operators, repository owners and policy changes interleave.
* One scan at a time is enforced by a lease: a heartbeat, a timeout, a recovery
  by whoever starts next, and a unique index.  The process that lost its lease
  learns of it late.
* Object storage writes are not part of any transaction.
* Session locks are taken over a driver that blocks the whole process, and end
  with the connection they were taken on.

What makes each component correct, in a sentence each:

* review: a repository has one record under review at most; a notice is never
  shown without the means to remove it; the owner's words survive; a decision,
  its label and its history are one; every record walks one lifecycle;
* scanner: one run is running; only a stale one is recovered; how a run ended is
  final; no repository is missed; the report agrees with the tables; every run
  ends;
* activation: the enabled classifier is the one the policy names, switched at once
  and never taken away;
* artifacts: a row never names an object that does not match its checksum, nothing
  newer is overwritten by something older, and what stopped half-way can be redone;
* connections: no worker hangs on a lock, and every request ends;
* front end: what is shown is the answer to the last question.

## Modules

| Module | What it is |
|---|---|
| `ReviewLifecycle` | the abstract promise: statuses of records and the labels decisions teach |
| `QuarantineReview` | requests, scans, owners and policy over the record, label and history tables and the Quay rows |
| `QuarantineReviewProps`, `QuarantineReviewInv` | its properties with the refinement mapping, and its inductive invariants |
| `QuarantineReviewProofs`, `ReviewLifecycleProofs` | theorems of it: for any operators, and for one at a time |
| `ScanRun` | the scan lease, the page loop, the counters, clocks |
| `ScanRunProps` | its properties and its inductive invariants |
| `ScanRunProofs`, `ScanReportsProofs`, `ScanProgressProofs` | theorems of the lease; of paging, budgets and reports; of the clocks |
| `ActiveClassifier` | the abstract promise: one active classifier, switched in one step |
| `ClassifierActivation`, `ClassifierActivationProps`, `ClassifierActivationProofs` | the transactions that switch it, statement by statement |
| `ClassifierContent` | the abstract promise: what loading a classifier gives, changed by whole imports, trainings and exports |
| `ClassifierArtifacts`, `ClassifierArtifactsProps`, `ClassifierArtifactsProofs` | import, training, export, promotion and materialization over object storage |
| `StateConnections`, `StateConnectionsProps`, `StateConnectionsProofs` | pool, limiter, session locks and the blocking driver |
| `MCQuarantineReview`, `MCScanRun`, `MCClassifierActivation`, `MCClassifierArtifacts`, `MCStateConnections` | constants, symmetry and fairness for TLC |

Three seams join them.  `QuarantineReview` and `ScanRun` share the scans: the
first has the races of the records a scan opens, the second the lease they run
under.  What `ClassifierActivation` switches is `policy.active` of
`QuarantineReview`, which may change there at any step.  `ClassifierArtifacts`
assumes that a session lock excludes other holders while a request runs;
`StateConnections` says how such a lock is had and when it is lost.

Operators whose comment starts with "Mutant of" are plausible mistakes in the
definition that follows them.  No specification uses them; each is there so that
a property can be shown to fail when the code is wrong in that way.

### QuarantineReview

State: `rec`, `label`, `audit` are the tables `spam_quarantine_record`,
`spam_training_example` (the live example of each record) and
`spam_action_history` (the newest row of each record); `policy` has the active
classifier and the notice in force; `desc` and `mode` are what the tool sees of
a repository in Quay; `req` and `scan` hold the place in the code and the locals
of each console request and each scan.  `standing` is a history variable: what a
repository would show had no notice been put up.

One action is one database round trip another process can slip between.  A
request begins with `Begin` (the row is read and its status admitted), goes
through `ChooseNotice`, `FetchForQuarantine`, `SaveOriginal`, `PutNotice`,
`PutBack`, `PutRedaction`, `FetchForDismiss`, `FetchForReopen` and
`ReadSnapshot` as its operation asks, and ends with a write transaction of two
steps: the SELECT (`SelectDecision`, `SelectForReopen`, `SelectForClassify`) and
the write up to COMMIT (`CommitQuarantine`, `CommitTerminal`, `CommitReopen`,
`CommitClassify`).  `Abort` is every error return and every crash, lost
connection, deadlock victim or rolled back transaction, at any point: what is
committed stays.  A scan's part is `LoadActive`, `MatchRepository`,
`CheckActive`, `CheckTerminal`, `CreateFlaggedRecord`; it meets each repository once
(`seen`), as its cursor does.  `OwnerWrites`, `RepositoryBecomes`,
`SetNotice` and `Activate` are the world around.

Abstractions: a text is a model value with three attributes (a notice, a
hyperlink in it, acceptable to the training corpus), and a fingerprint is the
text it hashes.  `redacted_description`, uuids, timestamps and operators' names
are left out, as are match and run ids, which are in `ScanRun`.  Owners and
redactions never write the text of a notice; visibility is folded into the mode
of a repository; classifier rows are not deleted, and an active classifier that
has no artifact is one that does not scan.  Two actions on one row that the
database serializes by a row lock are serialized by being actions.

### ScanRun

State: `run` has the rows of `spam_scan_run`, `age` the seconds since each
heartbeat, `match` and `record` what the run wrote, `proc` the place of each
process in `run_scan` with its cursor, page, counters and clocks, `stale` what
each starting scan found past the timeout.  `kind` and `review` are what a scan
finds of a repository.  `owed` is a history variable: the repositories that have
been in scope ever since the scan began and have not been visited.

`BeginScan` is the start of `create_scan_run`, up to its reading of the clock
and of the stale rows; `CreateRun` the rest of that transaction; `RenewAtTop`,
`Fetch`, `Visit`, `AddMatch`, `FlagMatch`, `EndPage`, `RenewAfterNap` are the
loop, `Complete` and `Fail` its ends.  `Raise` is an exception in the loop,
`Crash` the death of the process.  `Tick` is time.

Time: `Second` ticks make a second; the database keeps whole seconds
(`database.py:28`), so ages count second boundaries, while the process compares
fractions.  `heartbeat_scan_run` reads the clock for its UPDATE when it has its
connection, so only the flight of that one statement lies between the two, and the step
that writes a heartbeat reads its clock; in `create_scan_run`, where other statements come
between, the row gets the time the function began (`late`).
With `Prompt` false a process may stall for any time at any step.

Abstractions: the classifier and the hard filters on a row are its `kind`;
`create_flagged_record` is one step here, since its races are in
`QuarantineReview`.  That a row is opened by another scan or report between its
check and its insert is there `review = "open"`.

### ClassifierActivation

State: `rows` and `enabled` are the committed rows of `spam_classifier`, `policy`
the row count of `spam_policy` and whom its first row points at, `tx` the
transaction of each request.

An operation is a plan, the order of its statements: `create_classifier` and
`create_imported_classifier` with and without enabling, `update_classifier`
that enables, disables or renames, `update_policy` with and without a classifier,
`get_policy`.  `TakeActivationLock`, `ClearEnabled`, `WriteRow`, `EnsurePolicy`
and `SavePolicy` are the statements.  A transaction keeps its advisory and row
locks to its end (`locks`, `clears`, `wrote`), and what it has written is visible
to nobody before `Commit`.  A statement that would wait for another transaction
is not enabled.  `Abort` is an error return, a rollback or a crash.

Abstractions: classifier attributes other than `enabled` are left out; a mode is a
plan.  A second policy row, were one inserted, would be ignored by the readers,
which take the first.

### ClassifierArtifacts

State: `row` has the version and checksum of the artifact and of the base
artifact of each classifier, `examples` how often its training examples changed,
`threshold` its effective ingress threshold; `object` is the object storage,
`promoted` the promoted pair of artifact and checksum objects, `output` the local
pairs; `req` the place of each request and what it has in hand.

A request takes the session lock of its operation (`BeginImport`, `Begin`,
`TakeLock`, `LockName`: per version for an import, per classifier for training and export,
one for promotion and materialization) and walks a chain: `Lookup` or
`RefuseImport`, `ReadExamples`, `CheckVersion`, `ReadArtifact`, `ApplyPolicy`,
`Head`, `Put`, `InsertRow` or `UpdateRow`; `PutPromoted`, `PutChecksum`; `Fetch`,
`Verify`, `WriteLocal`, `WriteLocalSum`.  It may end after any step (`Abort`):
the storage and the database keep what they have.  Around them examples are
labelled or imported and thresholds set.

Abstractions: an artifact is what it was made from (its version, base, examples
and threshold) and whether its bytes are the tool's own (`form`); a checksum is
the artifact it sums, so two artifacts have the same checksum exactly when they
are the same bytes.  The text of examples and the arithmetic of training are left
out: training is a function of base and examples.  A request and its session end
together (see the observations below).

`ClassifierContent` has no storage, requests or locks: `content` is what loading
each classifier gives, `origin` the version it was imported as.  The mapping
(`ClassifierArtifactsProps`) takes for `content` what `load_artifact_from_classifier`
returns, an artifact without its bytes, or none when the object is missing or has
another checksum than the row.

### StateConnections

State: `pool` counts the idle, stale and checked-out connections of each process,
`ready` the processes that have set up the schema, `req` has each request's place,
lock, session and transaction connection; `restarts` counts server restarts.

A request comes in with `Begin` and, when its operation has a session lock, waits
for the limiter and asks for the lock (`AskLock`, `GetLock`).  The schema is set up
once per process (`Initialize`, `Initialized`); each transaction is sent and answered
(`Query`, `Answered`), and object storage is called between them (`Stored`).
`NoConnection`, `Broken` and `Raise` are the ways a request fails; `Raise` is also a
connection for the lock that cannot be opened.  While one greenlet
of a process is in the
driver (`InDriver`) no other of that process runs.  A restart closes every
connection: idle ones become stale, session locks end, queries raise.

Abstractions: what a transaction does is left out, as are its own row and advisory
locks, which are short and in the other modules.  Neither the limiter nor the wait for
a lock has a timeout, in the code or here.

## Runs

All runs pass except the two named `find_…`, which show that the code does not do
what a document says of it.

| Run | Question |
|---|---|
| `review_serial` | one operator at a time over one record, everything else free: does each record walk the lifecycle, is its history a path, does its label agree with its decision whatever labels are given by hand, are the owner's words kept, does retrying complete an interrupted quarantine? |
| `review_records` | two records of one repository: can both be under review, has a notice always a record that can lift it, does what a request has in hand agree with what it was read from? |
| `review_concurrent` | two operators and every operation: is a notice ever up before it was committed, is every decision whole? |
| `scan_lease` | processes that hang, die and recover each other: one running run, recovery only when stale, endings final, and does every run end? |
| `scan_reports` | pages over a changing set of repositories: is none missed, does the report agree with the tables, is `max_repos` kept when it ends in the middle of a second page? |
| `scan_prompt` | does a process that makes progress keep its lease, whatever the pauses, and do its clocks agree with the database's? |
| `activation` | do policy and enabled classifier switch together and at once, is the policy inserted once, can transactions wait in a circle? |
| `artifacts` | does a row always name bytes with its checksum, are objects immutable, is training ever undone, does loading a classifier only ever meet whole imports, trainings and exports? |
| `promotion` | is what reports success whole, is a torn promotion repaired, does an interrupted import complete? |
| `connections` | can a worker hang on a lock, what costs the pool a slot, does every request end? |
| `find_illegal_transition` | two operators at once make a transition the plan does not allow |
| `find_stale_match` | a record opened by a late match brings the description of its page back over what the owner wrote since |

In the trace of `find_stale_match` record 1 is flagged and another scan reads a page with
the repository's text.  The owner empties the description; the quarantine of record 1 saves
that, puts its notice up and is interrupted, and record 1 is dismissed.  The late match
opens record 2 with the text of the page; its quarantine meets the notice and keeps
that text as the original (`store.py:706`, `remediation.py:78`), and its restore puts
it over the repository.  Record 1 still has the owner's last description as its
original, but the repository shows the older one, and no record under review or notice
tells that it does.

### Disagreements and limits that other constants show

Each of these is a counterexample TLC gives when the constants or properties of a run are
changed as it says:

* with `LabelFollowsDecision` in `review_concurrent`, a label given by hand overwrites the
  one of a decision: a dismissal or a quarantine has selected the record for its last
  transaction, `classify` selects it too, still flagged (`store.py:1041`), the decision
  commits with its label, and the other transaction replaces that by the opposite.
  `test_explicit_label_is_rejected_after_remediation_decision` expects the label of the
  decision to stand; with one operator it does, as `review_serial` shows;
* with `DescriptionKeptAtRest` in `review_concurrent`, two quarantines of one record
  lose the description that the first one saved (`remediation.py:78`): the second has read
  the older one from the row, meets the notice and commits what it read;
* `DescriptionKept` speaks of repositories with one record.  With `Record = {1, 2}` in
  `review_serial` and `DescriptionKeptAtRest` in its place, the words of a repository
  with two are lost in two ways.  One
  is `find_stale_match`.  The other needs no race: a record is dismissed after its
  original was saved and before its notice was put up; the owner rewrites the
  description, a second record puts the same notice up over it and is dismissed with
  the notice on show; the first record, reopened, takes the notice for its own
  (`remediation.py:178`) and its restore brings the older words back;
* `NoticeCanBeLifted` speaks of repositories with one record, or of one notice.  With two
  of each it fails without those words: a record that meets the notice of the other
  after the policy's notice changed saves it as its original, a reopening
  keeps it, and the restore puts that notice back;
* with `blank`, a text that is not trainable, added to `review_serial`, `RetryConverges`
  holds only because it asks that the saved original be trainable: a quarantine whose text the
  corpus refuses has put its notice up before it finds out (`remediation.py:98`,
  `store.py:916`), and retrying fails the same way each time;
* with `Timeout = 1`, `Second = 3`, `StartDelay = 0` and `Slack = 0` in `scan_prompt`, a
  scan that has just renewed its heartbeat is recovered: both ends of its age are cut
  to whole seconds and compared with `<=`, although
  `test_scan_does_not_recover_long_running_scan_with_fresh_heartbeat` expects such a
  run to stay;
* the bound `Punctual` that `KeepsLease` asks is tight: with `Second = 1`, `Slack = 1`,
  `Sleep = 3` and one repository `ProgressKeepsLease` holds at `Timeout = 10`, which
  meets it with nothing left, and fails at `Timeout = 9`;
* with `LockConnections = 2` in `connections`, `NoHang` and `Served` fail: a greenlet
  waits in the driver for a lock that another greenlet of its own, stopped process
  holds.  The default is 1, and `SPAM_DETECTION_STATE_DB_LOCK_CONNECTIONS` must stay so
  in a gevent worker.

### Observations from reading and modelling

* A dismissal of a record whose quarantine was interrupted after its write to Quay
  teaches the notice itself as ham (`remediation.py:226`).
* A file is recognised on re-import by comparing the base checksum first
  (`classifier.py:232`): the current artifact of an imported classifier that has been
  trained since is refused as different content, and so is a file with the same
  meaning as a stored one when it was stored in another format and the import crashed
  before its row.
* The artifact and base columns are unique each on its own, so two classifiers can come
  to name one version, one as its artifact and one as its base.
* An artifact stored by a training that crashed before its row burns an explicit
  version if the corpus changes before the retry, and exporting an imported
  artifact under its own version with other thresholds is refused.
* A connection that the server closed while idle fails its first statement and then
  its rollback (`database.py:177`), so it is never put back: the slot is lost until
  the process ends.  `RestartCosts` says that nothing else loses one.
* A session lock is lost when the server restarts, and its request goes on beside a
  second holder; `TrainingKept` and `WholeWhenReported` assume that a request ends with
  its session.  Two lock names may also hash alike, which costs waiting only.
* The history row of a promotion is written after its lock is released: two promotions
  may be listed in the order opposite to that of their writes.
* Importing a file whose classifier exists reads `enabled` before the activation lock
  (`classifier.py:237`): which of two concurrent activations wins is not defined.
* `robot_token.py:57` catches a `Union[...]`, which no exception matches, and
  `user.py` names `DataModelException` without importing it in one handler: the error
  paths meant there raise another error.

### Bounds, and why they are enough

* Review: one repository and one or two records.  Records of different
  repositories share nothing but the policy; two records of one repository are
  what the unique index and the search for an earlier decision are about.  Two
  operators, because every race found is between two requests; the serial run
  has one so that the lifecycle can hold, and there the scan, the owner, the
  policy and crashes still interleave.  An owner's words are one text or none.  Two
  notices there, because the policy may change its notice between two steps, and one
  where there are two records; `blank`, in `review_records`, is a text the corpus refuses.
* Scans: two processes and two runs, one to be recovered and one to recover it;
  with three runs the states of the third repeat those of the second.  For the reports
  one process is enough, since two runs share only the lease, the records and their
  `review`, and its steps take no time.  Four repositories and pages of two make a
  second page as full as the first; without a budget a scan goes on until a page is
  empty, and the budget of three ends in the middle of the second page, which has to
  shrink to the one that is left.  In the lease run a timeout of two seconds of two ticks
  makes a heartbeat interval of one tick, with the
  second boundary on either side of it.  The prompt run has a timeout of seven
  seconds of two ticks, an interval of four ticks, steps of one, and a pause of 15 ticks:
  longer than the timeout of 14, so a scan that slept through it would be recovered.
  One tick of the timeout is left over by `Punctual`.
* Activation: three requests, two that race and one that waits, reads or meets what
  they leave; three classifiers, so that the enabled, the previous and a new one
  are three.  A shortest circle of waiting has two transactions, one through a third
  has three.
* Artifacts: two requests, since each property is about what one does between two
  steps of another; two classifiers and two versions, so that versions can be shared
  and left over; examples that change once and two thresholds, so that old and new
  differ.  An older training cannot overwrite a newer one there, since examples change
  only once and each training needs a version of its own; with more of either TLC does not end in
  minutes, and that half of `TrainingKept` rests on its theorem.  One uploaded file; with the same content in another format the run finds
  what the second observation above says.  The promotion run has one classifier,
  whose second artifact comes from an export to a file, and both kinds of failure.
* Connections: two requests on one worker and one on another are the two ways to wait
  for a lock, within a process and across; two lock names for holders that do not
  exclude each other; a pool that keeps one connection and may have two, so that after a
  restart has cost one slot another is left to lose.
* `CHECK_DEADLOCK FALSE` in the scan runs: a model with its run ids used up may
  stop in front of a `CreateRun`; the code does not.
* `MaxExamples` and `MaxRestarts` cap counters that the code does not; the rest of the
  integers of a run are bounded by its constants.

### Fairness

* `review_serial` (`RetrySpec`): an operator keeps opening the quarantine of a flagged
  record and each of its steps succeeds if it is tried again and again (strong
  fairness: errors are allowed any number of times, not for ever).  Nothing is
  asked of scans, owners or policy.
* `scan_lease` (`CronSpec`): time passes; the transaction that creates a run ends;
  one caller, the cron job, keeps calling and its process goes on unless it is
  killed, and it is not killed in that one transaction every time.  The other
  process may hang for ever at any other step, holding its run.
* `promotion` (`RetrySpec` of `MCClassifierArtifacts`): one caller, `persistent`, tries
  imports and promotions again and again and gets the lock when it is free often enough;
  its steps are taken or refused; storage and database stop failing one day.  The
  other request may fail for ever, but its session ends and leaves its lock: a
  connection that is gone does not hold one.
* `connections` (`FairSpec`): each request takes a step that it can take again and again.
  The greenlet scheduler, the limiter and PostgreSQL's lock queue are first come first
  served, and calls to storage have timeouts.

## Proofs

TLAPS checks the following for every value of the constants: any number of
operators, scans, requests, workers, records, runs, repositories and versions,
any texts, any timing.  Each rests on the named assumption of its module; TLC
evaluates these on every run.  A theorem that needs more says so in its ASSUME, and
the paragraph on it says why: `Serial`, `Punctual`, uploads without a base, one lock
connection.

### Review: `ReviewAssumption`

`QuarantineReviewProofs`, any number of operators:

* `Inductive`: `ReviewInv` holds in every reachable state.  It is the conjunction
  of `TypeOK`, `OneActivePerRepository`, `DecisionsRecorded` and `NoticeTracked`
  with `RowsWhole` (a quarantined row has its notice), `RequestWhole` (a request
  points at an existing row and has in hand what its next write needs) and
  `ScanWhole`.  The last three are why the first are inductive: a commit writes
  what was read several steps before, so the invariant must say what a request
  carries at each step.
* `TypeCorrect`, `OneActive`, `DecisionsAreRecorded`, `NoticesAreTracked`: its parts.
  `NoticeTracked` is about the order of two commits only, that of the notice in the
  state database and that of the write to Quay; the record it speaks of may have been
  decided since.  That a notice on show can be lifted is `NoticesCanBeLifted`, with one
  operator at a time.

The argument: every write to the tables is one operator, `Write`, so one lemma
(`WriteStep`) says under which conditions on the new row the invariant survives,
and one lemma per group of actions shows that what the request carries meets
them.  Steps that change no table leave the rest as it was (`RequestStep`,
`ScanStep`).

`ReviewLifecycleProofs`:

* `LifecycleImplemented`, `HistoryIsKept`: with one operator at a time
  (`Serial`) the specification implements `ReviewLifecycle`, and histories are paths.
  The strengthening is `StatusHeld`: a record has the status its request was opened
  for, up to the commit.  It is what two operators break, as
  `find_illegal_transition` shows.  `SerialStep` says that every step is the walk of
  one record, with its label and history, or changes none of the three.
* `WordsInductive`: `DescriptionInv` holds with one operator at a time, for any number of
  records, repositories, texts and notices, scans, owner edits and crashes; from it
  `WordsAreKept` and `NoticesCanBeLifted`.  What keeps the words safe through four commits
  in two databases is what the one request in flight carries (`Carries`): the text it
  is about to put over the repository is the one it fetched or its record's saved
  original, and if the owner has written since, the conditional update of Quay
  will refuse it.  `Covers` says which record a notice on show can be undone from.
  `StatusHeld` is needed too: nobody decides on the record under the request that works on
  it.  No record is under review beside another
  (`OneActive`), but decided ones pile up, which is why `DescriptionKept` is about
  repositories with one record, and `NoticeCanBeLifted` about these or a policy whose
  notice never changed (see the counterexamples above);
* `LabelsFollow`: with one operator at a time labels follow decisions, labels given by
  hand included; the status a request was admitted on is still the record's when it
  writes the label.  With two they need not (see the
  counterexamples above).

### Scans: `ScanAssumption`

`StartDelay < Timeout` says that creating a run takes less than the stale timeout,
which is an hour by default: otherwise a row could be stale when it is inserted.
`0 \notin Repo` says that ids start at 1: a scan starts after `last_seen_id = 0`.

`ScanRunProofs`:

* `LeaseInductive`: `LeaseInv` holds in every reachable state.  It is `TypeOK`,
  `OneRunning`, `InHand` (a process in the loop knows its run) and `StaleStayOld`
  (what a starting scan found past the timeout still is, or has ended).
* `ScanTyped`, `OneRunningRun`: its parts.
* `EndedForGood`, `RecoveredWhenStale`: action properties.  One lemma,
  `RowsStep`, says what a step may do to a row; the second theorem rests on
  `StaleStayOld`, that is, on the comparison the UPDATE repeats.

`ScanReportsProofs`: `NothingIsMissed` and `BudgetIsKept`, from `CursorInv`: the
cursor has passed nothing that is still owed, nothing owed lies between it and the
end of the page that the page leaves out, and what is scanned and the rest of the
page fit the budget.  Under it are two facts about sets of ids: the rows of a page
are the first n of those ahead, so they are at most n (`FirstAreFew`, by counting
those below each), and a page is empty only if nothing is ahead (`LeastOf`, by
well-foundedness).

There too `ReportsAreTold`, from `TablesInv`: only the owner of a run
writes rows for it, a run has one owner, and what that process has counted agrees with
the rows at each step between two writes.  It uses `CursorInv`: a repository met
once is never met again, so each match adds a row.

`ScanProgressProofs`: `ProgressInductive` and `KeepsLease`, under `Punctual`: steps take
at most `Slack` ticks (`Prompt`), and the stale timeout leaves room for an interval
that had one tick to go, four such steps, a piece of the pause and the second
that rounding takes off.  With the settings the code ships, a timeout of an hour and
an interval of at most 30 seconds, that leaves each step hundreds of seconds.  `ProgressInv`
says what each clock is worth: `Elapsed` is the age of a heartbeat in ticks, at most a
second more than the row tells; the process's own clock is never behind it by a second
(`since`); and no older than `Arrival` says when it comes to each
place of the loop.  The lease is lost only when a row is as old as the timeout, and
`Arrival`, a step and a second add up to less.  The invariant needs the run that is not
inserted yet (`start`): its heartbeat is as old as `create_scan_run` has been running.

### Activation: `ActivationAssumption`

`ClassifierActivationProofs`: `ActivationInductive` proves `AInv`: types, exclusive
locks, the policy pointing at the enabled classifier, one policy row, and for each
transaction a ledger of the locks and uncommitted writes its place in its plan
implies.  From it `ActivationTyped`, `PolicyOnce`, `ActivationSwitches` (every commit is
one step of `ActiveClassifier` or a stutter) and `ActivationNeverDeadlocks`: each
transaction waits only for ones nearer to their end, by a rank on the places of the
plans, so no set of them waits in a circle.

### Artifacts: `ArtifactAssumption`

`ClassifierArtifactsProofs` has a chain of invariants: `BaseInv` (types, what each
request has in hand, one holder per lock), then `StoreInv` (what a request is about to
enter in a row is stored under that version), then `PromInv` and `TrainInv`.  From it
`ArtifactsTyped`, `RowsAreStored`, `ObjectsAreStoredOnce`,
`ReportedPairsAreWhole` and `TrainingIsKept`.  The last asks that files from
elsewhere have no base artifact, since the base is how the property tells an artifact
trained here.

`ContentImplemented`: the specification implements `ClassifierContent`, under the same
hypothesis.  Of the chain of steps of a request three are visible, `InsertRow`,
`UpdateRow` and `ChangeExamples`; all others leave what is loaded as it was
(`LoadedStays`), since a row names an object that is there with its checksum and objects
do not change.  `InsertRow` is an `Import`; `UpdateRow` is a `Train` or an `Export`
because the base and the examples of what the request has in hand are
those of the row it is about to write, however many steps ago it read them.  That is
`MayReplace`, a part of `TrainInv`, and it lasts since training and export share a lock
(`OneTrainer`).

### Connections: `ConnectionsAssumption`, `LimitsAssumption`

`StateConnectionsProofs`: `ConnectionsInductive` proves `ConnInv`: the shape of each
request, that checked-out connections are those of requests or lost to a restart, that a
pool keeps no more than its minimum, and
that no more than `LockConnections` requests of a process are past the limiter.  From it
`ConnectionsTyped`, `RestartsCostTheMinimum` (each kind of step accounts for what it
adds to and takes from the used, the stale and the checked-out) and, for `LockConnections = 1`,
`WorkersNeverHang`.

### Only model-checked

Liveness (`RetryConverges`, `EveryRunEnds`, `PromotionRepaired`, `ImportCompleted`,
`Served`), which is out of the prover's reach.  Every invariant and every action
property that a passing run checks is also a theorem.

## Not modelled

* Text classification: a pure function on floating-point numbers, and the windows a
  long text is cut into; there is no state or order of events to explore.
* What the HTTP endpoints and the command line put in front of the operations:
  permission checks, bounds, parsing, error codes, and the history rows they write
  after a call, which nothing reads back.  Authentication likewise.
* Account tasks and banners: they call Quay's own data model, whose state and
  constraints are not in this repository.
* The CSV import of training examples, beyond that each of its rows commits on its own:
  it adds examples, which `ClassifierArtifacts` counts.
* The front end: it keeps no state that the back end reads.
* Build, demo and deployment files.

Left for later: a
composition of `ClassifierArtifacts` with the loss of locks of `StateConnections`,
to say what remains true of the requests in flight at a restart.
