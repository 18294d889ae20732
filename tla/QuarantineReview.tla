--------------------------- MODULE QuarantineReview ---------------------------
(***************************************************************************)
(* The review and remediation of flagged repositories:                     *)
(* backend/spam_detection/remediation.py over the record, feedback and     *)
(* history tables of backend/spam_detection/store.py and the repository    *)
(* row of the Quay database.                                               *)
(*                                                                         *)
(* The state database and the Quay database share no transaction, so a     *)
(* request is a chain of steps, one per database round trip another        *)
(* request can slip between.  What a request has read so far lives in      *)
(* req[o]; every value it later writes is computed from there.  A state    *)
(* transaction that reads before it writes is two steps, the read and the  *)
(* write-to-commit: READ COMMITTED lets others commit in between.          *)
(***************************************************************************)
EXTENDS Naturals

CONSTANTS
    Operator,       \* requests of the review console that may be in flight
    Scanner,        \* scan processes
    Record,         \* ids of spam_quarantine_record, in order of creation
    Repo,           \* repositories of Quay
    Artifact,       \* classifier artifacts (version and checksum)
    Text,           \* descriptions a repository can carry
    Notice,         \* quarantine notices, the texts only this tool writes
    Linked,         \* texts with a hyperlink, the ones a scan can match
    Trainable,      \* texts the training corpus accepts
    RescanTerminal, \* the policy's rescan_terminal_records
    Kinds,          \* the review operations of this instance
    Modes,          \* the repository modes of this instance
    None            \* NULL

ASSUME ReviewAssumption ==
    /\ Record \subseteq Nat
    /\ Notice \subseteq Text /\ Linked \subseteq Text /\ Trainable \subseteq Text
    /\ RescanTerminal \in BOOLEAN
    /\ Kinds \subseteq {"quarantine", "restore", "dismiss", "redact",
                        "reopen", "classify", "flag"}
    /\ Modes \subseteq {"empty", "tagged", "inactive", "gone"}
    /\ None \notin Record \cup Repo \cup Artifact \cup Text

VARIABLES
    rec,     \* rows of spam_quarantine_record
    label,   \* the live (not invalidated) training example of each record
    audit,   \* the newest spam_action_history row of each record
    policy,  \* spam_policy: the active classifier and the notice in force, its
             \* quarantine_description or DEFAULT_QUARANTINE_DESCRIPTION
    desc,    \* description of each repository in the Quay database
    mode,    \* what else the tool asks about a repository
    standing, \* history: what it would show had no notice been put up: the last
              \* description the owner wrote or an operator redacted it to
    req,     \* each console request: its place in the code and its locals
    scan     \* each scan process likewise

vars == <<rec, label, audit, policy, desc, mode, standing, req, scan>>

Description == Text \cup {None}
OwnerText   == Description \ Notice
Active      == {"flagged", "quarantined"}
Terminal    == {"restored", "dismissed", "redacted"}

\* "inactive": state # 0; "tagged": an active tag; "gone": no row.  Every
\* repository starts "empty".
Mode == Modes \cup {"empty"}

Status == Active \cup Terminal \cup {"absent"}

\* A row's terminal snapshot and fingerprint are terminalBy and terminalText:
\* a fingerprint is modelled as the text it hashes.
Row == [repo: Repo \cup {None}, status: Status,
        original: Description, notice: Notice \cup {None},
        classifier: Artifact \cup {None},
        terminalBy: Artifact \cup {None}, terminalText: Description]

NoRow == [repo |-> None, status |-> "absent", original |-> None, notice |-> None,
          classifier |-> None, terminalBy |-> None, terminalText |-> None]

FlaggedRow(p, text, artifact) ==
    [NoRow EXCEPT !.repo = p, !.status = "flagged", !.original = text,
                  !.classifier = artifact]

Example == [label: {"none", "spam", "ham"}, text: Description]
NoExample == [label |-> "none", text |-> None]

Entry == [from: Status, to: Status]

\* pc names what the request does next; snap is the row get_quarantine_record
\* returned, kept until its last use; from the status the write transaction
\* selected, text the text the decision is about and shown the text whose
\* fingerprint a terminal row keeps.
Request == [pc: {"idle", "open", "fetch", "save", "cas", "snapshot", "decide",
                 "commit", "inspect", "insert"},
            kind: Kinds \cup {"none"}, id: Record \cup {None}, snap: Row,
            notice: Notice \cup {None}, text: Description, shown: Description,
            artifact: Artifact \cup {None}, from: Status]

NoRequest == [pc |-> "idle", kind |-> "none", id |-> None, snap |-> NoRow,
              notice |-> None, text |-> None, shown |-> None,
              artifact |-> None, from |-> "absent"]

\* seen are the repositories the scan's cursor has passed.
Scan == [pc: {"idle", "scanning", "matched", "terminal", "insert"},
         artifact: Artifact \cup {None}, repo: Repo \cup {None}, text: Description,
         seen: SUBSET Repo]

NoScan == [pc |-> "idle", artifact |-> None, repo |-> None, text |-> None, seen |-> {}]

TypeOK ==
    /\ rec \in [Record -> Row]
    /\ label \in [Record -> Example]
    /\ audit \in [Record -> Entry]
    /\ policy \in [notice: Notice, active: Artifact \cup {None}]
    /\ desc \in [Repo -> Description]
    /\ mode \in [Repo -> Mode]
    /\ standing \in [Repo -> Description]
    /\ req \in [Operator -> Request]
    /\ scan \in [Scanner -> Scan]

Init ==
    /\ rec = [r \in Record |-> NoRow]
    /\ label = [r \in Record |-> NoExample]
    /\ audit = [r \in Record |-> [from |-> "absent", to |-> "absent"]]
    /\ policy \in [notice: Notice, active: Artifact \cup {None}]
    /\ desc \in [Repo -> OwnerText]
    /\ mode = [p \in Repo |-> "empty"]
    /\ standing = desc
    /\ req = [o \in Operator |-> NoRequest]
    /\ scan = [s \in Scanner |-> NoScan]

(***************************************************************************)
(* Reads and constraints of the record table                               *)
(***************************************************************************)
ActiveOf(p) == {r \in Record : rec[r].repo = p /\ rec[r].status \in Active}

\* Mutant of IndexAllows: the unique index is missing from the schema.
NoIndex(r, p) == TRUE

\* spam_quarantine_one_active_repo_idx, for row r of p about to become active.
IndexAllows(r, p) == ActiveOf(p) \subseteq {r}

\* BIGSERIAL: the next unused id.
NextId(r) == /\ rec[r].status = "absent"
             /\ \A q \in Record : rec[q].status = "absent" => r <= q

LatestTerminal(r, p) ==
    /\ rec[r].repo = p /\ rec[r].status \in Terminal
    /\ \A q \in Record : rec[q].repo = p /\ rec[q].status \in Terminal => q <= r

\* The newest decision on p was about this very text and artifact.
TerminalMatches(p, text, artifact) ==
    \E r \in Record : /\ LatestTerminal(r, p)
                      /\ rec[r].terminalText = text
                      /\ rec[r].terminalBy = artifact

\* Mutant of Write: the history row is written from the row selected before
\* the UPDATE on both sides.
WriteHistoryFirst(r, row, example, from) ==
    /\ rec' = [rec EXCEPT ![r] = row]
    /\ label' = [label EXCEPT ![r] = example]
    /\ audit' = [audit EXCEPT ![r] = [from |-> from, to |-> from]]

\* One committed write transaction on row r.
Write(r, row, example, from) ==
    /\ rec' = [rec EXCEPT ![r] = row]
    /\ label' = [label EXCEPT ![r] = example]
    /\ audit' = [audit EXCEPT ![r] = [from |-> from, to |-> row.status]]

Advance(o, next) == req' = [req EXCEPT ![o] = next]
Finish(o)        == Advance(o, NoRequest)

At(o, kinds, pc) == req[o].kind \in kinds /\ req[o].pc = pc

(***************************************************************************)
(* Opening a request: get_quarantine_record and the status check           *)
(***************************************************************************)
\* Mutant of Opens: redact also accepts a record nobody has quarantined yet.
OpensRedactEarly == [quarantine |-> {"flagged"}, restore |-> {"quarantined"},
                     redact |-> Active, dismiss |-> Active,
                     reopen |-> {"restored", "dismissed"},
                     classify |-> Active \cup Terminal]

Opens == [quarantine |-> {"flagged"}, restore |-> {"quarantined"},
          redact |-> {"quarantined"}, dismiss |-> Active,
          reopen |-> {"restored", "dismissed"}, classify |-> Active \cup Terminal]

\* The terminal columns are never used from here.
Read(r) == [rec[r] EXCEPT !.terminalBy = None, !.terminalText = None]

Begin(o, kind, r) ==
    /\ req[o].pc = "idle" /\ kind \in Kinds \ {"flag"}
    /\ rec[r].status \in Opens[kind]
    /\ Advance(o, [NoRequest EXCEPT !.pc = "open", !.kind = kind, !.id = r,
                                    !.snap = Read(r)])
    /\ UNCHANGED <<rec, label, audit, policy, desc, mode, standing, scan>>

\* Every error return, and every crash, lost connection or aborted
\* transaction: what is committed stays, what the request had read is gone.
Abort(o) ==
    /\ req[o].pc # "idle"
    /\ Finish(o)
    /\ UNCHANGED <<rec, label, audit, policy, desc, mode, standing, scan>>

(***************************************************************************)
(* quarantine                                                              *)
(***************************************************************************)
ChooseNotice(o) ==
    /\ At(o, {"quarantine"}, "open")
    /\ Advance(o, [req[o] EXCEPT !.pc = "fetch",
           !.notice = IF req[o].snap.notice # None THEN req[o].snap.notice
                      ELSE policy.notice])
    /\ UNCHANGED <<rec, label, audit, policy, desc, mode, standing, scan>>

\* Mutant of FetchForQuarantine: the write to Quay comes before the original
\* is saved, which is left to the last transaction.
FetchWithoutSaving(o) ==
    LET p == req[o].snap.repo IN
    /\ At(o, {"quarantine"}, "fetch")
    /\ mode[p] \in {"empty", "inactive"}
    /\ Advance(o, [req[o] EXCEPT !.pc = "cas", !.text = desc[p]])
    /\ UNCHANGED <<rec, label, audit, policy, desc, mode, standing, scan>>

\* Mutant of FetchForQuarantine: a repository that already shows the notice is
\* refused, as one somebody else has quarantined.
FetchRefusingNotice(o) ==
    LET p == req[o].snap.repo IN
    /\ At(o, {"quarantine"}, "fetch")
    /\ mode[p] \in {"empty", "inactive"}
    /\ desc[p] # req[o].notice
    /\ Advance(o, [req[o] EXCEPT !.pc = "save", !.text = desc[p]])
    /\ UNCHANGED <<rec, label, audit, policy, desc, mode, standing, scan>>

\* The repository's state column is not looked at, only its tags.
FetchForQuarantine(o) ==
    LET p == req[o].snap.repo IN
    /\ At(o, {"quarantine"}, "fetch")
    /\ mode[p] \in {"empty", "inactive"}
    /\ \/ /\ desc[p] = req[o].notice
          /\ Advance(o, [req[o] EXCEPT !.pc = "decide", !.text = req[o].snap.original])
       \/ /\ desc[p] # req[o].notice
          /\ Advance(o, [req[o] EXCEPT !.pc = "save", !.text = desc[p]])
    /\ UNCHANGED <<rec, label, audit, policy, desc, mode, standing, scan>>

\* Mutant of SaveOriginal: an original saved earlier is kept, though the owner
\* has rewritten the description since.
SaveOriginalOnce(o) ==
    /\ At(o, {"quarantine"}, "save")
    /\ rec' = [rec EXCEPT ![req[o].id].original = IF @ = None THEN req[o].text ELSE @,
                          ![req[o].id].notice = req[o].notice]
    /\ Advance(o, [req[o] EXCEPT !.pc = "cas"])
    /\ UNCHANGED <<label, audit, policy, desc, mode, standing, scan>>

\* update_quarantine_fields commits on its own, before the Quay write.
SaveOriginal(o) ==
    /\ At(o, {"quarantine"}, "save")
    /\ rec' = [rec EXCEPT ![req[o].id].original = req[o].text,
                          ![req[o].id].notice = req[o].notice]
    /\ Advance(o, [req[o] EXCEPT !.pc = "cas"])
    /\ UNCHANGED <<label, audit, policy, desc, mode, standing, scan>>

\* update_repository_description_if_current.
PutNotice(o) ==
    LET p == req[o].snap.repo IN
    /\ At(o, {"quarantine"}, "cas")
    /\ mode[p] # "gone" /\ desc[p] = req[o].text
    /\ desc' = [desc EXCEPT ![p] = req[o].notice]
    /\ Advance(o, [req[o] EXCEPT !.pc = "decide"])
    /\ UNCHANGED <<rec, label, audit, policy, mode, standing, scan>>

(***************************************************************************)
(* restore, redact, dismiss and reopen up to their state transaction       *)
(***************************************************************************)
\* Mutant of PutBack: a repository that still shows the notice is let through
\* without the write.
PutBackNothing(o) ==
    LET p == req[o].snap.repo
        original == req[o].snap.original IN
    /\ At(o, {"restore"}, "open")
    /\ mode[p] # "gone" /\ desc[p] \in {original, req[o].snap.notice}
    /\ Advance(o, [req[o] EXCEPT !.pc = "snapshot", !.text = original, !.shown = original])
    /\ UNCHANGED <<rec, label, audit, policy, desc, mode, standing, scan>>

\* The fetch and the conditional write of one Quay transaction: a write that
\* fails its condition is an error return, so the two are one step.
PutBack(o) ==
    LET p == req[o].snap.repo
        original == req[o].snap.original IN
    /\ At(o, {"restore"}, "open")
    /\ mode[p] # "gone" /\ desc[p] \in {original, req[o].snap.notice}
    /\ desc' = [desc EXCEPT ![p] = original]
    /\ Advance(o, [req[o] EXCEPT !.pc = "snapshot", !.text = original, !.shown = original])
    /\ UNCHANGED <<rec, label, audit, policy, mode, standing, scan>>

PutRedaction(o, redaction) ==
    LET p == req[o].snap.repo IN
    /\ At(o, {"redact"}, "open")
    /\ mode[p] # "gone" /\ desc[p] \in {redaction, req[o].snap.notice}
    /\ desc' = [desc EXCEPT ![p] = redaction]
    /\ standing' = [standing EXCEPT ![p] = redaction]
    /\ Advance(o, [req[o] EXCEPT !.pc = "snapshot", !.text = req[o].snap.original,
                                 !.shown = redaction])
    /\ UNCHANGED <<rec, label, audit, policy, mode, scan>>

FetchForDismiss(o) ==
    LET p == req[o].snap.repo IN
    /\ At(o, {"dismiss"}, "open")
    /\ mode[p] # "gone"
    /\ Advance(o, [req[o] EXCEPT !.pc = "snapshot", !.shown = desc[p],
           !.text = IF req[o].snap.status = "quarantined" THEN req[o].snap.original
                    ELSE desc[p]])
    /\ UNCHANGED <<rec, label, audit, policy, desc, mode, standing, scan>>

\* Mutant of FetchForReopen: the text on show is taken, notice or not.
FetchForReopenShown(o) ==
    /\ At(o, {"reopen"}, "open")
    /\ mode[req[o].snap.repo] = "empty"
    /\ Advance(o, [req[o] EXCEPT !.pc = "snapshot", !.text = desc[req[o].snap.repo]])
    /\ UNCHANGED <<rec, label, audit, policy, desc, mode, standing, scan>>

\* A repository that still shows the record's notice is reviewed for the text
\* the notice replaced.
FetchForReopen(o) ==
    LET p == req[o].snap.repo IN
    /\ At(o, {"reopen"}, "open")
    /\ mode[p] = "empty"
    /\ Advance(o, [req[o] EXCEPT !.pc = "snapshot",
           !.text = IF desc[p] = req[o].snap.notice THEN req[o].snap.original
                    ELSE desc[p]])
    /\ UNCHANGED <<rec, label, audit, policy, desc, mode, standing, scan>>

\* _terminal_fields, and the same choice in reopen.
ReadSnapshot(o) ==
    /\ req[o].pc = "snapshot"
    /\ Advance(o, [req[o] EXCEPT !.pc = "decide",
           !.artifact = IF policy.active # None THEN policy.active
                        ELSE req[o].snap.classifier])
    /\ UNCHANGED <<rec, label, audit, policy, desc, mode, standing, scan>>

(***************************************************************************)
(* The write transactions of the state database                            *)
(***************************************************************************)
\* update_quarantine_record: the training text is validated, then the row is
\* selected; its status is kept for the history row and compared with nothing.
SelectDecision(o) ==
    /\ At(o, {"quarantine", "restore", "redact", "dismiss"}, "decide")
    /\ req[o].text \in Trainable
    /\ Advance(o, [req[o] EXCEPT !.pc = "commit", !.snap = NoRow,
                                 !.from = rec[req[o].id].status])
    /\ UNCHANGED <<rec, label, audit, policy, desc, mode, standing, scan>>

\* Mutant of CommitQuarantine: the training feedback is left out.
CommitQuarantineUnlabelled(o) ==
    LET r == req[o].id IN
    /\ At(o, {"quarantine"}, "commit")
    /\ IndexAllows(r, rec[r].repo)
    /\ Write(r, [rec[r] EXCEPT !.status = "quarantined", !.original = req[o].text,
                               !.notice = req[o].notice],
             label[r], req[o].from)
    /\ Finish(o)
    /\ UNCHANGED <<policy, desc, mode, standing, scan>>

\* A violated unique index is an error return: see Abort.
CommitQuarantine(o) ==
    LET r == req[o].id IN
    /\ At(o, {"quarantine"}, "commit")
    /\ IndexAllows(r, rec[r].repo)
    /\ Write(r, [rec[r] EXCEPT !.status = "quarantined", !.original = req[o].text,
                               !.notice = req[o].notice],
             [label |-> "spam", text |-> req[o].text], req[o].from)
    /\ Finish(o)
    /\ UNCHANGED <<policy, desc, mode, standing, scan>>

\* Mutant of Outcome: a status the schema's CHECK does not list.
OutcomeMistyped == [restore |-> "restored", redact |-> "removed", dismiss |-> "dismissed"]

Outcome == [restore |-> "restored", redact |-> "redacted", dismiss |-> "dismissed"]
Teaches == [restore |-> "ham", redact |-> "spam", dismiss |-> "ham"]

CommitTerminal(o) ==
    LET r == req[o].id
        kind == req[o].kind IN
    /\ At(o, {"restore", "redact", "dismiss"}, "commit")
    /\ Write(r, [rec[r] EXCEPT !.status = Outcome[kind], !.terminalBy = req[o].artifact,
                               !.terminalText = req[o].shown],
             [label |-> Teaches[kind], text |-> req[o].text], req[o].from)
    /\ Finish(o)
    /\ UNCHANGED <<policy, desc, mode, standing, scan>>

\* reopen_terminal_record repeats the status check on the row it selects.
SelectForReopen(o) ==
    LET r == req[o].id IN
    /\ At(o, {"reopen"}, "decide")
    /\ rec[r].status \in {"restored", "dismissed"}
    /\ ActiveOf(rec[r].repo) \subseteq {r}
    /\ Advance(o, [req[o] EXCEPT !.pc = "commit", !.snap = NoRow,
                                 !.from = rec[r].status])
    /\ UNCHANGED <<rec, label, audit, policy, desc, mode, standing, scan>>

CommitReopen(o) ==
    LET r == req[o].id IN
    /\ At(o, {"reopen"}, "commit")
    /\ IndexAllows(r, rec[r].repo)
    /\ Write(r, [rec[r] EXCEPT !.status = "flagged", !.original = req[o].text,
                               !.classifier = req[o].artifact,
                               !.terminalBy = None, !.terminalText = None],
             NoExample, req[o].from)
    /\ Finish(o)
    /\ UNCHANGED <<policy, desc, mode, standing, scan>>

\* Mutant of SelectForClassify: a label is taken whatever the record's status.
SelectAnyForClassify(o) ==
    LET r == req[o].id IN
    /\ At(o, {"classify"}, "open")
    /\ rec[r].original \in Trainable
    /\ Advance(o, [req[o] EXCEPT !.pc = "commit", !.snap = NoRow,
                                 !.text = rec[r].original, !.from = rec[r].status])
    /\ UNCHANGED <<rec, label, audit, policy, desc, mode, standing, scan>>

SelectForClassify(o) ==
    LET r == req[o].id IN
    /\ At(o, {"classify"}, "open")
    /\ rec[r].status = "flagged" /\ rec[r].original \in Trainable
    /\ Advance(o, [req[o] EXCEPT !.pc = "commit", !.snap = NoRow,
                                 !.text = rec[r].original, !.from = "flagged"])
    /\ UNCHANGED <<rec, label, audit, policy, desc, mode, standing, scan>>

\* The history row repeats the selected status on both sides.
CommitClassify(o, verdict) ==
    LET r == req[o].id IN
    /\ At(o, {"classify"}, "commit")
    /\ label' = [label EXCEPT ![r] = [label |-> verdict, text |-> req[o].text]]
    /\ audit' = [audit EXCEPT ![r] = [from |-> req[o].from, to |-> req[o].from]]
    /\ Finish(o)
    /\ UNCHANGED <<rec, policy, desc, mode, standing, scan>>

(***************************************************************************)
(* add_false_negative                                                      *)
(***************************************************************************)
BeginFlag(o) ==
    /\ req[o].pc = "idle" /\ "flag" \in Kinds
    /\ policy.active # None
    /\ Advance(o, [NoRequest EXCEPT !.pc = "inspect", !.kind = "flag",
                                    !.artifact = policy.active])
    /\ UNCHANGED <<rec, label, audit, policy, desc, mode, standing, scan>>

InspectRepository(o, p) ==
    /\ At(o, {"flag"}, "inspect")
    /\ mode[p] = "empty" /\ desc[p] \in Linked \cap Trainable
    /\ Advance(o, [req[o] EXCEPT !.pc = "insert",
           !.snap = FlaggedRow(p, desc[p], req[o].artifact)])
    /\ UNCHANGED <<rec, label, audit, policy, desc, mode, standing, scan>>

CreateManualFlaggedRecord(o, r) ==
    LET row == req[o].snap IN
    /\ At(o, {"flag"}, "insert")
    /\ ActiveOf(row.repo) = {}
    /\ NextId(r)
    /\ Write(r, row, [label |-> "spam", text |-> row.original], "absent")
    /\ Finish(o)
    /\ UNCHANGED <<policy, desc, mode, standing, scan>>

(***************************************************************************)
(* run_scan, as far as it opens records                                    *)
(***************************************************************************)
Proceed(s, next) == scan' = [scan EXCEPT ![s] = next]
KeepScanning(s)  == Proceed(s, [NoScan EXCEPT !.pc = "scanning", !.seen = scan[s].seen,
                                              !.artifact = scan[s].artifact])

LoadActive(s) ==
    /\ scan[s].pc = "idle" /\ policy.active # None
    /\ Proceed(s, [NoScan EXCEPT !.pc = "scanning", !.artifact = policy.active])
    /\ UNCHANGED <<rec, label, audit, policy, desc, mode, standing, req>>

\* A fetched page row that passes the hard filters and scores high enough; the
\* cursor visits each repository once in a scan.
MatchRepository(s, p) ==
    /\ scan[s].pc = "scanning" /\ p \notin scan[s].seen
    /\ mode[p] = "empty" /\ desc[p] \in Linked
    /\ Proceed(s, [scan[s] EXCEPT !.pc = "matched", !.repo = p, !.text = desc[p],
                                  !.seen = @ \cup {p}])
    /\ UNCHANGED <<rec, label, audit, policy, desc, mode, standing, req>>

\* create_flagged_record up to its INSERT is two SELECTs: an active record is left
\* alone...
CheckActive(s) ==
    LET active == ActiveOf(scan[s].repo) IN
    /\ scan[s].pc = "matched"
    /\ \/ active # {} /\ KeepScanning(s)
       \/ /\ active = {}
          /\ Proceed(s, [scan[s] EXCEPT !.pc = IF RescanTerminal THEN "insert"
                                               ELSE "terminal"])
    /\ UNCHANGED <<rec, label, audit, policy, desc, mode, standing, req>>

\* ... and an unchanged decision suppresses a new record.
CheckTerminal(s) ==
    LET decided == TerminalMatches(scan[s].repo, scan[s].text, scan[s].artifact) IN
    /\ scan[s].pc = "terminal"
    /\ \/ decided /\ KeepScanning(s)
       \/ ~decided /\ Proceed(s, [scan[s] EXCEPT !.pc = "insert"])
    /\ UNCHANGED <<rec, label, audit, policy, desc, mode, standing, req>>

\* The INSERT; the unique index turns a lost race into "already flagged".
CreateFlaggedRecord(s, r) ==
    LET p == scan[s].repo IN
    /\ scan[s].pc = "insert"
    /\ \/ /\ NextId(r) /\ IndexAllows(r, p)
          /\ Write(r, FlaggedRow(p, scan[s].text, scan[s].artifact), NoExample, "absent")
       \/ /\ ActiveOf(p) # {}
          /\ UNCHANGED <<rec, label, audit>>
    /\ KeepScanning(s)
    /\ UNCHANGED <<policy, desc, mode, standing, req>>

\* The last page, a lost lease or a crash.
EndScan(s) ==
    /\ scan[s].pc # "idle"
    /\ Proceed(s, NoScan)
    /\ UNCHANGED <<rec, label, audit, policy, desc, mode, standing, req>>

(***************************************************************************)
(* The world around the tool                                               *)
(***************************************************************************)
OwnerWrites(p, text) ==
    /\ mode[p] # "gone"
    /\ desc' = [desc EXCEPT ![p] = text]
    /\ standing' = [standing EXCEPT ![p] = text]
    /\ UNCHANGED <<rec, label, audit, policy, mode, req, scan>>

RepositoryBecomes(p, m) ==
    /\ mode[p] # "gone"
    /\ mode' = [mode EXCEPT ![p] = m]
    /\ UNCHANGED <<rec, label, audit, policy, desc, standing, req, scan>>

\* update_policy.
SetNotice(notice) ==
    /\ policy' = [policy EXCEPT !.notice = notice]
    /\ UNCHANGED <<rec, label, audit, desc, mode, standing, req, scan>>

Activate(artifact) ==
    /\ policy' = [policy EXCEPT !.active = artifact]
    /\ UNCHANGED <<rec, label, audit, desc, mode, standing, req, scan>>

(***************************************************************************)
(* The specification                                                       *)
(***************************************************************************)
Console(o) ==
    \/ \E kind \in Kinds, r \in Record : Begin(o, kind, r)
    \/ ChooseNotice(o) \/ FetchForQuarantine(o) \/ SaveOriginal(o) \/ PutNotice(o)
    \/ PutBack(o) \/ (\E text \in OwnerText \ {None} : PutRedaction(o, text))
    \/ FetchForDismiss(o) \/ FetchForReopen(o) \/ ReadSnapshot(o)
    \/ SelectDecision(o) \/ CommitQuarantine(o) \/ CommitTerminal(o)
    \/ SelectForReopen(o) \/ CommitReopen(o)
    \/ SelectForClassify(o) \/ (\E verdict \in {"spam", "ham"} : CommitClassify(o, verdict))
    \/ BeginFlag(o) \/ (\E p \in Repo : InspectRepository(o, p))
    \/ (\E r \in Record : CreateManualFlaggedRecord(o, r))
    \/ Abort(o)

Scanning(s) ==
    \/ LoadActive(s) \/ (\E p \in Repo : MatchRepository(s, p))
    \/ CheckActive(s) \/ CheckTerminal(s)
    \/ (\E r \in Record : CreateFlaggedRecord(s, r)) \/ EndScan(s)

Outside ==
    \/ \E p \in Repo, text \in OwnerText : OwnerWrites(p, text)
    \/ \E p \in Repo, m \in Mode : RepositoryBecomes(p, m)
    \/ \E notice \in Notice : SetNotice(notice)
    \/ \E artifact \in Artifact : Activate(artifact)

Next == (\E o \in Operator : Console(o)) \/ (\E s \in Scanner : Scanning(s)) \/ Outside

Spec == Init /\ [][Next]_vars

\* An operator who keeps pressing "quarantine" on a flagged record, on a
\* connection that does not fail every time at the same step.
Retrying ==
    \A o \in Operator, r \in Record :
        /\ SF_vars(Begin(o, "quarantine", r))
        /\ SF_vars(ChooseNotice(o)) /\ SF_vars(FetchForQuarantine(o))
        /\ SF_vars(SaveOriginal(o)) /\ SF_vars(PutNotice(o))
        /\ SF_vars(req[o].kind = "quarantine" /\ SelectDecision(o))
        /\ SF_vars(CommitQuarantine(o))
        /\ WF_vars(Abort(o))

RetrySpec == Spec /\ Retrying
==============================================================================
