------------------------- MODULE QuarantineReviewInv -------------------------
(***************************************************************************)
(* The inductive invariant behind the safety properties of                 *)
(* QuarantineReview: what a row, a request and a scan carry at each point. *)
(***************************************************************************)
EXTENDS QuarantineReviewProps

\* Points between reading the record and selecting it for the write.
Reading == {"open", "fetch", "save", "cas", "snapshot"}
Working == Reading \cup {"decide", "commit"}

RowsWhole ==
    \A r \in Record :
        /\ rec[r].status = "absent" => rec[r].repo = None
        /\ rec[r].status # "absent" => rec[r].repo \in Repo /\ rec[r].classifier # None
        /\ rec[r].status = "quarantined" => rec[r].notice # None

\* A request on a record keeps pointing at it, and has in hand what its next
\* write needs.
RequestWhole(q) ==
    /\ q.pc \in Working => /\ q.kind \in Kinds \ {"flag"}
                           /\ q.id \in Record
                           /\ rec[q.id].status # "absent"
    /\ q.pc \in Reading => /\ q.snap.repo = rec[q.id].repo
                           /\ q.snap.classifier # None
    /\ q.kind = "quarantine" /\ q.pc \in Working \ {"open"} => q.notice # None
    /\ q.kind \in {"restore", "redact"} /\ q.pc = "open" => rec[q.id].notice # None
    /\ q.pc = "cas" => rec[q.id].notice # None
    /\ q.kind \in {"restore", "redact", "dismiss", "reopen"} /\ q.pc \in {"decide", "commit"}
           => q.artifact # None
    /\ q.pc = "inspect" => q.artifact # None
    /\ q.pc = "insert" => /\ q.snap.repo \in Repo
                          /\ q.snap.status = "flagged"
                          /\ q.snap.classifier # None

ScanWhole(z) ==
    /\ z.pc # "idle" => z.artifact # None
    /\ z.pc \in {"matched", "terminal", "insert"} => z.repo \in Repo

\* The inductive invariant, for any number of operators and scans.
ReviewInv ==
    /\ TypeOK
    /\ RowsWhole
    /\ \A o \in Operator : RequestWhole(req[o])
    /\ \A s \in Scanner : ScanWhole(scan[s])
    /\ OneActivePerRepository
    /\ DecisionsRecorded
    /\ NoticeTracked

\* A request finds the record in the status it was opened for, and what its write
\* transaction selected is still there when it commits.
Held(q) ==
    q.pc \in Working =>
        /\ rec[q.id].status \in Opens[q.kind]
        /\ q.pc = "commit" => q.from = rec[q.id].status
        /\ q.pc = "commit" /\ q.kind = "classify" => q.from = "flagged"

\* With one operator nobody changes the status of a record under a request.
StatusHeld == \A o \in Operator : Held(req[o])

(***************************************************************************)
(* The owner's words, with one operator at a time                          *)
(***************************************************************************)
\* What a request has in hand of its row, and how that agrees with what is shown.
Carries(q) ==
    LET row == rec[q.id] IN
    /\ q.pc \in {"open", "fetch", "snapshot"} =>
           q.snap.original = row.original /\ q.snap.notice = row.notice
    /\ q.pc = "snapshot" => q.kind # "quarantine"
    /\ q.kind = "quarantine" /\ q.pc \in Working \ {"open"} /\ row.notice # None =>
           q.notice = row.notice
    /\ q.pc \in {"save", "cas"} /\ Plain(row.repo) =>
           q.text \notin Notice /\ desc[row.repo] \notin Notice
    /\ q.pc = "cas" => row.notice = q.notice
    /\ q.kind = "quarantine" /\ q.pc \in {"cas", "decide", "commit"} =>
           q.text = row.original
    /\ q.kind \in {"restore", "redact"} /\ q.pc \in {"snapshot", "decide", "commit"}
           /\ Plain(row.repo) /\ desc[row.repo] \in Notice => row.original \in Notice
    /\ q.kind = "reopen" /\ q.pc \in {"snapshot", "decide", "commit"}
           /\ desc[row.repo] \in Notice /\ desc[row.repo] = row.notice =>
           q.text = row.original

\* The inductive invariant behind DescriptionKept and NoticeCanBeLifted.
DescriptionInv ==
    /\ \A p \in Repo : standing[p] \notin Notice
    /\ NoticeCanBeLifted
    /\ DescriptionKept
    /\ \A o \in Operator : req[o].pc \in Working => Carries(req[o])
==============================================================================
