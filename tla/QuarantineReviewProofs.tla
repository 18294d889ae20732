------------------------ MODULE QuarantineReviewProofs ------------------------
(***************************************************************************)
(* Machine-checked facts about QuarantineReview, for any operators, scans,  *)
(* records, repositories and texts.                                         *)
(***************************************************************************)
EXTENDS QuarantineReviewInv, TLAPS

\* A step of one request that writes no table keeps the invariant, provided the
\* request's new locals are what its next step expects.
LEMMA RequestStep ==
    ASSUME ReviewInv, NEW o \in Operator, NEW q \in Request,
           RequestWhole(q), Advance(o, q),
           UNCHANGED <<rec, label, audit, policy, desc, mode, standing, scan>>
    PROVE  ReviewInv'
<1>1. TypeOK'
  BY DEF ReviewInv, TypeOK, Advance
<1>2. \A x \in Operator : RequestWhole(req[x])'
  <2> SUFFICES ASSUME NEW x \in Operator PROVE RequestWhole(req[x])'
    OBVIOUS
  <2>1. req'[x] = IF x = o THEN q ELSE req[x]
    BY DEF ReviewInv, TypeOK, Advance
  <2>2. RequestWhole(req[x])
    BY DEF ReviewInv
  <2>3. RequestWhole(req'[x])
    BY <2>1, <2>2
  <2> QED
    BY <2>3 DEF RequestWhole
<1>3. /\ RowsWhole' /\ (\A s \in Scanner : ScanWhole(scan[s])')
      /\ OneActivePerRepository' /\ DecisionsRecorded' /\ NoticeTracked'
  BY DEF ReviewInv, RowsWhole, ScanWhole, OneActivePerRepository,
         DecisionsRecorded, NoticeTracked
<1> QED
  BY <1>1, <1>2, <1>3 DEF ReviewInv

\* A step of one scan that writes no table.
LEMMA ScanStep ==
    ASSUME ReviewInv, NEW s \in Scanner, NEW z \in Scan,
           ScanWhole(z), Proceed(s, z),
           UNCHANGED <<rec, label, audit, policy, desc, mode, standing, req>>
    PROVE  ReviewInv'
<1>1. TypeOK'
  BY DEF ReviewInv, TypeOK, Proceed
<1>2. \A x \in Scanner : ScanWhole(scan[x])'
  BY DEF ReviewInv, TypeOK, Proceed, ScanWhole
<1>3. /\ RowsWhole' /\ (\A o \in Operator : RequestWhole(req[o])')
      /\ OneActivePerRepository' /\ DecisionsRecorded' /\ NoticeTracked'
  BY DEF ReviewInv, RowsWhole, RequestWhole, OneActivePerRepository,
         DecisionsRecorded, NoticeTracked
<1> QED
  BY <1>1, <1>2, <1>3 DEF ReviewInv

\* What a transaction on row r keeps of the invariant, whoever runs it.
RowPart == /\ rec \in [Record -> Row]
           /\ label \in [Record -> Example]
           /\ audit \in [Record -> Entry]
           /\ RowsWhole
           /\ OneActivePerRepository
           /\ DecisionsRecorded
           /\ NoticeTracked

\* A committed write of a well-formed row keeps the tables: what the invariant asks
\* of the row, its label and the rows of its repository.
LEMMA WriteStep ==
    ASSUME ReviewInv, NEW r \in Record, NEW row \in Row, NEW example \in Example,
           row.status # "absent", row.repo \in Repo, row.classifier # None,
           row.status = "quarantined" => row.notice # None,
           rec[r].status # "absent" =>
               /\ row.repo = rec[r].repo
               /\ rec[r].notice # None => row.notice # None,
           row.status \in Active => IndexAllows(r, row.repo),
           row.status \in Terminal \cup {"quarantined"} => example.label # "none",
           row.status \in Terminal => row.terminalBy # None,
           rec' = [rec EXCEPT ![r] = row], label' = [label EXCEPT ![r] = example],
           audit' \in [Record -> Entry], UNCHANGED desc
    PROVE  /\ RowPart'
           /\ \A q \in Request : RequestWhole(q) => RequestWhole(q)'
<1>1. rec \in [Record -> Row] /\ label \in [Record -> Example]
  BY DEF ReviewInv, TypeOK
<1>2. /\ rec' \in [Record -> Row] /\ label' \in [Record -> Example]
      /\ rec'[r] = row /\ label'[r] = example
      /\ \A q \in Record \ {r} : rec'[q] = rec[q] /\ label'[q] = label[q]
  BY <1>1
<1>3. RowsWhole'
  BY <1>2 DEF ReviewInv, RowsWhole
<1>4. OneActivePerRepository'
  <2> SUFFICES ASSUME NEW a \in Record, NEW b \in Record,
                      rec'[a].status \in Active, rec'[b].status \in Active,
                      rec'[a].repo = rec'[b].repo
               PROVE  a = b
    BY DEF OneActivePerRepository
  <2>1. CASE a # r /\ b # r
    BY <2>1, <1>2 DEF ReviewInv, OneActivePerRepository
  <2>2. CASE a = r \/ b = r
    <3>1. row.status \in Active
      BY <2>2, <1>2
    <3>2. ActiveOf(row.repo) \subseteq {r}
      BY <3>1 DEF IndexAllows
    <3>3. \A x \in Record \ {r} : rec'[x].status \in Active => rec'[x].repo # row.repo
      BY <3>2, <1>2 DEF ActiveOf
    <3> QED
      BY <2>2, <3>3, <1>2
  <2> QED
    BY <2>1, <2>2
<1>5. DecisionsRecorded'
  BY <1>2 DEF ReviewInv, DecisionsRecorded
<1>6. NoticeTracked'
  <2> SUFFICES ASSUME NEW p \in Repo, desc[p] \in Notice
               PROVE  \E x \in Record : rec'[x].repo = p /\ rec'[x].notice # None
    BY DEF NoticeTracked
  <2>1. PICK x \in Record : rec[x].repo = p /\ rec[x].notice # None
    BY DEF ReviewInv, NoticeTracked
  <2>2. rec[x].status # "absent"
    BY <2>1, ReviewAssumption DEF ReviewInv, RowsWhole
  <2>3. rec'[x].repo = p /\ rec'[x].notice # None
    BY <2>1, <2>2, <1>2
  <2> QED
    BY <2>3
<1>7. \A q \in Request : RequestWhole(q) => RequestWhole(q)'
  <2> SUFFICES ASSUME NEW q \in Request, RequestWhole(q)
               PROVE  RequestWhole(q)'
    OBVIOUS
  <2>1. \A x \in Record : rec[x].status # "absent" =>
            /\ rec'[x].status # "absent" /\ rec'[x].repo = rec[x].repo
            /\ rec[x].notice # None => rec'[x].notice # None
    BY <1>2
  <2>2. Reading \subseteq Working /\ "open" \in Working /\ "cas" \in Working
    BY DEF Reading, Working
  <2> QED
    BY <2>1, <2>2 DEF RequestWhole
<1> QED
  BY <1>2, <1>3, <1>4, <1>5, <1>6, <1>7 DEF RowPart

\* A request at rest is well formed.
LEMMA Idle == NoRequest \in Request /\ RequestWhole(NoRequest) /\ RequestWhole(NoRequest)'
BY DEF NoRequest, Request, NoRow, Row, Status, Description, RequestWhole, Working, Reading

\* A write transaction of a request.
LEMMA CommitStep ==
    ASSUME ReviewInv, NEW o \in Operator, NEW next \in Request, RequestWhole(next)',
           Advance(o, next), RowPart',
           \A q \in Request : RequestWhole(q) => RequestWhole(q)',
           UNCHANGED <<policy, desc, mode, standing, scan>>
    PROVE  ReviewInv'
<1>1. req' \in [Operator -> Request]
  BY DEF ReviewInv, TypeOK, Advance
<1>2. TypeOK'
  BY <1>1 DEF ReviewInv, TypeOK, RowPart
<1>3. \A x \in Operator : RequestWhole(req[x])'
  <2> SUFFICES ASSUME NEW x \in Operator PROVE RequestWhole(req[x])'
    OBVIOUS
  <2>1. req'[x] = IF x = o THEN next ELSE req[x]
    BY DEF ReviewInv, TypeOK, Advance
  <2>2. req[x] \in Request /\ RequestWhole(req[x])
    BY DEF ReviewInv, TypeOK
  <2>3. PICK q \in Request : q = req'[x] /\ RequestWhole(q)'
    <3>1. CASE x = o
      BY <2>1, <3>1
    <3>2. CASE x # o
      <4>1. PICK q \in Request : q = req[x]
        BY <2>2
      <4>2. RequestWhole(q)'
        BY <4>1, <2>2
      <4> QED
        BY <4>1, <4>2, <2>1, <3>2
    <3> QED
      BY <3>1, <3>2
  <2> QED
    BY <2>3 DEF RequestWhole
<1>4. \A s \in Scanner : ScanWhole(scan[s])'
  BY DEF ReviewInv, ScanWhole
<1> QED
  BY <1>2, <1>3, <1>4 DEF ReviewInv, RowPart

\* A step of a request, or of an owner, that writes the Quay description of p.
LEMMA QuayStep ==
    ASSUME ReviewInv, NEW p \in Repo, NEW text \in Description,
           text \in Notice => \E r \in Record : rec[r].repo = p /\ rec[r].notice # None,
           desc' = [desc EXCEPT ![p] = text], standing' \in [Repo -> Description],
           req' \in [Operator -> Request],
           \A o \in Operator : RequestWhole(req[o])',
           UNCHANGED <<rec, label, audit, policy, mode, scan>>
    PROVE  ReviewInv'
<1>1. TypeOK'
  BY DEF ReviewInv, TypeOK
<1>2. NoticeTracked'
  BY DEF ReviewInv, TypeOK, NoticeTracked
<1>3. /\ RowsWhole' /\ (\A s \in Scanner : ScanWhole(scan[s])')
      /\ OneActivePerRepository' /\ DecisionsRecorded'
  BY DEF ReviewInv, RowsWhole, ScanWhole, OneActivePerRepository, DecisionsRecorded
<1> QED
  BY <1>1, <1>2, <1>3 DEF ReviewInv

(***************************************************************************)
(* The steps of one request                                                *)
(***************************************************************************)
\* A step that only changes the request's locals, to next.
Reads(o, next) ==
    /\ next \in Request /\ RequestWhole(next) /\ Advance(o, next)
    /\ UNCHANGED <<rec, label, audit, policy, desc, mode, standing, scan>>

\* Opening a request and its reads.
LEMMA ReadingStep ==
    ASSUME ReviewInv, NEW o \in Operator,
           \/ \E kind \in Kinds, r \in Record : Begin(o, kind, r)
           \/ ChooseNotice(o) \/ FetchForQuarantine(o)
           \/ FetchForDismiss(o) \/ FetchForReopen(o) \/ ReadSnapshot(o)
           \/ SelectDecision(o) \/ SelectForReopen(o) \/ SelectForClassify(o)
           \/ BeginFlag(o) \/ (\E p \in Repo : InspectRepository(o, p))
           \/ Abort(o)
    PROVE  ReviewInv'
<1> USE ReviewAssumption
<1>1. /\ req[o] \in Request /\ RequestWhole(req[o])
      /\ rec \in [Record -> Row] /\ RowsWhole
      /\ policy \in [notice: Notice, active: Artifact \cup {None}]
      /\ desc \in [Repo -> Description]
  BY DEF ReviewInv, TypeOK
<1>2. req[o].pc \in Reading => req[o].snap.repo \in Repo
  BY <1>1 DEF RequestWhole, RowsWhole, Working
<1>3. ASSUME NEW kind \in Kinds, NEW r \in Record, Begin(o, kind, r)
      PROVE  \E next \in Request : Reads(o, next)
  <2> DEFINE next == [NoRequest EXCEPT !.pc = "open", !.kind = kind, !.id = r,
                                       !.snap = Read(r)]
  <2>1. kind \in Kinds \ {"flag"} /\ rec[r].status \in Opens[kind]
    BY <1>3 DEF Begin
  <2>2. /\ Read(r) \in Row /\ Read(r).repo = rec[r].repo
        /\ Read(r).classifier = rec[r].classifier
    <3>1. rec[r] \in Row
      BY <1>1
    <3>2. \A row \in Row : LET seen == [row EXCEPT !.terminalBy = None, !.terminalText = None]
                          IN  seen \in Row /\ seen.repo = row.repo
                              /\ seen.classifier = row.classifier
      BY DEF Row, Description
    <3> QED
      BY <3>1, <3>2 DEF Read
  <2>3. next \in Request
    BY <2>2, Idle DEF Request, NoRequest
  <2>4. /\ rec[r].status # "absent"
        /\ kind \in {"restore", "redact"} => rec[r].status = "quarantined"
    <3>1. /\ Opens["quarantine"] = {"flagged"} /\ Opens["restore"] = {"quarantined"}
          /\ Opens["redact"] = {"quarantined"} /\ Opens["dismiss"] = Active
          /\ Opens["reopen"] = {"restored", "dismissed"}
          /\ Opens["classify"] = Active \cup Terminal
      BY DEF Opens
    <3>2. kind \in {"quarantine", "restore", "redact", "dismiss", "reopen", "classify"}
      BY <2>1
    <3> QED
      BY <2>1, <3>1, <3>2 DEF Active, Terminal
  <2>5. RequestWhole(next)
    BY <1>1, <2>1, <2>2, <2>4 DEF RequestWhole, RowsWhole, NoRequest, Working, Reading
  <2> QED
    BY <1>3, <2>3, <2>5 DEF Begin, Reads
<1>4. ChooseNotice(o) => \E next \in Request : Reads(o, next)
  <2> SUFFICES ASSUME ChooseNotice(o) PROVE \E next \in Request : Reads(o, next)
    OBVIOUS
  <2> DEFINE next == [req[o] EXCEPT !.pc = "fetch",
                         !.notice = IF req[o].snap.notice # None THEN req[o].snap.notice
                                    ELSE policy.notice]
  <2>1. req[o].pc = "open" /\ req[o].kind = "quarantine" /\ req[o].snap \in Row
    BY <1>1 DEF ChooseNotice, At, Request
  <2>2. next \in Request /\ next.notice # None
    BY <1>1, <2>1 DEF Request, Row
  <2>3. RequestWhole(next)
    BY <1>1, <2>1, <2>2 DEF RequestWhole, Working, Reading, Request
  <2> QED
    BY <2>2, <2>3 DEF ChooseNotice, Reads
<1>5. FetchForQuarantine(o) => \E next \in Request : Reads(o, next)
  <2> SUFFICES ASSUME FetchForQuarantine(o) PROVE \E next \in Request : Reads(o, next)
    OBVIOUS
  <2>1. req[o].pc = "fetch" /\ req[o].kind = "quarantine" /\ req[o].snap \in Row
    BY <1>1 DEF FetchForQuarantine, At, Request
  <2>2. PICK pc \in {"decide", "save"}, text \in {req[o].snap.original, desc[req[o].snap.repo]} :
            Advance(o, [req[o] EXCEPT !.pc = pc, !.text = text])
    BY DEF FetchForQuarantine
  <2> DEFINE next == [req[o] EXCEPT !.pc = pc, !.text = text]
  <2>3. next \in Request
    BY <1>1, <1>2, <2>1 DEF Request, Row, Reading
  <2>4. RequestWhole(next)
    BY <1>1, <2>1 DEF RequestWhole, Working, Reading, Request
  <2> QED
    BY <2>2, <2>3, <2>4 DEF FetchForQuarantine, Reads
<1>6. FetchForDismiss(o) \/ FetchForReopen(o) => \E next \in Request : Reads(o, next)
  <2> SUFFICES ASSUME FetchForDismiss(o) \/ FetchForReopen(o)
               PROVE  \E next \in Request : Reads(o, next)
    OBVIOUS
  <2>1. /\ req[o].pc = "open" /\ req[o].kind \in {"dismiss", "reopen"}
        /\ req[o].snap \in Row
    BY <1>1 DEF FetchForDismiss, FetchForReopen, At, Request
  <2>2. req[o].snap.original \in Description /\ desc[req[o].snap.repo] \in Description
    BY <1>1, <1>2, <2>1 DEF Row, Reading
  <2>3. PICK text \in Description, shown \in Description :
            Advance(o, [req[o] EXCEPT !.pc = "snapshot", !.shown = shown, !.text = text])
    <3>1. CASE FetchForDismiss(o)
      BY <2>2, <3>1 DEF FetchForDismiss
    <3>2. CASE FetchForReopen(o)
      <4> DEFINE text == IF desc[req[o].snap.repo] = req[o].snap.notice
                         THEN req[o].snap.original ELSE desc[req[o].snap.repo]
      <4>1. text \in Description /\ req[o].shown \in Description
        BY <1>1, <2>2 DEF Request
      <4>2. [req[o] EXCEPT !.pc = "snapshot", !.text = text] =
                [req[o] EXCEPT !.pc = "snapshot", !.shown = req[o].shown, !.text = text]
        BY <1>1 DEF Request
      <4> QED
        BY <3>2, <4>1, <4>2 DEF FetchForReopen
    <3> QED
      BY <3>1, <3>2
  <2> DEFINE next == [req[o] EXCEPT !.pc = "snapshot", !.shown = shown, !.text = text]
  <2>4. next \in Request
    BY <1>1 DEF Request
  <2>5. RequestWhole(next)
    BY <1>1, <2>1 DEF RequestWhole, Working, Reading, Request
  <2> QED
    BY <2>3, <2>4, <2>5 DEF FetchForDismiss, FetchForReopen, Reads
<1>7. ReadSnapshot(o) => \E next \in Request : Reads(o, next)
  <2> SUFFICES ASSUME ReadSnapshot(o) PROVE \E next \in Request : Reads(o, next)
    OBVIOUS
  <2> DEFINE next == [req[o] EXCEPT !.pc = "decide",
                         !.artifact = IF policy.active # None THEN policy.active
                                      ELSE req[o].snap.classifier]
  <2>1. req[o].pc = "snapshot" /\ req[o].snap \in Row /\ req[o].snap.classifier # None
    BY <1>1 DEF ReadSnapshot, Request, RequestWhole, Reading
  <2>2. next \in Request /\ next.artifact # None
    BY <1>1, <2>1 DEF Request, Row
  <2>3. RequestWhole(next)
    BY <1>1, <2>1, <2>2 DEF RequestWhole, Working, Reading, Request
  <2> QED
    BY <2>2, <2>3 DEF ReadSnapshot, Reads
<1>8. SelectDecision(o) \/ SelectForReopen(o) \/ SelectForClassify(o)
          => \E next \in Request : Reads(o, next)
  <2> SUFFICES ASSUME SelectDecision(o) \/ SelectForReopen(o) \/ SelectForClassify(o)
               PROVE  \E next \in Request : Reads(o, next)
    OBVIOUS
  <2>1. /\ req[o].pc \in Working /\ req[o].id \in Record
        /\ req[o].kind = "classify" \/ req[o].pc = "decide"
    BY <1>1 DEF SelectDecision, SelectForReopen, SelectForClassify, At, Working,
                Reading, RequestWhole
  <2>2. rec[req[o].id] \in Row /\ NoRow \in Row
    BY <1>1, <2>1 DEF NoRow, Row, Status, Description
  <2>3. PICK text \in Description, from \in Status :
            Advance(o, [req[o] EXCEPT !.pc = "commit", !.snap = NoRow, !.text = text,
                                      !.from = from])
    <3>1. CASE SelectForClassify(o)
      BY <2>2, <3>1 DEF SelectForClassify, Row, Status, Active
    <3>2. CASE SelectDecision(o) \/ SelectForReopen(o)
      <4> DEFINE from == rec[req[o].id].status
      <4>1. from \in Status /\ req[o].text \in Description
        BY <1>1, <2>2 DEF Request, Row
      <4>2. [req[o] EXCEPT !.pc = "commit", !.snap = NoRow, !.from = from] =
              [req[o] EXCEPT !.pc = "commit", !.snap = NoRow, !.text = req[o].text,
                             !.from = from]
        BY <1>1 DEF Request
      <4> QED
        BY <3>2, <4>1, <4>2 DEF SelectDecision, SelectForReopen
    <3> QED
      BY <3>1, <3>2
  <2> DEFINE next == [req[o] EXCEPT !.pc = "commit", !.snap = NoRow, !.text = text,
                                    !.from = from]
  <2>4. next \in Request
    BY <1>1, <2>2 DEF Request
  <2>5. RequestWhole(next)
    BY <1>1, <2>1 DEF RequestWhole, Working, Reading, Request
  <2> QED
    BY <2>3, <2>4, <2>5 DEF SelectDecision, SelectForReopen, SelectForClassify, Reads
<1>9. BeginFlag(o) => \E next \in Request : Reads(o, next)
  <2> SUFFICES ASSUME BeginFlag(o) PROVE \E next \in Request : Reads(o, next)
    OBVIOUS
  <2> DEFINE next == [NoRequest EXCEPT !.pc = "inspect", !.kind = "flag",
                                       !.artifact = policy.active]
  <2>1. next \in Request
    BY <1>1, Idle DEF BeginFlag, Request, NoRequest
  <2>2. RequestWhole(next)
    BY DEF BeginFlag, RequestWhole, NoRequest, Working, Reading
  <2> QED
    BY <2>1, <2>2 DEF BeginFlag, Reads
<1>10. ASSUME NEW p \in Repo, InspectRepository(o, p)
       PROVE  \E next \in Request : Reads(o, next)
  <2> DEFINE row == FlaggedRow(p, desc[p], req[o].artifact)
             next == [req[o] EXCEPT !.pc = "insert", !.snap = row]
  <2>1. req[o].pc = "inspect" /\ req[o].kind = "flag" /\ req[o].artifact # None
    BY <1>1, <1>10 DEF InspectRepository, At, RequestWhole
  <2>2. /\ row \in Row /\ row.repo = p /\ row.status = "flagged"
        /\ row.classifier # None
    BY <1>1, <2>1 DEF FlaggedRow, NoRow, Row, Status, Active, Request, Description
  <2>3. next \in Request
    BY <1>1, <2>2 DEF Request
  <2>4. RequestWhole(next)
    BY <1>1, <2>1, <2>2 DEF RequestWhole, Working, Reading, Request
  <2> QED
    BY <1>10, <2>3, <2>4 DEF InspectRepository, Reads
<1>11. Abort(o) => \E next \in Request : Reads(o, next)
  BY Idle DEF Abort, Finish, Reads
<1>12. PICK next \in Request : Reads(o, next)
  BY <1>3, <1>4, <1>5, <1>6, <1>7, <1>8, <1>9, <1>10, <1>11
<1> QED
  BY <1>12, RequestStep DEF Reads
\* The writes of a request to the Quay database.
LEMMA QuayWriteStep ==
    ASSUME ReviewInv, NEW o \in Operator,
           \/ PutNotice(o) \/ PutBack(o)
           \/ \E text \in OwnerText \ {None} : PutRedaction(o, text)
    PROVE  ReviewInv'
<1> USE ReviewAssumption
<1>1. /\ req[o] \in Request /\ RequestWhole(req[o])
      /\ rec \in [Record -> Row] /\ RowsWhole
      /\ req \in [Operator -> Request] /\ standing \in [Repo -> Description]
  BY DEF ReviewInv, TypeOK
<1> DEFINE p == req[o].snap.repo
<1>2. /\ req[o].pc \in {"cas", "open"} /\ req[o].snap \in Row
      /\ req[o].id \in Record /\ p \in Repo /\ rec[req[o].id].repo = p
      /\ rec[req[o].id].notice # None
  BY <1>1 DEF PutNotice, PutBack, PutRedaction, At, Request, RequestWhole, RowsWhole,
              Working, Reading
<1>3. PICK text \in Description, next \in Request :
          /\ desc' = [desc EXCEPT ![p] = text]
          /\ standing' \in [Repo -> Description]
          /\ Advance(o, next) /\ RequestWhole(next)
          /\ UNCHANGED <<rec, label, audit, policy, mode, scan>>
  <2>1. CASE PutNotice(o)
    <3> DEFINE next == [req[o] EXCEPT !.pc = "decide"]
    <3>1. req[o].pc = "cas" /\ req[o].kind = "quarantine"
      BY <2>1 DEF PutNotice, At
    <3>2. req[o].notice \in Description
      BY <1>1, <3>1 DEF Request, RequestWhole, Working, Reading, Description
    <3>3. next \in Request
      BY <1>1 DEF Request
    <3>4. RequestWhole(next)
      BY <1>1, <3>1 DEF RequestWhole, Working, Reading, Request
    <3> QED
      BY <1>1, <2>1, <3>2, <3>3, <3>4 DEF PutNotice
  <2>2. CASE PutBack(o)
    <3> DEFINE original == req[o].snap.original
               next == [req[o] EXCEPT !.pc = "snapshot", !.text = original,
                                      !.shown = original]
    <3>1. req[o].pc = "open" /\ req[o].kind = "restore"
      BY <2>2 DEF PutBack, At
    <3>2. original \in Description
      BY <1>2 DEF Row
    <3>3. next \in Request
      BY <1>1, <3>2 DEF Request
    <3>4. RequestWhole(next)
      BY <1>1, <3>1 DEF RequestWhole, Working, Reading, Request
    <3> QED
      BY <1>1, <2>2, <3>2, <3>3, <3>4 DEF PutBack
  <2>3. CASE \E text \in OwnerText \ {None} : PutRedaction(o, text)
    <3>1. PICK text \in OwnerText : PutRedaction(o, text)
      BY <2>3
    <3> DEFINE next == [req[o] EXCEPT !.pc = "snapshot", !.text = req[o].snap.original,
                                      !.shown = text]
    <3>2. req[o].pc = "open" /\ req[o].kind = "redact"
      BY <3>1 DEF PutRedaction, At
    <3>3. req[o].snap.original \in Description /\ text \in Description
      BY <1>2 DEF Row, OwnerText
    <3>4. next \in Request
      BY <1>1, <3>3 DEF Request
    <3>5. RequestWhole(next)
      BY <1>1, <3>2 DEF RequestWhole, Working, Reading, Request
    <3>6. standing' \in [Repo -> Description]
      BY <1>1, <3>1, <3>3 DEF PutRedaction
    <3> QED
      BY <3>1, <3>3, <3>4, <3>5, <3>6 DEF PutRedaction
  <2> QED
    BY <2>1, <2>2, <2>3
<1>4. req' \in [Operator -> Request]
  BY <1>1, <1>3 DEF Advance
<1>5. \A x \in Operator : RequestWhole(req[x])'
  <2> SUFFICES ASSUME NEW x \in Operator PROVE RequestWhole(req[x])'
    OBVIOUS
  <2>1. req'[x] = IF x = o THEN next ELSE req[x]
    BY <1>1, <1>3 DEF Advance
  <2>2. RequestWhole(req'[x])
    BY <1>3, <2>1 DEF ReviewInv
  <2> QED
    BY <1>3, <2>2 DEF RequestWhole
<1> QED
  BY <1>2, <1>3, <1>4, <1>5, QuayStep

\* The transactions of a request on its own record, which exists already.
LEMMA RecordWriteStep ==
    ASSUME ReviewInv, NEW o \in Operator,
           \/ SaveOriginal(o) \/ CommitQuarantine(o) \/ CommitTerminal(o)
           \/ CommitReopen(o) \/ \E verdict \in {"spam", "ham"} : CommitClassify(o, verdict)
    PROVE  ReviewInv'
<1> USE ReviewAssumption
<1> DEFINE r == req[o].id
<1>1. /\ req[o] \in Request /\ RequestWhole(req[o])
      /\ rec \in [Record -> Row] /\ RowsWhole
      /\ label \in [Record -> Example] /\ audit \in [Record -> Entry]
  BY DEF ReviewInv, TypeOK
<1>2. /\ r \in Record /\ rec[r] \in Row /\ rec[r].status # "absent"
      /\ rec[r].repo \in Repo /\ rec[r].classifier # None
      /\ req[o].from \in Status /\ req[o].text \in Description
      /\ label[r] \in Example
  BY <1>1 DEF SaveOriginal, CommitQuarantine, CommitTerminal, CommitReopen, CommitClassify,
              At, RequestWhole, RowsWhole, Working, Reading, Request
<1>3. PICK row \in Row, example \in Example, next \in Request :
          /\ row.status # "absent" /\ row.repo = rec[r].repo /\ row.classifier # None
          /\ row.status = "quarantined" => row.notice # None
          /\ rec[r].notice # None => row.notice # None
          /\ row.status \in Active => IndexAllows(r, row.repo)
          /\ row.status \in Terminal \cup {"quarantined"} => example.label # "none"
          /\ row.status \in Terminal => row.terminalBy # None
          /\ rec' = [rec EXCEPT ![r] = row] /\ label' = [label EXCEPT ![r] = example]
          /\ audit' \in [Record -> Entry]
          /\ Advance(o, next)
          /\ next = NoRequest \/ (next.pc = "cas" /\ row.notice # None
                                  /\ next = [req[o] EXCEPT !.pc = "cas"]
                                  /\ req[o].pc = "save" /\ req[o].kind = "quarantine")
          /\ UNCHANGED <<policy, desc, mode, standing, scan>>
  <2>1. rec[r].status \in Active => IndexAllows(r, rec[r].repo)
    BY <1>2 DEF ReviewInv, OneActivePerRepository, IndexAllows, ActiveOf
  <2>2. /\ rec[r].status \in Terminal \cup {"quarantined"} => label[r].label # "none"
        /\ rec[r].status \in Terminal => rec[r].terminalBy # None
    BY <1>2 DEF ReviewInv, DecisionsRecorded
  <2>3. \A verdict \in {"spam", "ham"} : [label |-> verdict, text |-> req[o].text] \in Example
    BY <1>2 DEF Example
  <2>4. ASSUME NEW to \in Status,
               audit' = [audit EXCEPT ![r] = [from |-> req[o].from, to |-> to]]
        PROVE  audit' \in [Record -> Entry]
    <3>1. [from |-> req[o].from, to |-> to] \in Entry
      BY <1>2 DEF Entry
    <3> QED
      BY <1>1, <2>4, <3>1
  <2>5. CASE SaveOriginal(o)
    <3> DEFINE row == [rec[r] EXCEPT !.original = req[o].text, !.notice = req[o].notice]
               next == [req[o] EXCEPT !.pc = "cas"]
    <3>1. /\ req[o].pc = "save" /\ req[o].kind = "quarantine" /\ req[o].notice # None
          /\ req[o].notice \in Notice
      BY <1>1, <2>5 DEF SaveOriginal, At, RequestWhole, Working, Reading, Request
    <3>2. next \in Request /\ next.pc = "cas"
      BY <1>1 DEF Request
    <3>3. row \in Row /\ row.notice # None
      BY <1>2, <3>1 DEF Row
    <3>4. /\ row.status = rec[r].status /\ row.repo = rec[r].repo
          /\ row.classifier = rec[r].classifier /\ row.terminalBy = rec[r].terminalBy
      BY <1>2 DEF Row
    <3>5. rec' = [rec EXCEPT ![r] = row] /\ label' = [label EXCEPT ![r] = label[r]]
      BY <1>1, <1>2, <2>5 DEF SaveOriginal, Row
    <3>6. audit' \in [Record -> Entry] /\ Advance(o, next)
          /\ UNCHANGED <<policy, desc, mode, standing, scan>>
      BY <1>1, <2>5 DEF SaveOriginal
    <3> HIDE DEF row, next
    <3>7. next = [req[o] EXCEPT !.pc = "cas"]
      BY DEF next
    <3> QED
      BY <1>2, <2>1, <2>2, <3>1, <3>2, <3>3, <3>4, <3>5, <3>6, <3>7
  <2>6. CASE CommitQuarantine(o)
    <3> DEFINE row == [rec[r] EXCEPT !.status = "quarantined", !.original = req[o].text,
                                     !.notice = req[o].notice]
               example == [label |-> "spam", text |-> req[o].text]
    <3>1. req[o].notice # None /\ req[o].notice \in Notice
      BY <1>1, <2>6 DEF CommitQuarantine, At, RequestWhole, Working, Reading, Request
    <3>2. /\ row \in Row /\ row.notice # None /\ row.status = "quarantined"
          /\ row.repo = rec[r].repo /\ row.classifier = rec[r].classifier
      BY <1>2, <3>1 DEF Row, Status, Active
    <3>3. /\ IndexAllows(r, rec[r].repo) /\ Write(r, row, example, req[o].from)
          /\ Finish(o) /\ UNCHANGED <<policy, desc, mode, standing, scan>>
      BY <2>6 DEF CommitQuarantine
    <3>4. "quarantined" \in Status /\ "quarantined" \notin Terminal
      BY DEF Status, Active, Terminal
    <3>5. example \in Example /\ example.label = "spam"
      BY <2>3
    <3> HIDE DEF row, example
    <3>6. audit' \in [Record -> Entry]
      BY <2>4, <3>2, <3>3, <3>4 DEF Write
    <3> QED
      BY <1>2, <3>2, <3>3, <3>4, <3>5, <3>6, Idle DEF Write, Finish
  <2>7. CASE CommitTerminal(o)
    <3> DEFINE kind == req[o].kind
               row == [rec[r] EXCEPT !.status = Outcome[kind],
                                     !.terminalBy = req[o].artifact,
                                     !.terminalText = req[o].shown]
               example == [label |-> Teaches[kind], text |-> req[o].text]
    <3>1. /\ kind \in {"restore", "redact", "dismiss"} /\ req[o].artifact # None
          /\ req[o].artifact \in Artifact /\ req[o].shown \in Description
      BY <1>1, <2>7 DEF CommitTerminal, At, RequestWhole, Request
    <3>2. Outcome[kind] \in Terminal /\ Teaches[kind] \in {"spam", "ham"}
      <4>1. /\ Outcome["restore"] = "restored" /\ Outcome["redact"] = "redacted"
            /\ Outcome["dismiss"] = "dismissed" /\ Teaches["restore"] = "ham"
            /\ Teaches["redact"] = "spam" /\ Teaches["dismiss"] = "ham"
        BY DEF Outcome, Teaches
      <4> QED
        BY <3>1, <4>1 DEF Terminal
    <3>3. Outcome[kind] \in Status /\ Outcome[kind] \notin Active \cup {"absent", "quarantined"}
      BY <3>2 DEF Status, Terminal, Active
    <3>4. /\ row \in Row /\ row.status = Outcome[kind] /\ row.terminalBy # None
          /\ row.repo = rec[r].repo /\ row.classifier = rec[r].classifier
          /\ row.notice = rec[r].notice
      BY <1>2, <3>1, <3>3 DEF Row
    <3>5. /\ Write(r, row, example, req[o].from) /\ Finish(o)
          /\ UNCHANGED <<policy, desc, mode, standing, scan>>
      BY <2>7 DEF CommitTerminal
    <3>6. example \in Example /\ example.label # "none"
      BY <2>3, <3>2
    <3> HIDE DEF row, example
    <3>7. audit' \in [Record -> Entry]
      BY <2>4, <3>3, <3>4, <3>5 DEF Write
    <3> QED
      BY <1>2, <3>3, <3>4, <3>5, <3>6, <3>7, Idle DEF Write, Finish
  <2>8. CASE CommitReopen(o)
    <3> DEFINE row == [rec[r] EXCEPT !.status = "flagged", !.original = req[o].text,
                                     !.classifier = req[o].artifact,
                                     !.terminalBy = None, !.terminalText = None]
    <3>1. req[o].artifact # None /\ req[o].artifact \in Artifact
      BY <1>1, <2>8 DEF CommitReopen, At, RequestWhole, Request
    <3>2. "flagged" \in Status /\ "flagged" \notin Terminal /\ None \in Description
      BY DEF Status, Active, Terminal, Description
    <3>3. /\ row \in Row /\ row.status = "flagged" /\ row.classifier # None
          /\ row.repo = rec[r].repo /\ row.notice = rec[r].notice
      BY <1>2, <3>1, <3>2 DEF Row
    <3>4. /\ IndexAllows(r, rec[r].repo) /\ Write(r, row, NoExample, req[o].from)
          /\ Finish(o) /\ UNCHANGED <<policy, desc, mode, standing, scan>>
      BY <2>8 DEF CommitReopen
    <3>5. NoExample \in Example
      BY <3>2 DEF NoExample, Example
    <3> HIDE DEF row
    <3>6. audit' \in [Record -> Entry]
      BY <2>4, <3>2, <3>3, <3>4 DEF Write
    <3> QED
      BY <1>2, <3>2, <3>3, <3>4, <3>5, <3>6, Idle DEF Write, Finish
  <2>9. CASE \E verdict \in {"spam", "ham"} : CommitClassify(o, verdict)
    <3>1. PICK verdict \in {"spam", "ham"} : CommitClassify(o, verdict)
      BY <2>9
    <3> DEFINE example == [label |-> verdict, text |-> req[o].text]
    <3>2. example \in Example /\ example.label # "none"
      BY <2>3
    <3>3. rec' = [rec EXCEPT ![r] = rec[r]] /\ label' = [label EXCEPT ![r] = example]
      BY <1>1, <3>1 DEF CommitClassify
    <3>4. audit' \in [Record -> Entry]
      BY <1>2, <2>4, <3>1 DEF CommitClassify
    <3>5. Finish(o) /\ UNCHANGED <<policy, desc, mode, standing, scan>>
      BY <3>1 DEF CommitClassify
    <3>6. rec[r].status = "quarantined" => rec[r].notice # None
      BY <1>1, <1>2 DEF RowsWhole
    <3> HIDE DEF example
    <3> QED
      BY <1>2, <2>1, <2>2, <3>2, <3>3, <3>4, <3>5, <3>6, Idle DEF Finish
  <2> QED
    BY <2>5, <2>6, <2>7, <2>8, <2>9
<1>4. RowPart' /\ \A q \in Request : RequestWhole(q) => RequestWhole(q)'
  BY <1>2, <1>3, WriteStep
<1>5. RequestWhole(next)'
  <2>1. CASE next = NoRequest
    BY <2>1 DEF RequestWhole, NoRequest, Working, Reading
  <2>2. CASE /\ next = [req[o] EXCEPT !.pc = "cas"] /\ row.notice # None
             /\ req[o].pc = "save" /\ req[o].kind = "quarantine"
    <3>1. PICK q \in Request : q = req[o]
      BY <1>1
    <3>2. RequestWhole(q)' /\ q.pc = "save" /\ q.kind = "quarantine"
      BY <1>1, <1>4, <2>2, <3>1
    <3>3. next = [q EXCEPT !.pc = "cas"]
      BY <2>2, <3>1
    <3>4. rec'[q.id].notice # None
      BY <1>1, <1>2, <1>3, <2>2, <3>1
    <3> QED
      BY <3>2, <3>3, <3>4 DEF RequestWhole, Working, Reading, Request
  <2> QED
    BY <1>3, <2>1, <2>2
<1> QED
  BY <1>3, <1>4, <1>5, CommitStep
\* A transaction that opens a record, whoever runs it.
LEMMA CreateStep ==
    ASSUME ReviewInv, NEW r \in Record, NEW p \in Repo, NEW text \in Description,
           NEW artifact \in Artifact, NEW example \in Example,
           NextId(r), IndexAllows(r, p),
           Write(r, FlaggedRow(p, text, artifact), example, "absent"), UNCHANGED desc
    PROVE  RowPart' /\ \A q \in Request : RequestWhole(q) => RequestWhole(q)'
<1> DEFINE row == FlaggedRow(p, text, artifact)
<1>1. /\ row \in Row /\ row.status = "flagged" /\ row.repo = p
      /\ row.classifier = artifact /\ artifact # None
  BY ReviewAssumption DEF FlaggedRow, NoRow, Row, Status, Active, Description
<1>2. audit' \in [Record -> Entry]
  <2>1. [from |-> "absent", to |-> row.status] \in Entry
    BY <1>1 DEF Entry, Status, Active
  <2> QED
    BY <2>1 DEF ReviewInv, TypeOK, Write
<1>3. rec[r].status = "absent" /\ "flagged" \notin Terminal
  BY DEF NextId, Terminal
<1> QED
  BY <1>1, <1>2, <1>3, WriteStep DEF Write

\* A false-negative report opens a record with its label (create_manual_flagged_record).
LEMMA CreateManualStep ==
    ASSUME ReviewInv, NEW o \in Operator, NEW r \in Record, CreateManualFlaggedRecord(o, r)
    PROVE  ReviewInv'
<1>1. /\ req[o] \in Request /\ RequestWhole(req[o])
      /\ req[o].kind = "flag" /\ req[o].pc = "insert" /\ req[o].snap \in Row
  BY DEF ReviewInv, TypeOK, CreateManualFlaggedRecord, At, Request
<1> DEFINE row == req[o].snap
           example == [label |-> "spam", text |-> row.original]
<1>2. row.repo \in Repo /\ row.status = "flagged" /\ row.classifier # None
  BY <1>1 DEF RequestWhole
<1>3. row.original \in Description
  BY <1>1 DEF Row
<1>4. example \in Example
  BY <1>3 DEF Example
<1>5. /\ NextId(r) /\ ActiveOf(row.repo) = {} /\ Write(r, row, example, "absent")
      /\ Finish(o) /\ UNCHANGED <<policy, desc, mode, standing, scan>>
  BY DEF CreateManualFlaggedRecord
<1>6. IndexAllows(r, row.repo) /\ rec[r].status = "absent" /\ "flagged" \notin Terminal
  BY <1>5 DEF IndexAllows, NextId, Terminal
<1>7. audit' \in [Record -> Entry]
  <2>1. [from |-> "absent", to |-> row.status] \in Entry
    BY <1>2 DEF Entry, Status, Active
  <2> QED
    BY <1>5, <2>1 DEF ReviewInv, TypeOK, Write
<1>8. RowPart' /\ \A q \in Request : RequestWhole(q) => RequestWhole(q)'
  <2> HIDE DEF example
  <2> QED
    BY <1>1, <1>2, <1>4, <1>5, <1>6, <1>7, WriteStep DEF Write
<1> QED
  BY <1>5, <1>8, Idle, CommitStep DEF Finish

(***************************************************************************)
(* The steps of one scan, of owners and of policy changes                  *)
(***************************************************************************)
LEMMA ScanningStep ==
    ASSUME ReviewInv, NEW s \in Scanner, Scanning(s)
    PROVE  ReviewInv'
<1> USE ReviewAssumption
<1>1. /\ scan \in [Scanner -> Scan] /\ scan[s] \in Scan /\ ScanWhole(scan[s])
      /\ desc \in [Repo -> Description]
      /\ policy \in [notice: Notice, active: Artifact \cup {None}]
  BY DEF ReviewInv, TypeOK
<1> DEFINE next == [NoScan EXCEPT !.pc = "scanning", !.seen = scan[s].seen,
                                  !.artifact = scan[s].artifact]
<1>2. /\ next \in Scan
      /\ scan[s].pc # "idle" => ScanWhole(next)
  BY <1>1 DEF NoScan, Scan, ScanWhole, Description
<1>3. CASE LoadActive(s)
  <2> DEFINE z == [NoScan EXCEPT !.pc = "scanning", !.artifact = policy.active]
  <2>1. z \in Scan /\ ScanWhole(z)
    BY <1>1, <1>3 DEF LoadActive, NoScan, Scan, ScanWhole, Description
  <2> QED
    BY <1>3, <2>1, ScanStep DEF LoadActive
<1>4. CASE \E p \in Repo : MatchRepository(s, p)
  <2>1. PICK p \in Repo : MatchRepository(s, p)
    BY <1>4
  <2> DEFINE z == [scan[s] EXCEPT !.pc = "matched", !.repo = p, !.text = desc[p],
                                  !.seen = @ \cup {p}]
  <2>2. z \in Scan /\ ScanWhole(z)
    BY <1>1, <2>1 DEF MatchRepository, Scan, ScanWhole
  <2> QED
    BY <2>1, <2>2, ScanStep DEF MatchRepository
<1>5. CASE CheckActive(s) \/ CheckTerminal(s)
  <2> DEFINE z(pc) == [scan[s] EXCEPT !.pc = pc]
  <2>1. \A pc \in {"terminal", "insert"} :
           z(pc) \in Scan /\ (scan[s].pc \in {"matched", "terminal"} => ScanWhole(z(pc)))
    BY <1>1 DEF Scan, ScanWhole
  <2> HIDE DEF z, next
  <2>2. \/ Proceed(s, next)
        \/ Proceed(s, z("terminal"))
        \/ Proceed(s, z("insert"))
    BY <1>5 DEF CheckActive, CheckTerminal, KeepScanning, next, z
  <2>3. scan[s].pc \in {"matched", "terminal"}
        /\ UNCHANGED <<rec, label, audit, policy, desc, mode, standing, req>>
    BY <1>5 DEF CheckActive, CheckTerminal
  <2> QED
    BY <1>2, <2>1, <2>2, <2>3, ScanStep
<1>6. CASE \E r \in Record : CreateFlaggedRecord(s, r)
  <2>1. PICK r \in Record : CreateFlaggedRecord(s, r)
    BY <1>6
  <2>2. /\ scan[s].pc = "insert" /\ scan[s].repo \in Repo
        /\ scan[s].artifact \in Artifact /\ scan[s].text \in Description
    BY <1>1, <2>1 DEF CreateFlaggedRecord, ScanWhole, Scan
  <2>3. Proceed(s, next) /\ UNCHANGED <<policy, desc, mode, standing, req>>
    BY <2>1 DEF CreateFlaggedRecord, KeepScanning
  <2>4. CASE UNCHANGED <<rec, label, audit>>
    BY <1>2, <2>2, <2>3, <2>4, ScanStep
  <2>5. CASE ~UNCHANGED <<rec, label, audit>>
    <3>1. /\ NextId(r) /\ IndexAllows(r, scan[s].repo)
          /\ Write(r, FlaggedRow(scan[s].repo, scan[s].text, scan[s].artifact),
                   NoExample, "absent")
      BY <2>1, <2>5 DEF CreateFlaggedRecord
    <3>2. NoExample \in Example
      BY DEF NoExample, Example, Description
    <3>3. RowPart' /\ \A q \in Request : RequestWhole(q) => RequestWhole(q)'
      BY <2>2, <2>3, <3>1, <3>2, CreateStep
    <3>4. /\ scan' \in [Scanner -> Scan]
          /\ \A x \in Scanner : ScanWhole(scan'[x])
      BY <1>1, <1>2, <2>2, <2>3 DEF Proceed, ReviewInv
    <3>5. \A x \in Scanner : ScanWhole(scan[x])'
      BY <3>4 DEF ScanWhole
    <3>6. TypeOK'
      BY <2>3, <3>3, <3>4 DEF ReviewInv, TypeOK, RowPart
    <3>7. \A o \in Operator : RequestWhole(req[o])'
      <4> SUFFICES ASSUME NEW o \in Operator PROVE RequestWhole(req[o])'
        OBVIOUS
      <4>1. PICK q \in Request : q = req[o]
        BY DEF ReviewInv, TypeOK
      <4>2. RequestWhole(q)' /\ q = req'[o]
        BY <2>3, <3>3, <4>1 DEF ReviewInv
      <4> QED
        BY <4>2 DEF RequestWhole
    <3> QED
      BY <3>3, <3>5, <3>6, <3>7 DEF ReviewInv, RowPart
  <2> QED
    BY <2>4, <2>5
<1>7. CASE EndScan(s)
  <2>1. NoScan \in Scan /\ ScanWhole(NoScan)
    BY DEF NoScan, Scan, ScanWhole, Description
  <2> QED
    BY <1>7, <2>1, ScanStep DEF EndScan
<1> QED
  BY <1>3, <1>4, <1>5, <1>6, <1>7 DEF Scanning

\* Owners, pushes and policy changes keep the invariant.
LEMMA OutsideStep ==
    ASSUME ReviewInv, Outside
    PROVE  ReviewInv'
<1> USE ReviewAssumption
<1>1. CASE \E p \in Repo, text \in OwnerText : OwnerWrites(p, text)
  <2>1. PICK p \in Repo, text \in OwnerText : OwnerWrites(p, text)
    BY <1>1
  <2>2. text \in Description /\ text \notin Notice
    BY DEF OwnerText
  <2>3. standing' \in [Repo -> Description] /\ req' \in [Operator -> Request]
    BY <2>1, <2>2 DEF OwnerWrites, ReviewInv, TypeOK
  <2>4. \A o \in Operator : RequestWhole(req[o])'
    BY <2>1 DEF OwnerWrites, ReviewInv, RequestWhole
  <2> QED
    BY <2>1, <2>2, <2>3, <2>4, QuayStep DEF OwnerWrites
<1>2. CASE ~\E p \in Repo, text \in OwnerText : OwnerWrites(p, text)
  <2>1. /\ UNCHANGED <<rec, label, audit, desc, standing, req, scan>>
        /\ mode' \in [Repo -> Mode]
        /\ policy' \in [notice: Notice, active: Artifact \cup {None}]
    BY <1>2 DEF Outside, RepositoryBecomes, SetNotice, Activate, ReviewInv, TypeOK
  <2>2. TypeOK'
    BY <2>1 DEF ReviewInv, TypeOK
  <2>3. /\ RowsWhole' /\ (\A o \in Operator : RequestWhole(req[o])')
        /\ (\A s \in Scanner : ScanWhole(scan[s])')
        /\ OneActivePerRepository' /\ DecisionsRecorded' /\ NoticeTracked'
    BY <2>1 DEF ReviewInv, RowsWhole, RequestWhole, ScanWhole, OneActivePerRepository,
                DecisionsRecorded, NoticeTracked
  <2> QED
    BY <2>2, <2>3 DEF ReviewInv
<1> QED
  BY <1>1, <1>2

(***************************************************************************)
(* The theorems                                                            *)
(***************************************************************************)
\* Initially there are no records, no requests and no notices.
LEMMA InitInv == Init => ReviewInv
<1> SUFFICES ASSUME Init PROVE ReviewInv
  OBVIOUS
<1> USE ReviewAssumption
<1>1. NoRow \in Row /\ NoExample \in Example /\ NoScan \in Scan
      /\ [from |-> "absent", to |-> "absent"] \in Entry
  BY DEF NoRow, Row, Status, NoExample, Example, NoScan, Scan, Entry, Description
<1>2. TypeOK
  BY <1>1, Idle DEF Init, TypeOK, Mode, OwnerText
<1>3. /\ RowsWhole /\ (\A s \in Scanner : ScanWhole(scan[s]))
      /\ OneActivePerRepository /\ DecisionsRecorded /\ NoticeTracked
  BY DEF Init, RowsWhole, NoRow, NoScan, ScanWhole, OneActivePerRepository, Active,
         DecisionsRecorded, Terminal, NoticeTracked, OwnerText
<1>4. \A o \in Operator : RequestWhole(req[o])
  BY Idle DEF Init
<1> QED
  BY <1>2, <1>3, <1>4 DEF ReviewInv

\* Every step keeps the invariant.
LEMMA StepInv == ReviewInv /\ [Next]_vars => ReviewInv'
<1> SUFFICES ASSUME ReviewInv, [Next]_vars PROVE ReviewInv'
  OBVIOUS
<1>1. ASSUME NEW o \in Operator, Console(o) PROVE ReviewInv'
  <2>1. CASE \/ PutNotice(o) \/ PutBack(o)
             \/ \E text \in OwnerText \ {None} : PutRedaction(o, text)
    BY <2>1, QuayWriteStep
  <2>2. CASE \/ SaveOriginal(o) \/ CommitQuarantine(o) \/ CommitTerminal(o)
             \/ CommitReopen(o)
             \/ \E verdict \in {"spam", "ham"} : CommitClassify(o, verdict)
    BY <2>2, RecordWriteStep
  <2>3. CASE \E r \in Record : CreateManualFlaggedRecord(o, r)
    BY <2>3, CreateManualStep
  <2>4. CASE \/ \E kind \in Kinds, r \in Record : Begin(o, kind, r)
             \/ ChooseNotice(o) \/ FetchForQuarantine(o)
             \/ FetchForDismiss(o) \/ FetchForReopen(o) \/ ReadSnapshot(o)
             \/ SelectDecision(o) \/ SelectForReopen(o) \/ SelectForClassify(o)
             \/ BeginFlag(o) \/ (\E p \in Repo : InspectRepository(o, p))
             \/ Abort(o)
    BY <2>4, ReadingStep
  <2> QED
    BY <1>1, <2>1, <2>2, <2>3, <2>4 DEF Console
<1>2. ASSUME NEW s \in Scanner, Scanning(s) PROVE ReviewInv'
  BY <1>2, ScanningStep
<1>3. CASE Outside
  BY <1>3, OutsideStep
<1>4. CASE UNCHANGED vars
  BY <1>4 DEF vars, ReviewInv, TypeOK, RowsWhole, RequestWhole, ScanWhole,
              OneActivePerRepository, DecisionsRecorded, NoticeTracked
<1> QED
  BY <1>1, <1>2, <1>3, <1>4 DEF Next

\* ReviewInv holds in every reachable state, for any number of operators, scans,
\* records, repositories and texts.
THEOREM Inductive == Spec => []ReviewInv
BY InitInv, StepInv, PTL DEF Spec

\* The tables and the locals of requests and scans stay well formed.
THEOREM TypeCorrect == Spec => []TypeOK
<1>1. ReviewInv => TypeOK
  BY DEF ReviewInv
<1> QED
  BY <1>1, Inductive, PTL

\* A repository never has two records under review (create_flagged_record,
\* create_manual_flagged_record, reopen_terminal_record).
THEOREM OneActive == Spec => []OneActivePerRepository
<1>1. ReviewInv => OneActivePerRepository
  BY DEF ReviewInv
<1> QED
  BY <1>1, Inductive, PTL

\* A decided record has its label and its terminal artifact, however decisions
\* race (update_quarantine_record, reopen_terminal_record).
THEOREM DecisionsAreRecorded == Spec => []DecisionsRecorded
<1>1. ReviewInv => DecisionsRecorded
  BY DEF ReviewInv
<1> QED
  BY <1>1, Inductive, PTL

\* The tool never shows a notice it has no record of (quarantine, restore).
THEOREM NoticesAreTracked == Spec => []NoticeTracked
<1>1. ReviewInv => NoticeTracked
  BY DEF ReviewInv
<1> QED
  BY <1>1, Inductive, PTL
===============================================================================
