------------------------ MODULE ReviewLifecycleProofs ------------------------
(***************************************************************************)
(* With one operator at a time the requests of QuarantineReview implement  *)
(* ReviewLifecycle, for any scans, records, repositories and texts, and    *)
(* lose no owner's words; labels follow decisions whatever the number of   *)
(* operators.                                                              *)
(***************************************************************************)
EXTENDS QuarantineReviewProofs

\* One operator at a time.
Serial == \A o, x \in Operator : o = x

\* Record r goes from one of the statuses to another and teaches the verdict;
\* its history says so.
Walks(r, from, to, verdict) ==
    /\ rec[r].status \in from
    /\ \A q \in Record : rec'[q].status = IF q = r THEN to ELSE rec[q].status
    /\ \A q \in Record : label'[q].label = IF q = r THEN verdict ELSE label[q].label
    /\ audit' = [audit EXCEPT ![r] = [from |-> rec[r].status, to |-> to]]

\* The steps of ReviewLifecycle, each with its history.
Walk(r) ==
    \/ \E v \in {"none", "spam"} : Walks(r, {"absent"}, "flagged", v)
    \/ \E v \in {"spam", "ham"} : Walks(r, {"flagged"}, "flagged", v)
    \/ Walks(r, {"flagged"}, "quarantined", "spam")
    \/ Walks(r, {"quarantined"}, "restored", "ham")
    \/ Walks(r, {"flagged", "quarantined"}, "dismissed", "ham")
    \/ Walks(r, {"quarantined"}, "redacted", "spam")
    \/ Walks(r, {"restored", "dismissed"}, "flagged", "none")

\* Nothing the lifecycle tells apart changes.
Stays ==
    /\ \A q \in Record : rec'[q].status = rec[q].status
    /\ UNCHANGED <<label, audit>>

\* What is written into the row and its label by each kind of decision.
LEMMA CommitWalks ==
    ASSUME ReviewInv, StatusHeld, NEW o \in Operator,
           \/ CommitQuarantine(o) \/ CommitTerminal(o) \/ CommitReopen(o)
           \/ \E verdict \in {"spam", "ham"} : CommitClassify(o, verdict)
    PROVE  /\ \E r \in Record : Walk(r)
           /\ req' = [req EXCEPT ![o] = NoRequest]
<1> USE ReviewAssumption
<1> DEFINE r == req[o].id
<1>1. /\ req[o] \in Request /\ RequestWhole(req[o]) /\ Held(req[o])
      /\ rec \in [Record -> Row] /\ label \in [Record -> Example] /\ audit \in [Record -> Entry]
  BY DEF ReviewInv, TypeOK, StatusHeld
<1>2. req[o].pc = "commit" /\ req' = [req EXCEPT ![o] = NoRequest]
  BY DEF CommitQuarantine, CommitTerminal, CommitReopen, CommitClassify, At, Finish, Advance
<1>3. /\ r \in Record /\ rec[r] \in Row /\ req[o].text \in Description
      /\ rec[r].status \in Opens[req[o].kind] /\ req[o].from = rec[r].status
      /\ req[o].kind = "classify" => rec[r].status = "flagged"
  BY <1>1, <1>2 DEF RequestWhole, Working, Held, Request
<1>4. CASE CommitQuarantine(o)
  <2>1. rec[r].status \in {"flagged"}
    BY <1>3, <1>4 DEF CommitQuarantine, At, Opens
  <2>2. Walks(r, {"flagged"}, "quarantined", "spam")
    BY <1>1, <1>3, <1>4, <2>1 DEF CommitQuarantine, Write, Walks
  <2> QED
    BY <1>2, <1>3, <2>2 DEF Walk
<1>5. CASE CommitTerminal(o)
  <2>1. CASE req[o].kind = "restore"
    <3>1. rec[r].status \in {"quarantined"}
      BY <1>3, <2>1 DEF Opens
    <3>2. Walks(r, {"quarantined"}, "restored", "ham")
      BY <1>1, <1>3, <1>5, <2>1, <3>1 DEF CommitTerminal, Write, Walks, Outcome, Teaches
    <3> QED
      BY <1>2, <1>3, <3>2 DEF Walk
  <2>2. CASE req[o].kind = "redact"
    <3>1. rec[r].status \in {"quarantined"}
      BY <1>3, <2>2 DEF Opens
    <3>2. Walks(r, {"quarantined"}, "redacted", "spam")
      BY <1>1, <1>3, <1>5, <2>2, <3>1 DEF CommitTerminal, Write, Walks, Outcome, Teaches
    <3> QED
      BY <1>2, <1>3, <3>2 DEF Walk
  <2>3. CASE req[o].kind = "dismiss"
    <3>1. rec[r].status \in {"flagged", "quarantined"}
      BY <1>3, <2>3 DEF Opens, Active
    <3>2. Walks(r, {"flagged", "quarantined"}, "dismissed", "ham")
      BY <1>1, <1>3, <1>5, <2>3, <3>1 DEF CommitTerminal, Write, Walks, Outcome, Teaches
    <3> QED
      BY <1>2, <1>3, <3>2 DEF Walk
  <2> QED
    BY <1>5, <2>1, <2>2, <2>3 DEF CommitTerminal, At
<1>6. CASE CommitReopen(o)
  <2>1. rec[r].status \in {"restored", "dismissed"}
    BY <1>3, <1>6 DEF CommitReopen, At, Opens
  <2>2. Walks(r, {"restored", "dismissed"}, "flagged", "none")
    BY <1>1, <1>3, <1>6, <2>1 DEF CommitReopen, Write, Walks, NoExample
  <2> QED
    BY <1>2, <1>3, <2>2 DEF Walk
<1>7. CASE \E verdict \in {"spam", "ham"} : CommitClassify(o, verdict)
  <2>1. PICK verdict \in {"spam", "ham"} : CommitClassify(o, verdict)
    BY <1>7
  <2>2. rec[r].status = "flagged" /\ req[o].from = "flagged"
    BY <1>3, <2>1 DEF CommitClassify, At
  <2>3. Walks(r, {"flagged"}, "flagged", verdict)
    BY <1>1, <1>3, <2>1, <2>2 DEF CommitClassify, Walks
  <2> QED
    BY <1>2, <1>3, <2>3 DEF Walk
<1> QED
  BY <1>4, <1>5, <1>6, <1>7

\* A record that a scan or a report opens starts its lifecycle.
LEMMA CreateWalks ==
    ASSUME ReviewInv, NEW r \in Record,
           \/ \E o \in Operator : CreateManualFlaggedRecord(o, r)
           \/ \E s \in Scanner : CreateFlaggedRecord(s, r)
    PROVE  Walk(r) \/ Stays
<1> USE ReviewAssumption
<1>1. rec \in [Record -> Row] /\ label \in [Record -> Example] /\ audit \in [Record -> Entry]
  BY DEF ReviewInv, TypeOK
<1>2. NextId(r) => rec[r].status = "absent"
  BY DEF NextId
<1>3. CASE \E o \in Operator : CreateManualFlaggedRecord(o, r)
  <2>1. PICK o \in Operator : CreateManualFlaggedRecord(o, r)
    BY <1>3
  <2>2. req[o].snap.status = "flagged"
    BY <2>1 DEF CreateManualFlaggedRecord, At, ReviewInv, RequestWhole
  <2>3. Walks(r, {"absent"}, "flagged", "spam")
    BY <1>1, <1>2, <2>1, <2>2 DEF CreateManualFlaggedRecord, Write, Walks
  <2> QED
    BY <2>3 DEF Walk
<1>4. CASE \E s \in Scanner : CreateFlaggedRecord(s, r)
  <2>1. PICK s \in Scanner : CreateFlaggedRecord(s, r)
    BY <1>4
  <2>2. CASE UNCHANGED <<rec, label, audit>>
    BY <2>2 DEF Stays
  <2>3. CASE /\ NextId(r)
             /\ Write(r, FlaggedRow(scan[s].repo, scan[s].text, scan[s].artifact),
                      NoExample, "absent")
    <3>1. Walks(r, {"absent"}, "flagged", "none")
      BY <1>1, <1>2, <2>3 DEF Write, Walks, FlaggedRow, NoRow, NoExample
    <3> QED
      BY <3>1 DEF Walk
  <2> QED
    BY <2>1, <2>2, <2>3 DEF CreateFlaggedRecord
<1> QED
  BY <1>3, <1>4

(***************************************************************************)
(* Nobody else changes the status of a record a request is about           *)
(***************************************************************************)
\* A step of a request that leaves every status alone.
LEMMA QuietStep ==
    ASSUME ReviewInv, StatusHeld, NEW o \in Operator, NEW next, req'[o] = next,
           \A x \in Operator \ {o} : req'[x] = req[x], Held(next),
           next.pc \in Working => next.id \in Record,
           \A r \in Record : rec'[r].status = rec[r].status
    PROVE  StatusHeld'
<1> SUFFICES ASSUME NEW x \in Operator PROVE Held(req[x])'
  BY DEF StatusHeld
<1>1. req'[x] = IF x = o THEN next ELSE req[x]
  OBVIOUS
<1>2. Held(req[x]) /\ (req[x].pc \in Working => req[x].id \in Record)
  BY DEF StatusHeld, ReviewInv, RequestWhole
<1>3. Held(req'[x]) /\ (req'[x].pc \in Working => req'[x].id \in Record)
  BY <1>1, <1>2
<1> QED
  BY <1>3 DEF Held

\* The steps of a request before its write is committed change no status, label or
\* history.
LEMMA QuietRows ==
    ASSUME ReviewInv, NEW o \in Operator,
           \/ \E kind \in Kinds, r \in Record : Begin(o, kind, r)
           \/ ChooseNotice(o) \/ FetchForQuarantine(o) \/ SaveOriginal(o) \/ PutNotice(o)
           \/ PutBack(o) \/ \E text \in OwnerText \ {None} : PutRedaction(o, text)
           \/ FetchForDismiss(o) \/ FetchForReopen(o) \/ ReadSnapshot(o)
           \/ SelectDecision(o) \/ SelectForReopen(o) \/ SelectForClassify(o)
           \/ BeginFlag(o) \/ (\E p \in Repo : InspectRepository(o, p)) \/ Abort(o)
    PROVE  Stays
<1>1. CASE SaveOriginal(o)
  <2>1. rec \in [Record -> Row] /\ req[o].id \in Record
    BY <1>1 DEF SaveOriginal, At, Working, Reading, ReviewInv, TypeOK, RequestWhole
  <2> QED
    BY <1>1, <2>1 DEF SaveOriginal, Stays, Row
<1>2. CASE ~SaveOriginal(o)
  BY <1>2 DEF Begin, ChooseNotice, FetchForQuarantine, PutNotice, PutBack, PutRedaction,
              FetchForDismiss, FetchForReopen, ReadSnapshot, SelectDecision, SelectForReopen,
              SelectForClassify, BeginFlag, InspectRepository, Abort, Stays
<1> QED
  BY <1>1, <1>2

\* The steps of a request before its write is committed.
LEMMA QuietSteps ==
    ASSUME ReviewInv, StatusHeld, NEW o \in Operator,
           \/ \E kind \in Kinds, r \in Record : Begin(o, kind, r)
           \/ ChooseNotice(o) \/ FetchForQuarantine(o) \/ SaveOriginal(o) \/ PutNotice(o)
           \/ PutBack(o) \/ \E text \in OwnerText \ {None} : PutRedaction(o, text)
           \/ FetchForDismiss(o) \/ FetchForReopen(o) \/ ReadSnapshot(o)
           \/ SelectDecision(o) \/ SelectForReopen(o) \/ SelectForClassify(o)
           \/ BeginFlag(o) \/ (\E p \in Repo : InspectRepository(o, p)) \/ Abort(o)
    PROVE  Stays /\ StatusHeld'
<1>1. /\ req \in [Operator -> Request] /\ req[o] \in Request /\ Held(req[o])
      /\ rec \in [Record -> Row]
      /\ req[o].pc \in Working => req[o].id \in Record
  BY DEF ReviewInv, TypeOK, StatusHeld, RequestWhole
<1>0. Stays
  BY QuietRows
<1>2. CASE \E kind \in Kinds, r \in Record : Begin(o, kind, r)
  <2>1. PICK kind \in Kinds, r \in Record : Begin(o, kind, r)
    BY <1>2
  <2> DEFINE next == [NoRequest EXCEPT !.pc = "open", !.kind = kind, !.id = r,
                                       !.snap = Read(r)]
  <2>2. /\ req'[o] = next /\ (\A x \in Operator \ {o} : req'[x] = req[x])
        /\ rec[r].status \in Opens[kind]
        /\ UNCHANGED <<rec, label, audit>>
    BY <1>1, <2>1 DEF Begin, Advance
  <2>3. next.pc = "open" /\ next.kind = kind /\ next.id = r
    BY DEF NoRequest
  <2> HIDE DEF next
  <2>4. Held(next)
    BY <2>2, <2>3 DEF Held
  <2> QED
    BY <1>0, <2>2, <2>3, <2>4, QuietStep DEF Stays
<1>3. CASE \/ ChooseNotice(o) \/ FetchForQuarantine(o) \/ SaveOriginal(o) \/ PutNotice(o)
           \/ PutBack(o) \/ \E text \in OwnerText \ {None} : PutRedaction(o, text)
           \/ FetchForDismiss(o) \/ FetchForReopen(o) \/ ReadSnapshot(o)
  <2> DEFINE next == req'[o]
  <2>1. /\ next.pc # "commit" /\ next.kind = req[o].kind /\ next.id = req[o].id
        /\ \A x \in Operator \ {o} : req'[x] = req[x]
    <3>1. CASE ChooseNotice(o)
      BY <1>1, <3>1 DEF Advance, ChooseNotice, Request
    <3>2. CASE FetchForQuarantine(o)
      <4>1. CASE Advance(o, [req[o] EXCEPT !.pc = "decide", !.text = req[o].snap.original])
        BY <1>1, <4>1 DEF Advance, Request
      <4>2. CASE Advance(o, [req[o] EXCEPT !.pc = "save", !.text = desc[req[o].snap.repo]])
        BY <1>1, <4>2 DEF Advance, Request
      <4> QED
        BY <3>2, <4>1, <4>2 DEF FetchForQuarantine
    <3>3. CASE SaveOriginal(o)
      BY <1>1, <3>3 DEF Advance, SaveOriginal, Request
    <3>4. CASE PutNotice(o)
      BY <1>1, <3>4 DEF Advance, PutNotice, Request
    <3>5. CASE PutBack(o)
      BY <1>1, <3>5 DEF Advance, PutBack, Request
    <3>6. CASE \E text \in OwnerText \ {None} : PutRedaction(o, text)
      <4>1. PICK text : PutRedaction(o, text)
        BY <3>6
      <4> QED
        BY <1>1, <4>1 DEF Advance, PutRedaction, Request
    <3>7. CASE FetchForDismiss(o)
      BY <1>1, <3>7 DEF Advance, FetchForDismiss, Request
    <3>8. CASE FetchForReopen(o)
      BY <1>1, <3>8 DEF Advance, FetchForReopen, Request
    <3>9. CASE ReadSnapshot(o)
      BY <1>1, <3>9 DEF Advance, ReadSnapshot, Request
    <3> QED
      BY <1>3, <3>1, <3>2, <3>3, <3>4, <3>5, <3>6, <3>7, <3>8, <3>9
  <2>2. req[o].pc \in Working
    BY <1>3 DEF ChooseNotice, FetchForQuarantine, SaveOriginal, PutNotice, PutBack,
                PutRedaction, FetchForDismiss, FetchForReopen, ReadSnapshot, At,
                Working, Reading
  <2> HIDE DEF next
  <2>4. Held(next)
    BY <1>1, <2>1, <2>2 DEF Held
  <2> QED
    BY <1>0, <1>1, <2>1, <2>2, <2>4, QuietStep DEF Stays, next
<1>4. CASE SelectDecision(o) \/ SelectForReopen(o) \/ SelectForClassify(o)
  <2> DEFINE next == req'[o]
  <2>1. /\ next.kind = req[o].kind /\ next.id = req[o].id
        /\ next.from = rec[req[o].id].status
        /\ \A x \in Operator \ {o} : req'[x] = req[x]
    <3>1. CASE SelectDecision(o)
      BY <1>1, <3>1 DEF Advance, SelectDecision, Request
    <3>2. CASE SelectForReopen(o)
      BY <1>1, <3>2 DEF Advance, SelectForReopen, Request
    <3>3. CASE SelectForClassify(o)
      BY <1>1, <3>3 DEF Advance, SelectForClassify, Request
    <3> QED
      BY <1>4, <3>1, <3>2, <3>3
  <2>2. /\ req[o].pc \in Working
        /\ req[o].kind = "classify" => rec[req[o].id].status = "flagged"
    BY <1>4 DEF SelectDecision, SelectForReopen, SelectForClassify, At, Working, Reading
  <2> HIDE DEF next
  <2>4. Held(next)
    BY <1>1, <2>1, <2>2 DEF Held
  <2> QED
    BY <1>0, <1>1, <2>1, <2>2, <2>4, QuietStep DEF Stays, next
<1>5. CASE BeginFlag(o) \/ (\E p \in Repo : InspectRepository(o, p)) \/ Abort(o)
  <2> DEFINE next == req'[o]
  <2>1. /\ next.pc \in {"inspect", "insert", "idle"}
        /\ \A x \in Operator \ {o} : req'[x] = req[x]
    <3>1. CASE BeginFlag(o)
      BY <1>1, <3>1 DEF Advance, BeginFlag, NoRequest
    <3>3. CASE Abort(o)
      BY <1>1, <3>3 DEF Advance, Abort, Finish, NoRequest
    <3>2. CASE \E p \in Repo : InspectRepository(o, p)
      <4>1. PICK p : InspectRepository(o, p)
        BY <3>2
      <4> QED
        BY <1>1, <4>1 DEF Advance, InspectRepository, Request
    <3> QED
      BY <1>5, <3>1, <3>2, <3>3
  <2>3. next.pc \notin Working
    BY <2>1 DEF Working, Reading
  <2> HIDE DEF next
  <2>4. Held(next)
    BY <2>3 DEF Held
  <2> QED
    BY <1>0, <2>1, <2>3, <2>4, QuietStep DEF Stays, next
<1> QED
  BY <1>0, <1>2, <1>3, <1>4, <1>5

\* Every step either walks one record or changes nothing of the lifecycle; with one
\* operator at a time the next request finds the record as it was opened.
LEMMA SerialStep ==
    ASSUME ReviewInv, StatusHeld, Serial, [Next]_vars
    PROVE  /\ Stays \/ \E r \in Record : Walk(r)
           /\ StatusHeld'
<1>1. ASSUME NEW o \in Operator, req' = [req EXCEPT ![o] = NoRequest]
      PROVE  StatusHeld'
  <2>1. \A x \in Operator : req'[x] = NoRequest
    BY <1>1 DEF Serial, ReviewInv, TypeOK
  <2> QED
    BY <2>1 DEF StatusHeld, Held, NoRequest, Working, Reading
<1>2. ASSUME NEW o \in Operator, Console(o)
      PROVE  (Stays \/ \E r \in Record : Walk(r)) /\ StatusHeld'
  <2>1. CASE \/ CommitQuarantine(o) \/ CommitTerminal(o) \/ CommitReopen(o)
             \/ \E verdict \in {"spam", "ham"} : CommitClassify(o, verdict)
    BY <1>1, <2>1, CommitWalks
  <2>2. CASE \E r \in Record : CreateManualFlaggedRecord(o, r)
    <3>1. PICK r \in Record : CreateManualFlaggedRecord(o, r)
      BY <2>2
    <3>2. req' = [req EXCEPT ![o] = NoRequest]
      BY <3>1 DEF CreateManualFlaggedRecord, Finish, Advance
    <3> QED
      BY <1>1, <3>1, <3>2, CreateWalks
  <2>3. CASE \/ \E kind \in Kinds, r \in Record : Begin(o, kind, r)
             \/ ChooseNotice(o) \/ FetchForQuarantine(o) \/ SaveOriginal(o) \/ PutNotice(o)
             \/ PutBack(o) \/ \E text \in OwnerText \ {None} : PutRedaction(o, text)
             \/ FetchForDismiss(o) \/ FetchForReopen(o) \/ ReadSnapshot(o)
             \/ SelectDecision(o) \/ SelectForReopen(o) \/ SelectForClassify(o)
             \/ BeginFlag(o) \/ (\E p \in Repo : InspectRepository(o, p)) \/ Abort(o)
    BY <2>3, QuietSteps
  <2> QED
    BY <1>2, <2>1, <2>2, <2>3 DEF Console
<1>3. ASSUME req' = req, Stays
      PROVE  StatusHeld'
  BY <1>3 DEF StatusHeld, Held, Stays, ReviewInv, RequestWhole
<1>4. ASSUME NEW s \in Scanner, Scanning(s)
      PROVE  (Stays \/ \E r \in Record : Walk(r)) /\ StatusHeld'
  <2>1. CASE \E r \in Record : CreateFlaggedRecord(s, r)
    <3>1. PICK r \in Record : CreateFlaggedRecord(s, r)
      BY <2>1
    <3>2. req' = req
      BY <3>1 DEF CreateFlaggedRecord
    <3>3. CASE UNCHANGED <<rec, label, audit>>
      <4>1. Stays
        BY <3>3 DEF Stays
      <4> QED
        BY <1>3, <3>2, <4>1
    <3>4. CASE NextId(r) /\ rec' = [rec EXCEPT ![r] =
                   FlaggedRow(scan[s].repo, scan[s].text, scan[s].artifact)]
      <4>1. \A q \in Record : rec[q].status # "absent" => rec'[q] = rec[q]
        BY <3>4 DEF NextId, ReviewInv, TypeOK
      <4>2. StatusHeld'
        BY <3>2, <4>1 DEF StatusHeld, Held, ReviewInv, RequestWhole
      <4> QED
        BY <3>1, <4>2, CreateWalks
    <3> QED
      BY <3>1, <3>3, <3>4 DEF CreateFlaggedRecord, Write
  <2>2. CASE \/ LoadActive(s) \/ (\E p \in Repo : MatchRepository(s, p))
             \/ CheckActive(s) \/ CheckTerminal(s) \/ EndScan(s)
    <3>1. req' = req /\ Stays
      BY <2>2 DEF LoadActive, MatchRepository, CheckActive, CheckTerminal, EndScan, Stays
    <3> QED
      BY <1>3, <3>1
  <2> QED
    BY <1>4, <2>1, <2>2 DEF Scanning
<1>5. CASE Outside \/ UNCHANGED vars
  <2>1. req' = req /\ Stays
    BY <1>5 DEF Outside, OwnerWrites, RepositoryBecomes, SetNotice, Activate, vars, Stays
  <2> QED
    BY <1>3, <2>1
<1> QED
  BY <1>2, <1>4, <1>5 DEF Next

\* Initially no request holds a record.
LEMMA SerialInit == Init => StatusHeld
BY DEF Init, StatusHeld, Held, NoRequest, Working, Reading

(***************************************************************************)
(* The theorems                                                            *)
(***************************************************************************)
\* A walk is a step of the abstract lifecycle.
LEMMA WalkIsStep ==
    ASSUME NEW r \in Record, Walk(r)
    PROVE  Lifecycle!Next
<1>1. ASSUME NEW from, NEW to, NEW v, Walks(r, from, to, v)
      PROVE  Lifecycle!Step(r, from, to, v)
  BY <1>1 DEF Walks, Lifecycle!Step
<1> QED
  BY <1>1 DEF Walk, Lifecycle!Next, Lifecycle!Flag, Lifecycle!Label, Lifecycle!Quarantine,
              Lifecycle!Restore, Lifecycle!Dismiss, Lifecycle!Redact, Lifecycle!Reopen

\* With one operator at a time, whatever scans, owners, policy changes and crashes
\* do, every record walks the lifecycle of ReviewLifecycle, and each decision comes
\* with its label (the requests of remediation.py over store.py).
THEOREM LifecycleImplemented ==
    ASSUME Serial
    PROVE  Spec => LifecycleHolds
<1>1. Init => Lifecycle!Init
  BY DEF Init, NoRow, NoExample, Lifecycle!Init
<1>2. ReviewInv /\ StatusHeld /\ [Next]_vars => StatusHeld' /\ [Lifecycle!Next]_(Lifecycle!vars)
  <2> SUFFICES ASSUME ReviewInv, StatusHeld, [Next]_vars
               PROVE  StatusHeld' /\ [Lifecycle!Next]_(Lifecycle!vars)
    OBVIOUS
  <2>1. Stays => UNCHANGED Lifecycle!vars
    BY DEF Stays, Lifecycle!vars
  <2> QED
    BY <2>1, SerialStep, WalkIsStep
<1> QED
  BY <1>1, <1>2, SerialInit, Inductive, PTL DEF Spec, LifecycleHolds, Lifecycle!Spec

\* With one operator at a time the history of every record is a path through the
\* lifecycle: each row starts in the status the record had and ends in the one it
\* has (add_action_with_conn).
THEOREM HistoryIsKept ==
    ASSUME Serial
    PROVE  Spec => HistoryIsAPath
<1>1. ASSUME ReviewInv, NEW r \in Record, Walk(r), NEW q \in Record, audit'[q] # audit[q]
      PROVE  audit'[q] = [from |-> rec[q].status, to |-> rec'[q].status]
  <2>1. PICK from, to, v : Walks(r, from, to, v)
    BY <1>1 DEF Walk
  <2>2. audit \in [Record -> Entry]
    BY <1>1 DEF ReviewInv, TypeOK
  <2> QED
    BY <1>1, <2>1, <2>2 DEF Walks
<1>2. ReviewInv /\ StatusHeld /\ [Next]_vars =>
          /\ StatusHeld'
          /\ [\A r \in Record : audit'[r] # audit[r] =>
                 audit'[r] = [from |-> rec[r].status, to |-> rec'[r].status]]_vars
  BY <1>1, SerialStep DEF Stays
<1> QED
  BY <1>2, SerialInit, Inductive, PTL DEF Spec, HistoryIsAPath

(***************************************************************************)
(* Labels, with one operator at a time                                     *)
(***************************************************************************)
\* The label a row in this status has, if it has one of its own.
Agree(status, verdict) ==
    /\ status \in {"quarantined", "redacted"} => verdict = "spam"
    /\ status \in {"restored", "dismissed"} => verdict = "ham"

\* A written row comes with the label of its status.
LEMMA WriteAgrees ==
    ASSUME ReviewInv, LabelFollowsDecision, NEW r \in Record, NEW row, NEW example, NEW from,
           Write(r, row, example, from), Agree(row.status, example.label)
    PROVE  LabelFollowsDecision'
BY DEF ReviewInv, TypeOK, LabelFollowsDecision, Write, Agree

\* No step parts a label from the decision: an explicit one goes to a record that is
\* still flagged.
LEMMA LabelStep ==
    ASSUME ReviewInv, StatusHeld, LabelFollowsDecision, [Next]_vars
    PROVE  LabelFollowsDecision'
<1>1. ASSUME Stays PROVE LabelFollowsDecision'
  BY <1>1 DEF Stays, LabelFollowsDecision
<1>2. ASSUME NEW o \in Operator, Console(o) PROVE LabelFollowsDecision'
  <2> DEFINE r == req[o].id
  <2>1. /\ req[o] \in Request /\ RequestWhole(req[o]) /\ rec \in [Record -> Row]
    BY DEF ReviewInv, TypeOK
  <2>2. req[o].pc \in Working => r \in Record
    BY <2>1 DEF RequestWhole
  <2>3. CASE CommitQuarantine(o)
    <3>1. r \in Record
      BY <2>2, <2>3 DEF CommitQuarantine, At, Working
    <3>2. [rec[r] EXCEPT !.status = "quarantined", !.original = req[o].text,
                         !.notice = req[o].notice].status = "quarantined"
      BY <2>1, <3>1 DEF Row
    <3> QED
      BY <2>3, <3>1, <3>2, WriteAgrees DEF CommitQuarantine, Agree
  <2>4. CASE CommitTerminal(o)
    <3>1. r \in Record /\ req[o].kind \in {"restore", "redact", "dismiss"}
      BY <2>2, <2>4 DEF CommitTerminal, At, Working
    <3>2. rec'[r].status = Outcome[req[o].kind] /\ label'[r].label = Teaches[req[o].kind]
      BY <2>1, <2>4, <3>1 DEF CommitTerminal, Write, Row, ReviewInv, TypeOK
    <3>3. \A q \in Record \ {r} : rec'[q] = rec[q] /\ label'[q] = label[q]
      BY <2>4 DEF CommitTerminal, Write, ReviewInv, TypeOK
    <3>4. Agree(rec'[r].status, label'[r].label)
      BY <3>1, <3>2 DEF Agree, Outcome, Teaches
    <3> QED
      BY <3>3, <3>4 DEF LabelFollowsDecision, Agree
  <2>5. CASE CommitReopen(o)
    <3>1. r \in Record
      BY <2>2, <2>5 DEF CommitReopen, At, Working
    <3>2. rec'[r].status = "flagged"
      BY <2>1, <2>5, <3>1 DEF CommitReopen, Write, Row
    <3>3. \A q \in Record \ {r} : rec'[q] = rec[q] /\ label'[q] = label[q]
      BY <2>5 DEF CommitReopen, Write, ReviewInv, TypeOK
    <3> QED
      BY <3>2, <3>3 DEF LabelFollowsDecision
  <2>6. CASE \E verdict \in {"spam", "ham"} : CommitClassify(o, verdict)
    <3>1. /\ r \in Record /\ req[o].pc = "commit" /\ req[o].kind = "classify"
          /\ rec' = rec /\ \A q \in Record \ {r} : label'[q] = label[q]
      BY <2>2, <2>6 DEF CommitClassify, At, Working, ReviewInv, TypeOK
    <3>2. rec[r].status = "flagged"
      BY <3>1 DEF StatusHeld, Held, Working
    <3> QED
      BY <3>1, <3>2 DEF LabelFollowsDecision
  <2>7. CASE \E q \in Record : CreateManualFlaggedRecord(o, q)
    <3>1. PICK q \in Record : CreateManualFlaggedRecord(o, q)
      BY <2>7
    <3>2. req[o].snap.status = "flagged"
      BY <2>1, <3>1 DEF CreateManualFlaggedRecord, At, RequestWhole
    <3> QED
      BY <3>1, <3>2, WriteAgrees DEF CreateManualFlaggedRecord, Agree
  <2>8. CASE \/ \E kind \in Kinds, q \in Record : Begin(o, kind, q)
             \/ ChooseNotice(o) \/ FetchForQuarantine(o) \/ SaveOriginal(o) \/ PutNotice(o)
             \/ PutBack(o) \/ \E text \in OwnerText \ {None} : PutRedaction(o, text)
             \/ FetchForDismiss(o) \/ FetchForReopen(o) \/ ReadSnapshot(o)
             \/ SelectDecision(o) \/ SelectForReopen(o) \/ SelectForClassify(o)
             \/ BeginFlag(o) \/ (\E p \in Repo : InspectRepository(o, p)) \/ Abort(o)
    BY <1>1, <2>8, QuietRows
  <2> QED
    BY <1>2, <2>3, <2>4, <2>5, <2>6, <2>7, <2>8 DEF Console
<1>3. ASSUME NEW s \in Scanner, Scanning(s) PROVE LabelFollowsDecision'
  <2>1. CASE \E r \in Record : CreateFlaggedRecord(s, r)
    <3>1. PICK r \in Record : CreateFlaggedRecord(s, r)
      BY <2>1
    <3>2. CASE UNCHANGED <<rec, label, audit>>
      BY <1>1, <3>2 DEF Stays
    <3>3. CASE Write(r, FlaggedRow(scan[s].repo, scan[s].text, scan[s].artifact),
                     NoExample, "absent")
      BY <3>3, WriteAgrees DEF FlaggedRow, NoRow, Agree
    <3> QED
      BY <3>1, <3>2, <3>3 DEF CreateFlaggedRecord
  <2>2. CASE \/ LoadActive(s) \/ (\E p \in Repo : MatchRepository(s, p))
             \/ CheckActive(s) \/ CheckTerminal(s) \/ EndScan(s)
    BY <1>1, <2>2 DEF LoadActive, MatchRepository, CheckActive, CheckTerminal, EndScan, Stays
  <2> QED
    BY <1>3, <2>1, <2>2 DEF Scanning
<1>4. CASE Outside \/ UNCHANGED vars
  BY <1>1, <1>4 DEF Outside, OwnerWrites, RepositoryBecomes, SetNotice, Activate, vars, Stays
<1> QED
  BY <1>2, <1>3, <1>4 DEF Next

\* With one operator at a time, a record's label is the one its decision teaches, and
\* labelling by hand leaves it so (update_quarantine_record, reopen_terminal_record and
\* classify_quarantine_record, which write label and status in one transaction).
THEOREM LabelsFollow ==
    ASSUME Serial
    PROVE  Spec => []LabelFollowsDecision
<1>1. Init => StatusHeld /\ LabelFollowsDecision
  BY SerialInit DEF Init, LabelFollowsDecision, NoRow
<1>2. ReviewInv /\ StatusHeld /\ LabelFollowsDecision /\ [Next]_vars
      => StatusHeld' /\ LabelFollowsDecision'
  BY SerialStep, LabelStep
<1> QED
  BY <1>1, <1>2, Inductive, PTL DEF Spec

(***************************************************************************)
(* The owner's words, with one operator at a time                          *)
(***************************************************************************)
\* What is known of the request of o between its steps.
Hand(o) ==
    /\ req \in [Operator -> Request] /\ req[o] \in Request /\ req[o].snap \in Row
    /\ rec \in [Record -> Row]
    /\ desc \in [Repo -> Description] /\ standing \in [Repo -> Description]
    /\ req[o].pc \in Working =>
          /\ req[o].id \in Record /\ rec[req[o].id] \in Row
          /\ rec[req[o].id].repo \in Repo
          /\ rec[req[o].id].status \in Opens[req[o].kind]
          /\ req[o].kind \in Kinds \ {"flag"}
          /\ Carries(req[o])
    /\ req[o].pc \in Reading => req[o].snap.repo = rec[req[o].id].repo

LEMMA InHand ==
    ASSUME ReviewInv, StatusHeld, DescriptionInv, NEW o \in Operator
    PROVE  Hand(o)
<1>1. req[o] \in Request /\ RequestWhole(req[o]) /\ Held(req[o]) /\ RowsWhole
  BY DEF ReviewInv, TypeOK, StatusHeld
<1>2. req[o].pc \in Working =>
          /\ req[o].id \in Record /\ rec[req[o].id].status # "absent"
          /\ req[o].kind \in Kinds \ {"flag"}
  BY <1>1 DEF RequestWhole
<1>3. req[o].pc \in Reading => req[o].snap.repo = rec[req[o].id].repo
  BY <1>1 DEF RequestWhole
<1>4. req[o].snap \in Row
  BY <1>1 DEF Request
<1> QED
  BY <1>1, <1>2, <1>3, <1>4 DEF ReviewInv, TypeOK, RowsWhole, Held, Hand,
                                 DescriptionInv, NoticeCanBeLifted

\* A step of a request that writes neither a row nor a description.
LEMMA QuietWords ==
    ASSUME DescriptionInv, Serial, NEW o \in Operator, UNCHANGED <<rec, desc, standing>>,
           req'[o].pc \in Working => Carries(req[o])'
    PROVE  DescriptionInv'
<1>1. \A x \in Operator : x = o
  BY DEF Serial
<1>2. \A p \in Repo : Plain(p)' = Plain(p) /\ Alone(p)' = Alone(p) /\ Kept(p)' = Kept(p)
  BY DEF Plain, Alone, Kept, OneNotice
<1>3. \A p \in Repo : \A r \in Record : Covers(r, p)' = Covers(r, p)
  BY DEF Covers
<1> QED
  BY <1>1, <1>2, <1>3 DEF DescriptionInv, NoticeCanBeLifted, DescriptionKept

\* The steps of a request that write neither a row nor a description.
LEMMA ReadingWords ==
    ASSUME ReviewInv, StatusHeld, DescriptionInv, Serial, NEW o \in Operator,
           \/ \E kind \in Kinds, r \in Record : Begin(o, kind, r)
           \/ ChooseNotice(o) \/ FetchForQuarantine(o)
           \/ FetchForDismiss(o) \/ FetchForReopen(o) \/ ReadSnapshot(o)
           \/ SelectDecision(o) \/ SelectForReopen(o) \/ SelectForClassify(o)
           \/ (\E verdict \in {"spam", "ham"} : CommitClassify(o, verdict))
           \/ BeginFlag(o) \/ (\E p \in Repo : InspectRepository(o, p)) \/ Abort(o)
    PROVE  DescriptionInv'
<1>0. Hand(o)
  BY InHand
<1>1. UNCHANGED <<rec, desc, standing>>
  BY DEF Begin, ChooseNotice, FetchForQuarantine, FetchForDismiss, FetchForReopen,
         ReadSnapshot, SelectDecision, SelectForReopen, SelectForClassify, CommitClassify,
         BeginFlag, InspectRepository, Abort
<1>2. \A p \in Repo : Plain(p)' = Plain(p)
  BY <1>1 DEF Plain, Alone, OneNotice
<1>3. CASE \E kind \in Kinds, r \in Record : Begin(o, kind, r)
  <2>1. PICK kind \in Kinds, r \in Record : Begin(o, kind, r)
    BY <1>3
  <2>2. /\ req'[o].pc = "open" /\ req'[o].id = r
        /\ req'[o].snap.original = rec[r].original /\ req'[o].snap.notice = rec[r].notice
    BY <2>1, <1>0 DEF Hand, Begin, Advance, NoRequest, Read, Row
  <2>3. Carries(req[o])'
    BY <1>1, <2>2 DEF Carries
  <2> QED
    BY <1>1, <2>3, QuietWords
<1>4. CASE ChooseNotice(o)
  <2>1. req[o].pc = "open" /\ req[o].kind = "quarantine" /\ Carries(req[o])
    BY <1>4, <1>0 DEF Hand, ChooseNotice, At, Working, Reading
  <2>2. /\ req'[o].pc = "fetch" /\ req'[o].id = req[o].id /\ req'[o].kind = "quarantine"
        /\ req'[o].snap = req[o].snap
        /\ req[o].snap.notice # None => req'[o].notice = req[o].snap.notice
    BY <1>4, <2>1, <1>0 DEF Hand, ChooseNotice, Advance, Request
  <2>3. Carries(req[o])'
    BY <1>1, <2>1, <2>2 DEF Carries
  <2> QED
    BY <1>1, <2>3, QuietWords
<1>5. CASE FetchForQuarantine(o)
  <2> DEFINE p == rec[req[o].id].repo
  <2>1. /\ req[o].pc = "fetch" /\ req[o].kind = "quarantine" /\ Carries(req[o])
        /\ req[o].id \in Record /\ p \in Repo /\ req[o].snap.repo = p
    BY <1>5, <1>0 DEF Hand, FetchForQuarantine, At, Working, Reading
  <2>2. CASE desc[p] = req[o].notice
    <3>1. /\ req'[o].pc = "decide" /\ req'[o].id = req[o].id /\ req'[o].kind = "quarantine"
          /\ req'[o].text = req[o].snap.original /\ req'[o].notice = req[o].notice
      <4>1. Advance(o, [req[o] EXCEPT !.pc = "decide", !.text = req[o].snap.original])
        BY <1>5, <2>1, <2>2 DEF FetchForQuarantine
      <4> QED
        BY <1>0, <2>1, <4>1 DEF Hand, Advance, Request
    <3>2. Carries(req[o])'
      BY <1>1, <2>1, <3>1 DEF Carries, Working, Reading
    <3> QED
      BY <1>1, <3>2, QuietWords
  <2>3. CASE desc[p] # req[o].notice
    <3>1. /\ req'[o].pc = "save" /\ req'[o].id = req[o].id /\ req'[o].kind = "quarantine"
          /\ req'[o].text = desc[p] /\ req'[o].notice = req[o].notice
      <4>1. Advance(o, [req[o] EXCEPT !.pc = "save", !.text = desc[p]])
        BY <1>5, <2>1, <2>3 DEF FetchForQuarantine
      <4> QED
        BY <1>0, <2>1, <4>1 DEF Hand, Advance, Request
    <3>2. Plain(p) => desc[p] \notin Notice
      <4> SUFFICES ASSUME Plain(p), desc[p] \in Notice PROVE FALSE
        OBVIOUS
      <4>1. PICK r \in Record : Covers(r, p)
        BY <2>1 DEF DescriptionInv, NoticeCanBeLifted
      <4>2. CASE Alone(p)
        <5>1. r = req[o].id
          BY <2>1, <4>1, <4>2 DEF Covers, Alone
        <5>2. rec[req[o].id].notice # None
          BY <4>1, <5>1, ReviewAssumption DEF Covers
        <5>3. req[o].notice = rec[req[o].id].notice
          BY <2>1, <5>2 DEF Carries, Working, Reading
        <5> QED
          BY <2>3, <4>1, <5>1, <5>3 DEF Covers
      <4>3. CASE OneNotice
        <5>1. req[o].notice \in Notice
          BY <2>1 DEF ReviewInv, RequestWhole, TypeOK, Request, Working, Reading
        <5> QED
          BY <2>3, <4>3, <5>1 DEF OneNotice
      <4> QED
        BY <4>2, <4>3 DEF Plain
    <3>3. Carries(req[o])'
      BY <1>1, <1>2, <2>1, <3>1, <3>2 DEF Carries, Working, Reading
    <3> QED
      BY <1>1, <3>3, QuietWords
  <2> QED
    BY <2>2, <2>3
<1>6. CASE FetchForDismiss(o)
  <2>1. req[o].pc = "open" /\ req[o].kind = "dismiss" /\ Carries(req[o])
    BY <1>6, <1>0 DEF Hand, FetchForDismiss, At, Working, Reading
  <2>2. /\ req'[o].pc = "snapshot" /\ req'[o].id = req[o].id /\ req'[o].kind = "dismiss"
        /\ req'[o].snap = req[o].snap
    BY <1>6, <2>1, <1>0 DEF Hand, FetchForDismiss, Advance, Request
  <2>3. Carries(req[o])'
    BY <1>1, <2>1, <2>2 DEF Carries
  <2> QED
    BY <1>1, <2>3, QuietWords
<1>7. CASE FetchForReopen(o)
  <2> DEFINE p == rec[req[o].id].repo
  <2>1. /\ req[o].pc = "open" /\ req[o].kind = "reopen" /\ Carries(req[o])
        /\ req[o].id \in Record /\ p \in Repo /\ req[o].snap.repo = p
    BY <1>7, <1>0 DEF Hand, FetchForReopen, At, Working, Reading
  <2>2. /\ req'[o].pc = "snapshot" /\ req'[o].id = req[o].id /\ req'[o].kind = "reopen"
        /\ req'[o].snap = req[o].snap
        /\ desc[p] = req[o].snap.notice => req'[o].text = req[o].snap.original
    BY <1>7, <2>1, <1>0 DEF Hand, FetchForReopen, Advance, Request
  <2>3. Carries(req[o])'
    BY <1>1, <2>1, <2>2 DEF Carries
  <2> QED
    BY <1>1, <2>3, QuietWords
<1>8. CASE ReadSnapshot(o)
  <2>1. req[o].pc = "snapshot" /\ Carries(req[o]) /\ req[o].kind # "quarantine"
        /\ req[o].id \in Record /\ rec[req[o].id].repo \in Repo
    BY <1>8, <1>0 DEF Hand, ReadSnapshot, Carries, Working, Reading
  <2>2. /\ req'[o].pc = "decide" /\ req'[o].id = req[o].id /\ req'[o].kind = req[o].kind
        /\ req'[o].text = req[o].text
    BY <1>8, <2>1, <1>0 DEF Hand, ReadSnapshot, Advance, Request
  <2>3. Carries(req[o])'
    BY <1>1, <1>2, <2>1, <2>2 DEF Carries
  <2> QED
    BY <1>1, <2>3, QuietWords
<1>9. CASE SelectDecision(o) \/ SelectForReopen(o)
  <2>1. /\ req[o].pc = "decide" /\ Carries(req[o])
        /\ req[o].id \in Record /\ rec[req[o].id].repo \in Repo
    BY <1>9, <1>0 DEF Hand, SelectDecision, SelectForReopen, At, Working, Reading
  <2>2. /\ req'[o].pc = "commit" /\ req'[o].id = req[o].id /\ req'[o].kind = req[o].kind
        /\ req'[o].text = req[o].text /\ req'[o].notice = req[o].notice
    <3>1. Advance(o, [req[o] EXCEPT !.pc = "commit", !.snap = NoRow,
                                    !.from = rec[req[o].id].status])
      BY <1>9 DEF SelectDecision, SelectForReopen
    <3> QED
      BY <1>0, <3>1 DEF Hand, Advance, Request
  <2>3. Carries(req[o])'
    BY <1>1, <1>2, <2>1, <2>2 DEF Carries, Working, Reading
  <2> QED
    BY <1>1, <2>3, QuietWords
<1>10. CASE SelectForClassify(o)
  <2>1. req'[o].pc = "commit" /\ req'[o].kind = "classify"
    BY <1>10, <1>0 DEF Hand, SelectForClassify, At, Advance, Request
  <2>2. Carries(req[o])'
    BY <2>1 DEF Carries
  <2> QED
    BY <1>1, <2>2, QuietWords
<1>11. CASE \/ (\E verdict \in {"spam", "ham"} : CommitClassify(o, verdict))
            \/ BeginFlag(o) \/ (\E p \in Repo : InspectRepository(o, p)) \/ Abort(o)
  <2>1. req'[o].pc \in {"idle", "inspect", "insert"}
    <3>1. CASE \E p \in Repo : InspectRepository(o, p)
      <4>1. PICK p : InspectRepository(o, p)
        BY <3>1
      <4> QED
        BY <4>1, <1>0 DEF Hand, InspectRepository, Advance, Request
    <3>2. CASE BeginFlag(o)
      BY <1>0, <3>2 DEF Hand, BeginFlag, Advance, NoRequest
    <3>3. CASE Abort(o)
      BY <1>0, <3>3 DEF Hand, Abort, Finish, Advance, NoRequest
    <3>4. CASE \E verdict \in {"spam", "ham"} : CommitClassify(o, verdict)
      BY <1>0, <3>4 DEF Hand, CommitClassify, Finish, Advance, NoRequest
    <3> QED
      BY <1>11, <3>1, <3>2, <3>3, <3>4
  <2> QED
    BY <1>1, <2>1, QuietWords DEF Working, Reading
<1> QED
  BY <1>3, <1>4, <1>5, <1>6, <1>7, <1>8, <1>9, <1>10, <1>11

\* A step that writes row r of a repository: a record that covers the notice on show
\* goes on covering it, and the words of a repository with one record stay saved.
LEMMA RowWords ==
    ASSUME DescriptionInv, Serial, NEW o \in Operator, NEW r \in Record, NEW row \in Row,
           rec \in [Record -> Row], rec' = [rec EXCEPT ![r] = row],
           rec[r].repo \in Repo, row.repo = rec[r].repo,
           UNCHANGED <<desc, standing>>,
           /\ Plain(rec[r].repo) /\ desc[rec[r].repo] \in Notice /\ Covers(r, rec[r].repo)
           => /\ row.status \in Active \cup {"dismissed"}
              /\ row.notice = rec[r].notice /\ row.original = rec[r].original,
           /\ Alone(rec[r].repo) /\ desc[rec[r].repo] # standing[rec[r].repo]
           => row.original = rec[r].original,
           req'[o].pc \in Working => Carries(req[o])'
    PROVE  DescriptionInv'
<1>1. \A x \in Operator : x = o
  BY DEF Serial
<1>2. /\ rec'[r] = row /\ \A q \in Record \ {r} : rec'[q] = rec[q]
      /\ \A q \in Record : rec'[q].repo = rec[q].repo
  OBVIOUS
<1>3. \A p \in Repo : Plain(p)' = Plain(p) /\ Alone(p)' = Alone(p)
  BY <1>2 DEF Plain, Alone, OneNotice
<1>4. ASSUME NEW p \in Repo, Plain(p)', desc'[p] \in Notice
      PROVE  \E x \in Record : Covers(x, p)'
  <2>1. PICK x \in Record : Covers(x, p)
    BY <1>3, <1>4 DEF DescriptionInv, NoticeCanBeLifted
  <2>2. CASE x = r
    <3>1. p = rec[r].repo
      BY <2>1, <2>2 DEF Covers
    <3>2. /\ row.status \in Active \cup {"dismissed"}
          /\ row.notice = rec[r].notice /\ row.original = rec[r].original
      BY <1>3, <1>4, <2>1, <2>2, <3>1
    <3> QED
      BY <1>2, <2>1, <2>2, <3>2 DEF Covers
  <2>3. CASE x # r
    BY <1>2, <2>1, <2>3 DEF Covers
  <2> QED
    BY <2>2, <2>3
<1>5. ASSUME NEW p \in Repo, Alone(p)' PROVE Kept(p)'
  <2> SUFFICES ASSUME desc[p] # standing[p]
               PROVE  /\ desc[p] \in Notice
                      /\ \E x \in Record : rec'[x].repo = p /\ rec'[x].original = standing[p]
    BY DEF Kept
  <2>1. Alone(p) /\ Kept(p)
    BY <1>3, <1>5 DEF DescriptionInv, NoticeCanBeLifted, DescriptionKept
  <2>2. PICK x \in Record : rec[x].repo = p /\ rec[x].original = standing[p]
    BY <2>1 DEF Kept
  <2>3. rec'[x].original = rec[x].original
    BY <1>2, <2>1, <2>2
  <2> QED
    BY <1>2, <2>1, <2>2, <2>3 DEF Kept
<1> QED
  BY <1>1, <1>4, <1>5 DEF DescriptionInv, NoticeCanBeLifted, DescriptionKept

\* A step that writes the description of repository p.
LEMMA ShownWords ==
    ASSUME DescriptionInv, NEW p \in Repo, NEW text, NEW words,
           desc \in [Repo -> Description], standing \in [Repo -> Description],
           desc' = [desc EXCEPT ![p] = text], standing' = [standing EXCEPT ![p] = words],
           rec' = rec, words \notin Notice,
           Plain(p) /\ text \in Notice => \E r \in Record : Covers(r, p)',
           Alone(p) => Kept(p)',
           \A o \in Operator : req'[o].pc \in Working => Carries(req[o])'
    PROVE  DescriptionInv'
<1>1. /\ desc'[p] = text /\ standing'[p] = words
      /\ \A q \in Repo \ {p} : desc'[q] = desc[q] /\ standing'[q] = standing[q]
  OBVIOUS
<1>2. \A q \in Repo : Plain(q)' = Plain(q) /\ Alone(q)' = Alone(q)
  BY DEF Plain, Alone, OneNotice
<1>3. ASSUME NEW q \in Repo \ {p}
      PROVE  Kept(q)' = Kept(q) /\ \A r \in Record : Covers(r, q)' = Covers(r, q)
  BY <1>1, <1>3 DEF Kept, Covers
<1>4. ASSUME NEW q \in Repo, Plain(q)', desc'[q] \in Notice
      PROVE  \E r \in Record : Covers(r, q)'
  BY <1>1, <1>2, <1>3, <1>4 DEF DescriptionInv, NoticeCanBeLifted
<1>5. ASSUME NEW q \in Repo, Alone(q)' PROVE Kept(q)'
  BY <1>2, <1>3, <1>5 DEF DescriptionInv, NoticeCanBeLifted, DescriptionKept
<1>6. \A q \in Repo : standing'[q] \notin Notice
  BY <1>1 DEF DescriptionInv, NoticeCanBeLifted
<1> QED
  BY <1>4, <1>5, <1>6 DEF DescriptionInv, NoticeCanBeLifted, DescriptionKept

\* A step that opens record r for repository p.
LEMMA OpenedWords ==
    ASSUME ReviewInv, DescriptionInv, NEW r \in Record, NEW row \in Row, NEW p \in Repo,
           rec[r].status = "absent", row.repo = p,
           rec' = [rec EXCEPT ![r] = row], UNCHANGED <<desc, standing>>,
           \A o \in Operator : req'[o].pc \in Working => req'[o] = req[o]
    PROVE  DescriptionInv'
<1>1. /\ rec \in [Record -> Row] /\ rec[r].repo = None
      /\ \A o \in Operator : RequestWhole(req[o])
  BY DEF ReviewInv, TypeOK, RowsWhole
<1>2. rec'[r] = row /\ \A q \in Record \ {r} : rec'[q] = rec[q]
  BY <1>1
<1>3. ASSUME NEW q \in Repo
      PROVE  (Plain(q)' => Plain(q)) /\ (Alone(q)' => Alone(q))
  <2>1. None # q
    BY ReviewAssumption
  <2>2. ASSUME NEW x \in Record, rec[x].repo = q PROVE rec'[x].repo = q
    BY <1>1, <1>2, <2>1, <2>2
  <2>3. Alone(q)' => Alone(q)
    BY <2>2 DEF Alone
  <2> QED
    BY <2>3 DEF Plain, OneNotice
<1>4. ASSUME NEW q \in Repo, Plain(q)', desc'[q] \in Notice
      PROVE  \E x \in Record : Covers(x, q)'
  <2>1. PICK x \in Record : Covers(x, q)
    BY <1>3, <1>4 DEF DescriptionInv, NoticeCanBeLifted
  <2>2. x # r
    BY <2>1 DEF Covers, Active
  <2> QED
    BY <1>2, <2>1, <2>2 DEF Covers
<1>5. ASSUME NEW q \in Repo, Alone(q)' PROVE Kept(q)'
  <2> SUFFICES ASSUME desc[q] # standing[q]
               PROVE  /\ desc[q] \in Notice
                      /\ \E x \in Record : rec'[x].repo = q /\ rec'[x].original = standing[q]
    BY DEF Kept
  <2>1. Kept(q)
    BY <1>3, <1>5 DEF DescriptionInv, NoticeCanBeLifted, DescriptionKept
  <2>2. PICK x \in Record : rec[x].repo = q /\ rec[x].original = standing[q]
    BY <2>1 DEF Kept
  <2>3. x # r
    BY <1>1, <2>2, ReviewAssumption
  <2> QED
    BY <1>2, <2>1, <2>2, <2>3 DEF Kept
<1>6. ASSUME NEW o \in Operator, req'[o].pc \in Working PROVE Carries(req[o])'
  <2>1. req'[o] = req[o] /\ Carries(req[o])
    BY <1>6 DEF DescriptionInv, NoticeCanBeLifted
  <2>2. req[o].id \in Record /\ rec[req[o].id].status # "absent"
    BY <1>1, <1>6, <2>1 DEF RequestWhole
  <2>3. rec'[req[o].id] = rec[req[o].id] /\ rec[req[o].id].repo \in Repo
    BY <1>2, <2>2 DEF ReviewInv, RowsWhole
  <2>4. Plain(rec[req[o].id].repo)' => Plain(rec[req[o].id].repo)
    BY <1>3, <2>1, <2>3
  <2>5. req'[o].pc = req[o].pc /\ req'[o].id = req[o].id /\ rec'[req'[o].id] = rec[req[o].id]
    BY <2>1, <2>3
  <2> QED
    BY <2>1, <2>3, <2>4, <2>5 DEF Carries
<1> QED
  BY <1>4, <1>5, <1>6 DEF DescriptionInv, NoticeCanBeLifted, DescriptionKept

\* update_quarantine_fields saves what it read, which is no notice where the records
\* are plain.
LEMMA SavingWords ==
    ASSUME ReviewInv, StatusHeld, DescriptionInv, Serial, NEW o \in Operator, SaveOriginal(o)
    PROVE  DescriptionInv'
<1> DEFINE r == req[o].id
           p == rec[r].repo
           row == [rec[r] EXCEPT !.original = req[o].text, !.notice = req[o].notice]
<1>0. Hand(o)
  BY InHand
<1>1. /\ req[o].pc = "save" /\ req[o].kind = "quarantine" /\ Carries(req[o])
      /\ r \in Record /\ rec[r] \in Row /\ p \in Repo
  BY <1>0 DEF Hand, SaveOriginal, At, Working, Reading
<1>2. row \in Row /\ row.repo = p /\ row.original = req[o].text /\ row.notice = req[o].notice
  BY <1>0, <1>1 DEF Hand, Row, Request
<1>3. rec \in [Record -> Row] /\ rec' = [rec EXCEPT ![r] = row]
  BY <1>0 DEF Hand, SaveOriginal
<1>4. /\ req'[o].pc = "cas" /\ req'[o].id = r /\ req'[o].kind = "quarantine"
      /\ req'[o].text = req[o].text /\ req'[o].notice = req[o].notice
  BY <1>0, <1>1 DEF Hand, SaveOriginal, Advance, Request
<1>5. UNCHANGED <<desc, standing>>
  BY DEF SaveOriginal
<1>6. Plain(p) => req[o].text \notin Notice /\ desc[p] \notin Notice
  BY <1>1 DEF Carries
<1>7. rec'[r] = row
  BY <1>1, <1>3
<1>8. \A q \in Repo : Plain(q)' = Plain(q)
  <2>1. \A x \in Record : rec'[x].repo = rec[x].repo
    BY <1>1, <1>2, <1>3
  <2> QED
    BY <2>1 DEF Plain, Alone, OneNotice
<1>9. Carries(req[o])'
  BY <1>1, <1>2, <1>4, <1>5, <1>6, <1>7, <1>8 DEF Carries
<1>10. Alone(p) /\ desc[p] # standing[p] => desc[p] \in Notice /\ Plain(p)
  BY <1>1 DEF DescriptionInv, NoticeCanBeLifted, DescriptionKept, Kept, Plain
<1> HIDE DEF row
<1> QED
  BY <1>1, <1>2, <1>3, <1>5, <1>6, <1>9, <1>10, RowWords

\* What a decision leaves of the row it closes or opens again.
LEMMA DecidingWords ==
    ASSUME ReviewInv, StatusHeld, DescriptionInv, Serial, NEW o \in Operator,
           CommitQuarantine(o) \/ CommitTerminal(o) \/ CommitReopen(o)
    PROVE  DescriptionInv'
<1> DEFINE r == req[o].id
           p == rec[r].repo
<1>0. Hand(o)
  BY InHand
<1>1. /\ req[o].pc = "commit" /\ Carries(req[o])
      /\ r \in Record /\ rec[r] \in Row /\ p \in Repo /\ rec \in [Record -> Row]
  BY <1>0 DEF Hand, CommitQuarantine, CommitTerminal, CommitReopen, At, Working, Reading
<1>2. UNCHANGED <<desc, standing>>
  BY DEF CommitQuarantine, CommitTerminal, CommitReopen
<1>3. req'[o].pc \notin Working
  BY <1>0 DEF Hand, CommitQuarantine, CommitTerminal, CommitReopen, Finish, Advance,
              NoRequest, Working, Reading
<1>4. desc[p] \in Notice => desc[p] # None
  BY ReviewAssumption
<1>5. CASE CommitQuarantine(o)
  <2> DEFINE row == [rec[r] EXCEPT !.status = "quarantined", !.original = req[o].text,
                                   !.notice = req[o].notice]
  <2>1. /\ row \in Row /\ row.repo = p /\ row.status = "quarantined"
        /\ row.original = req[o].text /\ row.notice = req[o].notice
    BY <1>0, <1>1 DEF Hand, Row, Request, Status, Active
  <2>2. rec' = [rec EXCEPT ![r] = row]
    BY <1>5 DEF CommitQuarantine, Write
  <2>3. /\ req[o].text = rec[r].original
        /\ rec[r].notice # None => req[o].notice = rec[r].notice
    BY <1>1, <1>5 DEF CommitQuarantine, At, Carries, Working, Reading
  <2>4. Covers(r, p) /\ desc[p] \in Notice => rec[r].notice # None
    BY <1>4 DEF Covers
  <2> HIDE DEF row
  <2> QED
    BY <1>1, <1>2, <1>3, <2>1, <2>2, <2>3, <2>4, RowWords DEF Active
<1>6. CASE CommitTerminal(o)
  <2> DEFINE row == [rec[r] EXCEPT !.status = Outcome[req[o].kind],
                                   !.terminalBy = req[o].artifact,
                                   !.terminalText = req[o].shown]
  <2>1. req[o].kind \in {"restore", "redact", "dismiss"}
    BY <1>6 DEF CommitTerminal, At
  <2>2. Outcome[req[o].kind] \in Status
    BY <2>1 DEF Outcome, Status, Terminal
  <2>3. /\ row \in Row /\ row.repo = p /\ row.status = Outcome[req[o].kind]
        /\ row.original = rec[r].original /\ row.notice = rec[r].notice
    BY <1>0, <1>1, <2>2 DEF Hand, Row, Request
  <2>4. rec' = [rec EXCEPT ![r] = row]
    BY <1>6 DEF CommitTerminal, Write
  <2>5. Plain(p) /\ desc[p] \in Notice /\ Covers(r, p) => row.status = "dismissed"
    <3>1. CASE req[o].kind = "dismiss"
      BY <2>3, <3>1 DEF Outcome
    <3>2. CASE req[o].kind \in {"restore", "redact"}
      BY <1>1, <3>2 DEF Carries, Covers
    <3> QED
      BY <2>1, <3>1, <3>2
  <2> HIDE DEF row
  <2> QED
    BY <1>1, <1>2, <1>3, <2>3, <2>4, <2>5, RowWords
<1>7. CASE CommitReopen(o)
  <2> DEFINE row == [rec[r] EXCEPT !.status = "flagged", !.original = req[o].text,
                                   !.classifier = req[o].artifact,
                                   !.terminalBy = None, !.terminalText = None]
  <2>1. /\ row \in Row /\ row.repo = p /\ row.status = "flagged"
        /\ row.original = req[o].text /\ row.notice = rec[r].notice
    BY <1>0, <1>1 DEF Hand, Row, Request, Status, Active, Description
  <2>2. rec' = [rec EXCEPT ![r] = row]
    BY <1>7 DEF CommitReopen, Write
  <2>3. desc[p] \in Notice /\ desc[p] = rec[r].notice => req[o].text = rec[r].original
    BY <1>1, <1>7 DEF CommitReopen, At, Carries
  <2>4. Alone(p) /\ desc[p] # standing[p] => desc[p] \in Notice /\ Covers(r, p)
    <3> SUFFICES ASSUME Alone(p), desc[p] # standing[p]
                 PROVE  desc[p] \in Notice /\ Covers(r, p)
      OBVIOUS
    <3>1. desc[p] \in Notice
      BY <1>1 DEF DescriptionInv, NoticeCanBeLifted, DescriptionKept, Kept
    <3>2. PICK x \in Record : Covers(x, p)
      BY <1>1, <3>1 DEF DescriptionInv, NoticeCanBeLifted, Plain
    <3>3. x = r
      BY <1>1, <3>2 DEF Covers, Alone
    <3> QED
      BY <3>1, <3>2, <3>3
  <2>5. Covers(r, p) => rec[r].notice = desc[p]
    BY DEF Covers
  <2> HIDE DEF row
  <2> QED
    BY <1>1, <1>2, <1>3, <2>1, <2>2, <2>3, <2>4, <2>5, RowWords DEF Active
<1> QED
  BY <1>5, <1>6, <1>7

\* The write of a notice to Quay: the record that put it up has the text it covers.
LEMMA PuttingWords ==
    ASSUME ReviewInv, StatusHeld, DescriptionInv, Serial, NEW o \in Operator, PutNotice(o)
    PROVE  DescriptionInv'
<1>0. Hand(o)
  BY InHand
<1>a. PICK r, p, notice : /\ r \in Record /\ p \in Repo
                           /\ r = req[o].id /\ p = rec[r].repo /\ notice = req[o].notice
  BY <1>0 DEF Hand, PutNotice, At, Working, Reading
<1>1. /\ req[o].pc = "cas" /\ req[o].kind = "quarantine" /\ Carries(req[o])
      /\ rec[r] \in Row /\ req[o].snap.repo = p /\ rec[r].status = "flagged"
  BY <1>0, <1>a DEF Hand, PutNotice, At, Working, Reading, Opens
<1>2. /\ desc[p] = req[o].text /\ desc' = [desc EXCEPT ![p] = notice]
      /\ rec' = rec /\ standing' = [standing EXCEPT ![p] = standing[p]]
  BY <1>0, <1>a, <1>1 DEF Hand, PutNotice
<1>3. /\ req'[o].pc = "decide" /\ req'[o].id = r /\ req'[o].kind = "quarantine"
      /\ req'[o].text = req[o].text /\ req'[o].notice = notice
  BY <1>0, <1>a, <1>1 DEF Hand, PutNotice, Advance, Request
<1>4. desc'[p] = notice /\ standing'[p] = standing[p]
  BY <1>0, <1>a, <1>1, <1>2 DEF Hand
<1>5. /\ rec[r].notice = notice /\ rec[r].original = req[o].text
      /\ Plain(p) => req[o].text \notin Notice
  BY <1>a, <1>1 DEF Carries
<1>6. notice \in Notice
  BY <1>a, <1>1 DEF ReviewInv, RequestWhole, TypeOK, Request, Working, Reading
<1>7. Plain(p) => Covers(r, p)'
  BY <1>a, <1>1, <1>2, <1>4, <1>5 DEF Covers, Active
<1>8. Alone(p) => Kept(p)'
  <2>1. Alone(p) => desc[p] = standing[p]
    BY <1>a, <1>1, <1>2, <1>5 DEF DescriptionInv, NoticeCanBeLifted, DescriptionKept, Kept, Plain
  <2> QED
    BY <1>a, <1>1, <1>2, <1>4, <1>5, <1>6, <2>1 DEF Kept
<1>9. Carries(req[o])'
  BY <1>a, <1>1, <1>2, <1>3, <1>5 DEF Carries, Working, Reading
<1>10. \A x \in Operator : x = o
  BY DEF Serial
<1>11. standing[p] \notin Notice /\ desc \in [Repo -> Description]
       /\ standing \in [Repo -> Description]
  BY <1>0, <1>a, <1>1 DEF DescriptionInv, NoticeCanBeLifted, Hand
<1> QED
  BY <1>a, <1>1, <1>2, <1>7, <1>8, <1>9, <1>10, <1>11, ShownWords

\* The write of the original to Quay, over itself or over the record's notice.
LEMMA PuttingBackWords ==
    ASSUME ReviewInv, StatusHeld, DescriptionInv, Serial, NEW o \in Operator, PutBack(o)
    PROVE  DescriptionInv'
<1>0. Hand(o)
  BY InHand
<1>a. PICK r, p, original :
           /\ r \in Record /\ p \in Repo
           /\ r = req[o].id /\ p = rec[r].repo /\ original = rec[r].original
  BY <1>0 DEF Hand, PutBack, At, Working, Reading
<1>1. /\ req[o].pc = "open" /\ req[o].kind = "restore" /\ Carries(req[o])
      /\ rec[r] \in Row /\ req[o].snap.repo = p
      /\ req[o].snap.original = original /\ req[o].snap.notice = rec[r].notice
  BY <1>0, <1>a DEF Hand, PutBack, At, Working, Reading, Carries
<1>2. /\ desc[p] \in {original, rec[r].notice} /\ desc' = [desc EXCEPT ![p] = original]
      /\ rec' = rec /\ standing' = [standing EXCEPT ![p] = standing[p]]
  BY <1>0, <1>a, <1>1 DEF Hand, PutBack
<1>3. /\ req'[o].pc = "snapshot" /\ req'[o].id = r /\ req'[o].kind = "restore"
      /\ req'[o].snap = req[o].snap
  BY <1>0, <1>a, <1>1 DEF Hand, PutBack, Advance, Request
<1>4. desc'[p] = original /\ standing'[p] = standing[p]
  BY <1>0, <1>a, <1>1, <1>2 DEF Hand
<1>5. rec[r].notice \in Notice
  BY <1>0, <1>a, <1>1 DEF ReviewInv, RequestWhole, Row
<1>6. Plain(p) /\ desc[p] \in Notice => \E x \in Record : Covers(x, p)
  BY <1>a, <1>1 DEF DescriptionInv, NoticeCanBeLifted
<1>7. Alone(p) /\ desc[p] \in Notice => Covers(r, p)
  BY <1>a, <1>1, <1>6 DEF Covers, Alone, Plain
<1>8. Plain(p) /\ original \in Notice => \E x \in Record : Covers(x, p)'
  <2> SUFFICES ASSUME Plain(p), original \in Notice PROVE \E x \in Record : Covers(x, p)'
    OBVIOUS
  <2>1. desc[p] \in Notice
    BY <1>a, <1>2, <1>5
  <2>2. PICK x \in Record : Covers(x, p)
    BY <1>6, <2>1
  <2>3. OneNotice
    BY <1>a, <1>7, <2>1 DEF Plain, Covers
  <2>4. desc'[p] = desc[p]
    BY <1>4, <2>1, <2>3 DEF OneNotice
  <2> QED
    BY <1>2, <2>2, <2>4 DEF Covers
<1>9. Alone(p) => Kept(p)'
  <2> SUFFICES ASSUME Alone(p) PROVE original = standing[p]
    BY <1>4 DEF Kept
  <2>1. Kept(p)
    BY <1>a, <1>1 DEF DescriptionInv, NoticeCanBeLifted, DescriptionKept
  <2>2. CASE desc[p] = standing[p]
    <3>1. standing[p] \notin Notice
      BY <1>a, <1>1 DEF DescriptionInv, NoticeCanBeLifted
    <3> QED
      BY <1>2, <1>5, <2>2, <3>1
  <2>3. CASE desc[p] # standing[p]
    <3>1. PICK x \in Record : rec[x].repo = p /\ rec[x].original = standing[p]
      BY <2>1, <2>3 DEF Kept
    <3> QED
      BY <1>a, <1>1, <3>1 DEF Alone
  <2> QED
    BY <2>2, <2>3
<1>10. Carries(req[o])'
  <2>1. desc'[p] \in Notice => original \in Notice
    BY <1>4
  <2> QED
    BY <1>0, <1>a, <1>1, <1>2, <1>3, <2>1 DEF Carries, Working, Reading
<1>11. \A x \in Operator : x = o
  BY DEF Serial
<1>12. standing[p] \notin Notice /\ desc \in [Repo -> Description]
       /\ standing \in [Repo -> Description]
  BY <1>0, <1>a, <1>1 DEF DescriptionInv, NoticeCanBeLifted, Hand
<1> QED
  BY <1>a, <1>1, <1>2, <1>8, <1>9, <1>10, <1>11, <1>12, ShownWords

\* The write of a redaction to Quay: what is shown is no notice any more.
LEMMA RedactingWords ==
    ASSUME ReviewInv, StatusHeld, DescriptionInv, Serial, NEW o \in Operator,
           NEW redaction \in OwnerText \ {None}, PutRedaction(o, redaction)
    PROVE  DescriptionInv'
<1>0. Hand(o)
  BY InHand
<1>a. PICK r \in Record, p \in Repo : r = req[o].id /\ p = rec[r].repo
  BY <1>0 DEF Hand, PutRedaction, At, Working, Reading
<1>1. /\ req[o].pc = "open" /\ req[o].kind = "redact" /\ Carries(req[o])
      /\ req[o].snap.repo = p
      /\ req[o].snap.original = rec[r].original /\ req[o].snap.notice = rec[r].notice
  BY <1>0, <1>a DEF Hand, PutRedaction, At, Working, Reading, Carries
<1>2. /\ desc' = [desc EXCEPT ![p] = redaction] /\ rec' = rec
      /\ standing' = [standing EXCEPT ![p] = redaction]
  BY <1>1 DEF PutRedaction
<1>3. /\ req'[o].pc = "snapshot" /\ req'[o].id = r /\ req'[o].kind = "redact"
      /\ req'[o].snap = req[o].snap
  BY <1>0, <1>a, <1>1 DEF Hand, PutRedaction, Advance, Request
<1>4. /\ desc \in [Repo -> Description] /\ standing \in [Repo -> Description]
      /\ desc'[p] = redaction /\ standing'[p] = redaction /\ redaction \notin Notice
  BY <1>0, <1>2 DEF Hand, OwnerText
<1>5. Kept(p)'
  BY <1>4 DEF Kept
<1>6. Carries(req[o])'
  BY <1>a, <1>1, <1>2, <1>3, <1>4 DEF Carries
<1>7. \A x \in Operator : x = o
  BY DEF Serial
<1> QED
  BY <1>2, <1>4, <1>5, <1>6, <1>7, ShownWords

\* The owner rewrites the description in the Quay console, at any time.
LEMMA OwningWords ==
    ASSUME ReviewInv, StatusHeld, DescriptionInv,
           NEW p \in Repo, NEW text \in OwnerText, OwnerWrites(p, text)
    PROVE  DescriptionInv'
<1>1. /\ desc \in [Repo -> Description] /\ standing \in [Repo -> Description]
      /\ text \notin Notice
  BY DEF ReviewInv, TypeOK, OwnerText
<1>2. /\ desc' = [desc EXCEPT ![p] = text] /\ standing' = [standing EXCEPT ![p] = text]
      /\ UNCHANGED <<rec, req>>
  BY DEF OwnerWrites
<1>3. desc'[p] = text /\ standing'[p] = text /\ \A q \in Repo \ {p} : desc'[q] = desc[q]
  BY <1>1, <1>2
<1>4. Kept(p)'
  BY <1>3 DEF Kept
<1>5. ASSUME NEW o \in Operator, req'[o].pc \in Working PROVE Carries(req[o])'
  <2>0. Hand(o) /\ Carries(req[o])
    BY <1>2, <1>5, InHand DEF DescriptionInv, NoticeCanBeLifted
  <2>1. PICK q \in Repo : q = rec[req[o].id].repo
    BY <1>2, <1>5, <2>0 DEF Hand
  <2>2. desc'[q] \in Notice => desc[q] \in Notice /\ desc'[q] = desc[q]
    BY <1>1, <1>3
  <2>3. Plain(q)' = Plain(q)
    BY <1>2 DEF Plain, Alone, OneNotice
  <2> QED
    BY <1>2, <2>0, <2>1, <2>2, <2>3 DEF Carries
<1> QED
  BY <1>1, <1>2, <1>4, <1>5, ShownWords

\* A step of somebody else: a scan, a change of policy, tags and state of a repository.
LEMMA SameWords ==
    ASSUME ReviewInv, StatusHeld, DescriptionInv, UNCHANGED <<rec, desc, standing, req>>
    PROVE  DescriptionInv'
<1>1. \A p \in Repo : Plain(p)' = Plain(p) /\ Kept(p)' = Kept(p) /\ Alone(p)' = Alone(p)
  BY DEF Plain, Kept, Alone, OneNotice
<1>2. \A p \in Repo, q \in Record : Covers(q, p)' = Covers(q, p)
  BY DEF Covers
<1>3. ASSUME NEW o \in Operator, req'[o].pc \in Working PROVE Carries(req[o])'
  <2>1. Hand(o) /\ Carries(req[o])
    BY <1>3, InHand DEF DescriptionInv, NoticeCanBeLifted
  <2>2. PICK p \in Repo : p = rec[req[o].id].repo
    BY <1>3, <2>1 DEF Hand
  <2> QED
    BY <1>1, <2>1, <2>2 DEF Carries
<1> QED
  BY <1>1, <1>2, <1>3 DEF DescriptionInv, NoticeCanBeLifted, DescriptionKept

\* The steps that open a record.
LEMMA OpeningWords ==
    ASSUME ReviewInv, StatusHeld, DescriptionInv, NEW r \in Record,
           \/ \E o \in Operator : CreateManualFlaggedRecord(o, r)
           \/ \E s \in Scanner : CreateFlaggedRecord(s, r)
    PROVE  DescriptionInv'
<1>1. CASE \E o \in Operator : CreateManualFlaggedRecord(o, r)
  <2>1. PICK o \in Operator : CreateManualFlaggedRecord(o, r)
    BY <1>1
  <2>2. req[o].snap \in Row /\ req[o].snap.repo \in Repo /\ req \in [Operator -> Request]
    BY <2>1 DEF ReviewInv, TypeOK, RequestWhole, Request, CreateManualFlaggedRecord, At
  <2>3. /\ rec[r].status = "absent" /\ rec' = [rec EXCEPT ![r] = req[o].snap]
        /\ UNCHANGED <<desc, standing>> /\ req' = [req EXCEPT ![o] = NoRequest]
    BY <2>1 DEF CreateManualFlaggedRecord, NextId, Write, Finish, Advance
  <2>4. \A x \in Operator : req'[x].pc \in Working => req'[x] = req[x]
    BY <2>2, <2>3 DEF NoRequest, Working, Reading
  <2> QED
    BY <2>2, <2>3, <2>4, OpenedWords
<1>2. CASE \E s \in Scanner : CreateFlaggedRecord(s, r)
  <2>1. PICK s \in Scanner : CreateFlaggedRecord(s, r)
    BY <1>2
  <2>2. CASE UNCHANGED rec
    BY <2>1, <2>2, SameWords DEF CreateFlaggedRecord
  <2>3. CASE /\ NextId(r)
             /\ Write(r, FlaggedRow(scan[s].repo, scan[s].text, scan[s].artifact),
                      NoExample, "absent")
    <3> DEFINE row == FlaggedRow(scan[s].repo, scan[s].text, scan[s].artifact)
    <3>1. scan[s] \in Scan /\ scan[s].repo \in Repo
      BY <2>1 DEF ReviewInv, TypeOK, ScanWhole, CreateFlaggedRecord
    <3>2. row \in Row /\ row.repo = scan[s].repo
      BY <3>1 DEF FlaggedRow, NoRow, Row, Scan, Status, Active, Description
    <3>3. /\ rec[r].status = "absent" /\ rec' = [rec EXCEPT ![r] = row]
          /\ UNCHANGED <<desc, standing, req>>
      BY <2>1, <2>3 DEF CreateFlaggedRecord, NextId, Write
    <3> HIDE DEF row
    <3> QED
      BY <3>1, <3>2, <3>3, OpenedWords
  <2> QED
    BY <2>1, <2>2, <2>3 DEF CreateFlaggedRecord
<1> QED
  BY <1>1, <1>2

LEMMA WordsInit ==
    ASSUME Init
    PROVE  DescriptionInv
<1>1. \A r \in Record : rec[r].repo = None /\ None \notin Repo
  BY ReviewAssumption DEF Init, NoRow
<1>2. \A p \in Repo : standing[p] = desc[p] /\ desc[p] \notin Notice
  BY DEF Init, OwnerText
<1>3. \A o \in Operator : req[o].pc \notin Working
  BY DEF Init, NoRequest, Working, Reading
<1> QED
  BY <1>2, <1>3 DEF DescriptionInv, NoticeCanBeLifted, DescriptionKept, Kept

LEMMA WordsStep ==
    ASSUME ReviewInv, StatusHeld, DescriptionInv, Serial, [Next]_vars
    PROVE  DescriptionInv'
<1>1. ASSUME NEW o \in Operator, Console(o) PROVE DescriptionInv'
  <2>1. CASE SaveOriginal(o) \/ CommitQuarantine(o) \/ CommitTerminal(o) \/ CommitReopen(o)
    BY <2>1, SavingWords, DecidingWords
  <2>2. CASE \/ PutNotice(o) \/ PutBack(o)
             \/ \E text \in OwnerText \ {None} : PutRedaction(o, text)
    BY <2>2, PuttingWords, PuttingBackWords, RedactingWords
  <2>3. CASE \E r \in Record : CreateManualFlaggedRecord(o, r)
    BY <2>3, OpeningWords
  <2>4. CASE \/ \E kind \in Kinds, r \in Record : Begin(o, kind, r)
             \/ ChooseNotice(o) \/ FetchForQuarantine(o)
             \/ FetchForDismiss(o) \/ FetchForReopen(o) \/ ReadSnapshot(o)
             \/ SelectDecision(o) \/ SelectForReopen(o) \/ SelectForClassify(o)
             \/ (\E verdict \in {"spam", "ham"} : CommitClassify(o, verdict))
             \/ BeginFlag(o) \/ (\E p \in Repo : InspectRepository(o, p)) \/ Abort(o)
    BY <2>4, ReadingWords
  <2> QED
    BY <1>1, <2>1, <2>2, <2>3, <2>4 DEF Console
<1>2. ASSUME NEW s \in Scanner, Scanning(s) PROVE DescriptionInv'
  <2>1. CASE \E r \in Record : CreateFlaggedRecord(s, r)
    BY <2>1, OpeningWords
  <2>2. CASE \/ LoadActive(s) \/ (\E p \in Repo : MatchRepository(s, p))
             \/ CheckActive(s) \/ CheckTerminal(s) \/ EndScan(s)
    BY <2>2, SameWords DEF LoadActive, MatchRepository, CheckActive, CheckTerminal, EndScan
  <2> QED
    BY <1>2, <2>1, <2>2 DEF Scanning
<1>3. CASE Outside
  <2>1. CASE \E p \in Repo, text \in OwnerText : OwnerWrites(p, text)
    BY <2>1, OwningWords
  <2>2. CASE \/ \E p \in Repo, m \in Mode : RepositoryBecomes(p, m)
             \/ \E notice \in Notice : SetNotice(notice)
             \/ \E artifact \in Artifact : Activate(artifact)
    BY <2>2, SameWords DEF RepositoryBecomes, SetNotice, Activate
  <2> QED
    BY <1>3, <2>1, <2>2 DEF Outside
<1>4. CASE UNCHANGED vars
  BY <1>4, SameWords DEF vars
<1> QED
  BY <1>1, <1>2, <1>3, <1>4 DEF Next

\* With one operator at a time, what a request carries between the two databases
\* agrees with the row it saved the original in and with the repository it is about to
\* write (quarantine, restore and reopen of remediation.py).
THEOREM WordsInductive ==
    ASSUME Serial
    PROVE  Spec => []DescriptionInv
<1>1. Init => StatusHeld /\ DescriptionInv
  BY SerialInit, WordsInit
<1>2. ReviewInv /\ StatusHeld /\ DescriptionInv /\ [Next]_vars
      => StatusHeld' /\ DescriptionInv'
  BY SerialStep, WordsStep
<1> QED
  BY <1>1, <1>2, Inductive, PTL DEF Spec

\* With one operator at a time, the text a repository with one record had before the
\* notice is shown or saved at every point, wherever quarantine, restore, reopen and
\* the owner's edits are interrupted (remediation.py's write order).
THEOREM WordsAreKept ==
    ASSUME Serial
    PROVE  Spec => []DescriptionKept
<1>1. DescriptionInv => DescriptionKept
  BY DEF DescriptionInv, NoticeCanBeLifted
<1> QED
  BY <1>1, WordsInductive, PTL

\* With one operator at a time, a repository that shows a notice has a record under
\* review or dismissed, which put that notice up and holds the text it replaced; once
\* every record was restored or redacted no notice is left (restore and reopen of
\* remediation.py, retried or interrupted).
THEOREM NoticesCanBeLifted ==
    ASSUME Serial
    PROVE  Spec => []NoticeCanBeLifted
<1>1. DescriptionInv => NoticeCanBeLifted
  BY DEF DescriptionInv
<1> QED
  BY <1>1, WordsInductive, PTL
=============================================================================
