------------------------ MODULE QuarantineReviewProps ------------------------
(***************************************************************************)
(* What is claimed of QuarantineReview: the abstract lifecycle it           *)
(* implements when one operator works at a time, what survives any number   *)
(* of operators, and what an interrupted request may leave behind.          *)
(***************************************************************************)
EXTENDS QuarantineReview

Lifecycle == INSTANCE ReviewLifecycle WITH
                 status <- [r \in Record |-> rec[r].status],
                 verdict <- [r \in Record |-> label[r].label]

\* With one operator at a time, whatever scans, owners, policy changes and
\* crashes do in between, every record walks the lifecycle of ReviewLifecycle
\* and each decision is committed together with the label it teaches.
LifecycleHolds == Lifecycle!Spec

\* A repository has at most one flagged or quarantined record: the races of
\* scan against scan, scan against false-negative report, and reopen against
\* either all end with one of them refused.
OneActivePerRepository ==
    \A r, q \in Record :
        /\ rec[r].status \in Active /\ rec[q].status \in Active
        /\ rec[r].repo = rec[q].repo
        => r = q

\* However decisions on one record race, a record that carries a decision has
\* its label in the training corpus, and a closed one has the artifact by which
\* later scans recognise it: no interleaving leaves half of a decision.
DecisionsRecorded ==
    \A r \in Record :
        /\ rec[r].status \in Terminal \cup {"quarantined"} => label[r].label # "none"
        /\ rec[r].status \in Terminal => rec[r].terminalBy # None

\* A repository shows a quarantine notice only if a notice was committed for
\* some record of it before: wherever a crash falls and whoever else is at work,
\* the write to Quay never runs ahead of update_quarantine_fields.  (What that
\* record has to hold for the notice to come down again is NoticeCanBeLifted.)
NoticeTracked ==
    \A p \in Repo : desc[p] \in Notice =>
        \E r \in Record : rec[r].repo = p /\ rec[r].notice # None

\* Repository p has at most one record.
Alone(p) == \A r, q \in Record : rec[r].repo = p /\ rec[q].repo = p => r = q

\* The notice of the policy was never changed.
OneNotice == \A m, n \in Notice : m = n

\* What p shows is what its owner (or a redaction) last wrote, or else a notice, with
\* that very text saved as the original of a record.
Kept(p) ==
    desc[p] # standing[p] =>
        /\ desc[p] \in Notice
        /\ \E r \in Record : rec[r].repo = p /\ rec[r].original = standing[p]

\* No crash between the two databases, no owner edit during a quarantine and no
\* change of the notice loses the words of an owner whose repository has one
\* record.  (With a second record, an older one may bring its own back.)
DescriptionKept == \A p \in Repo : Alone(p) => Kept(p)

\* The same once no request is in flight, with several operators and records.
DescriptionKeptAtRest ==
    (\A o \in Operator : req[o].pc = "idle") => \A p \in Repo : Kept(p)

\* The cases in which no record can save the notice of another one.
Plain(p) == Alone(p) \/ OneNotice

\* Record r put up the notice that p shows and can take it down: it is under
\* review or can be reopened, and its original is a text the notice replaced.
Covers(r, p) ==
    /\ rec[r].repo = p /\ rec[r].status \in Active \cup {"dismissed"}
    /\ rec[r].notice = desc[p] /\ rec[r].original \notin Notice

\* Whatever crashed or was reopened in between, a repository that shows a notice
\* has a record that can lift it; one whose every record was restored or redacted
\* shows none.  (With two records and two notices, one record may save the other's
\* notice as the original and put it back.)
NoticeCanBeLifted ==
    \A p \in Repo : Plain(p) /\ desc[p] \in Notice => \E r \in Record : Covers(r, p)

\* The newest history row of a record ends in the status the record has, and
\* starts in the status it had: the history is a path through the lifecycle.
HistoryIsAPath ==
    [][\A r \in Record : audit'[r] # audit[r] =>
           audit'[r] = [from |-> rec[r].status, to |-> rec'[r].status]]_vars

\* With one operator at a time a label never contradicts the decision taken: a
\* quarantined or redacted record teaches spam, a restored or dismissed one ham, and
\* explicit labels, which are for flagged records only, change that in neither.
LabelFollowsDecision ==
    \A r \in Record :
        /\ rec[r].status \in {"quarantined", "redacted"} => label[r].label = "spam"
        /\ rec[r].status \in {"restored", "dismissed"} => label[r].label = "ham"

\* The lifecycle the implementation plan allows, with the reopening of
\* dismissals the README adds.
LegalTransition ==
    {<<"absent", "flagged">>, <<"flagged", "quarantined">>, <<"flagged", "dismissed">>,
     <<"quarantined", "restored">>, <<"restored", "flagged">>, <<"dismissed", "flagged">>,
     <<"quarantined", "dismissed">>, <<"quarantined", "redacted">>}

\* Every status change of a record is an allowed one, with several operators
\* at work too.
TransitionsLegal ==
    [][\A r \in Record : rec'[r].status # rec[r].status =>
           <<rec[r].status, rec'[r].status>> \in LegalTransition]_vars

Interrupted(r) == /\ rec[r].status = "flagged"
                  /\ desc[rec[r].repo] = rec[r].notice
                  /\ mode[rec[r].repo] \in {"empty", "inactive"}

\* A quarantine interrupted after its write to Quay is completed by retrying:
\* a flagged record whose repository already shows the notice, and whose saved
\* original the training corpus accepts, does not stay so.
RetryConverges ==
    \A r \in Record :
        Interrupted(r) /\ rec[r].original \in Trainable ~> ~Interrupted(r)
==============================================================================
