--------------------------- MODULE ReviewLifecycle ---------------------------
(***************************************************************************)
(* What the review of a flagged repository promises, without the databases *)
(* that carry it: every record walks one lifecycle, and each decision is   *)
(* recorded together with the training label it implies.                   *)
(***************************************************************************)

CONSTANT Record

VARIABLES status,   \* the review status of each record
          verdict   \* the label the training corpus currently takes from it

vars == <<status, verdict>>

Status == {"absent", "flagged", "quarantined", "restored", "dismissed", "redacted"}
Verdict == {"none", "spam", "ham"}

TypeOK == /\ status \in [Record -> Status]
          /\ verdict \in [Record -> Verdict]

Init == /\ status = [r \in Record |-> "absent"]
        /\ verdict = [r \in Record |-> "none"]

Step(r, from, to, v) ==
    /\ status[r] \in from
    /\ status' = [status EXCEPT ![r] = to]
    /\ verdict' = [verdict EXCEPT ![r] = v]

\* A scan opens a record without a label, an operator who reports a false
\* negative opens it labelled spam.
Flag(r)       == \E v \in {"none", "spam"} : Step(r, {"absent"}, "flagged", v)
Label(r)      == \E v \in {"spam", "ham"} : Step(r, {"flagged"}, "flagged", v)
Quarantine(r) == Step(r, {"flagged"}, "quarantined", "spam")
Restore(r)    == Step(r, {"quarantined"}, "restored", "ham")
Dismiss(r)    == Step(r, {"flagged", "quarantined"}, "dismissed", "ham")
Redact(r)     == Step(r, {"quarantined"}, "redacted", "spam")
Reopen(r)     == Step(r, {"restored", "dismissed"}, "flagged", "none")

Next == \E r \in Record :
            \/ Flag(r) \/ Label(r) \/ Quarantine(r) \/ Restore(r)
            \/ Dismiss(r) \/ Redact(r) \/ Reopen(r)

Spec == Init /\ [][Next]_vars
==============================================================================
