------------------------------ MODULE MCScanRun ------------------------------
(* Instances of ScanRun for TLC, and the fairness of a cron job. *)
EXTENDS ScanRunProps, TLC

CONSTANTS worker, cron

Workers == Permutations(Scanner)
MCScanner == {worker, cron}
One == 1 .. 1
Two == 1 .. 2
Four == 1 .. 4
Both == BOOLEAN
Dry == {TRUE}
NotDry == {FALSE}
All == {0}
Bounded == {0, 3}

\* Time passes, the transactions that create runs end, and one caller starts a
\* scan again and again, the cron job: it is not killed in that transaction
\* every time.  Nothing else is fair: any other scan may hang or die.
CronSpec ==
    /\ Spec
    /\ WF_vars(Tick)
    /\ \A s \in Scanner : WF_vars(Created(s))
    /\ WF_vars(Begins(cron)) /\ WF_vars(Code(cron))
    /\ SF_vars(\E r \in Run : CreateRun(cron, r))
==============================================================================
