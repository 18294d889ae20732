------------------------ MODULE MCClassifierArtifacts ------------------------
(* Instances of ClassifierArtifacts for TLC. *)
EXTENDS ClassifierArtifactsProps, TLC

CONSTANTS persistent, v1, v2, v3, low, high

Alike == Permutations(Request) \cup Permutations(Classifier)

File1(v, t, form) == [version |-> v, base |-> None, examples |-> 0,
                      threshold |-> t, form |-> form]

\* The same artifact in two formats, and another one with the same version.
Files == {File1(v1, low, "file"), File1(v1, low, "canonical"), File1(v1, high, "file")}
TwoFiles == {File1(v1, low, "file"), File1(v1, low, "canonical")}
TwoVersions == {File1(v1, low, "file"), File1(v2, low, "file")}
OneFile == {File1(v1, low, "file")}

(***************************************************************************)
(* Somebody who tries again until it works, over storage and a database     *)
(* that stop failing one day; other requests may fail for ever, but their   *)
(* sessions end and leave their locks.                                      *)
(***************************************************************************)
\* A step refused whatever is tried again, as opposed to one that failed.
Refused(o) == req[o].pc # "lock" /\ ~ENABLED Step(o)

RetrySpec ==
    /\ Spec
    /\ \A o \in Request \ {persistent} : WF_vars(Abort(o))
    /\ SF_vars(\E c \in Classifier : row[c].version # None /\ Begin(persistent, "promote", c, None))
    /\ \A a \in Upload : SF_vars(BeginImport(persistent, a))
    /\ SF_vars(TakeLock(persistent))
    /\ WF_vars(Step(persistent) \/ (Refused(persistent) /\ Abort(persistent)))
    /\ <>[][Abort(persistent) /\ ~Step(persistent) => Refused(persistent)]_vars
==============================================================================
