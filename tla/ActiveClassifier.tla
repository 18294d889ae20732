-------------------------- MODULE ActiveClassifier --------------------------
(***************************************************************************)
(* What activation promises: one classifier is the enabled one, and the     *)
(* policy points at it.  Another can take its place, in one step; nothing   *)
(* takes it away (store.py:317, "activate another classifier first").          *)
(***************************************************************************)
CONSTANTS Classifier, None

VARIABLES enabled, \* the classifiers with enabled = 1
          active   \* spam_policy.active_classifier_id

Init == enabled = {} /\ active = None

Switch(c) == enabled' = {c} /\ active' = c

Spec == Init /\ [][\E c \in Classifier : Switch(c)]_<<enabled, active>>
=============================================================================
