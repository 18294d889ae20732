----------------------- MODULE MCClassifierActivation -----------------------
(* ClassifierActivation for TLC: requests and classifiers are alike. *)
EXTENDS ClassifierActivationProps, TLC

Alike == Permutations(Request) \cup Permutations(Classifier)
=============================================================================
