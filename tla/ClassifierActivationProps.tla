---------------------- MODULE ClassifierActivationProps ----------------------
(***************************************************************************)
(* What activation promises, over the module ClassifierActivation.         *)
(***************************************************************************)
EXTENDS ClassifierActivation

Promise == INSTANCE ActiveClassifier WITH active <- policy.active

\* However activations, imports, disabling and policy updates race and fail,
\* readers see one enabled classifier, the one the policy points at, switched in
\* one step and never taken away (update_classifier, update_policy,
\* create_classifier, create_imported_classifier).
SwitchedAtOnce == Promise!Spec

\* The policy is inserted once, whoever asks for it first (ensure_policy).
OnePolicyRow == policy.rows <= 1

\* Whom the next statement of o waits for.
WaitsFor(o) ==
    CASE tx[o].pc = "lock"   -> Holders("activation")
      [] tx[o].pc = "clear"  -> {q \in Others(o) : Locked(q) \cap enabled # {}}
      [] tx[o].pc = "row"    -> {q \in Others(o) :
                                   \/ tx[o].target \in Locked(q)
                                   \/ tx[o].kind \in Switches /\ Enabling(q)}
      [] tx[o].pc = "policy" -> Holders("policy")
      [] OTHER               -> {}

\* No transactions wait for each other in a circle, so PostgreSQL never picks one
\* of them as a deadlock victim: the activation lock comes before the rows and
\* the policy lock wherever a transaction needs more than one.
NoWaitCycle ==
    \A S \in SUBSET Request : S # {} => \E o \in S : WaitsFor(o) \cap S = {}
==============================================================================
