------------------------ MODULE ClassifierActivation ------------------------
(***************************************************************************)
(* Which classifier is active: the transactions of                          *)
(* backend/spam_detection/store.py that enable or disable a classifier or   *)
(* touch the policy, one action per statement.                              *)
(*                                                                         *)
(* A transaction keeps the advisory locks it takes (pg_advisory_xact_lock)  *)
(* and the rows it writes locked until it ends, and nobody sees what it     *)
(* writes before it commits.  A statement that meets a lock of another      *)
(* transaction waits: its action is not enabled.                            *)
(***************************************************************************)
EXTENDS Naturals

CONSTANTS
    Request,     \* console and command-line requests that may be in flight
    Classifier,  \* ids of spam_classifier
    None         \* NULL

ASSUME ActivationAssumption == None \notin Request \cup Classifier

VARIABLES
    rows,     \* the committed rows of spam_classifier
    enabled,  \* those with enabled = 1
    policy,   \* spam_policy: how many rows it has, and whom the first points at
    tx        \* the transaction of each request

vars == <<rows, enabled, policy, tx>>

(***************************************************************************)
(* The operations, as the statements they run after one another            *)
(***************************************************************************)
\* create_classifier, with and without payload["enabled"].
CreatePlan == [start |-> "lock", lock |-> "clear", clear |-> "row",
               row |-> "policy", policy |-> "save", save |-> "commit"]
AddPlan == [start |-> "row", row |-> "commit"]

\* create_imported_classifier with enabled: the same order, thresholds too.
ImportPlan == [start |-> "lock", lock |-> "clear", clear |-> "row",
               row |-> "policy", policy |-> "save", save |-> "commit"]

\* Mutant of DisablePlan: disabling relies on the policy lock alone.
DisableUnlocked == [start |-> "policy", policy |-> "row", row |-> "commit"]

\* update_classifier with enabled true, enabled false, and without enabled.
EnablePlan  == [start |-> "lock", lock |-> "clear", clear |-> "row",
                row |-> "policy", policy |-> "save", save |-> "commit"]
DisablePlan == [start |-> "lock", lock |-> "policy", policy |-> "row", row |-> "commit"]
RenamePlan  == [start |-> "row", row |-> "commit"]

\* Mutant of ActivatePlan: update_policy points at a classifier without
\* enabling it.
ActivatePointing == [start |-> "lock", lock |-> "clear", clear |-> "policy",
                     policy |-> "save", save |-> "commit"]

\* update_policy with and without active_classifier_uuid; get_policy.
ActivatePlan == [start |-> "lock", lock |-> "clear", clear |-> "policy",
                 policy |-> "row", row |-> "save", save |-> "commit"]
AdjustPlan == [start |-> "policy", policy |-> "save", save |-> "commit"]
ReadPlan   == [start |-> "policy", policy |-> "commit"]

Plan == [create |-> CreatePlan, add |-> AddPlan, import |-> ImportPlan,
         enable |-> EnablePlan, disable |-> DisablePlan, rename |-> RenamePlan,
         activate |-> ActivatePlan, adjust |-> AdjustPlan, read |-> ReadPlan]

Kind     == DOMAIN Plan
Inserts  == {"create", "add", "import"}
Switches == {"create", "import", "enable", "activate"}
Targeted == {"enable", "disable", "rename", "activate"}  \* given a uuid

(***************************************************************************)
(* State                                                                   *)
(***************************************************************************)
\* target is the row of the request, locks the advisory locks it holds; clears,
\* wrote, points and opens are its uncommitted writes: rows with enabled = 0,
\* the target row, the policy's active classifier, and a policy row.
Tx == [kind: Kind \cup {"none"}, target: Classifier \cup {None},
       pc: {"idle", "lock", "clear", "row", "policy", "save", "commit"},
       locks: SUBSET {"activation", "policy"}, clears: SUBSET Classifier,
       wrote: BOOLEAN, points: BOOLEAN, opens: BOOLEAN]

NewTx(kind, target, pc) ==
    [kind |-> kind, target |-> target, pc |-> pc, locks |-> {}, clears |-> {},
     wrote |-> FALSE, points |-> FALSE, opens |-> FALSE]

NoTx == NewTx("none", None, "idle")

TypeOK ==
    /\ rows \subseteq Classifier
    /\ enabled \subseteq rows
    /\ policy \in [rows: Nat, active: Classifier \cup {None}]
    /\ tx \in [Request -> Tx]

Init ==
    /\ rows = {} /\ enabled = {}
    /\ policy = [rows |-> 0, active |-> None]
    /\ tx = [o \in Request |-> NoTx]

Others(o)  == Request \ {o}
Holders(l) == {o \in Request : l \in tx[o].locks}
Locked(o)  == tx[o].clears \cup (IF tx[o].wrote THEN {tx[o].target} ELSE {})
Enabling(o) == tx[o].wrote /\ tx[o].kind \in Switches

Continue(o, next) ==
    tx' = [tx EXCEPT ![o] = [next EXCEPT !.pc = Plan[tx[o].kind][tx[o].pc]]]

(***************************************************************************)
(* Statements                                                              *)
(***************************************************************************)
\* Up to the BEGIN: a uuid is looked up first, and rows are never deleted.
Begin(o, kind, c) ==
    /\ tx[o].pc = "idle"
    /\ IF kind \in Targeted THEN c \in rows ELSE c = None
    /\ tx' = [tx EXCEPT ![o] = NewTx(kind, c, Plan[kind].start)]
    /\ UNCHANGED <<rows, enabled, policy>>

\* _lock_classifier_activation.
TakeActivationLock(o) ==
    /\ tx[o].pc = "lock"
    /\ Holders("activation") = {}
    /\ Continue(o, [tx[o] EXCEPT !.locks = @ \cup {"activation"}])
    /\ UNCHANGED <<rows, enabled, policy>>

\* _prepare_classifier_activation: UPDATE ... SET enabled = 0 WHERE enabled = 1.
ClearEnabled(o) ==
    /\ tx[o].pc = "clear"
    /\ \A q \in Others(o) : Locked(q) \cap enabled = {}
    /\ Continue(o, [tx[o] EXCEPT !.clears = enabled])
    /\ UNCHANGED <<rows, enabled, policy>>

\* spam_classifier_one_enabled_idx: o may set enabled = 1 on c.
IndexAllows(o, c) == enabled \subseteq tx[o].clears \cup {c}

\* Mutant of WriteRow: it notes the row where it should note that it wrote it.
WriteRowMistyped(o, c) ==
    /\ tx[o].pc = "row"
    /\ Continue(o, [tx[o] EXCEPT !.target = c, !.wrote = c])
    /\ UNCHANGED <<rows, enabled, policy>>

\* The INSERT or UPDATE of the classifier itself.
WriteRow(o, c) ==
    /\ tx[o].pc = "row"
    /\ IF tx[o].kind \in Inserts THEN c \notin rows ELSE c = tx[o].target
    /\ \A q \in Others(o) : c \notin Locked(q)
    /\ tx[o].kind \in Switches =>
           IndexAllows(o, c) /\ \A q \in Others(o) : ~Enabling(q)
    /\ Continue(o, [tx[o] EXCEPT !.target = c, !.wrote = TRUE])
    /\ UNCHANGED <<rows, enabled, policy>>

\* Mutant of EnsurePolicy: the policy is read, or inserted, without its lock.
EnsurePolicyUnlocked(o) ==
    /\ tx[o].pc = "policy"
    /\ tx[o].kind = "disable" => policy.active # tx[o].target
    /\ Continue(o, [tx[o] EXCEPT !.opens = policy.rows = 0])
    /\ UNCHANGED <<rows, enabled, policy>>

\* ensure_policy, and the refusal to disable the active classifier.
EnsurePolicy(o) ==
    /\ tx[o].pc = "policy"
    /\ Holders("policy") = {}
    /\ tx[o].kind = "disable" => policy.active # tx[o].target
    /\ Continue(o, [tx[o] EXCEPT !.locks = @ \cup {"policy"}, !.opens = policy.rows = 0])
    /\ UNCHANGED <<rows, enabled, policy>>

\* UPDATE spam_policy, and with it whom the policy points at.
SavePolicy(o) ==
    /\ tx[o].pc = "save"
    /\ Continue(o, IF tx[o].kind \in Switches THEN [tx[o] EXCEPT !.points = TRUE] ELSE tx[o])
    /\ UNCHANGED <<rows, enabled, policy>>

\* COMMIT at the end of the connection's block.
Commit(o) ==
    LET t == tx[o]
        written == IF t.wrote THEN {t.target} ELSE {} IN
    /\ t.pc = "commit"
    /\ rows' = rows \cup written
    /\ enabled' = IF t.wrote /\ t.kind = "disable" THEN enabled \ {t.target}
                  ELSE (enabled \ t.clears) \cup (IF t.kind \in Switches THEN written ELSE {})
    /\ policy' = [rows   |-> policy.rows + (IF t.opens THEN 1 ELSE 0),
                  active |-> IF t.points THEN t.target ELSE policy.active]
    /\ tx' = [tx EXCEPT ![o] = NoTx]

\* Any error, refusal, deadlock victim or crash: ROLLBACK.
Abort(o) ==
    /\ tx[o].pc # "idle"
    /\ tx' = [tx EXCEPT ![o] = NoTx]
    /\ UNCHANGED <<rows, enabled, policy>>

Next ==
    \E o \in Request :
        \/ \E kind \in Kind, c \in Classifier \cup {None} : Begin(o, kind, c)
        \/ TakeActivationLock(o) \/ ClearEnabled(o)
        \/ \E c \in Classifier : WriteRow(o, c)
        \/ EnsurePolicy(o) \/ SavePolicy(o) \/ Commit(o) \/ Abort(o)

Spec == Init /\ [][Next]_vars
=============================================================================
