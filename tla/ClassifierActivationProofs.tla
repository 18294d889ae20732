---------------------- MODULE ClassifierActivationProofs ----------------------
(***************************************************************************)
(* Proofs about ClassifierActivation, for any number of requests and        *)
(* classifiers.  The strengthening (Ledger) says what a transaction holds   *)
(* and has written at each of its statements: whoever changes `enabled` or  *)
(* the policy's pointer has the activation lock from its first statement,   *)
(* so what it read of them is still so when it commits.                     *)
(***************************************************************************)
EXTENDS ClassifierActivationProps, TLAPS

Storing   == {"create", "import", "enable"}   \* write the row before the policy
Activates == Switches \cup {"disable"}        \* take the activation lock

\* The statements of each kind of transaction.
Stages(t) ==
    /\ t.kind = "none" <=> t.pc = "idle"
    /\ t.kind \in {"add", "rename"} => t.pc \in {"row", "commit"}
    /\ t.kind = "disable" => t.pc \in {"lock", "policy", "row", "commit"}
    /\ t.kind = "adjust" => t.pc \in {"policy", "save", "commit"}
    /\ t.kind = "read" => t.pc \in {"policy", "commit"}

HasWritten(t) ==
    \/ t.kind \in Storing /\ t.pc \in {"policy", "save", "commit"}
    \/ t.kind = "activate" /\ t.pc \in {"save", "commit"}
    \/ t.kind \in {"add", "rename", "disable"} /\ t.pc = "commit"

HasPolicy(t) ==
    \/ t.kind \in Storing \cup {"adjust"} /\ t.pc \in {"save", "commit"}
    \/ t.kind = "activate" /\ t.pc \in {"row", "save", "commit"}
    \/ t.kind = "disable" /\ t.pc \in {"row", "commit"}
    \/ t.kind = "read" /\ t.pc = "commit"

Ledger(t) ==
    /\ Stages(t)
    /\ t.wrote <=> HasWritten(t)
    /\ t.clears = IF t.kind \in Switches /\ t.pc \notin {"lock", "clear"} THEN enabled ELSE {}
    /\ "activation" \in t.locks <=> t.kind \in Activates /\ t.pc # "lock"
    /\ "policy" \in t.locks <=> HasPolicy(t)
    /\ t.points <=> t.kind \in Switches /\ t.pc = "commit"
    /\ t.opens => HasPolicy(t) /\ policy.rows = 0
    /\ t.kind \in Targeted => t.target \in rows
    /\ t.wrote => t.target \in Classifier
    /\ t.kind = "disable" /\ t.pc \in {"row", "commit"} => policy.active # t.target

Exclusive ==
    \A o, q \in Request : o # q => tx[o].locks \cap tx[q].locks = {}

\* Readers see the promise kept.
Pointed == enabled = IF policy.active = None THEN {} ELSE {policy.active}

AInv ==
    /\ TypeOK
    /\ Exclusive
    /\ Pointed
    /\ OnePolicyRow
    /\ \A o \in Request : Ledger(tx[o])

(***************************************************************************)
(* A statement writes nothing others see                                   *)
(***************************************************************************)
LEMMA LocalStep ==
    ASSUME AInv, NEW o \in Request, NEW t \in Tx,
           tx' = [tx EXCEPT ![o] = t], UNCHANGED <<rows, enabled, policy>>,
           Ledger(t), \A q \in Others(o) : t.locks \cap tx[q].locks = {}
    PROVE  AInv'
<1>1. /\ tx'[o] = t
      /\ \A q \in Others(o) : tx'[q] = tx[q]
      /\ tx' \in [Request -> Tx]
  BY DEF AInv, TypeOK, Others
<1>2. TypeOK' /\ Pointed' /\ OnePolicyRow'
  BY <1>1 DEF AInv, TypeOK, Pointed, OnePolicyRow
<1>3. \A q \in Request : Ledger(tx'[q])
  BY <1>1 DEF AInv, Others
<1>4. (\A q \in Request : Ledger(tx[q]))'
  BY <1>3 DEF Ledger, Stages, HasWritten, HasPolicy
<1>5. Exclusive'
  BY <1>1 DEF AInv, Exclusive, Others
<1> QED
  BY <1>2, <1>4, <1>5 DEF AInv

\* What comes after each statement.
LEMMA NextStage ==
    /\ \A k \in Storing : /\ Plan[k].start = "lock" /\ Plan[k]["lock"] = "clear"
                           /\ Plan[k]["clear"] = "row" /\ Plan[k]["row"] = "policy"
                           /\ Plan[k]["policy"] = "save" /\ Plan[k]["save"] = "commit"
    /\ \A k \in {"add", "rename"} : Plan[k].start = "row" /\ Plan[k]["row"] = "commit"
    /\ Plan["disable"].start = "lock" /\ Plan["disable"]["lock"] = "policy"
    /\ Plan["disable"]["policy"] = "row" /\ Plan["disable"]["row"] = "commit"
    /\ Plan["activate"].start = "lock" /\ Plan["activate"]["lock"] = "clear"
    /\ Plan["activate"]["clear"] = "policy" /\ Plan["activate"]["policy"] = "row"
    /\ Plan["activate"]["row"] = "save" /\ Plan["activate"]["save"] = "commit"
    /\ Plan["adjust"].start = "policy" /\ Plan["adjust"]["policy"] = "save"
    /\ Plan["adjust"]["save"] = "commit"
    /\ Plan["read"].start = "policy" /\ Plan["read"]["policy"] = "commit"
  BY DEF Plan, Storing, CreatePlan, AddPlan, ImportPlan, EnablePlan, DisablePlan,
         RenamePlan, ActivatePlan, AdjustPlan, ReadPlan

\* The operations, spelled out.
LEMMA Kinds == Kind = {"create", "add", "import", "enable", "disable", "rename",
                       "activate", "adjust", "read"}
  BY DEF Kind, Plan

\* A transaction that begins holds nothing.
LEMMA BeginStep ==
    ASSUME AInv, NEW o \in Request, NEW kind \in Kind, NEW c \in Classifier \cup {None},
           Begin(o, kind, c)
    PROVE  AInv'
<1> DEFINE t == NewTx(kind, c, Plan[kind].start)
<1>1. t = [kind |-> kind, target |-> c, pc |-> Plan[kind].start, locks |-> {},
           clears |-> {}, wrote |-> FALSE, points |-> FALSE, opens |-> FALSE]
  BY DEF NewTx
<1>2. Plan[kind].start \in {"lock", "row", "policy"}
  BY NextStage, Kinds DEF Storing
<1>3. t \in Tx
  BY <1>1, <1>2 DEF Tx
<1>4. Stages(t)
  BY <1>1, NextStage, Kinds DEF Stages, Storing
<1>5. ~HasWritten(t) /\ ~HasPolicy(t)
  BY <1>1, NextStage, Kinds DEF HasWritten, HasPolicy, Storing
<1>6. /\ kind \in Switches => t.pc = "lock"
      /\ kind \in Activates => t.pc = "lock"
      /\ kind = "disable" => t.pc \notin {"row", "commit"}
  BY <1>1, NextStage, Kinds DEF Switches, Activates, Storing
<1>7. Ledger(t)
  BY <1>1, <1>4, <1>5, <1>6 DEF Ledger, Begin
<1> QED
  BY <1>1, <1>3, <1>7, LocalStep DEF Begin

\* One that rolls back leaves nothing.
LEMMA AbortStep ==
    ASSUME AInv, NEW o \in Request, Abort(o)
    PROVE  AInv'
<1>1. NoTx \in Tx
  BY DEF NoTx, NewTx, Tx
<1>2. Ledger(NoTx)
  BY DEF Ledger, NoTx, NewTx, Stages, HasWritten, HasPolicy, Storing, Switches, Activates, Targeted
<1> QED
  BY <1>1, <1>2, LocalStep DEF Abort, NoTx, NewTx

(***************************************************************************)
(* The statements                                                          *)
(***************************************************************************)
\* A statement that leaves the transaction next, at its next stage.
LEMMA ContinueStep ==
    ASSUME AInv, NEW o \in Request, NEW next \in Tx, Continue(o, next),
           UNCHANGED <<rows, enabled, policy>>,
           NEW pc, pc = Plan[tx[o].kind][tx[o].pc],
           pc \in {"clear", "row", "policy", "save", "commit"},
           Ledger([next EXCEPT !.pc = pc]),
           \A q \in Others(o) : next.locks \cap tx[q].locks = {}
    PROVE  AInv'
<1> DEFINE t == [next EXCEPT !.pc = pc]
<1>1. t \in Tx /\ t.locks = next.locks
  BY DEF Tx
<1> QED
  BY <1>1, LocalStep DEF Continue

\* Only one transaction gets the activation lock.
LEMMA TakeActivationLockStep ==
    ASSUME AInv, NEW o \in Request, TakeActivationLock(o)
    PROVE  AInv'
<1> DEFINE next == [tx[o] EXCEPT !.locks = @ \cup {"activation"}]
           pc == Plan[tx[o].kind][tx[o].pc]
           t == [next EXCEPT !.pc = pc]
<1>1. tx[o] \in Tx /\ Ledger(tx[o]) /\ tx[o].pc = "lock"
  BY DEF AInv, TypeOK, TakeActivationLock
<1>2. tx[o].kind \in Storing \cup {"activate", "disable"}
  BY <1>1, Kinds DEF Ledger, Stages, Tx, Storing
<1>3. pc = IF tx[o].kind = "disable" THEN "policy" ELSE "clear"
  BY <1>1, <1>2, NextStage DEF Storing
<1>4. /\ next \in Tx
      /\ t.kind = tx[o].kind /\ t.target = tx[o].target /\ t.pc = pc
      /\ t.locks = tx[o].locks \cup {"activation"} /\ t.clears = tx[o].clears
      /\ t.wrote = tx[o].wrote /\ t.points = tx[o].points /\ t.opens = tx[o].opens
  BY <1>1, <1>3 DEF Tx
<1>5. Stages(t) /\ ~HasWritten(t) /\ ~HasPolicy(t) /\ ~HasWritten(tx[o]) /\ ~HasPolicy(tx[o])
  BY <1>1, <1>2, <1>3, <1>4 DEF Stages, HasWritten, HasPolicy, Storing
<1>6. Ledger(t)
  BY <1>1, <1>2, <1>3, <1>4, <1>5 DEF Ledger, Activates, Switches, Storing
<1>7. \A q \in Others(o) : next.locks \cap tx[q].locks = {}
  BY <1>1 DEF AInv, TakeActivationLock, Holders, Exclusive, Others, Tx
<1>8. pc \in {"clear", "policy"}
  BY <1>3
<1> HIDE DEF pc, next
<1> QED
  BY <1>4, <1>6, <1>7, <1>8, ContinueStep DEF TakeActivationLock, next, pc

\* What a transaction has cleared is what is enabled, as long as it holds the lock.
LEMMA ClearEnabledStep ==
    ASSUME AInv, NEW o \in Request, ClearEnabled(o)
    PROVE  AInv'
<1> DEFINE next == [tx[o] EXCEPT !.clears = enabled]
           pc == Plan[tx[o].kind][tx[o].pc]
           t == [next EXCEPT !.pc = pc]
<1>1. tx[o] \in Tx /\ Ledger(tx[o]) /\ tx[o].pc = "clear" /\ enabled \subseteq Classifier
  BY DEF AInv, TypeOK, ClearEnabled
<1>2. tx[o].kind \in Storing \cup {"activate"}
  BY <1>1, Kinds DEF Ledger, Stages, Tx, Storing
<1>3. pc = IF tx[o].kind = "activate" THEN "policy" ELSE "row"
  BY <1>1, <1>2, NextStage DEF Storing
<1>4. /\ next \in Tx
      /\ t.kind = tx[o].kind /\ t.target = tx[o].target /\ t.pc = pc
      /\ t.locks = tx[o].locks /\ t.clears = enabled
      /\ t.wrote = tx[o].wrote /\ t.points = tx[o].points /\ t.opens = tx[o].opens
  BY <1>1, <1>3 DEF Tx
<1>5. Stages(t) /\ ~HasWritten(t) /\ ~HasPolicy(t) /\ ~HasWritten(tx[o]) /\ ~HasPolicy(tx[o])
  BY <1>1, <1>2, <1>3, <1>4 DEF Stages, HasWritten, HasPolicy, Storing
<1>6. Ledger(t)
  BY <1>1, <1>2, <1>3, <1>4, <1>5 DEF Ledger, Activates, Switches, Storing
<1>7. \A q \in Others(o) : next.locks \cap tx[q].locks = {}
  BY <1>1 DEF AInv, Exclusive, Others, Tx
<1>8. pc \in {"row", "policy"}
  BY <1>3
<1> HIDE DEF pc, next
<1> QED
  BY <1>4, <1>6, <1>7, <1>8, ContinueStep DEF ClearEnabled, next, pc

\* The row written is the transaction's own, enabled only after the others are cleared.
LEMMA WriteRowStep ==
    ASSUME AInv, NEW o \in Request, NEW c \in Classifier, WriteRow(o, c)
    PROVE  AInv'
<1> DEFINE next == [tx[o] EXCEPT !.target = c, !.wrote = TRUE]
           pc == Plan[tx[o].kind][tx[o].pc]
           t == [next EXCEPT !.pc = pc]
<1>1. /\ tx[o] \in Tx /\ Ledger(tx[o]) /\ tx[o].pc = "row"
      /\ tx[o].kind \notin Inserts => c = tx[o].target
  BY DEF AInv, TypeOK, WriteRow
<1>2. tx[o].kind \in Storing \cup {"activate", "disable", "add", "rename"}
  BY <1>1, Kinds DEF Ledger, Stages, Tx, Storing
<1>3. pc = CASE tx[o].kind \in Storing   -> "policy"
             [] tx[o].kind = "activate" -> "save"
             [] OTHER                   -> "commit"
  BY <1>1, <1>2, NextStage DEF Storing
<1>4. /\ next \in Tx
      /\ t.kind = tx[o].kind /\ t.target = c /\ t.pc = pc
      /\ t.locks = tx[o].locks /\ t.clears = tx[o].clears
      /\ t.wrote = TRUE /\ t.points = tx[o].points /\ t.opens = tx[o].opens
  BY <1>1, <1>2, <1>3 DEF Tx, Storing
<1>5. Stages(t) /\ HasWritten(t) /\ (HasPolicy(t) <=> HasPolicy(tx[o]))
  BY <1>1, <1>2, <1>3, <1>4 DEF Stages, HasWritten, HasPolicy, Storing
<1>6. Ledger(t)
  BY <1>1, <1>2, <1>3, <1>4, <1>5 DEF Ledger, Activates, Switches, Storing, Targeted, Inserts
<1>7. \A q \in Others(o) : next.locks \cap tx[q].locks = {}
  BY <1>1 DEF AInv, Exclusive, Others, Tx
<1>8. pc \in {"policy", "save", "commit"}
  BY <1>2, <1>3 DEF Storing
<1> HIDE DEF pc, next
<1> QED
  BY <1>4, <1>6, <1>7, <1>8, ContinueStep DEF WriteRow, next, pc

\* The policy is read, or its row added, under the policy lock.
LEMMA EnsurePolicyStep ==
    ASSUME AInv, NEW o \in Request, EnsurePolicy(o)
    PROVE  AInv'
<1> DEFINE next == [tx[o] EXCEPT !.locks = @ \cup {"policy"}, !.opens = policy.rows = 0]
           pc == Plan[tx[o].kind][tx[o].pc]
           t == [next EXCEPT !.pc = pc]
<1>1. /\ tx[o] \in Tx /\ Ledger(tx[o]) /\ tx[o].pc = "policy"
      /\ tx[o].kind = "disable" => policy.active # tx[o].target
  BY DEF AInv, TypeOK, EnsurePolicy
<1>2. tx[o].kind \in Storing \cup {"activate", "disable", "adjust", "read"}
  BY <1>1, Kinds DEF Ledger, Stages, Tx, Storing
<1>3. pc = CASE tx[o].kind \in Storing \cup {"adjust"}      -> "save"
             [] tx[o].kind \in {"activate", "disable"} -> "row"
             [] OTHER                                 -> "commit"
  BY <1>1, <1>2, NextStage DEF Storing
<1>4. /\ next \in Tx
      /\ t.kind = tx[o].kind /\ t.target = tx[o].target /\ t.pc = pc
      /\ t.locks = tx[o].locks \cup {"policy"} /\ t.clears = tx[o].clears
      /\ t.wrote = tx[o].wrote /\ t.points = tx[o].points /\ t.opens = (policy.rows = 0)
  BY <1>1, <1>2, <1>3 DEF Tx, Storing
<1>5. Stages(t) /\ HasPolicy(t) /\ ~HasPolicy(tx[o]) /\ (HasWritten(t) <=> HasWritten(tx[o]))
  BY <1>1, <1>2, <1>3, <1>4 DEF Stages, HasWritten, HasPolicy, Storing
<1>6. Ledger(t)
  BY <1>1, <1>2, <1>3, <1>4, <1>5 DEF Ledger, Activates, Switches, Storing, Targeted
<1>7. \A q \in Others(o) : next.locks \cap tx[q].locks = {}
  BY <1>1 DEF AInv, EnsurePolicy, Holders, Exclusive, Others, Tx
<1>8. pc \in {"row", "save", "commit"}
  BY <1>2, <1>3 DEF Storing
<1> HIDE DEF pc, next
<1> QED
  BY <1>4, <1>6, <1>7, <1>8, ContinueStep DEF EnsurePolicy, next, pc

\* The policy is pointed at the row that was written.
LEMMA SavePolicyStep ==
    ASSUME AInv, NEW o \in Request, SavePolicy(o)
    PROVE  AInv'
<1> DEFINE next == IF tx[o].kind \in Switches THEN [tx[o] EXCEPT !.points = TRUE] ELSE tx[o]
           pc == Plan[tx[o].kind][tx[o].pc]
           t == [next EXCEPT !.pc = pc]
<1>1. tx[o] \in Tx /\ Ledger(tx[o]) /\ tx[o].pc = "save"
  BY DEF AInv, TypeOK, SavePolicy
<1>2. tx[o].kind \in Storing \cup {"activate", "adjust"}
  BY <1>1, Kinds DEF Ledger, Stages, Tx, Storing
<1>3. pc = "commit"
  BY <1>1, <1>2, NextStage DEF Storing
<1>4. /\ next \in Tx
      /\ t.kind = tx[o].kind /\ t.target = tx[o].target /\ t.pc = pc
      /\ t.locks = tx[o].locks /\ t.clears = tx[o].clears
      /\ t.wrote = tx[o].wrote /\ (t.points <=> tx[o].kind \in Switches)
      /\ t.opens = tx[o].opens
  BY <1>1, <1>3 DEF Tx, Ledger
<1>5. /\ Stages(t) /\ HasPolicy(t) /\ HasPolicy(tx[o])
      /\ HasWritten(t) <=> HasWritten(tx[o])
  BY <1>1, <1>2, <1>3, <1>4 DEF Stages, HasWritten, HasPolicy, Storing
<1>6. Ledger(t)
  BY <1>1, <1>2, <1>3, <1>4, <1>5 DEF Ledger, Activates, Switches, Storing, Targeted
<1>7. \A q \in Others(o) : next.locks \cap tx[q].locks = {}
  BY <1>1 DEF AInv, Exclusive, Others, Tx
<1> HIDE DEF pc, next
<1> QED
  BY <1>3, <1>4, <1>6, <1>7, ContinueStep DEF SavePolicy, next, pc

(***************************************************************************)
(* A commit is a switch, or shows nothing of the activation                *)
(***************************************************************************)
LEMMA CommitEffect ==
    ASSUME AInv, NEW o \in Request, Commit(o)
    PROVE  /\ rows \subseteq rows' /\ rows' \subseteq Classifier /\ enabled' \subseteq rows'
           /\ policy'.rows = policy.rows + (IF tx[o].opens THEN 1 ELSE 0)
           /\ policy' \in [rows: Nat, active: Classifier \cup {None}]
           /\ tx[o].kind \in Switches => /\ tx[o].target \in Classifier
                                         /\ enabled' = {tx[o].target}
                                         /\ policy'.active = tx[o].target
           /\ tx[o].kind \notin Switches => enabled' = enabled /\ policy'.active = policy.active
<1> DEFINE t == tx[o]
<1>1. t \in Tx /\ Ledger(t) /\ t.pc = "commit" /\ Pointed /\ rows \subseteq Classifier
      /\ enabled \subseteq rows /\ policy \in [rows: Nat, active: Classifier \cup {None}]
  BY DEF AInv, TypeOK, Commit
<1>2. t.points <=> t.kind \in Switches
  BY <1>1 DEF Ledger
<1>3. t.kind \in Switches => t.wrote /\ t.clears = enabled
  BY <1>1 DEF Ledger, HasWritten, Switches, Storing
<1>4. t.kind \notin Switches => t.clears = {}
  BY <1>1 DEF Ledger
<1>5. t.wrote => t.target \in Classifier
  BY <1>1 DEF Ledger
<1>6. t.kind = "disable" => policy.active # t.target
  BY <1>1 DEF Ledger
<1>7. /\ policy'.rows = policy.rows + (IF t.opens THEN 1 ELSE 0)
      /\ policy'.active = IF t.points THEN t.target ELSE policy.active
      /\ policy' \in [rows: Nat, active: Classifier \cup {None}]
  BY <1>1, <1>2, <1>3, <1>5 DEF Commit
<1>8. rows' = rows \cup (IF t.wrote THEN {t.target} ELSE {})
  BY DEF Commit
<1>9. CASE t.kind \in Switches
  <2>1. t.kind # "disable"
    BY <1>9 DEF Switches
  <2>2. enabled' = {t.target}
    BY <1>3, <1>9, <2>1 DEF Commit
  <2> QED
    BY <1>1, <1>2, <1>3, <1>5, <1>7, <1>8, <1>9, <2>2
<1>10. CASE t.kind \notin Switches
  <2>1. enabled' = enabled
    <3>1. CASE t.wrote /\ t.kind = "disable"
      <4>1. t.target \notin enabled
        BY <1>1, <1>6, <3>1 DEF Pointed
      <4> QED
        BY <3>1, <4>1 DEF Commit
    <3>2. CASE ~(t.wrote /\ t.kind = "disable")
      BY <1>4, <1>10, <3>2 DEF Commit
    <3> QED
      BY <3>1, <3>2
  <2> QED
    BY <1>1, <1>2, <1>5, <1>7, <1>8, <1>10, <2>1
<1> QED
  BY <1>9, <1>10

\* A commit leaves the enabled classifier and the policy in agreement.
LEMMA CommitStep ==
    ASSUME AInv, NEW o \in Request, Commit(o)
    PROVE  AInv'
<1>1. /\ tx \in [Request -> Tx] /\ \A q \in Request : tx[q] \in Tx /\ Ledger(tx[q])
      /\ tx[o].pc = "commit" /\ policy.rows \in Nat /\ Exclusive
  BY DEF AInv, TypeOK, Commit
<1>2. /\ tx' \in [Request -> Tx]
      /\ tx'[o] = NoTx /\ \A q \in Others(o) : tx'[q] = tx[q]
  BY <1>1 DEF Commit, Others, NoTx, NewTx, Tx
<1>3. TypeOK'
  BY <1>2, CommitEffect DEF TypeOK
<1>4. Pointed'
  <2>1. CASE tx[o].kind \in Switches
    BY <2>1, CommitEffect, ActivationAssumption DEF Pointed
  <2>2. CASE tx[o].kind \notin Switches
    BY <2>2, CommitEffect DEF AInv, Pointed
  <2> QED
    BY <2>1, <2>2
<1>5. OnePolicyRow'
  BY <1>1, CommitEffect DEF AInv, OnePolicyRow, Ledger
<1>6. Exclusive'
  BY <1>1, <1>2 DEF Exclusive, Others, NoTx, NewTx
<1>7. ASSUME NEW q \in Request
      PROVE  Ledger(tx[q])'
  <2>1. CASE q = o
    BY <1>2, <2>1 DEF Ledger, NoTx, NewTx, Stages, HasWritten, HasPolicy, Storing, Switches,
                      Activates, Targeted
  <2>2. CASE q # o
    <3>1. tx'[q] = tx[q] /\ Ledger(tx[q]) /\ tx[q].locks \cap tx[o].locks = {}
      BY <1>1, <1>2, <2>2 DEF Others, Exclusive
    <3>2. tx[o].kind \in Switches => "activation" \in tx[o].locks
      BY <1>1 DEF Ledger, Activates
    <3>3. tx[q].clears = IF tx[q].kind \in Switches /\ tx[q].pc \notin {"lock", "clear"}
                         THEN enabled' ELSE {}
      BY <3>1, <3>2, CommitEffect DEF Ledger, Activates
    <3>4. tx[q].opens => HasPolicy(tx[q]) /\ policy'.rows = 0
      BY <1>1, <3>1, CommitEffect DEF Ledger
    <3>5. tx[q].kind \in Targeted => tx[q].target \in rows'
      BY <3>1, CommitEffect DEF Ledger
    <3>6. tx[q].kind = "disable" /\ tx[q].pc \in {"row", "commit"} => policy'.active # tx[q].target
      BY <3>1, <3>2, CommitEffect DEF Ledger, Activates
    <3> QED
      BY <3>1, <3>3, <3>4, <3>5, <3>6 DEF Ledger, Stages, HasWritten, HasPolicy
  <2> QED
    BY <2>1, <2>2
<1> QED
  BY <1>3, <1>4, <1>5, <1>6, <1>7 DEF AInv

(***************************************************************************)
(* The invariant                                                           *)
(***************************************************************************)
LEMMA InitAInv == Init => AInv
  BY DEF Init, AInv, TypeOK, Exclusive, Pointed, OnePolicyRow, Ledger, NoTx, NewTx, Tx, Stages,
         HasWritten, HasPolicy, Storing, Switches, Activates, Targeted

\* Every statement keeps the invariant.
LEMMA StepAInv == AInv /\ [Next]_vars => AInv'
<1> SUFFICES ASSUME AInv, [Next]_vars PROVE AInv'
  OBVIOUS
<1>1. CASE UNCHANGED vars
  <2>1. TypeOK' /\ Exclusive' /\ Pointed' /\ OnePolicyRow'
    BY <1>1 DEF vars, AInv, TypeOK, Exclusive, Pointed, OnePolicyRow
  <2>2. \A o \in Request : Ledger(tx'[o])
    BY <1>1 DEF vars, AInv
  <2>3. (\A o \in Request : Ledger(tx[o]))'
    BY <1>1, <2>2 DEF vars, Ledger
  <2> QED
    BY <2>1, <2>3 DEF AInv
<1>2. CASE Next
  BY <1>2, BeginStep, AbortStep, TakeActivationLockStep, ClearEnabledStep, WriteRowStep,
     EnsurePolicyStep, SavePolicyStep, CommitStep DEF Next
<1> QED
  BY <1>1, <1>2

\* The ledger and the promise hold in every reachable state.
THEOREM ActivationInductive == Spec => []AInv
  BY InitAInv, StepAInv, PTL DEF Spec

\* Rows, policy and transactions stay well formed.
THEOREM ActivationTyped == Spec => []TypeOK
<1>1. AInv => TypeOK
  BY DEF AInv
<1> QED
  BY <1>1, ActivationInductive, PTL

\* However many requests ask for the policy first, it is inserted once.
THEOREM PolicyOnce == Spec => []OnePolicyRow
<1>1. AInv => OnePolicyRow
  BY DEF AInv
<1> QED
  BY <1>1, ActivationInductive, PTL

(***************************************************************************)
(* The promise is kept: every step switches at once or shows nothing       *)
(***************************************************************************)
LEMMA StepKeepsPromise ==
    ASSUME AInv, [Next]_vars
    PROVE  [\E c \in Classifier : Promise!Switch(c)]_<<enabled, policy.active>>
<1>1. CASE UNCHANGED vars
  BY <1>1 DEF vars
<1>2. CASE \E o \in Request : Commit(o)
  <2>1. PICK o \in Request : Commit(o)
    BY <1>2
  <2> QED
    BY <2>1, CommitEffect DEF Promise!Switch
<1>3. CASE UNCHANGED <<rows, enabled, policy>>
  BY <1>3
<1> QED
  BY <1>1, <1>2, <1>3 DEF Next, Begin, TakeActivationLock, ClearEnabled, WriteRow, EnsurePolicy,
                          SavePolicy, Abort

\* The transactions implement ActiveClassifier: readers see one enabled classifier,
\* the policy's, switched in one step and never taken away.
THEOREM ActivationSwitches == Spec => SwitchedAtOnce
<1>1. Init => Promise!Init
  BY DEF Init, Promise!Init
<1>2. AInv /\ [Next]_vars => [\E c \in Classifier : Promise!Switch(c)]_<<enabled, policy.active>>
  BY StepKeepsPromise
<1> QED
  BY <1>1, <1>2, ActivationInductive, PTL DEF Spec, SwitchedAtOnce, Promise!Spec

(***************************************************************************)
(* No circle of waiting transactions                                       *)
(***************************************************************************)
\* How far a transaction is from one that waits for nobody.
Depth(t) ==
    CASE t.pc \in {"idle", "save", "commit"} -> 0
      [] t.pc = "clear"                     -> 1
      [] t.pc = "row"                       -> IF t.kind \in {"add", "rename"} THEN 3 ELSE 1
      [] t.pc = "policy"                    -> 2
      [] OTHER                              -> 3

\* Each lock is asked for by transactions farther away than any that holds it.
LEMMA WaitsForNearer ==
    ASSUME AInv, NEW o \in Request, NEW q \in Request, q \in WaitsFor(o)
    PROVE  Depth(tx[q]) < Depth(tx[o])
<1>1. /\ tx[o] \in Tx /\ tx[q] \in Tx /\ Ledger(tx[o]) /\ Ledger(tx[q])
      /\ q # o => tx[o].locks \cap tx[q].locks = {}
      /\ enabled \subseteq rows
  BY DEF AInv, TypeOK, Exclusive
<1>2. CASE tx[o].pc = "lock"
  <2>1. "activation" \in tx[q].locks
    BY <1>2 DEF WaitsFor, Holders
  <2>2. tx[q].pc # "lock" /\ tx[q].kind \notin {"add", "rename"}
    BY <1>1, <2>1 DEF Ledger, Activates, Switches
  <2>3. Depth(tx[q]) \in 0 .. 2
    BY <1>1, <2>2 DEF Depth, Tx
  <2> QED
    BY <1>2, <2>3 DEF Depth
<1>3. CASE tx[o].pc = "clear"
  <2>1. q # o /\ Locked(q) \cap enabled # {}
    BY <1>3 DEF WaitsFor, Others
  <2>2. "activation" \in tx[o].locks
    BY <1>1, <1>3, Kinds DEF Ledger, Stages, Activates, Switches, Tx
  <2>3. tx[q].kind \notin Activates \/ tx[q].pc = "lock"
    BY <1>1, <2>1, <2>2 DEF Ledger
  <2>4. tx[q].wrote
    BY <1>1, <2>1, <2>3 DEF Ledger, Locked, Activates
  <2>5. tx[q].pc = "commit"
    BY <1>1, <2>3, <2>4 DEF Ledger, HasWritten, Activates, Switches, Storing
  <2> QED
    BY <1>3, <2>5 DEF Depth
<1>4. CASE tx[o].pc = "row" /\ tx[o].kind \in Activates
  <2>1. q # o
    BY <1>4 DEF WaitsFor, Others
  <2>2. "activation" \in tx[o].locks
    BY <1>1, <1>4 DEF Ledger
  <2>3. tx[q].kind \notin Activates \/ tx[q].pc = "lock"
    BY <1>1, <2>1, <2>2 DEF Ledger
  <2>4. tx[q].clears = {}
    BY <1>1, <2>3 DEF Ledger, Activates
  <2>5. tx[q].wrote
    BY <1>4, <2>4 DEF WaitsFor, Locked, Enabling
  <2>6. tx[q].pc = "commit"
    BY <1>1, <2>3, <2>5 DEF Ledger, HasWritten, Activates, Switches, Storing
  <2>7. tx[o].kind \notin {"add", "rename"}
    BY <1>4 DEF Activates, Switches
  <2> QED
    BY <1>4, <2>6, <2>7 DEF Depth
<1>5. CASE tx[o].pc = "row" /\ tx[o].kind \notin Activates
  <2>1. tx[o].kind \in {"add", "rename"}
    BY <1>1, <1>5, Kinds DEF Ledger, Stages, Activates, Switches, Tx
  <2>2. tx[q].wrote \/ tx[q].clears # {}
    BY <1>5 DEF WaitsFor, Locked, Enabling
  <2>3. /\ tx[q].pc # "lock"
        /\ tx[q].pc = "row" => tx[q].kind \notin {"add", "rename"}
    BY <1>1, <2>2 DEF Ledger, HasWritten, Storing, Switches
  <2>4. Depth(tx[q]) \in 0 .. 2
    BY <1>1, <2>3 DEF Depth, Tx
  <2> QED
    BY <1>5, <2>1, <2>4 DEF Depth
<1>6. CASE tx[o].pc = "policy"
  <2>1. HasPolicy(tx[q])
    BY <1>1, <1>6 DEF WaitsFor, Holders, Ledger
  <2>2. Depth(tx[q]) \in 0 .. 1
    BY <2>1 DEF HasPolicy, Depth, Storing
  <2> QED
    BY <1>6, <2>2 DEF Depth
<1>7. CASE tx[o].pc \in {"idle", "save", "commit"}
  BY <1>7 DEF WaitsFor
<1> QED
  BY <1>1, <1>2, <1>3, <1>4, <1>5, <1>6, <1>7 DEF Tx

\* The order of the locks, from the invariant: no set of requests all wait within it.
LEMMA AInvNoCycle == AInv => NoWaitCycle
<1> SUFFICES ASSUME AInv, NEW S \in SUBSET Request, S # {}
             PROVE  \E o \in S : WaitsFor(o) \cap S = {}
  BY DEF NoWaitCycle
<1>1. \A o \in S : Depth(tx[o]) \in 0 .. 3
  <2>1. \A o \in S : tx[o] \in Tx
    BY DEF AInv, TypeOK
  <2>2. ASSUME NEW t \in Tx PROVE Depth(t) \in 0 .. 3
    BY DEF Depth, Tx
  <2> QED
    BY <2>1, <2>2
<1>2. PICK o \in S : \A q \in S : Depth(tx[o]) <= Depth(tx[q])
  <2>1. CASE \E o \in S : Depth(tx[o]) = 0
    BY <1>1, <2>1
  <2>2. CASE (\A o \in S : Depth(tx[o]) # 0) /\ \E o \in S : Depth(tx[o]) = 1
    BY <1>1, <2>2
  <2>3. CASE (\A o \in S : Depth(tx[o]) \notin {0, 1}) /\ \E o \in S : Depth(tx[o]) = 2
    BY <1>1, <2>3
  <2>4. CASE \A o \in S : Depth(tx[o]) \notin {0, 1, 2}
    BY <1>1, <2>4
  <2> QED
    BY <2>1, <2>2, <2>3, <2>4
<1>3. \A q \in WaitsFor(o) \cap S : FALSE
  BY <1>1, <1>2, WaitsForNearer
<1> QED
  BY <1>3

\* Any number of requests, holding and asking for locks in any order their
\* statements allow, never wait for each other in a circle.
THEOREM ActivationNeverDeadlocks == Spec => []NoWaitCycle
  BY ActivationInductive, AInvNoCycle, PTL
=============================================================================
