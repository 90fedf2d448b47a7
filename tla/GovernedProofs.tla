--------------------------- MODULE GovernedProofs ---------------------------
(***************************************************************************)
(* Proofs about GovernedExecution: governed effects, for any number of     *)
(* items, workers and claims, any assignment of claims to leases and of    *)
(* keys to claims, and any interleaving of queue, ledger, crashes and      *)
(* reconciliations.                                                        *)
(***************************************************************************)
EXTENDS GovernedExecution, RuntimeQueueProofs

(* What the queue's row says of the ledger: a bound claim is durable,      *)
(* binds the one attempt the item ever gets, and a bound receipt is that   *)
(* claim's completed one.  A ledgered item is not read-only, so it never   *)
(* goes back to the queue and its fence stays.                             *)
RowRestsOnLedger(i) ==
    /\ item[i].ledgered => i \notin ReadOnly
    /\ item[i].claim # None =>
         /\ item[i].ledgered
         /\ item[i].claim \in claimed
         /\ LeaseOf[item[i].claim].item = i
         /\ LeaseOf[item[i].claim].fence = item[i].fence
         /\ item[i].status \notin {"absent", "queued"}
    /\ item[i].receipt # None =>
         /\ item[i].claim # None
         /\ item[i].receipt = <<item[i].claim, "completed">>
         /\ outcome[item[i].claim] = "completed"
    /\ item[i].status = "completed" => item[i].result = item[i].fence

(* What the ledger says of the worker: a receipt and a run need a claim, a *)
(* completed receipt needs a run, and no completed receipt is reconciled.  *)
LedgerRestsOnRuns(c) ==
    /\ outcome[c] # "none" => c \in claimed
    /\ c \in reconciled => outcome[c] \in Ledger!Reconcilable
    /\ outcome[c] = "completed" => ran[c] > 0
    /\ "ran" \in knows[c] => ran[c] > 0
    /\ ran[c] > 0 => c \in claimed

(* What the worker remembers is still so: the answer execution_allowed is  *)
(* given once and used up by the run, and the answer                       *)
(* handler_execution_allowed is of the claim that is bound for good.       *)
AnswersAreUsedOnce(c) ==
    /\ "execution_allowed" \in knows[c] => c \in claimed /\ ran[c] = 0
    /\ ran[c] <= 1
    /\ "handler_execution_allowed" \in knows[c] \/ ran[c] > 0 => item[LeaseOf[c].item].claim = c

GInv ==
    /\ Ledger!LedgerTypeOK
    /\ knows \in [Claims -> SUBSET {"execution_allowed", "handler_execution_allowed", "ran"}]
    /\ ran \in [Claims -> Nat]
    /\ \A i \in Items : RowRestsOnLedger(i)
    /\ \A c \in Claims : LedgerRestsOnRuns(c) /\ AnswersAreUsedOnce(c)

-----------------------------------------------------------------------------
(* The queue, used this way, is still the queue.                           *)

LEMMA QueueReceipt ==
    ASSUME NEW c \in Claims, outcome[c] = "completed"
    PROVE  /\ ReceiptOf(c) = <<c, "completed">>
           /\ ReceiptOf(c) \in Receipts
           /\ ReceiptOf(c) # None
  BY ReceiptsAssumption, NoneAssumption DEF ReceiptOf

LEMMA QueueStepIsNext == QueueStep => Next
  BY DEF QueueStep, Next

LEMMA BindClaimIsNext ==
    ASSUME NEW e \in Presented, NEW c \in Claims, BindClaim(e, c)
    PROVE  Next
  BY DEF BindClaim, Next

LEMMA BindReceiptIsNext ==
    ASSUME NEW e \in Presented, NEW c \in Claims, BindReceipt(e, c)
    PROVE  Next
  BY QueueReceipt DEF BindReceipt, ReceiptIsCompleted, Next

(* The worker, its crashes and the operator leave the queue alone.         *)
WorkerStep ==
    \/ \E c \in Claims :
          \/ ClaimEffect(c)
          \/ RunHandler(c)
          \/ \E result \in Ledger!Outcome : ReportEffect(c, result)
          \/ ReconcileEffect(c)
    \/ \E w \in Workers : Crash(w)

LEMMA WorkerLeavesTheQueue == WorkerStep => UNCHANGED vars
  BY DEF WorkerStep, ClaimEffect, RunHandler, ReportEffect, ReconcileEffect, Crash

LEMMA StepIsQueueStep == [NextGoverned]_governedVars => [Next]_vars
  BY QueueStepIsNext, BindClaimIsNext, BindReceiptIsNext, WorkerLeavesTheQueue
     DEF NextGoverned, WorkerStep, governedVars

(* Every behaviour of the governed system is one of the queue, so what     *)
(* RuntimeQueueProofs shows of the queue holds in it.                      *)
THEOREM GovernedIsAQueue == SpecGoverned => Spec
  <1>1. InitGoverned => Init
    BY DEF InitGoverned
  <1>2. QED
    BY <1>1, StepIsQueueStep, PTL DEF SpecGoverned, Spec

-----------------------------------------------------------------------------
(* Rows of the queue.                                                      *)

(* Nothing of the ledger that a row may rest on is taken back.             *)
LEMMA LedgerGrows ==
    ASSUME GInv, [NextGoverned]_governedVars
    PROVE  /\ claimed \subseteq claimed'
           /\ \A c \in Claims : outcome[c] = "completed" => outcome'[c] = "completed"
  <1>1. outcome \in [Claims -> Ledger!Outcome \cup {"none"}]
    BY DEF GInv, Ledger!LedgerTypeOK
  <1>2. ASSUME NEW c \in Claims, ClaimEffect(c)
        PROVE  claimed \subseteq claimed' /\ outcome' = outcome
    BY <1>2 DEF ClaimEffect, Ledger!RecordClaim
  <1>3. ASSUME NEW c \in Claims, NEW result \in Ledger!Outcome, ReportEffect(c, result)
        PROVE  /\ claimed' = claimed
               /\ \A d \in Claims : outcome[d] = "completed" => outcome'[d] = "completed"
    BY <1>1, <1>3 DEF ReportEffect, Ledger!RecordReceipt
  <1>4. QED
    BY <1>2, <1>3 DEF NextGoverned, governedVars, RunHandler, ReconcileEffect, Crash,
       Ledger!RecordReconciliation, BindClaim, BindReceipt, QueueStep

(* A row that is as it was rests on the ledger as it did.                  *)
LEMMA SameRow ==
    ASSUME GInv, TypeOK, [NextGoverned]_governedVars, NEW i \in Items, item'[i] = item[i]
    PROVE  RowRestsOnLedger(i)'
  <1>1. RowRestsOnLedger(i) /\ item[i].claim \in Claims \cup {None}
    BY DEF GInv, TypeOK, Item
  <1>2. QED
    BY <1>1, LedgerGrows DEF RowRestsOnLedger

(* Leases dropped: an item that leaves "leased" keeps its binding, and a   *)
(* ledgered one does not go back to the queue.                             *)
LEMMA ReleasedRow ==
    ASSUME GInv, TypeOK, [NextGoverned]_governedVars, NEW gone, Releases(gone),
           NEW i \in Items, KeepsBinding(i), item'[i].ledgered = item[i].ledgered,
           item'[i].status = "completed" => item'[i].result = item'[i].fence
    PROVE  RowRestsOnLedger(i)'
  <1>1. RowRestsOnLedger(i) /\ item[i].claim \in Claims \cup {None}
    BY DEF GInv, TypeOK, Item
  <1>2. CASE \E l \in gone : l.item = i
    <2>1. /\ item'[i].status \in Terminal \cup {"queued"}
          /\ item'[i].status = "queued" => i \in ReadOnly
          /\ item'[i].fence = item[i].fence
      BY <1>2 DEF Releases
    <2>2. QED
      BY <1>1, <2>1, LedgerGrows DEF RowRestsOnLedger, KeepsBinding, Terminal
  <1>3. CASE ~ \E l \in gone : l.item = i
    BY <1>3, SameRow DEF Releases
  <1>4. QED
    BY <1>2, <1>3

(* No step of the system takes a row off the ledger.                       *)
LEMMA RowsStayOnLedger ==
    ASSUME GInv, IInv, [NextGoverned]_governedVars, NEW i \in Items
    PROVE  RowRestsOnLedger(i)'
  <1>1. /\ TypeOK /\ item \in [Items -> Item] /\ item[i] \in Item
        /\ RowRestsOnLedger(i)
        /\ item[i].claim \in Claims \cup {None}
    BY DEF IInv, TypeOK, GInv, Item
  <1>2. CASE WorkerStep \/ UNCHANGED governedVars
    BY <1>1, <1>2, SameRow, WorkerLeavesTheQueue DEF vars, governedVars
  <1>3. ASSUME NEW e \in Presented, NEW c \in Claims, BindClaim(e, c)
        PROVE  RowRestsOnLedger(i)'
    <2>1. e.item \in Items
      BY DEF Presented
    <2>2. CASE i # e.item
      BY <1>1, <1>3, <2>1, <2>2, SameRow DEF BindClaim, BindEffectClaim
    <2>3. CASE i = e.item
      <3>1. /\ item'[i] = [item[i] EXCEPT !.claim = c]
            /\ item[i].status = "leased"
            /\ item[i].ledgered
            /\ item[i].claim \in {None, c}
            /\ c \in claimed /\ LeaseOf[c] = e
        BY <1>1, <1>3, <2>3 DEF BindClaim, BindEffectClaim, ClaimIsDurable
      <3>2. PICK l \in Held(e) : TRUE
        BY <1>3 DEF BindClaim, BindEffectClaim
      <3>3. e.fence = item[i].fence
        BY <1>1, <2>3, <3>2, HeldIs DEF IInv, TablesAgree, LeaseMatchesItem
      <3>4. QED
        BY <1>1, <2>3, <3>1, <3>3, LedgerGrows, NoneAssumption DEF RowRestsOnLedger, Item
    <2>4. QED
      BY <2>2, <2>3
  <1>4. ASSUME NEW e \in Presented, NEW c \in Claims, BindReceipt(e, c)
        PROVE  RowRestsOnLedger(i)'
    <2>1. e.item \in Items
      BY DEF Presented
    <2>2. CASE i # e.item
      BY <1>1, <1>4, <2>1, <2>2, SameRow DEF BindReceipt, BindEffectReceipt
    <2>3. CASE i = e.item
      <3>1. /\ item'[i] = [item[i] EXCEPT !.receipt = ReceiptOf(c)]
            /\ item[i].claim = c
            /\ outcome[c] = "completed"
        BY <1>1, <1>4, <2>3 DEF BindReceipt, BindEffectReceipt, ReceiptIsCompleted
      <3>2. ReceiptOf(c) = <<c, "completed">> /\ c # None
        BY <3>1, QueueReceipt, NoneAssumption
      <3>3. QED
        BY <1>1, <3>1, <3>2, LedgerGrows DEF RowRestsOnLedger, Item
    <2>4. QED
      BY <2>2, <2>3
  <1>5. CASE QueueStep
    <2>1. ASSUME NEW j \in Items, NEW gated \in BOOLEAN, Enqueue(j, gated)
          PROVE  RowRestsOnLedger(i)'
      <3>1. CASE i # j
        BY <1>1, <2>1, <3>1, SameRow DEF Enqueue
      <3>2. CASE i = j
        BY <1>1, <2>1, <3>2 DEF Enqueue, Row, RowRestsOnLedger
      <3>3. QED
        BY <3>1, <3>2
    <2>2. ASSUME NEW w \in Workers, NEW j \in Items, NEW s \in LeaseSeconds, Claim(w, j, s)
          PROVE  RowRestsOnLedger(i)'
      <3>1. CASE i # j
        BY <1>1, <2>2, <3>1, SameRow DEF Claim
      <3>2. CASE i = j
        <4>1. /\ item'[i].status = "leased"
              /\ item'[i].claim = item[i].claim
              /\ item'[i].receipt = item[i].receipt
              /\ item'[i].ledgered = item[i].ledgered
          BY <1>1, <2>2, <3>2 DEF Claim, Item
        <4>2. item[i].claim = None
          BY <1>1, <2>2, <3>2 DEF Claim, Claimable, RowRestsOnLedger
        <4>3. QED
          BY <1>1, <4>1, <4>2 DEF RowRestsOnLedger
      <3>3. QED
        BY <3>1, <3>2
    <2>3. ASSUME NEW e \in Presented, Complete(e)
          PROVE  RowRestsOnLedger(i)'
      <3>1. e.item \in Items
        BY DEF Presented
      <3>2. CASE i # e.item
        BY <1>1, <2>3, <3>1, <3>2, SameRow DEF Complete
      <3>3. CASE i = e.item
        <4>1. PICK l \in Held(e) : TRUE
          BY <2>3 DEF Complete
        <4>2. e.fence = item[i].fence
          BY <1>1, <3>3, <4>1, HeldIs DEF IInv, TablesAgree, LeaseMatchesItem
        <4>3. /\ KeepsBinding(i)
              /\ item'[i].ledgered = item[i].ledgered
              /\ item'[i].result = e.fence /\ item'[i].fence = item[i].fence
          BY <1>1, <2>3, <3>3 DEF Complete, Item, KeepsBinding
        <4>4. QED
          BY <1>1, <2>3, <4>2, <4>3, CompleteReleases, ReleasedRow
      <3>4. QED
        BY <3>2, <3>3
    <2>4. ASSUME NEW e \in Presented, NEW safe \in BOOLEAN, Fail(e, safe)
          PROVE  RowRestsOnLedger(i)'
      <3>1. e.item \in Items
        BY DEF Presented
      <3>2. CASE i # e.item
        BY <1>1, <2>4, <3>1, <3>2, SameRow DEF Fail
      <3>3. CASE i = e.item
        <4>1. /\ KeepsBinding(i)
              /\ item'[i].ledgered = item[i].ledgered
              /\ item'[i].status # "completed"
          BY <1>1, <2>4, <3>3, AfterLossIs DEF Fail, Item, KeepsBinding
        <4>2. QED
          BY <1>1, <2>4, <4>1, FailReleases, ReleasedRow
      <3>4. QED
        BY <3>2, <3>3
    <2>5. CASE Recover
      <3>1. /\ KeepsBinding(i)
            /\ item'[i].ledgered = item[i].ledgered
        BY <1>1, <2>5, RecoveredRow
      <3>2. item'[i].status = "completed" => item'[i] = item[i]
        BY <1>1, <2>5, AfterLossIs DEF Recover, Item
      <3>3. CASE item'[i] = item[i]
        BY <1>1, <3>3, SameRow
      <3>4. CASE item'[i] # item[i]
        BY <1>1, <2>5, <3>1, <3>2, <3>4, RecoverReleases, ReleasedRow
      <3>5. QED
        BY <3>3, <3>4
    <2>6. CASE item' = item
      BY <1>1, <2>6, SameRow
    <2>7. QED
      BY <1>5, <2>1, <2>2, <2>3, <2>4, <2>5, <2>6 DEF QueueStep, Heartbeat, Tick
  <1>6. QED
    BY <1>2, <1>3, <1>4, <1>5 DEF NextGoverned, WorkerStep

-----------------------------------------------------------------------------
(* Claims and the workers that made them.                                  *)

(* A bound claim stays bound.                                              *)
LEMMA BoundStaysBound ==
    ASSUME GInv, IInv, [NextGoverned]_governedVars,
           [\A i \in Items :
               /\ item[i].claim # None => item'[i].claim = item[i].claim
               /\ item[i].receipt # None => item'[i].receipt = item[i].receipt]_vars,
           NEW c \in Claims, item[LeaseOf[c].item].claim = c
    PROVE  item'[LeaseOf[c].item].claim = c
  BY LeaseOfAssumption, NoneAssumption DEF vars, Evidence

LEMMA ClaimsStayOnLedger ==
    ASSUME GInv, TypeOK, [NextGoverned]_governedVars, NEW c \in Claims,
           item[LeaseOf[c].item].claim = c => item'[LeaseOf[c].item].claim = c
    PROVE  LedgerRestsOnRuns(c)' /\ AnswersAreUsedOnce(c)'
  <1>1. /\ LedgerRestsOnRuns(c) /\ AnswersAreUsedOnce(c)
        /\ outcome \in [Claims -> Ledger!Outcome \cup {"none"}]
        /\ knows \in [Claims -> SUBSET {"execution_allowed", "handler_execution_allowed", "ran"}]
        /\ ran \in [Claims -> Nat]
    BY DEF GInv, Ledger!LedgerTypeOK
  <1> USE DEF LedgerRestsOnRuns, AnswersAreUsedOnce
  <1>2. ASSUME NEW d \in Claims, ClaimEffect(d)
        PROVE  LedgerRestsOnRuns(c)' /\ AnswersAreUsedOnce(c)'
    <2>1. /\ item' = item /\ outcome' = outcome /\ reconciled' = reconciled /\ ran' = ran
          /\ claimed' = claimed \cup {d}
      BY <1>2 DEF ClaimEffect, Ledger!RecordClaim, vars
    <2>2. CASE c # d
      <3>1. knows'[c] = knows[c]
        BY <1>1, <1>2, <2>2 DEF ClaimEffect
      <3>2. QED
        BY <1>1, <2>1, <3>1
    <2>3. CASE c = d
      <3>1. knows'[c] \subseteq knows[c] \cup {"execution_allowed"}
        BY <1>1, <1>2, <2>3 DEF ClaimEffect
      <3>2. c \in claimed => knows'[c] = knows[c]
        BY <1>1, <1>2, <2>3 DEF ClaimEffect, Ledger!ExecutionAllowed
      <3>3. "ran" \notin {"execution_allowed"} /\ "handler_execution_allowed" \notin {"execution_allowed"}
        OBVIOUS
      <3>4. QED
        BY <1>1, <2>1, <2>3, <3>1, <3>2, <3>3
    <2>4. QED
      BY <2>2, <2>3
  <1>3. ASSUME NEW d \in Claims, RunHandler(d)
        PROVE  LedgerRestsOnRuns(c)' /\ AnswersAreUsedOnce(c)'
    <2>1. /\ item' = item /\ outcome' = outcome /\ reconciled' = reconciled
          /\ claimed' = claimed
      BY <1>3 DEF RunHandler, vars
    <2>2. CASE c # d
      <3>1. knows'[c] = knows[c] /\ ran'[c] = ran[c]
        BY <1>1, <1>3, <2>2 DEF RunHandler
      <3>2. QED
        BY <1>1, <2>1, <3>1
    <2>3. CASE c = d
      <3>1. /\ "execution_allowed" \in knows[c] /\ "handler_execution_allowed" \in knows[c]
            /\ knows'[c] = {"ran"}
            /\ ran'[c] = ran[c] + 1
        BY <1>1, <1>3, <2>3 DEF RunHandler
      <3>2. "execution_allowed" \notin knows'[c] /\ "handler_execution_allowed" \notin knows'[c]
        BY <3>1
      <3>3. ran'[c] = 1
        BY <1>1, <3>1
      <3>4. QED
        BY <1>1, <2>1, <3>1, <3>2, <3>3
    <2>4. QED
      BY <2>2, <2>3
  <1>4. ASSUME NEW d \in Claims, NEW result \in Ledger!Outcome, ReportEffect(d, result)
        PROVE  LedgerRestsOnRuns(c)' /\ AnswersAreUsedOnce(c)'
    BY <1>1, <1>4 DEF ReportEffect, Ledger!RecordReceipt, Ledger!Outcome, vars
  <1>5. ASSUME NEW d \in Claims, ReconcileEffect(d)
        PROVE  LedgerRestsOnRuns(c)' /\ AnswersAreUsedOnce(c)'
    BY <1>1, <1>5 DEF ReconcileEffect, Ledger!RecordReconciliation, vars
  <1>6. ASSUME NEW w \in Workers, Crash(w)
        PROVE  LedgerRestsOnRuns(c)' /\ AnswersAreUsedOnce(c)'
    BY <1>1, <1>6 DEF Crash, vars
  <1>7. ASSUME NEW e \in Presented, NEW d \in Claims, BindClaim(e, d)
        PROVE  LedgerRestsOnRuns(c)' /\ AnswersAreUsedOnce(c)'
    <2>1. /\ outcome' = outcome /\ reconciled' = reconciled
          /\ claimed' = claimed /\ ran' = ran
      BY <1>7 DEF BindClaim
    <2>2. CASE c # d
      <3>1. knows'[c] = knows[c]
        BY <1>1, <1>7, <2>2 DEF BindClaim
      <3>2. QED
        BY <1>1, <2>1, <3>1
    <2>3. CASE c = d
      <3>1. knows'[c] = knows[c] \cup {"handler_execution_allowed"}
        BY <1>1, <1>7, <2>3 DEF BindClaim
      <3>2. /\ "execution_allowed" \in knows'[c] => "execution_allowed" \in knows[c]
            /\ "ran" \in knows'[c] => "ran" \in knows[c]
        BY <3>1
      <3>3. item'[LeaseOf[c].item].claim = c
        <4>1. e = LeaseOf[c] /\ e.item \in Items
          BY <1>7, <2>3 DEF BindClaim, ClaimIsDurable, Presented
        <4>2. item' = [item EXCEPT ![e.item].claim = c]
          BY <1>7, <2>3 DEF BindClaim, BindEffectClaim
        <4>3. item[e.item] \in Item /\ item'[e.item] = [item[e.item] EXCEPT !.claim = c]
          BY <4>1, <4>2 DEF TypeOK
        <4>4. QED
          BY <4>1, <4>3 DEF Item
      <3>4. QED
        BY <1>1, <2>1, <3>2, <3>3
    <2>4. QED
      BY <2>2, <2>3
  <1>8. CASE UNCHANGED <<claimed, outcome, reconciled, knows, ran>>
    BY <1>1, <1>8
  <1>9. QED
    BY <1>2, <1>3, <1>4, <1>5, <1>6, <1>7, <1>8
       DEF NextGoverned, BindReceipt, QueueStep, governedVars
-----------------------------------------------------------------------------
(* The invariant, and what it is for.                                      *)

LEMMA TypesStay ==
    ASSUME GInv, [NextGoverned]_governedVars
    PROVE  /\ Ledger!LedgerTypeOK'
           /\ knows' \in [Claims -> SUBSET {"execution_allowed", "handler_execution_allowed", "ran"}]
           /\ ran' \in [Claims -> Nat]
  <1>1. /\ claimed \subseteq Claims
        /\ outcome \in [Claims -> Ledger!Outcome \cup {"none"}]
        /\ reconciled \subseteq Claims
        /\ knows \in [Claims -> SUBSET {"execution_allowed", "handler_execution_allowed", "ran"}]
        /\ ran \in [Claims -> Nat]
    BY DEF GInv, Ledger!LedgerTypeOK
  <1>2. claimed' \subseteq Claims /\ reconciled' \subseteq Claims
    BY <1>1 DEF NextGoverned, governedVars, ClaimEffect, Ledger!RecordClaim, RunHandler,
       ReportEffect, Ledger!RecordReceipt, ReconcileEffect, Ledger!RecordReconciliation, Crash,
       BindClaim, BindReceipt, QueueStep
  <1>3. outcome' \in [Claims -> Ledger!Outcome \cup {"none"}]
    BY <1>1 DEF NextGoverned, governedVars, ClaimEffect, Ledger!RecordClaim, RunHandler,
       ReportEffect, Ledger!RecordReceipt, ReconcileEffect, Ledger!RecordReconciliation, Crash,
       BindClaim, BindReceipt, QueueStep
  <1>4. ran' \in [Claims -> Nat]
    BY <1>1 DEF NextGoverned, governedVars, ClaimEffect, RunHandler, ReportEffect,
       ReconcileEffect, Crash, BindClaim, BindReceipt, QueueStep
  <1>5. knows' \in [Claims -> SUBSET {"execution_allowed", "handler_execution_allowed", "ran"}]
    BY <1>1 DEF NextGoverned, governedVars, ClaimEffect, RunHandler, ReportEffect,
       ReconcileEffect, Crash, BindClaim, BindReceipt, QueueStep
  <1>6. QED
    BY <1>2, <1>3, <1>4, <1>5 DEF Ledger!LedgerTypeOK

LEMMA InitGInv == InitGoverned => GInv
  <1> SUFFICES ASSUME InitGoverned
               PROVE  GInv
    OBVIOUS
  <1>1. \A i \in Items : item[i] = Row("absent", FALSE)
    <2>1. schema # 1
      BY DEF InitGoverned
    <2>2. item = [i \in Items |-> Row("absent", FALSE)]
      BY <2>1 DEF InitGoverned, Init
    <2>3. QED
      BY <2>2
  <1>2. \A i \in Items : RowRestsOnLedger(i)
    BY <1>1 DEF Row, RowRestsOnLedger
  <1>3. /\ Ledger!LedgerTypeOK
        /\ knows \in [Claims -> SUBSET {"execution_allowed", "handler_execution_allowed", "ran"}]
        /\ ran \in [Claims -> Nat]
    BY DEF InitGoverned, Ledger!LedgerInit, Ledger!LedgerTypeOK
  <1>4. \A c \in Claims : LedgerRestsOnRuns(c) /\ AnswersAreUsedOnce(c)
    BY DEF InitGoverned, Ledger!LedgerInit, LedgerRestsOnRuns, AnswersAreUsedOnce
  <1>5. QED
    BY <1>2, <1>3, <1>4 DEF GInv

Bindings ==
    \A i \in Items :
        /\ item[i].claim # None => item'[i].claim = item[i].claim
        /\ item[i].receipt # None => item'[i].receipt = item[i].receipt

LEMMA NextGInv == GInv /\ IInv /\ [NextGoverned]_governedVars /\ [Bindings]_vars => GInv'
  <1> SUFFICES ASSUME GInv, IInv, [NextGoverned]_governedVars, [Bindings]_vars
               PROVE  GInv'
    OBVIOUS
  <1>1. \A i \in Items : RowRestsOnLedger(i)'
    BY RowsStayOnLedger
  <1>2. ASSUME NEW c \in Claims
        PROVE  LedgerRestsOnRuns(c)' /\ AnswersAreUsedOnce(c)'
    BY BoundStaysBound, ClaimsStayOnLedger DEF IInv, Bindings
  <1>3. QED
    BY <1>1, <1>2, TypesStay DEF GInv

(* Rows rest on the ledger, the ledger on the runs, and what a worker      *)
(* remembers is used once: the inductive invariant of the governed system. *)
THEOREM GovernedInvariant == SpecGoverned => [](GInv /\ IInv)
  <1>1. Spec => [][Bindings]_vars
    BY BindingsAreFinal DEF BindingIsFinal, Bindings
  <1>2. QED
    BY <1>1, GovernedIsAQueue, InductiveInvariant, InitGInv, NextGInv, PTL DEF SpecGoverned

(* The type invariant.                                                     *)
THEOREM GovernedTypeCorrect == SpecGoverned => []GovernedTypeOK
  <1>1. GInv /\ IInv => GovernedTypeOK
    <2> SUFFICES ASSUME GInv, IInv
                 PROVE  GovernedTypeOK
      OBVIOUS
    <2>1. ran \in [Claims -> 0 .. MaxRuns]
      BY DEF GInv, AnswersAreUsedOnce, MaxRuns
    <2>2. QED
      BY <2>1 DEF GInv, IInv, GovernedTypeOK
  <1>2. QED
    BY <1>1, GovernedInvariant, PTL

(* A completed ledger-required item rests on a durable claim for the very  *)
(* lease that completed it, whose handler ran and whose receipt is         *)
(* completed (agent_runtime.py, effect_ledger.py).                         *)
THEOREM CompletionsRestOnLedger == SpecGoverned => []CompletedOnLedger
  <1>1. GInv /\ CompletionIsAccounted /\ IInv => CompletedOnLedger
    <2> SUFFICES ASSUME GInv, CompletionIsAccounted, IInv, NEW i \in Items,
                        item[i].status = "completed", item[i].ledgered
                 PROVE  LET c == item[i].claim IN
                        /\ c \in claimed
                        /\ LeaseOf[c].item = i
                        /\ LeaseOf[c].fence = item[i].result
                        /\ item[i].receipt = <<c, "completed">>
                        /\ outcome[c] = "completed"
                        /\ c \notin reconciled
                        /\ ran[c] > 0
      BY DEF CompletedOnLedger
    <2>1. item[i].claim # None /\ item[i].receipt # None /\ item[i].claim \in Claims
      BY DEF CompletionIsAccounted, IInv, TypeOK, Item
    <2>2. RowRestsOnLedger(i) /\ LedgerRestsOnRuns(item[i].claim)
      BY <2>1 DEF GInv
    <2>3. QED
      BY <2>1, <2>2 DEF RowRestsOnLedger, LedgerRestsOnRuns, Ledger!Reconcilable
  <1>2. QED
    BY <1>1, GovernedInvariant, GovernedIsAQueue, CompletionsAreAccounted, PTL

(* The handler of a governed item runs at most once, for whichever claim,  *)
(* through crashes, repeated claims and several claims for one lease.      *)
THEOREM EffectsRunOnce == SpecGoverned => []EffectRunsOnce
  <1>1. GInv => EffectRunsOnce
    BY DEF GInv, AnswersAreUsedOnce, EffectRunsOnce
  <1>2. QED
    BY <1>1, GovernedInvariant, PTL
=============================================================================
