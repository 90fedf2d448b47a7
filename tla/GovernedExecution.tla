-------------------------- MODULE GovernedExecution --------------------------
(***************************************************************************)
(* Governed effects: the runtime queue, the effect ledger, worker          *)
(* processes that may crash between any two calls, and an operator who     *)
(* reconciles open claims.                                                 *)
(*                                                                         *)
(* Queue and ledger are two databases and no transaction spans both.  The  *)
(* bind actions read the ledger while preparing.  What they require of it, *)
(* a durable claim or a completed receipt, is never taken back there, so   *)
(* it is read here in the step of the queue's transaction.                 *)
(*                                                                         *)
(* The worker is external: src/ has the two stores and their answers, not  *)
(* the program that runs a handler.  A worker runs its handler only with   *)
(* both answers, execution_allowed of the ledger and                       *)
(* handler_execution_allowed of the queue, and reports "completed" only    *)
(* after the handler ran.  What it knows is lost when its process dies.    *)
(***************************************************************************)
EXTENDS RuntimeQueue

CONSTANTS KeyOf,      \* the effect idempotency key of each claim
          LeaseOf     \* the lease each claim binds

ASSUME LeaseOfAssumption == LeaseOf \in [Claims -> Evidence]

ASSUME ReceiptsAssumption == Claims \X {"completed"} \subseteq Receipts

VARIABLES claimed, outcome, reconciled,
          knows,      \* what the worker process of each claim's lease remembers
          ran         \* history: how often the handler ran for each claim

Ledger == INSTANCE EffectLedger

governedVars == <<vars, claimed, outcome, reconciled, knows, ran>>

InitGoverned ==
    /\ Init
    /\ schema = 2
    /\ Ledger!LedgerInit
    /\ knows = [c \in Claims |-> {}]
    /\ ran = [c \in Claims |-> 0]

(* A receipt's id is the digest of its claim and outcome.                  *)
ReceiptOf(c) == <<c, outcome[c]>>

-----------------------------------------------------------------------------
(* The worker and the ledger.                                              *)

(* The claim names an attempt that was begun; the ledger does not ask      *)
(* whether its lease is still there.                                       *)
ClaimEffect(c) ==
    /\ LeaseOf[c].fence <= item[LeaseOf[c].item].fence
    /\ Ledger!RecordClaim(c)
    /\ knows' = [knows EXCEPT ![c] =
                   IF Ledger!ExecutionAllowed(c) THEN @ \cup {"execution_allowed"} ELSE @]
    /\ UNCHANGED <<vars, ran>>

(* The handler runs, once for the answers it was given.  MaxRuns bounds    *)
(* the history.                                                            *)
MaxRuns == 2

RunHandler(c) ==
    /\ {"execution_allowed", "handler_execution_allowed"} \subseteq knows[c]
    /\ ran[c] < MaxRuns
    /\ ran' = [ran EXCEPT ![c] = @ + 1]
    /\ knows' = [knows EXCEPT ![c] = {"ran"}]
    /\ UNCHANGED <<vars, claimed, outcome, reconciled>>

ReportEffect(c, result) ==
    /\ result = "completed" => "ran" \in knows[c]
    /\ Ledger!RecordReceipt(c, result)
    /\ UNCHANGED <<vars, knows, ran>>

(* The worker's process dies and starts again.                             *)
Crash(w) ==
    /\ \E c \in Claims : LeaseOf[c].owner = w /\ knows[c] # {}
    /\ knows' = [c \in Claims |-> IF LeaseOf[c].owner = w THEN {} ELSE knows[c]]
    /\ UNCHANGED <<vars, claimed, outcome, reconciled, ran>>

(* An operator decides what became of an open claim.                       *)
ReconcileEffect(c) ==
    /\ Ledger!RecordReconciliation(c)
    /\ UNCHANGED <<vars, knows, ran>>

-----------------------------------------------------------------------------
(* The queue's bind actions, with what planning reads in the ledger.       *)

(* claim_status: the claim is durable and binds the presented lease.       *)
ClaimIsDurable(e, c) == c \in claimed /\ LeaseOf[c] = e

\* Any terminal receipt will do.
ReceiptIsTerminal(e, c) == outcome[c] # "none" /\ LeaseOf[c] = e

(* claim_status: the receipt is durable and completed, under that lease.   *)
ReceiptIsCompleted(e, c) == outcome[c] = "completed" /\ LeaseOf[c] = e

BindClaim(e, c) ==
    /\ ClaimIsDurable(e, c)
    /\ BindEffectClaim(e, c)
    /\ knows' = [knows EXCEPT ![c] = @ \cup {"handler_execution_allowed"}]
    /\ UNCHANGED <<claimed, outcome, reconciled, ran>>

BindReceipt(e, c) ==
    /\ ReceiptIsCompleted(e, c)
    /\ BindEffectReceipt(e, c, ReceiptOf(c))
    /\ UNCHANGED <<claimed, outcome, reconciled, knows, ran>>

(* Every other action of the queue.                                        *)
QueueStep ==
    /\ \/ \E i \in Items, gated \in BOOLEAN : Enqueue(i, gated)
       \/ \E w \in Workers, i \in Items, s \in LeaseSeconds : Claim(w, i, s)
       \/ \E e \in Presented :
             \/ \E s \in LeaseSeconds : Heartbeat(e, s)
             \/ Complete(e)
             \/ \E safe \in BOOLEAN : Fail(e, safe)
       \/ Recover
       \/ Tick
    /\ UNCHANGED <<claimed, outcome, reconciled, knows, ran>>

NextGoverned ==
    \/ \E c \in Claims :
          \/ ClaimEffect(c)
          \/ RunHandler(c)
          \/ \E result \in Ledger!Outcome : ReportEffect(c, result)
          \/ ReconcileEffect(c)
    \/ \E w \in Workers : Crash(w)
    \/ \E e \in Presented, c \in Claims : BindClaim(e, c) \/ BindReceipt(e, c)
    \/ QueueStep

SpecGoverned == InitGoverned /\ [][NextGoverned]_governedVars

-----------------------------------------------------------------------------
(* Properties.                                                             *)

(* The type invariant.                                                     *)
GovernedTypeOK ==
    /\ TypeOK
    /\ Ledger!LedgerTypeOK
    /\ knows \in [Claims -> SUBSET {"execution_allowed", "handler_execution_allowed", "ran"}]
    /\ ran \in [Claims -> 0 .. MaxRuns]

(* A completed ledger-required item rests on a durable claim for the very  *)
(* lease that completed it, whose handler ran and whose receipt is         *)
(* completed, and that no reconciliation contradicts.                      *)
CompletedOnLedger ==
    \A i \in Items : item[i].status = "completed" /\ item[i].ledgered =>
        LET c == item[i].claim IN
        /\ c \in claimed
        /\ LeaseOf[c].item = i
        /\ LeaseOf[c].fence = item[i].result
        /\ item[i].receipt = <<c, "completed">>
        /\ outcome[c] = "completed"
        /\ c \notin reconciled
        /\ ran[c] > 0

(* The handler of a governed item runs at most once, for whichever claim:  *)
(* not again after a crash, not for a second claim under the same lease,   *)
(* not for a claim with the same key under another one.                    *)
EffectRunsOnce ==
    \A c, d \in Claims :
        /\ ran[c] <= 1
        /\ c # d /\ LeaseOf[c].item = LeaseOf[d].item => ran[c] = 0 \/ ran[d] = 0

=============================================================================
