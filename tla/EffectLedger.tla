---------------------------- MODULE EffectLedger ----------------------------
(***************************************************************************)
(* The durable effect ledger (class EffectLedgerStore): claims made before *)
(* an effect, at most one terminal receipt for each after it, and at most  *)
(* one reconciliation where the result stayed open.  Each method is one    *)
(* BEGIN IMMEDIATE transaction.  A call that repeats a stored payload is   *)
(* answered "current" and changes nothing; one that contradicts it is      *)
(* refused and is no step.                                                 *)
(*                                                                         *)
(* A claim id is the digest of its payload, so an id stands for what it    *)
(* binds.  Timed-out receipts are treated exactly as failed ones and are   *)
(* left out.                                                               *)
(***************************************************************************)
EXTENDS Naturals

CONSTANTS Claims,     \* effect claims
          KeyOf       \* the effect idempotency key of each claim

VARIABLES claimed,    \* table effect_claims
          outcome,    \* table effect_receipts: the receipt's status, or "none"
          reconciled  \* table effect_reconciliations: the claims that have one

ledgerVars == <<claimed, outcome, reconciled>>

Outcome == {"completed", "denied", "failed", "uncertain"}

LedgerTypeOK ==
    /\ claimed \subseteq Claims
    /\ outcome \in [Claims -> Outcome \cup {"none"}]
    /\ reconciled \subseteq Claims

LedgerInit ==
    /\ claimed = {}
    /\ outcome = [c \in Claims |-> "none"]
    /\ reconciled = {}

\* The answer to a repeated claim is the same as to the first one.
AlwaysAllowed(c) == TRUE

(* record_claim's answer execution_allowed: only to the call that inserts. *)
ExecutionAllowed(c) == c \notin claimed

(* record_claim: one claim for each idempotency key.                       *)
RecordClaim(c) ==
    /\ \A d \in claimed : KeyOf[d] = KeyOf[c] => d = c
    /\ claimed' = claimed \cup {c}
    /\ UNCHANGED <<outcome, reconciled>>

(* record_receipt                                                          *)
RecordReceipt(c, result) ==
    /\ c \in claimed
    /\ outcome[c] = "none"
    /\ c \notin reconciled
    /\ outcome' = [outcome EXCEPT ![c] = result]
    /\ UNCHANGED <<claimed, reconciled>>

\* Any receipt may be reconciled.
Anything == Outcome \cup {"none"}

(* The receipts parse_effect_reconciliation lets a reconciliation follow.  *)
Reconcilable == {"none", "failed", "uncertain"}

(* record_reconciliation                                                   *)
RecordReconciliation(c) ==
    /\ c \in claimed
    /\ outcome[c] \in Reconcilable
    /\ c \notin reconciled
    /\ reconciled' = reconciled \cup {c}
    /\ UNCHANGED <<claimed, outcome>>

(* recovery_required_claims                                                *)
RecoveryRequired == {c \in claimed : outcome[c] = "none" /\ c \notin reconciled}
=============================================================================
