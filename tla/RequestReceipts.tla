--------------------------- MODULE RequestReceipts ---------------------------
(***************************************************************************)
(* The single-use authorization of one explicit request: what a service    *)
(* process does with a request that carries trusted evidence instead of an *)
(* approval (KrcnApplicationService.execute with work.item.put).           *)
(*                                                                         *)
(* A pending receipt is written before the first effect and completed      *)
(* after the last one.  The request may be delivered again, to another     *)
(* thread or another process, at any time; a retry that finds the receipt  *)
(* looks at the targets of its effects to tell what happened.              *)
(*                                                                         *)
(* A target is "old" as planned, "new" as the effects leave it, or "other".*)
(* Record and event are written against their revision; projection and     *)
(* readable index, here one target, are replaced when the graph is as      *)
(* planned.  Everything is for one receipt: another plan, evidence or      *)
(* project has another identity.                                           *)
(***************************************************************************)
EXTENDS Integers, FiniteSets, Sequences

CONSTANTS Callers,    \* threads that the same request is delivered to
          ProcessOf   \* the service process of each

Targets == {"item", "event", "views"}

Order == <<"item", "event", "views">>

Authoritative == {"item", "event"}

VARIABLES
    receipt,   \* the stored receipt: "none", "pending", or the response in it
    content,   \* what is at each target
    moved,     \* other work items have changed since the request was planned
    current,   \* the evidence has not expired
    held,      \* processes that keep the authorization for the request id
    caller,    \* what each caller does
    executed        \* history: how often each effect was executed

receiptVars == <<receipt, content, moved, current, held, caller, executed>>

At(place) == [at |-> place, seen |-> {}, left |-> {}, wrote |-> 0, answer |-> "none"]

Ended == {"answered", "raised", "dead"}

ReceiptsInit ==
    /\ receipt = "none"
    /\ content = [t \in Targets |-> "old"]
    /\ moved = FALSE
    /\ current = TRUE
    /\ held = {}
    /\ caller = [c \in Callers |-> At("new")]
    /\ executed = [t \in Targets |-> 0]

-----------------------------------------------------------------------------
Goto(c, place) == caller' = [caller EXCEPT ![c] = At(place)]

Answer(c, answer) == caller' = [caller EXCEPT ![c] = [At("answered") EXCEPT !.answer = answer]]

(* _persisted_authorization_replay: what the stored receipt says.          *)
Deliver(c) ==
    /\ caller[c].at = "new"
    /\ current
    /\ \/ receipt = "none" /\ Goto(c, "plan")
       \/ /\ receipt = "pending"
          /\ caller' = [caller EXCEPT ![c].at = "observe", ![c].left = Targets]
       \/ receipt \in {"applied", "reconciled"} /\ Answer(c, receipt)
    /\ UNCHANGED <<receipt, content, moved, current, held, executed>>

(* _request_effect_observed, one target after the other                    *)
Observe(c, t) ==
    /\ caller[c].at = "observe"
    /\ t \in caller[c].left
    /\ caller' = [caller EXCEPT ![c].left = @ \ {t},
                                ![c].seen = IF content[t] = "new" THEN @ \cup {t} ELSE @]
    /\ UNCHANGED <<receipt, content, moved, current, held, executed>>

AllEffects(seen) == seen = Targets

(* Nothing happened: the unchanged request may be executed.  Something but *)
(* not everything: "recovery-required".                                    *)
Judge(c) ==
    /\ caller[c].at = "observe"
    /\ caller[c].left = {}
    /\ IF AllEffects(caller[c].seen) THEN Goto(c, "reconcile")
       ELSE IF caller[c].seen = {} THEN Goto(c, "plan")
       ELSE Answer(c, "recovery-required")
    /\ UNCHANGED <<receipt, content, moved, current, held, executed>>

(* complete_pending_receipt and the put at the revision that was listed    *)
ReconcileReceipt(c) ==
    /\ caller[c].at = "reconcile"
    /\ receipt = "pending"
    /\ receipt' = "reconciled"
    /\ Answer(c, "reconciled")
    /\ UNCHANGED <<content, moved, current, held, executed>>

(* The handler plans again and compares the exact plan id, which covers    *)
(* the graph, then authorizes.                                             *)
Plan(c) ==
    /\ caller[c].at = "plan"
    /\ \A t \in Authoritative : content[t] = "old"
    /\ ~moved
    /\ current
    /\ Goto(c, "claim")
    /\ UNCHANGED <<receipt, content, moved, current, held, executed>>

(* _claim_request_authorization: a pending receipt of the same request is  *)
(* as good as a new one.                                                   *)
ClaimAuthorization(c) ==
    /\ caller[c].at = "claim"
    /\ receipt \in {"none", "pending"}
    /\ receipt' = "pending"
    /\ held' = held \cup {ProcessOf[c]}
    /\ Goto(c, "effects")
    /\ UNCHANGED <<content, moved, current, executed>>

\* mutant: records are replaced without looking at their revision
WritableBlindly(t) == TRUE

Writable(t) == IF t \in Authoritative THEN content[t] = "old" ELSE ~moved

WriteEffect(c) ==
    LET t == Order[caller[c].wrote + 1]
    IN /\ caller[c].at = "effects"
       /\ Writable(t)
       /\ content' = [content EXCEPT ![t] = "new"]
       /\ executed' = [executed EXCEPT ![t] = @ + 1]
       /\ caller' = [caller EXCEPT ![c].wrote = @ + 1,
                                   ![c].at = IF t = "views" THEN "return" ELSE @]
       /\ UNCHANGED <<receipt, moved, current, held>>

(* execute takes back what the process keeps for the request id; without   *)
(* it the response goes out as it is.                                      *)
Return(c) ==
    /\ caller[c].at = "return"
    /\ held' = held \ {ProcessOf[c]}
    /\ IF ProcessOf[c] \in held THEN Goto(c, "persist") ELSE Answer(c, "applied")
    /\ UNCHANGED <<receipt, content, moved, current, executed>>


(* _persist_authorization_receipt                                          *)
Persist(c) ==
    /\ caller[c].at = "persist"
    /\ receipt \in {"none", "pending"}
    /\ receipt' = "applied"
    /\ Answer(c, "applied")
    /\ UNCHANGED <<content, moved, current, held, executed>>

(* Any check that fails raises; an exception of the handler also drops     *)
(* what the process keeps for the request id, whoever put it there.        *)
Raise(c) ==
    /\ caller[c].at \notin Ended
    /\ Goto(c, "raised")
    /\ held' = IF caller[c].at \in {"plan", "claim", "effects"}
               THEN held \ {ProcessOf[c]} ELSE held
    /\ UNCHANGED <<receipt, content, moved, current, executed>>

(* A process dies with its threads.                                        *)
Die(p) ==
    /\ \E c \in Callers : ProcessOf[c] = p /\ caller[c].at \notin Ended \cup {"new"}
    /\ caller' = [c \in Callers |->
                    IF ProcessOf[c] = p /\ caller[c].at \notin Ended \cup {"new"}
                    THEN At("dead") ELSE caller[c]]
    /\ held' = held \ {p}
    /\ UNCHANGED <<receipt, content, moved, current, executed>>

Expire ==
    /\ current
    /\ current' = FALSE
    /\ UNCHANGED <<receipt, content, moved, held, caller, executed>>

(* Other requests change other work items, which replaces the views, or    *)
(* the next revision of this one.                                          *)
OthersWrite ==
    /\ \/ moved' = TRUE /\ content' = [content EXCEPT !["views"] = "other"]
       \/ content' = [content EXCEPT !["item"] = "other"] /\ moved' = TRUE
    /\ <<moved, content>>' # <<moved, content>>
    /\ UNCHANGED <<receipt, current, held, caller, executed>>

ReceiptsNext ==
    \/ \E c \in Callers :
         \/ Deliver(c) \/ Judge(c) \/ ReconcileReceipt(c) \/ Plan(c) \/ ClaimAuthorization(c)
         \/ WriteEffect(c) \/ Return(c) \/ Persist(c) \/ Raise(c)
         \/ \E t \in Targets : Observe(c, t)
    \/ \E p \in {ProcessOf[c] : c \in Callers} : Die(p)
    \/ Expire
    \/ OthersWrite

ReceiptsSpec == ReceiptsInit /\ [][ReceiptsNext]_receiptVars

-----------------------------------------------------------------------------
(* Properties.                                                             *)

(* However often and wherever the request is delivered, each of its        *)
(* effects is executed at most once ("without executing effects again"),   *)
(* the authorization is claimed before the first one, and a caller that is *)
(* told the request was applied, by the call itself, by a replay or by     *)
(* reconciliation, is told the truth.                                      *)
AppliedExactlyOnce ==
    /\ \A t \in Targets : executed[t] <= 1
    /\ receipt = "none" => \A t \in Targets : executed[t] = 0
    /\ \A c \in Callers : caller[c].answer \in {"applied", "reconciled"} =>
                            \A t \in Targets : executed[t] = 1
=============================================================================
