---------------------------- MODULE ServiceProofs ----------------------------
(***************************************************************************)
(* Proofs about the components that MCServices checks side by side: an     *)
(* authorized request (RequestReceipts), a benchmark (BenchmarkRun), a     *)
(* measured loop (MeasuredLoop), the lifecycle of a skill (SkillLifecycle) *)
(* and the files of a research and the execution of its clients            *)
(* (ResearchFiles, ResearchExecution).  For each its inductive invariant   *)
(* comes first, then one lemma for each group of actions, then the         *)
(* theorems.                                                               *)
(***************************************************************************)
EXTENDS RequestReceipts, BenchmarkRun, MeasuredLoop, SkillLifecycle, ResearchFiles,
        ResearchExecution, FiniteSetTheorems, SequenceTheorems, TLAPS

-----------------------------------------------------------------------------
(* Requests (RequestReceipts).                                             *)

Processes == {ProcessOf[c] : c \in Callers}

CallerState ==
    [at : {"new", "plan", "observe", "reconcile", "claim", "effects", "return", "persist"}
            \cup Ended,
     seen : SUBSET Targets, left : SUBSET Targets, wrote : 0 .. 3,
     answer : {"none", "applied", "reconciled", "recovery-required"}]

ReceiptsTypeOK ==
    /\ receipt \in {"none", "pending", "applied", "reconciled"}
    /\ content \in [Targets -> {"old", "new", "other"}]
    /\ moved \in BOOLEAN
    /\ current \in BOOLEAN
    /\ held \in SUBSET Processes
    /\ caller \in [Callers -> CallerState]
    /\ executed \in [Targets -> Nat]

(* Executed effects leave their traces: a record or event that was written *)
(* is no longer as planned, and what is as the effects leave it was left   *)
(* so by an effect.                                                        *)
TracesAreLeft ==
    \A t \in Targets :
      /\ executed[t] <= 1
      /\ t \in Authoritative /\ content[t] = "old" => executed[t] = 0
      /\ content[t] = "new" => executed[t] = 1

Everything == \A t \in Targets : executed[t] = 1

(* The item is written first.                                              *)
ItemIsFirst == executed["item"] = 0 => executed["event"] = 0 /\ executed["views"] = 0

(* A caller in the middle of the effects is the only one who is, and what  *)
(* it still has to do has not been done.                                   *)
Halfway(c) == caller[c].at = "effects" /\ caller[c].wrote > 0

WriterIsAlone ==
    \A c \in Callers : Halfway(c) =>
      /\ caller[c].wrote \in 1 .. 2
      /\ executed["item"] = 1
      /\ executed["event"] = caller[c].wrote - 1
      /\ executed["views"] = 0
      /\ \A d \in Callers \ {c} : ~Halfway(d)

(* What a caller has seen or relies on has happened.                       *)
CallersAreRight ==
    \A c \in Callers :
      /\ \A t \in caller[c].seen : executed[t] = 1
      /\ caller[c].at = "effects" => receipt # "none"
      /\ caller[c].at \in {"return", "persist", "reconcile"} => receipt # "none" /\ Everything
      /\ caller[c].answer \in {"applied", "reconciled"} => Everything

ReceiptIsRight ==
    /\ receipt = "none" => \A t \in Targets : executed[t] = 0
    /\ receipt \in {"applied", "reconciled"} => Everything

ReceiptsInv ==
    /\ ReceiptsTypeOK
    /\ TracesAreLeft
    /\ WriterIsAlone
    /\ CallersAreRight
    /\ ReceiptIsRight
    /\ ItemIsFirst

LEMMA ReceiptsBegin == ReceiptsInit => ReceiptsInv
<1>1. At("new") \in CallerState
  BY DEF At, CallerState, Targets, Ended
<1>2. At("new").at = "new" /\ At("new").seen = {} /\ At("new").answer = "none"
  BY DEF At
<1> SUFFICES ASSUME ReceiptsInit PROVE ReceiptsInv
  OBVIOUS
<1>3. /\ \A c \in Callers : caller[c] = At("new")
      /\ \A t \in Targets : executed[t] = 0 /\ content[t] = "old"
  BY DEF ReceiptsInit
<1>4. ReceiptsTypeOK
  BY <1>1 DEF ReceiptsInit, ReceiptsTypeOK
<1>5. TracesAreLeft
  BY <1>3 DEF TracesAreLeft
<1>6. WriterIsAlone /\ CallersAreRight
  BY <1>2, <1>3 DEF WriterIsAlone, CallersAreRight, Halfway
<1>7. ReceiptIsRight
  BY <1>3 DEF ReceiptIsRight, ReceiptsInit
<1>8. ItemIsFirst
  BY <1>3 DEF ItemIsFirst, Targets
<1> QED  BY <1>4, <1>5, <1>6, <1>7, <1>8 DEF ReceiptsInv

(* Most steps execute nothing, and move one caller to a state that relies  *)
(* on nothing new.                                                         *)
LEMMA NothingExecuted ==
    ASSUME ReceiptsInv, NEW c \in Callers, NEW s \in CallerState,
           caller' = [caller EXCEPT ![c] = s],
           s.at = "effects" => s.wrote = 0 /\ receipt' # "none",
           \A t \in s.seen : executed[t] = 1,
           s.at \in {"return", "persist", "reconcile"} => receipt' # "none" /\ Everything,
           s.answer \in {"applied", "reconciled"} => Everything,
           receipt' \in {"pending", "applied", "reconciled"} \/ receipt' = receipt,
           receipt' \in {"applied", "reconciled"} => Everything,
           held' \in SUBSET Processes,
           UNCHANGED <<content, moved, current, executed>>
    PROVE  ReceiptsInv'
<1>t. /\ receipt \in {"none", "pending", "applied", "reconciled"}
      /\ caller \in [Callers -> CallerState]
      /\ executed \in [Targets -> Nat]
      /\ content \in [Targets -> {"old", "new", "other"}]
      /\ moved \in BOOLEAN /\ current \in BOOLEAN
  BY DEF ReceiptsInv, ReceiptsTypeOK
<1>c. caller'[c] = s /\ \A d \in Callers \ {c} : caller'[d] = caller[d]
  BY <1>t
<1>1. ReceiptsTypeOK'
  BY <1>t DEF ReceiptsTypeOK
<1>2. TracesAreLeft' /\ (Everything' <=> Everything)
  BY DEF ReceiptsInv, TracesAreLeft, Everything
<1>3. ~Halfway(c)' /\ \A d \in Callers \ {c} : Halfway(d)' <=> Halfway(d)
  BY <1>c DEF Halfway
<1>4. WriterIsAlone'
  BY <1>c, <1>3 DEF ReceiptsInv, WriterIsAlone
<1>5. CallersAreRight'
  <2> SUFFICES ASSUME NEW d \in Callers
               PROVE  /\ \A t \in caller'[d].seen : executed'[t] = 1
                      /\ caller'[d].at = "effects" => receipt' # "none"
                      /\ caller'[d].at \in {"return", "persist", "reconcile"} =>
                           receipt' # "none" /\ Everything'
                      /\ caller'[d].answer \in {"applied", "reconciled"} => Everything'
    BY DEF CallersAreRight
  <2>1. CASE d = c
    BY <2>1, <1>c, <1>2
  <2>2. CASE d # c
    BY <2>2, <1>c, <1>2 DEF ReceiptsInv, CallersAreRight
  <2> QED  BY <2>1, <2>2
<1>6. ReceiptIsRight'
  BY <1>2 DEF ReceiptsInv, ReceiptIsRight
<1>7. ItemIsFirst'
  BY DEF ReceiptsInv, ItemIsFirst
<1> QED  BY <1>1, <1>2, <1>4, <1>5, <1>6, <1>7 DEF ReceiptsInv

LEMMA AtIsAState ==
    ASSUME NEW place \in {"new", "plan", "observe", "reconcile", "claim", "effects", "return",
                          "persist"} \cup Ended
    PROVE  /\ At(place) \in CallerState
           /\ At(place).at = place /\ At(place).seen = {} /\ At(place).wrote = 0
           /\ At(place).answer = "none"
  BY DEF At, CallerState, Targets

LEMMA AnsweredIsAState ==
    ASSUME NEW answer \in {"none", "applied", "reconciled", "recovery-required"},
           NEW s, s = [At("answered") EXCEPT !.answer = answer]
    PROVE  s \in CallerState /\ s.at = "answered" /\ s.seen = {} /\ s.answer = answer
<1>1. s = [at |-> "answered", seen |-> {}, left |-> {}, wrote |-> 0, answer |-> answer]
  BY DEF At
<1> QED  BY <1>1 DEF CallerState, Ended

(* A caller goes to a place that relies on nothing that has not happened.  *)
LEMMA GoesTo ==
    ASSUME ReceiptsInv, NEW c \in Callers,
           NEW place \in {"new", "plan", "observe", "reconcile", "claim", "effects", "return",
                          "persist"} \cup Ended,
           Goto(c, place),
           place = "effects" => receipt' # "none",
           place \in {"return", "persist", "reconcile"} => receipt' # "none" /\ Everything,
           (receipt' = "pending" /\ receipt \in {"none", "pending"}) \/ receipt' = receipt,
           held' \in SUBSET Processes,
           UNCHANGED <<content, moved, current, executed>>
    PROVE  ReceiptsInv'
<1> DEFINE s == At(place)
<1>1. /\ s \in CallerState /\ s.at = place /\ s.seen = {} /\ s.wrote = 0
      /\ s.answer = "none"
  BY AtIsAState
<1>2. caller' = [caller EXCEPT ![c] = s]
  BY DEF Goto
<1>3. receipt' \in {"pending", "applied", "reconciled"} \/ receipt' = receipt
  OBVIOUS
<1>4. receipt' \in {"applied", "reconciled"} => Everything
  BY DEF ReceiptsInv, ReceiptIsRight
<1>5. /\ s.at = "effects" => s.wrote = 0 /\ receipt' # "none"
      /\ \A t \in s.seen : executed[t] = 1
      /\ s.at \in {"return", "persist", "reconcile"} => receipt' # "none" /\ Everything
      /\ s.answer \in {"applied", "reconciled"} => Everything
  BY <1>1
<1> HIDE DEF s
<1> QED  BY <1>1, <1>2, <1>3, <1>4, <1>5, NothingExecuted

(* A caller is answered; that the request was applied only if it was.      *)
LEMMA IsAnswered ==
    ASSUME ReceiptsInv, NEW c \in Callers,
           NEW answer \in {"none", "applied", "reconciled", "recovery-required"},
           Answer(c, answer),
           answer \in {"applied", "reconciled"} => Everything,
           (receipt' \in {"applied", "reconciled"} /\ Everything) \/ receipt' = receipt,
           held' \in SUBSET Processes,
           UNCHANGED <<content, moved, current, executed>>
    PROVE  ReceiptsInv'
<1>0. PICK s : s = [At("answered") EXCEPT !.answer = answer]
  OBVIOUS
<1>1. s \in CallerState /\ s.at = "answered" /\ s.seen = {} /\ s.answer = answer
  BY <1>0, AnsweredIsAState
<1>2. caller' = [caller EXCEPT ![c] = s]
  BY <1>0 DEF Answer
<1>3. receipt' \in {"pending", "applied", "reconciled"} \/ receipt' = receipt
  OBVIOUS
<1>4. receipt' \in {"applied", "reconciled"} => Everything
  BY DEF ReceiptsInv, ReceiptIsRight
<1>5. /\ s.at = "effects" => s.wrote = 0 /\ receipt' # "none"
      /\ \A t \in s.seen : executed[t] = 1
      /\ s.at \in {"return", "persist", "reconcile"} => receipt' # "none" /\ Everything
      /\ s.answer \in {"applied", "reconciled"} => Everything
  BY <1>1
<1> QED  BY <1>1, <1>2, <1>3, <1>4, <1>5, NothingExecuted

LEMMA RequestsGo ==
    ASSUME ReceiptsInv, NEW c \in Callers,
           \/ Judge(c) \/ ReconcileReceipt(c) \/ Plan(c) \/ ClaimAuthorization(c)
           \/ Return(c) \/ Persist(c) \/ Raise(c)
    PROVE  ReceiptsInv'
<1>t. /\ caller \in [Callers -> CallerState]
      /\ held \in SUBSET Processes /\ ProcessOf[c] \in Processes
      /\ receipt \in {"none", "pending", "applied", "reconciled"}
  BY DEF ReceiptsInv, ReceiptsTypeOK, Processes
<1>c. /\ \A t \in caller[c].seen : executed[t] = 1
      /\ caller[c].at \in {"return", "persist", "reconcile"} => receipt # "none" /\ Everything
  BY DEF ReceiptsInv, CallersAreRight
<1>1. CASE Judge(c)
  <2>0. UNCHANGED <<receipt, content, moved, current, held, executed>>
    BY <1>1 DEF Judge
  <2>n. receipt # "none" \/ caller[c].seen = {}
    BY <1>c, <1>t DEF ReceiptsInv, ReceiptIsRight, CallerState
  <2>1. CASE AllEffects(caller[c].seen) /\ Goto(c, "reconcile")
    <3>1. Everything /\ receipt # "none"
      BY <1>c, <2>1, <2>n DEF AllEffects, Everything, Targets
    <3> QED  BY <3>1, <2>0, <2>1, <1>t, GoesTo
  <2>2. CASE Goto(c, "plan")
    BY <2>0, <2>2, <1>t, GoesTo
  <2>3. CASE Answer(c, "recovery-required")
    BY <2>0, <2>3, <1>t, IsAnswered
  <2> QED  BY <1>1, <2>1, <2>2, <2>3 DEF Judge
<1>2. CASE ReconcileReceipt(c)
  <2>1. Everything
    BY <1>2, <1>c DEF ReconcileReceipt
  <2> QED  BY <1>2, <2>1, <1>t, IsAnswered DEF ReconcileReceipt
<1>3. CASE Plan(c)
  BY <1>3, <1>t, GoesTo DEF Plan
<1>4. CASE ClaimAuthorization(c)
  <2>1. held' \in SUBSET Processes
    BY <1>4, <1>t DEF ClaimAuthorization
  <2> QED  BY <1>4, <2>1, GoesTo DEF ClaimAuthorization
<1>5. CASE Return(c)
  <2>0. /\ held' \in SUBSET Processes /\ Everything /\ receipt # "none"
        /\ UNCHANGED <<receipt, content, moved, current, executed>>
    BY <1>5, <1>t, <1>c DEF Return
  <2>1. CASE Goto(c, "persist")
    BY <2>0, <2>1, GoesTo
  <2>2. CASE Answer(c, "applied")
    BY <2>0, <2>2, IsAnswered
  <2> QED  BY <1>5, <2>1, <2>2 DEF Return
<1>6. CASE Persist(c)
  <2>1. Everything
    BY <1>6, <1>c DEF Persist
  <2> QED  BY <1>6, <2>1, <1>t, IsAnswered DEF Persist
<1>7. CASE Raise(c)
  <2>1. held' \in SUBSET Processes /\ "raised" \in Ended
    BY <1>7, <1>t DEF Raise, Ended
  <2> QED  BY <1>7, <2>1, GoesTo DEF Raise
<1> QED  BY <1>1, <1>2, <1>3, <1>4, <1>5, <1>6, <1>7

LEMMA RequestDelivers ==
    ASSUME ReceiptsInv, NEW c \in Callers, Deliver(c)
    PROVE  ReceiptsInv'
<1>t. /\ caller \in [Callers -> CallerState] /\ held \in SUBSET Processes
  BY DEF ReceiptsInv, ReceiptsTypeOK
<1>0. UNCHANGED <<receipt, content, moved, current, held, executed>> /\ caller[c].at = "new"
  BY DEF Deliver
<1>1. CASE receipt = "none" /\ Goto(c, "plan")
  BY <1>0, <1>1, <1>t, GoesTo
<1>2. CASE receipt = "pending"
           /\ caller' = [caller EXCEPT ![c].at = "observe", ![c].left = Targets]
  <2>1. PICK s : s = [caller[c] EXCEPT !.at = "observe", !.left = Targets]
    OBVIOUS
  <2>2. caller[c] = [at |-> "new", seen |-> caller[c].seen, left |-> caller[c].left,
                     wrote |-> caller[c].wrote, answer |-> caller[c].answer]
    BY <1>t, <1>0 DEF CallerState
  <2>3. s = [at |-> "observe", seen |-> caller[c].seen, left |-> Targets,
             wrote |-> caller[c].wrote, answer |-> caller[c].answer]
    BY <2>1, <2>2
  <2>4. s \in CallerState /\ s.at = "observe" /\ s.seen = caller[c].seen
        /\ s.answer = caller[c].answer
    BY <2>3, <1>t DEF CallerState
  <2>5. caller' = [caller EXCEPT ![c] = s]
    BY <1>2, <2>1
  <2>6. /\ \A t \in s.seen : executed[t] = 1
        /\ s.answer \in {"applied", "reconciled"} => Everything
    BY <2>4 DEF ReceiptsInv, CallersAreRight
  <2>7. receipt' \notin {"applied", "reconciled"}
    BY <1>0, <1>2
  <2> QED  BY <2>4, <2>5, <2>6, <2>7, <1>0, <1>t, NothingExecuted
<1>3. CASE receipt \in {"applied", "reconciled"} /\ Answer(c, receipt)
  <2>1. Everything
    BY <1>3 DEF ReceiptsInv, ReceiptIsRight
  <2>2. receipt \in {"none", "applied", "reconciled", "recovery-required"}
    BY <1>3
  <2> QED  BY <2>1, <2>2, <1>0, <1>3, <1>t, IsAnswered
<1> QED  BY <1>1, <1>2, <1>3 DEF Deliver

LEMMA RequestObserves ==
    ASSUME ReceiptsInv, NEW c \in Callers, NEW t \in Targets, Observe(c, t)
    PROVE  ReceiptsInv'
<1>t. /\ caller \in [Callers -> CallerState] /\ held \in SUBSET Processes
  BY DEF ReceiptsInv, ReceiptsTypeOK
<1>0. PICK seen : seen = IF content[t] = "new" THEN caller[c].seen \cup {t} ELSE caller[c].seen
  OBVIOUS
<1>1. caller[c] = [at |-> "observe", seen |-> caller[c].seen, left |-> caller[c].left,
                   wrote |-> caller[c].wrote, answer |-> caller[c].answer]
  BY <1>t DEF CallerState, Observe
<1>a. PICK r : r = [caller[c] EXCEPT !.left = caller[c].left \ {t}]
  OBVIOUS
<1>b. r = [at |-> "observe", seen |-> caller[c].seen, left |-> caller[c].left \ {t},
           wrote |-> caller[c].wrote, answer |-> caller[c].answer]
  BY ONLY <1>a, <1>1
<1>s. PICK s : s = [r EXCEPT !.seen = seen]
  OBVIOUS
<1>2. s = [at |-> "observe", seen |-> seen, left |-> caller[c].left \ {t},
           wrote |-> caller[c].wrote, answer |-> caller[c].answer]
  BY ONLY <1>s, <1>b
<1>3. caller' = [caller EXCEPT ![c] = s]
  BY <1>0, <1>a, <1>s, <1>t DEF Observe
<1>4. s \in CallerState
  BY <1>0, <1>2, <1>t DEF CallerState
<1>5. \A u \in s.seen : executed[u] = 1
  BY <1>0, <1>2 DEF ReceiptsInv, CallersAreRight, TracesAreLeft
<1>6. /\ s.at = "observe" /\ s.answer = caller[c].answer
      /\ s.answer \in {"applied", "reconciled"} => Everything
  BY <1>2 DEF ReceiptsInv, CallersAreRight
<1>7. receipt' \in {"applied", "reconciled"} => Everything
  BY DEF Observe, ReceiptsInv, ReceiptIsRight
<1>8. UNCHANGED <<receipt, content, moved, current, held, executed>>
  BY DEF Observe
<1> QED  BY <1>3, <1>4, <1>5, <1>6, <1>7, <1>8, <1>t, NothingExecuted

(* A write of the item is the first of all; one of the event or the views  *)
(* is by the caller that is halfway.                                       *)
LEMMA RequestWrites ==
    ASSUME ReceiptsInv, NEW c \in Callers, WriteEffect(c)
    PROVE  ReceiptsInv'
<1> DEFINE t == Order[caller[c].wrote + 1]
<1>t. /\ caller \in [Callers -> CallerState] /\ executed \in [Targets -> Nat]
      /\ content \in [Targets -> {"old", "new", "other"}]
      /\ receipt \in {"none", "pending", "applied", "reconciled"}
  BY DEF ReceiptsInv, ReceiptsTypeOK
<1>0. /\ caller[c].at = "effects" /\ Writable(t)
      /\ content' = [content EXCEPT ![t] = "new"]
      /\ executed' = [executed EXCEPT ![t] = executed[t] + 1]
      /\ UNCHANGED <<receipt, moved, current, held>>
  BY <1>t DEF WriteEffect
<1>r. receipt # "none"
  BY <1>0 DEF ReceiptsInv, CallersAreRight
<1>w. /\ caller[c].wrote \in {0, 1, 2}
      /\ caller[c].wrote > 0 <=> Halfway(c)
  <2>1. caller[c].wrote \in 0 .. 3
    BY <1>t DEF CallerState
  <2>2. caller[c].wrote > 0 <=> Halfway(c)
    BY <1>0 DEF Halfway
  <2>3. Halfway(c) => caller[c].wrote \in 1 .. 2
    BY DEF ReceiptsInv, WriterIsAlone
  <2> QED  BY <2>1, <2>2, <2>3
<1>k. \/ caller[c].wrote = 0 /\ t = "item"
      \/ caller[c].wrote = 1 /\ t = "event"
      \/ caller[c].wrote = 2 /\ t = "views"
  BY <1>w DEF Order
<1>tt. t \in Targets
  BY <1>k DEF Targets
<1> DEFINE place == IF t = "views" THEN "return" ELSE "effects"
<1>s. PICK s : /\ s = [at |-> place, seen |-> caller[c].seen, left |-> caller[c].left,
                       wrote |-> caller[c].wrote + 1, answer |-> caller[c].answer]
  OBVIOUS
<1>n. caller' = [caller EXCEPT ![c] = s]
  <2>0. PICK q : q = [caller[c] EXCEPT !.wrote = caller[c].wrote + 1]
    OBVIOUS
  <2>1. PICK r : r = [q EXCEPT !.at = place]
    OBVIOUS
  <2>2. caller[c] = [at |-> "effects", seen |-> caller[c].seen, left |-> caller[c].left,
                     wrote |-> caller[c].wrote, answer |-> caller[c].answer]
    BY <1>t, <1>0 DEF CallerState
  <2>3. q = [at |-> "effects", seen |-> caller[c].seen, left |-> caller[c].left,
             wrote |-> caller[c].wrote + 1, answer |-> caller[c].answer]
    BY ONLY <2>0, <2>2
  <2>r. r = s
    BY ONLY <2>1, <2>3, <1>s
  <2>4. caller' = [caller EXCEPT ![c] = r]
    BY <2>0, <2>1, <1>t, <1>0 DEF WriteEffect
  <2> QED  BY <2>r, <2>4
<1>c. caller'[c] = s /\ \A d \in Callers \ {c} : caller'[d] = caller[d]
  BY <1>n, <1>t
<1>e. /\ \A u \in Targets \ {t} : executed'[u] = executed[u] /\ content'[u] = content[u]
      /\ executed'[t] = executed[t] + 1 /\ content'[t] = "new"
  BY <1>0, <1>t, <1>tt
<1>p. executed[t] = 0
  <2>1. CASE t = "views"
    BY <2>1, <1>k, <1>w DEF ReceiptsInv, WriterIsAlone
  <2>2. CASE t # "views"
    <3>1. t \in Authoritative /\ content[t] = "old"
      BY <1>0, <1>k, <2>2 DEF Writable, Authoritative
    <3> QED  BY <3>1, <1>tt DEF ReceiptsInv, TracesAreLeft
  <2> QED  BY <2>1, <2>2
<1>h. \A d \in Callers \ {c} : ~Halfway(d)
  <2>1. CASE Halfway(c)
    BY <2>1 DEF ReceiptsInv, WriterIsAlone
  <2>2. CASE ~Halfway(c)
    <3>1. executed["item"] = 0
      BY <2>2, <1>p, <1>k, <1>w
    <3> QED  BY <3>1 DEF ReceiptsInv, WriterIsAlone
  <2> QED  BY <2>1, <2>2
<1>v. \A u \in Targets : executed[u] <= 1
  BY DEF ReceiptsInv, TracesAreLeft
<1>o. \A u \in Targets : executed[u] = 1 => executed'[u] = 1
  BY <1>e, <1>p
<1>q. Everything => Everything'
  BY <1>o DEF Everything
<1>x. Halfway(c) => /\ executed["item"] = 1
                    /\ executed["event"] = caller[c].wrote - 1
                    /\ executed["views"] = 0
  BY DEF ReceiptsInv, WriterIsAlone
<1>f. /\ t = "item" => executed'["item"] = 1 /\ executed'["event"] = executed["event"]
                       /\ executed'["views"] = executed["views"]
      /\ t = "event" => /\ executed'["item"] = 1 /\ executed'["event"] = 1
                        /\ executed'["views"] = 0
      /\ t = "views" => Everything'
  <2>1. CASE t = "item"
    BY <2>1, <1>e, <1>p DEF Targets
  <2>2. CASE t = "event"
    BY <2>2, <1>e, <1>p, <1>k, <1>w, <1>x DEF Targets
  <2>3. CASE t = "views"
    BY <2>3, <1>e, <1>p, <1>k, <1>w, <1>x DEF Targets, Everything
  <2> QED  BY <2>1, <2>2, <2>3, <1>k
<1>1. ReceiptsTypeOK'
  <2>1. s \in CallerState
    BY <1>s, <1>t, <1>w DEF CallerState
  <2> QED  BY <2>1, <1>n, <1>0, <1>tt DEF ReceiptsInv, ReceiptsTypeOK
<1>2. TracesAreLeft'
  BY <1>e, <1>p DEF ReceiptsInv, TracesAreLeft
<1>3. WriterIsAlone'
  <2>1. \A d \in Callers \ {c} : ~Halfway(d)'
    BY <1>h, <1>c DEF Halfway
  <2>2. ASSUME Halfway(c)'
        PROVE  /\ caller'[c].wrote \in 1 .. 2
               /\ executed'["item"] = 1
               /\ executed'["event"] = caller'[c].wrote - 1
               /\ executed'["views"] = 0
    <3>1. s.at = "effects" /\ s.wrote = caller[c].wrote + 1
      BY <2>2, <1>c, <1>s DEF Halfway
    <3>2. t # "views"
      BY <3>1, <1>s
    <3>3. CASE t = "event"
      BY <3>1, <3>3, <1>f, <1>k, <1>c
    <3>4. CASE t = "item"
      <4>1. executed["event"] = 0 /\ executed["views"] = 0
        BY <3>4, <1>p, <1>tt DEF ReceiptsInv, ItemIsFirst
      <4> QED  BY <4>1, <3>1, <3>4, <1>f, <1>k, <1>c
    <3> QED  BY <3>2, <3>3, <3>4, <1>k
  <2> QED  BY <2>1, <2>2 DEF WriterIsAlone
<1>4. CallersAreRight'
  <2> SUFFICES ASSUME NEW d \in Callers
               PROVE  /\ \A u \in caller'[d].seen : executed'[u] = 1
                      /\ caller'[d].at = "effects" => receipt' # "none"
                      /\ caller'[d].at \in {"return", "persist", "reconcile"} =>
                           receipt' # "none" /\ Everything'
                      /\ caller'[d].answer \in {"applied", "reconciled"} => Everything'
    BY DEF CallersAreRight
  <2>1. caller'[d].seen = caller[d].seen /\ caller'[d].answer = caller[d].answer
    BY <1>c, <1>s
  <2>2. \A u \in caller'[d].seen : executed'[u] = 1
    <3>1. \A u \in caller[d].seen : u \in Targets /\ executed[u] = 1
      BY <1>t DEF CallerState, ReceiptsInv, CallersAreRight
    <3> QED  BY <3>1, <2>1, <1>o
  <2>3. caller'[d].answer \in {"applied", "reconciled"} => Everything'
    BY <2>1, <1>q DEF ReceiptsInv, CallersAreRight
  <2>4. caller'[d].at \in {"return", "persist", "reconcile"} => Everything'
    <3>1. CASE d = c
      BY <3>1, <1>c, <1>s, <1>f
    <3>2. CASE d # c
      BY <3>2, <1>c, <1>q DEF ReceiptsInv, CallersAreRight
    <3> QED  BY <3>1, <3>2
  <2> QED  BY <2>2, <2>3, <2>4, <1>r, <1>0
<1>5. ReceiptIsRight'
  BY <1>r, <1>0, <1>q DEF ReceiptsInv, ReceiptIsRight
<1>6. ItemIsFirst'
  BY <1>f, <1>k, <1>e, <1>t DEF ReceiptsInv, ItemIsFirst, Everything, Targets
<1> QED  BY <1>1, <1>2, <1>3, <1>4, <1>5, <1>6 DEF ReceiptsInv

LEMMA RequestsDie ==
    ASSUME ReceiptsInv, NEW p \in Processes, Die(p)
    PROVE  ReceiptsInv'
<1>t. caller \in [Callers -> CallerState] /\ held \in SUBSET Processes
  BY DEF ReceiptsInv, ReceiptsTypeOK
<1>0. UNCHANGED <<receipt, content, moved, current, executed>> /\ held' \in SUBSET Processes
  BY <1>t DEF Die
<1>a. At("dead") \in CallerState /\ At("dead").at = "dead" /\ At("dead").seen = {}
      /\ At("dead").answer = "none"
  BY AtIsAState DEF Ended
<1>c. \A c \in Callers : caller'[c] = At("dead") \/ caller'[c] = caller[c]
  BY DEF Die
<1>1. ReceiptsTypeOK'
  <2>1. caller' \in [Callers -> CallerState]
    BY <1>t, <1>a DEF Die
  <2> QED  BY <2>1, <1>0 DEF ReceiptsInv, ReceiptsTypeOK
<1>2. TracesAreLeft' /\ (Everything' <=> Everything)
  BY <1>0 DEF ReceiptsInv, TracesAreLeft, Everything
<1>h. \A c \in Callers : Halfway(c)' => Halfway(c) /\ caller'[c] = caller[c]
  BY <1>c, <1>a DEF Halfway
<1>3. WriterIsAlone'
  <2> SUFFICES ASSUME NEW c \in Callers, Halfway(c)'
               PROVE  /\ caller'[c].wrote \in 1 .. 2
                      /\ executed'["item"] = 1
                      /\ executed'["event"] = caller'[c].wrote - 1
                      /\ executed'["views"] = 0
                      /\ \A d \in Callers \ {c} : ~Halfway(d)'
    BY DEF WriterIsAlone
  <2> QED  BY <1>h, <1>0 DEF ReceiptsInv, WriterIsAlone
<1>4. CallersAreRight'
  <2> SUFFICES ASSUME NEW d \in Callers
               PROVE  /\ \A u \in caller'[d].seen : executed'[u] = 1
                      /\ caller'[d].at = "effects" => receipt' # "none"
                      /\ caller'[d].at \in {"return", "persist", "reconcile"} =>
                           receipt' # "none" /\ Everything'
                      /\ caller'[d].answer \in {"applied", "reconciled"} => Everything'
    BY DEF CallersAreRight
  <2>1. CASE caller'[d] = At("dead")
    BY <2>1, <1>a
  <2>2. CASE caller'[d] = caller[d]
    BY <2>2, <1>2, <1>0 DEF ReceiptsInv, CallersAreRight
  <2> QED  BY <2>1, <2>2, <1>c
<1>5. ReceiptIsRight' /\ ItemIsFirst'
  BY <1>2, <1>0 DEF ReceiptsInv, ReceiptIsRight, ItemIsFirst
<1> QED  BY <1>1, <1>2, <1>3, <1>4, <1>5 DEF ReceiptsInv

LEMMA OthersGoOn ==
    ASSUME ReceiptsInv, Expire \/ OthersWrite
    PROVE  ReceiptsInv'
<1>t. /\ content \in [Targets -> {"old", "new", "other"}]
      /\ moved \in BOOLEAN /\ current \in BOOLEAN
  BY DEF ReceiptsInv, ReceiptsTypeOK
<1>0. UNCHANGED <<receipt, held, caller, executed>>
  BY DEF Expire, OthersWrite
<1>c. /\ content' \in [Targets -> {"old", "new", "other"}]
      /\ moved' \in BOOLEAN /\ current' \in BOOLEAN
      /\ \A t \in Targets : content'[t] = content[t] \/ content'[t] = "other"
  BY <1>t DEF Expire, OthersWrite, Targets
<1>1. ReceiptsTypeOK'
  BY <1>0, <1>c DEF ReceiptsInv, ReceiptsTypeOK
<1>2. TracesAreLeft'
  <2> SUFFICES ASSUME NEW t \in Targets
               PROVE  /\ executed'[t] <= 1
                      /\ t \in Authoritative /\ content'[t] = "old" => executed'[t] = 0
                      /\ content'[t] = "new" => executed'[t] = 1
    BY DEF TracesAreLeft
  <2>1. executed'[t] = executed[t] /\ (content'[t] = content[t] \/ content'[t] = "other")
    BY <1>0, <1>c
  <2> QED  BY <2>1 DEF ReceiptsInv, TracesAreLeft
<1>3. WriterIsAlone' /\ CallersAreRight' /\ ReceiptIsRight' /\ ItemIsFirst'
  BY <1>0 DEF ReceiptsInv, WriterIsAlone, CallersAreRight, ReceiptIsRight, ItemIsFirst, Halfway,
     Everything
<1> QED  BY <1>1, <1>2, <1>3 DEF ReceiptsInv

(* However a request is delivered, retried, raised in or killed            *)
(* (KrcnApplicationService.execute), the traces of its effects, the        *)
(* callers and the receipt agree.                                          *)
THEOREM ReceiptsInvariant == ReceiptsSpec => []ReceiptsInv
<1>1. ASSUME ReceiptsInv, [ReceiptsNext]_receiptVars
      PROVE  ReceiptsInv'
  <2>1. ASSUME NEW c \in Callers, Deliver(c)
        PROVE  ReceiptsInv'
    BY <1>1, <2>1, RequestDelivers
  <2>2. ASSUME NEW c \in Callers,
               \/ Judge(c) \/ ReconcileReceipt(c) \/ Plan(c) \/ ClaimAuthorization(c)
               \/ Return(c) \/ Persist(c) \/ Raise(c)
        PROVE  ReceiptsInv'
    BY <1>1, <2>2, RequestsGo
  <2>3. ASSUME NEW c \in Callers, WriteEffect(c)
        PROVE  ReceiptsInv'
    BY <1>1, <2>3, RequestWrites
  <2>4. ASSUME NEW c \in Callers, NEW t \in Targets, Observe(c, t)
        PROVE  ReceiptsInv'
    BY <1>1, <2>4, RequestObserves
  <2>5. ASSUME NEW p \in Processes, Die(p)
        PROVE  ReceiptsInv'
    BY <1>1, <2>5, RequestsDie
  <2>6. CASE Expire \/ OthersWrite
    BY <1>1, <2>6, OthersGoOn
  <2>7. CASE UNCHANGED receiptVars
    BY <1>1, <2>7 DEF receiptVars, ReceiptsInv, ReceiptsTypeOK, TracesAreLeft, WriterIsAlone,
       CallersAreRight, ReceiptIsRight, ItemIsFirst, Halfway, Everything
  <2> QED  BY <1>1, <2>1, <2>2, <2>3, <2>4, <2>5, <2>6, <2>7 DEF ReceiptsNext, Processes
<1> QED  BY ReceiptsBegin, <1>1, PTL DEF ReceiptsSpec

(* Receipt, targets and callers of a request are always of their types.    *)
THEOREM ReceiptsTypeCorrect == ReceiptsSpec => []ReceiptsTypeOK
<1>1. ReceiptsInv => ReceiptsTypeOK
  BY DEF ReceiptsInv
<1> QED  BY <1>1, ReceiptsInvariant, PTL

(* Each effect of an authorized request happens at most once, never before *)
(* the pending receipt, and who is told that it was applied is told the    *)
(* truth, for any number of threads in any processes.                      *)
THEOREM RequestsAreAppliedOnce == ReceiptsSpec => []AppliedExactlyOnce
<1>1. ReceiptsInv => AppliedExactlyOnce
  BY DEF ReceiptsInv, TracesAreLeft, ReceiptIsRight, CallersAreRight, Everything,
     AppliedExactlyOnce
<1> QED  BY <1>1, ReceiptsInvariant, PTL

-----------------------------------------------------------------------------
(* Benchmarks (BenchmarkRun).                                              *)

Replies == {"raised", "passed", "not-passed", "failure"}

RunnerState ==
    [at : {"new", "look", "claim", "fail"}]
      \cup [at : {"trials"}, outcomes : Seq(Outcomes)]
      \cup [at : {"complete"}, passed : BOOLEAN]
      \cup [at : {"ended"}, answer : Replies]

BenchmarkTypeOK ==
    /\ inputs \in BOOLEAN
    /\ claim \in Runners \cup {"nobody"}
    /\ terminal \in {"none", "completed", "failed"}
    /\ runner \in [Runners -> RunnerState]
    /\ tried \in [1 .. Repetitions -> Seq(Outcomes \cup {"unusable"})]

AllGood == \A n \in 1 .. Repetitions : tried[n] = <<"good">>

(* Before the claim nothing was tried; after it a repetition at most once. *)
TriedOnceAtMost ==
    /\ claim = "nobody" => terminal = "none" /\ \A n \in 1 .. Repetitions : tried[n] = <<>>
    /\ \A n \in 1 .. Repetitions : Len(tried[n]) <= 1

(* Only the runner that claimed the plan is at work on it, and what it has *)
(* seen is all that was tried.                                             *)
Working(r) == runner[r].at \in {"trials", "complete", "fail"}

WorkIsClaimed ==
    \A r \in Runners :
      /\ Working(r) => claim = r /\ terminal = "none"
      /\ runner[r].at = "trials" =>
           /\ Len(runner[r].outcomes) <= Repetitions
           /\ \A n \in 1 .. Repetitions :
                tried[n] = IF n <= Len(runner[r].outcomes) THEN <<runner[r].outcomes[n]>>
                           ELSE <<>>
      /\ runner[r].at = "complete" => (runner[r].passed <=> AllGood)

RepliesAreTrue ==
    \A r \in Runners : runner[r].at = "ended" =>
      /\ runner[r].answer = "passed" => terminal = "completed" /\ AllGood
      /\ runner[r].answer = "not-passed" => terminal = "completed" /\ ~AllGood
      /\ runner[r].answer = "failure" => terminal = "failed"

BenchmarkInv ==
    /\ BenchmarkTypeOK
    /\ TriedOnceAtMost
    /\ WorkIsClaimed
    /\ RepliesAreTrue

LEMMA BenchmarkBegins == BenchmarkInit => BenchmarkInv
<1> SUFFICES ASSUME BenchmarkInit PROVE BenchmarkInv
  OBVIOUS
<1>1. \A r \in Runners : runner[r].at = "new"
  BY DEF BenchmarkInit
<1>2. BenchmarkTypeOK
  BY DEF BenchmarkInit, BenchmarkTypeOK, RunnerState
<1>3. TriedOnceAtMost
  BY DEF BenchmarkInit, TriedOnceAtMost
<1>4. WorkIsClaimed /\ RepliesAreTrue
  BY <1>1 DEF WorkIsClaimed, Working, RepliesAreTrue
<1> QED  BY <1>2, <1>3, <1>4 DEF BenchmarkInv

(* A runner turns to something that is not work on the plan, and whatever  *)
(* it answers is true.                                                     *)
LEMMA TurnsTo ==
    ASSUME BenchmarkInv, NEW r \in Runners, NEW s \in RunnerState, Become(r, s),
           s.at \in {"look", "claim", "ended"},
           s.at = "ended" =>
             /\ s.answer = "passed" => terminal' = "completed" /\ AllGood
             /\ s.answer = "not-passed" => terminal' = "completed" /\ ~AllGood
             /\ s.answer = "failure" => terminal' = "failed",
           terminal' = terminal \/ (Working(r) /\ terminal' \in {"completed", "failed"}),
           UNCHANGED <<inputs, claim, tried>>
    PROVE  BenchmarkInv'
<1>t. /\ runner \in [Runners -> RunnerState]
      /\ terminal \in {"none", "completed", "failed"}
  BY DEF BenchmarkInv, BenchmarkTypeOK
<1>c. runner'[r] = s /\ \A q \in Runners \ {r} : runner'[q] = runner[q]
  BY <1>t DEF Become
<1>1. BenchmarkTypeOK'
  BY <1>t DEF BenchmarkInv, BenchmarkTypeOK, Become
<1>g. AllGood' <=> AllGood
  BY DEF AllGood
<1>w. Working(r) => terminal = "none" /\ claim = r /\ \A q \in Runners \ {r} : ~Working(q)
  BY DEF BenchmarkInv, WorkIsClaimed
<1>n. claim = "nobody" => ~Working(r)
  BY <1>w, BenchmarkAssumption
<1>2. TriedOnceAtMost'
  BY <1>n DEF BenchmarkInv, TriedOnceAtMost
<1>3. WorkIsClaimed'
  <2> SUFFICES ASSUME NEW q \in Runners
               PROVE  /\ Working(q)' => claim' = q /\ terminal' = "none"
                      /\ runner'[q].at = "trials" =>
                           /\ Len(runner'[q].outcomes) <= Repetitions
                           /\ \A n \in 1 .. Repetitions :
                                tried'[n] = IF n <= Len(runner'[q].outcomes)
                                            THEN <<runner'[q].outcomes[n]>> ELSE <<>>
                      /\ runner'[q].at = "complete" => (runner'[q].passed <=> AllGood')
    BY DEF WorkIsClaimed
  <2>1. CASE q = r
    BY <2>1, <1>c DEF Working
  <2>2. CASE q # r
    <3>1. runner'[q] = runner[q] /\ (Working(q)' <=> Working(q))
      BY <2>2, <1>c DEF Working
    <3>2. Working(q) => terminal' = "none"
      BY <1>w, <2>2 DEF BenchmarkInv, WorkIsClaimed
    <3> QED  BY <3>1, <3>2, <1>g DEF BenchmarkInv, WorkIsClaimed
  <2> QED  BY <2>1, <2>2
<1>4. RepliesAreTrue'
  <2> SUFFICES ASSUME NEW q \in Runners, runner'[q].at = "ended"
               PROVE  /\ runner'[q].answer = "passed" => terminal' = "completed" /\ AllGood'
                      /\ runner'[q].answer = "not-passed" => terminal' = "completed" /\ ~AllGood'
                      /\ runner'[q].answer = "failure" => terminal' = "failed"
    BY DEF RepliesAreTrue
  <2>1. CASE q = r
    BY <2>1, <1>c, <1>g
  <2>2. CASE q # r
    <3>1. runner[q].answer \in {"passed", "not-passed", "failure"} => terminal # "none"
      BY <2>2, <1>c DEF BenchmarkInv, RepliesAreTrue
    <3> QED  BY <2>2, <3>1, <1>c, <1>g, <1>w DEF BenchmarkInv, RepliesAreTrue
  <2> QED  BY <2>1, <2>2
<1> QED  BY <1>1, <1>2, <1>3, <1>4 DEF BenchmarkInv

LEMMA RunnerStates ==
    /\ \A place \in {"new", "look", "claim", "fail"} :
         [at |-> place] \in RunnerState /\ [at |-> place].at = place
    /\ \A answer \in Replies :
         /\ [at |-> "ended", answer |-> answer] \in RunnerState
         /\ [at |-> "ended", answer |-> answer].at = "ended"
         /\ [at |-> "ended", answer |-> answer].answer = answer
    /\ Raised \in RunnerState /\ Raised.at = "ended" /\ Raised.answer = "raised"
  BY DEF RunnerState, Replies, Raised

LEMMA ReplyIsTrue ==
    ASSUME BenchmarkInv, NEW r \in Runners, NEW answer \in Replies, Ends(r, answer),
           answer = "passed" => terminal' = "completed" /\ AllGood,
           answer = "not-passed" => terminal' = "completed" /\ ~AllGood,
           answer = "failure" => terminal' = "failed",
           terminal' = terminal \/ (Working(r) /\ terminal' \in {"completed", "failed"}),
           UNCHANGED <<inputs, claim, tried>>
    PROVE  BenchmarkInv'
<1> DEFINE s == [at |-> "ended", answer |-> answer]
<1>1. s \in RunnerState /\ s.at = "ended" /\ s.answer = answer
  BY RunnerStates
<1>2. Become(r, s)
  BY DEF Ends
<1>3. /\ s.answer = "passed" => terminal' = "completed" /\ AllGood
      /\ s.answer = "not-passed" => terminal' = "completed" /\ ~AllGood
      /\ s.answer = "failure" => terminal' = "failed"
  BY <1>1
<1> HIDE DEF s
<1> QED  BY <1>1, <1>2, <1>3, TurnsTo

LEMMA RunnerRaises ==
    ASSUME BenchmarkInv, NEW r \in Runners, Become(r, Raised),
           terminal' = terminal \/ (Working(r) /\ terminal' \in {"completed", "failed"}),
           UNCHANGED <<inputs, claim, tried>>
    PROVE  BenchmarkInv'
<1>1. Raised \in RunnerState /\ Raised.at = "ended" /\ Raised.answer = "raised"
  BY RunnerStates
<1> QED  BY <1>1, TurnsTo

LEMMA RunnersTurn ==
    ASSUME BenchmarkInv, NEW r \in Runners, Resolve(r) \/ LookUp(r) \/ GiveUp(r)
    PROVE  BenchmarkInv'
<1>1. /\ [at |-> "look"] \in RunnerState /\ [at |-> "look"].at = "look"
      /\ [at |-> "claim"] \in RunnerState /\ [at |-> "claim"].at = "claim"
  BY RunnerStates
<1>v. UNCHANGED <<inputs, claim, terminal, tried>>
  BY DEF Resolve, LookUp, GiveUp
<1>u. /\ UNCHANGED <<inputs, claim, tried>> /\ terminal' = terminal
      /\ terminal' = terminal \/ (Working(r) /\ terminal' \in {"completed", "failed"})
  BY <1>v
<1>2. CASE Become(r, [at |-> "look"])
  <2> DEFINE s == [at |-> "look"]
  <2>1. /\ s \in RunnerState /\ Become(r, s)
        /\ s.at \in {"look", "claim", "ended"} /\ s.at # "ended"
    BY <1>1, <1>2
  <2> HIDE DEF s
  <2> QED  BY <2>1, <1>u, TurnsTo
<1>3. CASE Become(r, [at |-> "claim"])
  <2> DEFINE s == [at |-> "claim"]
  <2>1. /\ s \in RunnerState /\ Become(r, s)
        /\ s.at \in {"look", "claim", "ended"} /\ s.at # "ended"
    BY <1>1, <1>3
  <2> HIDE DEF s
  <2> QED  BY <2>1, <1>u, TurnsTo
<1>4. CASE Become(r, Raised)
  BY <1>4, <1>u, RunnerRaises
<1>5. CASE Ends(r, IF terminal = "failed" THEN "failure" ELSE "raised")
  <2>1. CASE terminal = "failed" /\ Ends(r, "failure")
    BY <2>1, <1>u, ReplyIsTrue DEF Replies
  <2>2. CASE Ends(r, "raised")
    BY <2>2, <1>u, RunnerRaises DEF Ends, Raised
  <2> QED  BY <1>5, <2>1, <2>2
<1> QED  BY <1>2, <1>3, <1>4, <1>5 DEF Resolve, LookUp, GiveUp

LEMMA RunnersComplete ==
    ASSUME BenchmarkInv, NEW r \in Runners, CompleteRun(r) \/ CompleteFailure(r)
    PROVE  BenchmarkInv'
<1>w. /\ Working(r)
      /\ terminal' = terminal \/ (Working(r) /\ terminal' \in {"completed", "failed"})
      /\ UNCHANGED <<inputs, claim, tried>>
  BY DEF CompleteRun, CompleteFailure, Working
<1>1. CASE Become(r, Raised)
  BY <1>1, <1>w, RunnerRaises
<1>2. CASE terminal' = "failed" /\ Ends(r, "failure")
  BY <1>2, <1>w, ReplyIsTrue DEF Replies
<1>3. CASE /\ terminal' = "completed" /\ runner[r].at = "complete"
           /\ Ends(r, IF runner[r].passed THEN "passed" ELSE "not-passed")
  <2>1. runner[r].passed <=> AllGood
    BY <1>3 DEF BenchmarkInv, WorkIsClaimed
  <2>2. CASE AllGood /\ Ends(r, "passed")
    BY <1>3, <2>2, <1>w, ReplyIsTrue DEF Replies
  <2>3. CASE ~AllGood /\ Ends(r, "not-passed")
    BY <1>3, <2>3, <1>w, ReplyIsTrue DEF Replies
  <2> QED  BY <1>3, <2>1, <2>2, <2>3
<1> QED  BY <1>1, <1>2, <1>3 DEF CompleteRun, CompleteFailure

(* Only one runner is at work, and who was answered before the receipt was *)
(* told nothing of the plan.                                               *)
LEMMA OneIsAtWork ==
    ASSUME BenchmarkInv, NEW r \in Runners,
           Working(r) \/ claim = "nobody"
    PROVE  /\ terminal = "none"
           /\ \A q \in Runners \ {r} :
                /\ ~Working(q)
                /\ runner[q].at = "ended" =>
                     runner[q].answer \notin {"passed", "not-passed", "failure"}
  BY BenchmarkAssumption DEF BenchmarkInv, WorkIsClaimed, TriedOnceAtMost, RepliesAreTrue

(* A step of the runner at work, of the claim or of a trial, leaves the    *)
(* others as they are.                                                     *)
LEMMA WorkGoesOn ==
    ASSUME BenchmarkInv, NEW r \in Runners, NEW s \in RunnerState, runner' = [runner EXCEPT ![r] = s],
           Working(r) \/ claim = "nobody",
           BenchmarkTypeOK', TriedOnceAtMost',
           terminal' = "none", claim' = r,
           s.at = "trials" =>
             /\ Len(s.outcomes) <= Repetitions
             /\ \A n \in 1 .. Repetitions :
                  tried'[n] = IF n <= Len(s.outcomes) THEN <<s.outcomes[n]>> ELSE <<>>,
           s.at = "complete" => (s.passed <=> AllGood'),
           s.at \in {"trials", "complete", "fail"} \/ s = Raised
    PROVE  BenchmarkInv'
<1>t. runner \in [Runners -> RunnerState]
  BY DEF BenchmarkInv, BenchmarkTypeOK
<1>c. runner'[r] = s /\ \A q \in Runners \ {r} : runner'[q] = runner[q]
  BY <1>t
<1>o. \A q \in Runners \ {r} :
        /\ ~Working(q)
        /\ runner[q].at = "ended" => runner[q].answer \notin {"passed", "not-passed", "failure"}
  BY OneIsAtWork
<1>r. Raised.at = "ended" /\ Raised.answer = "raised"
  BY DEF Raised
<1>1. WorkIsClaimed'
  <2> SUFFICES ASSUME NEW q \in Runners
               PROVE  /\ Working(q)' => claim' = q /\ terminal' = "none"
                      /\ runner'[q].at = "trials" =>
                           /\ Len(runner'[q].outcomes) <= Repetitions
                           /\ \A n \in 1 .. Repetitions :
                                tried'[n] = IF n <= Len(runner'[q].outcomes)
                                            THEN <<runner'[q].outcomes[n]>> ELSE <<>>
                      /\ runner'[q].at = "complete" => (runner'[q].passed <=> AllGood')
    BY DEF WorkIsClaimed
  <2>1. CASE q = r
    BY <2>1, <1>c
  <2>2. CASE q # r
    BY <2>2, <1>c, <1>o DEF Working
  <2> QED  BY <2>1, <2>2
<1>2. RepliesAreTrue'
  <2> SUFFICES ASSUME NEW q \in Runners, runner'[q].at = "ended"
               PROVE  runner'[q].answer \notin {"passed", "not-passed", "failure"}
    BY DEF RepliesAreTrue
  <2> QED  BY <1>c, <1>o, <1>r
<1> QED  BY <1>1, <1>2 DEF BenchmarkInv

LEMMA RunnersClaim ==
    ASSUME BenchmarkInv, NEW r \in Runners, ClaimPlan(r)
    PROVE  BenchmarkInv'
<1>1. claim = "nobody" /\ claim' = r /\ UNCHANGED <<inputs, terminal, tried>>
  BY DEF ClaimPlan
<1>2. terminal = "none" /\ \A n \in 1 .. Repetitions : tried[n] = <<>>
  BY <1>1 DEF BenchmarkInv, TriedOnceAtMost
<1>3. PICK s \in RunnerState :
        /\ runner' = [runner EXCEPT ![r] = s]
        /\ s = Raised \/ (s.at = "trials" /\ s.outcomes = <<>>)
  <2>1. [at |-> "trials", outcomes |-> <<>>] \in RunnerState
    BY DEF RunnerState
  <2>2. Raised \in RunnerState
    BY RunnerStates
  <2>3. CASE Become(r, Raised)
    <3>1. PICK q : q = Raised
      OBVIOUS
    <3> QED  BY <2>2, <2>3, <3>1 DEF Become
  <2>4. CASE Become(r, [at |-> "trials", outcomes |-> <<>>])
    <3>1. PICK q : q = [at |-> "trials", outcomes |-> <<>>]
      OBVIOUS
    <3>2. q \in RunnerState /\ q.at = "trials" /\ q.outcomes = <<>>
      BY <2>1, <3>1
    <3> QED  BY <2>4, <3>1, <3>2 DEF Become
  <2> QED  BY <2>3, <2>4 DEF ClaimPlan
<1>4. Raised.at = "ended"
  BY RunnerStates
<1>5. BenchmarkTypeOK'
  BY <1>1, <1>3 DEF BenchmarkInv, BenchmarkTypeOK
<1>6. TriedOnceAtMost'
  BY <1>1, BenchmarkAssumption DEF BenchmarkInv, TriedOnceAtMost
<1>7. s.at = "trials" =>
        /\ Len(s.outcomes) <= Repetitions
        /\ \A n \in 1 .. Repetitions :
             tried'[n] = IF n <= Len(s.outcomes) THEN <<s.outcomes[n]>> ELSE <<>>
  <2> SUFFICES ASSUME s.at = "trials"
               PROVE  /\ Len(s.outcomes) <= Repetitions
                      /\ \A n \in 1 .. Repetitions :
                           tried'[n] = IF n <= Len(s.outcomes) THEN <<s.outcomes[n]>> ELSE <<>>
    OBVIOUS
  <2>1. Len(s.outcomes) = 0
    BY <1>3, <1>4
  <2> QED  BY <2>1, <1>1, <1>2, BenchmarkAssumption
<1>8. s.at = "trials" \/ s = Raised
  BY <1>3
<1>9. s.at # "complete"
  BY <1>3, <1>4
<1>10. terminal' = "none" /\ claim' = r
  BY <1>1, <1>2
<1> QED  BY <1>1, <1>3, <1>5, <1>6, <1>7, <1>8, <1>9, <1>10, WorkGoesOn

(* A trial is of a repetition that was not tried.                          *)
LEMMA TrialRuns ==
    ASSUME BenchmarkInv, NEW r \in Runners, RunTrial(r)
    PROVE  BenchmarkInv'
<1>z. PICK outcomes : outcomes = runner[r].outcomes
  OBVIOUS
<1>y. PICK k : k = Len(outcomes) + 1
  OBVIOUS
<1>t. /\ runner \in [Runners -> RunnerState]
      /\ tried \in [1 .. Repetitions -> Seq(Outcomes \cup {"unusable"})]
      /\ Repetitions \in Nat \ {0} /\ "nobody" \notin Runners
  BY BenchmarkAssumption DEF BenchmarkInv, BenchmarkTypeOK
<1>a. runner[r].at = "trials" /\ Working(r)
  BY DEF RunTrial, Working
<1>b. outcomes \in Seq(Outcomes) /\ runner[r] = [at |-> "trials", outcomes |-> outcomes]
  <2>1. runner[r] \in [at : {"trials"}, outcomes : Seq(Outcomes)]
    BY <1>t, <1>a DEF RunnerState
  <2> QED  BY <2>1, <1>z
<1>k. k \in 1 .. Repetitions /\ Len(outcomes) \in Nat
  <2>1. Len(outcomes) < Repetitions /\ Len(outcomes) \in Nat
    BY <1>b, <1>z DEF RunTrial
  <2> QED  BY <2>1, <1>t, <1>y
<1>c. /\ claim = r /\ terminal = "none"
      /\ \A n \in 1 .. Repetitions : n < k => tried[n] = <<outcomes[n]>>
      /\ \A n \in 1 .. Repetitions : ~(n < k) => tried[n] = <<>>
  <2>1. /\ claim = r /\ terminal = "none"
        /\ \A n \in 1 .. Repetitions :
             tried[n] = IF n <= Len(outcomes) THEN <<outcomes[n]>> ELSE <<>>
    BY <1>a, <1>z DEF BenchmarkInv, WorkIsClaimed
  <2>2. \A n \in 1 .. Repetitions : n <= Len(outcomes) <=> n < k
    BY <1>k, <1>y
  <2> QED  BY <2>1, <2>2
<1>d. tried[k] = <<>>
  <2>1. ~(k < k)
    BY <1>k
  <2> QED  BY <1>c, <1>k, <2>1
<1>o. PICK o \in Outcomes \cup {"unusable"} :
        /\ tried' = [tried EXCEPT ![k] = Append(tried[k], o)]
        /\ IF o = "unusable" THEN Become(r, [at |-> "fail"])
           ELSE Become(r, [runner[r] EXCEPT !.outcomes = Append(outcomes, o)])
  BY <1>t, <1>k, <1>z, <1>y DEF RunTrial
<1>e. /\ tried'[k] = <<o>>
      /\ \A n \in 1 .. Repetitions : n # k => tried'[n] = tried[n]
      /\ tried' \in [1 .. Repetitions -> Seq(Outcomes \cup {"unusable"})]
  BY <1>o, <1>d, <1>k, <1>t
<1>f. PICK s : s = IF o = "unusable" THEN [at |-> "fail"]
                   ELSE [at |-> "trials", outcomes |-> Append(outcomes, o)]
  OBVIOUS
<1>g. runner' = [runner EXCEPT ![r] = s]
  <2>1. CASE o = "unusable"
    BY <2>1, <1>f, <1>o DEF Become
  <2>2. CASE o # "unusable"
    <3>0. PICK a : a = Append(outcomes, o)
      OBVIOUS
    <3>1. PICK q : q = [runner[r] EXCEPT !.outcomes = a]
      OBVIOUS
    <3>r. runner[r] = [at |-> "trials", outcomes |-> outcomes]
      BY <1>b
    <3>2. q = [at |-> "trials", outcomes |-> a]
      BY ONLY <3>1, <3>r
    <3> QED  BY <2>2, <3>0, <3>1, <3>2, <1>f, <1>o DEF Become
  <2> QED  BY <2>1, <2>2
<1>h. CASE o = "unusable"
  <2>1. s \in RunnerState /\ s.at = "fail"
    BY <1>f, <1>h DEF RunnerState
  <2>2. BenchmarkTypeOK'
    BY <2>1, <1>g, <1>e DEF RunTrial, BenchmarkInv, BenchmarkTypeOK
  <2>3. TriedOnceAtMost'
    <3>1. Len(<<o>>) = 1
      OBVIOUS
    <3>2. \A n \in 1 .. Repetitions : Len(tried[n]) <= 1
      BY DEF BenchmarkInv, TriedOnceAtMost
    <3>3. \A n \in 1 .. Repetitions : Len(tried'[n]) <= 1
      <4> SUFFICES ASSUME NEW n \in 1 .. Repetitions PROVE Len(tried'[n]) <= 1
        OBVIOUS
      <4>1. CASE n = k
        <5>1. Len(tried'[n]) = 1
          BY <3>1, <4>1, <1>e
        <5> QED  BY <5>1
      <4>2. CASE n # k
        BY <3>2, <4>2, <1>e
      <4> QED  BY <4>1, <4>2
    <3> QED  BY <3>3, <1>c, <1>t DEF RunTrial, TriedOnceAtMost
  <2>4. /\ s.at # "trials" /\ s.at # "complete" /\ s.at \in {"trials", "complete", "fail"}
        /\ terminal' = "none" /\ claim' = r
    BY <2>1, <1>c DEF RunTrial
  <2> QED  BY <2>1, <2>2, <2>3, <2>4, <1>a, <1>g, WorkGoesOn
<1>i. CASE o # "unusable"
  <2>1. s \in RunnerState /\ s.at = "trials" /\ s.outcomes = Append(outcomes, o)
    <3>1. Append(outcomes, o) \in Seq(Outcomes)
      BY <1>b, <1>i, <1>o
    <3>2. s = [at |-> "trials", outcomes |-> Append(outcomes, o)]
      BY <1>f, <1>i
    <3> QED  BY <3>1, <3>2 DEF RunnerState
  <2>2. BenchmarkTypeOK'
    BY <2>1, <1>g, <1>e DEF RunTrial, BenchmarkInv, BenchmarkTypeOK
  <2>3. TriedOnceAtMost'
    <3>1. Len(<<o>>) = 1
      OBVIOUS
    <3>2. \A n \in 1 .. Repetitions : Len(tried[n]) <= 1
      BY DEF BenchmarkInv, TriedOnceAtMost
    <3>3. \A n \in 1 .. Repetitions : Len(tried'[n]) <= 1
      <4> SUFFICES ASSUME NEW n \in 1 .. Repetitions PROVE Len(tried'[n]) <= 1
        OBVIOUS
      <4>1. CASE n = k
        <5>1. Len(tried'[n]) = 1
          BY <3>1, <4>1, <1>e
        <5> QED  BY <5>1
      <4>2. CASE n # k
        BY <3>2, <4>2, <1>e
      <4> QED  BY <4>1, <4>2
    <3> QED  BY <3>3, <1>c, <1>t DEF RunTrial, TriedOnceAtMost
  <2>4. /\ Len(s.outcomes) = k /\ s.outcomes[k] = o
        /\ \A n \in 1 .. Repetitions : n < k => s.outcomes[n] = outcomes[n]
    BY <2>1, <1>b, <1>k, <1>y
  <2>5. \A n \in 1 .. Repetitions :
          tried'[n] = IF n <= Len(s.outcomes) THEN <<s.outcomes[n]>> ELSE <<>>
    <3> SUFFICES ASSUME NEW n \in 1 .. Repetitions
                 PROVE  tried'[n] = IF n <= Len(s.outcomes) THEN <<s.outcomes[n]>> ELSE <<>>
      OBVIOUS
    <3>1. CASE n = k
      BY <3>1, <2>4, <1>e
    <3>2. CASE n < k
      <4>1. tried'[n] = <<outcomes[n]>> /\ s.outcomes[n] = outcomes[n] /\ n <= k
        BY <3>2, <2>4, <1>e, <1>c, <1>k
      <4> QED  BY <4>1, <2>4
    <3>3. CASE n > k
      <4>1. tried'[n] = <<>> /\ ~(n <= k)
        BY <3>3, <1>e, <1>c, <1>k
      <4> QED  BY <4>1, <2>4
    <3> QED  BY <3>1, <3>2, <3>3, <1>k
  <2>6. /\ Len(s.outcomes) <= Repetitions /\ s.at # "complete"
        /\ s.at \in {"trials", "complete", "fail"} /\ terminal' = "none" /\ claim' = r
    BY <2>1, <2>4, <1>c, <1>k DEF RunTrial
  <2> QED  BY <2>1, <2>2, <2>3, <2>5, <2>6, <1>a, <1>g, WorkGoesOn
<1> QED  BY <1>h, <1>i

(* What is aggregated is every repetition.                                 *)
LEMMA TrialsAreAggregated ==
    ASSUME BenchmarkInv, NEW r \in Runners, Aggregate(r)
    PROVE  BenchmarkInv'
<1> DEFINE outcomes == runner[r].outcomes
<1>t. runner \in [Runners -> RunnerState] /\ Repetitions \in Nat
  BY BenchmarkAssumption DEF BenchmarkInv, BenchmarkTypeOK
<1>a. /\ runner[r].at = "trials" /\ Working(r) /\ Len(outcomes) = Repetitions
      /\ UNCHANGED <<inputs, claim, terminal, tried>>
  BY DEF Aggregate, Working
<1>b. outcomes \in Seq(Outcomes)
  <2>1. runner[r] \in [at : {"trials"}, outcomes : Seq(Outcomes)]
    BY <1>t, <1>a DEF RunnerState
  <2> QED  BY <2>1
<1>c. /\ claim = r /\ terminal = "none"
      /\ \A n \in 1 .. Repetitions :
           tried[n] = IF n <= Len(outcomes) THEN <<outcomes[n]>> ELSE <<>>
  BY <1>a DEF BenchmarkInv, WorkIsClaimed
<1>p. Passes(outcomes) <=> AllGood
  <2>1. DOMAIN outcomes = 1 .. Repetitions
    BY <1>a, <1>b
  <2>2. \A n \in 1 .. Repetitions : tried[n] = <<outcomes[n]>>
    BY <1>a, <1>c
  <2>3. \A n \in 1 .. Repetitions : tried[n] = <<"good">> <=> outcomes[n] = "good"
    BY <2>2
  <2> QED  BY <2>1, <2>3 DEF Passes, AllGood
<1>1. PICK s \in RunnerState :
        /\ runner' = [runner EXCEPT ![r] = s]
        /\ s.at \in {"complete", "fail"} /\ (s.at = "complete" => (s.passed <=> AllGood))
  <2>1. CASE Become(r, [at |-> "complete", passed |-> Passes(outcomes)])
    <3>1. PICK q : q = [at |-> "complete", passed |-> Passes(outcomes)]
      OBVIOUS
    <3>2. Passes(outcomes) \in BOOLEAN
      BY DEF Passes
    <3>3. q \in RunnerState
      BY <3>1, <3>2 DEF RunnerState
    <3>4. q.at = "complete" /\ (q.passed <=> AllGood)
      BY <3>1, <1>p
    <3> QED  BY <2>1, <3>1, <3>3, <3>4 DEF Become
  <2>2. CASE Become(r, [at |-> "fail"])
    <3>1. PICK q : q = [at |-> "fail"]
      OBVIOUS
    <3>2. q \in RunnerState /\ q.at = "fail"
      BY <3>1, RunnerStates
    <3> QED  BY <2>2, <3>1, <3>2 DEF Become
  <2> QED  BY <2>1, <2>2 DEF Aggregate
<1>2. BenchmarkTypeOK'
  BY <1>a, <1>1 DEF BenchmarkInv, BenchmarkTypeOK
<1>3. TriedOnceAtMost'
  BY <1>a DEF BenchmarkInv, TriedOnceAtMost
<1>4. AllGood' <=> AllGood
  BY <1>a DEF AllGood
<1>5. /\ s.at # "trials" /\ s.at \in {"trials", "complete", "fail"}
      /\ s.at = "complete" => (s.passed <=> AllGood')
      /\ terminal' = "none" /\ claim' = r
  BY <1>1, <1>4, <1>a, <1>c
<1> QED  BY <1>1, <1>2, <1>3, <1>5, <1>a, WorkGoesOn

(* Whatever runners do with one benchmark plan                             *)
(* (execute_model_benchmark_run), only the one that claimed it works, and  *)
(* all that was tried is what it has seen.                                 *)
THEOREM BenchmarkInvariant == BenchmarkSpec => []BenchmarkInv
<1>1. ASSUME BenchmarkInv, [BenchmarkNext]_benchmarkVars
      PROVE  BenchmarkInv'
  <2>1. ASSUME NEW r \in Runners, Resolve(r) \/ LookUp(r) \/ GiveUp(r)
        PROVE  BenchmarkInv'
    BY <1>1, <2>1, RunnersTurn
  <2>2. ASSUME NEW r \in Runners, CompleteRun(r) \/ CompleteFailure(r)
        PROVE  BenchmarkInv'
    BY <1>1, <2>2, RunnersComplete
  <2>3. ASSUME NEW r \in Runners, ClaimPlan(r)
        PROVE  BenchmarkInv'
    BY <1>1, <2>3, RunnersClaim
  <2>4. ASSUME NEW r \in Runners, RunTrial(r)
        PROVE  BenchmarkInv'
    BY <1>1, <2>4, TrialRuns
  <2>5. ASSUME NEW r \in Runners, Aggregate(r)
        PROVE  BenchmarkInv'
    BY <1>1, <2>5, TrialsAreAggregated
  <2>6. CASE InputsChange
    BY <1>1, <2>6 DEF InputsChange, BenchmarkInv, BenchmarkTypeOK, TriedOnceAtMost,
       WorkIsClaimed, Working, RepliesAreTrue, AllGood
  <2>7. CASE UNCHANGED benchmarkVars
    BY <1>1, <2>7 DEF benchmarkVars, BenchmarkInv, BenchmarkTypeOK, TriedOnceAtMost,
       WorkIsClaimed, Working, RepliesAreTrue, AllGood
  <2> QED  BY <1>1, <2>1, <2>2, <2>3, <2>4, <2>5, <2>6, <2>7 DEF BenchmarkNext
<1> QED  BY BenchmarkBegins, <1>1, PTL DEF BenchmarkSpec

(* The ledger, the runners and the trials of a benchmark are always of     *)
(* their types.                                                            *)
THEOREM BenchmarkTypeCorrect == BenchmarkSpec => []BenchmarkTypeOK
<1>1. BenchmarkInv => BenchmarkTypeOK
  BY DEF BenchmarkInv
<1> QED  BY <1>1, BenchmarkInvariant, PTL

(* No repetition is called twice, and every report of a benchmark is true  *)
(* and the only one, for any number of runners and repetitions.            *)
THEOREM BenchmarksReportOnce == BenchmarkSpec => []OneTrueReport
<1>1. BenchmarkInv => OneTrueReport
  <2> SUFFICES ASSUME BenchmarkInv PROVE OneTrueReport
    OBVIOUS
  <2>1. DOMAIN tried = 1 .. Repetitions
    BY DEF BenchmarkInv, BenchmarkTypeOK
  <2>2. \A n \in 1 .. Repetitions :
          Len(tried[n]) <= 1 /\ (tried[n] # <<>> => claim # "nobody")
    BY DEF BenchmarkInv, TriedOnceAtMost
  <2>3. /\ AllGood <=> \A n \in DOMAIN tried : tried[n] = <<"good">>
        /\ ~AllGood <=> \E n \in DOMAIN tried : tried[n] # <<"good">>
    BY <2>1 DEF AllGood
  <2> QED  BY <2>1, <2>2, <2>3 DEF BenchmarkInv, RepliesAreTrue, OneTrueReport
<1> QED  BY <1>1, BenchmarkInvariant, PTL

-----------------------------------------------------------------------------
(* The measured loop (MeasuredLoop).                                       *)

LoopTypeOK ==
    /\ clock \in 0 .. MaxClock
    /\ cancelled \in 0 .. Never
    /\ claims \in 0 .. Ceiling

LEMMA SmallerOfTwo ==
    ASSUME NEW a \in Int, NEW b \in Int
    PROVE  Min({a, b}) \in {a, b} /\ Min({a, b}) <= b /\ Min({a, b}) <= a
<1> DEFINE P(x) == \A y \in {a, b} : x <= y
<1>1. \E x \in {a, b} : P(x)
  OBVIOUS
<1>2. P(CHOOSE x \in {a, b} : P(x)) /\ (CHOOSE x \in {a, b} : P(x)) \in {a, b}
  BY <1>1
<1> QED  BY <1>2 DEF Min

(* What is admitted is admitted by a status that fits the newest records,  *)
(* so that these themselves do not end the run.                            *)
LEMMA AdmittedIsBounded ==
    ASSUME LoopTypeOK, NEW requested \in 1 .. Ceiling, Admit(requested)
    PROVE  AdmissionIsBounded /\ claims' \in 0 .. Ceiling
<1>t. /\ {MaxRounds, MaxTokens, WallTime, MaxClock} \subseteq Nat /\ Ceiling \in Nat
      /\ clock \in Nat /\ claims \in Nat
  BY LoopAssumption DEF LoopTypeOK
<1> DEFINE cancel == cancelled # Never
           observed == persisted.observed
           shown == Status(chain, cancel, observed)
<1>1. persisted = shown
  BY DEF Admit, StatusRebuilt
<1>2. /\ persisted.state = StateOf(chain, cancel, observed)
      /\ persisted.latest = Len(chain) /\ persisted.tokens = Tokens(chain)
  <2> HIDE DEF observed
  <2> QED  BY <1>1 DEF Status
<1>3. persisted.state \notin {"cancelled", "completed", "stopped"}
  BY DEF Admit, TerminalStates
<1>4. /\ ~cancel
      /\ ~Decided(chain)
      /\ ~Exhausted(chain, observed)
      /\ ~Plateau(chain)
  <2> HIDE DEF observed, cancel
  <2> QED  BY <1>2, <1>3 DEF StateOf
<1>5. ~Exhausted(chain, clock)
  <2>1. ~(Len(chain) >= MaxRounds) /\ ~(Tokens(chain) >= MaxTokens)
    BY <1>4 DEF Exhausted
  <2>2. ~(clock >= WallTime)
    BY <1>t DEF Admit
  <2> QED  BY <2>1, <2>2 DEF Exhausted
<1>6. claims' \in 0 .. Ceiling
  <2>1. claims' = claims + Min({requested, Ceiling - claims}) /\ claims < Ceiling
    BY DEF Admit
  <2>2. /\ Min({requested, Ceiling - claims}) \in {requested, Ceiling - claims}
        /\ Min({requested, Ceiling - claims}) <= Ceiling - claims
    BY <1>t, SmallerOfTwo
  <2> QED  BY <2>1, <2>2, <1>t
<1> QED  BY <1>4, <1>5, <1>6, <1>t DEF AdmissionIsBounded

LEMMA LoopSteps ==
    ASSUME LoopTypeOK, [LoopNext]_loopVars
    PROVE  LoopTypeOK' /\ AdmissionIsBounded
<1>t. MaxClock \in Nat /\ Ceiling \in Nat
  BY LoopAssumption
<1>0. ASSUME claims' = claims PROVE AdmissionIsBounded
  BY <1>0 DEF AdmissionIsBounded, LoopTypeOK
<1>1. CASE Elapse
  BY <1>1, <1>0, <1>t DEF Elapse, LoopTypeOK, Never
<1>2. ASSUME NEW value \in 0 .. Target, NEW tokens \in 0 .. 1, NEW verified \in BOOLEAN,
             NEW decision \in {"accept", "continue", "revert"},
             Iterate(value, tokens, decision, verified)
      PROVE  LoopTypeOK' /\ AdmissionIsBounded
  <2>1. UNCHANGED <<clock, cancelled, claims>>
    BY <1>2 DEF Iterate
  <2> QED  BY <2>1, <1>0 DEF LoopTypeOK
<1>3. CASE Cancel
  BY <1>3, <1>0, <1>t DEF Cancel, LoopTypeOK, Never
<1>4. CASE Project \/ Resume
  BY <1>4, <1>0 DEF Project, Resume, LoopTypeOK
<1>5. ASSUME NEW requested \in 1 .. Ceiling, Admit(requested)
      PROVE  LoopTypeOK' /\ AdmissionIsBounded
  BY <1>5, AdmittedIsBounded DEF Admit, LoopTypeOK
<1>6. CASE Release
  BY <1>6, <1>t DEF Release, LoopTypeOK, AdmissionIsBounded
<1>7. CASE UNCHANGED loopVars
  BY <1>7, <1>0 DEF loopVars, LoopTypeOK
<1> QED  BY <1>1, <1>2, <1>3, <1>4, <1>5, <1>6, <1>7 DEF LoopNext

LEMMA LoopBegins == LoopInit => LoopTypeOK
  BY LoopAssumption DEF LoopInit, LoopTypeOK, Never

(* Clock, cancellation and claims of a measured loop stay in their ranges; *)
(* never more claims are active than the ceiling.                          *)
THEOREM LoopTypeCorrect == LoopSpec => []LoopTypeOK
  BY LoopBegins, LoopSteps, PTL DEF LoopSpec

(* Nothing is admitted to a loop that is over by its newest records,       *)
(* whatever status the adapter shows (decide_admission), for any budget    *)
(* and policy.                                                             *)
THEOREM AdmissionsAreBounded == LoopSpec => AdmittedWithinBounds
<1>1. LoopTypeOK /\ [LoopNext]_loopVars => [AdmissionIsBounded]_loopVars
  BY LoopSteps
<1> QED  BY <1>1, LoopTypeCorrect, PTL DEF LoopSpec, AdmittedWithinBounds

-----------------------------------------------------------------------------
(* Skills (SkillLifecycle).                                                *)

SkillTypeOK ==
    /\ policy \in Policies
    /\ evaluations \subseteq [candidate : Candidates, evaluator : People, verifier : People,
                              measured : Measures, outcome : {"passed", "failed"}]
    /\ DOMAIN registry = {Skill[c] : c \in Candidates}

EvaluationsAreIndependent ==
    \A e \in evaluations :
      e.evaluator # e.verifier /\ Proposer[e.candidate] \notin {e.evaluator, e.verifier}

(* A plan is of an evaluation that sufficed, or follows a record.          *)
Supported(plan) ==
    /\ plan.evaluation \in evaluations
    /\ plan.approver \notin Actors(plan.evaluation)
    /\ plan.entry.evaluation = plan.evaluation
    /\ plan.under \in Policies
    /\ plan.from = "evaluated" => Suffices(plan.evaluation.measured, plan.under)
    /\ plan.from # "evaluated" =>
         \E r \in records : /\ r.entry = plan.entry.expected
                            /\ r.entry.state = plan.from
                            /\ r.evaluation = plan.evaluation

PlansAreSupported == \A plan \in plans : Supported(plan)

(* A record is of a plan, and its evaluation sufficed for one.             *)
OfPlan(r, plan) ==
    /\ r.evaluation = plan.evaluation /\ r.approver = plan.approver
    /\ r.from = plan.from /\ r.entry = plan.entry

Activated(evaluation) ==
    \E plan \in plans : plan.evaluation = evaluation /\ plan.from = "evaluated"

RecordsAreOfPlans ==
    \A r \in records : /\ \E plan \in plans : OfPlan(r, plan)
                       /\ Activated(r.evaluation)

EntriesAreOfRecords ==
    \A skill \in DOMAIN registry :
      registry[skill] # NoEntry =>
        \E r \in records : r.entry = registry[skill] /\ Skill[r.evaluation.candidate] = skill

SkillInv ==
    /\ SkillTypeOK
    /\ EvaluationsAreIndependent
    /\ PlansAreSupported
    /\ RecordsAreOfPlans
    /\ EntriesAreOfRecords

LEMMA SkillBegins == SkillInit => SkillInv
  BY DEF SkillInit, SkillInv, SkillTypeOK, EvaluationsAreIndependent, PlansAreSupported,
     RecordsAreOfPlans, EntriesAreOfRecords

(* What is supported stays so, for documents are never taken back.         *)
LEMMA SupportStays ==
    ASSUME SkillInv, evaluations \subseteq evaluations', plans \subseteq plans',
           records \subseteq records'
    PROVE  /\ \A plan \in plans : Supported(plan)'
           /\ \A r \in records : (\E plan \in plans' : OfPlan(r, plan)) /\ Activated(r.evaluation)'
           /\ registry' = registry => EntriesAreOfRecords'
<1>1. ASSUME NEW plan \in plans PROVE Supported(plan)'
  <2>1. Supported(plan)
    BY DEF SkillInv, PlansAreSupported
  <2> QED  BY <2>1 DEF Supported
<1>2. ASSUME NEW r \in records
      PROVE  (\E plan \in plans' : OfPlan(r, plan)) /\ Activated(r.evaluation)'
  BY DEF SkillInv, RecordsAreOfPlans, Activated
<1>3. registry' = registry => EntriesAreOfRecords'
  BY DEF SkillInv, EntriesAreOfRecords
<1> QED  BY <1>1, <1>2, <1>3

LEMMA Evaluates ==
    ASSUME SkillInv, NEW c \in Candidates, NEW x \in People, NEW y \in People,
           NEW m \in Measures, Evaluate(c, x, y, m)
    PROVE  SkillInv'
<1>1. PICK e : e = [candidate |-> c, evaluator |-> x, verifier |-> y, measured |-> m,
                    outcome |-> IF Suffices(m, policy) THEN "passed" ELSE "failed"]
  OBVIOUS
<1>2. /\ evaluations' = evaluations \cup {e} /\ x # y /\ Proposer[c] \notin {x, y}
      /\ UNCHANGED <<policy, plans, records, registry>>
  BY <1>1 DEF Evaluate
<1>3. /\ e \in [candidate : Candidates, evaluator : People, verifier : People,
                measured : Measures, outcome : {"passed", "failed"}]
      /\ e.evaluator = x /\ e.verifier = y /\ e.candidate = c
  BY <1>1
<1>4. SkillTypeOK' /\ EvaluationsAreIndependent'
  BY <1>2, <1>3 DEF SkillInv, SkillTypeOK, EvaluationsAreIndependent
<1>5. PlansAreSupported' /\ RecordsAreOfPlans' /\ EntriesAreOfRecords'
  BY <1>2, SupportStays DEF PlansAreSupported, RecordsAreOfPlans
<1> QED  BY <1>4, <1>5 DEF SkillInv

(* A plan that is supported joins the plans.                               *)
LEMMA Proposes ==
    ASSUME SkillInv, NEW e \in evaluations, NEW approver, NEW from, NEW to, NEW expected,
           Propose(e, approver, from, to, expected),
           approver \notin Actors(e),
           from = "evaluated" => Suffices(e.measured, policy),
           from # "evaluated" =>
             \E r \in records : r.entry = expected /\ r.entry.state = from /\ r.evaluation = e
    PROVE  SkillInv'
<1>1. PICK entry : entry = [evaluation |-> e, state |-> to, expected |-> expected]
  OBVIOUS
<1>2. PICK plan : plan = [evaluation |-> e, approver |-> approver, from |-> from,
                          under |-> policy, entry |-> entry]
  OBVIOUS
<1>3. /\ plans' = plans \cup {plan}
      /\ UNCHANGED <<policy, evaluations, approved, records, registry>>
  BY <1>1, <1>2 DEF Propose
<1>4. /\ plan.evaluation = e /\ plan.approver = approver /\ plan.from = from
      /\ plan.under = policy /\ plan.entry.evaluation = e /\ plan.entry.expected = expected
  BY <1>1, <1>2
<1>5. Supported(plan)'
  BY <1>3, <1>4 DEF Supported, SkillInv, SkillTypeOK
<1>6. PlansAreSupported'
  BY <1>3, <1>5, SupportStays DEF PlansAreSupported
<1>7. RecordsAreOfPlans' /\ EntriesAreOfRecords'
  BY <1>3, SupportStays DEF RecordsAreOfPlans
<1>8. SkillTypeOK' /\ EvaluationsAreIndependent'
  BY <1>3 DEF SkillInv, SkillTypeOK, EvaluationsAreIndependent
<1> QED  BY <1>6, <1>7, <1>8 DEF SkillInv

LEMMA PlansActivation ==
    ASSUME SkillInv, NEW e \in evaluations, NEW a \in People, NEW expected,
           PlanActivation(e, a, expected)
    PROVE  SkillInv'
<1>1. /\ Propose(e, a, "evaluated", "active", expected)
      /\ a \notin Actors(e) /\ Suffices(e.measured, policy)
  BY DEF PlanActivation
<1> QED  BY <1>1, Proposes

LEMMA PlansFollowing ==
    ASSUME SkillInv, NEW r \in records, NEW to \in {"active", "deprecated", "retired"},
           NEW a \in People, PlanChange(r, to, a)
    PROVE  SkillInv'
<1>1. /\ Propose(r.evaluation, a, r.entry.state, to, r.entry)
      /\ a \notin Actors(r.evaluation)
  BY DEF PlanChange, Independent
<1>2. r.entry.state # "evaluated"
  BY DEF PlanChange, Following
<1>3. r.evaluation \in evaluations
  BY DEF SkillInv, RecordsAreOfPlans, OfPlan, PlansAreSupported, Supported
<1>4. \E s \in records :
        s.entry = r.entry /\ s.entry.state = r.entry.state /\ s.evaluation = r.evaluation
  OBVIOUS
<1> QED  BY <1>1, <1>2, <1>3, <1>4, Proposes

LEMMA Finalizes ==
    ASSUME SkillInv, NEW plan \in plans, Finalize(plan)
    PROVE  SkillInv'
<1>1. PICK r : r = [evaluation |-> plan.evaluation, approver |-> plan.approver,
                    from |-> plan.from, entry |-> plan.entry]
  OBVIOUS
<1>2. /\ records' = records \cup {r}
      /\ UNCHANGED <<policy, evaluations, plans, approved, registry>>
  BY <1>1 DEF Finalize
<1>3. OfPlan(r, plan) /\ r.evaluation = plan.evaluation
  BY <1>1 DEF OfPlan
<1>4. Activated(plan.evaluation)
  <2>1. CASE plan.from = "evaluated"
    BY <2>1 DEF Activated
  <2>2. CASE plan.from # "evaluated"
    <3>1. PICK before \in records : before.evaluation = plan.evaluation
      BY <2>2 DEF SkillInv, PlansAreSupported, Supported
    <3> QED  BY <3>1 DEF SkillInv, RecordsAreOfPlans
  <2> QED  BY <2>1, <2>2
<1>5. Activated(r.evaluation)'
  BY <1>2, <1>3, <1>4 DEF Activated
<1>6. RecordsAreOfPlans'
  BY <1>2, <1>3, <1>5, SupportStays DEF RecordsAreOfPlans
<1>7. PlansAreSupported' /\ EntriesAreOfRecords'
  BY <1>2, SupportStays DEF PlansAreSupported
<1>8. SkillTypeOK' /\ EvaluationsAreIndependent'
  BY <1>2 DEF SkillInv, SkillTypeOK, EvaluationsAreIndependent
<1> QED  BY <1>6, <1>7, <1>8 DEF SkillInv

LEMMA Writes ==
    ASSUME SkillInv, NEW r \in records, Write(r)
    PROVE  SkillInv'
<1> DEFINE skill == Skill[r.evaluation.candidate]
<1>1. /\ registry' = [registry EXCEPT ![skill] = r.entry]
      /\ UNCHANGED <<policy, evaluations, plans, approved, records>>
  BY DEF Write
<1>2. DOMAIN registry' = DOMAIN registry
  BY <1>1
<1>3. EntriesAreOfRecords'
  <2> SUFFICES ASSUME NEW s \in DOMAIN registry, registry'[s] # NoEntry
               PROVE  \E q \in records : /\ q.entry = registry'[s]
                                         /\ Skill[q.evaluation.candidate] = s
    BY <1>1, <1>2 DEF EntriesAreOfRecords
  <2>1. CASE s = skill
    <3>1. registry'[s] = r.entry
      BY <1>1, <2>1
    <3> QED  BY <3>1, <2>1
  <2>2. CASE s # skill
    <3>1. registry'[s] = registry[s]
      BY <1>1, <2>2
    <3> QED  BY <3>1 DEF SkillInv, EntriesAreOfRecords
  <2> QED  BY <2>1, <2>2
<1>4. PlansAreSupported' /\ RecordsAreOfPlans'
  BY <1>1, SupportStays DEF PlansAreSupported, RecordsAreOfPlans
<1>5. SkillTypeOK' /\ EvaluationsAreIndependent'
  BY <1>1, <1>2 DEF SkillInv, SkillTypeOK, EvaluationsAreIndependent
<1> QED  BY <1>3, <1>4, <1>5 DEF SkillInv

LEMMA NoDocumentChanges ==
    ASSUME SkillInv, policy' \in Policies, UNCHANGED <<evaluations, plans, records, registry>>
    PROVE  SkillInv'
<1>1. PlansAreSupported' /\ RecordsAreOfPlans' /\ EntriesAreOfRecords'
  BY SupportStays DEF PlansAreSupported, RecordsAreOfPlans
<1>2. SkillTypeOK' /\ EvaluationsAreIndependent'
  BY DEF SkillInv, SkillTypeOK, EvaluationsAreIndependent
<1> QED  BY <1>1, <1>2 DEF SkillInv

(* Documents of skills are only ever made from sound ones: evaluations by  *)
(* others than the proposer, plans that sufficed or follow a record,       *)
(* records of plans, entries of records (skill_lifecycle.py).              *)
THEOREM SkillInvariant == SkillSpec => []SkillInv
<1>1. ASSUME SkillInv, [SkillNext]_skillVars
      PROVE  SkillInv'
  <2>0. policy \in Policies
    BY <1>1 DEF SkillInv, SkillTypeOK
  <2>1. ASSUME NEW c \in Candidates, NEW x \in People, NEW y \in People, NEW m \in Measures,
               Evaluate(c, x, y, m)
        PROVE  SkillInv'
    BY <1>1, <2>1, Evaluates
  <2>2. ASSUME NEW e \in evaluations, NEW a \in People, NEW expected,
               PlanActivation(e, a, expected)
        PROVE  SkillInv'
    BY <1>1, <2>2, PlansActivation
  <2>3. ASSUME NEW r \in records, NEW to \in {"active", "deprecated", "retired"},
               NEW a \in People, PlanChange(r, to, a)
        PROVE  SkillInv'
    BY <1>1, <2>3, PlansFollowing
  <2>4. ASSUME NEW plan \in plans, Approve(plan)
        PROVE  SkillInv'
    <3>1. policy' \in Policies /\ UNCHANGED <<evaluations, plans, records, registry>>
      BY <2>0, <2>4 DEF Approve
    <3> QED  BY <1>1, <3>1, NoDocumentChanges
  <2>5. ASSUME NEW plan \in plans, Finalize(plan)
        PROVE  SkillInv'
    BY <1>1, <2>5, Finalizes
  <2>6. ASSUME NEW r \in records, Write(r)
        PROVE  SkillInv'
    BY <1>1, <2>6, Writes
  <2>7. ASSUME NEW p \in Policies, ChangePolicy(p)
        PROVE  SkillInv'
    <3>1. policy' \in Policies /\ UNCHANGED <<evaluations, plans, records, registry>>
      BY <2>7 DEF ChangePolicy
    <3> QED  BY <1>1, <3>1, NoDocumentChanges
  <2>8. CASE UNCHANGED skillVars
    <3>1. policy' \in Policies /\ UNCHANGED <<evaluations, plans, records, registry>>
      BY <2>0, <2>8 DEF skillVars
    <3> QED  BY <1>1, <3>1, NoDocumentChanges
  <2> QED  BY <1>1, <2>1, <2>2, <2>3, <2>4, <2>5, <2>6, <2>7, <2>8 DEF SkillNext
<1> QED  BY SkillBegins, <1>1, PTL DEF SkillSpec

(* Policy, evaluations and registry are always of their types.             *)
THEOREM SkillTypeCorrect == SkillSpec => []SkillTypeOK
<1>1. SkillInv => SkillTypeOK
  BY DEF SkillInv
<1> QED  BY <1>1, SkillInvariant, PTL

-----------------------------------------------------------------------------
LEMMA FourPeople ==
    ASSUME NEW a, NEW b, NEW c, NEW d, a # b, a # c, b # c, d \notin {a, b, c}
    PROVE  Cardinality({a, b, c} \cup {d}) = 4
<1>1. IsFiniteSet({}) /\ Cardinality({}) = 0
  BY FS_EmptySet
<1>2. IsFiniteSet({} \cup {a}) /\ Cardinality({} \cup {a}) = 1
  BY <1>1, FS_AddElement
<1>3. {} \cup {a} = {a} /\ {a} \cup {b} = {a, b} /\ {a, b} \cup {c} = {a, b, c}
  OBVIOUS
<1>4. IsFiniteSet({a, b}) /\ Cardinality({a, b}) = 2
  BY <1>2, <1>3, FS_AddElement
<1>5. IsFiniteSet({a, b, c}) /\ Cardinality({a, b, c}) = 3
  BY <1>3, <1>4, FS_AddElement
<1> QED  BY <1>5, FS_AddElement

(* A rate that is rounded down and reaches the threshold reaches it.       *)
LEMMA RateReaches ==
    ASSUME NEW n \in Nat, NEW t \in Nat \ {0}, NEW q \in Nat, n \div t >= q
    PROVE  n >= q * t
<1>1. n \div t \in Nat /\ (n \div t) * t <= n
  OBVIOUS
<1>2. (n \div t) * t >= q * t
  BY <1>1
<1>3. q * t \in Nat /\ (n \div t) * t \in Nat
  BY <1>1
<1> QED  BY <1>1, <1>2, <1>3

LEMMA EnoughWasMeasured ==
    ASSUME NEW m \in Measures, NEW p \in Policies, Suffices(m, p)
    PROVE  /\ m.trials >= p.trials
           /\ m.passed * Scale >= p.threshold * m.trials
           /\ m.score >= p.threshold
<1>1. /\ m.trials \in Nat \ {0} /\ m.passed \in Nat /\ m.score \in Nat
      /\ p.threshold \in Nat /\ Scale \in Nat
  BY SkillAssumption
<1>2. PICK n \in Nat : n = m.passed * Scale
  BY <1>1
<1>3. n \div m.trials >= p.threshold
  BY <1>2 DEF Suffices
<1>4. n >= p.threshold * m.trials
  BY <1>1, <1>3, RateReaches
<1> QED  BY <1>2, <1>4 DEF Suffices

(* Whatever is finalized or in the registry passed an evaluation that      *)
(* sufficed and four different people acted on it, for any people,         *)
(* candidates, measures and policies, in any order of the documents.       *)
THEOREM ActiveSkillsRestOnEvidence == SkillSpec => []SkillsRestOnEvidence
<1>1. SkillInv => SkillsRestOnEvidence
  <2> SUFFICES ASSUME SkillInv PROVE SkillsRestOnEvidence
    OBVIOUS
  <2>1. ASSUME NEW r \in records
        PROVE  /\ Cardinality(Actors(r.evaluation) \cup {r.approver}) = 4
               /\ r.entry.evaluation = r.evaluation
               /\ \E plan \in plans :
                    LET m == plan.evaluation.measured
                    IN  /\ plan.evaluation = r.evaluation /\ plan.from = "evaluated"
                        /\ m.trials >= plan.under.trials
                        /\ m.passed * Scale >= plan.under.threshold * m.trials
                        /\ m.score >= plan.under.threshold
               /\ r.from # "evaluated" =>
                    \E before \in records : /\ before.entry = r.entry.expected
                                            /\ before.entry.state = r.from
                                            /\ before.evaluation = r.evaluation
    <3>1. PICK plan \in plans : OfPlan(r, plan) /\ Supported(plan)
      BY DEF SkillInv, RecordsAreOfPlans, PlansAreSupported
    <3>2. /\ r.evaluation \in evaluations /\ r.approver \notin Actors(r.evaluation)
          /\ r.entry.evaluation = r.evaluation
      BY <3>1 DEF OfPlan, Supported
    <3>3. Cardinality(Actors(r.evaluation) \cup {r.approver}) = 4
      <4>1. /\ r.evaluation.evaluator # r.evaluation.verifier
            /\ Proposer[r.evaluation.candidate] # r.evaluation.evaluator
            /\ Proposer[r.evaluation.candidate] # r.evaluation.verifier
        BY <3>2 DEF SkillInv, EvaluationsAreIndependent
      <4>2. PICK p, x, y, a : /\ p = Proposer[r.evaluation.candidate]
                              /\ x = r.evaluation.evaluator /\ y = r.evaluation.verifier
                              /\ a = r.approver
        OBVIOUS
      <4>3. Actors(r.evaluation) = {p, x, y}
        BY <4>2 DEF Actors
      <4>4. p # x /\ p # y /\ x # y /\ a \notin {p, x, y}
        BY <4>1, <4>2, <4>3, <3>2
      <4>5. Cardinality({p, x, y} \cup {a}) = 4
        BY ONLY <4>4, FourPeople
      <4> QED  BY <4>2, <4>3, <4>5
    <3>4. PICK first \in plans :
            first.evaluation = r.evaluation /\ first.from = "evaluated" /\ Supported(first)
      BY DEF SkillInv, RecordsAreOfPlans, Activated, PlansAreSupported
    <3>5. /\ first.evaluation.measured \in Measures /\ first.under \in Policies
          /\ Suffices(first.evaluation.measured, first.under)
      BY <3>2, <3>4 DEF Supported, SkillInv, SkillTypeOK
    <3>6. /\ first.evaluation.measured.trials >= first.under.trials
          /\ first.evaluation.measured.passed * Scale
               >= first.under.threshold * first.evaluation.measured.trials
          /\ first.evaluation.measured.score >= first.under.threshold
      BY ONLY <3>5, EnoughWasMeasured
    <3>7. \E p \in plans :
            LET m == p.evaluation.measured
            IN  /\ p.evaluation = r.evaluation /\ p.from = "evaluated"
                /\ m.trials >= p.under.trials
                /\ m.passed * Scale >= p.under.threshold * m.trials
                /\ m.score >= p.under.threshold
      BY ONLY <3>4, <3>6
    <3>8. r.from # "evaluated" =>
            \E before \in records : /\ before.entry = r.entry.expected
                                    /\ before.entry.state = r.from
                                    /\ before.evaluation = r.evaluation
      BY <3>1 DEF OfPlan, Supported
    <3> QED  BY <3>2, <3>3, <3>7, <3>8
  <2>2. EntriesAreOfRecords
    BY DEF SkillInv
  <2> QED  BY <2>1, <2>2 DEF SkillsRestOnEvidence, EntriesAreOfRecords
<1> QED  BY <1>1, SkillInvariant, PTL

-----------------------------------------------------------------------------
(* The files of a research (ResearchFiles).                                *)

(* What a content of the manifest lists.                                   *)
ResponsesIn(m) == IF m = Absent THEN <<>> ELSE m.responses
ListedIn(m) == {e.response : e \in ToSet(ResponsesIn(m))}
RevisionsIn(m, role) == {e.revision : e \in {f \in ToSet(ResponsesIn(m)) : f.role = role}}

(* What Valid says of the files f.                                         *)
ValidFiles(f) ==
    /\ \A e \in ToSet(ResponsesIn(f[Manifest])) :
         /\ f[Raw(e.role, e.revision)] = <<e.response>>
         /\ f[FindingsOf(e.role, e.revision)] = <<e.response>>
    /\ IsInjective([i \in DOMAIN ResponsesIn(f[Manifest]) |->
                      ResponsesIn(f[Manifest])[i].response])
    /\ \A role \in Roles : \E n \in 0 .. MaxRevision : RevisionsIn(f[Manifest], role) = 1 .. n

Entries == [response : DOMAIN RoleOf, role : Roles, revision : 1 .. MaxRevision]

(* Every file is there or absent, and the manifest is a list of entries.   *)
FilesTypeOK(f) ==
    /\ f = [p \in ResearchPaths |-> f[p]]
    /\ ResponsesIn(f[Manifest]) \in Seq(Entries)
    /\ f[Manifest] # Absent => f[Manifest] = Listing(ResponsesIn(f[Manifest]))

NextRevision(b, m) == Cardinality(RevisionsIn(m, RoleOf[b])) + 1

(* What an importer of b plans to write when m is in the manifest          *)
DocumentsFor(b, m) ==
    IF b = "packet"
    THEN [p \in {Manifest, Packet} |->
            IF p = Manifest THEN Listing(ResponsesIn(m)) ELSE <<"packet">>]
    ELSE LET role == RoleOf[b]
             n == NextRevision(b, m)
         IN [p \in {Manifest, FindingsOf(role, n), Raw(role, n)} |->
               IF p = Manifest THEN Listing(Append(ResponsesIn(m), Entry(b, n))) ELSE <<b>>]

Plannable(b, m) ==
    b # "packet" => /\ b \notin ListedIn(m)
                    /\ NextRevision(b, m) <= MaxRevision

(* Between planning and checking an importer has a plan for the manifest   *)
(* that it saw.                                                            *)
CheckIsPlanned(c) ==
    call[c].at = "check" =>
      LET documents == call[c].documents
          previous == call[c].previous
      IN /\ previous = [p \in DOMAIN documents |-> previous[p]]
         /\ documents = DocumentsFor(Brings[c], previous[Manifest])
         /\ Plannable(Brings[c], previous[Manifest])

(* The files as undoing leaves them                                        *)
Restored(c) ==
    [p \in ResearchPaths |->
       IF p \in DOMAIN call[c].documents THEN call[c].backup[p] ELSE file[p]]

(* An importer that writes started from sound files, and each file is as   *)
(* it was or as planned.  Whoever else was answered meanwhile relies on    *)
(* what was listed before; or on what is listed now, and then nothing is   *)
(* left to write that could still fail.                                    *)
WorkIsHalfDone(c) ==
    c \in Writing =>
      LET w == call[c]
          before == w.backup[Manifest]
      IN /\ w = [at |-> w.at, documents |-> w.documents, backup |-> w.backup,
                  written |-> w.written]
         /\ w.backup = [p \in DOMAIN w.documents |-> w.backup[p]]
         /\ w.documents = DocumentsFor(Brings[c], before)
         /\ Plannable(Brings[c], before)
         /\ w.written \in Seq(DOMAIN w.documents) /\ IsInjective(w.written)
         /\ FilesTypeOK(Restored(c)) /\ ValidFiles(Restored(c))
         /\ \A p \in DOMAIN w.documents :
              file[p] = IF p \in ToSet(w.written) THEN w.documents[p] ELSE w.backup[p]
         /\ w.at = "undo" => Left(c) # {}
         /\ \/ applied \ {"packet"} \subseteq ListedIn(before)
            \/ /\ w.at = "write" /\ Left(c) = {}
               /\ applied \ {"packet"} \subseteq ListedIn(file[Manifest])

FilesInv ==
    ~spoilt =>
      /\ FilesTypeOK(file)
      /\ call = [c \in Importers |-> call[c]]
      /\ \A c, d \in Writing : c = d
      /\ ImportsAreKept
      /\ \A c \in Importers : CheckIsPlanned(c) /\ WorkIsHalfDone(c)

-----------------------------------------------------------------------------
LEMMA PathsApart ==
    /\ Manifest # Packet
    /\ \A role, n : /\ Raw(role, n) # Manifest /\ FindingsOf(role, n) # Manifest
                    /\ Raw(role, n) # Packet /\ FindingsOf(role, n) # Packet
    /\ \A role, n, r, k : /\ Raw(role, n) # FindingsOf(r, k)
                          /\ Raw(role, n) = Raw(r, k) => role = r /\ n = k
                          /\ FindingsOf(role, n) = FindingsOf(r, k) => role = r /\ n = k
<1>1. Manifest # Packet
  BY DEF Manifest, Packet
<1>2. ASSUME NEW role, NEW n
      PROVE  /\ Raw(role, n) # Manifest /\ FindingsOf(role, n) # Manifest
             /\ Raw(role, n) # Packet /\ FindingsOf(role, n) # Packet
  BY DEF Raw, FindingsOf, Manifest, Packet
<1>3. ASSUME NEW role, NEW n, NEW r, NEW k
      PROVE  /\ Raw(role, n) # FindingsOf(r, k)
             /\ Raw(role, n) = Raw(r, k) => role = r /\ n = k
             /\ FindingsOf(role, n) = FindingsOf(r, k) => role = r /\ n = k
  BY DEF Raw, FindingsOf
<1> QED BY <1>1, <1>2, <1>3

LEMMA PathsThere ==
    /\ Manifest \in ResearchPaths /\ Packet \in ResearchPaths
    /\ \A role \in Roles, n \in 1 .. MaxRevision :
         Raw(role, n) \in ResearchPaths /\ FindingsOf(role, n) \in ResearchPaths
  BY DEF ResearchPaths, Raw, FindingsOf

LEMMA InManifest ==
    /\ Responses = ResponsesIn(file[Manifest])
    /\ Valid <=> ValidFiles(file)
    /\ \A r : Listed(r) <=> r \in ListedIn(file[Manifest])
    /\ \A role : RevisionsOf(role) = RevisionsIn(file[Manifest], role)
<1>1. Responses = ResponsesIn(file[Manifest])
  BY DEF Responses, ResponsesIn
<1> QED BY <1>1 DEF Valid, ValidFiles, Listed, ListedIn, RevisionsOf, RevisionsIn

LEMMA InNextManifest ==
    /\ Valid' <=> ValidFiles(file')
    /\ \A r : Listed(r)' <=> r \in ListedIn(file'[Manifest])
<1>1. Responses' = ResponsesIn(file'[Manifest])
  BY DEF Responses, ResponsesIn
<1> QED BY <1>1 DEF Valid, ValidFiles, Listed, ListedIn, RevisionsOf, RevisionsIn

(* The revisions that a manifest lists are counted.                        *)
LEMMA RevisionsAreCounted ==
    ASSUME NEW f, ValidFiles(f), NEW b \in DOMAIN RoleOf
    PROVE  /\ NextRevision(b, f[Manifest]) \in Nat \ {0}
           /\ RevisionsIn(f[Manifest], RoleOf[b]) = 1 .. (NextRevision(b, f[Manifest]) - 1)
<1>1. PICK n \in 0 .. MaxRevision : RevisionsIn(f[Manifest], RoleOf[b]) = 1 .. n
  BY DEF ValidFiles, Roles
<1>2. n \in Nat
  BY <1>1, ResearchAssumption
<1>3. Cardinality(1 .. n) = n
  BY <1>2, FS_Interval
<1> QED BY <1>1, <1>2, <1>3 DEF NextRevision

LEMMA ListingSays ==
    ASSUME NEW s
    PROVE  /\ Listing(s) # Absent
           /\ ResponsesIn(Listing(s)) = s
<1>1. DOMAIN Listing(s) = {"responses"} /\ Listing(s).responses = s
  BY DEF Listing
<1>2. DOMAIN Absent = {}
  BY DEF Absent
<1> QED BY <1>1, <1>2 DEF ResponsesIn

LEMMA PacketSays ==
    ASSUME NEW m
    PROVE  /\ DOMAIN DocumentsFor("packet", m) = {Manifest, Packet}
           /\ DocumentsFor("packet", m)[Manifest] = Listing(ResponsesIn(m))
           /\ DocumentsFor("packet", m)[Packet] = <<"packet">>
  BY PathsApart DEF DocumentsFor

LEMMA ImportSays ==
    ASSUME NEW m, NEW b \in DOMAIN RoleOf
    PROVE  LET role == RoleOf[b]
               n == NextRevision(b, m)
               documents == DocumentsFor(b, m)
           IN /\ DOMAIN documents = {Manifest, FindingsOf(role, n), Raw(role, n)}
              /\ documents[Manifest] = Listing(Append(ResponsesIn(m), Entry(b, n)))
              /\ documents[FindingsOf(role, n)] = <<b>>
              /\ documents[Raw(role, n)] = <<b>>
<1>1. b # "packet"
  BY ResearchAssumption
<1> QED BY <1>1, PathsApart DEF DocumentsFor

(* Documents replace files that there are, the manifest among them.        *)
LEMMA DocumentsArePaths ==
    ASSUME NEW f, ValidFiles(f), NEW b \in DOMAIN RoleOf \cup {"packet"},
           Plannable(b, f[Manifest])
    PROVE  /\ Manifest \in DOMAIN DocumentsFor(b, f[Manifest])
           /\ DOMAIN DocumentsFor(b, f[Manifest]) \subseteq ResearchPaths
           /\ DocumentsFor(b, f[Manifest]) = [p \in DOMAIN DocumentsFor(b, f[Manifest]) |->
                                                 DocumentsFor(b, f[Manifest])[p]]
<1>1. CASE b = "packet"
  <2>1. DocumentsFor(b, f[Manifest]) = [p \in {Manifest, Packet} |->
           IF p = Manifest THEN Listing(ResponsesIn(f[Manifest])) ELSE <<"packet">>]
    BY <1>1 DEF DocumentsFor
  <2> QED BY <1>1, <2>1, PacketSays, PathsThere
<1>2. CASE b \in DOMAIN RoleOf
  <2> DEFINE n == NextRevision(b, f[Manifest])
  <2>1. n \in 1 .. MaxRevision
    BY <1>2, RevisionsAreCounted, ResearchAssumption DEF Plannable
  <2>2. RoleOf[b] \in Roles
    BY <1>2 DEF Roles
  <2>3. DocumentsFor(b, f[Manifest]) =
           [p \in {Manifest, FindingsOf(RoleOf[b], n), Raw(RoleOf[b], n)} |->
               IF p = Manifest THEN Listing(Append(ResponsesIn(f[Manifest]), Entry(b, n))) ELSE <<b>>]
    BY <1>2, ResearchAssumption DEF DocumentsFor
  <2> HIDE DEF n
  <2> QED BY <2>1, <2>2, <2>3, PathsThere
<1> QED BY <1>1, <1>2

(* What is there when all documents are written.                           *)
Replaced(f, b) ==
    [p \in ResearchPaths |-> IF p \in DOMAIN DocumentsFor(b, f[Manifest])
                             THEN DocumentsFor(b, f[Manifest])[p] ELSE f[p]]

LEMMA PacketIsValid ==
    ASSUME NEW f, FilesTypeOK(f), ValidFiles(f)
    PROVE  /\ FilesTypeOK(Replaced(f, "packet")) /\ ValidFiles(Replaced(f, "packet"))
           /\ ListedIn(Replaced(f, "packet")[Manifest]) = ListedIn(f[Manifest])
<1> DEFINE g == Replaced(f, "packet")
<1>1. /\ g[Manifest] = Listing(ResponsesIn(f[Manifest]))
      /\ \A p \in ResearchPaths \ {Manifest, Packet} : g[p] = f[p]
      /\ g = [p \in ResearchPaths |-> g[p]]
  BY PacketSays, PathsThere DEF Replaced
<1>2. ResponsesIn(g[Manifest]) = ResponsesIn(f[Manifest])
  BY <1>1, ListingSays
<1> HIDE DEF g
<1>3. ASSUME NEW e \in ToSet(ResponsesIn(f[Manifest]))
      PROVE  /\ g[Raw(e.role, e.revision)] = <<e.response>>
             /\ g[FindingsOf(e.role, e.revision)] = <<e.response>>
  <2>1. e \in Entries
    BY DEF ToSet, FilesTypeOK
  <2>2. e.role \in Roles /\ e.revision \in 1 .. MaxRevision
    BY <2>1 DEF Entries
  <2>3. /\ Raw(e.role, e.revision) \in ResearchPaths \ {Manifest, Packet}
        /\ FindingsOf(e.role, e.revision) \in ResearchPaths \ {Manifest, Packet}
    BY <2>2, PathsThere, PathsApart
  <2> QED BY <1>1, <2>3 DEF ValidFiles
<1>4. \A m : ResponsesIn(m) = ResponsesIn(f[Manifest]) => ListedIn(m) = ListedIn(f[Manifest])
             /\ \A role : RevisionsIn(m, role) = RevisionsIn(f[Manifest], role)
  BY DEF ListedIn, RevisionsIn
<1>5. ValidFiles(g)
  BY <1>2, <1>3, <1>4 DEF ValidFiles
<1>6. FilesTypeOK(g)
  BY <1>1, <1>2 DEF FilesTypeOK
<1> QED BY <1>2, <1>4, <1>5, <1>6 DEF g

LEMMA ImportIsValid ==
    ASSUME NEW f, FilesTypeOK(f), ValidFiles(f), NEW b \in DOMAIN RoleOf,
           Plannable(b, f[Manifest])
    PROVE  /\ FilesTypeOK(Replaced(f, b)) /\ ValidFiles(Replaced(f, b))
           /\ ListedIn(Replaced(f, b)[Manifest]) = ListedIn(f[Manifest]) \cup {b}
<1> DEFINE g == Replaced(f, b)
           n == NextRevision(b, f[Manifest])
           role == RoleOf[b]
           old == ResponsesIn(f[Manifest])
           new == ResponsesIn(g[Manifest])
<1>0. /\ n \in 1 .. MaxRevision /\ role \in Roles /\ b # "packet"
      /\ RevisionsIn(f[Manifest], role) = 1 .. (n - 1)
  BY RevisionsAreCounted, ResearchAssumption DEF Plannable, Roles
<1>1. /\ g[Manifest] = Listing(Append(old, Entry(b, n)))
      /\ g[FindingsOf(role, n)] = <<b>> /\ g[Raw(role, n)] = <<b>>
      /\ \A p \in ResearchPaths \ {Manifest, FindingsOf(role, n), Raw(role, n)} : g[p] = f[p]
      /\ g = [p \in ResearchPaths |-> g[p]]
  BY <1>0, ImportSays, PathsThere DEF Replaced
<1>2. new = Append(old, Entry(b, n))
  BY <1>1, ListingSays
<1>3. /\ old \in Seq(Entries) /\ Entry(b, n) \in Entries
      /\ Entry(b, n).response = b /\ Entry(b, n).role = role /\ Entry(b, n).revision = n
  BY <1>0 DEF FilesTypeOK, Entry, Entries
<1> HIDE DEF g, n, role, old, new
<1>4. /\ new \in Seq(Entries) /\ Len(new) = Len(old) + 1
      /\ \A i \in 1 .. Len(old) : new[i] = old[i]
      /\ new[Len(old) + 1] = Entry(b, n)
  BY <1>2, <1>3
<1>5. ToSet(new) = ToSet(old) \cup {Entry(b, n)}
  BY <1>3, <1>4 DEF ToSet
<1>6. ListedIn(g[Manifest]) = ListedIn(f[Manifest]) \cup {b}
  BY <1>3, <1>5 DEF ListedIn, old, new
<1>7. ASSUME NEW e \in ToSet(new)
      PROVE  /\ g[Raw(e.role, e.revision)] = <<e.response>>
             /\ g[FindingsOf(e.role, e.revision)] = <<e.response>>
  <2>1. CASE e = Entry(b, n)
    BY <2>1, <1>1, <1>3
  <2>2. CASE e \in ToSet(old)
    <3>1. e \in Entries
      BY <2>2, <1>3 DEF ToSet
    <3>2. e.role \in Roles /\ e.revision \in 1 .. MaxRevision
      BY <3>1 DEF Entries
    <3>3. e.role = role => e.revision \in 1 .. (n - 1)
      BY <2>2, <1>0 DEF RevisionsIn, old, n, role
    <3>4. ~(e.role = role /\ e.revision = n)
      BY <3>2, <3>3, <1>0 DEF n, role
    <3>5. /\ f[Raw(e.role, e.revision)] = <<e.response>>
          /\ f[FindingsOf(e.role, e.revision)] = <<e.response>>
      BY <2>2 DEF ValidFiles, old
    <3>6. /\ Raw(e.role, e.revision) \in ResearchPaths \ {Manifest, FindingsOf(role, n), Raw(role, n)}
          /\ FindingsOf(e.role, e.revision) \in ResearchPaths \ {Manifest, FindingsOf(role, n), Raw(role, n)}
      BY <3>2, <3>4, PathsThere, PathsApart
    <3> QED BY <3>5, <3>6, <1>1
  <2> QED BY <1>5, <2>1, <2>2
<1>8. IsInjective([i \in DOMAIN new |-> new[i].response])
  <2>1. IsInjective([i \in DOMAIN old |-> old[i].response])
    BY DEF ValidFiles, old
  <2>2. \A i, j \in 1 .. Len(old) : old[i].response = old[j].response => i = j
    BY <2>1, <1>3 DEF IsInjective
  <2>3. \A i \in 1 .. Len(old) : old[i].response # b
    <3>1. \A i \in 1 .. Len(old) : old[i].response \in ListedIn(f[Manifest])
      BY <1>3 DEF ListedIn, ToSet, old
    <3>2. b \notin ListedIn(f[Manifest])
      BY <1>0 DEF Plannable
    <3> QED BY <3>1, <3>2
  <2>4. DOMAIN new = 1 .. (Len(old) + 1) /\ Len(old) \in Nat
    BY <1>3, <1>4
  <2>5. ASSUME NEW i \in DOMAIN new, NEW j \in DOMAIN new, new[i].response = new[j].response
        PROVE  i = j
    BY <2>2, <2>3, <2>4, <2>5, <1>3, <1>4
  <2> QED BY <2>5 DEF IsInjective
<1>9. ASSUME NEW r \in Roles
      PROVE  \E k \in 0 .. MaxRevision : RevisionsIn(g[Manifest], r) = 1 .. k
  <2>1. CASE r = role
    <3>1. RevisionsIn(g[Manifest], r) = RevisionsIn(f[Manifest], r) \cup {n}
      BY <2>1, <1>3, <1>5 DEF RevisionsIn, old, new
    <3>2. RevisionsIn(g[Manifest], r) = 1 .. n
      BY <3>1, <2>1, <1>0 DEF n, role
    <3> QED BY <3>2, <1>0, ResearchAssumption DEF n
  <2>2. CASE r # role
    <3>1. RevisionsIn(g[Manifest], r) = RevisionsIn(f[Manifest], r)
      BY <2>2, <1>3, <1>5 DEF RevisionsIn, old, new
    <3> QED BY <3>1 DEF ValidFiles
  <2> QED BY <2>1, <2>2
<1>10. ValidFiles(g)
  BY <1>7, <1>8, <1>9 DEF ValidFiles, new
<1>11. FilesTypeOK(g)
  BY <1>1, <1>2, <1>4 DEF FilesTypeOK, new
<1> QED BY <1>6, <1>10, <1>11 DEF g

LEMMA ReplacedIsValid ==
    ASSUME NEW f, FilesTypeOK(f), ValidFiles(f), NEW b \in DOMAIN RoleOf \cup {"packet"},
           Plannable(b, f[Manifest])
    PROVE  /\ FilesTypeOK(Replaced(f, b)) /\ ValidFiles(Replaced(f, b))
           /\ ListedIn(Replaced(f, b)[Manifest]) = ListedIn(f[Manifest]) \cup ({b} \ {"packet"})
<1>1. CASE b = "packet"
  BY <1>1, PacketIsValid
<1>2. CASE b \in DOMAIN RoleOf
  BY <1>2, ImportIsValid, ResearchAssumption
<1> QED BY <1>1, <1>2

-----------------------------------------------------------------------------
(* A caller that writes stands between two sound states of the files: the  *)
(* one that undoing leads back to and the one that it is about to make.    *)
LEMMA WriterSays ==
    ASSUME NEW c \in Importers, c \in Writing, WorkIsHalfDone(c), FilesTypeOK(file)
    PROVE  LET before == Restored(c)
               after == Replaced(Restored(c), Brings[c])
           IN /\ Manifest \in DOMAIN call[c].documents
              /\ DOMAIN call[c].documents \subseteq ResearchPaths
              /\ before[Manifest] = call[c].backup[Manifest]
              /\ call[c].documents = DocumentsFor(Brings[c], before[Manifest])
              /\ \A p \in DOMAIN call[c].documents :
                   before[p] = call[c].backup[p] /\ after[p] = call[c].documents[p]
              /\ \A p \in ResearchPaths \ DOMAIN call[c].documents :
                   before[p] = file[p] /\ after[p] = file[p]
              /\ FilesTypeOK(before) /\ ValidFiles(before)
              /\ FilesTypeOK(after) /\ ValidFiles(after)
              /\ ListedIn(after[Manifest]) =
                   ListedIn(before[Manifest]) \cup ({Brings[c]} \ {"packet"})
<1> DEFINE b == Brings[c]
           m == call[c].backup[Manifest]
           f == Restored(c)
<1>1. /\ call[c].documents = DocumentsFor(b, m) /\ Plannable(b, m)
      /\ FilesTypeOK(f) /\ ValidFiles(f)
  BY DEF WorkIsHalfDone
<1>2. b \in DOMAIN RoleOf \cup {"packet"}
  BY ResearchAssumption
<1>3. Manifest \in DOMAIN call[c].documents
  <2>1. CASE b = "packet"
    BY <2>1, <1>1, PacketSays
  <2>2. CASE b \in DOMAIN RoleOf
    BY <2>2, <1>1, ImportSays
  <2> QED BY <2>1, <2>2, <1>2
<1>4. f[Manifest] = m
  BY <1>3, PathsThere DEF Restored
<1>5. /\ DOMAIN call[c].documents \subseteq ResearchPaths
      /\ FilesTypeOK(Replaced(f, b)) /\ ValidFiles(Replaced(f, b))
      /\ ListedIn(Replaced(f, b)[Manifest]) = ListedIn(f[Manifest]) \cup ({b} \ {"packet"})
  BY <1>1, <1>2, <1>4, DocumentsArePaths, ReplacedIsValid
<1>6. /\ \A p \in DOMAIN call[c].documents :
           f[p] = call[c].backup[p] /\ Replaced(f, b)[p] = call[c].documents[p]
      /\ \A p \in ResearchPaths \ DOMAIN call[c].documents :
           f[p] = file[p] /\ Replaced(f, b)[p] = file[p]
  BY <1>1, <1>4, <1>5 DEF Restored, Replaced
<1> QED BY <1>1, <1>3, <1>4, <1>5, <1>6

(* Files that are half written list nothing new, or are seen to be wrong.  *)
LEMMA HalfWrittenListsNothingNew ==
    ASSUME NEW c \in Importers, c \in Writing, WorkIsHalfDone(c), FilesTypeOK(file),
           Valid, Left(c) # {}
    PROVE  ListedIn(file[Manifest]) \subseteq ListedIn(call[c].backup[Manifest])
<1> DEFINE b == Brings[c]
           m == call[c].backup[Manifest]
<1>1. /\ \A p \in DOMAIN call[c].documents :
           file[p] = IF p \in ToSet(call[c].written) THEN call[c].documents[p]
                     ELSE call[c].backup[p]
      /\ call[c].documents = DocumentsFor(b, m)
  BY DEF WorkIsHalfDone
<1>2. Manifest \in DOMAIN call[c].documents
  BY WriterSays
<1>3. CASE Manifest \notin ToSet(call[c].written)
  BY <1>1, <1>2, <1>3
<1>4. CASE Manifest \in ToSet(call[c].written)
  <2>1. file[Manifest] = DocumentsFor(b, m)[Manifest]
    BY <1>1, <1>2, <1>4
  <2>2. CASE b = "packet"
    BY <2>1, <2>2, PacketSays, ListingSays DEF ListedIn
  <2>3. CASE b \in DOMAIN RoleOf
    <3> DEFINE n == NextRevision(b, m)
               role == RoleOf[b]
    <3>1. PICK p \in DOMAIN call[c].documents :
             p \notin ToSet(call[c].written) /\ call[c].backup[p] # call[c].documents[p]
      BY DEF Left
    <3>2. file[p] # call[c].documents[p] /\ p # Manifest
      BY <1>1, <1>4, <3>1
    <3>3. /\ DOMAIN call[c].documents = {Manifest, FindingsOf(role, n), Raw(role, n)}
          /\ call[c].documents[FindingsOf(role, n)] = <<b>>
          /\ call[c].documents[Raw(role, n)] = <<b>>
          /\ call[c].documents[Manifest] = Listing(Append(ResponsesIn(m), Entry(b, n)))
      <4>1. call[c].documents = DocumentsFor(b, m)
        BY <1>1
      <4> HIDE DEF b, m
      <4> QED BY <2>3, <4>1, ImportSays
    <3>4. ResponsesIn(file[Manifest]) = Append(ResponsesIn(m), Entry(b, n))
      BY <1>1, <2>1, <3>3, ListingSays
    <3>5. ResponsesIn(m) \in Seq(Entries)
      BY WriterSays DEF FilesTypeOK
    <3>6. Entry(b, n) \in ToSet(ResponsesIn(file[Manifest]))
      <4> DEFINE s == ResponsesIn(m)
      <4> HIDE DEF s
      <4>1. /\ Len(s) + 1 \in DOMAIN Append(s, Entry(b, n))
            /\ Append(s, Entry(b, n))[Len(s) + 1] = Entry(b, n)
        BY <3>5 DEF s
      <4> QED BY <3>4, <4>1 DEF ToSet, s
    <3>7. /\ file[Raw(role, n)] = <<b>> /\ file[FindingsOf(role, n)] = <<b>>
      <4>1. ValidFiles(file)
        BY InManifest
      <4>2. Entry(b, n).response = b /\ Entry(b, n).role = role /\ Entry(b, n).revision = n
        BY DEF Entry
      <4> HIDE DEF n, role
      <4> QED BY <3>6, <4>1, <4>2 DEF ValidFiles
    <3> QED BY <3>2, <3>3, <3>7
  <2> QED BY <2>2, <2>3, ResearchAssumption
<1> QED BY <1>3, <1>4

LEMMA WrittenIsReplaced ==
    ASSUME NEW c \in Importers, c \in Writing, WorkIsHalfDone(c), FilesTypeOK(file),
           Left(c) = {}
    PROVE  file = Replaced(Restored(c), Brings[c])
<1>1. \A p \in DOMAIN call[c].documents : file[p] = call[c].documents[p]
  BY DEF WorkIsHalfDone, Left
<1>2. file = [p \in ResearchPaths |-> file[p]]
  BY DEF FilesTypeOK
<1>3. Replaced(Restored(c), Brings[c]) =
        [p \in ResearchPaths |-> Replaced(Restored(c), Brings[c])[p]]
  BY DEF Replaced
<1> QED BY <1>1, <1>2, <1>3, WriterSays

-----------------------------------------------------------------------------
(* Steps of a caller that does not write, before and after it.             *)
FilesAreRight ==
    /\ FilesTypeOK(file)
    /\ call = [c \in Importers |-> call[c]]
    /\ \A c, d \in Writing : c = d
    /\ \A c \in Importers : CheckIsPlanned(c) /\ WorkIsHalfDone(c)

LEMMA QuietStep ==
    ASSUME FilesInv, ~spoilt, NEW c \in Importers, NEW new, call' = [call EXCEPT ![c] = new],
           c \notin Writing, new.at \notin {"write", "undo"}, CheckIsPlanned(c)',
           UNCHANGED file, applied \subseteq applied',
           \A r \in applied' \ {"packet"} : r \in applied \/ (Valid /\ Listed(r))
    PROVE  FilesInv'
<1>1. FilesAreRight /\ ImportsAreKept
  BY DEF FilesInv, FilesAreRight
<1>2. /\ call' = [d \in Importers |-> call'[d]] /\ call'[c] = new
      /\ \A d \in Importers \ {c} : call'[d] = call[d]
  BY <1>1 DEF FilesAreRight
<1>3. Writing' = Writing
  BY <1>2 DEF Writing
<1>4. ASSUME NEW d \in Importers
      PROVE  CheckIsPlanned(d)'
  BY <1>1, <1>2 DEF FilesAreRight, CheckIsPlanned
<1>5. ASSUME NEW d \in Importers, d \in Writing
      PROVE  WorkIsHalfDone(d)'
  <2>1. d # c /\ call'[d] = call[d]
    BY <1>2, <1>5
  <2>2. Left(d)' = Left(d) /\ Restored(d)' = Restored(d)
    BY <2>1 DEF Left, Restored
  <2>3. WorkIsHalfDone(d) /\ FilesTypeOK(file)
    BY <1>1 DEF FilesAreRight
  <2> DEFINE before == call[d].backup[Manifest]
  <2>4. \/ applied' \ {"packet"} \subseteq ListedIn(before)
        \/ call[d].at = "write" /\ Left(d) = {}
           /\ applied' \ {"packet"} \subseteq ListedIn(file[Manifest])
    <3>1. CASE Left(d) # {}
      <4>1. applied \ {"packet"} \subseteq ListedIn(before)
        BY <1>5, <2>3, <3>1 DEF WorkIsHalfDone
      <4>2. \A r : Valid /\ Listed(r) => r \in ListedIn(before)
        BY <1>5, <2>3, <3>1, HalfWrittenListsNothingNew, InManifest
      <4> QED BY <4>1, <4>2
    <3>2. CASE Left(d) = {}
      <4>1. call[d].at = "write"
        BY <1>5, <2>3, <3>2 DEF WorkIsHalfDone, Writing
      <4>2. ListedIn(before) \subseteq ListedIn(file[Manifest])
        BY <1>5, <2>3, <3>2, WriterSays, WrittenIsReplaced
      <4>3. applied \ {"packet"} \subseteq ListedIn(file[Manifest])
        BY <1>5, <2>3, <4>2 DEF WorkIsHalfDone
      <4>4. \A r : Valid /\ Listed(r) => r \in ListedIn(file[Manifest])
        BY InManifest
      <4> QED BY <3>2, <4>1, <4>3, <4>4
    <3> QED BY <3>1, <3>2
  <2> QED BY <1>3, <1>5, <2>1, <2>2, <2>3, <2>4 DEF WorkIsHalfDone
<1>6. \A d \in Importers : WorkIsHalfDone(d)'
  BY <1>3, <1>5 DEF WorkIsHalfDone
<1>7. ImportsAreKept'
  <2>1. Valid' = Valid /\ \A r : Listed(r)' = Listed(r)
    BY DEF Valid, Listed, Responses, RevisionsOf
  <2> QED BY <1>1, <1>3, <2>1 DEF ImportsAreKept
<1>8. FilesTypeOK(file)'
  BY <1>1 DEF FilesAreRight, FilesTypeOK
<1> QED BY <1>1, <1>2, <1>3, <1>4, <1>6, <1>7, <1>8 DEF FilesInv, FilesAreRight

LEMMA PlanFilesKeeps ==
    ASSUME FilesInv, ~spoilt, NEW c \in Importers,
           PlanFiles(c) \/ Refuse(c) \/ (ImporterDies(c) /\ c \notin Writing)
    PROVE  FilesInv'
<1>0. call = [d \in Importers |-> call[d]]
  BY DEF FilesInv
<1>1. CASE PlanFiles(c)
  <2> DEFINE new == [at |-> "approved", documents |-> Documents(c), effects |-> Effects(Documents(c))]
  <2>1. call' = [call EXCEPT ![c] = new] /\ UNCHANGED <<file, applied>> /\ c \notin Writing
    BY <1>1 DEF PlanFiles, Writing
  <2>2. new.at = "approved"
    OBVIOUS
  <2> HIDE DEF new
  <2>3. CheckIsPlanned(c)'
    BY <1>0, <2>1, <2>2 DEF CheckIsPlanned
  <2> QED BY <2>1, <2>2, <2>3, QuietStep
<1>2. CASE Refuse(c)
  <2>1. call' = [call EXCEPT ![c] = Idle] /\ UNCHANGED <<file, applied>> /\ c \notin Writing
    BY <1>2 DEF Refuse, Writing
  <2>2. Idle.at = "idle"
    BY DEF Idle
  <2>3. CheckIsPlanned(c)'
    BY <1>0, <2>1, <2>2 DEF CheckIsPlanned
  <2> QED BY <2>1, <2>2, <2>3, QuietStep
<1>3. CASE ImporterDies(c) /\ c \notin Writing
  <2> DEFINE new == [at |-> "died"]
  <2>1. call' = [call EXCEPT ![c] = new] /\ UNCHANGED <<file, applied>> /\ c \notin Writing
    BY <1>3 DEF ImporterDies
  <2>2. new.at = "died"
    OBVIOUS
  <2> HIDE DEF new
  <2>3. CheckIsPlanned(c)'
    BY <1>0, <2>1, <2>2 DEF CheckIsPlanned
  <2> QED BY <2>1, <2>2, <2>3, QuietStep
<1> QED BY <1>1, <1>2, <1>3

LEMMA PlanAgainKeeps ==
    ASSUME FilesInv, ~spoilt, NEW c \in Importers, PlanAgain(c)
    PROVE  FilesInv'
<1> DEFINE documents == Documents(c)
<1>0. /\ call = [d \in Importers |-> call[d]] /\ FilesTypeOK(file)
      /\ Valid /\ ValidFiles(file) /\ c \notin Writing /\ UNCHANGED file
      /\ Brings[c] \in DOMAIN RoleOf \cup {"packet"}
  BY InManifest, ResearchAssumption DEF FilesInv, PlanAgain, MayPlan, Writing
<1>1. \/ Brings[c] # "packet" /\ Listed(Brings[c]) /\ documents = <<>>
      \/ /\ documents = DocumentsFor(Brings[c], file[Manifest])
         /\ Plannable(Brings[c], file[Manifest])
  <2>1. CASE Brings[c] = "packet"
    BY <2>1, InManifest DEF Documents, PacketDocuments, DocumentsFor, Plannable
  <2>2. CASE Brings[c] # "packet" /\ Listed(Brings[c])
    BY <2>2 DEF Documents
  <2>3. CASE Brings[c] # "packet" /\ ~Listed(Brings[c])
    <3>1. /\ documents = ImportDocuments(Brings[c])
          /\ Cardinality(RevisionsOf(RoleOf[Brings[c]])) < MaxRevision
      BY <2>3 DEF Documents, PlanAgain, MayPlan, MayImport
    <3>2. ImportDocuments(Brings[c]) = DocumentsFor(Brings[c], file[Manifest])
      BY <2>3, InManifest DEF ImportDocuments, DocumentsFor, NextRevision
    <3>3. Plannable(Brings[c], file[Manifest])
      <4>1. NextRevision(Brings[c], file[Manifest]) \in Nat \ {0}
        BY <1>0, <2>3, RevisionsAreCounted
      <4>2. \E k \in Nat : Cardinality(RevisionsOf(RoleOf[Brings[c]])) = k
        <5>1. PICK k \in 0 .. MaxRevision : RevisionsOf(RoleOf[Brings[c]]) = 1 .. k
          BY <1>0, <2>3 DEF Valid, Roles
        <5> QED BY <5>1, FS_Interval, ResearchAssumption
      <4> QED BY <2>3, <3>1, <4>2, InManifest, ResearchAssumption DEF Plannable, NextRevision
    <3> QED BY <3>1, <3>2, <3>3
  <2> QED BY <2>1, <2>2, <2>3
<1>2. CASE call[c].effects = {}
  <2> DEFINE new == [at |-> "applied"]
  <2>1. /\ call' = [call EXCEPT ![c] = new]
        /\ applied' = applied \cup {Brings[c]}
    BY <1>2 DEF PlanAgain
  <2>2. new.at = "applied"
    OBVIOUS
  <2> HIDE DEF new
  <2>3. CheckIsPlanned(c)'
    BY <1>0, <2>1, <2>2 DEF CheckIsPlanned
  <2>4. Brings[c] = "packet" \/ Listed(Brings[c])
    <3> SUFFICES ASSUME Brings[c] # "packet", ~Listed(Brings[c]) PROVE FALSE
      OBVIOUS
    <3> DEFINE b == Brings[c]
               old == ResponsesIn(file[Manifest])
               n == NextRevision(b, file[Manifest])
    <3>1. /\ b \in DOMAIN RoleOf /\ documents = DocumentsFor(b, file[Manifest])
          /\ file[Manifest] # Absent
      BY <1>0, <1>1 DEF PlanAgain, MayPlan, MayImport
    <3>2. /\ Manifest \in DOMAIN documents
          /\ documents[Manifest] = Listing(Append(old, Entry(b, n)))
      BY <3>1, ImportSays
    <3>3. file[Manifest] = documents[Manifest]
      BY <1>2, <3>2 DEF PlanAgain, Effects
    <3>4. old = Append(old, Entry(b, n)) /\ old \in Seq(Entries)
      BY <1>0, <3>2, <3>3, ListingSays DEF FilesTypeOK
    <3> HIDE DEF old, n
    <3>5. Len(Append(old, Entry(b, n))) = Len(old) + 1 /\ Len(old) \in Nat
      BY <3>4
    <3> QED BY <3>4, <3>5
  <2> QED BY <1>0, <2>1, <2>2, <2>3, <2>4, QuietStep
<1>3. CASE call[c].effects # {}
  <2> DEFINE new == [at |-> "check", documents |-> documents,
                     previous |-> [p \in DOMAIN documents |-> file[p]]]
  <2>1. call' = [call EXCEPT ![c] = new] /\ UNCHANGED applied
    BY <1>3 DEF PlanAgain
  <2>2. documents = DocumentsFor(Brings[c], file[Manifest]) /\ Plannable(Brings[c], file[Manifest])
    <3>1. documents # <<>>
      <4>1. Effects(documents) # {}
        BY <1>3 DEF PlanAgain
      <4>2. DOMAIN <<>> = {}
        OBVIOUS
      <4> HIDE DEF documents
      <4> QED BY <4>1, <4>2 DEF Effects
    <3> QED BY <1>1, <3>1
  <2>3. Manifest \in DOMAIN documents
    BY <1>0, <2>2, DocumentsArePaths
  <2> HIDE DEF documents
  <2>4. /\ new.at = "check" /\ new.documents = documents
        /\ new.previous = [p \in DOMAIN documents |-> file[p]]
    OBVIOUS
  <2> HIDE DEF new
  <2>5. call'[c] = new
    BY <1>0, <2>1
  <2>6. CheckIsPlanned(c)'
    BY <2>2, <2>3, <2>4, <2>5 DEF CheckIsPlanned
  <2> QED BY <1>0, <2>1, <2>4, <2>6, QuietStep
<1> QED BY <1>2, <1>3

-----------------------------------------------------------------------------
(* Steps of the caller that writes.                                        *)
LEMMA OthersDoNotWrite ==
    ASSUME FilesInv, ~spoilt, NEW c \in Importers, NEW new, call' = [call EXCEPT ![c] = new],
           Writing \subseteq {c}
    PROVE  /\ call' = [d \in Importers |-> call'[d]] /\ call'[c] = new
           /\ \A d \in Writing' : d = c
           /\ c \in Writing' <=> new.at \in {"write", "undo"}
           /\ \A d \in Importers \ {c} : CheckIsPlanned(d)' /\ WorkIsHalfDone(d)'
<1>1. /\ call' = [d \in Importers |-> call'[d]] /\ call'[c] = new
      /\ \A d \in Importers \ {c} : call'[d] = call[d]
  BY DEF FilesInv
<1>2. /\ \A d \in Writing' : d = c
      /\ c \in Writing' <=> new.at \in {"write", "undo"}
  BY <1>1 DEF Writing
<1>3. ASSUME NEW d \in Importers \ {c}
      PROVE  CheckIsPlanned(d)' /\ WorkIsHalfDone(d)'
  <2>1. CheckIsPlanned(d)'
    BY <1>1 DEF FilesInv, CheckIsPlanned
  <2>2. d \notin Writing'
    BY <1>2
  <2> QED BY <2>1, <2>2 DEF WorkIsHalfDone
<1> QED BY <1>1, <1>2, <1>3

LEMMA CheckKeeps ==
    ASSUME FilesInv, ~spoilt, NEW c \in Importers, Check(c)
    PROVE  FilesInv'
<1> SUFFICES ASSUME ~spoilt' PROVE FilesInv'
  BY DEF FilesInv
<1> DEFINE documents == call[c].documents
           new == [at |-> "write", documents |-> documents,
                   backup |-> [p \in DOMAIN documents |-> file[p]], written |-> <<>>]
<1>1. /\ Writing = {} /\ call' = [call EXCEPT ![c] = new] /\ UNCHANGED <<file, applied>>
      /\ \A p \in DOMAIN call[c].previous : file[p] = call[c].previous[p]
      /\ call[c].at = "check"
  BY DEF Check, Backup
<1>2. /\ FilesTypeOK(file) /\ ValidFiles(file)
      /\ applied \ {"packet"} \subseteq ListedIn(file[Manifest])
  BY <1>1, InManifest DEF FilesInv, ImportsAreKept
<1>3. documents = DocumentsFor(Brings[c], file[Manifest]) /\ Plannable(Brings[c], file[Manifest])
  <2>1. /\ call[c].previous = [p \in DOMAIN documents |-> call[c].previous[p]]
        /\ documents = DocumentsFor(Brings[c], call[c].previous[Manifest])
        /\ Plannable(Brings[c], call[c].previous[Manifest])
    BY <1>1 DEF FilesInv, CheckIsPlanned
  <2>2. Manifest \in DOMAIN documents
    <3> DEFINE b == Brings[c]
               m == call[c].previous[Manifest]
    <3>1. documents = DocumentsFor(b, m)
      BY <2>1
    <3> HIDE DEF documents, m
    <3>2. CASE b = "packet"
      BY <3>1, <3>2, PacketSays
    <3>3. CASE b \in DOMAIN RoleOf
      BY <3>1, <3>3, ImportSays
    <3> QED BY <3>2, <3>3, ResearchAssumption
  <2> QED BY <1>1, <2>1, <2>2
<1>4. Manifest \in DOMAIN documents /\ DOMAIN documents \subseteq ResearchPaths
  BY <1>2, <1>3, ResearchAssumption, DocumentsArePaths
<1> HIDE DEF documents
<1>5. /\ new.at = "write" /\ new.documents = documents /\ new.written = <<>>
      /\ new.backup = [p \in DOMAIN documents |-> file[p]]
      /\ new = [at |-> new.at, documents |-> new.documents, backup |-> new.backup,
                 written |-> new.written]
  OBVIOUS
<1> HIDE DEF new
<1>6. /\ call' = [d \in Importers |-> call'[d]] /\ call'[c] = new
      /\ \A d \in Writing' : d = c
      /\ c \in Writing'
      /\ \A d \in Importers \ {c} : CheckIsPlanned(d)' /\ WorkIsHalfDone(d)'
  BY <1>1, <1>5, OthersDoNotWrite
<1>7. Restored(c)' = file
  BY <1>1, <1>2, <1>5, <1>6 DEF Restored, FilesTypeOK
<1>8. WorkIsHalfDone(c)'
  <2>1. <<>> \in Seq(DOMAIN documents) /\ IsInjective(<<>>) /\ ToSet(<<>>) = {}
    BY DEF IsInjective, ToSet
  <2>2. new.backup[Manifest] = file[Manifest]
    BY <1>4, <1>5
  <2>3. /\ new.backup = [p \in DOMAIN new.documents |-> new.backup[p]]
        /\ new.documents = DocumentsFor(Brings[c], new.backup[Manifest])
        /\ Plannable(Brings[c], new.backup[Manifest])
        /\ new.written \in Seq(DOMAIN new.documents) /\ IsInjective(new.written)
        /\ \A p \in DOMAIN new.documents :
              file'[p] = IF p \in ToSet(new.written) THEN new.documents[p] ELSE new.backup[p]
        /\ applied' \ {"packet"} \subseteq ListedIn(new.backup[Manifest])
    BY <1>1, <1>2, <1>3, <1>5, <2>1, <2>2
  <2>4. FilesTypeOK(Restored(c)') /\ ValidFiles(Restored(c)')
    BY <1>2, <1>7
  <2> QED BY <1>5, <1>6, <2>3, <2>4 DEF WorkIsHalfDone, FilesTypeOK, ValidFiles
<1>9. CheckIsPlanned(c)'
  BY <1>5, <1>6 DEF CheckIsPlanned
<1>10. ImportsAreKept' /\ FilesTypeOK(file)'
  BY <1>1, <1>2, <1>6 DEF ImportsAreKept, FilesTypeOK
<1> QED BY <1>6, <1>8, <1>9, <1>10 DEF FilesInv

LEMMA OneWriter ==
    ASSUME FilesInv, ~spoilt, NEW c \in Importers, c \in Writing
    PROVE  /\ Writing \subseteq {c} /\ WorkIsHalfDone(c) /\ FilesTypeOK(file)
           /\ call[c] = [at |-> call[c].at, documents |-> call[c].documents,
                         backup |-> call[c].backup, written |-> call[c].written]
           /\ call[c].written \in Seq(DOMAIN call[c].documents)
           /\ IsInjective(call[c].written)
  BY DEF FilesInv, WorkIsHalfDone

LEMMA WriteFileKeeps ==
    ASSUME FilesInv, ~spoilt, NEW c \in Importers, WriteFile(c)
    PROVE  FilesInv'
<1> DEFINE w == call[c]
           before == Restored(c)
           after == Replaced(Restored(c), Brings[c])
<1>0. c \in Writing /\ w.at = "write" /\ UNCHANGED <<applied, spoilt>>
  BY DEF WriteFile, Writing
<1>1. PICK p \in Left(c) :
         /\ file' = [file EXCEPT ![p] = w.documents[p]]
         /\ call' = [call EXCEPT ![c].written = Append(@, p)]
  BY DEF WriteFile
<1>2. /\ p \in DOMAIN w.documents /\ p \notin ToSet(w.written)
      /\ p \in ResearchPaths
  BY <1>0, OneWriter, WriterSays DEF Left
<1> DEFINE new == [w EXCEPT !.written = Append(@, p)]
<1>3. call' = [call EXCEPT ![c] = new]
  BY <1>1 DEF FilesInv
<1>4. /\ new.at = "write" /\ new.documents = w.documents /\ new.backup = w.backup
      /\ new.written = Append(w.written, p)
      /\ new = [at |-> new.at, documents |-> new.documents, backup |-> new.backup,
                written |-> new.written]
  <2>1. w = [at |-> w.at, documents |-> w.documents, backup |-> w.backup, written |-> w.written]
    BY <1>0, OneWriter
  <2>2. w.at = "write"
    BY <1>0
  <2> HIDE DEF w
  <2> QED BY <2>1, <2>2
<1> HIDE DEF new
<1>5. /\ call' = [d \in Importers |-> call'[d]] /\ call'[c] = new
      /\ \A d \in Writing' : d = c
      /\ c \in Writing'
      /\ \A d \in Importers \ {c} : CheckIsPlanned(d)' /\ WorkIsHalfDone(d)'
  BY <1>0, <1>3, <1>4, OneWriter, OthersDoNotWrite
<1>6. /\ file' = [q \in ResearchPaths |-> file'[q]]
      /\ file'[p] = w.documents[p]
      /\ \A q \in ResearchPaths \ {p} : file'[q] = file[q]
  BY <1>0, <1>1, <1>2, OneWriter DEF FilesTypeOK
<1>7. Restored(c)' = before
  BY <1>2, <1>4, <1>5, <1>6 DEF Restored
<1>8. /\ new.written \in Seq(DOMAIN w.documents) /\ IsInjective(new.written)
      /\ ToSet(new.written) = ToSet(w.written) \cup {p}
  <2> DEFINE s == w.written
  <2>1. s \in Seq(DOMAIN w.documents) /\ IsInjective(s) /\ p \notin ToSet(s)
    BY <1>0, <1>2, OneWriter
  <2> HIDE DEF s
  <2>2. /\ Append(s, p) \in Seq(DOMAIN w.documents)
        /\ DOMAIN Append(s, p) = 1 .. (Len(s) + 1) /\ DOMAIN s = 1 .. Len(s) /\ Len(s) \in Nat
        /\ \A i \in 1 .. Len(s) : Append(s, p)[i] = s[i]
        /\ Append(s, p)[Len(s) + 1] = p
    BY <1>2, <2>1
  <2>3. IsInjective(Append(s, p))
    BY <2>1, <2>2 DEF IsInjective, ToSet
  <2>4. ToSet(Append(s, p)) = ToSet(s) \cup {p}
    BY <2>2 DEF ToSet
  <2> QED BY <1>4, <2>2, <2>3, <2>4 DEF s
<1>9. \A q \in DOMAIN w.documents :
         file'[q] = IF q \in ToSet(new.written) THEN w.documents[q] ELSE w.backup[q]
  BY <1>0, <1>6, <1>8, OneWriter, WriterSays DEF WorkIsHalfDone
<1>10. WorkIsHalfDone(c)'
  <2>1. applied \ {"packet"} \subseteq ListedIn(w.backup[Manifest])
    BY <1>0, <1>1, OneWriter DEF WorkIsHalfDone
  <2>2. /\ w.backup = [q \in DOMAIN w.documents |-> w.backup[q]]
        /\ w.documents = DocumentsFor(Brings[c], w.backup[Manifest])
        /\ Plannable(Brings[c], w.backup[Manifest])
        /\ FilesTypeOK(before) /\ ValidFiles(before)
    BY <1>0, OneWriter DEF WorkIsHalfDone
  <2>3. FilesTypeOK(Restored(c)') /\ ValidFiles(Restored(c)')
    BY <1>7, <2>2
  <2> HIDE DEF w, before
  <2> QED BY <1>0, <1>4, <1>5, <1>8, <1>9, <2>1, <2>2, <2>3
      DEF WorkIsHalfDone, FilesTypeOK, ValidFiles
<1>11. CheckIsPlanned(c)'
  BY <1>4, <1>5 DEF CheckIsPlanned
<1>12. FilesTypeOK(file')
  <2>1. FilesTypeOK(after) /\ after[p] = w.documents[p] /\ FilesTypeOK(file)
    BY <1>0, <1>2, OneWriter, WriterSays
  <2>2. file'[Manifest] \in {file[Manifest], after[Manifest]}
    BY <1>6, <2>1, PathsThere
  <2> HIDE DEF after
  <2> QED BY <1>6, <2>1, <2>2 DEF FilesTypeOK
<1>13. ImportsAreKept'
  BY <1>5 DEF ImportsAreKept
<1> QED BY <1>5, <1>10, <1>11, <1>12, <1>13 DEF FilesInv, FilesTypeOK

LEMMA DoneKeeps ==
    ASSUME FilesInv, ~spoilt, NEW c \in Importers, Done(c)
    PROVE  FilesInv'
<1> DEFINE after == Replaced(Restored(c), Brings[c])
           new == [at |-> "applied"]
<1>1. /\ c \in Writing /\ Left(c) = {} /\ UNCHANGED <<file, spoilt>>
      /\ call' = [call EXCEPT ![c] = new] /\ applied' = applied \cup {Brings[c]}
  BY DEF Done, Writing
<1>2. new.at = "applied"
  OBVIOUS
<1> HIDE DEF new
<1>3. /\ call' = [d \in Importers |-> call'[d]] /\ call'[c] = new
      /\ Writing' = {}
      /\ \A d \in Importers \ {c} : CheckIsPlanned(d)' /\ WorkIsHalfDone(d)'
  <2>1. Writing \subseteq {c}
    BY <1>1, OneWriter
  <2>2. /\ call' = [d \in Importers |-> call'[d]] /\ call'[c] = new
        /\ \A d \in Writing' : d = c
        /\ c \in Writing' <=> new.at \in {"write", "undo"}
        /\ \A d \in Importers \ {c} : CheckIsPlanned(d)' /\ WorkIsHalfDone(d)'
    BY <1>1, <2>1, OthersDoNotWrite
  <2> QED BY <1>2, <2>2
<1>4. file = after
  BY <1>1, OneWriter, WrittenIsReplaced
<1>5. Valid'
  BY <1>1, <1>4, OneWriter, WriterSays, InNextManifest
<1>6. \A r \in applied' \ {"packet"} : Listed(r)'
  <2>1. /\ ListedIn(after[Manifest]) =
             ListedIn(call[c].backup[Manifest]) \cup ({Brings[c]} \ {"packet"})
    BY <1>1, OneWriter, WriterSays
  <2>2. \/ applied \ {"packet"} \subseteq ListedIn(call[c].backup[Manifest])
        \/ applied \ {"packet"} \subseteq ListedIn(file[Manifest])
    BY <1>1, OneWriter DEF WorkIsHalfDone
  <2>3. \A r \in applied' \ {"packet"} : r \in ListedIn(file[Manifest])
    BY <1>1, <1>4, <2>1, <2>2
  <2> QED BY <1>1, <2>3, InNextManifest
<1>7. CheckIsPlanned(c)' /\ WorkIsHalfDone(c)'
  BY <1>2, <1>3 DEF CheckIsPlanned, WorkIsHalfDone
<1>8. FilesTypeOK(file)'
  BY <1>1, OneWriter DEF FilesTypeOK
<1> QED BY <1>3, <1>5, <1>6, <1>7, <1>8 DEF FilesInv, ImportsAreKept

LEMMA WriteFailsKeeps ==
    ASSUME FilesInv, ~spoilt, NEW c \in Importers, WriteFails(c)
    PROVE  FilesInv'
<1> DEFINE w == call[c]
           new == [w EXCEPT !.at = "undo"]
<1>1. /\ c \in Writing /\ Left(c) # {} /\ UNCHANGED <<file, applied, spoilt>>
      /\ call' = [call EXCEPT ![c] = new]
  BY DEF WriteFails, Writing, FilesInv
<1>2. /\ new.at = "undo" /\ new.documents = w.documents /\ new.backup = w.backup
      /\ new.written = w.written
      /\ new = [at |-> new.at, documents |-> new.documents, backup |-> new.backup,
                written |-> new.written]
  <2>1. w = [at |-> w.at, documents |-> w.documents, backup |-> w.backup, written |-> w.written]
    BY <1>1, OneWriter
  <2> HIDE DEF w
  <2> QED BY <2>1
<1> HIDE DEF new
<1>3. /\ call' = [d \in Importers |-> call'[d]] /\ call'[c] = new
      /\ \A d \in Writing' : d = c
      /\ c \in Writing'
      /\ \A d \in Importers \ {c} : CheckIsPlanned(d)' /\ WorkIsHalfDone(d)'
  BY <1>1, <1>2, OneWriter, OthersDoNotWrite
<1>4. Restored(c)' = Restored(c) /\ Left(c)' = Left(c)
  BY <1>1, <1>2, <1>3 DEF Restored, Left
<1>5. WorkIsHalfDone(c)'
  <2>1. FilesTypeOK(Restored(c)') /\ ValidFiles(Restored(c)')
    BY <1>1, <1>4, OneWriter DEF WorkIsHalfDone
  <2>2. applied \ {"packet"} \subseteq ListedIn(w.backup[Manifest])
    BY <1>1, OneWriter DEF WorkIsHalfDone
  <2>3. /\ w.backup = [q \in DOMAIN w.documents |-> w.backup[q]]
        /\ w.documents = DocumentsFor(Brings[c], w.backup[Manifest])
        /\ Plannable(Brings[c], w.backup[Manifest])
        /\ w.written \in Seq(DOMAIN w.documents) /\ IsInjective(w.written)
        /\ \A p \in DOMAIN w.documents :
              file[p] = IF p \in ToSet(w.written) THEN w.documents[p] ELSE w.backup[p]
    BY <1>1, OneWriter DEF WorkIsHalfDone
  <2>4. /\ call'[c] = new /\ Left(c)' # {} /\ applied' = applied /\ file' = file
    BY <1>1, <1>3, <1>4
  <2> HIDE DEF w
  <2>5. /\ new.backup = [q \in DOMAIN new.documents |-> new.backup[q]]
        /\ new.documents = DocumentsFor(Brings[c], new.backup[Manifest])
        /\ Plannable(Brings[c], new.backup[Manifest])
        /\ new.written \in Seq(DOMAIN new.documents) /\ IsInjective(new.written)
        /\ \A p \in DOMAIN new.documents :
              file'[p] = IF p \in ToSet(new.written) THEN new.documents[p] ELSE new.backup[p]
        /\ applied' \ {"packet"} \subseteq ListedIn(new.backup[Manifest])
    BY <1>2, <2>2, <2>3, <2>4
  <2> QED BY <1>2, <2>1, <2>4, <2>5 DEF WorkIsHalfDone, FilesTypeOK, ValidFiles
<1>6. CheckIsPlanned(c)'
  BY <1>2, <1>3 DEF CheckIsPlanned
<1>7. ImportsAreKept' /\ FilesTypeOK(file)'
  BY <1>1, <1>3, OneWriter DEF ImportsAreKept, FilesTypeOK
<1> QED BY <1>3, <1>5, <1>6, <1>7 DEF FilesInv

LEMMA UndoKeeps ==
    ASSUME FilesInv, ~spoilt, NEW c \in Importers, Undo(c)
    PROVE  FilesInv'
<1> DEFINE w == call[c]
           before == Restored(c)
           s == w.written
<1>0. /\ c \in Writing /\ w.at = "undo" /\ UNCHANGED <<applied, spoilt>>
      /\ Writing \subseteq {c} /\ FilesTypeOK(file)
      /\ FilesTypeOK(before) /\ ValidFiles(before)
      /\ s \in Seq(DOMAIN w.documents) /\ IsInjective(s)
      /\ applied \ {"packet"} \subseteq ListedIn(before[Manifest])
      /\ Left(c) # {}
  <2>1. c \in Writing /\ w.at = "undo" /\ UNCHANGED <<applied, spoilt>>
    BY DEF Undo, Writing
  <2>2. /\ applied \ {"packet"} \subseteq ListedIn(w.backup[Manifest])
        /\ Left(c) # {}
    BY <2>1, OneWriter DEF WorkIsHalfDone
  <2>3. before[Manifest] = w.backup[Manifest] /\ FilesTypeOK(before) /\ ValidFiles(before)
    BY <2>1, OneWriter, WriterSays
  <2> QED BY <2>1, <2>2, <2>3, OneWriter
<1>1. \A p \in DOMAIN w.documents :
         file[p] = IF p \in ToSet(s) THEN w.documents[p] ELSE w.backup[p]
  BY <1>0, OneWriter DEF WorkIsHalfDone
<1>2. CASE s = <<>>
  <2>1. call' = [call EXCEPT ![c] = Idle] /\ UNCHANGED file
    BY <1>2 DEF Undo
  <2>2. Idle.at = "idle"
    BY DEF Idle
  <2>3. /\ call' = [d \in Importers |-> call'[d]] /\ call'[c] = Idle
        /\ \A d \in Writing' : d = c
        /\ c \in Writing' <=> Idle.at \in {"write", "undo"}
        /\ \A d \in Importers \ {c} : CheckIsPlanned(d)' /\ WorkIsHalfDone(d)'
    BY <1>0, <2>1, OthersDoNotWrite
  <2>4. file = before
    <3>1. ToSet(s) = {}
      BY <1>2 DEF ToSet
    <3>2. \A p \in DOMAIN w.documents : file[p] = w.backup[p]
      BY <1>1, <3>1
    <3> QED BY <1>0, <3>2 DEF Restored, FilesTypeOK
  <2>5. Valid' /\ \A r \in applied' \ {"packet"} : Listed(r)'
    <3>1. ValidFiles(file) /\ applied \ {"packet"} \subseteq ListedIn(file[Manifest])
      BY <1>0, <2>4
    <3>2. file' = file /\ applied' = applied
      BY <1>0, <2>1
    <3> QED BY <3>1, <3>2, InNextManifest
  <2>6. CheckIsPlanned(c)' /\ WorkIsHalfDone(c)'
    BY <2>2, <2>3 DEF CheckIsPlanned, WorkIsHalfDone
  <2>7. FilesTypeOK(file)'
    BY <1>0, <2>1 DEF FilesTypeOK
  <2>8. Writing' = {}
    BY <2>2, <2>3
  <2> QED BY <2>3, <2>5, <2>6, <2>7, <2>8 DEF FilesInv, ImportsAreKept
<1>3. CASE s # <<>>
  <2> DEFINE p == Last(s)
             new == [w EXCEPT !.written = Front(@)]
  <2>1. file' = [file EXCEPT ![p] = w.backup[p]] /\ call' = [call EXCEPT ![c] = new]
    BY <1>3 DEF Undo, FilesInv
  <2>2. /\ new.at = "undo" /\ new.documents = w.documents /\ new.backup = w.backup
        /\ new.written = Front(s)
        /\ new = [at |-> new.at, documents |-> new.documents, backup |-> new.backup,
                  written |-> new.written]
    <3>1. w = [at |-> w.at, documents |-> w.documents, backup |-> w.backup, written |-> w.written]
      BY <1>0, OneWriter
    <3>2. w.at = "undo"
      BY <1>0
    <3> HIDE DEF w
    <3> QED BY <3>1, <3>2 DEF s
  <2> HIDE DEF new
  <2>3. /\ p \in DOMAIN w.documents /\ Front(s) \in Seq(DOMAIN w.documents)
        /\ IsInjective(Front(s)) /\ ToSet(Front(s)) = ToSet(s) \ {p}
    <3> DEFINE D == DOMAIN w.documents
    <3>0. s \in Seq(D) /\ IsInjective(s) /\ s # <<>>
      BY <1>0, <1>3
    <3> HIDE DEF s, D
    <3>1. Len(s) \in Nat \ {0} /\ DOMAIN s = 1 .. Len(s) /\ p = s[Len(s)]
      BY <3>0 DEF Last
    <3>2. /\ Front(s) \in Seq(D) /\ DOMAIN Front(s) = 1 .. (Len(s) - 1)
          /\ \A i \in 1 .. (Len(s) - 1) : Front(s)[i] = s[i]
      BY <3>0, <3>1 DEF Front
    <3>3. p \in D
      BY <3>0, <3>1
    <3>4. IsInjective(Front(s))
      BY <3>0, <3>1, <3>2 DEF IsInjective
    <3>5. ToSet(Front(s)) = ToSet(s) \ {p}
      BY <3>0, <3>1, <3>2 DEF IsInjective, ToSet
    <3> QED BY <3>2, <3>3, <3>4, <3>5 DEF D
  <2> HIDE DEF p, s
  <2>4. p \in ResearchPaths
    BY <1>0, <2>3, OneWriter, WriterSays
  <2>5. /\ call' = [d \in Importers |-> call'[d]] /\ call'[c] = new
        /\ \A d \in Writing' : d = c
        /\ c \in Writing'
        /\ \A d \in Importers \ {c} : CheckIsPlanned(d)' /\ WorkIsHalfDone(d)'
    BY <1>0, <2>1, <2>2, OthersDoNotWrite
  <2>6. /\ file' = [q \in ResearchPaths |-> file'[q]]
        /\ file'[p] = w.backup[p]
        /\ \A q \in ResearchPaths \ {p} : file'[q] = file[q]
    BY <1>0, <2>1, <2>4 DEF FilesTypeOK
  <2>7. Restored(c)' = before
    BY <2>2, <2>3, <2>5, <2>6 DEF Restored
  <2>8. Left(c)' # {}
    <3>1. Left(c) \subseteq Left(c)'
      BY <2>2, <2>3, <2>5 DEF Left, s
    <3> QED BY <1>0, <3>1
  <2>9. \A q \in DOMAIN w.documents :
           file'[q] = IF q \in ToSet(Front(s)) THEN w.documents[q] ELSE w.backup[q]
    <3>1. DOMAIN w.documents \subseteq ResearchPaths
      BY <1>0, OneWriter, WriterSays
    <3> HIDE DEF w
    <3> QED BY <1>1, <2>3, <2>6, <3>1
  <2>10. WorkIsHalfDone(c)'
    <3>1. /\ w.backup = [q \in DOMAIN w.documents |-> w.backup[q]]
          /\ w.documents = DocumentsFor(Brings[c], w.backup[Manifest])
          /\ Plannable(Brings[c], w.backup[Manifest])
          /\ before[Manifest] = w.backup[Manifest]
      BY <1>0, OneWriter, WriterSays DEF WorkIsHalfDone
    <3>2. FilesTypeOK(Restored(c)') /\ ValidFiles(Restored(c)')
      BY <1>0, <2>7
    <3>3. /\ new.backup = [q \in DOMAIN new.documents |-> new.backup[q]]
          /\ new.documents = DocumentsFor(Brings[c], new.backup[Manifest])
          /\ Plannable(Brings[c], new.backup[Manifest])
          /\ new.written \in Seq(DOMAIN new.documents) /\ IsInjective(new.written)
          /\ \A q \in DOMAIN new.documents :
                file'[q] = IF q \in ToSet(new.written) THEN new.documents[q] ELSE new.backup[q]
          /\ applied' \ {"packet"} \subseteq ListedIn(new.backup[Manifest])
      <4> HIDE DEF w, before
      <4> QED BY <1>0, <2>2, <2>3, <2>9, <3>1
    <3> HIDE DEF w, before
    <3> QED BY <2>2, <2>5, <2>8, <3>2, <3>3 DEF WorkIsHalfDone, FilesTypeOK, ValidFiles
  <2>11. CheckIsPlanned(c)'
    BY <2>2, <2>5 DEF CheckIsPlanned
  <2>12. FilesTypeOK(file')
    <3>1. before[p] = w.backup[p]
      BY <1>0, <2>3, OneWriter, WriterSays
    <3>2. file'[Manifest] \in {file[Manifest], before[Manifest]}
      BY <2>6, <3>1, PathsThere
    <3> HIDE DEF before
    <3> QED BY <1>0, <2>6, <3>2 DEF FilesTypeOK
  <2> QED BY <2>5, <2>10, <2>11, <2>12 DEF FilesInv, FilesTypeOK, ImportsAreKept
<1> QED BY <1>2, <1>3

-----------------------------------------------------------------------------
LEMMA FilesBegin == FilesInit => FilesInv
<1> SUFFICES ASSUME FilesInit PROVE FilesInv
  OBVIOUS
<1>1. /\ file = [p \in ResearchPaths |-> Absent] /\ call = [c \in Importers |-> Idle]
      /\ applied = {} /\ \A c \in Importers : call[c].at = "idle"
  BY DEF FilesInit, Idle
<1>2. ResponsesIn(file[Manifest]) = <<>> /\ file[Manifest] = Absent
  BY <1>1, PathsThere DEF ResponsesIn
<1>3. ToSet(<<>>) = {} /\ \A f : IsInjective([i \in DOMAIN <<>> |-> f[i]])
  BY DEF ToSet, IsInjective
<1>4. ValidFiles(file)
  <2>1. \A role : RevisionsIn(file[Manifest], role) = 1 .. 0
    BY <1>2, <1>3 DEF RevisionsIn
  <2>2. IsInjective([i \in DOMAIN <<>> |-> <<>>[i].response])
    BY DEF IsInjective
  <2>3. \A e \in ToSet(ResponsesIn(file[Manifest])) : FALSE
    BY <1>2, <1>3
  <2>4. IsInjective([i \in DOMAIN ResponsesIn(file[Manifest]) |->
                       ResponsesIn(file[Manifest])[i].response])
    BY <1>2, <2>2
  <2>5. \A role \in Roles : \E n \in 0 .. MaxRevision :
          RevisionsIn(file[Manifest], role) = 1 .. n
    <3>1. 0 \in 0 .. MaxRevision
      BY ResearchAssumption
    <3> QED BY <2>1, <3>1
  <2> QED BY <2>3, <2>4, <2>5 DEF ValidFiles
<1>5. FilesTypeOK(file)
  <2>1. file = [p \in ResearchPaths |-> file[p]]
    BY <1>1
  <2>2. <<>> \in Seq(Entries)
    OBVIOUS
  <2> QED BY <1>2, <2>1, <2>2 DEF FilesTypeOK
<1>6. Writing = {} /\ \A c \in Importers : CheckIsPlanned(c) /\ WorkIsHalfDone(c)
  BY <1>1 DEF Writing, CheckIsPlanned, WorkIsHalfDone
<1> QED BY <1>1, <1>4, <1>5, <1>6, InManifest DEF FilesInv, ImportsAreKept

LEMMA FilesSteps == FilesInv /\ [FilesNext]_filesVars => FilesInv'
<1> SUFFICES ASSUME FilesInv, [FilesNext]_filesVars PROVE FilesInv'
  OBVIOUS
<1>1. CASE UNCHANGED filesVars
  <2>1. file' = file /\ call' = call /\ applied' = applied /\ spoilt' = spoilt
    BY <1>1 DEF filesVars
  <2>2. Writing' = Writing /\ (FilesTypeOK(file) => FilesTypeOK(file)')
    BY <2>1 DEF Writing, FilesTypeOK
  <2>3. ImportsAreKept => ImportsAreKept'
    BY <2>1, <2>2, InManifest, InNextManifest DEF ImportsAreKept
  <2>4. ASSUME NEW c \in Importers
        PROVE  /\ CheckIsPlanned(c) => CheckIsPlanned(c)'
               /\ WorkIsHalfDone(c) => WorkIsHalfDone(c)'
    <3>1. Left(c)' = Left(c) /\ Restored(c)' = Restored(c)
      BY <2>1 DEF Left, Restored
    <3> QED BY <2>1, <2>2, <3>1 DEF CheckIsPlanned, WorkIsHalfDone, FilesTypeOK, ValidFiles
  <2> QED BY <2>1, <2>2, <2>3, <2>4 DEF FilesInv
<1>2. ASSUME NEW c \in Importers, ImporterDies(c), c \in Writing
      PROVE  FilesInv'
  BY <1>2 DEF ImporterDies, FilesInv
<1>3. CASE FilesNext
  <2>1. PICK c \in Importers :
           \/ PlanFiles(c) \/ PlanAgain(c) \/ Refuse(c)
           \/ Check(c) \/ WriteFile(c) \/ Done(c) \/ WriteFails(c) \/ Undo(c) \/ ImporterDies(c)
    BY <1>3 DEF FilesNext
  <2>2. ~spoilt
    BY <1>3 DEF FilesNext
  <2> QED BY <1>2, <2>1, <2>2, PlanFilesKeeps, PlanAgainKeeps, CheckKeeps, WriteFileKeeps,
             DoneKeeps, WriteFailsKeeps, UndoKeeps
<1> QED BY <1>1, <1>3

(* As long as no two callers wrote at once and none died writing, the      *)
(* files lie between two sound states, and a caller that was answered      *)
(* meanwhile relies on nothing that could still be undone.                 *)
THEOREM FilesInvariant == FilesSpec => []FilesInv
  BY FilesBegin, FilesSteps, PTL DEF FilesSpec

(* What was imported into a research is listed and as it was brought, for  *)
(* any number of callers, responses and roles.                             *)
THEOREM ImportsStay == FilesSpec => []ImportsAreKept
<1>1. FilesInv => ImportsAreKept
  BY DEF FilesInv, ImportsAreKept
<1> QED BY <1>1, FilesInvariant, PTL

-----------------------------------------------------------------------------
(* The execution of a research client.                                     *)

ProcessRecords ==
    [at : {"none", "running", "exited"}, code : {0, 1}, read : Int, prompt : Int,
     leaves : BOOLEAN, lingers : BOOLEAN, wrote : [Streams -> Nat]]

StreamRecords == [pipe : Nat, pending : Nat, kept : Nat, truncated : BOOLEAN]

ExecutionTypes ==
    /\ host \in [executable : Executables, authorized : BOOLEAN]
    /\ process \in ProcessRecords
    /\ stream \in [Streams -> StreamRecords]

(* What was written to a stream is on its way or kept, unless some of it   *)
(* was cut off for good.                                                   *)
NothingIsLost ==
    \A s \in Streams :
      /\ stream[s].kept <= Limit
      /\ ~stream[s].truncated =>
           process.wrote[s] = stream[s].pipe + stream[s].pending + stream[s].kept

(* A process that runs was authorized; a descendant is one that was left.  *)
RunsByLeave ==
    /\ at \in {"poll", "terminate", "wait", "joined"} => host.authorized /\ process.at # "none"
    /\ at = "planned" => process.at = "none"
    /\ at = "joined" => process.at = "exited"
    /\ process.lingers => process.leaves /\ process.at = "exited"

(* The readers have been joined when nothing more can come, unless         *)
(* somebody keeps the streams open.                                        *)
JoinedAtTheEnd == at = "joined" /\ ~process.leaves => \A s \in Streams : Drained(s)

ExecutionInv ==
    /\ ExecutionTypes
    /\ NothingIsLost
    /\ RunsByLeave
    /\ JoinedAtTheEnd
    /\ AnswersAreWhole
    /\ status # "none" => at = "over"
    /\ reason # "completed"

LEMMA ExecutionStarts == ExecutionInit => ExecutionInv
  <1> SUFFICES ASSUME ExecutionInit PROVE ExecutionInv
    OBVIOUS
  <1>1. ExecutionTypes
    BY DEF ExecutionInit, ExecutionTypes, ProcessRecords, StreamRecords, NotStarted, Empty
  <1>2. NothingIsLost
    BY LimitAssumption DEF ExecutionInit, NothingIsLost, NotStarted, Empty
  <1> QED
    BY <1>1, <1>2 DEF ExecutionInit, ExecutionInv, RunsByLeave, JoinedAtTheEnd, AnswersAreWhole,
                      NotStarted

(* A step that leaves the streams, and what was written to them, alone,    *)
(* and neither ends the execution nor lets a descendant stay               *)
LEMMA ProcessMoves ==
    ASSUME ExecutionInv, UNCHANGED <<host, stream, status>>, process' \in ProcessRecords,
           process'.wrote = process.wrote, at # "over", reason' # "completed",
           at' \in {"poll", "terminate", "wait", "joined"} =>
             host.authorized /\ process'.at # "none",
           at' = "planned" => process'.at = "none",
           at' = "joined" => process'.at = "exited",
           process'.lingers => process'.leaves /\ process'.at = "exited",
           at' = "joined" /\ ~process'.leaves => \A s \in Streams : Drained(s)'
    PROVE  ExecutionInv'
  <1>1. ExecutionTypes'
    BY DEF ExecutionInv, ExecutionTypes
  <1>2. NothingIsLost'
    BY DEF ExecutionInv, NothingIsLost
  <1>3. RunsByLeave'
    BY DEF ExecutionInv, RunsByLeave
  <1>4. JoinedAtTheEnd'
    BY DEF JoinedAtTheEnd
  <1>5. status = "none"
    BY DEF ExecutionInv
  <1> QED
    BY <1>1, <1>2, <1>3, <1>4, <1>5 DEF ExecutionInv, AnswersAreWhole

LEMMA StreamStep ==
    ASSUME ExecutionInv, at # "over", NEW s \in Streams, WriteOutput(s) \/ Take(s) \/ Keep(s)
    PROVE  ExecutionInv'
  <1>1. /\ stream \in [Streams -> StreamRecords] /\ process \in ProcessRecords
        /\ stream[s] \in StreamRecords /\ Limit \in Nat /\ process.wrote \in [Streams -> Nat]
        /\ stream[s].kept <= Limit
        /\ ~stream[s].truncated =>
             process.wrote[s] = stream[s].pipe + stream[s].pending + stream[s].kept
    BY LimitAssumption DEF ExecutionInv, ExecutionTypes, NothingIsLost, ProcessRecords
  <1>2. UNCHANGED <<at, host, status, reason>>
    BY DEF WriteOutput, Take, Keep
  <1>3. /\ process' \in ProcessRecords /\ process'.at = process.at
        /\ process'.leaves = process.leaves /\ process'.lingers = process.lingers
        /\ \A r \in Streams \ {s} : process'.wrote[r] = process.wrote[r] /\ stream'[r] = stream[r]
    <2>1. CASE WriteOutput(s)
      <3>1. /\ stream' = [stream EXCEPT ![s] = [stream[s] EXCEPT !.pipe = @ + 1]]
            /\ process' = [process EXCEPT !.wrote[s] = @ + 1]
        BY <2>1 DEF WriteOutput, Becomes
      <3> QED
        BY <1>1, <3>1 DEF ProcessRecords
    <2>2. CASE Take(s) \/ Keep(s)
      <3>1. process' = process /\ \E x : stream' = [stream EXCEPT ![s] = x]
        BY <2>2 DEF Take, Keep, Becomes
      <3> QED
        BY <1>1, <3>1
    <2> QED
      BY <2>1, <2>2
  <1>4. /\ stream'[s] \in StreamRecords /\ stream' \in [Streams -> StreamRecords]
        /\ stream'[s].kept <= Limit
        /\ ~stream'[s].truncated =>
             process'.wrote[s] = stream'[s].pipe + stream'[s].pending + stream'[s].kept
    <2>1. CASE WriteOutput(s)
      <3>0. PICK x, y : /\ x = [stream[s] EXCEPT !.pipe = @ + 1]
                        /\ y = [process.wrote EXCEPT ![s] = @ + 1]
        OBVIOUS
      <3>1. /\ stream' = [stream EXCEPT ![s] = x]
            /\ process' = [process EXCEPT !.wrote[s] = @ + 1]
        BY <3>0, <2>1 DEF WriteOutput, Becomes
      <3>2. /\ x \in StreamRecords /\ x.pipe = stream[s].pipe + 1
            /\ x.pending = stream[s].pending /\ x.kept = stream[s].kept
            /\ x.truncated = stream[s].truncated
        BY <1>1, <3>0 DEF StreamRecords
      <3>3. y[s] = process.wrote[s] + 1 /\ process.wrote[s] \in Nat
        BY <1>1, <3>0
      <3>4. process'.wrote[s] = process.wrote[s] + 1
        BY <1>1, <3>1, <3>3 DEF ProcessRecords
      <3>5. stream'[s] = x /\ stream' \in [Streams -> StreamRecords]
        BY <1>1, <3>1, <3>2
      <3> QED
        BY <1>1, <3>2, <3>3, <3>4, <3>5 DEF StreamRecords
    <2>2. CASE Take(s)
      <3>0. PICK x : x = [stream[s] EXCEPT !.pipe = @ - 1, !.pending = @ + 1]
        OBVIOUS
      <3>1. stream' = [stream EXCEPT ![s] = x]
        BY <3>0, <2>2 DEF Take, Becomes
      <3>2. process' = process /\ stream[s].pipe > 0
        BY <2>2 DEF Take
      <3>3. /\ x \in StreamRecords /\ x.pipe = stream[s].pipe - 1
            /\ x.pending = stream[s].pending + 1 /\ x.kept = stream[s].kept
            /\ x.truncated = stream[s].truncated
        <4>1. /\ stream[s].pipe \in Nat /\ stream[s].pending \in Nat /\ stream[s].kept \in Nat
              /\ stream[s].truncated \in BOOLEAN /\ stream[s].pipe - 1 \in Nat
          BY <1>1, <3>2 DEF StreamRecords
        <4>2. x = [pipe |-> stream[s].pipe - 1, pending |-> stream[s].pending + 1,
                   kept |-> stream[s].kept, truncated |-> stream[s].truncated]
          BY <1>1, <3>0 DEF StreamRecords
        <4> QED
          BY <4>1, <4>2 DEF StreamRecords
      <3>4. stream'[s] = x /\ stream' \in [Streams -> StreamRecords]
        BY <1>1, <3>1, <3>3
      <3> QED
        <4>1. /\ stream[s].pipe \in Nat /\ stream[s].pending \in Nat /\ stream[s].kept \in Nat
              /\ process'.wrote[s] = process.wrote[s]
          BY <1>1, <3>2 DEF StreamRecords
        <4> QED
          BY <1>1, <3>3, <3>4, <4>1
    <2>3. CASE Keep(s)
      <3>0. PICK x : x = [stream[s] EXCEPT
                            !.pending = 0,
                            !.kept = @ + Least(stream[s].pending, Limit - stream[s].kept),
                            !.truncated = @ \/ stream[s].pending > Limit - stream[s].kept]
        OBVIOUS
      <3>1. stream' = [stream EXCEPT ![s] = x]
        BY <3>0, <2>3 DEF Keep, Becomes
      <3>2. process' = process
        BY <2>3 DEF Keep
      <3>3. /\ stream[s].pipe \in Nat /\ stream[s].pending \in Nat /\ stream[s].kept \in Nat
            /\ stream[s].truncated \in BOOLEAN
        BY <1>1 DEF StreamRecords
      <3>4. /\ x = [pipe |-> stream[s].pipe, pending |-> 0, kept |-> x.kept,
                    truncated |-> x.truncated]
            /\ x.kept = stream[s].kept + Least(stream[s].pending, Limit - stream[s].kept)
            /\ x.truncated \in BOOLEAN
            /\ x.truncated <=> (stream[s].truncated \/ stream[s].pending > Limit - stream[s].kept)
        BY <1>1, <3>0 DEF StreamRecords
      <3>5. /\ x.kept \in Nat /\ x.kept <= Limit /\ x.truncated \in BOOLEAN
            /\ ~x.truncated => ~stream[s].truncated /\ x.kept = stream[s].kept + stream[s].pending
        BY <1>1, <3>3, <3>4 DEF Least
      <3>6. x \in StreamRecords
        BY <3>3, <3>4, <3>5 DEF StreamRecords
      <3>7. stream'[s] = x /\ stream' \in [Streams -> StreamRecords]
        BY <1>1, <3>1, <3>6
      <3> QED
        BY <1>1, <3>2, <3>3, <3>4, <3>5, <3>7
    <2> QED
      BY <2>1, <2>2, <2>3
  <1>5. NothingIsLost'
    BY <1>3, <1>4 DEF ExecutionInv, NothingIsLost
  <1>6. JoinedAtTheEnd'
    <2>1. SUFFICES ASSUME at = "joined", ~process.leaves PROVE \A r \in Streams : Drained(r)'
      BY <1>2, <1>3 DEF JoinedAtTheEnd
    <2>2. Drained(s)
      BY <2>1 DEF ExecutionInv, JoinedAtTheEnd
    <2>3. FALSE
      BY <1>1, <2>2 DEF Drained, WriteOutput, Take, Keep, StreamRecords
    <2> QED
      BY <2>3
  <1>7. ExecutionTypes' /\ RunsByLeave'
    BY <1>2, <1>3, <1>4 DEF ExecutionInv, ExecutionTypes, RunsByLeave
  <1>8. status = "none" /\ reason # "completed"
    BY DEF ExecutionInv
  <1> QED
    BY <1>2, <1>5, <1>6, <1>7, <1>8 DEF ExecutionInv, AnswersAreWhole

(* A step of the process, of the thread that writes the prompt, or around  *)
LEMMA ClientStep ==
    ASSUME ExecutionInv, at # "over",
           \/ WritePrompt \/ ReadPrompt \/ Exit \/ DescendantEnds
           \/ Reinstall \/ CancelExecution \/ DeadlineNears
    PROVE  ExecutionInv'
  <1>1. ExecutionTypes /\ RunsByLeave /\ JoinedAtTheEnd
    BY DEF ExecutionInv
  <1>2. process \in ProcessRecords
    BY <1>1 DEF ExecutionTypes
  <1>0. reason' # "completed"
    BY DEF ExecutionInv, WritePrompt, ReadPrompt, Exit, DescendantEnds, Reinstall,
           CancelExecution, DeadlineNears
  <1>3. CASE WritePrompt \/ ReadPrompt
    <2>1. PICK x : x = process'
      OBVIOUS
    <2>2. /\ UNCHANGED <<at, host, stream, status>> /\ process.at = "running"
          /\ x \in ProcessRecords /\ x.wrote = process.wrote /\ x.at = process.at
          /\ x.leaves = process.leaves /\ x.lingers = process.lingers
      <3>1. CASE WritePrompt
        <4>1. x = [process EXCEPT !.prompt = @ + 1]
          BY <2>1, <3>1 DEF WritePrompt
        <4> QED
          BY <1>2, <3>1, <4>1 DEF WritePrompt, Alive, ProcessRecords
      <3>2. CASE ReadPrompt
        <4>1. x = [process EXCEPT !.prompt = @ - 1, !.read = @ + 1]
          BY <2>1, <3>2 DEF ReadPrompt
        <4> QED
          <5>1. process.read \in Int /\ process.prompt \in Int /\ process.at = "running"
            BY <1>2, <3>2 DEF ReadPrompt, Alive, ProcessRecords
          <5>2. x = [at |-> process.at, code |-> process.code, read |-> process.read + 1,
                     prompt |-> process.prompt - 1, leaves |-> process.leaves,
                     lingers |-> process.lingers, wrote |-> process.wrote]
            BY <1>2, <4>1 DEF ProcessRecords
          <5>3. /\ process.code \in {0, 1} /\ process.leaves \in BOOLEAN
                /\ process.lingers \in BOOLEAN /\ process.wrote \in [Streams -> Nat]
            BY <1>2 DEF ProcessRecords
          <5> QED
            BY <3>2, <5>1, <5>2, <5>3 DEF ReadPrompt, ProcessRecords
      <3> QED
        BY <1>3, <3>1, <3>2
    <2> QED
      BY <1>0, <1>1, <2>1, <2>2, ProcessMoves DEF RunsByLeave
  <1>4. CASE Exit
    <2>1. /\ UNCHANGED <<at, host, stream, status>> /\ process.at = "running"
          /\ process' \in ProcessRecords /\ process'.wrote = process.wrote
          /\ process'.at = "exited" /\ process'.lingers = process'.leaves
      BY <1>2, <1>4 DEF Exit, ProcessRecords, Alive
    <2> QED
      BY <1>0, <1>1, <2>1, ProcessMoves DEF RunsByLeave
  <1>5. CASE DescendantEnds
    <2>1. /\ UNCHANGED <<at, host, stream, status>> /\ process.lingers
          /\ process' \in ProcessRecords /\ process'.wrote = process.wrote
          /\ process'.at = process.at /\ ~process'.lingers /\ process'.leaves = process.leaves
      BY <1>2, <1>5 DEF DescendantEnds, ProcessRecords
    <2> QED
      BY <1>0, <1>1, <2>1, ProcessMoves DEF RunsByLeave
  <1>6. CASE Reinstall
    <2>1. /\ UNCHANGED <<at, process, stream, status>> /\ at = "planned"
          /\ host' \in [executable : Executables, authorized : BOOLEAN]
      BY <1>1, <1>6 DEF Reinstall, ExecutionTypes, Executables
    <2> QED
      BY <1>0, <1>1, <2>1 DEF ExecutionInv, ExecutionTypes, NothingIsLost, RunsByLeave, JoinedAtTheEnd,
                        AnswersAreWhole
  <1>7. CASE CancelExecution \/ DeadlineNears
    <2>1. UNCHANGED <<at, host, process, stream, status>>
      BY <1>7 DEF CancelExecution, DeadlineNears
    <2> QED
      BY <1>0, <2>1 DEF ExecutionInv, ExecutionTypes, NothingIsLost, RunsByLeave, JoinedAtTheEnd,
                  AnswersAreWhole, Drained, Open, Alive
  <1> QED
    BY <1>3, <1>4, <1>5, <1>6, <1>7

LEMMA RunStep ==
    ASSUME ExecutionInv, at # "over", RunsOn
    PROVE  ExecutionInv'
  <1>1. ExecutionTypes /\ NothingIsLost /\ RunsByLeave /\ JoinedAtTheEnd
    BY DEF ExecutionInv
  <1>2. process \in ProcessRecords /\ reason # "completed"
    BY <1>1 DEF ExecutionTypes, ExecutionInv
  <1>0. reason' # "completed"
    BY <1>2 DEF RunsOn, NotRun, Start, CannotStart, Poll, Terminate, Join, Conclude, End
  <1>3. ASSUME NEW s, End(s),
               s = "completed" => AnswersAreWhole'
        PROVE  ExecutionInv'
    <2>1. UNCHANGED <<host, process, stream>> /\ at' = "over" /\ status' = s
      BY <1>3 DEF End
    <2>2. AnswersAreWhole'
      BY <1>3, <2>1 DEF AnswersAreWhole
    <2> QED
      BY <1>0, <1>1, <2>1, <2>2 DEF ExecutionInv, ExecutionTypes, NothingIsLost, RunsByLeave,
                              JoinedAtTheEnd
  <1>4. CASE NotRun \/ CannotStart
    BY <1>3, <1>4 DEF NotRun, CannotStart
  <1>5. CASE Start
    <2>1. /\ UNCHANGED <<host, stream, status>> /\ host.authorized /\ at' = "poll"
          /\ process' \in ProcessRecords /\ process'.wrote = process.wrote
          /\ process'.leaves = process.leaves /\ process'.lingers = process.lingers
          /\ process'.at = "running" /\ at = "planned"
      <3>1. process' = [process EXCEPT !.at = "running"]
        BY <1>5 DEF Start
      <3> QED
        BY <1>2, <1>5, <3>1 DEF Start, ProcessRecords
    <2> QED
      BY <1>0, <1>1, <2>1, ProcessMoves DEF RunsByLeave
  <1>6. CASE Poll
    <2>1. /\ UNCHANGED <<host, process, stream, status>> /\ at = "poll"
          /\ at' \in {"wait", "terminate"}
      BY <1>6 DEF Poll
    <2> QED
      BY <1>0, <1>1, <1>2, <2>1, ProcessMoves DEF RunsByLeave
  <1>7. CASE Terminate
    <2>1. /\ UNCHANGED <<host, stream, status>> /\ at = "terminate" /\ at' = "wait"
          /\ process' \in ProcessRecords /\ process'.wrote = process.wrote
          /\ process'.lingers => process'.leaves /\ process'.at = "exited"
          /\ process'.at # "none"
      <3>1. CASE process.at = "running"
        <4>1. PICK code \in {0, 1}, leaves \in BOOLEAN :
                process' = [process EXCEPT !.at = "exited", !.code = code,
                                           !.leaves = leaves, !.lingers = leaves]
          BY <1>7, <3>1 DEF Terminate, Alive
        <4>2. /\ process' \in ProcessRecords /\ process'.wrote = process.wrote
              /\ process'.lingers = process'.leaves /\ process'.at = "exited"
          BY <1>2, <4>1 DEF ProcessRecords
        <4> QED
          BY <1>7, <4>2 DEF Terminate
      <3>2. CASE process.at # "running"
        BY <1>1, <1>2, <1>7, <3>2 DEF Terminate, Alive, RunsByLeave
      <3> QED
        BY <3>1, <3>2
    <2> QED
      BY <1>0, <1>1, <2>1, ProcessMoves DEF RunsByLeave
  <1>8. CASE Join
    <2>1. /\ UNCHANGED <<host, process, stream, status>> /\ at = "wait" /\ at' = "joined"
          /\ process.at # "running"
          /\ (\A s \in Streams : Drained(s)) \/ process.lingers
      BY <1>8 DEF Join, Alive
    <2>2. process.at = "exited"
      BY <1>1, <1>2, <2>1 DEF RunsByLeave, ProcessRecords
    <2>3. at' = "joined" /\ ~process'.leaves => \A s \in Streams : Drained(s)'
      BY <1>1, <2>1 DEF RunsByLeave, Drained, Open, Alive
    <2> QED
      BY <1>0, <1>1, <1>2, <2>1, <2>2, <2>3, ProcessMoves DEF RunsByLeave
  <1>9. CASE Conclude
    <2>1. at = "joined"
      BY <1>9 DEF Conclude
    <2>2. PICK s : s = (IF reason # "none" THEN reason
                        ELSE IF process.code # 0 \/ stream["stdout"].truncated \/ ~Parses
                             THEN "failed" ELSE "completed")
      OBVIOUS
    <2>3. End(s) /\ UNCHANGED <<host, process, stream>> /\ status' = s
      BY <1>9, <2>2 DEF Conclude, End
    <2>4. ASSUME s = "completed" PROVE AnswersAreWhole'
      <3>1. process.code = 0 /\ ~stream["stdout"].truncated
        BY <1>2, <2>2, <2>4
      <3>2. "stdout" \in Streams
        BY DEF Streams
      <3>3. /\ stream["stdout"].kept <= Limit /\ stream["stdout"] \in StreamRecords
            /\ process.wrote["stdout"] =
                 stream["stdout"].pipe + stream["stdout"].pending + stream["stdout"].kept
        BY <1>1, <3>1, <3>2 DEF NothingIsLost, ExecutionTypes
      <3>4. process.leaves \/ process.wrote["stdout"] = stream["stdout"].kept
        BY <1>1, <2>1, <3>2, <3>3 DEF JoinedAtTheEnd, Drained, StreamRecords
      <3> QED
        BY <1>1, <2>1, <2>3, <3>1, <3>3, <3>4 DEF RunsByLeave, AnswersAreWhole
    <2> QED
      BY <1>3, <2>3, <2>4
  <1> QED
    BY <1>4, <1>5, <1>6, <1>7, <1>8, <1>9 DEF RunsOn

LEMMA ExecutionGoesOn == ExecutionInv /\ [ExecutionNext]_executionVars => ExecutionInv'
  <1> SUFFICES ASSUME ExecutionInv, [ExecutionNext]_executionVars PROVE ExecutionInv'
    OBVIOUS
  <1>1. CASE UNCHANGED executionVars
    BY <1>1 DEF executionVars, ExecutionInv, ExecutionTypes, NothingIsLost, RunsByLeave,
                JoinedAtTheEnd, AnswersAreWhole, Drained, Open, Alive
  <1> QED
    BY <1>1, StreamStep, ClientStep, RunStep DEF ExecutionNext, Reads

(* The inductive invariant of an execution                                 *)
THEOREM ExecutionInvariant == ExecutionSpec => []ExecutionInv
  BY ExecutionStarts, ExecutionGoesOn, PTL DEF ExecutionSpec

(* What is taken for an answer is from an authorized process that          *)
(* succeeded and is all that it printed, unless it left a descendant       *)
(* (execute_research_execution, BoundedSubprocessRunner.run).              *)
THEOREM AnswersStayWhole == ExecutionSpec => []AnswersAreWhole
  <1>1. ExecutionInv => AnswersAreWhole
    BY DEF ExecutionInv
  <1> QED
    BY <1>1, ExecutionInvariant, PTL
=============================================================================
