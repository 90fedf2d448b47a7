-------------------------- MODULE QueueClientsProofs --------------------------
(***************************************************************************)
(* Proofs about two clients of the runtime queue.                          *)
(*                                                                         *)
(* RuntimeQueuePlans: exact plans, for any number of clients, calls of one *)
(* plan, items and work items, any dependencies and bindings.              *)
(*                                                                         *)
(* DagExecutor: any number of processes that dispatch one plan, of any     *)
(* steps with any dependencies, beside other clients.                      *)
(***************************************************************************)
EXTENDS RuntimeQueuePlans, DagExecutor, RuntimeQueueProofs

-----------------------------------------------------------------------------
(* RuntimeQueuePlans                                                       *)

(* The type invariant but for the queue's own tables.                      *)
PlanTypes ==
    /\ work \in [Works -> [status: WorkStatus, revision: 1 .. MaxRevision]]
    /\ projected \in BOOLEAN
    /\ plan \in [Clients -> Plan]
    /\ fresh \in [Clients -> BOOLEAN]
    /\ look \in [Clients -> {"none", "current", "stale"}]
    /\ call \in [Clients -> [Deliveries -> {"unsent", "confirmed", "answered"}]]
    /\ effects \in [Clients -> Nat]
    /\ witnessed \in [Items -> BOOLEAN]

(* A plan whose digest still matches has not been applied yet.             *)
FreshIsUnapplied ==
    \A c \in Clients : effects[c] <= 1 /\ (fresh[c] => effects[c] = 0)

(* What a reconcile reads is on record: of an open job whose work is       *)
(* completed it is known, and a plan that still matches closes only jobs   *)
(* of which it is known.                                                   *)
ReadingsAreWitnessed ==
    /\ \A i \in Items : job[i] \in OpenJob /\ WorkCompleted(i) => witnessed[i]
    /\ \A c \in Clients : fresh[c] /\ plan[c].act = "reconcile" =>
          \A i \in plan[c].done : witnessed[i]

PInv ==
    /\ PlanTypes
    /\ FreshIsUnapplied
    /\ ReadingsAreWitnessed
    /\ ClosedOnCompletedWork

-----------------------------------------------------------------------------
(* What the steps are made of.                                             *)

(* Whatever a plan performs is an action of the queue.                     *)
LEMMA PerformIsNext ==
    ASSUME NEW p \in Plan, Perform(p)
    PROVE  Next
  <1>1. CASE p.act = "enqueue"
    <2>1. p.item \in Items
      BY <1>1 DEF Plan, NoPlan
    <2>2. QED
      BY <1>1, <2>1 DEF Perform, Next
  <1>2. CASE p.act = "claim"
    <2>1. p.worker \in Workers /\ p.seconds \in LeaseSeconds
      BY <1>2 DEF Plan, NoPlan
    <2>2. QED
      BY <1>2, <2>1 DEF Perform, Next
  <1>3. CASE p.act = "reconcile"
    <2>1. p.done \in SUBSET Items
      BY <1>3 DEF Plan, NoPlan
    <2>2. QED
      BY <1>3, <2>1 DEF Perform, Next
  <1>4. QED
    BY <1>1, <1>2, <1>3 DEF Perform

(* The calls that carry only their evidence.                               *)
EvidenceCall ==
    \/ MigrateV2
    \/ \E e \in Presented :
          \/ \E s \in LeaseSeconds : Heartbeat(e, s)
          \/ \E k \in Claims : BindEffectClaim(e, k)
          \/ \E k \in Claims, r \in Receipts : BindEffectReceipt(e, k, r)
          \/ Complete(e)
          \/ \E safe \in BOOLEAN : Fail(e, safe)
    \/ Recover

LEMMA EvidenceCallIsNext == EvidenceCall => Next
  BY DEF EvidenceCall, Next

LEMMA ElsewhereIs ==
    Elsewhere <=>
        /\ \/ /\ \E p \in Plan : Plannable(p, Projection) /\ Perform(p)
              /\ Outdate
           \/ /\ EvidenceCall
              /\ fresh' = [c \in Clients |-> FALSE]
        /\ UNCHANGED <<graphVars, plan, look, call, effects>>
        /\ Witness
  BY DEF Elsewhere, EvidenceCall

(* Every step but a stuttering one keeps the history.                      *)
LEMMA EveryStepWitnesses == NextPlans => Witness
  BY DEF NextPlans, Look, MakePlan, Confirm, Apply, EndCall, Elsewhere, TimePasses,
     ReviseWork, Project

LEMMA StepIsQueueStep ==
    ASSUME PlanTypes, [NextPlans]_allVars
    PROVE  [Next]_vars
  <1>1. ASSUME NEW c \in Clients, NEW d \in Deliveries, Apply(c, d)
        PROVE  Next
    BY <1>1, PerformIsNext DEF Apply, PlanTypes
  <1>2. CASE Elsewhere
    BY <1>2, ElsewhereIs, PerformIsNext, EvidenceCallIsNext
  <1>3. CASE TimePasses
    BY <1>3 DEF TimePasses, Next
  <1>4. CASE \/ \E c \in Clients : Look(c) \/ \E p \in Plan : MakePlan(c, p)
             \/ \E c \in Clients, d \in Deliveries : Confirm(c, d) \/ EndCall(c, d)
             \/ \E w \in Works, status \in WorkStatus : ReviseWork(w, status)
             \/ Project
             \/ UNCHANGED allVars
    BY <1>4 DEF Look, MakePlan, Confirm, EndCall, ReviseWork, Project, allVars
  <1>5. QED
    BY <1>1, <1>2, <1>3, <1>4 DEF NextPlans

(* A change of the database makes every plan stale, and only a new plan    *)
(* is fresh again.                                                         *)
LEMMA FreshOnlyFades ==
    ASSUME PlanTypes, Outdate \/ fresh' = [c \in Clients |-> FALSE],
           NEW c \in Clients, fresh'[c]
    PROVE  fresh[c] /\ (Outdate => ~DatabaseChanges)
  BY DEF Outdate, PlanTypes

-----------------------------------------------------------------------------
(* The conjuncts of the invariant.                                         *)

LEMMA TypesStay ==
    ASSUME PlanTypes, [NextPlans]_allVars
    PROVE  PlanTypes'
  <1> USE DEF PlanTypes
  <1>1. witnessed' \in [Items -> BOOLEAN]
    BY EveryStepWitnesses DEF Witness, allVars
  <1>2. ASSUME NEW c \in Clients, Look(c)
        PROVE  PlanTypes'
    BY <1>1, <1>2 DEF Look, Projection, graphVars
  <1>3. ASSUME NEW c \in Clients, NEW p \in Plan, MakePlan(c, p)
        PROVE  PlanTypes'
    BY <1>1, <1>3 DEF MakePlan, graphVars
  <1>4. ASSUME NEW c \in Clients, NEW d \in Deliveries, Confirm(c, d)
        PROVE  PlanTypes'
    BY <1>1, <1>4 DEF Confirm, graphVars
  <1>5. ASSUME NEW c \in Clients, NEW d \in Deliveries, Apply(c, d)
        PROVE  PlanTypes'
    <2>1. fresh' \in [Clients -> BOOLEAN]
      BY <1>5 DEF Apply, Outdate
    <2>2. effects' \in [Clients -> Nat]
      BY <1>5 DEF Apply
    <2>3. QED
      BY <1>1, <1>5, <2>1, <2>2 DEF Apply, graphVars
  <1>6. ASSUME NEW c \in Clients, NEW d \in Deliveries, EndCall(c, d)
        PROVE  PlanTypes'
    BY <1>1, <1>6 DEF EndCall, graphVars
  <1>7. CASE Elsewhere
    <2>1. fresh' \in [Clients -> BOOLEAN]
      BY <1>7, ElsewhereIs DEF Outdate
    <2>2. QED
      BY <1>1, <1>7, <2>1 DEF Elsewhere, graphVars
  <1>8. CASE TimePasses \/ Project
    BY <1>1, <1>8 DEF TimePasses, Project, graphVars, planVars
  <1>9. ASSUME NEW w \in Works, NEW status \in WorkStatus, ReviseWork(w, status)
        PROVE  PlanTypes'
    <2>1. work' \in [Works -> [status: WorkStatus, revision: 1 .. MaxRevision]]
      BY <1>9, WorkAssumption DEF ReviseWork
    <2>2. QED
      BY <1>1, <1>9, <2>1 DEF ReviseWork, planVars
  <1>10. CASE UNCHANGED allVars
    BY <1>1, <1>10 DEF allVars, graphVars, planVars
  <1>11. QED
    BY <1>2, <1>3, <1>4, <1>5, <1>6, <1>7, <1>8, <1>9, <1>10 DEF NextPlans
LEMMA FreshStaysUnapplied ==
    ASSUME PlanTypes, FreshIsUnapplied, [NextPlans]_allVars
    PROVE  FreshIsUnapplied'
  <1> SUFFICES ASSUME NEW c \in Clients
               PROVE  effects'[c] <= 1 /\ (fresh'[c] => effects'[c] = 0)
    BY DEF FreshIsUnapplied
  <1>1. effects[c] <= 1 /\ (fresh[c] => effects[c] = 0) /\ effects[c] \in Nat
    BY DEF FreshIsUnapplied, PlanTypes
  <1>2. ASSUME NEW b \in Clients, NEW p \in Plan, MakePlan(b, p)
        PROVE  effects'[c] <= 1 /\ (fresh'[c] => effects'[c] = 0)
    BY <1>1, <1>2 DEF MakePlan, PlanTypes
  <1>3. ASSUME NEW b \in Clients, NEW d \in Deliveries, Apply(b, d)
        PROVE  effects'[c] <= 1 /\ (fresh'[c] => effects'[c] = 0)
    <2>1. fresh'[c] => fresh[c] /\ ~DatabaseChanges
      BY <1>3, FreshOnlyFades DEF Apply
    <2>2. CASE b # c
      <3>1. effects'[c] = effects[c]
        BY <1>3, <2>2 DEF Apply, PlanTypes
      <3>2. QED
        BY <1>1, <2>1, <3>1
    <2>3. CASE b = c
      <3>1. effects[c] = 0
        BY <1>1, <1>3, <2>3 DEF Apply, DigestMatches
      <3>2. effects'[c] = IF DatabaseChanges THEN effects[c] + 1 ELSE effects[c]
        BY <1>3, <2>3 DEF Apply, PlanTypes
      <3>3. QED
        BY <2>1, <3>1, <3>2
    <2>4. QED
      BY <2>2, <2>3
  <1>4. CASE Elsewhere
    <2>1. fresh'[c] => fresh[c]
      BY <1>4, ElsewhereIs, FreshOnlyFades
    <2>2. QED
      BY <1>1, <1>4, <2>1 DEF Elsewhere
  <1>5. CASE fresh' = fresh /\ effects' = effects
    BY <1>1, <1>5
  <1>6. QED
    BY <1>2, <1>3, <1>4, <1>5 DEF NextPlans, Look, Confirm, EndCall, TimePasses, ReviseWork,
       Project, planVars, allVars

(* What was witnessed stays so, and an open job of completed work is       *)
(* witnessed by the step that makes it one.                                *)
LEMMA HistoryGrows ==
    ASSUME PInv, [NextPlans]_allVars, NEW i \in Items
    PROVE  /\ witnessed[i] => witnessed'[i]
           /\ job'[i] \in OpenJob /\ WorkCompleted(i)' => witnessed'[i]
  <1>1. CASE NextPlans
    BY <1>1, EveryStepWitnesses DEF Witness, WorkCompleted
  <1>2. CASE UNCHANGED allVars
    BY <1>2 DEF allVars, vars, graphVars, WorkCompleted, PInv, ReadingsAreWitnessed
  <1>3. QED
    BY <1>1, <1>2

(* The jobs a reconcile is planned to close are witnessed when it is       *)
(* planned.                                                                *)
LEMMA PlannedIsWitnessed ==
    ASSUME PInv, NEW p \in Plan, NEW found, Plannable(p, found), p.act = "reconcile",
           NEW i \in p.done
    PROVE  i \in Items /\ witnessed[i]
  <1>1. p.done = DoneJobs(found)
    BY DEF Plannable
  <1>2. i \in Items /\ job[i] \in OpenJob /\ WorkCompleted(i)
    BY <1>1 DEF DoneJobs, OpenJobs
  <1>3. QED
    BY <1>2 DEF PInv, ReadingsAreWitnessed

LEMMA ReadingsStayWitnessed ==
    ASSUME PInv, [NextPlans]_allVars
    PROVE  ReadingsAreWitnessed'
  <1>1. \A i \in Items : job'[i] \in OpenJob /\ WorkCompleted(i)' => witnessed'[i]
    BY HistoryGrows
  <1>2. ASSUME NEW c \in Clients, fresh'[c], plan'[c].act = "reconcile", NEW i \in plan'[c].done
        PROVE  witnessed'[i]
    <2>1. ASSUME NEW b \in Clients, NEW p \in Plan, MakePlan(b, p), b = c
          PROVE  witnessed'[i]
      <3>1. plan'[c] = p
        BY <2>1 DEF MakePlan, PInv, PlanTypes
      <3>2. QED
        BY <1>2, <2>1, <3>1, PlannedIsWitnessed, HistoryGrows DEF MakePlan
    <2>2. CASE fresh[c] /\ plan'[c] = plan[c]
      <3>1. witnessed[i]
        BY <1>2, <2>2 DEF PInv, ReadingsAreWitnessed
      <3>2. i \in Items
        <4>1. plan[c] \in Plan
          BY DEF PInv, PlanTypes
        <4>2. plan[c].done \subseteq Items
          BY <1>2, <2>2, <4>1 DEF Plan, NoPlan
        <4>3. QED
          BY <1>2, <2>2, <4>2
      <3>3. QED
        BY <3>1, <3>2, HistoryGrows
    <2>3. ASSUME NEW b \in Clients, NEW p \in Plan, MakePlan(b, p), b # c
          PROVE  fresh[c] /\ plan'[c] = plan[c]
      BY <1>2, <2>3 DEF MakePlan, PInv, PlanTypes
    <2>4. ASSUME NEW b \in Clients, NEW d \in Deliveries, Apply(b, d)
          PROVE  fresh[c] /\ plan'[c] = plan[c]
      BY <1>2, <2>4, FreshOnlyFades DEF Apply, PInv
    <2>5. ASSUME Elsewhere
          PROVE  fresh[c] /\ plan'[c] = plan[c]
      <3>1. fresh[c]
        BY <1>2, <2>5, ElsewhereIs, FreshOnlyFades DEF PInv
      <3>2. QED
        BY <2>5, <3>1 DEF Elsewhere
    <2>6. ASSUME fresh' = fresh, plan' = plan
          PROVE  fresh[c] /\ plan'[c] = plan[c]
      BY <1>2, <2>6
    <2>7. QED
      BY <2>1, <2>2, <2>3, <2>4, <2>5, <2>6 DEF NextPlans, Look, Confirm, EndCall, TimePasses,
         ReviseWork, Project, planVars, allVars
  <1>3. QED
    BY <1>1, <1>2 DEF ReadingsAreWitnessed

(* Only a reconcile closes a job, and only one it was planned to close.    *)
LEMMA ReconcileCloses ==
    ASSUME TypeOK, NEW p \in Plan, Perform(p), NEW i \in Items,
           job'[i] = "completed", job[i] # "completed"
    PROVE  p.act = "reconcile" /\ i \in p.done
  <1>1. job' # job
    OBVIOUS
  <1>2. p.act = "reconcile" /\ Reconcile(p.done)
    BY <1>1 DEF Perform, Enqueue, Claim
  <1>3. QED
    BY <1>2 DEF Reconcile

LEMMA EvidenceClosesNothing ==
    ASSUME TypeOK, EvidenceCall, NEW i \in Items, job'[i] = "completed"
    PROVE  job[i] = "completed"
  <1>1. ASSUME NEW e \in Presented, Complete(e)
        PROVE  job[i] = "completed"
    <2>1. e.item \in Items /\ job \in [Items -> JobStatus]
      BY DEF Presented, TypeOK
    <2>2. job' = [job EXCEPT ![e.item] = IF @ = "none" THEN "pending" ELSE @]
      BY <1>1 DEF Complete
    <2>3. QED
      BY <2>1, <2>2
  <1>2. CASE job' = job
    BY <1>2
  <1>3. QED
    BY <1>1, <1>2 DEF EvidenceCall, MigrateV2, Heartbeat, BindEffectClaim, BindEffectReceipt,
       Fail, Recover

LEMMA ClosedStaysWitnessed ==
    ASSUME PInv, TypeOK, [NextPlans]_allVars
    PROVE  ClosedOnCompletedWork'
  <1> SUFFICES ASSUME NEW i \in Items, job'[i] = "completed"
               PROVE  witnessed'[i]
    BY DEF ClosedOnCompletedWork
  <1>1. CASE job[i] = "completed"
    BY <1>1, HistoryGrows DEF PInv, ClosedOnCompletedWork
  <1>2. CASE job[i] # "completed"
    <2>1. ASSUME NEW c \in Clients, NEW d \in Deliveries, Apply(c, d)
          PROVE  witnessed'[i]
      <3>1. plan[c] \in Plan /\ Perform(plan[c]) /\ fresh[c]
        BY <2>1 DEF Apply, DigestMatches, PInv, PlanTypes
      <3>2. plan[c].act = "reconcile" /\ i \in plan[c].done
        BY <1>2, <3>1, ReconcileCloses
      <3>3. witnessed[i]
        BY <3>1, <3>2 DEF PInv, ReadingsAreWitnessed
      <3>4. QED
        BY <3>3, HistoryGrows
    <2>2. CASE Elsewhere
      <3>1. ~EvidenceCall
        BY <1>2, EvidenceClosesNothing
      <3>2. PICK p \in Plan : Plannable(p, Projection) /\ Perform(p)
        BY <2>2, <3>1, ElsewhereIs
      <3>3. p.act = "reconcile" /\ i \in p.done
        BY <1>2, <3>2, ReconcileCloses
      <3>4. witnessed[i]
        BY <3>2, <3>3, PlannedIsWitnessed
      <3>5. QED
        BY <3>4, HistoryGrows
    <2>3. CASE job' = job
      BY <1>2, <2>3
    <2>4. QED
      BY <2>1, <2>2, <2>3 DEF NextPlans, Look, MakePlan, Confirm, EndCall, TimePasses, Tick,
         ReviseWork, Project, allVars, vars
  <1>3. QED
    BY <1>1, <1>2

-----------------------------------------------------------------------------
(* The invariant, and what it is for.                                      *)

LEMMA InitPInv == InitPlans => PInv
  <1> SUFFICES ASSUME InitPlans
               PROVE  PInv
    OBVIOUS
  <1>1. PlanTypes
    BY WorkAssumption DEF InitPlans, PlanTypes, Plan, WorkStatus
  <1>2. FreshIsUnapplied
    BY DEF InitPlans, FreshIsUnapplied
  <1>3. \A i \in Items : job[i] = "none"
    BY DEF InitPlans, Init
  <1>4. ReadingsAreWitnessed /\ ClosedOnCompletedWork
    BY <1>3 DEF InitPlans, ReadingsAreWitnessed, ClosedOnCompletedWork, OpenJob
  <1>5. QED
    BY <1>1, <1>2, <1>4 DEF PInv

LEMMA NextPInv == PInv /\ TypeOK /\ [NextPlans]_allVars => PInv'
  BY TypesStay, FreshStaysUnapplied, ReadingsStayWitnessed, ClosedStaysWitnessed DEF PInv

(* Clients with exact plans drive the queue as any clients do, so what     *)
(* RuntimeQueueProofs shows of the queue holds under them.                 *)
THEOREM PlansAreOfTheQueue == SpecPlans => Spec
  <1>1. InitPlans => Init /\ PlanTypes
    BY InitPInv DEF InitPlans, PInv
  <1>2. PlanTypes /\ [NextPlans]_allVars => PlanTypes' /\ [Next]_vars
    BY TypesStay, StepIsQueueStep
  <1>3. QED
    BY <1>1, <1>2, PTL DEF SpecPlans, Spec

(* A plan that still matches is unapplied, and what it closes is           *)
(* witnessed: the inductive invariant.                                     *)
THEOREM PlansInvariant == SpecPlans => []PInv
  BY InitPInv, NextPInv, PlansAreOfTheQueue, TypeCorrect, PTL DEF SpecPlans

(* The type invariant.                                                     *)
THEOREM PlansTypeCorrect == SpecPlans => []PlansTypeOK
  <1>1. PInv /\ TypeOK => PlansTypeOK
    BY DEF PInv, PlanTypes, PlansTypeOK
  <1>2. QED
    BY <1>1, PlansInvariant, PlansAreOfTheQueue, TypeCorrect, PTL

(* An exact plan changes the queue at most once, however often and however *)
(* overlapping the calls that apply it (agent_runtime.py, the digest       *)
(* compared in the transaction).                                           *)
THEOREM PlansAreAppliedOnce == SpecPlans => []AppliedOnce
  <1>1. PInv => AppliedOnce
    BY DEF PInv, FreshIsUnapplied, AppliedOnce
  <1>2. QED
    BY <1>1, PlansInvariant, PTL

(* A projection job is closed only if its work was completed while the job *)
(* was open, whatever the Work Graph did between plan and apply.           *)
THEOREM JobsCloseOnCompletedWork == SpecPlans => []ClosedOnCompletedWork
  BY PlansInvariant, PTL DEF PInv

-----------------------------------------------------------------------------
(* DagExecutor                                                             *)

-----------------------------------------------------------------------------
(* The inductive invariant.                                                *)

ThreadAt == {"claim", "first beat", "handler", "complete", "fail", "done", "failed"}

ThreadRecord == [at: ThreadAt, fence: Nat, beats: BOOLEAN]

(* What a process is doing, and what its threads are.                      *)
RunAt == {"look", "enqueue", "threads", "finished", "raised"}

ThreadsOf(r) ==
    /\ r.thread = [s \in DOMAIN r.thread |-> r.thread[s]]
    /\ \A s \in DOMAIN r.thread : r.thread[s] \in ThreadRecord

RunOK(r) ==
    \/ r = Idle
    \/ /\ r = [at |-> r.at, known |-> r.known, enqueue |-> r.enqueue, thread |-> r.thread]
       /\ r.at \in RunAt
       /\ r.at = "threads" => ThreadsOf(r)
       /\ r.at = "enqueue" => ThreadsOf(r) /\ \A s \in DOMAIN r.thread : r.thread[s] = Thread

Shape ==
    /\ run = [x \in Executors |-> run[x]]
    /\ \A x \in Executors : RunOK(run[x])

FenceOf(x, s) == run[x].thread[s].fence

(* A thread that was given a lease and has not reported yet.               *)
HoldsFence(x, s) ==
    \/ At(x, s, "first beat") \/ At(x, s, "handler")
    \/ At(x, s, "complete") \/ At(x, s, "fail")

(* Fences are given once and begin a handler once: no two processes hold   *)
(* the same fence of a step, and the newest one has begun no handler as    *)
(* long as its holder is before the first beat.                            *)
FencesAreGivenOnce ==
    /\ \A x \in Executors, s \in Steps :
         HoldsFence(x, s) => FenceOf(x, s) \in 1 .. item[s].fence
    /\ \A x, y \in Executors, s \in Steps :
         HoldsFence(x, s) /\ HoldsFence(y, s) /\ FenceOf(x, s) = FenceOf(y, s) => x = y

BegunOncePerFence ==
    /\ begun \in [Steps -> Nat]
    /\ \A s \in Steps : begun[s] <= item[s].fence
    /\ \A x \in Executors, s \in Steps :
         At(x, s, "first beat") /\ FenceOf(x, s) = item[s].fence => begun[s] < item[s].fence

DInv == Shape /\ FencesAreGivenOnce /\ BegunOncePerFence

-----------------------------------------------------------------------------
(* What the steps do to the fences of the queue.                           *)

FencesStay == \A i \in Items : item'[i].fence = item[i].fence

LEMMA ReleasesKeepFences ==
    ASSUME NEW gone, Releases(gone)
    PROVE  FencesStay
  BY DEF Releases, FencesStay

LEMMA EnqueueKeepsFences ==
    ASSUME IInv, NEW i \in Items, NEW gated, Enqueue(i, gated)
    PROVE  FencesStay
  <1>1. item[i].fence = 0 /\ item \in [Items -> Item]
    BY DEF Enqueue, IInv, AbsentIsBlank, Row, TypeOK
  <1>2. item'[i].fence = 0 /\ \A j \in Items : j # i => item'[j] = item[j]
    BY <1>1 DEF Enqueue, Row
  <1>3. QED
    BY <1>1, <1>2 DEF FencesStay

LEMMA OthersKeepFences ==
    ASSUME IInv, Recover \/ Tick \/ \E i \in Items \ Steps : Enqueue(i, FALSE)
    PROVE  FencesStay /\ [Next]_vars
  <1>1. CASE Recover
    BY <1>1, RecoverReleases, ReleasesKeepFences DEF Next
  <1>2. CASE Tick
    BY <1>2 DEF Tick, FencesStay, Next
  <1>3. CASE \E i \in Items \ Steps : Enqueue(i, FALSE)
    BY <1>3, EnqueueKeepsFences DEF Next
  <1>4. QED
    BY <1>1, <1>2, <1>3

(* A claim gives the next fence of one item.                               *)
LEMMA ClaimGivesNextFence ==
    ASSUME IInv, NEW w \in Workers, NEW i \in Items, NEW n \in LeaseSeconds, Claim(w, i, n)
    PROVE  /\ item[i].fence \in Nat
           /\ item'[i].fence = item[i].fence + 1
           /\ \A j \in Items : j # i => item'[j].fence = item[j].fence
  <1>1. item \in [Items -> Item]
    BY DEF IInv, TypeOK
  <1>2. item'[i].fence = item[i].fence + 1 /\ \A j \in Items : j # i => item'[j] = item[j]
    BY <1>1 DEF Claim, Item
  <1>3. QED
    BY <1>1, <1>2 DEF Item

-----------------------------------------------------------------------------
(* What the steps of a process do to its threads.                          *)

(* One thread becomes what it becomes, and everything else stays.          *)
LEMMA ThreadStepIs ==
    ASSUME Shape, NEW x \in Executors, NEW s, NEW a, At(x, s, a), NEW v \in ThreadRecord,
           run' = [run EXCEPT ![x].thread[s] = v]
    PROVE  /\ Shape'
           /\ \A b : At(x, s, b)' <=> v.at = b
           /\ FenceOf(x, s)' = v.fence
           /\ \A y \in Executors : \A t : <<y, t>> # <<x, s>> =>
                 \A b : At(y, t, b)' => At(y, t, b) /\ FenceOf(y, t)' = FenceOf(y, t)
  <1> DEFINE r == run[x]
  <1>1. /\ r = [at |-> r.at, known |-> r.known, enqueue |-> r.enqueue, thread |-> r.thread]
        /\ r.at = "threads" /\ ThreadsOf(r) /\ s \in DOMAIN r.thread
    BY DEF Shape, RunOK, Idle, At, RunAt
  <1>2. PICK th : th = [r.thread EXCEPT ![s] = v]
    OBVIOUS
  <1>3. PICK q : q = [r EXCEPT !.thread = th]
    OBVIOUS
  <1>4. run' = [run EXCEPT ![x] = q]
    BY <1>2, <1>3
  <1>5. q = [at |-> r.at, known |-> r.known, enqueue |-> r.enqueue, thread |-> th]
    BY <1>1, <1>3
  <1>6. /\ DOMAIN th = DOMAIN r.thread
        /\ th[s] = v
        /\ \A t \in DOMAIN th : t # s => th[t] = r.thread[t]
    BY <1>1, <1>2 DEF ThreadsOf
  <1>7. th = [t \in DOMAIN th |-> th[t]] /\ \A t \in DOMAIN th : th[t] \in ThreadRecord
    BY <1>1, <1>2, <1>6 DEF ThreadsOf
  <1>8. q.at = "threads" /\ q.thread = th
    BY <1>1, <1>5
  <1>9. RunOK(q)
    BY <1>5, <1>7, <1>8 DEF RunOK, ThreadsOf, RunAt
  <1>10. /\ run' = [y \in Executors |-> run'[y]]
         /\ run'[x] = q
         /\ \A y \in Executors : y # x => run'[y] = run[y]
    BY <1>4 DEF Shape
  <1>11. \A y \in Executors : RunOK(run'[y])
    BY <1>9, <1>10 DEF Shape
  <1>12. Shape'
    BY <1>10, <1>11 DEF Shape
  <1>13. \A b : At(x, s, b)' <=> v.at = b
    BY <1>1, <1>6, <1>8, <1>10 DEF At
  <1>14. FenceOf(x, s)' = v.fence
    BY <1>6, <1>8, <1>10 DEF FenceOf
  <1>15. ASSUME NEW y \in Executors, NEW t, <<y, t>> # <<x, s>>, NEW b
         PROVE  At(y, t, b)' => At(y, t, b) /\ FenceOf(y, t)' = FenceOf(y, t)
    <2>1. CASE y # x
      BY <1>10, <2>1 DEF At, FenceOf
    <2>2. CASE y = x
      <3>1. t # s
        BY <1>15, <2>2
      <3>2. t \in DOMAIN th => th[t] = r.thread[t]
        BY <1>6, <3>1
      <3>3. QED
        BY <1>1, <1>6, <1>8, <1>10, <2>2, <3>2 DEF At, FenceOf
    <2>3. QED
      BY <2>1, <2>2
  <1>16. QED
    BY <1>12, <1>13, <1>14, <1>15

(* Nothing is given to a thread: whoever holds a fence held it before.     *)
Quiet ==
    \A y \in Executors : \A s :
      /\ HoldsFence(y, s)' => HoldsFence(y, s) /\ FenceOf(y, s)' = FenceOf(y, s)
      /\ At(y, s, "first beat")' => At(y, s, "first beat")

(* A process whose run is replaced, without a thread that holds a fence.   *)
LEMMA RunReplaced ==
    ASSUME Shape, NEW x \in Executors, NEW r, run' = [run EXCEPT ![x] = r], RunOK(r),
           \/ r.at # "threads"
           \/ \A s \in DOMAIN r.thread : r.thread[s] = Thread
    PROVE  Shape' /\ Quiet
  <1>1. /\ run' = [y \in Executors |-> run'[y]]
        /\ run'[x] = r
        /\ \A y \in Executors : y # x => run'[y] = run[y]
    BY DEF Shape
  <1>2. \A y \in Executors : RunOK(run'[y])
    BY <1>1 DEF Shape
  <1>3. Shape'
    BY <1>1, <1>2 DEF Shape
  <1>4. Thread.at = "claim"
    BY DEF Thread
  <1>5. \A s : ~HoldsFence(x, s)'
    BY <1>1, <1>4 DEF HoldsFence, At
  <1>6. \A y \in Executors : \A s : \A b :
          y # x => (At(y, s, b)' <=> At(y, s, b)) /\ FenceOf(y, s)' = FenceOf(y, s)
    BY <1>1 DEF At, FenceOf
  <1>7. Quiet
    BY <1>5, <1>6 DEF Quiet, HoldsFence
  <1>8. QED
    BY <1>3, <1>7

LEMMA UnchangedIsQuiet ==
    ASSUME Shape, UNCHANGED run
    PROVE  Shape' /\ Quiet
  BY DEF Shape, RunOK, ThreadsOf, Quiet, HoldsFence, At, FenceOf

LEMMA GotoIs ==
    ASSUME Shape, NEW x \in Executors, NEW at \in RunAt, Goto(x, at), run[x] # Idle,
           at = "threads" => run[x].at = "enqueue",
           at # "enqueue"
    PROVE  Shape' /\ Quiet
  <1> DEFINE r == run[x]
  <1>1. /\ r = [at |-> r.at, known |-> r.known, enqueue |-> r.enqueue, thread |-> r.thread]
        /\ r.at = "enqueue" => ThreadsOf(r) /\ \A s \in DOMAIN r.thread : r.thread[s] = Thread
    BY DEF Shape, RunOK
  <1>2. PICK q : q = [r EXCEPT !.at = at]
    OBVIOUS
  <1>3. run' = [run EXCEPT ![x] = q]
    BY <1>2 DEF Goto
  <1>4. q = [at |-> at, known |-> r.known, enqueue |-> r.enqueue, thread |-> r.thread]
    BY <1>1, <1>2
  <1>5. q.at = at /\ q.thread = r.thread
    BY <1>4
  <1>6. RunOK(q)
    BY <1>1, <1>4, <1>5 DEF RunOK, ThreadsOf
  <1>7. QED
    BY <1>1, <1>3, <1>5, <1>6, RunReplaced

LEMMA LoopIsQuiet ==
    ASSUME Shape, NEW x \in Executors, Dispatch(x) \/ Loop(x) \/ Die(x)
    PROVE  Shape' /\ Quiet
  <1> DEFINE r == run[x]
  <1>1. r.at # "idle" =>
          /\ r # Idle
          /\ r = [at |-> r.at, known |-> r.known, enqueue |-> r.enqueue, thread |-> r.thread]
          /\ r.at \in RunAt
          /\ r.at = "threads" => ThreadsOf(r)
          /\ r.at = "enqueue" => ThreadsOf(r) /\ \A s \in DOMAIN r.thread : r.thread[s] = Thread
    BY DEF Shape, RunOK, Idle
  <1>2. CASE Dispatch(x)
    <2>1. PICK q : q = [at |-> "look", known |-> CompletedSteps, enqueue |-> {}, thread |-> <<>>]
      OBVIOUS
    <2>2. run' = [run EXCEPT ![x] = q] /\ q.at = "look"
      BY <1>2, <2>1 DEF Dispatch
    <2>3. RunOK(q)
      BY <2>1 DEF RunOK, RunAt
    <2>4. QED
      BY <2>2, <2>3, RunReplaced
  <1>3. CASE Finish(x)
    BY <1>1, <1>3, GotoIs DEF Finish, RunAt
  <1>4. CASE LookAtQueue(x)
    <2>1. PICK known, enqueue, batch :
            run' = [run EXCEPT ![x] = [at |-> "enqueue", known |-> known, enqueue |-> enqueue,
                                       thread |-> [s \in batch |-> Thread]]]
      BY <1>4 DEF LookAtQueue
    <2>2. PICK th : th = [s \in batch |-> Thread]
      OBVIOUS
    <2>3. th = [s \in DOMAIN th |-> th[s]] /\ \A s \in DOMAIN th : th[s] = Thread
      BY <2>2
    <2>4. PICK q : q = [at |-> "enqueue", known |-> known, enqueue |-> enqueue, thread |-> th]
      OBVIOUS
    <2>5. run' = [run EXCEPT ![x] = q] /\ q.at = "enqueue" /\ q.thread = th
      BY <2>1, <2>2, <2>4
    <2>6. Thread \in ThreadRecord
      BY DEF Thread, ThreadRecord, ThreadAt
    <2>7. RunOK(q)
      BY <2>3, <2>4, <2>5, <2>6 DEF RunOK, RunAt, ThreadsOf
    <2>8. QED
      BY <2>5, <2>7, RunReplaced
  <1>5. CASE Raise(x)
    BY <1>1, <1>5, GotoIs DEF Raise, RunAt
  <1>6. ASSUME NEW s \in Steps, EnqueueStep(x, s)
        PROVE  Shape' /\ Quiet
    <2>1. PICK q : q = [r EXCEPT !.enqueue = @ \ {s}]
      OBVIOUS
    <2>2. run' = [run EXCEPT ![x] = q] /\ r.at = "enqueue"
      BY <1>6, <2>1 DEF EnqueueStep
    <2>3. q = [at |-> "enqueue", known |-> r.known, enqueue |-> r.enqueue \ {s},
               thread |-> r.thread]
      BY <1>1, <2>1, <2>2
    <2>4. q.at = "enqueue" /\ q.thread = r.thread
      BY <2>3
    <2>5. RunOK(q)
      BY <1>1, <2>2, <2>3, <2>4 DEF RunOK, RunAt, ThreadsOf
    <2>6. QED
      BY <2>2, <2>4, <2>5, RunReplaced
  <1>7. CASE StartThreads(x)
    BY <1>1, <1>7, GotoIs DEF StartThreads, RunAt
  <1>8. CASE Gather(x)
    <2>1. PICK at \in {"look", "raised"} : \E done :
            run' = [run EXCEPT ![x].at = at, ![x].known = @ \cup done, ![x].thread = <<>>]
      BY <1>8 DEF Gather
    <2>2. PICK done :
            run' = [run EXCEPT ![x].at = at, ![x].known = @ \cup done, ![x].thread = <<>>]
      BY <2>1
    <2>3. r.at = "threads"
      BY <1>8 DEF Gather
    <2>4. PICK q : /\ q = [at |-> at, known |-> r.known \cup done, enqueue |-> r.enqueue,
                           thread |-> <<>>]
                   /\ run' = [run EXCEPT ![x] = q]
      <3>1. PICK q1 : q1 = [r EXCEPT !.at = at]
        OBVIOUS
      <3>2. q1 = [at |-> at, known |-> r.known, enqueue |-> r.enqueue, thread |-> r.thread]
        BY <1>1, <2>3, <3>1
      <3>3. PICK q2 : q2 = [q1 EXCEPT !.known = r.known \cup done]
        OBVIOUS
      <3>4. q2 = [at |-> at, known |-> r.known \cup done, enqueue |-> r.enqueue,
                  thread |-> r.thread]
        BY ONLY <3>2, <3>3
      <3>5. PICK q3 : q3 = [q2 EXCEPT !.thread = <<>>]
        OBVIOUS
      <3>6. q3 = [at |-> at, known |-> r.known \cup done, enqueue |-> r.enqueue,
                  thread |-> <<>>]
        BY ONLY <3>4, <3>5
      <3>7. run' = [run EXCEPT ![x] = q3]
        BY <2>2, <3>1, <3>2, <3>3, <3>4, <3>5 DEF Shape
      <3>8. QED
        BY <3>6, <3>7
    <2>5. q.at = at /\ RunOK(q)
      BY <2>4 DEF RunOK, RunAt
    <2>6. QED
      BY <2>4, <2>5, RunReplaced
  <1>9. CASE Die(x)
    <2>1. run' = [run EXCEPT ![x] = Idle] /\ Idle.at # "threads" /\ RunOK(Idle)
      BY <1>9 DEF Die, Idle, RunOK
    <2>2. QED
      BY <2>1, RunReplaced
  <1>10. QED
    BY <1>2, <1>3, <1>4, <1>5, <1>6, <1>7, <1>8, <1>9 DEF Loop

LEMMA ThreadIs ==
    ASSUME Shape, NEW x \in Executors, NEW s, NEW a, At(x, s, a)
    PROVE  /\ run[x].thread[s] \in ThreadRecord
           /\ run[x].thread[s].at = a
  <1>1. run[x].at = "threads" /\ s \in DOMAIN run[x].thread /\ run[x].thread[s].at = a
    BY DEF At
  <1>2. RunOK(run[x]) /\ run[x] # Idle
    BY <1>1 DEF Shape, Idle
  <1>3. ThreadsOf(run[x])
    BY <1>1, <1>2 DEF RunOK
  <1>4. QED
    BY <1>1, <1>3 DEF ThreadsOf

(* A thread goes on with the fence it has, if any.                         *)
LEMMA ProceedIs ==
    ASSUME Shape, NEW x \in Executors, NEW s, NEW a, At(x, s, a), NEW b \in ThreadAt,
           Proceed(x, s, b), b # "first beat",
           b \in {"handler", "complete", "fail"} => HoldsFence(x, s)
    PROVE  Shape' /\ Quiet /\ ~At(x, s, "first beat")'
  <1>1. PICK v : v = [run[x].thread[s] EXCEPT !.at = b]
    OBVIOUS
  <1>2. v \in ThreadRecord /\ v.at = b /\ v.fence = FenceOf(x, s)
    BY <1>1, ThreadIs DEF ThreadRecord, FenceOf
  <1>3. run' = [run EXCEPT ![x].thread[s] = v]
    BY <1>1 DEF Proceed
  <1>4. /\ Shape'
        /\ \A c : At(x, s, c)' <=> v.at = c
        /\ FenceOf(x, s)' = v.fence
        /\ \A y \in Executors : \A t : <<y, t>> # <<x, s>> =>
              \A c : At(y, t, c)' => At(y, t, c) /\ FenceOf(y, t)' = FenceOf(y, t)
    BY <1>2, <1>3, ThreadStepIs
  <1>5. ~At(x, s, "first beat")'
    BY <1>2, <1>4
  <1>6. HoldsFence(x, s)' => HoldsFence(x, s) /\ FenceOf(x, s)' = FenceOf(x, s)
    BY <1>2, <1>4 DEF HoldsFence
  <1>7. ASSUME NEW y \in Executors, NEW t
        PROVE  /\ HoldsFence(y, t)' => HoldsFence(y, t) /\ FenceOf(y, t)' = FenceOf(y, t)
               /\ At(y, t, "first beat")' => At(y, t, "first beat")
    <2>1. CASE <<y, t>> = <<x, s>>
      BY <1>5, <1>6, <2>1
    <2>2. CASE <<y, t>> # <<x, s>>
      BY <1>4, <2>2 DEF HoldsFence
    <2>3. QED
      BY <2>1, <2>2
  <1>8. QED
    BY <1>4, <1>5, <1>7 DEF Quiet

LEMMA BeatFailsIs ==
    ASSUME Shape, NEW x \in Executors, NEW s \in Steps, BeatFails(x, s)
    PROVE  Shape' /\ Quiet
  <1>1. At(x, s, "handler")
    BY DEF BeatFails
  <1>2. PICK v : v = [run[x].thread[s] EXCEPT !.beats = FALSE]
    OBVIOUS
  <1>3. v \in ThreadRecord /\ v.at = "handler" /\ v.fence = FenceOf(x, s)
    BY <1>1, <1>2, ThreadIs DEF ThreadRecord, FenceOf
  <1>4. run' = [run EXCEPT ![x].thread[s] = v]
    BY <1>2 DEF BeatFails
  <1>5. /\ Shape'
        /\ \A c : At(x, s, c)' <=> v.at = c
        /\ FenceOf(x, s)' = v.fence
        /\ \A y \in Executors : \A t : <<y, t>> # <<x, s>> =>
              \A c : At(y, t, c)' => At(y, t, c) /\ FenceOf(y, t)' = FenceOf(y, t)
    BY <1>1, <1>3, <1>4, ThreadStepIs
  <1>6. ASSUME NEW y \in Executors, NEW t
        PROVE  /\ HoldsFence(y, t)' => HoldsFence(y, t) /\ FenceOf(y, t)' = FenceOf(y, t)
               /\ At(y, t, "first beat")' => At(y, t, "first beat")
    <2>1. CASE <<y, t>> = <<x, s>>
      BY <1>1, <1>3, <1>5, <2>1 DEF HoldsFence
    <2>2. CASE <<y, t>> # <<x, s>>
      BY <1>5, <2>2 DEF HoldsFence
    <2>3. QED
      BY <2>1, <2>2
  <1>7. QED
    BY <1>5, <1>6 DEF Quiet

-----------------------------------------------------------------------------
(* The invariant, step by step.                                            *)

LEMMA FencesAreNumbers == IInv => \A s \in Steps : item[s].fence \in Nat
  BY DagAssumption DEF IInv, TypeOK, Item

LEMMA QuietKeepsInvariant ==
    ASSUME DInv, IInv, Shape', Quiet, FencesStay, UNCHANGED begun
    PROVE  DInv'
  <1>1. \A s \in Steps : item'[s].fence = item[s].fence
    BY DagAssumption DEF FencesStay
  <1>2. FencesAreGivenOnce'
    BY <1>1 DEF DInv, FencesAreGivenOnce, Quiet
  <1>3. ASSUME NEW x \in Executors, NEW s \in Steps, At(x, s, "first beat")'
        PROVE  At(x, s, "first beat") /\ FenceOf(x, s)' = FenceOf(x, s)
    BY <1>3 DEF Quiet, HoldsFence
  <1>4. BegunOncePerFence'
    BY <1>1, <1>3 DEF DInv, BegunOncePerFence
  <1>5. QED
    BY <1>2, <1>4 DEF DInv

(* What a thread presents with its fence is evidence the queue may get.    *)
LEMMA EvidenceIsPresented ==
    ASSUME DInv, IInv, NEW x \in Executors, NEW s \in Steps, HoldsFence(x, s)
    PROVE  /\ EvidenceOf(s, run[x].thread[s]) \in Presented
           /\ EvidenceOf(s, run[x].thread[s]).item = s
           /\ EvidenceOf(s, run[x].thread[s]).fence = FenceOf(x, s)
  <1>1. FenceOf(x, s) \in 1 .. item[s].fence /\ s \in Items /\ s \in Workers
    BY DagAssumption DEF DInv, FencesAreGivenOnce
  <1>2. item[s].fence = item[s].attempts /\ item[s].attempts <= MaxAttempts[s]
    BY <1>1 DEF IInv, FenceCountsAttempts, AttemptsBounded
  <1>3. item[s].fence \in Nat /\ MaxAttempts[s] \in 1 .. MaximumAttempts /\ MaximumAttempts \in Nat
    BY <1>1, FencesAreNumbers, PolicyAssumption
  <1>4. FenceOf(x, s) \in 1 .. MaximumAttempts
    BY <1>1, <1>2, <1>3
  <1>5. QED
    BY <1>1, <1>4 DEF EvidenceOf, Presented, FenceOf

(* The newest fence begins its handler, once.                              *)
LEMMA FirstBeatKeepsInvariant ==
    ASSUME DInv, IInv, NEW x \in Executors, NEW s \in Steps, FirstBeat(x, s)
    PROVE  DInv' /\ [Next]_vars
  <1>1. At(x, s, "first beat") /\ HoldsFence(x, s)
    BY DEF FirstBeat, HoldsFence
  <1>2. PICK e : e = EvidenceOf(s, run[x].thread[s])
    OBVIOUS
  <1>3. e \in Presented /\ e.item = s /\ e.fence = FenceOf(x, s)
    BY <1>1, <1>2, EvidenceIsPresented
  <1>4. Heartbeat(e, Seconds)
    BY <1>2 DEF FirstBeat
  <1>5. [Next]_vars
    BY <1>3, <1>4, DagAssumption DEF Next
  <1>6. PICK l \in leases : l.item = s /\ l.fence = FenceOf(x, s)
    BY <1>3, <1>4, HeldIs DEF Heartbeat, IInv
  <1>7. FenceOf(x, s) = item[s].fence
    BY <1>6 DEF IInv, TablesAgree, LeaseMatchesItem
  <1>8. Shape' /\ Quiet /\ ~At(x, s, "first beat")'
    <2>1. Proceed(x, s, "handler") /\ "handler" \in ThreadAt
      BY DEF FirstBeat, ThreadAt
    <2>2. QED
      BY <1>1, <2>1, ProceedIs DEF DInv
  <1>9. item' = item /\ \A t \in Steps : item'[t].fence = item[t].fence
    BY <1>4 DEF Heartbeat
  <1>10. FencesAreGivenOnce'
    <2>1. \A y \in Executors, t \in Steps :
            HoldsFence(y, t)' => HoldsFence(y, t) /\ FenceOf(y, t)' = FenceOf(y, t)
      BY <1>8 DEF Quiet
    <2>2. QED
      BY <1>9, <2>1 DEF DInv, FencesAreGivenOnce
  <1>11. /\ begun' \in [Steps -> Nat]
         /\ begun'[s] = begun[s] + 1
         /\ \A t \in Steps : t # s => begun'[t] = begun[t]
    <2>1. begun \in [Steps -> Nat]
      BY DEF DInv, BegunOncePerFence
    <2>2. begun' = [begun EXCEPT ![s] = @ + 1]
      BY DEF FirstBeat
    <2>3. QED
      BY <2>1, <2>2
  <1>12. begun[s] < item[s].fence /\ begun[s] \in Nat /\ item[s].fence \in Nat
    BY <1>1, <1>7, FencesAreNumbers DEF DInv, BegunOncePerFence
  <1>13. \A t \in Steps : begun'[t] <= item[t].fence
    <2>1. \A t \in Steps : begun[t] <= item[t].fence
      BY DEF DInv, BegunOncePerFence
    <2>2. QED
      BY <1>11, <1>12, <2>1
  <1>14. ASSUME NEW y \in Executors, NEW t \in Steps, At(y, t, "first beat")',
                FenceOf(y, t)' = item[t].fence
         PROVE  begun'[t] < item[t].fence
    <2>1. At(y, t, "first beat") /\ HoldsFence(y, t) /\ FenceOf(y, t)' = FenceOf(y, t)
      BY <1>8, <1>14 DEF Quiet, HoldsFence
    <2>2. t # s
      <3>1. SUFFICES ASSUME t = s
                     PROVE  FALSE
        OBVIOUS
      <3>2. y = x
        BY <1>1, <1>7, <1>14, <2>1, <3>1 DEF DInv, FencesAreGivenOnce
      <3>3. QED
        BY <1>8, <1>14, <3>1, <3>2
    <2>3. QED
      BY <1>11, <1>14, <2>1, <2>2 DEF DInv, BegunOncePerFence
  <1>15. BegunOncePerFence'
    BY <1>9, <1>11, <1>13, <1>14 DEF BegunOncePerFence
  <1>16. QED
    BY <1>5, <1>8, <1>10, <1>15 DEF DInv

(* A claim gives a fence that nobody holds and that began nothing.         *)
LEMMA ClaimStepKeepsInvariant ==
    ASSUME DInv, IInv, NEW x \in Executors, NEW s \in Steps, ClaimStep(x, s)
    PROVE  DInv' /\ [Next]_vars
  <1>1. PICK i \in Items :
          /\ Claim(s, i, Seconds)
          /\ run' = [run EXCEPT ![x].thread[s] =
                       [at |-> IF i = s THEN "first beat" ELSE "failed",
                        fence |-> IF i = s THEN item'[s].fence ELSE 0,
                        beats |-> TRUE]]
    BY DEF ClaimStep
  <1>2. s \in Items /\ s \in Workers /\ Seconds \in LeaseSeconds /\ Steps \subseteq Items
    BY DagAssumption
  <1>3. [Next]_vars
    BY <1>1, <1>2 DEF Next
  <1>4. /\ item[i].fence \in Nat
        /\ item'[i].fence = item[i].fence + 1
        /\ \A j \in Items : j # i => item'[j].fence = item[j].fence
    BY <1>1, <1>2, ClaimGivesNextFence
  <1>5. PICK v : v = [at |-> IF i = s THEN "first beat" ELSE "failed",
                      fence |-> IF i = s THEN item'[s].fence ELSE 0,
                      beats |-> TRUE]
    OBVIOUS
  <1>6. /\ v \in ThreadRecord
        /\ v.at = IF i = s THEN "first beat" ELSE "failed"
        /\ i = s => v.fence = item'[s].fence
        /\ run' = [run EXCEPT ![x].thread[s] = v]
    <2>1. run' = [run EXCEPT ![x].thread[s] = v]
      BY <1>1, <1>5
    <2>2. CASE i = s
      <3>1. item'[s].fence \in Nat
        BY <1>4, <2>2
      <3>2. v = [at |-> "first beat", fence |-> item'[s].fence, beats |-> TRUE]
        BY <1>5, <2>2
      <3>3. QED
        BY <2>1, <2>2, <3>1, <3>2 DEF ThreadRecord, ThreadAt
    <2>3. CASE i # s
      <3>1. v = [at |-> "failed", fence |-> 0, beats |-> TRUE]
        BY <1>5, <2>3
      <3>2. QED
        BY <2>1, <2>3, <3>1 DEF ThreadRecord, ThreadAt
    <2>4. QED
      BY <2>2, <2>3
  <1>7. At(x, s, "claim") /\ begun' = begun
    BY DEF ClaimStep
  <1>8. /\ Shape'
        /\ \A c : At(x, s, c)' <=> v.at = c
        /\ FenceOf(x, s)' = v.fence
        /\ \A y \in Executors : \A t : <<y, t>> # <<x, s>> =>
              \A c : At(y, t, c)' => At(y, t, c) /\ FenceOf(y, t)' = FenceOf(y, t)
    BY <1>6, <1>7, ThreadStepIs DEF DInv
  <1>9. HoldsFence(x, s)' => /\ i = s
                             /\ FenceOf(x, s)' = item[s].fence + 1
                             /\ FenceOf(x, s)' = item'[s].fence
    <2>1. HoldsFence(x, s)' => v.at # "failed"
      <3>1. /\ At(x, s, "first beat")' => v.at = "first beat"
            /\ At(x, s, "handler")' => v.at = "handler"
            /\ At(x, s, "complete")' => v.at = "complete"
            /\ At(x, s, "fail")' => v.at = "fail"
        BY <1>8
      <3>2. QED
        BY <3>1 DEF HoldsFence
    <2>2. QED
      BY <1>4, <1>6, <1>8, <2>1
  <1>10. \A t \in Steps : /\ item[t].fence \in Nat
                          /\ item'[t].fence \in {item[t].fence, item[t].fence + 1}
    BY <1>2, <1>4, FencesAreNumbers
  <1>11. ASSUME NEW y \in Executors, NEW t \in Steps, HoldsFence(y, t)', <<y, t>> # <<x, s>>
         PROVE  /\ HoldsFence(y, t)
                /\ FenceOf(y, t)' = FenceOf(y, t)
                /\ FenceOf(y, t) \in 1 .. item[t].fence
    BY <1>8, <1>11 DEF HoldsFence, DInv, FencesAreGivenOnce
  <1>12. ASSUME NEW y \in Executors, NEW t \in Steps, HoldsFence(y, t)'
         PROVE  FenceOf(y, t)' \in 1 .. item'[t].fence
    <2>1. CASE <<y, t>> = <<x, s>>
      <3>1. y = x /\ t = s
        BY <2>1
      <3>2. QED
        BY <1>9, <1>10, <1>12, <3>1
    <2>2. CASE <<y, t>> # <<x, s>>
      BY <1>10, <1>11, <1>12, <2>2
    <2>3. QED
      BY <2>1, <2>2
  <1>13. ASSUME NEW y \in Executors, NEW z \in Executors, NEW t \in Steps,
                HoldsFence(y, t)', HoldsFence(z, t)', FenceOf(y, t)' = FenceOf(z, t)'
         PROVE  y = z
    <2>1. ASSUME NEW a \in Executors, HoldsFence(a, s)', a # x, HoldsFence(x, s)'
          PROVE  FenceOf(a, s)' # FenceOf(x, s)'
      BY <1>9, <1>10, <1>11, <2>1
    <2>2. CASE t = s /\ y = x /\ z # x
      BY <1>13, <2>1, <2>2
    <2>3. CASE t = s /\ z = x /\ y # x
      BY <1>13, <2>1, <2>3
    <2>4. CASE t # s \/ (y # x /\ z # x)
      <3>1. <<y, t>> # <<x, s>> /\ <<z, t>> # <<x, s>>
        BY <2>4
      <3>2. QED
        BY <1>11, <1>13, <3>1 DEF DInv, FencesAreGivenOnce
    <2>5. QED
      BY <2>2, <2>3, <2>4
  <1>14. ASSUME NEW t \in Steps
         PROVE  /\ begun[t] \in Nat
                /\ begun[t] <= item[t].fence
                /\ begun[t] <= item'[t].fence
    <2>1. begun[t] \in Nat /\ begun[t] <= item[t].fence
      BY DEF DInv, BegunOncePerFence
    <2>2. QED
      BY <1>10, <2>1
  <1>15. ASSUME NEW y \in Executors, NEW t \in Steps, At(y, t, "first beat")',
                FenceOf(y, t)' = item'[t].fence
         PROVE  begun[t] < item'[t].fence
    <2>1. HoldsFence(y, t)'
      BY <1>15 DEF HoldsFence
    <2>2. begun[t] \in Nat /\ begun[t] <= item[t].fence
      BY <1>14
    <2>3. CASE <<y, t>> = <<x, s>>
      <3>1. y = x /\ t = s
        BY <2>3
      <3>2. QED
        <4>1. item'[s].fence = item[s].fence + 1
          BY <1>9, <2>1, <3>1
        <4>2. QED
          BY <1>10, <1>14, <3>1, <4>1
    <2>4. CASE <<y, t>> # <<x, s>>
      <3>1. At(y, t, "first beat")
        BY <1>8, <1>15, <2>4
      <3>2. QED
        <4>1. FenceOf(y, t) = item'[t].fence /\ FenceOf(y, t) \in 1 .. item[t].fence
          BY <1>11, <1>15, <2>1, <2>4
        <4>2. item'[t].fence = item[t].fence
          BY <1>10, <4>1
        <4>3. QED
          BY <3>1, <4>1, <4>2 DEF DInv, BegunOncePerFence
    <2>5. QED
      BY <2>3, <2>4
  <1>16. FencesAreGivenOnce' /\ BegunOncePerFence'
    BY <1>7, <1>12, <1>13, <1>14, <1>15 DEF FencesAreGivenOnce, BegunOncePerFence, DInv
  <1>17. QED
    BY <1>3, <1>8, <1>16 DEF DInv

LEMMA UnchangedKeepsFences == UNCHANGED vars => FencesStay /\ [Next]_vars
  BY DEF vars, FencesStay

(* A report with the fence of the thread, and what it is to the queue.     *)
LEMMA ReportIs ==
    ASSUME DInv, IInv, NEW x \in Executors, NEW s \in Steps, HoldsFence(x, s),
           \/ Heartbeat(EvidenceOf(s, run[x].thread[s]), Seconds)
           \/ Complete(EvidenceOf(s, run[x].thread[s]))
           \/ \E safe \in BOOLEAN : Fail(EvidenceOf(s, run[x].thread[s]), safe)
    PROVE  FencesStay /\ [Next]_vars
  <1>1. PICK e : e = EvidenceOf(s, run[x].thread[s])
    OBVIOUS
  <1>2. e \in Presented
    BY <1>1, EvidenceIsPresented
  <1>3. CASE Heartbeat(e, Seconds)
    <2>1. item' = item
      BY <1>3 DEF Heartbeat
    <2>2. QED
      BY <1>2, <1>3, <2>1, DagAssumption DEF FencesStay, Next
  <1>4. CASE Complete(e)
    BY <1>2, <1>4, CompleteReleases, ReleasesKeepFences DEF Next
  <1>5. ASSUME NEW safe \in BOOLEAN, Fail(e, safe)
        PROVE  FencesStay /\ [Next]_vars
    BY <1>2, <1>5, FailReleases, ReleasesKeepFences DEF Next
  <1>6. QED
    BY <1>1, <1>3, <1>4, <1>5

LEMMA ThreadKeepsInvariant ==
    ASSUME DInv, IInv, NEW x \in Executors, NEW s \in Steps,
           ThreadStep(x, s) \/ Beat(x, s) \/ BeatFails(x, s)
    PROVE  DInv' /\ [Next]_vars
  <1> USE DEF ThreadAt
  <1>1. Shape
    BY DEF DInv
  <1>2. \A a : At(x, s, a) /\ a \in {"first beat", "handler", "complete", "fail"} => HoldsFence(x, s)
    BY DEF HoldsFence
  <1>3. CASE ClaimStep(x, s)
    BY <1>3, ClaimStepKeepsInvariant
  <1>4. CASE FirstBeat(x, s)
    BY <1>4, FirstBeatKeepsInvariant
  <1>5. CASE GiveUp(x, s) \/ HandlerReturns(x, s) \/ HandlerFails(x, s)
               \/ CompletionRefused(x, s) \/ FailureRefused(x, s)
    <2>1. FencesStay /\ [Next]_vars /\ UNCHANGED begun
      BY <1>5, UnchangedKeepsFences
         DEF GiveUp, HandlerReturns, HandlerFails, CompletionRefused, FailureRefused
    <2>2. PICK a, b : /\ At(x, s, a) /\ Proceed(x, s, b)
                      /\ b \in {"failed", "complete", "fail"}
                      /\ a \in {"handler", "complete", "fail"} \/ b = "failed"
      BY <1>5 DEF GiveUp, HandlerReturns, HandlerFails, CompletionRefused, FailureRefused
    <2>3. Shape' /\ Quiet
      BY <1>1, <1>2, <2>2, ProceedIs
    <2>4. QED
      BY <2>1, <2>3, QuietKeepsInvariant
  <1>6. CASE Beat(x, s)
    <2>1. HoldsFence(x, s) /\ UNCHANGED <<run, begun>>
      BY <1>2, <1>6 DEF Beat
    <2>2. FencesStay /\ [Next]_vars
      BY <1>6, <2>1, ReportIs DEF Beat
    <2>3. QED
      BY <1>1, <2>1, <2>2, UnchangedIsQuiet, QuietKeepsInvariant
  <1>7. CASE BeatFails(x, s)
    <2>1. FencesStay /\ [Next]_vars /\ UNCHANGED begun
      BY <1>7, UnchangedKeepsFences DEF BeatFails
    <2>2. QED
      BY <1>1, <1>7, <2>1, BeatFailsIs, QuietKeepsInvariant
  <1>8. CASE CompleteStep(x, s)
    <2>1. /\ At(x, s, "complete") /\ HoldsFence(x, s)
          /\ Proceed(x, s, "done") /\ UNCHANGED begun
      BY <1>2, <1>8 DEF CompleteStep
    <2>2. FencesStay /\ [Next]_vars
      BY <1>8, <2>1, ReportIs DEF CompleteStep
    <2>3. Shape' /\ Quiet
      BY <1>1, <2>1, ProceedIs
    <2>4. QED
      BY <2>1, <2>2, <2>3, QuietKeepsInvariant
  <1>9. CASE FailStep(x, s)
    <2>1. /\ At(x, s, "fail") /\ HoldsFence(x, s)
          /\ Proceed(x, s, "failed") /\ UNCHANGED begun
      BY <1>2, <1>9 DEF FailStep
    <2>2. (s \in ReadOnly) \in BOOLEAN
      OBVIOUS
    <2>3. \E safe \in BOOLEAN : Fail(EvidenceOf(s, run[x].thread[s]), safe)
      BY <1>9, <2>2 DEF FailStep
    <2>4. FencesStay /\ [Next]_vars
      BY <2>1, <2>3, ReportIs
    <2>5. Shape' /\ Quiet
      BY <1>1, <2>1, ProceedIs
    <2>6. QED
      BY <2>1, <2>4, <2>5, QuietKeepsInvariant
  <1>10. QED
    BY <1>3, <1>4, <1>5, <1>6, <1>7, <1>8, <1>9 DEF ThreadStep

(* The loop asks the queue for nothing but an enqueue.                     *)
LEMMA LoopKeepsInvariant ==
    ASSUME DInv, IInv, NEW x \in Executors, Dispatch(x) \/ Loop(x) \/ Die(x)
    PROVE  DInv' /\ [Next]_vars
  <1>1. Shape' /\ Quiet
    BY LoopIsQuiet DEF DInv
  <1>2. CASE UNCHANGED vars
    <2>1. UNCHANGED begun
      BY DEF Dispatch, Loop, Die, Finish, LookAtQueue, Raise, EnqueueStep, StartThreads, Gather
    <2>2. QED
      BY <1>1, <1>2, <2>1, UnchangedKeepsFences, QuietKeepsInvariant
  <1>3. ASSUME NEW s \in Steps, Enqueue(s, FALSE), EnqueueStep(x, s)
        PROVE  DInv' /\ [Next]_vars
    <2>1. s \in Items /\ UNCHANGED begun
      BY <1>3, DagAssumption DEF EnqueueStep
    <2>2. FencesStay /\ [Next]_vars
      BY <1>3, <2>1, EnqueueKeepsFences DEF Next
    <2>3. QED
      BY <1>1, <2>1, <2>2, QuietKeepsInvariant
  <1>4. UNCHANGED vars \/ \E s \in Steps : Enqueue(s, FALSE) /\ EnqueueStep(x, s)
    BY DEF Dispatch, Loop, Die, Finish, LookAtQueue, Raise, EnqueueStep, StartThreads, Gather
  <1>5. QED
    BY <1>2, <1>3, <1>4

LEMMA NextKeepsInvariant == DInv /\ IInv /\ [DagNext]_dagVars => DInv' /\ [Next]_vars
  <1> SUFFICES ASSUME DInv, IInv, [DagNext]_dagVars
               PROVE  DInv' /\ [Next]_vars
    OBVIOUS
  <1>1. CASE Others
    <2>1. FencesStay /\ [Next]_vars
      BY <1>1, OthersKeepFences DEF Others
    <2>2. UNCHANGED <<run, begun>>
      BY <1>1 DEF Others
    <2>3. QED
      BY <2>1, <2>2, UnchangedIsQuiet, QuietKeepsInvariant DEF DInv
  <1>2. CASE UNCHANGED dagVars
    BY <1>2, UnchangedIsQuiet, UnchangedKeepsFences, QuietKeepsInvariant DEF dagVars, DInv
  <1>3. QED
    BY <1>1, <1>2, ThreadKeepsInvariant, LoopKeepsInvariant DEF DagNext

LEMMA InitDInv == DagInit => DInv
  <1> SUFFICES ASSUME DagInit
               PROVE  DInv
    OBVIOUS
  <1>1. Shape /\ \A x \in Executors : run[x].at = "idle"
    BY DEF DagInit, Shape, RunOK, Idle
  <1>2. FencesAreGivenOnce
    BY <1>1 DEF FencesAreGivenOnce, HoldsFence, At
  <1>3. \A s \in Steps : item[s].fence = 0
    BY DagAssumption DEF DagInit, Init, Row
  <1>4. begun \in [Steps -> Nat] /\ \A s \in Steps : begun[s] = 0
    BY DEF DagInit
  <1>5. BegunOncePerFence
    <2>1. \A x \in Executors, s \in Steps : ~At(x, s, "first beat")
      BY <1>1 DEF At
    <2>2. \A s \in Steps : begun[s] <= item[s].fence
      BY <1>3, <1>4
    <2>3. QED
      BY <1>4, <2>1, <2>2 DEF BegunOncePerFence
  <1>6. QED
    BY <1>1, <1>2, <1>5 DEF DInv

-----------------------------------------------------------------------------
(* The theorems.                                                           *)

(* No fence is held twice and none begins two handlers, whatever is        *)
(* refused, lost, recovered or dispatched again: the inductive invariant   *)
(* of the executor.                                                        *)
THEOREM DagInvariant == DagSpec => [](DInv /\ IInv)
  <1>1. DagInit => DInv /\ IInv
    BY InitDInv, InitInvariant DEF DagInit
  <1>2. DInv /\ IInv /\ [DagNext]_dagVars => (DInv /\ IInv)'
    BY NextKeepsInvariant, NextInvariant, TypeCorrectNext DEF IInv
  <1>3. QED
    BY <1>1, <1>2, PTL DEF DagSpec

(* The executor uses the queue as any client may, so what                  *)
(* RuntimeQueueProofs shows of the queue holds under it.                   *)
THEOREM DagIsOfTheQueue == DagSpec => Spec
  <1>1. DagInit => Init
    BY DEF DagInit
  <1>2. QED
    BY <1>1, DagInvariant, NextKeepsInvariant, PTL DEF DagSpec, Spec

(* A step that may do more than read has at most one fence.                *)
LEMMA OneFence ==
    ASSUME TypeOK, AttemptHistory, EffectNeverReplayed, NEW i \in Items \ ReadOnly
    PROVE  item[i].fence <= 1
  <1>1. item[i].fence \in Nat
    BY DEF TypeOK, Item
  <1>2. SUFFICES ASSUME item[i].fence > 1
                 PROVE  FALSE
    BY <1>1
  <1>3. {a.fence : a \in {a \in attempt : a.item = i}} = 1 .. item[i].fence
    BY DEF AttemptHistory
  <1>4. PICK a \in attempt : a.item = i /\ a.fence = 1
    <2>1. 1 \in 1 .. item[i].fence
      BY <1>1, <1>2
    <2>2. QED
      BY <1>3, <2>1
  <1>5. PICK b \in attempt : b.item = i /\ b.fence = 2
    <2>1. 2 \in 1 .. item[i].fence
      BY <1>1, <1>2
    <2>2. QED
      BY <1>3, <2>1
  <1>6. a = b
    BY <1>4, <1>5 DEF EffectNeverReplayed
  <1>7. QED
    BY <1>4, <1>5, <1>6

(* A handler that may do more than read begins at most once and any other  *)
(* one within its limit, and handlers whose leases are live never share a  *)
(* resource, for any number of processes that dispatch the plan            *)
(* (generic_dag_executor.py, execute).                                     *)
THEOREM HandlersStayExclusive == DagSpec => []HandlersAreExclusive
  <1>1. ASSUME DInv, IInv, AttemptHistory, EffectNeverReplayed
        PROVE  HandlersBeginOnce
    <2>1. SUFFICES ASSUME NEW s \in Steps
                   PROVE  begun[s] <= IF s \in ReadOnly THEN MaxAttempts[s] ELSE 1
      BY DEF HandlersBeginOnce
    <2>2. /\ begun[s] \in Nat /\ item[s].fence \in Nat /\ begun[s] <= item[s].fence
          /\ s \in Items
      BY <1>1, FencesAreNumbers, DagAssumption DEF DInv, BegunOncePerFence
    <2>3. item[s].fence <= MaxAttempts[s] /\ MaxAttempts[s] \in Nat
      BY <1>1, <2>2, PolicyAssumption DEF IInv, FenceCountsAttempts, AttemptsBounded
    <2>4. s \notin ReadOnly => item[s].fence <= 1
      BY <1>1, <2>2, OneFence DEF IInv
    <2>5. QED
      BY <2>2, <2>3, <2>4
  <1>2. ASSUME DInv, IInv
        PROVE  HandlersKeepApart
    <2>1. SUFFICES ASSUME NEW x \in Executors, NEW y \in Executors,
                          NEW s \in Steps, NEW t \in Steps,
                          <<x, s>> # <<y, t>>,
                          At(x, s, "handler"), At(y, t, "handler"),
                          Held(EvidenceOf(s, run[x].thread[s])) # {},
                          Held(EvidenceOf(t, run[y].thread[t])) # {}
                   PROVE  s # t /\ ~Overlaps(s, t)
      BY DEF HandlersKeepApart
    <2>2. HoldsFence(x, s) /\ HoldsFence(y, t)
      BY <2>1 DEF HoldsFence
    <2>3. PICK l \in leases : l.item = s /\ l.fence = FenceOf(x, s)
      BY <1>2, <2>1, <2>2, EvidenceIsPresented, HeldIs DEF IInv
    <2>4. PICK m \in leases : m.item = t /\ m.fence = FenceOf(y, t)
      BY <1>2, <2>1, <2>2, EvidenceIsPresented, HeldIs DEF IInv
    <2>5. s # t
      <3>1. SUFFICES ASSUME s = t
                     PROVE  FALSE
        OBVIOUS
      <3>2. l = m
        BY <1>2, <2>3, <2>4, <3>1 DEF IInv, TablesAgree, LeaseMatchesItem
      <3>3. x = y
        BY <1>2, <2>2, <2>3, <2>4, <3>1, <3>2 DEF DInv, FencesAreGivenOnce
      <3>4. QED
        BY <2>1, <3>1, <3>3
    <2>6. s \in Items /\ t \in Items /\ item[s].status = "leased" /\ item[t].status = "leased"
      BY <1>2, <2>3, <2>4, LeasesAreOfLeasedItems
    <2>7. <<s, t>> \notin Clashes
      BY <1>2, <2>5, <2>6 DEF IInv, NoConflictingExecution
    <2>8. QED
      BY <2>5, <2>6, <2>7 DEF Clashes, Overlaps
  <1>3. QED
    BY <1>1, <1>2, DagInvariant, DagIsOfTheQueue, AttemptsAreHistory, EffectsAreNotReplayed, PTL
       DEF HandlersAreExclusive
=============================================================================
