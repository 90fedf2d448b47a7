-------------------------- MODULE RuntimeQueuePlans --------------------------
(***************************************************************************)
(* Exact plans over the runtime queue and the Work Graph.                  *)
(*                                                                         *)
(* A client first asks for a plan and then asks to apply it, by its id.    *)
(* Each apply call prepares the action again, refuses a plan id that is no *)
(* longer the same, and only then opens the transaction, which compares    *)
(* the state digest once more (_runtime_queue_action, _begin).  Two things *)
(* can happen in between: another queue action commits, or the Work Graph, *)
(* which the digest does not cover, changes.                               *)
(*                                                                         *)
(* The digest covers every table and the event log.  Each action but a     *)
(* reconcile appends an event, so no digest ever comes back: a plan is     *)
(* fresh until the next change of the database, which is all that is kept  *)
(* of the digest.  Plans are modelled for enqueue, claim and reconcile,    *)
(* whose outcome depends on what was read; the remaining actions carry     *)
(* only the caller's evidence and are taken as RuntimeQueue has them.      *)
(***************************************************************************)
EXTENDS RuntimeQueue

CONSTANTS
    Clients,        \* plans that are held
    Deliveries,     \* apply calls of one plan: the call and its retries
    Works,          \* work items
    DependsOn,      \* the dependencies of each work item
    BoundTo,        \* the [work, revision] each queue item is the execution of
    MaxRevision     \* bound: revisions of a work item

ASSUME WorkAssumption ==
    /\ DependsOn \in [Works -> SUBSET Works]
    /\ BoundTo \in [Items -> [work: Works, revision: Nat]]
    /\ MaxRevision \in Nat \ {0}

VARIABLES
    work,       \* the work records: status and revision
    projected,  \* whether the Work Graph projection is of the current records
    plan,       \* the plan each client holds
    fresh,      \* whether the queue is still as it was when the plan was made
    look,       \* what preparing a reconcile found of the projection so far
    call,       \* the apply calls of each plan
    effects,    \* history: how often a plan changed the queue
    witnessed   \* history: whether an open job's work was ever completed

planVars == <<plan, fresh, look, call, effects>>
graphVars == <<work, projected>>
allVars == <<vars, graphVars, planVars, witnessed>>

WorkStatus == {"active", "blocked", "completed", "cancelled"}

Active == {"active", "blocked"}

\* TRANSITIONS without proposed and archived, which nothing here tells from
\* active and cancelled.
Follows(status) ==
    CASE status = "active"    -> WorkStatus
      [] status = "blocked"   -> WorkStatus
      [] status = "completed" -> {"completed", "active"}
      [] status = "cancelled" -> {"cancelled", "active"}

NoPlan == [act |-> "none"]

Plan == {NoPlan}
          \cup [act: {"enqueue"}, item: Items]
          \cup [act: {"claim"}, worker: Workers, seconds: LeaseSeconds]
          \cup [act: {"reconcile"}, done: SUBSET Items]

InitPlans ==
    /\ Init
    /\ work = [w \in Works |-> [status |-> "active", revision |-> 1]]
    /\ projected = TRUE
    /\ plan = [c \in Clients |-> NoPlan]
    /\ fresh = [c \in Clients |-> FALSE]
    /\ look = [c \in Clients |-> "none"]
    /\ call = [c \in Clients |-> [d \in Deliveries |-> "unsent"]]
    /\ effects = [c \in Clients |-> 0]
    /\ witnessed = [i \in Items |-> FALSE]

-----------------------------------------------------------------------------
(* What planning reads.                                                    *)

(* The work item is at the bound revision, active, and free of unfinished  *)
(* dependencies.                                                           *)
Ready(i) ==
    LET w == BoundTo[i].work IN
    /\ work[w].status \in Active
    /\ work[w].revision = BoundTo[i].revision
    /\ \A v \in DependsOn[w] : work[v].status = "completed"

\* Work that is no longer active has nothing to wait for.
NotActive(i) == work[BoundTo[i].work].status \notin Active

WorkCompleted(i) == work[BoundTo[i].work].status = "completed"

(* The open jobs planned as completed, given what was found earlier of the *)
(* projection.                                                             *)
DoneJobs(found) == {i \in OpenJobs : found = "current" /\ WorkCompleted(i)}

(* What preparing the same request yields, now that found was read.        *)
Plannable(p, found) ==
    \/ p.act = "enqueue" /\ Ready(p.item)
    \/ p.act = "claim"
    \/ p.act = "reconcile" /\ found # "none" /\ p.done = DoneJobs(found)

Perform(p) ==
    \/ p.act = "enqueue" /\ Enqueue(p.item, p.item \notin ReadOnly)
    \/ p.act = "claim" /\ \E i \in Items : Claim(p.worker, i, p.seconds)
    \/ p.act = "reconcile" /\ Reconcile(p.done)

-----------------------------------------------------------------------------
(* Every step keeps the history of the jobs.                               *)
Witness ==
    witnessed' = [i \in Items |-> witnessed[i] \/
                    (job'[i] \in OpenJob /\ work'[BoundTo[i].work].status = "completed")]

Projection == IF projected THEN "current" ELSE "stale"

(* Preparing a reconcile begins with work_graph_projection_is_current; the *)
(* jobs and the work records are read after it.                            *)
Look(c) ==
    /\ look[c] = "none"
    /\ look' = [look EXCEPT ![c] = Projection]
    /\ UNCHANGED <<vars, graphVars, plan, fresh, call, effects>>
    /\ Witness

(* prepare_runtime_queue_action as a dry run, once the calls of the plan   *)
(* held before are over.                                                   *)
MakePlan(c, p) ==
    /\ Plannable(p, look[c])
    /\ \A d \in Deliveries : call[c][d] # "confirmed"
    /\ plan' = [plan EXCEPT ![c] = p]
    /\ fresh' = [fresh EXCEPT ![c] = TRUE]
    /\ look' = [look EXCEPT ![c] = "none"]
    /\ call' = [call EXCEPT ![c] = [d \in Deliveries |-> "unsent"]]
    /\ effects' = [effects EXCEPT ![c] = 0]
    /\ UNCHANGED <<vars, graphVars>>
    /\ Witness

(* An apply call prepares again and finds the plan id it was asked for.    *)
Confirm(c, d) ==
    /\ plan[c] # NoPlan
    /\ call[c][d] = "unsent"
    /\ fresh[c]
    /\ Plannable(plan[c], look[c])
    /\ call' = [call EXCEPT ![c][d] = "confirmed"]
    /\ look' = [look EXCEPT ![c] = "none"]
    /\ UNCHANGED <<vars, graphVars, plan, fresh, effects>>
    /\ Witness

\* The transaction does not compare the digest.
AnyPlan(c) == TRUE

(* _begin: the digest in the transaction is the one in the plan.           *)
DigestMatches(c) == fresh[c]

DatabaseChanges == <<schema, item, attempt, job>>' # <<schema, item, attempt, job>>

(* Any change of the database makes every plan stale.                      *)
Outdate == fresh' = [c \in Clients |-> fresh[c] /\ ~DatabaseChanges]

(* apply_runtime_queue_action of a confirmed call.                         *)
Apply(c, d) ==
    /\ call[c][d] = "confirmed"
    /\ DigestMatches(c)
    /\ Perform(plan[c])
    /\ Outdate
    /\ call' = [call EXCEPT ![c][d] = "answered"]
    /\ effects' = [effects EXCEPT ![c] = IF DatabaseChanges THEN @ + 1 ELSE @]
    /\ UNCHANGED <<graphVars, plan, look>>
    /\ Witness

(* The call ends without a change: the digest differs, the process dies,   *)
(* or there was nothing to do (a known idempotency key, nothing to claim). *)
EndCall(c, d) ==
    /\ call[c][d] = "confirmed"
    /\ call' = [call EXCEPT ![c][d] = "answered"]
    /\ UNCHANGED <<vars, graphVars, plan, fresh, look, effects>>
    /\ Witness

(* Another client's plan, made and applied, or a call that carries only    *)
(* its evidence; each of those leaves an event.                            *)
Elsewhere ==
    /\ \/ /\ \E p \in Plan : Plannable(p, Projection) /\ Perform(p)
          /\ Outdate
       \/ /\ \/ MigrateV2
             \/ \E e \in Presented :
                   \/ \E s \in LeaseSeconds : Heartbeat(e, s)
                   \/ \E k \in Claims : BindEffectClaim(e, k)
                   \/ \E k \in Claims, r \in Receipts : BindEffectReceipt(e, k, r)
                   \/ Complete(e)
                   \/ \E safe \in BOOLEAN : Fail(e, safe)
             \/ Recover
          /\ fresh' = [c \in Clients |-> FALSE]
    /\ UNCHANGED <<graphVars, plan, look, call, effects>>
    /\ Witness

(* Time alone changes nothing in the database.                             *)
TimePasses ==
    /\ Tick
    /\ UNCHANGED <<graphVars, planVars>>
    /\ Witness

(* A new revision of a work item; the projection no longer matches.        *)
ReviseWork(w, status) ==
    /\ work[w].revision < MaxRevision
    /\ status \in Follows(work[w].status)
    /\ work' = [work EXCEPT ![w] = [status |-> status, revision |-> @.revision + 1]]
    /\ projected' = FALSE
    /\ UNCHANGED <<vars, planVars>>
    /\ Witness

(* project_work_graph: rebuild the projection.                             *)
Project ==
    /\ ~projected
    /\ projected' = TRUE
    /\ UNCHANGED <<vars, work, planVars>>
    /\ Witness

NextPlans ==
    \/ \E c \in Clients : Look(c) \/ \E p \in Plan : MakePlan(c, p)
    \/ \E c \in Clients, d \in Deliveries : Confirm(c, d) \/ Apply(c, d) \/ EndCall(c, d)
    \/ Elsewhere
    \/ TimePasses
    \/ \E w \in Works, status \in WorkStatus : ReviseWork(w, status)
    \/ Project

SpecPlans == InitPlans /\ [][NextPlans]_allVars

-----------------------------------------------------------------------------
(* Properties.                                                             *)

(* The type invariant.                                                     *)
PlansTypeOK ==
    /\ TypeOK
    /\ work \in [Works -> [status: WorkStatus, revision: 1 .. MaxRevision]]
    /\ projected \in BOOLEAN
    /\ plan \in [Clients -> Plan]
    /\ fresh \in [Clients -> BOOLEAN]
    /\ look \in [Clients -> {"none", "current", "stale"}]
    /\ call \in [Clients -> [Deliveries -> {"unsent", "confirmed", "answered"}]]
    /\ effects \in [Clients -> Nat]
    /\ witnessed \in [Items -> BOOLEAN]

(* An exact plan changes the queue at most once, however often the call    *)
(* that applies it is repeated and however the calls overlap: a retried    *)
(* claim never leases a second item.                                       *)
AppliedOnce == \A c \in Clients : effects[c] <= 1

(* A projection job is closed only if the work item's record was completed *)
(* while the job was open: work that was cancelled or blocked, or that was *)
(* completed only before its execution, closes nothing.                    *)
ClosedOnCompletedWork == \A i \in Items : job[i] = "completed" => witnessed[i]

(* "The job cannot mark itself complete while the authoritative Work Graph *)
(* item remains active" (AGENT-RUNTIME-QUEUE.md, Completion                *)
(* reconciliation): no step closes the job of an active work item.         *)
NoJobClosesWhileWorkActive ==
    [][\A i \in Items :
          job[i] # "completed" /\ job'[i] = "completed" =>
             work[BoundTo[i].work].status \notin Active]_allVars
=============================================================================
