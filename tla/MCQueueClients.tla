---------------------------- MODULE MCQueueClients ----------------------------
(***************************************************************************)
(* Three kinds of clients of the runtime queue: clients with exact plans,  *)
(* processes that execute the plan of MCDagPlan, and, with a queue of      *)
(* their own, processes that run a research of two roles and a third that  *)
(* depends on them.  "clients" says whose behaviour it is; the others'     *)
(* variables stay as they began.                                           *)
(***************************************************************************)
EXTENDS RuntimeQueuePlans, DagExecutor, MCDagPlan

(* Two work items, the second of which depends on the first.  Items 0 and  *)
(* 3, which the token of step 3 may claim, are executions of their first   *)
(* revisions; the steps 1 and 2 are bound to a revision that no behaviour  *)
(* reaches, so that clients with plans do not enqueue them.  A version 1   *)
(* database may hold item 0.                                               *)
MCDependsOn == [w \in Works |-> IF w = "top" THEN {"base"} ELSE {}]

MCBoundTo ==
    (0 :> [work |-> "base", revision |-> 1]) @@ (3 :> [work |-> "top", revision |-> 1])
      @@ [i \in Items |-> [work |-> "base", revision |-> MaxRevision + 1]]

VARIABLES clients, planned, running, cancelled, by

Roles == {1, 2, 3}

Alone == {<<i, i>> : i \in Items}

(* The first role may be retried when its lease has expired.               *)
RoleAttempts == [i \in Items |-> IF i = 1 THEN 2 ELSE 1]
RoleDependsOn == (1 :> {}) @@ (2 :> {}) @@ (3 :> {1, 2})
Own == [x \in Executors |-> x]

Research == INSTANCE ResearchDispatch WITH
    Steps <- Roles, Workers <- Roles, CanRun <- Alone,
    Resources <- Items, Conflict <- Alone, Uses <- [i \in Items |-> {i}],
    ReadOnly <- Items, MaxAttempts <- RoleAttempts, MaximumAttempts <- 2,
    LeaseSeconds <- {1}, Claims <- {}, Receipts <- {}, GateFits <- {},
    StepDependsOn <- RoleDependsOn, MaxConcurrency <- 2, Seconds <- 1, MaxDispatches <- 2,
    Batches <- <<{1, 2}, {3}>>, ProcessOf <- Own, fresh <- planned

researchOnly == <<planned, running, cancelled, by>>

dagOnly == <<run, dispatches, begun>>

DagAtFirst ==
    /\ run = [x \in Executors |-> Idle]
    /\ dispatches = 0
    /\ begun = [s \in Steps |-> 0]

ResearchAtFirst ==
    /\ planned = {}
    /\ running = [x \in Executors |-> Research!NoCall]
    /\ cancelled = {}
    /\ by = [r \in Roles |-> Research!NoCall]

PlansAtFirst ==
    /\ work = [w \in Works |-> [status |-> "active", revision |-> 1]]
    /\ projected = TRUE
    /\ plan = [c \in Clients |-> NoPlan]
    /\ fresh = [c \in Clients |-> FALSE]
    /\ look = [c \in Clients |-> "none"]
    /\ call = [c \in Clients |-> [d \in Deliveries |-> "unsent"]]
    /\ effects = [c \in Clients |-> 0]
    /\ witnessed = [i \in Items |-> FALSE]

MCInit ==
    \/ /\ clients = "plans" /\ InitPlans /\ DagAtFirst /\ ResearchAtFirst
       /\ \A i \in DagSteps : item[i].status = "absent"
    \/ clients = "executors" /\ DagInit /\ PlansAtFirst /\ ResearchAtFirst
    \/ clients = "research" /\ Research!ResearchInit /\ PlansAtFirst

MCNext ==
    \/ clients = "plans" /\ NextPlans /\ UNCHANGED <<clients, dagOnly, researchOnly>>
    \/ /\ clients = "executors" /\ DagNext
       /\ UNCHANGED <<clients, graphVars, planVars, witnessed, researchOnly>>
    \/ /\ clients = "research" /\ Research!ResearchNext
       /\ UNCHANGED <<clients, graphVars, planVars, witnessed>>

MCSpec == MCInit /\ [][MCNext]_<<allVars, clients, dagOnly, researchOnly>>

(* The clients with exact plans by themselves                              *)
PlansSpec == clients = "plans" /\ MCSpec

(* and the executors by themselves.                                        *)
ExecutorsSpec == clients = "executors" /\ MCSpec

Symmetry == Permutations(Executors)

-----------------------------------------------------------------------------
(* All results of a research are of one call (research_runtime.py).        *)
ResearchIsOneCall == clients = "research" => Research!ResearchIsOneCall
=============================================================================
