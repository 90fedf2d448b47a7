--------------------------- MODULE ModelAssignment ---------------------------
(***************************************************************************)
(* Which model does which step of a task plan (model_decision.py), from    *)
(* the declared inventory (model_inventory.py) and from what health checks *)
(* found out (model_health.py).  Owners declare models, several processes  *)
(* probe them, and one decides for a plan, step by step, from records that *)
(* it reads one after the other and again for every step.                  *)
(*                                                                         *)
(* Benchmarks, prices, runtime observations and budgets can refuse any     *)
(* candidate and put the others into any order; they are not modelled      *)
(* further.                                                                *)
(***************************************************************************)
EXTENDS Integers, Sequences

CONSTANTS Models,     \* number of models; they are listed in this order
          Entries,    \* what may be declared of a model: its id, and if it is enabled
          Bound,      \* the ids that the client has for each role
          DefaultId,  \* the id of the client's own model, or NoId
          NoId,
          Plans,      \* sequences of steps: a role, and the steps it depends on
          Checkers,
          Threshold,  \* failures in a row that quarantine a model
          Cooldown,   \* time for which they do
          MaxAge,     \* age of a health record that can be relied on
          MaxClock,   \* bound: the time
          MaxChanges, \* bound: declarations
          MaxResults  \* bound: results of health checks of a model

ASSUME ModelsAssumption ==
    /\ {Models, Cooldown, MaxAge} \subseteq Nat
    /\ Threshold \in Nat \ {0}
    /\ \A plan \in Plans : Len(plan) \in Nat /\ DOMAIN plan = 1 .. Len(plan)

VARIABLES
    clock,
    inventory, \* what is declared of each model; it is its own digest
    health,    \* the health record of each model
    checker,   \* what each health check does
    planner,   \* what the decision for a plan does
    results,   \* history: the results of health checks that were recorded, by model
    changes

assignmentVars == <<clock, inventory, health, checker, planner, results, changes>>

NoHealth == [revision |-> 0]

NoCheck == [at |-> "idle"]

NoModel == 0

-----------------------------------------------------------------------------
(* Health checks.                                                          *)

(* health_effective_state, of a record that was made for this entry        *)
CoolsDown(record, entry, now) ==
    /\ record # NoHealth
    /\ record.of = entry
    /\ record.status = "quarantined"
    /\ now < record.until

CheckAt(c, at) == checker' = [checker EXCEPT ![c].at = at]

(* prepare_model_health_action, the result of which is approved            *)
PlanCheck(c, m, force) ==
    /\ checker[c].at = "idle"
    /\ inventory[m].enabled
    /\ CoolsDown(health[m], inventory[m], clock) => force
    /\ checker' = [checker EXCEPT ![c] =
                     [at |-> "approved", model |-> m, force |-> force,
                      of |-> inventory[m], revision |-> health[m].revision]]
    /\ UNCHANGED <<clock, inventory, health, planner, results, changes>>

(* The approved call prepares it again, which has to come to the same: the *)
(* model is read ...                                                       *)
Reread(c) ==
    /\ checker[c].at = "approved"
    /\ inventory[checker[c].model] = checker[c].of
    /\ CheckAt(c, "admitting")
    /\ UNCHANGED <<clock, inventory, health, planner, results, changes>>

(* ... and its health.                                                     *)
Admit(c) ==
    /\ checker[c].at = "admitting"
    /\ LET record == health[checker[c].model]
       IN  /\ record.revision = checker[c].revision
           /\ CoolsDown(record, checker[c].of, clock) => checker[c].force
    /\ CheckAt(c, "admitted")
    /\ UNCHANGED <<clock, inventory, health, planner, results, changes>>

(* What is probed is the model as it is declared now, enabled or not.      *)
Probe(c) ==
    /\ checker[c].at = "admitted"
    /\ checker' = [checker EXCEPT ![c] = [at |-> "probing", model |-> @.model,
                                          of |-> inventory[@.model]]]
    /\ UNCHANGED <<clock, inventory, health, planner, results, changes>>

(* build_model_health_record: failures count on from a record that was     *)
(* made for the same entry.                                                *)
Failures(previous, entry, passed) ==
    IF passed THEN 0
    ELSE IF previous # NoHealth /\ previous.of = entry THEN previous.failures + 1
    ELSE 1

Record(previous, entry, passed) ==
    LET failures == Failures(previous, entry, passed)
        status   == IF passed THEN "health-passed"
                    ELSE IF failures >= Threshold THEN "quarantined" ELSE "health-failed"
    IN  [revision |-> previous.revision + 1, of |-> entry, at |-> clock,
         failures |-> failures, status |-> status,
         until |-> IF status = "quarantined" THEN clock + Cooldown ELSE 0]

(* The provider answers or fails; the record is made for what is there.    *)
Observe(c, passed) ==
    /\ checker[c].at = "probing"
    /\ LET record == Record(health[checker[c].model], checker[c].of, passed)
       IN checker' = [checker EXCEPT ![c] = [at |-> "putting", model |-> @.model,
                                             record |-> record]]
    /\ UNCHANGED <<clock, inventory, health, planner, results, changes>>

(* The put is refused if another record came first.                        *)
PutHealth(c) ==
    /\ checker[c].at = "putting"
    /\ LET m      == checker[c].model
           record == checker[c].record
       IN  /\ Len(results[m]) < MaxResults
           /\ health[m].revision + 1 = record.revision
           /\ health' = [health EXCEPT ![m] = record]
           /\ results' = [results EXCEPT ![m] =
                            Append(@, [of |-> record.of, at |-> record.at,
                                       passed |-> record.status = "health-passed"])]
    /\ checker' = [checker EXCEPT ![c] = NoCheck]
    /\ UNCHANGED <<clock, inventory, planner, changes>>

(* A check is refused, its probe unavailable, or its process dies.         *)
GiveCheckUp(c) ==
    /\ checker[c].at # "idle"
    /\ checker' = [checker EXCEPT ![c] = NoCheck]
    /\ UNCHANGED <<clock, inventory, health, planner, results, changes>>

-----------------------------------------------------------------------------
(* Task plans.  The steps come in the order of their levels, every worker  *)
(* is an ancestor of a verifier.                                           *)
Level(plan) ==
    LET level[k \in DOMAIN plan] ==
          IF plan[k].after = {} THEN 0
          ELSE CHOOSE l \in 1 .. k : /\ \E d \in plan[k].after : level[d] = l - 1
                                     /\ \A d \in plan[k].after : level[d] < l
    IN  level

(* What a step depends on, and what that depends on                        *)
Closed(plan, steps) == \A d \in steps : plan[d].after \subseteq steps

Ancestors(plan, k) ==
    {d \in DOMAIN plan : \A steps \in SUBSET DOMAIN plan :
                          plan[k].after \subseteq steps /\ Closed(plan, steps) => d \in steps}

Having(plan, role) == {k \in DOMAIN plan : plan[k].role = role}

PlanAccepted(plan) ==
    /\ \A k \in DOMAIN plan : plan[k].after \subseteq 1 .. k - 1
    /\ \A j, k \in DOMAIN plan : j < k => Level(plan)[j] <= Level(plan)[k]
    /\ Having(plan, "verifier") # {}
    /\ Having(plan, "worker") # {}
    /\ Having(plan, "worker") \subseteq UNION {Ancestors(plan, v) : v \in Having(plan, "verifier")}

-----------------------------------------------------------------------------
(* decide_task_plan_model_assignments_from_store; "now" is the caller's.   *)
BeginPlan(plan) ==
    /\ planner.at = "idle"
    /\ PlanAccepted(plan)
    /\ planner' = [at |-> "reading", plan |-> plan, now |-> clock, got |-> <<>>, made |-> <<>>]
    /\ UNCHANGED <<clock, inventory, health, checker, results, changes>>

AllWasRead == Len(planner.got) = 2 * Models

(* For every step the inventory is read, and then the health records.      *)
ReadNext ==
    /\ planner.at = "reading"
    /\ ~AllWasRead
    /\ LET k == Len(planner.got) + 1
       IN planner' = [planner EXCEPT !.got =
                        Append(@, IF k <= Models THEN inventory[k] ELSE health[k - Models])]
    /\ UNCHANGED <<clock, inventory, health, checker, results, changes>>

EntryRead(m) == planner.got[m]
HealthRead(m) == planner.got[Models + m]

Step == planner.plan[Len(planner.made) + 1]

MadeFor(role) == {k \in DOMAIN planner.made : planner.plan[k].role = role}

WorkerModels == {planner.made[k].model : k \in MadeFor("worker")} \ {NoModel}
WorkerIds == {planner.made[k].id : k \in MadeFor("worker")} \ {NoId}

Relevant(m) == EntryRead(m).id \in Bound[Step.role]

(* The records that the decision looks at are in order: ids are unique,    *)
(* and none is from the future.                                            *)
Consistent ==
    /\ \A m, n \in 1 .. Models : EntryRead(m).id = EntryRead(n).id => m = n
    /\ \A m \in 1 .. Models :
         Relevant(m) /\ HealthRead(m) # NoHealth /\ HealthRead(m).of = EntryRead(m)
           => HealthRead(m).at <= planner.now

Eligible(m) ==
    /\ Relevant(m)
    /\ EntryRead(m).enabled
    /\ Step.role = "verifier" => m \notin WorkerModels
    /\ HealthRead(m) # NoHealth
    /\ HealthRead(m).of = EntryRead(m)
    /\ planner.now - HealthRead(m).at <= MaxAge
    /\ HealthRead(m).status = "health-passed"

\* mutant: the ids that models go by are not compared
ReusedModel(choice) == Step.role = "verifier" /\ choice.model \in WorkerModels

(* A verifier's model was given to a worker before.                        *)
Reused(choice) ==
    /\ Step.role = "verifier"
    /\ choice.model \in WorkerModels \/ choice.id \in WorkerIds

Assign(choice) ==
    /\ ~Reused(choice)
    /\ planner' = [planner EXCEPT !.made = Append(@, choice), !.got = <<>>,
                     !.at = IF Len(planner.made) + 1 = Len(planner.plan)
                            THEN "decided" ELSE "reading"]

(* The best of the candidates, or the client's own model                   *)
DecideStep ==
    /\ planner.at = "reading"
    /\ AllWasRead
    /\ Consistent
    /\ \/ \E m \in 1 .. Models :
            Eligible(m) /\ Assign([model |-> m, id |-> EntryRead(m).id, of |-> EntryRead(m)])
       \/ Assign([model |-> NoModel, id |-> DefaultId])
    /\ UNCHANGED <<clock, inventory, health, checker, results, changes>>

(* It is answered, or nothing can be decided.                              *)
EndPlan ==
    /\ planner.at # "idle"
    /\ planner' = NoCheck
    /\ UNCHANGED <<clock, inventory, health, checker, results, changes>>

-----------------------------------------------------------------------------
(* apply_model_inventory, which puts the declared models one by one and    *)
(* may stop between them                                                   *)
Declare(m, entry) ==
    /\ changes < MaxChanges
    /\ entry # inventory[m]
    /\ changes' = changes + 1
    /\ inventory' = [inventory EXCEPT ![m] = entry]
    /\ UNCHANGED <<clock, health, checker, planner, results>>

Tick ==
    /\ clock < MaxClock
    /\ clock' = clock + 1
    /\ UNCHANGED <<inventory, health, checker, planner, results, changes>>

(* Models were declared under different ids and have just been tested.     *)
AssignmentInit ==
    /\ clock = 0
    /\ inventory \in [1 .. Models -> {e \in Entries : e.enabled}]
    /\ \A m, n \in 1 .. Models : inventory[m].id = inventory[n].id => m = n
    /\ health = [m \in 1 .. Models |-> [Record(NoHealth, inventory[m], TRUE) EXCEPT !.at = 0]]
    /\ checker = [c \in Checkers |-> NoCheck]
    /\ planner = NoCheck
    /\ results = [m \in 1 .. Models |-> <<[of |-> inventory[m], at |-> 0, passed |-> TRUE]>>]
    /\ changes = 0

AssignmentNext ==
    \/ \E c \in Checkers :
         \/ \E m \in 1 .. Models, force \in BOOLEAN : PlanCheck(c, m, force)
         \/ Reread(c) \/ Admit(c) \/ Probe(c)
         \/ \E passed \in BOOLEAN : Observe(c, passed)
         \/ PutHealth(c) \/ GiveCheckUp(c)
    \/ \E plan \in Plans : BeginPlan(plan)
    \/ ReadNext \/ DecideStep \/ EndPlan
    \/ \E m \in 1 .. Models, e \in Entries : Declare(m, e)
    \/ Tick

AssignmentSpec == AssignmentInit /\ [][AssignmentNext]_assignmentVars

-----------------------------------------------------------------------------
(* No verifier of a decided plan uses a model, by reference or by id, of a *)
(* worker that it verifies, however the inventory was changed between the  *)
(* decisions, unless the id of the client's own model is unknown.          *)
VerifiersAreIndependent ==
    planner.at = "decided" =>
      \A v \in MadeFor("verifier") : \A w \in Ancestors(planner.plan, v) \cap MadeFor("worker") :
        LET mine   == planner.made[v]
            theirs == planner.made[w]
        IN  /\ mine.model # NoModel => mine.model # theirs.model
            /\ mine.id # NoId => mine.id # theirs.id

(* A model from the inventory is assigned as it was declared when a check  *)
(* of it passed, not too long ago.                                         *)
AssignedWereTested ==
    planner.at # "idle" =>
      \A k \in DOMAIN planner.made : planner.made[k].model # NoModel =>
        LET list == results[planner.made[k].model]
        IN  \E r \in DOMAIN list :
              /\ list[r].of = planner.made[k].of
              /\ list[r].passed
              /\ list[r].at \in planner.now - MaxAge .. planner.now

(* The last n results of a model are failures of it as it was declared at  *)
(* the last.                                                               *)

FailedInARow(list, n) ==
    \A k \in Len(list) - n + 1 .. Len(list) : ~list[k].passed /\ list[k].of = list[Len(list)].of

(* The failures of a record are those in a row, and it is quarantined when *)
(* they are too many, with any number of checks at the same time.          *)
FailuresAreCounted ==
    \A m \in 1 .. Models :
      LET list == results[m]
          n    == health[m].failures
      IN  /\ n <= Len(list) /\ FailedInARow(list, n)
          /\ n < Len(list) => ~FailedInARow(list, n + 1)
          /\ health[m].status = "quarantined" <=> n >= Threshold

(* Models are assigned on evidence, and verifiers are independent.         *)
AssignmentsAreSound == VerifiersAreIndependent /\ AssignedWereTested /\ FailuresAreCounted
=============================================================================
