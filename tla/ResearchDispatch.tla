-------------------------- MODULE ResearchDispatch --------------------------
(***************************************************************************)
(* The native execution of a research (research.dispatch and               *)
(* dispatch_research_runtime): its five roles are queue items that a call  *)
(* runs in a fixed order of batches, with the threads of the DAG executor. *)
(* Unlike that one it never takes over what is in the queue: a call begins *)
(* only from a queue without items of the research, and knows only the     *)
(* results that its own threads returned.  Calls come to several           *)
(* processes; a process refuses a second call for a research that it runs, *)
(* and can cancel the one it runs.                                         *)
(*                                                                         *)
(* Executors are the calls and Steps the roles.  A call is planned against *)
(* the digest of the queue, and "fresh" has the calls whose digest is      *)
(* still that of the queue.                                                *)
(***************************************************************************)
EXTENDS DagExecutor

CONSTANTS Batches,     \* the roles in the order of _batches
          ProcessOf    \* the process that a call comes to

VARIABLES fresh,       \* calls planned against the queue as it is
          running,     \* _research_cancellations: the call of each process
          cancelled,   \* calls whose cancellation event is set
          by           \* history: the call that completed each role

researchVars == <<dagVars, fresh, running, cancelled, by>>

NoCall == 0

(* Any change of the queue makes every plan stale.                         *)
QueueMoves == fresh' = IF vars' = vars THEN fresh ELSE {}

Kept == UNCHANGED <<running, cancelled, by>>

Existing == {s \in Steps : item[s].status # "absent"}

-----------------------------------------------------------------------------
(* The call, in the application service.                                   *)

(* _research_runtime_plan: read and shown to the user.                     *)
PlanCall(x) ==
    /\ run[x].at = "idle"
    /\ dispatches < MaxDispatches
    /\ dispatches' = dispatches + 1
    /\ Goto(x, "planned")
    /\ fresh' = fresh \cup {x}
    /\ Kept
    /\ UNCHANGED <<vars, begun>>

(* The plan is made again: it has to be the approved one, with five        *)
(* independent workers; then the call is registered for cancellation.      *)
Register(x) ==
    /\ run[x].at = "planned"
    /\ x \in fresh
    /\ running[ProcessOf[x]] = NoCall
    /\ running' = [running EXCEPT ![ProcessOf[x]] = x]
    /\ Goto(x, "registered")
    /\ UNCHANGED <<vars, dispatches, begun, fresh, cancelled, by>>

Refuse(x) ==
    /\ run[x].at = "planned"
    /\ Goto(x, "raised")
    /\ Kept
    /\ UNCHANGED <<vars, dispatches, begun, fresh>>

(* dispatch_research_runtime, before the first batch: nothing of the       *)
(* research may be there, and the queue is the one of the plan.            *)
Admit(x) ==
    /\ run[x].at = "registered"
    /\ run' = [run EXCEPT ![x] =
                 IF CompletedSteps = Steps THEN [at |-> "finished"]
                 ELSE IF Existing # {} \/ x \notin fresh THEN [at |-> "raised"]
                 ELSE [at |-> "look", known |-> {}, enqueue |-> {}, thread |-> <<>>]]
    /\ Kept
    /\ UNCHANGED <<vars, dispatches, begun, fresh>>

(* The call is over, whichever way, and is forgotten.                      *)
Unregister(x) ==
    /\ run[x].at \in {"finished", "raised"}
    /\ running[ProcessOf[x]] = x
    /\ running' = [running EXCEPT ![ProcessOf[x]] = NoCall]
    /\ UNCHANGED <<dagVars, fresh, cancelled, by>>

(* research.cancel, at the process that runs the call                      *)
CancelCall(x) ==
    /\ running[ProcessOf[x]] = x
    /\ x \notin cancelled
    /\ cancelled' = cancelled \cup {x}
    /\ UNCHANGED <<dagVars, fresh, running, by>>

-----------------------------------------------------------------------------
(* The batches.                                                            *)

\* mutant: the batches are run from the last
LastBatch(x) ==
    CHOOSE n \in DOMAIN Batches :
        /\ ~(Batches[n] \subseteq run[x].known)
        /\ \A m \in DOMAIN Batches : m > n => Batches[m] \subseteq run[x].known

NextBatch(x) ==
    CHOOSE n \in DOMAIN Batches :
        /\ ~(Batches[n] \subseteq run[x].known)
        /\ \A m \in 1 .. n - 1 : Batches[m] \subseteq run[x].known

(* All roles of a batch are enqueued before its threads start.             *)
BeginBatch(x) ==
    /\ run[x].at = "look"
    /\ run[x].known # Steps
    /\ x \notin cancelled
    /\ LET batch == Batches[NextBatch(x)]
       IN run' = [run EXCEPT ![x].at = "enqueue", ![x].enqueue = batch,
                             ![x].thread = [s \in batch |-> Thread]]
    /\ UNCHANGED <<vars, dispatches, begun>>

(* The queue returns the row of an item that it has.                       *)
EnqueueRole(x, s) ==
    /\ run[x].at = "enqueue"
    /\ s \in run[x].enqueue
    /\ \/ Enqueue(s, FALSE)
       \/ item[s].status # "absent" /\ UNCHANGED vars
    /\ run' = [run EXCEPT ![x].enqueue = @ \ {s}]
    /\ UNCHANGED <<dispatches, begun>>

(* A role that fails is never retried (replay_safe is False).              *)
FailRole(x, s) ==
    /\ At(x, s, "fail")
    /\ Fail(EvidenceOf(s, run[x].thread[s]), FALSE)
    /\ Proceed(x, s, "failed")
    /\ UNCHANGED <<dispatches, begun>>

CallStep(x) ==
    \/ Finish(x) \/ BeginBatch(x) \/ Raise(x)
    \/ \E s \in Steps : EnqueueRole(x, s)
    \/ StartThreads(x) \/ Gather(x)

(* execute and maintain_lease.  The client of a cancelled call is stopped  *)
(* and its result refused.                                                 *)
RoleStep(x, s) ==
    \/ x \notin cancelled /\ (ClaimStep(x, s) \/ HandlerReturns(x, s))
    \/ GiveUp(x, s) \/ FirstBeat(x, s) \/ HandlerFails(x, s)
    \/ CompleteStep(x, s) \/ CompletionRefused(x, s)
    \/ FailRole(x, s) \/ FailureRefused(x, s)
    \/ Beat(x, s) \/ BeatFails(x, s)

Work(x) ==
    /\ CallStep(x) \/ \E s \in Steps : RoleStep(x, s)
    /\ QueueMoves
    /\ by' = [s \in Steps |->
                IF item'[s].status = "completed" /\ item[s].status # "completed"
                THEN x ELSE by[s]]
    /\ UNCHANGED <<running, cancelled>>

(* A process dies with the calls it runs and what it remembers of them.    *)
DieProcess(p) ==
    /\ running[p] # NoCall
    /\ run' = [run EXCEPT ![running[p]] = [at |-> "raised"]]
    /\ running' = [running EXCEPT ![p] = NoCall]
    /\ UNCHANGED <<vars, dispatches, begun, fresh, cancelled, by>>

Elsewhere ==
    /\ Others
    /\ QueueMoves
    /\ Kept

ResearchInit ==
    /\ DagInit
    /\ fresh = {}
    /\ running = [p \in {ProcessOf[x] : x \in Executors} |-> NoCall]
    /\ cancelled = {}
    /\ by = [s \in Steps |-> NoCall]

ResearchNext ==
    \/ \E x \in Executors :
         \/ PlanCall(x) \/ Register(x) \/ Refuse(x) \/ Admit(x) \/ Unregister(x)
         \/ CancelCall(x) \/ Work(x)
    \/ \E p \in DOMAIN running : DieProcess(p)
    \/ Elsewhere

ResearchSpec == ResearchInit /\ [][ResearchNext]_researchVars

-----------------------------------------------------------------------------
(* Properties.                                                             *)

(* All results of a research are of one call, though two processes may run *)
(* it at once, leases expire and roles go back to the queue: a role is     *)
(* completed by the call that completed all it depends on, so that every   *)
(* prompt held the dependencies' own results and a verifier judged what    *)
(* was done for it.                                                        *)
ResearchIsOneCall ==
    \A s \in Steps : by[s] # NoCall =>
        \A d \in StepDependsOn[s] : by[d] = by[s]
=============================================================================
