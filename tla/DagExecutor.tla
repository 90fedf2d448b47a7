----------------------------- MODULE DagExecutor -----------------------------
(***************************************************************************)
(* The generic DAG executor (dispatch_generic_dag_execution): a client of  *)
(* the runtime queue that runs the steps of a task plan in batches, one    *)
(* thread for each step of a batch and a heartbeat thread beside each.     *)
(* Several processes may dispatch the same plan, and others use the queue. *)
(*                                                                         *)
(* Every call of the queue carries the digest of the queue it was made     *)
(* for, and an executor makes one call at a time.  A call that is applied  *)
(* therefore met the queue it read, and is one step; a call between whose  *)
(* two halves somebody else came is refused and raises.  Since others use  *)
(* the queue, any call may be refused.                                     *)
(*                                                                         *)
(* The owner token of a step is part of the plan, so that all processes    *)
(* that dispatch it present the same one: Workers are the steps' tokens,   *)
(* and a step's token is the step itself.  Items that are no steps of the  *)
(* plan belong to others.                                                  *)
(***************************************************************************)
EXTENDS RuntimeQueue, FiniteSetsExt

CONSTANTS Executors,
          Steps,           \* the items that are the steps of the plan
          StepDependsOn,   \* the steps that a step needs completed
          MaxConcurrency,
          Seconds,         \* default_lease_seconds
          MaxDispatches    \* bound: dispatches of all processes together

ASSUME DagAssumption ==
    /\ Steps \subseteq Items \cap Workers
    /\ StepDependsOn \in [Steps -> SUBSET Steps]
    /\ MaxConcurrency \in Nat \ {0}
    /\ Seconds \in LeaseSeconds
    /\ MaxDispatches \in Nat

VARIABLES run,         \* what each process is doing
          dispatches,  \* how often they dispatched
          begun        \* history: how often the handler of each step began

dagVars == <<vars, run, dispatches, begun>>

Idle == [at |-> "idle"]

(* A thread holds the fence of its lease and whether its heartbeat is well. *)
Thread == [at |-> "claim", fence |-> 0, beats |-> TRUE]

Over == {"done", "failed"}

EvidenceOf(s, thread) == [item |-> s, owner |-> s, fence |-> thread.fence]

CompletedSteps == {s \in Steps : item[s].status = "completed"}

-----------------------------------------------------------------------------
(* Choosing a batch.                                                       *)

Overlaps(s, t) == \E p \in Uses[s], q \in Uses[t] : <<p, q>> \in Conflict

(* Steps whose dependencies are known to be completed and that nobody has. *)
ReadySteps(known) ==
    {s \in Steps \ known : /\ StepDependsOn[s] \subseteq known
                           /\ item[s].status \in {"absent", "queued"}}

(* _select_parallel_batch: in order, what overlaps nothing chosen so far,  *)
(* up to the limit.                                                        *)
Chosen[ready \in SUBSET Steps] ==
    IF ready = {} THEN {}
    ELSE LET last == Max(ready)
             chosen == Chosen[ready \ {last}]
         IN IF Cardinality(chosen) = MaxConcurrency \/ \E s \in chosen : Overlaps(s, last)
            THEN chosen ELSE chosen \cup {last}

(* Steps that somebody has, or that cannot go on.                          *)
NeedsRecovery == \E s \in Steps : item[s].status \in {"leased", "blocked", "recovery-required"}

-----------------------------------------------------------------------------
(* The dispatching loop.                                                   *)

Goto(x, at) == run' = [run EXCEPT ![x].at = at]

Dispatch(x) ==
    /\ run[x].at \in {"idle", "finished", "raised"}
    /\ dispatches < MaxDispatches
    /\ run' = [run EXCEPT ![x] =
                 [at |-> "look", known |-> CompletedSteps, enqueue |-> {}, thread |-> <<>>]]
    /\ dispatches' = dispatches + 1
    /\ UNCHANGED <<vars, begun>>

(* The loop ends as soon as every step is known to be completed.           *)
Finish(x) ==
    /\ run[x].at = "look"
    /\ run[x].known = Steps
    /\ Goto(x, "finished")
    /\ UNCHANGED <<vars, dispatches, begun>>

(* The status of the queue is read once for the whole batch.               *)
LookAtQueue(x) ==
    LET known == run[x].known \cup CompletedSteps
        batch == Chosen[ReadySteps(known)]
    IN /\ run[x].at = "look"
       /\ run[x].known # Steps
       /\ ~NeedsRecovery
       /\ batch # {}
       /\ run' = [run EXCEPT ![x] =
                    [at |-> "enqueue", known |-> known,
                     enqueue |-> {s \in batch : item[s].status = "absent"},
                     thread |-> [s \in batch |-> Thread]]]
       /\ UNCHANGED <<vars, dispatches, begun>>

(* Steps that need a recovery, nothing to schedule, or a cancellation.     *)
Raise(x) ==
    /\ \/ run[x].at = "look" /\ run[x].known # Steps
       \/ run[x].at = "enqueue" /\ run[x].enqueue # {}
    /\ Goto(x, "raised")
    /\ UNCHANGED <<vars, dispatches, begun>>

(* A step that somebody enqueued meanwhile is left as it is.               *)
EnqueueStep(x, s) ==
    /\ run[x].at = "enqueue"
    /\ s \in run[x].enqueue
    /\ \/ Enqueue(s, FALSE)
       \/ item[s].status # "absent" /\ UNCHANGED vars
    /\ run' = [run EXCEPT ![x].enqueue = @ \ {s}]
    /\ UNCHANGED <<dispatches, begun>>

StartThreads(x) ==
    /\ run[x].at = "enqueue"
    /\ run[x].enqueue = {}
    /\ Goto(x, "threads")
    /\ UNCHANGED <<vars, dispatches, begun>>

(* All threads of the batch have ended; one failure ends the dispatch.     *)
Gather(x) ==
    LET thread == run[x].thread
        done == {s \in DOMAIN thread : thread[s].at = "done"}
    IN /\ run[x].at = "threads"
       /\ \A s \in DOMAIN thread : thread[s].at \in Over
       /\ run' = [run EXCEPT ![x].at = IF done = DOMAIN thread THEN "look" ELSE "raised",
                             ![x].known = @ \cup done,
                             ![x].thread = <<>>]
       /\ UNCHANGED <<vars, dispatches, begun>>

-----------------------------------------------------------------------------
(* A thread.                                                               *)

At(x, s, at) ==
    /\ run[x].at = "threads"
    /\ s \in DOMAIN run[x].thread
    /\ run[x].thread[s].at = at

Proceed(x, s, at) == run' = [run EXCEPT ![x].thread[s].at = at]

\* mutant: whatever was claimed, the step is run
ClaimUnchecked(x, s) ==
    /\ At(x, s, "claim")
    /\ \/ \E i \in Items : Claim(s, i, Seconds)
       \/ UNCHANGED vars
    /\ run' = [run EXCEPT ![x].thread[s] =
                 [at |-> "first beat", fence |-> item'[s].fence, beats |-> TRUE]]
    /\ UNCHANGED <<dispatches, begun>>

(* The queue gives the first item that the token may have, which need not  *)
(* be the step; then the thread raises and keeps no record of the lease.   *)
ClaimStep(x, s) ==
    /\ At(x, s, "claim")
    /\ \E i \in Items :
         /\ Claim(s, i, Seconds)
         /\ run' = [run EXCEPT ![x].thread[s] =
                      [at |-> IF i = s THEN "first beat" ELSE "failed",
                       fence |-> IF i = s THEN item'[s].fence ELSE 0,
                       beats |-> TRUE]]
    /\ UNCHANGED <<dispatches, begun>>

(* Cancelled, nothing to claim, or a refused call before the handler: the  *)
(* thread raises outside of its exception handler.                         *)
GiveUp(x, s) ==
    /\ At(x, s, "claim") \/ At(x, s, "first beat")
    /\ Proceed(x, s, "failed")
    /\ UNCHANGED <<vars, dispatches, begun>>

FirstBeat(x, s) ==
    /\ At(x, s, "first beat")
    /\ Heartbeat(EvidenceOf(s, run[x].thread[s]), Seconds)
    /\ Proceed(x, s, "handler")
    /\ begun' = [begun EXCEPT ![s] = @ + 1]
    /\ UNCHANGED dispatches

(* The heartbeat thread, until the handler has returned.                   *)
Beat(x, s) ==
    /\ At(x, s, "handler")
    /\ run[x].thread[s].beats
    /\ Heartbeat(EvidenceOf(s, run[x].thread[s]), Seconds)
    /\ UNCHANGED <<run, dispatches, begun>>

BeatFails(x, s) ==
    /\ At(x, s, "handler")
    /\ run[x].thread[s].beats
    /\ run' = [run EXCEPT ![x].thread[s].beats = FALSE]
    /\ UNCHANGED <<vars, dispatches, begun>>

HandlerReturns(x, s) ==
    /\ At(x, s, "handler")
    /\ run[x].thread[s].beats
    /\ Proceed(x, s, "complete")
    /\ UNCHANGED <<vars, dispatches, begun>>

(* The handler or its heartbeat failed, or the dispatch was cancelled.     *)
HandlerFails(x, s) ==
    /\ At(x, s, "handler")
    /\ Proceed(x, s, "fail")
    /\ UNCHANGED <<vars, dispatches, begun>>

CompleteStep(x, s) ==
    /\ At(x, s, "complete")
    /\ Complete(EvidenceOf(s, run[x].thread[s]))
    /\ Proceed(x, s, "done")
    /\ UNCHANGED <<dispatches, begun>>

(* A completion that is refused goes the way of a failure.                 *)
CompletionRefused(x, s) ==
    /\ At(x, s, "complete")
    /\ Proceed(x, s, "fail")
    /\ UNCHANGED <<vars, dispatches, begun>>

FailStep(x, s) ==
    /\ At(x, s, "fail")
    /\ Fail(EvidenceOf(s, run[x].thread[s]), s \in ReadOnly)
    /\ Proceed(x, s, "failed")
    /\ UNCHANGED <<dispatches, begun>>

\* mutant: a failure is reported until it is recorded
FailAgain(x, s) == At(x, s, "fail") /\ UNCHANGED dagVars

(* A failure that cannot be recorded leaves the lease to expire.           *)
FailureRefused(x, s) ==
    /\ At(x, s, "fail")
    /\ Proceed(x, s, "failed")
    /\ UNCHANGED <<vars, dispatches, begun>>

-----------------------------------------------------------------------------
(* The process dies, with its threads; and the others at the queue.        *)

Die(x) ==
    /\ run[x].at \notin {"idle", "finished", "raised"}
    /\ run' = [run EXCEPT ![x] = Idle]
    /\ UNCHANGED <<vars, dispatches, begun>>

Others ==
    /\ \/ Recover
       \/ Tick
       \/ \E i \in Items \ Steps : Enqueue(i, FALSE)
    /\ UNCHANGED <<run, dispatches, begun>>

DagInit ==
    /\ Init
    /\ schema = 2
    /\ run = [x \in Executors |-> Idle]
    /\ dispatches = 0
    /\ begun = [s \in Steps |-> 0]

Loop(x) ==
    \/ Finish(x) \/ LookAtQueue(x) \/ Raise(x)
    \/ \E s \in Steps : EnqueueStep(x, s)
    \/ StartThreads(x) \/ Gather(x)

ThreadStep(x, s) ==
    \/ ClaimStep(x, s) \/ GiveUp(x, s) \/ FirstBeat(x, s)
    \/ HandlerReturns(x, s) \/ HandlerFails(x, s)
    \/ CompleteStep(x, s) \/ CompletionRefused(x, s)
    \/ FailStep(x, s) \/ FailureRefused(x, s)

DagNext ==
    \/ \E x \in Executors :
         \/ Dispatch(x) \/ Loop(x) \/ Die(x)
         \/ \E s \in Steps : ThreadStep(x, s) \/ Beat(x, s) \/ BeatFails(x, s)
    \/ Others

DagSpec == DagInit /\ [][DagNext]_dagVars

(* Every dispatching process and thread goes on until it has ended, which  *)
(* takes handlers that return.  The clock runs and somebody recovers.      *)
DagFairness ==
    /\ \A x \in Executors :
         /\ WF_dagVars(Loop(x))
         /\ \A s \in Steps : WF_dagVars(ThreadStep(x, s))
    /\ WF_dagVars(Tick /\ UNCHANGED <<run, dispatches, begun>>)
    /\ WF_dagVars(Recover /\ UNCHANGED <<run, dispatches, begun>>)

FairDagSpec == DagSpec /\ DagFairness

-----------------------------------------------------------------------------
(* Properties.                                                             *)

(* The handler of a step that may do more than read begins once, over all  *)
(* processes, dispatches, lost leases and recoveries ("Execute, write, and *)
(* network failures require explicit recovery"), and any other one no more *)
(* often than its limit.                                                   *)
HandlersBeginOnce ==
    \A s \in Steps : begun[s] <= IF s \in ReadOnly THEN MaxAttempts[s] ELSE 1

(* Two handlers that both still have their lease never work on overlapping *)
(* resources, in one process or in two.                                    *)
HandlersKeepApart ==
    \A x, y \in Executors : \A s, t \in Steps :
      /\ <<x, s>> # <<y, t>>
      /\ At(x, s, "handler") /\ At(y, t, "handler")
      /\ Held(EvidenceOf(s, run[x].thread[s])) # {}
      /\ Held(EvidenceOf(t, run[y].thread[t])) # {}
      => s # t /\ ~Overlaps(s, t)

(* Effects begin once, and handlers with live leases keep apart.           *)
HandlersAreExclusive == HandlersBeginOnce /\ HandlersKeepApart

(* A dispatch ends, whatever is refused: no thread waits for a heartbeat   *)
(* or a lease for ever.                                                    *)
Dispatching(x) == run[x].at \notin {"idle", "finished", "raised"}

DispatchEnds == \A x \in Executors : Dispatching(x) ~> ~Dispatching(x)

(* Only its own step is ever leased to a step's token                      *)
(* (docs/specifications/GENERIC-DAG-EXECUTOR.md:43, "so a worker cannot    *)
(* accidentally lease a different plan or step").                          *)
OnlyOwnStepLeased == \A l \in leases : l.item = l.owner
=============================================================================
