--------------------------- MODULE Orchestration ---------------------------
(***************************************************************************)
(* One orchestrated task: its state, its events, one checkpoint for each   *)
(* worker step, and the closing of the work item it is bound to            *)
(* (orchestration_service.py, orchestration_state.py, work_completion.py). *)
(*                                                                         *)
(* Every operation is a sequence of separate durable writes under no       *)
(* common lock, so clients may be between any two of them and may stop     *)
(* there.  A single put is atomic and takes the record from the revision   *)
(* it was at to the next (LocalWorkspaceStore.apply_put).                  *)
(*                                                                         *)
(* An event's digest covers the digest of the event before it, so an event *)
(* is identified by the whole history it ends, and a state's head digest   *)
(* by the history itself.  A digest of checkpoints is the set of them.     *)
(* A worker handler either completes, with a result that its input         *)
(* determines, or fails.  Left out are the plan record, written once       *)
(* before the first event and compared ever after, and the handoff, a      *)
(* summary that is ignored unless it is for the stored state.              *)
(***************************************************************************)
EXTENDS Integers, FiniteSets, SequencesExt

CONSTANTS Clients,         \* processes that carry the task on
          Steps,           \* the worker steps of its plan
          DependsOn,       \* the worker steps that a step depends on
          Inputs,          \* the inputs that a step may be requested with
          MaxRevision,     \* bound: revisions of the orchestration state
          MaxItemRevision  \* bound: revisions of the work item

ASSUME PlanAssumption ==
    /\ IsFiniteSet(Steps) /\ Steps # {}
    /\ DependsOn \in [Steps -> SUBSET Steps]
    /\ DOMAIN Inputs = Steps

ASSUME BoundAssumption == MaxRevision \in Nat /\ MaxItemRevision \in Nat \ {0}

VARIABLES
    state,        \* the orchestration-states record
    events,       \* the orchestration-events records
    checkpoints,  \* the orchestration-checkpoints records, one for each step
    attestation,  \* the work-completion-attestations record
    item,         \* the bound work item
    itemEvents,   \* the work-events records of the item
    pc,           \* where each client is
    job           \* what each client has read and decided

records == <<state, events, checkpoints, attestation, item, itemEvents>>

itemRecords == <<item, itemEvents>>

vars == <<records, pc, job>>

(* TRANSITIONS, as far as a task started with an authorization can come:   *)
(* no operation makes a task blocked or interrupted                        *)
Transitions(status) ==
    CASE status = "absent"     -> {"authorized"}
      [] status = "authorized" -> {"running", "blocked"}
      [] status = "running"    -> {"running", "verifying", "failed", "interrupted", "blocked"}
      [] status = "verifying"  -> {"completed", "failed", "interrupted", "blocked"}
      [] status = "failed"     -> {"running", "blocked"}
      [] OTHER                 -> {}

Checkpoint ==
    UNION {[step: {step}, input: Inputs[step], status: {"completed", "failed"}] :
             step \in Steps}

Event == [type: {"task-initialized", "worker-started", "worker-completed",
                 "worker-failed", "task-verified", "verification-failed"},
          to: {"authorized", "running", "verifying", "completed", "failed"},
          subject: SUBSET Checkpoint]

NoState == [history |-> <<>>, completed |-> {}, failed |-> {}, verified |-> {}]

InitialHistory ==
    <<[type |-> "task-initialized", to |-> "authorized", subject |-> {}]>>

StatusOf(s) == IF s.history = <<>> THEN "absent" ELSE Last(s.history).to

CompletedIn(history) == {c.step : c \in {d \in history : d.status = "completed"}}

FailedIn(history) == {c.step : c \in history} \ CompletedIn(history)

Unattested == [verified |-> {}, base |-> 0]

NoJob == [seen |-> NoState, history |-> {}, next |-> NoState, closing |-> Unattested]

Init ==
    /\ state = NoState
    /\ events = {}
    /\ checkpoints = {}
    /\ attestation = Unattested
    /\ item = [revision |-> 1, status |-> "active", by |-> "owner"]
    /\ itemEvents = {[revision |-> 1, status |-> "active", by |-> "owner"]}
    /\ pc = [c \in Clients |-> "idle"]
    /\ job = [c \in Clients |-> NoJob]

Goto(c, place) == pc' = [pc EXCEPT ![c] = place]

-----------------------------------------------------------------------------
(* A state transition: the event is put and then the state.               *)

(* transition_state, _event and _state_payload: what comes after s         *)
After(s, type, to, subject, completed, failed) ==
    [history   |-> Append(s.history, [type |-> type, to |-> to, subject |-> subject]),
     completed |-> completed,
     failed    |-> failed,
     verified  |-> IF to = "completed" THEN subject ELSE s.verified]

DropsCompleted(s, t) == TRUE

KeepsCompleted(s, t) == s.completed \subseteq t.completed

Allowed(s, t) ==
    /\ StatusOf(t) \in Transitions(StatusOf(s))
    /\ KeepsCompleted(s, t)
    /\ t.completed \cap t.failed = {}
    /\ StatusOf(t) \in {"verifying", "completed"} => t.completed = Steps

StateFirst(c) ==
    /\ pc[c] = "transition"
    /\ state = job[c].seen
    /\ Allowed(job[c].seen, job[c].next)
    /\ Len(job[c].next.history) <= MaxRevision
    /\ state' = job[c].next
    /\ Goto(c, "state")
    /\ UNCHANGED <<events, checkpoints, attestation, itemRecords, job>>

(* The stored state is compared and then the event is put.  That is one    *)
(* step here: an event put after the state moved on has a sequence that no *)
(* later event has, and its state is refused.                              *)
PutEvent(c) ==
    LET s == job[c].seen
        t == job[c].next
    IN  /\ pc[c] = "transition"
        /\ state = s
        /\ Allowed(s, t)
        /\ t.history \notin events
        /\ Len(t.history) <= MaxRevision
        /\ events' = events \cup {t.history}
        /\ job' = [job EXCEPT ![c].seen = NoState]
        /\ Goto(c, "state")
        /\ UNCHANGED <<state, checkpoints, attestation, itemRecords>>

NextRevision(t) == Len(t.history) = Len(state.history) + 1

PutState(c) ==
    LET t == job[c].next
    IN  /\ pc[c] = "state"
        /\ NextRevision(t)
        /\ state' = t
        /\ IF Last(t.history).type = "worker-started"
           THEN /\ job' = [job EXCEPT ![c].seen = t, ![c].next = NoState]
                /\ Goto(c, "work")
           ELSE /\ job' = [job EXCEPT ![c] = NoJob]
                /\ Goto(c, "idle")
        /\ UNCHANGED <<events, checkpoints, attestation, itemRecords>>

(* A raised error and a crash look alike: what is written stays written.   *)
Stop(c) ==
    /\ pc[c] # "idle"
    /\ job' = [job EXCEPT ![c] = NoJob]
    /\ Goto(c, "idle")
    /\ UNCHANGED records

-----------------------------------------------------------------------------
(* orchestrator.start                                                      *)
Start(c) ==
    /\ pc[c] = "idle"
    /\ state = NoState
    /\ job' = [job EXCEPT ![c] =
                 [NoJob EXCEPT !.next = [NoState EXCEPT !.history = InitialHistory]]]
    /\ Goto(c, "transition")
    /\ UNCHANGED records

-----------------------------------------------------------------------------
(* orchestrator.execute                                                    *)
ResumeExecute(c) ==
    /\ pc[c] = "idle"
    /\ StatusOf(state) \in {"authorized", "running", "failed"}
    /\ job' = [job EXCEPT ![c] = [NoJob EXCEPT !.seen = state]]
    /\ Goto(c, "resume-execute")
    /\ UNCHANGED records

(* resume reads the checkpoints after the state; a task that is not        *)
(* running is first made to run                                            *)
ReadHistory(c) ==
    LET s == job[c].seen
        started == After(s, "worker-started", "running", {}, s.completed, s.failed)
        read == [job EXCEPT ![c].history = checkpoints]
    IN  /\ pc[c] = "resume-execute"
        /\ \/ /\ StatusOf(s) = "running"
              /\ job' = read
              /\ Goto(c, "work")
           \/ /\ StatusOf(s) # "running"
              /\ job' = [read EXCEPT ![c].next = started]
              /\ Goto(c, "transition")
        /\ UNCHANGED records

DependenciesCompleted(step, history) ==
    DependsOn[step] \subseteq CompletedIn(history)

(* execute_worker_step: a completed step is replayed, another one is run   *)
Executions(step, input, history) ==
    IF step \in CompletedIn(history)
    THEN {d \in history : d.step = step /\ d.input = input}
    ELSE IF DependenciesCompleted(step, history)
         THEN {d \in Checkpoint : d.step = step /\ d.input = input}
         ELSE {}

(* save_execution: a step's checkpoint is replaced by the next one         *)
Stored(done) == {d \in checkpoints : d.step # done.step} \cup {done}

(* what an execution that is now on record makes of the task               *)
Outcome(s, history, done) ==
    LET known     == history \cup {done}
        completed == CompletedIn(known)
        to        == IF done.status = "failed" THEN "failed"
                     ELSE IF completed = Steps THEN "verifying" ELSE "running"
    IN  After(s, IF to = "failed" THEN "worker-failed" ELSE "worker-completed",
              to, {done}, completed, FailedIn(known))

(* The requested step and input matter from here on only.  The handler     *)
(* runs on what its client has read before; nothing is known of it until   *)
(* its checkpoint replaces the step's last one.                            *)
Work(c, step, input) ==
    LET j == job[c]
    IN  /\ pc[c] = "work"
        /\ \E done \in Executions(step, input, j.history) :
             /\ checkpoints' = Stored(done)
             /\ job' = [job EXCEPT ![c] =
                          [NoJob EXCEPT !.seen = j.seen,
                                        !.next = Outcome(j.seen, j.history, done)]]
        /\ Goto(c, "transition")
        /\ UNCHANGED <<state, events, attestation, itemRecords>>

-----------------------------------------------------------------------------
(* orchestrator.verify, and the closing of the work item                   *)
ResumeVerify(c) ==
    /\ pc[c] = "idle"
    /\ StatusOf(state) = "verifying"
    /\ job' = [job EXCEPT ![c] = [NoJob EXCEPT !.seen = state]]
    /\ Goto(c, "resume-verify")
    /\ UNCHANGED records

ReadEvidence(c) ==
    /\ pc[c] = "resume-verify"
    /\ job' = [job EXCEPT ![c].history = checkpoints]
    /\ Goto(c, "verify")
    /\ UNCHANGED records

(* verify_task finds a checkpoint missing, or a verifier does not pass     *)
VerificationFails(c) ==
    LET s == job[c].seen
    IN  /\ pc[c] = "verify"
        /\ job' = [job EXCEPT ![c].next =
                     After(s, "verification-failed", "failed", job[c].history,
                           s.completed, s.failed),
                             ![c].history = {}]
        /\ Goto(c, "transition")
        /\ UNCHANGED records

Verified(history) == CompletedIn(history) = Steps

Verdict(s, history) ==
    After(s, "task-verified", "completed", history, s.completed, s.failed)

(* no attestation yet: build one for the active item and prepare to apply  *)
BuildAttestation(c) ==
    /\ pc[c] = "verify"
    /\ Verified(job[c].history)
    /\ attestation = Unattested
    /\ item.status = "active"
    /\ job' = [job EXCEPT ![c].closing =
                 [verified |-> job[c].history, base |-> item.revision]]
    /\ Goto(c, "attest")
    /\ UNCHANGED records

PersistAttestation(c) ==
    /\ pc[c] = "attest"
    /\ attestation \in {Unattested, job[c].closing}
    /\ attestation' = job[c].closing
    /\ Goto(c, "close")
    /\ UNCHANGED <<state, events, checkpoints, itemRecords, job>>

AnyVerification(history) == TRUE

SameVerification(history) == attestation.verified = history

AttestedVerification(c) ==
    /\ pc[c] = "verify"
    /\ Verified(job[c].history)
    /\ attestation # Unattested
    /\ SameVerification(job[c].history)

(* prepare_verified_work_completion: the attested item is still as it was  *)
ResumeClosing(c) ==
    /\ AttestedVerification(c)
    /\ item.status = "active"
    /\ item.revision = attestation.base
    /\ job' = [job EXCEPT ![c].closing = attestation]
    /\ Goto(c, "close")
    /\ UNCHANGED records

ClosedItem(base) ==
    [revision |-> base + 1, status |-> "completed", by |-> "orchestrator"]

AppliedExactly ==
    item = ClosedItem(attestation.base) /\ item \in itemEvents

(* validate_applied_work_completion, then the rebuilding of the indexes    *)
ReconcileClosing(c) ==
    /\ AttestedVerification(c)
    /\ AppliedExactly
    /\ job' = [job EXCEPT ![c].next = Verdict(job[c].seen, job[c].history),
                             ![c].history = {}, ![c].closing = Unattested]
    /\ Goto(c, "transition")
    /\ UNCHANGED records

(* apply_verified_work_completion: the record, then its event              *)
CloseItem(c) ==
    /\ pc[c] = "close"
    /\ item.status = "active"
    /\ item.revision = job[c].closing.base
    /\ item' = ClosedItem(item.revision)
    /\ Goto(c, "item-event")
    /\ UNCHANGED <<state, events, checkpoints, attestation, itemEvents, job>>

PutItemEvent(c) ==
    LET closed == ClosedItem(job[c].closing.base)
    IN  /\ pc[c] = "item-event"
        /\ \A e \in itemEvents : e.revision # closed.revision
        /\ itemEvents' = itemEvents \cup {closed}
        /\ job' = [job EXCEPT ![c].next = Verdict(job[c].seen, job[c].history),
                             ![c].history = {}, ![c].closing = Unattested]
        /\ Goto(c, "transition")
        /\ UNCHANGED <<state, events, checkpoints, attestation, item>>

(* The work item is also changed through the Work Graph, which may         *)
(* complete and reopen it as well.                                         *)
ChangeItem(status) ==
    /\ item.revision < MaxItemRevision
    /\ item' = [revision |-> item.revision + 1, status |-> status, by |-> "owner"]
    /\ itemEvents' = itemEvents \cup {item'}
    /\ UNCHANGED <<state, events, checkpoints, attestation, pc, job>>

-----------------------------------------------------------------------------
Next ==
    \/ \E c \in Clients :
          \/ Start(c)
          \/ ResumeExecute(c)
          \/ ReadHistory(c)
          \/ \E step \in Steps : \E input \in Inputs[step] : Work(c, step, input)
          \/ ResumeVerify(c)
          \/ ReadEvidence(c)
          \/ VerificationFails(c)
          \/ BuildAttestation(c)
          \/ PersistAttestation(c)
          \/ ResumeClosing(c)
          \/ ReconcileClosing(c)
          \/ CloseItem(c)
          \/ PutItemEvent(c)
          \/ PutEvent(c)
          \/ PutState(c)
          \/ Stop(c)
    \/ \E status \in {"active", "completed"} : ChangeItem(status)

Spec == Init /\ [][Next]_vars

-----------------------------------------------------------------------------
(* Every record is well formed, a step has at most one checkpoint, and     *)
(* only the orchestrator's own closing may be without its work event yet.  *)
TypeOK ==
    /\ state.history \in Seq(Event)
    /\ state.completed \subseteq Steps
    /\ state.failed \subseteq Steps \ state.completed
    /\ state.verified \subseteq Checkpoint
    /\ \A h \in events : h \in Seq(Event) /\ Len(h) \in 1 .. MaxRevision
    /\ checkpoints \subseteq Checkpoint
    /\ \A d, e \in checkpoints : d.step = e.step => d = e
    /\ attestation.verified \subseteq Checkpoint
    /\ attestation.base \in 0 .. MaxItemRevision
    /\ item.revision \in 1 .. MaxItemRevision + 1
    /\ item \in itemEvents \/ item.by = "orchestrator"

(* The event chain of the stored state can always be read back in full,    *)
(* whatever other clients write meanwhile and wherever they stop: resume   *)
(* refuses a task whose chain is broken (OrchestrationStateStore.          *)
(* _event_chain), so one missing event would end it.                       *)
HistoryIsOnRecord ==
    \A n \in 1 .. Len(state.history) : SubSeq(state.history, 1, n) \in events

(* A step that the state records as completed stays so, and a verified     *)
(* task stays as it is (transition_state): a client that read checkpoints  *)
(* that another one has since replaced may not take a step back.           *)
CompletedStepsAreKept ==
    [][/\ state.completed \subseteq state'.completed
       /\ StatusOf(state) = "completed" => state' = state]_vars

(* A task is completed only on the verification its work item was closed   *)
(* on: the attestation is for those checkpoints, one completed for each    *)
(* step, and the work item's attested revision was closed for it           *)
(* (work_completion.py), though the item's owner, a second verifier or a   *)
(* worker that was late may have written in between.                       *)
CompletionIsAttested ==
    StatusOf(state) = "completed" =>
        /\ state.verified = attestation.verified
        /\ Verified(attestation.verified)
        /\ ClosedItem(attestation.base) \in itemEvents

(* A step has no checkpoint before the steps it depends on have theirs     *)
(* (_validate_dependencies), whatever history the client that ran it read. *)
DependenciesRanBefore ==
    \A d \in checkpoints : DependsOn[d.step] \subseteq {e.step : e \in checkpoints}

(* What the task's progress demands of the records (project_progress), and *)
(* docs/specifications/WORK-CONTINUITY.md of a completed step: its         *)
(* checkpoint is stored as completed.                                      *)
CompletedStepsHaveCheckpoints == state.completed \subseteq CompletedIn(checkpoints)

Idle == \A c \in Clients : pc[c] = "idle"

Startable(s) == StatusOf(s) \in {"authorized", "failed"}

(* With no client at work, the steps that resume names as next can be      *)
(* carried out: the event that their start is recorded with is not taken.  *)
NextStepsCanStart ==
    Idle /\ Startable(state) =>
        After(state, "worker-started", "running", {}, {}, {}).history \notin events
=============================================================================
