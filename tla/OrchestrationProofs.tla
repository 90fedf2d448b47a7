------------------------- MODULE OrchestrationProofs -------------------------
(***************************************************************************)
(* Proofs about Orchestration, for any clients, worker steps, dependencies *)
(* between them, inputs and bounds on the revisions.                       *)
(***************************************************************************)
EXTENDS Orchestration, TLAPS

(* The types of what clients carry and of the state record.                *)
StateRecord == [history: Seq(Event), completed: SUBSET Steps, failed: SUBSET Steps,
                verified: SUBSET Checkpoint]

Closing == [verified: SUBSET Checkpoint, base: 0 .. MaxItemRevision]

Job == [seen: StateRecord, history: SUBSET Checkpoint, next: StateRecord, closing: Closing]

Place == {"idle", "transition", "state", "resume-execute", "work", "resume-verify",
          "verify", "attest", "close", "item-event"}

Types ==
    /\ state \in StateRecord
    /\ attestation \in Closing
    /\ item \in [revision: 1 .. MaxItemRevision + 1, status: {"active", "completed"},
                 by: {"owner", "orchestrator"}]
    /\ item.revision = MaxItemRevision + 1 => item.status = "completed"
    /\ pc \in [Clients -> Place]
    /\ job \in [Clients -> Job]

StepsOn(history) == {d.step : d \in history}

(* A state's whole chain is on record.                                     *)
ChainOnRecord(s) == \A n \in 1 .. Len(s.history) : SubSeq(s.history, 1, n) \in events

(* A state that says completed says what was attested and closed.          *)
Settled(s) ==
    /\ s.verified = attestation.verified
    /\ Verified(attestation.verified)
    /\ ClosedItem(attestation.base) \in itemEvents

(* A transition continues the history that was read.                       *)
Continues(j) == \E e \in Event : j.next.history = Append(j.seen.history, e)

(* A state whose event is put: if the stored state has not moved on since, *)
(* it is the one the transition was checked against.                       *)
Follows(t) ==
    /\ Len(t.history) > 0
    /\ ChainOnRecord(t)
    /\ Len(state.history) >= Len(t.history) - 1
    /\ Len(state.history) = Len(t.history) - 1 => Allowed(state, t)

ClientOK(c) ==
    /\ StepsOn(job[c].history) \subseteq StepsOn(checkpoints)
    /\ pc[c] = "transition" => Continues(job[c])
    /\ pc[c] = "state" => Follows(job[c].next)
    /\ pc[c] = "attest" =>
         job[c].closing.verified = job[c].history /\ Verified(job[c].history)
    /\ pc[c] \in {"close", "item-event"} =>
         /\ job[c].closing = attestation
         /\ job[c].history = attestation.verified
         /\ Verified(job[c].history)
    /\ pc[c] \in {"transition", "state"} /\ StatusOf(job[c].next) = "completed" =>
         Settled(job[c].next)

IInv ==
    /\ TypeOK
    /\ Types
    /\ ChainOnRecord(state)
    /\ DependenciesRanBefore
    /\ StatusOf(state) = "completed" => Settled(state)
    /\ \A c \in Clients : ClientOK(c)

-----------------------------------------------------------------------------
(* Histories and what is read out of checkpoints.                          *)

(* What one more event makes of a history.                                 *)
LEMMA AppendIs ==
    ASSUME NEW h \in Seq(Event), NEW e \in Event
    PROVE  /\ Append(h, e) \in Seq(Event)
           /\ Len(Append(h, e)) = Len(h) + 1
           /\ Append(h, e) # <<>>
           /\ Last(Append(h, e)) = e
           /\ SubSeq(Append(h, e), 1, Len(h) + 1) = Append(h, e)
           /\ \A n \in 1 .. Len(h) : SubSeq(Append(h, e), 1, n) = SubSeq(h, 1, n)
  <1>1. /\ Append(h, e) \in Seq(Event)
        /\ Len(Append(h, e)) = Len(h) + 1
        /\ Append(h, e)[Len(h) + 1] = e
    OBVIOUS
  <1>2. Append(h, e) # <<>>
    BY <1>1
  <1>3. Last(Append(h, e)) = e
    BY <1>1 DEF Last
  <1>4. SubSeq(Append(h, e), 1, Len(h) + 1) = Append(h, e)
    BY <1>1
  <1>5. \A n \in 1 .. Len(h) : SubSeq(Append(h, e), 1, n) = SubSeq(h, 1, n)
    BY <1>1
  <1>6. QED
    BY <1>1, <1>2, <1>3, <1>4, <1>5

(* The last event of a state's history says what its status is.            *)
LEMMA StatusIs ==
    ASSUME NEW t, NEW h \in Seq(Event), NEW e \in Event, t.history = Append(h, e)
    PROVE  StatusOf(t) = e.to
  BY AppendIs DEF StatusOf

LEMMA AfterIs ==
    ASSUME NEW s, s \in StateRecord, NEW type, NEW to, NEW subject,
           [type |-> type, to |-> to, subject |-> subject] \in Event,
           NEW completed, completed \subseteq Steps, NEW failed, failed \subseteq Steps
    PROVE  After(s, type, to, subject, completed, failed) \in StateRecord
  <1> DEFINE e == [type |-> type, to |-> to, subject |-> subject]
             t == After(s, type, to, subject, completed, failed)
  <1>1. e \in Event /\ subject \subseteq Checkpoint
    BY DEF Event
  <1>2. s.history \in Seq(Event) /\ s.verified \in SUBSET Checkpoint
    BY DEF StateRecord
  <1>3. QED
    BY <1>1, <1>2, AppendIs DEF After, StateRecord

LEMMA CheckpointIs ==
    ASSUME NEW d \in Checkpoint
    PROVE  d.step \in Steps /\ d.status \in {"completed", "failed"}
  BY DEF Checkpoint

LEMMA StepsRead ==
    ASSUME NEW h \in SUBSET Checkpoint
    PROVE  /\ CompletedIn(h) \subseteq Steps
           /\ FailedIn(h) \subseteq Steps
           /\ CompletedIn(h) \subseteq StepsOn(h)
           /\ StepsOn(h) \subseteq Steps
  BY CheckpointIs DEF CompletedIn, FailedIn, StepsOn

LEMMA NoStateIs == NoState \in StateRecord /\ Len(NoState.history) = 0
  BY DEF NoState, StateRecord

LEMMA NoJobIs ==
    /\ NoJob \in Job
    /\ NoJob.history = {}
    /\ Unattested \in Closing
  BY NoStateIs, BoundAssumption DEF NoJob, Job, Unattested, Closing

(* Nothing is verified by default.                                         *)
LEMMA UnattestedIsUnverified == ~Verified(Unattested.verified)
  BY PlanAssumption DEF Verified, Unattested, CompletedIn

(* The first state of a task.                                              *)
LEMMA FirstStateIs ==
    LET t == [NoState EXCEPT !.history = InitialHistory] IN
    /\ t \in StateRecord
    /\ \E e \in Event : t.history = Append(NoState.history, e)
    /\ StatusOf(t) = "authorized"
  <1> DEFINE e == [type |-> "task-initialized", to |-> "authorized", subject |-> {}]
             t == [NoState EXCEPT !.history = InitialHistory]
  <1>1. e \in Event
    BY DEF Event
  <1>2. <<>> \in Seq(Event) /\ InitialHistory = Append(<<>>, e)
    BY DEF InitialHistory
  <1>3. InitialHistory \in Seq(Event) /\ InitialHistory # <<>> /\ Last(InitialHistory) = e
    BY <1>1, <1>2, AppendIs
  <1>4. t.history = InitialHistory /\ NoState.history = <<>>
    BY DEF NoState
  <1>5. t \in StateRecord
    BY <1>3 DEF NoState, StateRecord
  <1>6. QED
    BY <1>1, <1>2, <1>3, <1>4, <1>5 DEF StatusOf

LEMMA InitInvariant == Init => IInv
  <1> SUFFICES ASSUME Init
               PROVE  IInv
    OBVIOUS
  <1>1. Types
    <2>1. /\ item \in [revision: 1 .. MaxItemRevision + 1, status: {"active", "completed"},
                       by: {"owner", "orchestrator"}]
          /\ item.revision # MaxItemRevision + 1
      BY BoundAssumption DEF Init
    <2>2. pc \in [Clients -> Place]
      BY DEF Init, Place
    <2>3. QED
      BY <2>1, <2>2, NoStateIs, NoJobIs DEF Init, Types
  <1>2. TypeOK
    BY <1>1, BoundAssumption DEF Init, Types, StateRecord, Closing, TypeOK, NoState, Unattested
  <1>3. ChainOnRecord(state)
    BY NoStateIs DEF Init, ChainOnRecord
  <1>4. StatusOf(state) = "absent"
    BY DEF Init, StatusOf, NoState
  <1>5. ASSUME NEW c \in Clients
        PROVE  ClientOK(c)
    BY NoJobIs DEF Init, ClientOK, StepsOn
  <1>6. QED
    BY <1>1, <1>2, <1>3, <1>4, <1>5 DEF Init, IInv, DependenciesRanBefore

-----------------------------------------------------------------------------
(* What other clients rely on: steps keep their checkpoints, events stay,  *)
(* an attestation stays, and a state that changes moves on.                *)
RecordsGrow ==
    /\ StepsOn(checkpoints) \subseteq StepsOn(checkpoints')
    /\ events \subseteq events'
    /\ itemEvents \subseteq itemEvents'
    /\ attestation' = attestation \/ attestation = Unattested
    /\ state' = state \/ Len(state'.history) > Len(state.history)

LEMMA UnchangedRecordsGrow ==
    ASSUME UNCHANGED records
    PROVE  RecordsGrow
  BY DEF records, RecordsGrow

(* What is settled stays so.                                               *)
LEMMA SettledStays ==
    ASSUME RecordsGrow, NEW s, Settled(s)
    PROVE  Settled(s)'
  <1>1. attestation # Unattested
    BY UnattestedIsUnverified DEF Settled
  <1>2. attestation' = attestation
    BY <1>1 DEF RecordsGrow
  <1>3. QED
    BY <1>2 DEF RecordsGrow, Settled

LEMMA JobIs ==
    ASSUME Types, NEW c \in Clients
    PROVE  /\ job[c] \in Job
           /\ job[c].seen \in StateRecord
           /\ job[c].next \in StateRecord
           /\ job[c].history \in SUBSET Checkpoint
           /\ job[c].closing \in Closing
  BY DEF Types, Job

LEMMA PlaceIs ==
    ASSUME Types, NEW c \in Clients, NEW place \in Place, Goto(c, place)
    PROVE  /\ pc' \in [Clients -> Place]
           /\ pc'[c] = place
           /\ \A d \in Clients \ {c} : pc'[d] = pc[d]
  BY DEF Types, Goto

LEMMA LengthIs ==
    ASSUME NEW s \in StateRecord
    PROVE  s.history \in Seq(Event) /\ Len(s.history) \in Nat
  BY DEF StateRecord

(* A step of one client leaves the others as sound as they were.           *)
LEMMA OthersStay ==
    ASSUME IInv, Types', RecordsGrow,
           NEW d \in Clients, pc'[d] = pc[d], job'[d] = job[d]
    PROVE  ClientOK(d)'
  <1> DEFINE j == job[d]
  <1>1. ClientOK(d)
    BY DEF IInv
  <1>2. (StepsOn(job[d].history) \subseteq StepsOn(checkpoints))'
    BY <1>1 DEF ClientOK, RecordsGrow, StepsOn
  <1>3. (pc[d] = "transition" => Continues(job[d]))'
    BY <1>1 DEF ClientOK, Continues
  <1>4. (pc[d] = "state" => Follows(job[d].next))'
    <2> SUFFICES ASSUME pc[d] = "state"
                 PROVE  Follows(j.next)'
      OBVIOUS
    <2>1. Follows(j.next)
      BY <1>1 DEF ClientOK
    <2>2. ChainOnRecord(j.next)'
      BY <2>1 DEF Follows, ChainOnRecord, RecordsGrow
    <2>3. Len(state.history) \in Nat /\ Len(state'.history) \in Nat /\ Len(j.next.history) \in Nat
      BY JobIs, LengthIs DEF IInv, Types
    <2>4. CASE state' = state
      BY <2>1, <2>2, <2>4 DEF Follows, Allowed
    <2>5. CASE Len(state'.history) > Len(state.history)
      BY <2>1, <2>2, <2>3, <2>5 DEF Follows
    <2>6. QED
      BY <2>4, <2>5 DEF RecordsGrow
  <1>5. (pc[d] = "attest" =>
           job[d].closing.verified = job[d].history /\ Verified(job[d].history))'
    BY <1>1 DEF ClientOK
  <1>6. (pc[d] \in {"close", "item-event"} =>
           /\ job[d].closing = attestation
           /\ job[d].history = attestation.verified
           /\ Verified(job[d].history))'
    BY <1>1, UnattestedIsUnverified DEF ClientOK, RecordsGrow
  <1>7. (pc[d] \in {"transition", "state"} /\ StatusOf(job[d].next) = "completed" =>
           Settled(job[d].next))'
    BY <1>1, SettledStays DEF ClientOK
  <1>8. QED
    BY <1>2, <1>3, <1>4, <1>5, <1>6, <1>7 DEF ClientOK

(* A step that only changes where a client is and what it knows.           *)
LEMMA ClientMoves ==
    ASSUME IInv, UNCHANGED records,
           NEW c \in Clients, NEW place \in Place, Goto(c, place),
           NEW j \in Job, job' = [job EXCEPT ![c] = j],
           ClientOK(c)'
    PROVE  IInv'
  <1>1. /\ pc' \in [Clients -> Place]
        /\ \A d \in Clients \ {c} : pc'[d] = pc[d] /\ job'[d] = job[d]
    BY PlaceIs DEF IInv, Types
  <1>2. /\ state' = state /\ events' = events /\ checkpoints' = checkpoints
        /\ attestation' = attestation /\ item' = item /\ itemEvents' = itemEvents
    BY DEF records
  <1>3. Types'
    BY <1>1, <1>2 DEF IInv, Types
  <1>4. \A d \in Clients : ClientOK(d)'
    BY <1>1, <1>3, OthersStay, UnchangedRecordsGrow
  <1>5. TypeOK' /\ ChainOnRecord(state)' /\ DependenciesRanBefore'
    BY <1>2 DEF IInv, TypeOK, ChainOnRecord, DependenciesRanBefore
  <1>6. (StatusOf(state) = "completed" => Settled(state))'
    BY <1>2 DEF IInv, Settled
  <1>7. QED
    BY <1>3, <1>4, <1>5, <1>6 DEF IInv

(* The same for a client that comes to a place where only what it has read *)
(* of the checkpoints matters, or to none.                                 *)
LEMMA ClientReads ==
    ASSUME IInv, UNCHANGED records,
           NEW c \in Clients,
           NEW place \in {"idle", "resume-execute", "work", "resume-verify", "verify"},
           Goto(c, place),
           NEW j \in Job, job' = [job EXCEPT ![c] = j],
           StepsOn(j.history) \subseteq StepsOn(checkpoints)
    PROVE  IInv'
  <1>1. pc'[c] = place /\ place \in Place
    BY PlaceIs DEF IInv, Place
  <1>2. job'[c] = j
    BY DEF IInv, Types
  <1>3. checkpoints' = checkpoints
    BY DEF records
  <1>4. ClientOK(c)'
    BY <1>1, <1>2, <1>3 DEF ClientOK
  <1>5. QED
    BY <1>1, <1>4, ClientMoves

(* A client that is about to record a transition to another status than    *)
(* completed.                                                              *)
LEMMA ClientDecides ==
    ASSUME IInv, UNCHANGED records,
           NEW c \in Clients, Goto(c, "transition"),
           NEW j \in Job, job' = [job EXCEPT ![c] = j],
           StepsOn(j.history) \subseteq StepsOn(checkpoints),
           Continues(j), StatusOf(j.next) # "completed"
    PROVE  IInv'
  <1>1. pc'[c] = "transition"
    BY PlaceIs DEF IInv, Place
  <1>2. job'[c] = j
    BY DEF IInv, Types
  <1>3. checkpoints' = checkpoints
    BY DEF records
  <1>4. ClientOK(c)'
    BY <1>1, <1>2, <1>3 DEF ClientOK, Continues
  <1>5. QED
    BY <1>4, ClientMoves DEF Place

LEMMA StopKeepsInvariant ==
    ASSUME IInv, NEW c \in Clients, Stop(c)
    PROVE  IInv'
  BY NoJobIs, ClientReads DEF Stop, StepsOn

LEMMA StartKeepsInvariant ==
    ASSUME IInv, NEW c \in Clients, Start(c)
    PROVE  IInv'
  <1> DEFINE t == [NoState EXCEPT !.history = InitialHistory]
             j == [NoJob EXCEPT !.next = t]
  <1>1. j \in Job /\ j.next = t /\ j.seen = NoState /\ j.history = {}
    BY FirstStateIs, NoStateIs, NoJobIs DEF NoJob, Job
  <1>2. Continues(j)
    BY <1>1, FirstStateIs DEF Continues
  <1>3. StatusOf(j.next) # "completed"
    BY <1>1, FirstStateIs
  <1>4. StepsOn(j.history) \subseteq StepsOn(checkpoints)
    BY <1>1 DEF StepsOn
  <1>5. Goto(c, "transition") /\ job' = [job EXCEPT ![c] = j] /\ UNCHANGED records
    BY DEF Start
  <1>6. QED
    BY <1>1, <1>2, <1>3, <1>4, <1>5, ClientDecides

LEMMA ResumeKeepsInvariant ==
    ASSUME IInv, NEW c \in Clients, ResumeExecute(c) \/ ResumeVerify(c)
    PROVE  IInv'
  <1> DEFINE j == [NoJob EXCEPT !.seen = state]
  <1>1. j \in Job /\ j.history = {}
    BY NoStateIs, NoJobIs DEF NoJob, Job, IInv, Types
  <1>2. /\ Goto(c, "resume-execute") \/ Goto(c, "resume-verify")
        /\ job' = [job EXCEPT ![c] = j] /\ UNCHANGED records
    BY DEF ResumeExecute, ResumeVerify
  <1>3. StepsOn(j.history) \subseteq StepsOn(checkpoints)
    BY <1>1 DEF StepsOn
  <1>4. QED
    BY <1>1, <1>2, <1>3, ClientReads

LEMMA ReadHistoryKeepsInvariant ==
    ASSUME IInv, NEW c \in Clients, ReadHistory(c)
    PROVE  IInv'
  <1> DEFINE s == job[c].seen
             started == After(s, "worker-started", "running", {}, s.completed, s.failed)
             j == [job[c] EXCEPT !.history = checkpoints]
             k == [j EXCEPT !.next = started]
  <1>1. job[c] \in Job /\ s \in StateRecord /\ checkpoints \in SUBSET Checkpoint
    BY JobIs DEF IInv, TypeOK
  <1>2. j \in Job /\ j.history = checkpoints
    BY <1>1 DEF Job
  <1>3. s.completed \subseteq Steps /\ s.failed \subseteq Steps
    BY <1>1 DEF StateRecord
  <1>4. /\ started \in StateRecord
        /\ \E e \in Event : started.history = Append(s.history, e)
        /\ StatusOf(started) = "running"
    <2> DEFINE e == [type |-> "worker-started", to |-> "running", subject |-> {}]
    <2>1. e \in Event
      BY DEF Event
    <2>2. started.history = Append(s.history, e)
      BY DEF After
    <2>3. s.history \in Seq(Event)
      BY <1>1, LengthIs
    <2>4. StatusOf(started) = e.to
      BY <2>1, <2>2, <2>3, StatusIs
    <2>5. started \in StateRecord
      BY <1>1, <1>3, <2>1, AfterIs
    <2>6. QED
      BY <2>1, <2>2, <2>4, <2>5
  <1>5. /\ k \in Job /\ k.history = checkpoints
        /\ k.next = started /\ k.seen = s
    BY <1>1, <1>2, <1>4 DEF Job
  <1>6. UNCHANGED records
    BY DEF ReadHistory
  <1>7. CASE Goto(c, "work") /\ job' = [job EXCEPT ![c].history = checkpoints]
    <2>1. job' = [job EXCEPT ![c] = j]
      BY <1>7
    <2>2. QED
      BY <1>2, <1>6, <1>7, <2>1, ClientReads
  <1>8. CASE /\ Goto(c, "transition")
             /\ job' = [job EXCEPT ![c].history = checkpoints, ![c].next = started]
    <2>1. job' = [job EXCEPT ![c] = k]
      BY <1>8 DEF IInv, Types
    <2>2. Continues(k) /\ StatusOf(k.next) # "completed"
      BY <1>4, <1>5 DEF Continues
    <2>3. QED
      BY <1>5, <1>6, <1>8, <2>1, <2>2, ClientDecides
  <1>9. QED
    BY <1>7, <1>8 DEF ReadHistory

LEMMA ReadEvidenceKeepsInvariant ==
    ASSUME IInv, NEW c \in Clients, ReadEvidence(c)
    PROVE  IInv'
  <1> DEFINE j == [job[c] EXCEPT !.history = checkpoints]
  <1>1. j \in Job /\ j.history = checkpoints
    BY JobIs DEF IInv, TypeOK, Job
  <1>2. Goto(c, "verify") /\ job' = [job EXCEPT ![c] = j] /\ UNCHANGED records
    BY DEF ReadEvidence
  <1>3. QED
    BY <1>1, <1>2, ClientReads

LEMMA VerificationFailsKeepsInvariant ==
    ASSUME IInv, NEW c \in Clients, VerificationFails(c)
    PROVE  IInv'
  <1> DEFINE s == job[c].seen
             t == After(s, "verification-failed", "failed", job[c].history, s.completed, s.failed)
             j == [job[c] EXCEPT !.next = t, !.history = {}]
  <1>1. job[c] \in Job /\ s \in StateRecord /\ job[c].history \in SUBSET Checkpoint
    BY JobIs DEF IInv
  <1>2. s.completed \subseteq Steps /\ s.failed \subseteq Steps
    BY <1>1 DEF StateRecord
  <1>3. /\ t \in StateRecord
        /\ \E e \in Event : t.history = Append(s.history, e)
        /\ StatusOf(t) = "failed"
    <2> DEFINE e == [type |-> "verification-failed", to |-> "failed",
                     subject |-> job[c].history]
    <2>1. e \in Event
      BY <1>1 DEF Event
    <2>2. t.history = Append(s.history, e)
      BY DEF After
    <2>3. s.history \in Seq(Event)
      BY <1>1, LengthIs
    <2>4. StatusOf(t) = e.to
      BY <2>1, <2>2, <2>3, StatusIs
    <2>5. t \in StateRecord
      BY <1>1, <1>2, <2>1, AfterIs
    <2>6. QED
      BY <2>1, <2>2, <2>4, <2>5
  <1>4. j \in Job /\ j.history = {} /\ j.next = t /\ j.seen = s
    BY <1>1, <1>3 DEF Job
  <1>5. /\ Goto(c, "transition") /\ UNCHANGED records
        /\ job' = [job EXCEPT ![c] = j]
    BY DEF VerificationFails, IInv, Types
  <1>6. /\ Continues(j) /\ StatusOf(j.next) # "completed"
        /\ StepsOn(j.history) \subseteq StepsOn(checkpoints)
    BY <1>3, <1>4 DEF Continues, StepsOn
  <1>7. QED
    BY <1>4, <1>5, <1>6, ClientDecides

-----------------------------------------------------------------------------
(* The closing of the work item.                                           *)

LEMMA VerdictIs ==
    ASSUME NEW s, s \in StateRecord, NEW history, history \subseteq Checkpoint
    PROVE  /\ Verdict(s, history) \in StateRecord
           /\ \E e \in Event : Verdict(s, history).history = Append(s.history, e)
           /\ Verdict(s, history).verified = history
  <1> DEFINE e == [type |-> "task-verified", to |-> "completed", subject |-> history]
  <1>1. e \in Event
    BY DEF Event
  <1>2. Verdict(s, history).history = Append(s.history, e)
    BY DEF Verdict, After
  <1>3. s.completed \subseteq Steps /\ s.failed \subseteq Steps
    BY DEF StateRecord
  <1>4. Verdict(s, history) \in StateRecord
    BY <1>1, <1>3, AfterIs DEF Verdict
  <1>5. Verdict(s, history).verified = history
    BY DEF Verdict, After
  <1>6. QED
    BY <1>1, <1>2, <1>4, <1>5

(* A client that decides that the task is completed.                       *)
LEMMA VerdictIsOK ==
    ASSUME IInv, NEW c \in Clients, Goto(c, "transition"),
           job' = [job EXCEPT ![c].next = Verdict(job[c].seen, job[c].history),
                              ![c].history = {}, ![c].closing = Unattested],
           attestation' = attestation,
           job[c].history = attestation.verified,
           Verified(attestation.verified),
           ClosedItem(attestation.base) \in itemEvents'
    PROVE  /\ job' \in [Clients -> Job]
           /\ \A d \in Clients \ {c} : job'[d] = job[d]
           /\ ClientOK(c)'
  <1> DEFINE v == Verdict(job[c].seen, job[c].history)
             j == [job[c] EXCEPT !.next = v, !.history = {}, !.closing = Unattested]
  <1>1. job[c] \in Job /\ job[c].seen \in StateRecord /\ job[c].history \subseteq Checkpoint
    BY JobIs DEF IInv
  <1>2. /\ v \in StateRecord
        /\ \E e \in Event : v.history = Append(job[c].seen.history, e)
        /\ v.verified = job[c].history
    BY <1>1, VerdictIs
  <1>3. /\ j \in Job /\ j.history = {} /\ j.next = v /\ j.seen = job[c].seen
    BY <1>1, <1>2, NoJobIs DEF Job
  <1>4. job' = [job EXCEPT ![c] = j]
    BY DEF IInv, Types
  <1>5. job' \in [Clients -> Job] /\ job'[c] = j /\ \A d \in Clients \ {c} : job'[d] = job[d]
    BY <1>3, <1>4 DEF IInv, Types
  <1>6. pc'[c] = "transition"
    BY PlaceIs DEF IInv, Place
  <1>7. Settled(job[c].next)'
    BY <1>2, <1>3, <1>5 DEF Settled
  <1>8. ClientOK(c)'
    BY <1>2, <1>3, <1>5, <1>6, <1>7 DEF ClientOK, Continues, StepsOn
  <1>9. QED
    BY <1>5, <1>8

LEMMA BuildAttestationKeepsInvariant ==
    ASSUME IInv, NEW c \in Clients, BuildAttestation(c)
    PROVE  IInv'
  <1> DEFINE closing == [verified |-> job[c].history, base |-> item.revision]
             j == [job[c] EXCEPT !.closing = closing]
  <1>1. job[c] \in Job /\ job[c].history \in SUBSET Checkpoint
    BY JobIs DEF IInv
  <1>2. item.revision \in 0 .. MaxItemRevision
    BY BoundAssumption DEF IInv, Types, BuildAttestation
  <1>3. closing \in Closing
    BY <1>1, <1>2 DEF Closing
  <1>4. j \in Job /\ j.closing = closing /\ j.history = job[c].history
    BY <1>1, <1>3 DEF Job
  <1>5. /\ Goto(c, "attest") /\ job' = [job EXCEPT ![c] = j] /\ UNCHANGED records
        /\ Verified(job[c].history)
    BY DEF BuildAttestation
  <1>6. pc'[c] = "attest" /\ job'[c] = j /\ checkpoints' = checkpoints
    BY <1>5, PlaceIs DEF IInv, Types, Place, records
  <1>7. StepsOn(job[c].history) \subseteq StepsOn(checkpoints)
    BY DEF IInv, ClientOK
  <1>8. ClientOK(c)'
    <2>1. job'[c].closing.verified = job'[c].history /\ job'[c].history = job[c].history
      BY <1>4, <1>6
    <2>2. Verified(job'[c].history)
      BY <1>5, <2>1
    <2>3. StepsOn(job'[c].history) \subseteq StepsOn(checkpoints')
      BY <1>6, <1>7, <2>1
    <2>4. QED
      BY <1>6, <2>1, <2>2, <2>3 DEF ClientOK, Verified
  <1>9. QED
    BY <1>4, <1>5, <1>8, ClientMoves DEF Place

LEMMA ResumeClosingKeepsInvariant ==
    ASSUME IInv, NEW c \in Clients, ResumeClosing(c)
    PROVE  IInv'
  <1> DEFINE j == [job[c] EXCEPT !.closing = attestation]
  <1>1. job[c] \in Job /\ attestation \in Closing
    BY JobIs DEF IInv, Types
  <1>2. j \in Job /\ j.closing = attestation /\ j.history = job[c].history
    BY <1>1 DEF Job
  <1>3. /\ Goto(c, "close") /\ job' = [job EXCEPT ![c] = j] /\ UNCHANGED records
        /\ Verified(job[c].history) /\ attestation.verified = job[c].history
    BY DEF ResumeClosing, AttestedVerification, SameVerification
  <1>4. /\ pc'[c] = "close" /\ job'[c] = j
        /\ checkpoints' = checkpoints /\ attestation' = attestation
    BY <1>3, PlaceIs DEF IInv, Types, Place, records
  <1>5. StepsOn(job[c].history) \subseteq StepsOn(checkpoints)
    BY DEF IInv, ClientOK
  <1>6. ClientOK(c)'
    BY <1>2, <1>3, <1>4, <1>5 DEF ClientOK, Verified
  <1>7. QED
    BY <1>2, <1>3, <1>6, ClientMoves DEF Place

LEMMA ReconcileClosingKeepsInvariant ==
    ASSUME IInv, NEW c \in Clients, ReconcileClosing(c)
    PROVE  IInv'
  <1>1. /\ Goto(c, "transition") /\ UNCHANGED records
        /\ job[c].history = attestation.verified
        /\ Verified(attestation.verified)
        /\ ClosedItem(attestation.base) \in itemEvents
        /\ job' = [job EXCEPT ![c].next = Verdict(job[c].seen, job[c].history),
                              ![c].history = {}, ![c].closing = Unattested]
    BY DEF ReconcileClosing, AttestedVerification, SameVerification, AppliedExactly
  <1>2. attestation' = attestation /\ itemEvents' = itemEvents
    BY <1>1 DEF records
  <1>3. /\ job' \in [Clients -> Job]
        /\ \A d \in Clients \ {c} : job'[d] = job[d]
        /\ ClientOK(c)'
    BY <1>1, <1>2, VerdictIsOK
  <1>4. job' = [job EXCEPT ![c] = job'[c]] /\ job'[c] \in Job
    BY <1>3 DEF IInv, Types
  <1>5. QED
    BY <1>1, <1>3, <1>4, ClientMoves DEF Place

(* The attestation, once there, stays; then it is the one that is closed.  *)
LEMMA PersistAttestationKeepsInvariant ==
    ASSUME IInv, NEW c \in Clients, PersistAttestation(c)
    PROVE  IInv'
  <1>1. /\ pc[c] = "attest" /\ Goto(c, "close")
        /\ attestation' = job[c].closing
        /\ attestation = Unattested \/ attestation' = attestation
        /\ state' = state /\ events' = events /\ checkpoints' = checkpoints
        /\ item' = item /\ itemEvents' = itemEvents /\ job' = job
    BY DEF PersistAttestation, itemRecords
  <1>2. RecordsGrow
    BY <1>1 DEF RecordsGrow
  <1>3. /\ pc' \in [Clients -> Place] /\ pc'[c] = "close"
        /\ \A d \in Clients \ {c} : pc'[d] = pc[d]
    BY <1>1, PlaceIs DEF IInv, Place
  <1>4. job[c].closing \in Closing
    BY JobIs DEF IInv
  <1>5. Types'
    BY <1>1, <1>3, <1>4 DEF IInv, Types
  <1>6. ClientOK(c)'
    BY <1>1, <1>3 DEF IInv, ClientOK
  <1>7. \A d \in Clients : ClientOK(d)'
    BY <1>1, <1>2, <1>3, <1>5, <1>6, OthersStay
  <1>8. TypeOK'
    BY <1>1, <1>4 DEF IInv, TypeOK, Closing
  <1>9. (StatusOf(state) = "completed" => Settled(state))'
    BY <1>1, <1>2, SettledStays DEF IInv
  <1>10. QED
    BY <1>1, <1>5, <1>7, <1>8, <1>9 DEF IInv, ChainOnRecord, DependenciesRanBefore

LEMMA CloseItemKeepsInvariant ==
    ASSUME IInv, NEW c \in Clients, CloseItem(c)
    PROVE  IInv'
  <1>1. /\ pc[c] = "close" /\ Goto(c, "item-event")
        /\ item' = ClosedItem(item.revision) /\ item.status = "active"
        /\ state' = state /\ events' = events /\ checkpoints' = checkpoints
        /\ attestation' = attestation /\ itemEvents' = itemEvents /\ job' = job
    BY DEF CloseItem
  <1>2. RecordsGrow
    BY <1>1 DEF RecordsGrow
  <1>3. /\ pc' \in [Clients -> Place] /\ pc'[c] = "item-event"
        /\ \A d \in Clients \ {c} : pc'[d] = pc[d]
    BY <1>1, PlaceIs DEF IInv, Place
  <1>4. /\ item.revision \in 1 .. MaxItemRevision
        /\ item' = [revision |-> item.revision + 1, status |-> "completed", by |-> "orchestrator"]
    BY <1>1, BoundAssumption DEF IInv, Types, ClosedItem
  <1>5. Types'
    BY <1>1, <1>3, <1>4, BoundAssumption DEF IInv, Types
  <1>6. ClientOK(c)'
    BY <1>1, <1>3 DEF IInv, ClientOK
  <1>7. \A d \in Clients : ClientOK(d)'
    BY <1>1, <1>2, <1>3, <1>5, <1>6, OthersStay
  <1>8. TypeOK'
    BY <1>1, <1>4, BoundAssumption DEF IInv, TypeOK
  <1>9. (StatusOf(state) = "completed" => Settled(state))'
    BY <1>1, <1>2, SettledStays DEF IInv
  <1>10. QED
    BY <1>1, <1>5, <1>7, <1>8, <1>9 DEF IInv, ChainOnRecord, DependenciesRanBefore

LEMMA PutItemEventKeepsInvariant ==
    ASSUME IInv, NEW c \in Clients, PutItemEvent(c)
    PROVE  IInv'
  <1>1. /\ pc[c] = "item-event" /\ Goto(c, "transition")
        /\ itemEvents' = itemEvents \cup {ClosedItem(job[c].closing.base)}
        /\ job' = [job EXCEPT ![c].next = Verdict(job[c].seen, job[c].history),
                              ![c].history = {}, ![c].closing = Unattested]
        /\ state' = state /\ events' = events /\ checkpoints' = checkpoints
        /\ attestation' = attestation /\ item' = item
    BY DEF PutItemEvent
  <1>2. RecordsGrow
    BY <1>1 DEF RecordsGrow
  <1>3. /\ job[c].closing = attestation
        /\ job[c].history = attestation.verified
        /\ Verified(attestation.verified)
    BY <1>1 DEF IInv, ClientOK
  <1>4. /\ job' \in [Clients -> Job]
        /\ \A d \in Clients \ {c} : job'[d] = job[d]
        /\ ClientOK(c)'
    BY <1>1, <1>3, VerdictIsOK
  <1>5. pc' \in [Clients -> Place] /\ \A d \in Clients \ {c} : pc'[d] = pc[d]
    BY <1>1, PlaceIs DEF IInv, Place
  <1>6. Types'
    BY <1>1, <1>4, <1>5 DEF IInv, Types
  <1>7. \A d \in Clients : ClientOK(d)'
    BY <1>2, <1>4, <1>5, <1>6, OthersStay
  <1>8. TypeOK'
    BY <1>1 DEF IInv, TypeOK
  <1>9. (StatusOf(state) = "completed" => Settled(state))'
    BY <1>1, <1>2, SettledStays DEF IInv
  <1>10. QED
    BY <1>1, <1>6, <1>7, <1>8, <1>9 DEF IInv, ChainOnRecord, DependenciesRanBefore

LEMMA ChangeItemKeepsInvariant ==
    ASSUME IInv, NEW status \in {"active", "completed"}, ChangeItem(status)
    PROVE  IInv'
  <1>1. /\ item.revision < MaxItemRevision
        /\ item' = [revision |-> item.revision + 1, status |-> status, by |-> "owner"]
        /\ itemEvents' = itemEvents \cup {item'}
        /\ state' = state /\ events' = events /\ checkpoints' = checkpoints
        /\ attestation' = attestation /\ pc' = pc /\ job' = job
    BY DEF ChangeItem
  <1>2. RecordsGrow
    BY <1>1 DEF RecordsGrow
  <1>3. item.revision \in 1 .. MaxItemRevision
    BY <1>1, BoundAssumption DEF IInv, Types
  <1>4. Types'
    BY <1>1, <1>3, BoundAssumption DEF IInv, Types
  <1>5. \A d \in Clients : ClientOK(d)'
    BY <1>1, <1>2, <1>4, OthersStay
  <1>6. TypeOK'
    BY <1>1, <1>3, BoundAssumption DEF IInv, TypeOK
  <1>7. (StatusOf(state) = "completed" => Settled(state))'
    BY <1>1, <1>2, SettledStays DEF IInv
  <1>8. QED
    BY <1>1, <1>4, <1>5, <1>6, <1>7 DEF IInv, ChainOnRecord, DependenciesRanBefore

-----------------------------------------------------------------------------
(* The work of a step and the two writes of a transition.                  *)

LEMMA OutcomeIs ==
    ASSUME NEW s, s \in StateRecord, NEW history, history \subseteq Checkpoint,
           NEW done, done \in Checkpoint
    PROVE  /\ Outcome(s, history, done) \in StateRecord
           /\ \E e \in Event : Outcome(s, history, done).history = Append(s.history, e)
           /\ StatusOf(Outcome(s, history, done)) # "completed"
  <1> DEFINE known == history \cup {done}
             completed == CompletedIn(known)
             to == IF done.status = "failed" THEN "failed"
                   ELSE IF completed = Steps THEN "verifying" ELSE "running"
             type == IF to = "failed" THEN "worker-failed" ELSE "worker-completed"
             e == [type |-> type, to |-> to, subject |-> {done}]
             t == After(s, type, to, {done}, completed, FailedIn(known))
  <1>1. Outcome(s, history, done) = t
    BY DEF Outcome
  <1>2. completed \subseteq Steps /\ FailedIn(known) \subseteq Steps
    BY StepsRead
  <1>3. e \in Event /\ e.to # "completed"
    BY DEF Event
  <1>4. t.history = Append(s.history, e)
    BY DEF After
  <1>5. StatusOf(t) = e.to
    BY <1>3, <1>4, LengthIs, StatusIs
  <1>6. t \in StateRecord
    BY <1>2, <1>3, AfterIs
  <1>7. QED
    BY <1>1, <1>3, <1>4, <1>5, <1>6

LEMMA ExecutionIs ==
    ASSUME NEW step, NEW input, NEW history, history \subseteq Checkpoint,
           NEW done \in Executions(step, input, history)
    PROVE  /\ done \in Checkpoint
           /\ done.step = step
           /\ step \in StepsOn(history) \/ DependsOn[step] \subseteq StepsOn(history)
  <1>1. CASE step \in CompletedIn(history)
    BY <1>1, StepsRead DEF Executions
  <1>2. CASE step \notin CompletedIn(history)
    BY <1>2, StepsRead DEF Executions, DependenciesCompleted
  <1>3. QED
    BY <1>1, <1>2

LEMMA WorkKeepsInvariant ==
    ASSUME IInv, NEW c \in Clients, NEW step \in Steps, NEW input \in Inputs[step],
           Work(c, step, input)
    PROVE  IInv'
  <1> DEFINE history == job[c].history
             s == job[c].seen
  <1>1. /\ history \subseteq Checkpoint /\ s \in StateRecord
        /\ checkpoints \subseteq Checkpoint
        /\ \A d, e \in checkpoints : d.step = e.step => d = e
    BY JobIs DEF IInv, TypeOK
  <1>2. PICK done \in Executions(step, input, history) :
          /\ checkpoints' = Stored(done)
          /\ job' = [job EXCEPT ![c] =
                       [NoJob EXCEPT !.seen = s, !.next = Outcome(s, history, done)]]
    BY DEF Work
  <1> DEFINE t == Outcome(s, history, done)
             j == [NoJob EXCEPT !.seen = s, !.next = t]
  <1>3. /\ done \in Checkpoint
        /\ done.step = step
        /\ step \in StepsOn(history) \/ DependsOn[step] \subseteq StepsOn(history)
    BY <1>1, ExecutionIs
  <1>4. /\ t \in StateRecord
        /\ \E e \in Event : t.history = Append(s.history, e)
        /\ StatusOf(t) # "completed"
    BY <1>1, <1>3, OutcomeIs
  <1>5. j \in Job /\ j.seen = s /\ j.next = t /\ j.history = {}
    BY <1>1, <1>4, NoJobIs DEF NoJob, Job
  <1>6. /\ Goto(c, "transition")
        /\ state' = state /\ events' = events /\ attestation' = attestation
        /\ item' = item /\ itemEvents' = itemEvents
    BY DEF Work, itemRecords
  <1>7. checkpoints' = {d \in checkpoints : d.step # step} \cup {done}
    BY <1>2, <1>3 DEF Stored
  <1>8. StepsOn(checkpoints) \subseteq StepsOn(checkpoints')
    BY <1>3, <1>7 DEF StepsOn
  <1>9. RecordsGrow
    BY <1>6, <1>8 DEF RecordsGrow
  <1>10. /\ pc' \in [Clients -> Place] /\ pc'[c] = "transition"
         /\ \A d \in Clients \ {c} : pc'[d] = pc[d]
    BY <1>6, PlaceIs DEF IInv, Place
  <1>11. /\ job' \in [Clients -> Job] /\ job'[c] = j
         /\ \A d \in Clients \ {c} : job'[d] = job[d]
    BY <1>2, <1>5 DEF IInv, Types
  <1>12. Types'
    BY <1>6, <1>10, <1>11 DEF IInv, Types
  <1>13. ClientOK(c)'
    BY <1>4, <1>5, <1>10, <1>11 DEF ClientOK, Continues, StepsOn
  <1>14. \A d \in Clients : ClientOK(d)'
    BY <1>9, <1>10, <1>11, <1>12, <1>13, OthersStay
  <1>15. TypeOK'
    <2>1. checkpoints' \subseteq Checkpoint
      BY <1>1, <1>3, <1>7
    <2>2. \A d, e \in checkpoints' : d.step = e.step => d = e
      BY <1>1, <1>3, <1>7
    <2>3. QED
      BY <1>6, <2>1, <2>2 DEF IInv, TypeOK
  <1>16. DependenciesRanBefore'
    <2>1. \A d \in checkpoints : DependsOn[d.step] \subseteq StepsOn(checkpoints)
      BY DEF IInv, DependenciesRanBefore, StepsOn
    <2>2. StepsOn(history) \subseteq StepsOn(checkpoints)
      BY DEF IInv, ClientOK
    <2>3. DependsOn[step] \subseteq StepsOn(checkpoints)
      <3>1. CASE step \in StepsOn(history)
        <4>1. PICK d \in checkpoints : d.step = step
          BY <2>2, <3>1 DEF StepsOn
        <4>2. QED
          BY <2>1, <4>1
      <3>2. CASE DependsOn[step] \subseteq StepsOn(history)
        BY <2>2, <3>2
      <3>3. QED
        BY <1>3, <3>1, <3>2
    <2>4. \A d \in checkpoints' : DependsOn[d.step] \subseteq StepsOn(checkpoints')
      BY <1>3, <1>7, <1>8, <2>1, <2>3
    <2>5. QED
      BY <2>4 DEF DependenciesRanBefore, StepsOn
  <1>17. (StatusOf(state) = "completed" => Settled(state))'
    BY <1>6, <1>9, SettledStays DEF IInv
  <1>18. QED
    BY <1>6, <1>12, <1>14, <1>15, <1>16, <1>17 DEF IInv, ChainOnRecord

LEMMA PutEventKeepsInvariant ==
    ASSUME IInv, NEW c \in Clients, PutEvent(c)
    PROVE  IInv'
  <1> DEFINE t == job[c].next
             j == [job[c] EXCEPT !.seen = NoState]
  <1>1. /\ pc[c] = "transition" /\ state = job[c].seen
        /\ Allowed(state, t) /\ Len(t.history) <= MaxRevision
        /\ events' = events \cup {t.history}
        /\ job' = [job EXCEPT ![c] = j]
        /\ Goto(c, "state")
        /\ state' = state /\ checkpoints' = checkpoints /\ attestation' = attestation
        /\ item' = item /\ itemEvents' = itemEvents
    BY DEF PutEvent, itemRecords
  <1>2. job[c] \in Job /\ t \in StateRecord /\ state \in StateRecord
    BY JobIs DEF IInv, Types
  <1>3. j \in Job /\ j.next = t /\ j.history = job[c].history
    BY <1>2, NoStateIs DEF Job
  <1>4. RecordsGrow
    BY <1>1 DEF RecordsGrow
  <1>5. /\ pc' \in [Clients -> Place] /\ pc'[c] = "state"
        /\ \A d \in Clients \ {c} : pc'[d] = pc[d]
    BY <1>1, PlaceIs DEF IInv, Place
  <1>6. /\ job' \in [Clients -> Job] /\ job'[c] = j
        /\ \A d \in Clients \ {c} : job'[d] = job[d]
    BY <1>1, <1>3 DEF IInv, Types
  <1>7. Types'
    BY <1>1, <1>5, <1>6 DEF IInv, Types
  <1>8. PICK e \in Event : t.history = Append(state.history, e)
    BY <1>1 DEF IInv, ClientOK, Continues
  <1>9. /\ Len(t.history) = Len(state.history) + 1
        /\ Len(state.history) \in Nat
        /\ SubSeq(t.history, 1, Len(state.history) + 1) = t.history
        /\ \A n \in 1 .. Len(state.history) :
              SubSeq(t.history, 1, n) = SubSeq(state.history, 1, n)
    BY <1>2, <1>8, LengthIs, AppendIs
  <1>10. Follows(t)'
    <2>1. ASSUME NEW n \in 1 .. Len(t.history)
          PROVE  SubSeq(t.history, 1, n) \in events'
      <3>1. CASE n \in 1 .. Len(state.history)
        BY <1>1, <1>9, <3>1 DEF IInv, ChainOnRecord
      <3>2. CASE n = Len(state.history) + 1
        BY <1>1, <1>9, <3>2
      <3>3. QED
        BY <1>9, <3>1, <3>2
    <2>2. ChainOnRecord(t)'
      BY <1>6, <1>3, <2>1 DEF ChainOnRecord
    <2>3. QED
      BY <1>1, <1>3, <1>6, <1>9, <2>2 DEF Follows, Allowed
  <1>11. ClientOK(c)'
    <2>1. ClientOK(c)
      BY DEF IInv
    <2>2. StatusOf(t) = "completed" => Settled(t)'
      BY <1>1, <1>4, <2>1, SettledStays DEF ClientOK
    <2>3. QED
      BY <1>1, <1>3, <1>5, <1>6, <1>10, <2>1, <2>2 DEF ClientOK, Settled, Follows, Allowed, ChainOnRecord
  <1>12. \A d \in Clients : ClientOK(d)'
    BY <1>4, <1>5, <1>6, <1>7, <1>11, OthersStay
  <1>13. TypeOK'
    <2>1. t.history \in Seq(Event) /\ Len(t.history) \in 1 .. MaxRevision
      BY <1>1, <1>2, <1>9, LengthIs, BoundAssumption
    <2>2. QED
      BY <1>1, <2>1 DEF IInv, TypeOK
  <1>14. (StatusOf(state) = "completed" => Settled(state))'
    BY <1>1, <1>4, SettledStays DEF IInv
  <1>15. ChainOnRecord(state)'
    BY <1>1 DEF IInv, ChainOnRecord
  <1>16. QED
    BY <1>1, <1>7, <1>12, <1>13, <1>14, <1>15 DEF IInv, DependenciesRanBefore

LEMMA PutStateIsAllowed ==
    ASSUME IInv, NEW c \in Clients, PutState(c)
    PROVE  /\ state' = job[c].next
           /\ Len(state'.history) = Len(state.history) + 1
           /\ Allowed(state, state')
           /\ ChainOnRecord(state')
  <1>1. /\ pc[c] = "state" /\ state' = job[c].next
        /\ Len(job[c].next.history) = Len(state.history) + 1
    BY DEF PutState, NextRevision
  <1>2. Follows(job[c].next)
    BY <1>1 DEF IInv, ClientOK
  <1>3. Len(state.history) \in Nat
    BY LengthIs DEF IInv, Types
  <1>4. QED
    BY <1>1, <1>2, <1>3 DEF Follows

LEMMA PutStateKeepsInvariant ==
    ASSUME IInv, NEW c \in Clients, PutState(c)
    PROVE  IInv'
  <1> DEFINE t == job[c].next
             j == [job[c] EXCEPT !.seen = t, !.next = NoState]
  <1>1. /\ state' = t /\ pc[c] = "state"
        /\ events' = events /\ checkpoints' = checkpoints /\ attestation' = attestation
        /\ item' = item /\ itemEvents' = itemEvents
    BY DEF PutState, itemRecords
  <1>2. /\ Len(t.history) = Len(state.history) + 1
        /\ Allowed(state, t)
        /\ ChainOnRecord(t)
    BY <1>1, PutStateIsAllowed
  <1>3. /\ job[c] \in Job /\ t \in StateRecord
        /\ Len(state.history) \in Nat
    BY JobIs, LengthIs DEF IInv, Types
  <1>4. RecordsGrow
    BY <1>1, <1>2, <1>3 DEF RecordsGrow
  <1>5. j \in Job /\ j.history = job[c].history
    BY <1>3, NoStateIs DEF Job
  <1>6. StepsOn(job[c].history) \subseteq StepsOn(checkpoints)
    BY DEF IInv, ClientOK
  <1>7. \/ /\ job' = [job EXCEPT ![c].seen = t, ![c].next = NoState]
           /\ Goto(c, "work")
        \/ /\ job' = [job EXCEPT ![c] = NoJob]
           /\ Goto(c, "idle")
    BY DEF PutState
  <1>8. \/ job' = [job EXCEPT ![c] = j] /\ Goto(c, "work")
        \/ job' = [job EXCEPT ![c] = NoJob] /\ Goto(c, "idle")
    BY <1>7 DEF IInv, Types
  <1>9. /\ pc' \in [Clients -> Place] /\ pc'[c] \in {"work", "idle"}
        /\ \A d \in Clients \ {c} : pc'[d] = pc[d]
    BY <1>8, PlaceIs DEF IInv, Place
  <1>10. /\ job' \in [Clients -> Job] /\ job'[c] \in {j, NoJob}
         /\ \A d \in Clients \ {c} : job'[d] = job[d]
    BY <1>5, <1>8, NoJobIs DEF IInv, Types
  <1>11. Types'
    BY <1>1, <1>3, <1>9, <1>10 DEF IInv, Types
  <1>12. ClientOK(c)'
    <2>1. StepsOn(job'[c].history) \subseteq StepsOn(checkpoints')
      BY <1>1, <1>5, <1>6, <1>10, NoJobIs DEF StepsOn
    <2>2. QED
      BY <1>9, <2>1 DEF ClientOK
  <1>13. \A d \in Clients : ClientOK(d)'
    BY <1>4, <1>9, <1>10, <1>11, <1>12, OthersStay
  <1>14. TypeOK'
    <2>1. t.failed \subseteq Steps \ t.completed
      BY <1>2, <1>3 DEF Allowed, StateRecord
    <2>2. QED
      BY <1>1, <1>3, <2>1 DEF IInv, TypeOK, StateRecord
  <1>15. (StatusOf(state) = "completed" => Settled(state))'
    BY <1>1 DEF IInv, ClientOK, Settled
  <1>16. ChainOnRecord(state)'
    BY <1>1, <1>2 DEF ChainOnRecord
  <1>17. QED
    BY <1>1, <1>11, <1>13, <1>14, <1>15, <1>16 DEF IInv, DependenciesRanBefore

-----------------------------------------------------------------------------
(* Together.                                                               *)

LEMMA StutteringKeepsInvariant ==
    ASSUME IInv, UNCHANGED vars
    PROVE  IInv'
  <1>1. /\ state' = state /\ events' = events /\ checkpoints' = checkpoints
        /\ attestation' = attestation /\ item' = item /\ itemEvents' = itemEvents
        /\ pc' = pc /\ job' = job
    BY DEF vars, records
  <1>2. RecordsGrow
    BY <1>1 DEF RecordsGrow
  <1>3. Types'
    BY <1>1 DEF IInv, Types
  <1>4. \A c \in Clients : ClientOK(c)'
    BY <1>1, <1>2, <1>3, OthersStay
  <1>5. TypeOK' /\ ChainOnRecord(state)' /\ DependenciesRanBefore'
    BY <1>1 DEF IInv, TypeOK, ChainOnRecord, DependenciesRanBefore
  <1>6. (StatusOf(state) = "completed" => Settled(state))'
    BY <1>1 DEF IInv, Settled
  <1>7. QED
    BY <1>3, <1>4, <1>5, <1>6 DEF IInv

LEMMA NextInvariant == IInv /\ [Next]_vars => IInv'
  <1> SUFFICES ASSUME IInv, [Next]_vars
               PROVE  IInv'
    OBVIOUS
  <1>1. ASSUME NEW c \in Clients, Start(c) \/ Stop(c)
        PROVE  IInv'
    BY <1>1, StartKeepsInvariant, StopKeepsInvariant
  <1>2. ASSUME NEW c \in Clients, ResumeExecute(c) \/ ResumeVerify(c)
        PROVE  IInv'
    BY <1>2, ResumeKeepsInvariant
  <1>3. ASSUME NEW c \in Clients, ReadHistory(c) \/ ReadEvidence(c)
        PROVE  IInv'
    BY <1>3, ReadHistoryKeepsInvariant, ReadEvidenceKeepsInvariant
  <1>4. ASSUME NEW c \in Clients, NEW step \in Steps, NEW input \in Inputs[step],
               Work(c, step, input)
        PROVE  IInv'
    BY <1>4, WorkKeepsInvariant
  <1>5. ASSUME NEW c \in Clients, VerificationFails(c)
        PROVE  IInv'
    BY <1>5, VerificationFailsKeepsInvariant
  <1>6. ASSUME NEW c \in Clients, BuildAttestation(c) \/ PersistAttestation(c)
        PROVE  IInv'
    BY <1>6, BuildAttestationKeepsInvariant, PersistAttestationKeepsInvariant
  <1>7. ASSUME NEW c \in Clients, ResumeClosing(c) \/ ReconcileClosing(c)
        PROVE  IInv'
    BY <1>7, ResumeClosingKeepsInvariant, ReconcileClosingKeepsInvariant
  <1>8. ASSUME NEW c \in Clients, CloseItem(c) \/ PutItemEvent(c)
        PROVE  IInv'
    BY <1>8, CloseItemKeepsInvariant, PutItemEventKeepsInvariant
  <1>9. ASSUME NEW c \in Clients, PutEvent(c) \/ PutState(c)
        PROVE  IInv'
    BY <1>9, PutEventKeepsInvariant, PutStateKeepsInvariant
  <1>10. ASSUME NEW status \in {"active", "completed"}, ChangeItem(status)
         PROVE  IInv'
    BY <1>10, ChangeItemKeepsInvariant
  <1>11. CASE UNCHANGED vars
    BY <1>11, StutteringKeepsInvariant
  <1>12. QED
    BY <1>1, <1>2, <1>3, <1>4, <1>5, <1>6, <1>7, <1>8, <1>9, <1>10, <1>11 DEF Next

(* The strengthened invariant: the records together with what each client  *)
(* has read and decided, as far as the records still are as it read them.  *)
THEOREM InductiveInvariant == Spec => []IInv
  BY InitInvariant, NextInvariant, PTL DEF Spec

(* Every record is well formed whichever writes clients were stopped at.   *)
THEOREM RecordsAreWellFormed == Spec => []TypeOK
  <1>1. IInv => TypeOK
    BY DEF IInv
  <1>2. QED
    BY <1>1, InductiveInvariant, PTL

(* The whole event chain of the stored state is on record.                 *)
THEOREM ChainIsNeverBroken == Spec => []HistoryIsOnRecord
  <1>1. IInv => HistoryIsOnRecord
    BY DEF IInv, ChainOnRecord, HistoryIsOnRecord
  <1>2. QED
    BY <1>1, InductiveInvariant, PTL

(* A completed task was verified on attested checkpoints and its work item *)
(* was closed for that attestation.                                        *)
THEOREM CompletedTasksAreAttested == Spec => []CompletionIsAttested
  <1>1. IInv => CompletionIsAttested
    BY DEF IInv, Settled, CompletionIsAttested
  <1>2. QED
    BY <1>1, InductiveInvariant, PTL

(* No step runs before the steps it depends on.                            *)
THEOREM DependenciesComeFirst == Spec => []DependenciesRanBefore
  <1>1. IInv => DependenciesRanBefore
    BY DEF IInv
  <1>2. QED
    BY <1>1, InductiveInvariant, PTL

(* The stored state never takes back a completed step, and a completed     *)
(* task is not changed again: a transition that was checked against an     *)
(* older state cannot be written over a newer one.                         *)
THEOREM NoStepBack == Spec => CompletedStepsAreKept
  <1> DEFINE Kept == /\ state.completed \subseteq state'.completed
                     /\ StatusOf(state) = "completed" => state' = state
  <1>1. IInv /\ [Next]_vars => [Kept]_vars
    <2> SUFFICES ASSUME IInv, Next
                 PROVE  Kept
      OBVIOUS
    <2>1. ASSUME NEW c \in Clients, PutState(c)
          PROVE  Kept
      <3>1. Allowed(state, state')
        BY <2>1, PutStateIsAllowed
      <3>2. state.completed \subseteq state'.completed
        BY <3>1 DEF Allowed, KeepsCompleted
      <3>3. StatusOf(state) # "completed"
        BY <3>1 DEF Allowed, Transitions
      <3>4. QED
        BY <3>2, <3>3
    <2>2. ASSUME NEW c \in Clients, NEW step \in Steps, NEW input \in Inputs[step],
                 Work(c, step, input)
          PROVE  Kept
      BY <2>2 DEF Work
    <2>3. ASSUME NEW c \in Clients,
                 \/ Start(c) \/ Stop(c) \/ ResumeExecute(c) \/ ResumeVerify(c)
                 \/ ReadHistory(c) \/ ReadEvidence(c) \/ VerificationFails(c)
                 \/ BuildAttestation(c) \/ ResumeClosing(c) \/ ReconcileClosing(c)
          PROVE  Kept
      <3>1. UNCHANGED records
        BY <2>3 DEF Start, Stop, ResumeExecute, ResumeVerify, ReadHistory, ReadEvidence,
           VerificationFails, BuildAttestation, ResumeClosing, ReconcileClosing
      <3>2. QED
        BY <3>1 DEF records
    <2>4. ASSUME NEW c \in Clients,
                 PutEvent(c) \/ PersistAttestation(c) \/ CloseItem(c) \/ PutItemEvent(c)
          PROVE  Kept
      BY <2>4 DEF PutEvent, PersistAttestation, CloseItem, PutItemEvent
    <2>5. ASSUME NEW status \in {"active", "completed"}, ChangeItem(status)
          PROVE  Kept
      BY <2>5 DEF ChangeItem
    <2>6. QED
      BY <2>1, <2>2, <2>3, <2>4, <2>5 DEF Next
  <1>2. QED
    BY <1>1, InductiveInvariant, PTL DEF Spec, CompletedStepsAreKept
=============================================================================
