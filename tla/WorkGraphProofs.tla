--------------------------- MODULE WorkGraphProofs ---------------------------
(***************************************************************************)
(* Proofs about WorkGraph, for any work items, clients, statuses, bound on *)
(* the revisions and valid initial graph; about the two derived indexes,   *)
(* for any files, directories, items and processes; about the gate of      *)
(* durable memory with its reports, for any memories and documents; about  *)
(* the import of a batch, for any batch and importers; about the           *)
(* integration of a project, for any callers, directories and versions;    *)
(* and about checks and assignments of models, for any models and plans.   *)
(***************************************************************************)
EXTENDS WorkGraph, SourceCodeIndex, WorkSemanticIndex, MemoryHygiene, WorkImport,
        ProjectIntegration, ModelAssignment, SequenceTheorems, WellFoundedInduction, TLAPS

(* What a client that is not idle holds.                                   *)
FullPlan ==
    [work: Works, new: WorkItem \ {Absent}, event: Event,
     graph: [Works -> WorkItem], seenIndex: [Works -> WorkItem]]

EventMatches(p) ==
    /\ p.event.work = p.work
    /\ p.event.revision = p.new.revision
    /\ p.event.to = p.new.status

PlansAreFull ==
    \A c \in Clients : pc[c] # "idle" => plan[c] \in FullPlan /\ EventMatches(plan[c])

(* A plan whose record was not written yet: the record has not gone back   *)
(* since, and as long as it is at the planned revision it is the one that  *)
(* the plan was checked against.  The targets of the plan are still there. *)
StillLegal(p) ==
    /\ record[p.work].revision >= p.new.revision - 1
    /\ record[p.work].revision = p.new.revision - 1 =>
         /\ p.new.status \in Transitions(record[p.work].status)
         /\ p.event.from = record[p.work].status
    /\ \A t \in p.new.needs : t = p.work \/ record[t] # Absent

PlansAreLegal ==
    \A c \in Clients : pc[c] \in {"planned", "checked"} => StillLegal(plan[c])

(* What an event says was once true of the records.                        *)
Witnessed(e) ==
    /\ \E g \in past : g[e.work].revision = e.revision /\ g[e.work].status = e.to
    /\ \E g \in past : g[e.work].revision = e.revision - 1 /\ g[e.work].status = e.from

WrittenIsWitnessed ==
    \A c \in Clients : pc[c] = "recorded" => Witnessed(plan[c].event)

ComparedIsPast ==
    \A c \in Clients : pc[c] \in {"matched", "projected", "rendered"} => plan[c].graph \in past

IInv ==
    /\ TypeOK
    /\ PlansAreFull
    /\ PlansAreLegal
    /\ WrittenIsWitnessed
    /\ ComparedIsPast
    /\ record \in past
    /\ EventsAreTrue
    /\ ViewsWereTrue

-----------------------------------------------------------------------------
(* The lifecycle only leads to the statuses there are, and an item has     *)
(* revision 0 exactly when it has no record.                               *)
LEMMA AbsentIsRevisionZero ==
    ASSUME NEW i \in WorkItem
    PROVE  /\ i.revision \in Nat
           /\ i = Absent <=> i.revision = 0
           /\ i.status \in Statuses \cup {"absent"}
           /\ i.needs \subseteq Works
  BY RevisionAssumption DEF WorkItem, Absent

LEMMA PlanTypes ==
    /\ FullPlan \subseteq Plan
    /\ NoPlan \in Plan
  BY DEF FullPlan, Plan

LEMMA FullPlanIs ==
    ASSUME NEW p \in FullPlan
    PROVE  /\ p.work \in Works
           /\ p.new \in WorkItem
           /\ p.new # Absent
           /\ p.new.revision \in Nat
           /\ p.new.revision > 0
           /\ p.new.needs \subseteq Works
           /\ p.event \in Event
           /\ p.graph \in [Works -> WorkItem]
           /\ p.seenIndex \in [Works -> WorkItem]
  <1>1. p.new \in WorkItem /\ p.new # Absent
    BY DEF FullPlan
  <1>2. QED
    BY <1>1, AbsentIsRevisionZero DEF FullPlan

(* The initial graph is a graph of records, and what the history of the    *)
(* records starts with makes its events true.                              *)
LEMMA InitInvariant == Init => IInv
  <1> SUFFICES ASSUME Init
               PROVE  IInv
    OBVIOUS
  <1>1. \A w \in Works : record[w] \in WorkItem /\ record[w].revision \in {0, 1}
    BY GraphAssumption, RevisionAssumption DEF Init, WorkItem, Absent
  <1>2. record \in [Works -> WorkItem]
    BY <1>1, GraphAssumption DEF Init
  <1>3. \A w \in Works : \A target \in record[w].needs : record[target] # Absent
    BY InitialGraphAssumption DEF Init, TargetsExist, Absent
  <1>4. \A w \in Works : record[w] # Absent =>
           /\ EventOf(w, Absent, record[w]) \in Event
           /\ Witnessed(EventOf(w, Absent, record[w]))
    <2> SUFFICES ASSUME NEW w \in Works, record[w] # Absent
                 PROVE  /\ EventOf(w, Absent, record[w]) \in Event
                        /\ Witnessed(EventOf(w, Absent, record[w]))
      OBVIOUS
    <2>1. record[w] \in [revision: {1}, status: Statuses, needs: SUBSET Works]
      BY GraphAssumption DEF Init
    <2>2. EventOf(w, Absent, record[w]) =
            [work |-> w, revision |-> 1, from |-> "absent", to |-> record[w].status]
      BY <2>1 DEF EventOf, Absent
    <2>3. [v \in Works |-> Absent] \in past /\ record \in past
      BY DEF Init
    <2>4. [v \in Works |-> Absent][w].revision = 0 /\ [v \in Works |-> Absent][w].status = "absent"
      BY DEF Absent
    <2>5. record[w].revision = 1
      BY <2>1
    <2>6. Witnessed(EventOf(w, Absent, record[w]))
      BY <2>2, <2>3, <2>4, <2>5 DEF Witnessed
    <2>7. EventOf(w, Absent, record[w]) \in Event
      BY <2>1, <2>2, RevisionAssumption DEF Event
    <2>8. QED
      BY <2>6, <2>7
  <1>5. TypeOK
    BY <1>2, <1>3, <1>4, PlanTypes DEF Init, TypeOK
  <1>6. EventsAreTrue
    BY <1>4 DEF Init, EventsAreTrue, Witnessed
  <1>7. QED
    BY <1>5, <1>6 DEF Init, IInv, PlansAreFull, PlansAreLegal, WrittenIsWitnessed,
       ComparedIsPast, ViewsWereTrue

-----------------------------------------------------------------------------
(* Steps that change no record: the invariant is that of the clients'      *)
(* places and plans, and of what is written to events and views.           *)
LEMMA StepOfOneClient ==
    ASSUME IInv, NEW c \in Clients, NEW place, Goto(c, place)
    PROVE  /\ pc'[c] = place
           /\ \A d \in Clients : d # c => pc'[d] = pc[d]
  BY DEF IInv, TypeOK, Goto

LEMMA PrepareKeepsInvariant ==
    ASSUME IInv, NEW c \in Clients, NEW w \in Works, NEW status \in Statuses,
           NEW needs \in SUBSET Works, Prepare(c, w, status, needs)
    PROVE  IInv'
  <1> DEFINE new == [revision |-> record[w].revision + 1, status |-> status, needs |-> needs]
             changed == [record EXCEPT ![w] = new]
             event == EventOf(w, record[w], new)
             p == [work |-> w, new |-> new, event |-> event, graph |-> changed, seenIndex |-> index]
  <1>1. /\ record \in [Works -> WorkItem] /\ index \in [Works -> WorkItem]
        /\ record[w] \in WorkItem /\ record[w].revision \in Nat
        /\ record[w].status \in Statuses \cup {"absent"}
    BY AbsentIsRevisionZero DEF IInv, TypeOK
  <1>2. record[w].revision < MaxRevision /\ status \in Transitions(record[w].status)
    BY DEF Prepare
  <1>3. new \in WorkItem /\ new # Absent
    BY <1>1, <1>2, RevisionAssumption DEF WorkItem, Absent
  <1>4. event = [work |-> w, revision |-> record[w].revision + 1,
                 from |-> record[w].status, to |-> status]
    BY DEF EventOf
  <1>5. event \in Event
    BY <1>1, <1>2, <1>4, RevisionAssumption DEF Event
  <1>6. changed \in [Works -> WorkItem]
    BY <1>1, <1>3
  <1>7. p \in FullPlan /\ EventMatches(p)
    BY <1>1, <1>3, <1>4, <1>5, <1>6 DEF FullPlan, EventMatches
  <1>8. \A t \in needs : t = w \/ record[t] # Absent
    <2> SUFFICES ASSUME NEW t \in needs, t # w
                 PROVE  record[t] # Absent
      OBVIOUS
    <2>1. changed[w].needs = needs
      BY <1>1
    <2>2. changed[t].revision > 0
      BY <2>1 DEF Prepare, TargetsExist
    <2>3. changed[t] = record[t]
      BY <1>1
    <2>4. QED
      BY <2>2, <2>3 DEF Absent
  <1>9. StillLegal(p)
    BY <1>1, <1>2, <1>4, <1>8 DEF StillLegal
  <1>10. /\ plan' = [plan EXCEPT ![c] = p]
         /\ UNCHANGED <<record, events, projection, index, past>>
    BY DEF Prepare, derived
  <1>11. pc'[c] = "planned" /\ \A d \in Clients : d # c => pc'[d] = pc[d]
    BY StepOfOneClient DEF Prepare
  <1>12. plan'[c] = p /\ \A d \in Clients : d # c => plan'[d] = plan[d]
    BY <1>10 DEF IInv, TypeOK
  <1>13. TypeOK'
    <2>1. plan' \in [Clients -> Plan]
      BY <1>7, <1>10, PlanTypes DEF IInv, TypeOK
    <2>2. pc' \in [Clients -> {"idle", "planned", "checked", "recorded", "evented",
                               "matched", "projected", "rendered"}]
      BY DEF IInv, TypeOK, Prepare, Goto
    <2>3. QED
      BY <1>10, <2>1, <2>2 DEF IInv, TypeOK
  <1>14. PlansAreFull'
    BY <1>7, <1>11, <1>12 DEF IInv, PlansAreFull, EventMatches
  <1>15. PlansAreLegal'
    <2>1. StillLegal(plan[c])'
      BY <1>9, <1>10, <1>12 DEF StillLegal
    <2>2. ASSUME NEW d \in Clients, d # c, pc'[d] \in {"planned", "checked"}
          PROVE  StillLegal(plan[d])'
      BY <1>10, <1>11, <1>12, <2>2 DEF IInv, PlansAreLegal, StillLegal
    <2>3. QED
      BY <2>1, <2>2 DEF PlansAreLegal
  <1>16. WrittenIsWitnessed' /\ ComparedIsPast'
    BY <1>10, <1>11, <1>12 DEF IInv, WrittenIsWitnessed, ComparedIsPast, Witnessed
  <1>17. (record \in past)' /\ EventsAreTrue' /\ ViewsWereTrue'
    BY <1>10 DEF IInv, EventsAreTrue, ViewsWereTrue
  <1>18. QED
    BY <1>13, <1>14, <1>15, <1>16, <1>17 DEF IInv

(* A client moves on, having compared or written nothing that others read: *)
(* preflight, the two comparisons of the graph, and giving up.             *)
LEMMA PreflightKeepsInvariant ==
    ASSUME IInv, NEW c \in Clients, Preflight(c)
    PROVE  IInv'
  <1>1. UNCHANGED <<record, events, projection, index, plan, past>>
    BY DEF Preflight, derived
  <1>2. pc'[c] = "checked" /\ pc[c] = "planned" /\ \A d \in Clients : d # c => pc'[d] = pc[d]
    BY StepOfOneClient DEF Preflight
  <1>3. TypeOK'
    BY <1>1 DEF IInv, TypeOK, Preflight, Goto
  <1>4. PlansAreFull' /\ PlansAreLegal'
    BY <1>1, <1>2 DEF IInv, PlansAreFull, PlansAreLegal, EventMatches, StillLegal
  <1>5. WrittenIsWitnessed' /\ ComparedIsPast'
    BY <1>1, <1>2 DEF IInv, WrittenIsWitnessed, ComparedIsPast, Witnessed
  <1>6. QED
    BY <1>1, <1>3, <1>4, <1>5 DEF IInv, EventsAreTrue, ViewsWereTrue

LEMMA CompareKeepsInvariant ==
    ASSUME IInv, NEW c \in Clients, CheckGraph(c) \/ CheckIndex(c)
    PROVE  IInv'
  <1>1. UNCHANGED <<record, events, projection, index, plan, past>>
    BY DEF CheckGraph, CheckIndex, derived
  <1>2. /\ pc'[c] \in {"matched", "rendered"}
        /\ pc[c] \in {"evented", "projected"}
        /\ \A d \in Clients : d # c => pc'[d] = pc[d]
    BY StepOfOneClient DEF CheckGraph, CheckIndex
  <1>3. plan[c].graph \in past
    BY DEF CheckGraph, CheckIndex, GraphAsPlanned, IInv
  <1>4. TypeOK'
    BY <1>1 DEF IInv, TypeOK, CheckGraph, CheckIndex, Goto
  <1>5. PlansAreFull' /\ PlansAreLegal'
    BY <1>1, <1>2 DEF IInv, PlansAreFull, PlansAreLegal, EventMatches, StillLegal
  <1>6. WrittenIsWitnessed'
    BY <1>1, <1>2 DEF IInv, WrittenIsWitnessed, Witnessed
  <1>7. ComparedIsPast'
    BY <1>1, <1>2, <1>3 DEF IInv, ComparedIsPast
  <1>8. QED
    BY <1>1, <1>4, <1>5, <1>6, <1>7 DEF IInv, EventsAreTrue, ViewsWereTrue

LEMMA StopKeepsInvariant ==
    ASSUME IInv, NEW c \in Clients, Abandon(c), UNCHANGED <<record, events, projection, past>>,
           index' = index \/ (index' \in past /\ index' \in [Works -> WorkItem])
    PROVE  IInv'
  <1>1. /\ pc'[c] = "idle"
        /\ \A d \in Clients : d # c => pc'[d] = pc[d] /\ plan'[d] = plan[d]
    BY DEF IInv, TypeOK, Abandon
  <1>2. TypeOK'
    BY PlanTypes DEF IInv, TypeOK, Abandon
  <1>3. PlansAreFull' /\ PlansAreLegal'
    BY <1>1 DEF IInv, PlansAreFull, PlansAreLegal, EventMatches, StillLegal
  <1>4. WrittenIsWitnessed' /\ ComparedIsPast'
    BY <1>1 DEF IInv, WrittenIsWitnessed, ComparedIsPast, Witnessed
  <1>5. QED
    BY <1>2, <1>3, <1>4 DEF IInv, EventsAreTrue, ViewsWereTrue

-----------------------------------------------------------------------------
(* The four durable writes.                                                *)

(* The record written is the next revision of the very record that the     *)
(* plan was checked against; plans of other clients for it become stale.   *)
LEMMA PutRecordKeepsInvariant ==
    ASSUME IInv, NEW c \in Clients, PutRecord(c)
    PROVE  IInv'
  <1> DEFINE p == plan[c]
             w == p.work
  <1>1. /\ p \in FullPlan /\ EventMatches(p) /\ StillLegal(p)
    BY DEF IInv, PlansAreFull, PlansAreLegal, PutRecord
  <1>2. /\ w \in Works /\ p.new \in WorkItem /\ p.new # Absent
        /\ p.new.revision \in Nat /\ p.new.revision > 0
        /\ p.new.needs \subseteq Works
    BY <1>1, FullPlanIs
  <1>3. record \in [Works -> WorkItem] /\ \A v \in Works : record[v].revision \in Nat
    BY AbsentIsRevisionZero DEF IInv, TypeOK
  <1>4. record[w].revision = p.new.revision - 1
    BY DEF PutRecord, RevisionUnchanged
  <1>5. /\ record' = [record EXCEPT ![w] = p.new]
        /\ past' = past \cup {record'}
        /\ UNCHANGED <<events, projection, index, plan>>
    BY DEF PutRecord, derived
  <1>6. record'[w] = p.new /\ \A v \in Works : v # w => record'[v] = record[v]
    BY <1>2, <1>3, <1>5
  <1>7. /\ pc'[c] = "recorded" /\ \A d \in Clients : d # c => pc'[d] = pc[d]
    BY StepOfOneClient DEF PutRecord
  <1>8. \A v \in Works : record[v] # Absent => record'[v] # Absent
    BY <1>2, <1>6
  <1>9. TypeOK'
    <2>1. record' \in [Works -> WorkItem]
      BY <1>2, <1>3, <1>5
    <2>2. \A t \in p.new.needs : record'[t] # Absent
      BY <1>1, <1>2, <1>6, <1>8 DEF StillLegal
    <2>3. \A v \in Works : \A t \in record'[v].needs : record'[t] # Absent
      <3> SUFFICES ASSUME NEW v \in Works, v # w, NEW t \in record'[v].needs
                   PROVE  record'[t] # Absent
        BY <1>6, <2>2
      <3>1. t \in record[v].needs /\ t \in Works
        BY <1>3, <1>6, AbsentIsRevisionZero
      <3>2. QED
        BY <1>8, <3>1 DEF IInv, TypeOK
    <2>4. pc' \in [Clients -> {"idle", "planned", "checked", "recorded", "evented",
                               "matched", "projected", "rendered"}]
      BY DEF IInv, TypeOK, PutRecord, Goto
    <2>5. QED
      BY <1>5, <2>1, <2>3, <2>4 DEF IInv, TypeOK
  <1>10. PlansAreFull'
    BY <1>1, <1>5, <1>7 DEF IInv, PlansAreFull, EventMatches
  <1>11. PlansAreLegal'
    <2> SUFFICES ASSUME NEW d \in Clients, pc'[d] \in {"planned", "checked"}
                 PROVE  StillLegal(plan[d])'
      BY DEF PlansAreLegal
    <2>1. d # c /\ pc[d] \in {"planned", "checked"}
      BY <1>7
    <2>2. StillLegal(plan[d]) /\ plan[d] \in FullPlan
      BY <2>1 DEF IInv, PlansAreLegal, PlansAreFull
    <2>3. /\ plan[d].work \in Works /\ plan[d].new.revision \in Nat
          /\ plan[d].new.needs \subseteq Works
      BY <2>2, FullPlanIs
    <2>4. \A t \in plan[d].new.needs : t = plan[d].work \/ record'[t] # Absent
      BY <1>8, <2>2, <2>3 DEF StillLegal
    <2>5. CASE plan[d].work = w
      <3>1. record'[w].revision > plan[d].new.revision - 1
        BY <1>2, <1>4, <1>6, <2>2, <2>3, <2>5 DEF StillLegal
      <3>2. QED
        BY <1>2, <1>5, <1>6, <2>3, <2>4, <2>5, <3>1 DEF StillLegal
    <2>6. CASE plan[d].work # w
      BY <1>5, <1>6, <2>2, <2>3, <2>4, <2>6 DEF StillLegal
    <2>7. QED
      BY <2>5, <2>6
  <1>12. WrittenIsWitnessed'
    <2>1. record \in past' /\ record' \in past' /\ past \subseteq past'
      BY <1>5 DEF IInv
    <2>2. Witnessed(p.event)'
      <3>1. record'[p.event.work].revision = p.event.revision
            /\ record'[p.event.work].status = p.event.to
        BY <1>1, <1>6 DEF EventMatches
      <3>2. record[p.event.work].revision = p.event.revision - 1
            /\ record[p.event.work].status = p.event.from
        BY <1>1, <1>4 DEF EventMatches, StillLegal
      <3>3. QED
        BY <1>5, <2>1, <3>1, <3>2 DEF Witnessed
    <2>3. ASSUME NEW d \in Clients, d # c, pc'[d] = "recorded"
          PROVE  Witnessed(plan[d].event)'
      BY <1>5, <1>7, <2>1, <2>3 DEF IInv, WrittenIsWitnessed, Witnessed
    <2>4. QED
      BY <1>5, <2>2, <2>3 DEF WrittenIsWitnessed
  <1>13. ComparedIsPast' /\ (record \in past)' /\ EventsAreTrue' /\ ViewsWereTrue'
    BY <1>5, <1>7 DEF IInv, ComparedIsPast, EventsAreTrue, ViewsWereTrue
  <1>14. QED
    BY <1>9, <1>10, <1>11, <1>12, <1>13 DEF IInv

LEMMA PutEventKeepsInvariant ==
    ASSUME IInv, NEW c \in Clients, PutEvent(c)
    PROVE  IInv'
  <1>1. /\ events' = events \cup {plan[c].event}
        /\ UNCHANGED <<record, projection, index, plan, past>>
    BY DEF PutEvent, derived
  <1>2. /\ pc[c] = "recorded" /\ pc'[c] = "evented"
        /\ \A d \in Clients : d # c => pc'[d] = pc[d]
    BY StepOfOneClient DEF PutEvent
  <1>3. Witnessed(plan[c].event) /\ plan[c].event \in Event
    BY <1>2, FullPlanIs DEF IInv, WrittenIsWitnessed, PlansAreFull
  <1>4. TypeOK'
    BY <1>1, <1>3 DEF IInv, TypeOK, PutEvent, Goto
  <1>5. PlansAreFull' /\ PlansAreLegal'
    BY <1>1, <1>2 DEF IInv, PlansAreFull, PlansAreLegal, EventMatches, StillLegal
  <1>6. WrittenIsWitnessed' /\ ComparedIsPast'
    BY <1>1, <1>2 DEF IInv, WrittenIsWitnessed, ComparedIsPast, Witnessed
  <1>7. EventsAreTrue'
    BY <1>1, <1>3 DEF IInv, EventsAreTrue, Witnessed
  <1>8. QED
    BY <1>1, <1>4, <1>5, <1>6, <1>7 DEF IInv, ViewsWereTrue

LEMMA WriteProjectionKeepsInvariant ==
    ASSUME IInv, NEW c \in Clients, WriteProjection(c)
    PROVE  IInv'
  <1>1. /\ projection' = plan[c].graph
        /\ UNCHANGED <<record, events, index, plan, past>>
    BY DEF WriteProjection
  <1>2. /\ pc[c] = "matched" /\ pc'[c] = "projected"
        /\ \A d \in Clients : d # c => pc'[d] = pc[d]
    BY StepOfOneClient DEF WriteProjection
  <1>3. plan[c].graph \in past /\ plan[c].graph \in [Works -> WorkItem]
    BY <1>2, FullPlanIs DEF IInv, ComparedIsPast, PlansAreFull
  <1>4. TypeOK'
    BY <1>1, <1>3 DEF IInv, TypeOK, WriteProjection, Goto
  <1>5. PlansAreFull' /\ PlansAreLegal'
    BY <1>1, <1>2 DEF IInv, PlansAreFull, PlansAreLegal, EventMatches, StillLegal
  <1>6. WrittenIsWitnessed' /\ ComparedIsPast'
    BY <1>1, <1>2 DEF IInv, WrittenIsWitnessed, ComparedIsPast, Witnessed
  <1>7. QED
    BY <1>1, <1>3, <1>4, <1>5, <1>6 DEF IInv, EventsAreTrue, ViewsWereTrue

LEMMA WriteIndexKeepsInvariant ==
    ASSUME IInv, NEW c \in Clients, WriteIndex(c)
    PROVE  IInv'
  <1>1. plan[c].graph \in past /\ plan[c].graph \in [Works -> WorkItem]
    BY FullPlanIs DEF IInv, ComparedIsPast, PlansAreFull, WriteIndex
  <1>2. /\ index' = plan[c].graph
        /\ Abandon(c)
        /\ UNCHANGED <<record, events, projection, past>>
    BY DEF WriteIndex
  <1>3. QED
    BY <1>1, <1>2, StopKeepsInvariant

-----------------------------------------------------------------------------
(* Together: the invariant of every step.                                  *)
LEMMA NextInvariant == IInv /\ [Next]_vars => IInv'
  <1> SUFFICES ASSUME IInv, [Next]_vars
               PROVE  IInv'
    OBVIOUS
  <1>1. ASSUME NEW c \in Clients, NEW w \in Works, NEW status \in Statuses,
               NEW needs \in SUBSET Works, Prepare(c, w, status, needs)
        PROVE  IInv'
    BY <1>1, PrepareKeepsInvariant
  <1>2. ASSUME NEW c \in Clients, Preflight(c)
        PROVE  IInv'
    BY <1>2, PreflightKeepsInvariant
  <1>3. ASSUME NEW c \in Clients, PutRecord(c)
        PROVE  IInv'
    BY <1>3, PutRecordKeepsInvariant
  <1>4. ASSUME NEW c \in Clients, PutEvent(c)
        PROVE  IInv'
    BY <1>4, PutEventKeepsInvariant
  <1>5. ASSUME NEW c \in Clients, CheckGraph(c) \/ CheckIndex(c)
        PROVE  IInv'
    BY <1>5, CompareKeepsInvariant
  <1>6. ASSUME NEW c \in Clients, WriteProjection(c)
        PROVE  IInv'
    BY <1>6, WriteProjectionKeepsInvariant
  <1>7. ASSUME NEW c \in Clients, WriteIndex(c)
        PROVE  IInv'
    BY <1>7, WriteIndexKeepsInvariant
  <1>8. ASSUME NEW c \in Clients, Stop(c)
        PROVE  IInv'
    BY <1>8, StopKeepsInvariant DEF Stop, derived
  <1>9. CASE UNCHANGED vars
    BY <1>9 DEF vars, derived, IInv, TypeOK, PlansAreFull, PlansAreLegal, WrittenIsWitnessed,
       ComparedIsPast, EventsAreTrue, ViewsWereTrue, EventMatches, StillLegal, Witnessed
  <1>10. QED
    BY <1>1, <1>2, <1>3, <1>4, <1>5, <1>6, <1>7, <1>8, <1>9 DEF Next

(* The strengthened invariant: what a client is about to write is true, as *)
(* long as the revision its plan was made for is still the record's.       *)
THEOREM InductiveInvariant == Spec => []IInv
  BY InitInvariant, NextInvariant, PTL DEF Spec

(* Every record is well formed and every relation names an item that has a *)
(* record, although each client checks its targets before it writes.       *)
THEOREM RelationsHaveTargets == Spec => []TypeOK
  <1>1. IInv => TypeOK
    BY DEF IInv
  <1>2. QED
    BY <1>1, InductiveInvariant, PTL

(* Each event names two revisions that the records really had, whichever   *)
(* clients raced between planning, record and event.                       *)
THEOREM EventsTellTheTruth == Spec => []EventsAreTrue
  <1>1. IInv => EventsAreTrue
    BY DEF IInv
  <1>2. QED
    BY <1>1, InductiveInvariant, PTL

(* The projection and the readable index always show a graph there was.    *)
THEOREM ViewsShowPastGraphs == Spec => []ViewsWereTrue
  <1>1. IInv => ViewsWereTrue
    BY DEF IInv
  <1>2. QED
    BY <1>1, InductiveInvariant, PTL

(* A record moves by one revision along a legal transition, although the   *)
(* write compares only the revision and not the status it was planned for. *)
THEOREM RevisionsAreVisible == Spec => EveryRevisionIsVisible
  <1> DEFINE Visible ==
        \A w \in Works : record'[w] # record[w] =>
            /\ record'[w].revision = record[w].revision + 1
            /\ record'[w].status \in Transitions(record[w].status)
  <1>1. IInv /\ [Next]_vars => [Visible]_vars
    <2> SUFFICES ASSUME IInv, Next
                 PROVE  Visible
      OBVIOUS
    <2>1. ASSUME NEW c \in Clients, PutRecord(c)
          PROVE  Visible
      <3>1. plan[c] \in FullPlan /\ StillLegal(plan[c])
        BY <2>1 DEF IInv, PlansAreFull, PlansAreLegal, PutRecord
      <3>2. plan[c].work \in Works /\ plan[c].new.revision \in Nat
        BY <3>1, FullPlanIs
      <3>3. /\ record' = [record EXCEPT ![plan[c].work] = plan[c].new]
            /\ record[plan[c].work].revision = plan[c].new.revision - 1
        BY <2>1 DEF PutRecord, RevisionUnchanged
      <3>4. record \in [Works -> WorkItem]
        BY DEF IInv, TypeOK
      <3>5. QED
        BY <3>1, <3>2, <3>3, <3>4 DEF StillLegal
    <2>2. ASSUME NEW c \in Clients, NEW w \in Works, NEW status \in Statuses,
                 NEW needs \in SUBSET Works, Prepare(c, w, status, needs)
          PROVE  Visible
      BY <2>2 DEF Prepare
    <2>3. ASSUME NEW c \in Clients,
                 \/ Preflight(c) \/ PutEvent(c) \/ CheckGraph(c) \/ WriteProjection(c)
                 \/ CheckIndex(c) \/ WriteIndex(c) \/ Stop(c)
          PROVE  Visible
      BY <2>3 DEF Preflight, PutEvent, CheckGraph, WriteProjection, CheckIndex, WriteIndex, Stop
    <2>4. QED
      BY <2>1, <2>2, <2>3 DEF Next
  <1>2. QED
    BY <1>1, InductiveInvariant, PTL DEF Spec, EveryRevisionIsVisible

-----------------------------------------------------------------------------
(* The source code index.  A job or a search has the fields of its stage.  *)

ScanJob(j) ==
    j = [at |-> j.at, root |-> j.root, under |-> j.under, scan |-> j.scan,
         from |-> j.from, left |-> j.left]

BuildJob(j) ==
    j = [at |-> j.at, root |-> j.root, under |-> j.under, scan |-> j.scan,
         from |-> j.from, exists |-> j.exists, built |-> j.built, left |-> j.left,
         reused |-> j.reused]

JobShape(j) ==
    \/ j.at = "idle"
    \/ j.at \in {"scanning", "choosing"} /\ ScanJob(j)
    \/ j.at \in {"preparing", "verifying"} /\ BuildJob(j)

(* What a job has built is what can be indexed of its scan, but for the    *)
(* files that are left.                                                    *)
Part(scan, left) == [f \in DOMAIN Indexed(scan) \ left |-> scan[f]]

BuildsItsScan(j) ==
    /\ JobShape(j)
    /\ j.at = "preparing" => j.built = Part(j.scan, j.left)
    /\ j.at = "verifying" => j.built = Indexed(j.scan)

ReadsItsScan ==
    search.at = "reading" =>
      /\ search.rows = Indexed(search.scan)
      /\ search = [at |-> "reading", root |-> search.root, scan |-> search.scan,
                   rows |-> search.rows, left |-> search.left]

CodeInv ==
    /\ job = [x \in Indexers |-> job[x]]
    /\ \A x \in Indexers : BuildsItsScan(job[x])
    /\ installed # NoIndex => installed.files = Indexed(installed.of)
    /\ ReadsItsScan
    /\ HitsAreOfTheScan

LEMMA CodeBegins == CodeInit => CodeInv
<1> SUFFICES ASSUME CodeInit PROVE CodeInv
  OBVIOUS
<1>1. \A x \in Indexers : BuildsItsScan(job[x])
  BY DEF CodeInit, BuildsItsScan, JobShape, Idle
<1> QED BY <1>1 DEF CodeInit, CodeInv, Idle, ReadsItsScan, HitsAreOfTheScan

LEMMA OneJob ==
    ASSUME CodeInv, NEW x \in Indexers, NEW j, job' = [job EXCEPT ![x] = j], BuildsItsScan(j),
           UNCHANGED <<installed, search>>
    PROVE  CodeInv'
<1>1. \A y \in Indexers : job'[y] = IF y = x THEN j ELSE job[y]
  BY DEF CodeInv
<1>2. \A y \in Indexers : BuildsItsScan(job'[y])
  BY <1>1 DEF CodeInv
<1> QED BY <1>2 DEF CodeInv, ReadsItsScan, HitsAreOfTheScan

(* A field of a job is changed.                                            *)
LEMMA ScanFields ==
    ASSUME NEW j, ScanJob(j), NEW v
    PROVE  /\ [j EXCEPT !.at = v]
                = [at |-> v, root |-> j.root, under |-> j.under, scan |-> j.scan,
                   from |-> j.from, left |-> j.left]
           /\ [j EXCEPT !.scan = v]
                = [at |-> j.at, root |-> j.root, under |-> j.under, scan |-> v,
                   from |-> j.from, left |-> j.left]
           /\ [j EXCEPT !.left = v]
                = [at |-> j.at, root |-> j.root, under |-> j.under, scan |-> j.scan,
                   from |-> j.from, left |-> v]
<1>1. [j EXCEPT !.at = v]
        = [at |-> v, root |-> j.root, under |-> j.under, scan |-> j.scan,
           from |-> j.from, left |-> j.left]
  BY DEF ScanJob
<1>2. [j EXCEPT !.scan = v]
        = [at |-> j.at, root |-> j.root, under |-> j.under, scan |-> v,
           from |-> j.from, left |-> j.left]
  BY DEF ScanJob
<1>3. [j EXCEPT !.left = v]
        = [at |-> j.at, root |-> j.root, under |-> j.under, scan |-> j.scan,
           from |-> j.from, left |-> v]
  BY DEF ScanJob
<1> QED BY <1>1, <1>2, <1>3

LEMMA BuildFields ==
    ASSUME NEW j, BuildJob(j), NEW v
    PROVE  /\ [j EXCEPT !.at = v]
                = [at |-> v, root |-> j.root, under |-> j.under, scan |-> j.scan,
                   from |-> j.from, exists |-> j.exists, built |-> j.built, left |-> j.left,
                   reused |-> j.reused]
           /\ [j EXCEPT !.built = v]
                = [at |-> j.at, root |-> j.root, under |-> j.under, scan |-> j.scan,
                   from |-> j.from, exists |-> j.exists, built |-> v, left |-> j.left,
                   reused |-> j.reused]
           /\ [j EXCEPT !.left = v]
                = [at |-> j.at, root |-> j.root, under |-> j.under, scan |-> j.scan,
                   from |-> j.from, exists |-> j.exists, built |-> j.built, left |-> v,
                   reused |-> j.reused]
<1>1. [j EXCEPT !.at = v]
        = [at |-> v, root |-> j.root, under |-> j.under, scan |-> j.scan,
           from |-> j.from, exists |-> j.exists, built |-> j.built, left |-> j.left,
           reused |-> j.reused]
  BY DEF BuildJob
<1>2. [j EXCEPT !.built = v]
        = [at |-> j.at, root |-> j.root, under |-> j.under, scan |-> j.scan,
           from |-> j.from, exists |-> j.exists, built |-> v, left |-> j.left,
           reused |-> j.reused]
  BY DEF BuildJob
<1>3. [j EXCEPT !.left = v]
        = [at |-> j.at, root |-> j.root, under |-> j.under, scan |-> j.scan,
           from |-> j.from, exists |-> j.exists, built |-> j.built, left |-> v,
           reused |-> j.reused]
  BY DEF BuildJob
<1> QED BY <1>1, <1>2, <1>3

LEMMA NothingBuilt ==
    ASSUME NEW scan, NEW left, DOMAIN Indexed(scan) \subseteq left
    PROVE  Part(scan, left) = <<>>
<1>1. Part(scan, left) = [f \in {} |-> scan[f]]
  BY DEF Part
<1>2. [f \in {} |-> scan[f]] = <<>>
  OBVIOUS
<1> QED BY <1>1, <1>2

LEMMA CodeSteps == CodeInv /\ [CodeNext]_codeVars => CodeInv'
<1> SUFFICES ASSUME CodeInv, [CodeNext]_codeVars PROVE CodeInv'
  OBVIOUS
<1>0. /\ job = [x \in Indexers |-> job[x]] /\ \A x \in Indexers : BuildsItsScan(job[x])
      /\ installed # NoIndex => installed.files = Indexed(installed.of)
      /\ ReadsItsScan /\ HitsAreOfTheScan
  BY DEF CodeInv
<1>1. ASSUME UNCHANGED <<job, installed, search>> PROVE CodeInv'
  BY <1>1 DEF CodeInv, ReadsItsScan, HitsAreOfTheScan
<1>2. ASSUME NEW x \in Indexers, NEW scan, NEW at \in {"scanning", "choosing"}, Begin(x, scan, at),
             UNCHANGED <<installed, search>>
      PROVE  CodeInv'
  <2> DEFINE j == [at |-> at, root |-> binding.root, under |-> binding.revision,
                   scan |-> scan, from |-> accepted.revision, left |-> Files]
  <2>1. BuildsItsScan(j)
    BY DEF BuildsItsScan, JobShape, ScanJob
  <2>2. job' = [job EXCEPT ![x] = j]
    BY <1>2 DEF Begin
  <2> HIDE DEF j
  <2> QED BY <1>2, <2>1, <2>2, OneJob
<1>3. ASSUME NEW x \in Indexers, ScanFile(x) PROVE CodeInv'
  <2>1. ScanJob(job[x]) /\ job[x].at = "scanning"
    BY <1>0, <1>3 DEF ScanFile, BuildsItsScan, JobShape
  <2>2. CASE job[x].left = {}
    <3> DEFINE k == [job[x] EXCEPT !.at = "choosing"]
               j == [k EXCEPT !.left = Files]
    <3>1. job' = [job EXCEPT ![x] = j]
      BY <1>0, <1>3, <2>2 DEF ScanFile, MoveOn
    <3>2. ScanJob(k) /\ k.at = "choosing"
      BY <2>1, ScanFields DEF ScanJob
    <3> HIDE DEF k
    <3>3. BuildsItsScan(j)
      BY <3>2, ScanFields DEF BuildsItsScan, JobShape, ScanJob
    <3> HIDE DEF j
    <3> QED BY <1>3, <3>1, <3>3, OneJob DEF ScanFile
  <2>3. ASSUME NEW f \in job[x].left,
               job' = [job EXCEPT ![x].left = @ \ {f}, ![x].scan[f] = copy[job[x].root][f]]
        PROVE  CodeInv'
    <3> DEFINE k == [job[x] EXCEPT !.left = job[x].left \ {f}]
               scan == [job[x].scan EXCEPT ![f] = copy[job[x].root][f]]
               j == [k EXCEPT !.scan = scan]
    <3>1. ScanJob(k) /\ k.at = "scanning" /\ k.scan = job[x].scan
      BY <2>1, ScanFields DEF ScanJob
    <3>2. job' = [job EXCEPT ![x] = j]
      BY <1>0, <2>3, <3>1
    <3> HIDE DEF k, scan
    <3>3. BuildsItsScan(j)
      BY <3>1, ScanFields DEF BuildsItsScan, JobShape, ScanJob
    <3> HIDE DEF j
    <3> QED BY <1>3, <3>2, <3>3, OneJob DEF ScanFile
  <2> QED BY <1>3, <2>2, <2>3 DEF ScanFile
<1>4. ASSUME NEW x \in Indexers, Choose(x) PROVE CodeInv'
  <2> DEFINE left == {f \in Files : job[x].scan[f] # Gone}
             j == [at |-> "preparing", root |-> job[x].root, under |-> job[x].under,
                   scan |-> job[x].scan, from |-> job[x].from, exists |-> installed # NoIndex,
                   built |-> <<>>, left |-> left,
                   reused |-> IF installed = NoIndex THEN {}
                              ELSE {f \in DOMAIN installed.files :
                                      installed.files[f] = job[x].scan[f]}]
  <2>1. job' = [job EXCEPT ![x] = j]
    BY <1>4 DEF Choose
  <2>2. Part(job[x].scan, left) = <<>>
    BY NothingBuilt DEF Indexed
  <2>3. BuildsItsScan(j)
    BY <2>2 DEF BuildsItsScan, JobShape, BuildJob
  <2> HIDE DEF j
  <2> QED BY <1>4, <2>1, <2>3, OneJob DEF Choose
<1>5. ASSUME NEW x \in Indexers, PrepareFile(x) PROVE CodeInv'
  <2>1. /\ BuildJob(job[x]) /\ job[x].at = "preparing"
        /\ job[x].built = Part(job[x].scan, job[x].left)
    BY <1>0, <1>5 DEF PrepareFile, BuildsItsScan, JobShape
  <2>2. PICK f \in job[x].left :
          job' = [job EXCEPT ![x].left = @ \ {f},
                             ![x].built = IF f \in DOMAIN Indexed(job[x].scan)
                                          THEN Extend(@, f, job[x].scan[f]) ELSE @]
    BY <1>5 DEF PrepareFile
  <2> DEFINE built == IF f \in DOMAIN Indexed(job[x].scan)
                      THEN Extend(job[x].built, f, job[x].scan[f]) ELSE job[x].built
             left == job[x].left \ {f}
             k == [job[x] EXCEPT !.left = left]
             j == [k EXCEPT !.built = built]
  <2>3. built = Part(job[x].scan, left)
    <3>1. CASE f \in DOMAIN Indexed(job[x].scan)
      <4>1. DOMAIN Indexed(job[x].scan) \ left
              = (DOMAIN Indexed(job[x].scan) \ job[x].left) \cup {f}
        BY <3>1
      <4> QED BY <2>1, <3>1, <4>1 DEF Part, Extend
    <3>2. CASE f \notin DOMAIN Indexed(job[x].scan)
      <4>1. DOMAIN Indexed(job[x].scan) \ left = DOMAIN Indexed(job[x].scan) \ job[x].left
        BY <3>2
      <4> QED BY <2>1, <3>2, <4>1 DEF Part
    <3> QED BY <3>1, <3>2
  <2>4. /\ BuildJob(k) /\ k.at = "preparing" /\ k.scan = job[x].scan /\ k.built = job[x].built
        /\ k.left = left
    BY <2>1, BuildFields DEF BuildJob
  <2>5. job' = [job EXCEPT ![x] = j]
    BY <1>0, <2>2, <2>4
  <2> HIDE DEF built, left, k
  <2>6. BuildsItsScan(j)
    BY <2>3, <2>4, BuildFields DEF BuildsItsScan, JobShape, BuildJob
  <2> HIDE DEF j
  <2> QED BY <1>5, <2>5, <2>6, OneJob DEF PrepareFile
<1>6. ASSUME NEW x \in Indexers, Accept(x) PROVE CodeInv'
  <2>1. /\ BuildJob(job[x]) /\ job[x].at = "preparing" /\ job[x].left = {}
        /\ job[x].built = Part(job[x].scan, job[x].left)
    BY <1>0, <1>6 DEF Accept, BuildsItsScan, JobShape
  <2>2. job[x].built = Indexed(job[x].scan)
    BY <2>1 DEF Part, Indexed
  <2> DEFINE left == DOMAIN job[x].built
             k == [job[x] EXCEPT !.at = "verifying"]
             j == [k EXCEPT !.left = left]
  <2>3. job' = [job EXCEPT ![x] = j]
    BY <1>0, <1>6 DEF Accept
  <2>4. /\ BuildJob(k) /\ k.at = "verifying" /\ k.scan = job[x].scan /\ k.built = job[x].built
    BY <2>1, BuildFields DEF BuildJob
  <2> HIDE DEF left, k
  <2>5. BuildsItsScan(j)
    BY <2>2, <2>4, BuildFields DEF BuildsItsScan, JobShape, BuildJob
  <2> HIDE DEF j
  <2> QED BY <1>6, <2>3, <2>5, OneJob DEF Accept
<1>7. ASSUME NEW x \in Indexers, VerifyFile(x) PROVE CodeInv'
  <2>1. /\ BuildJob(job[x]) /\ job[x].at = "verifying"
        /\ job[x].built = Indexed(job[x].scan)
    BY <1>0, <1>7 DEF VerifyFile, BuildsItsScan, JobShape
  <2>2. PICK f \in job[x].left : job' = [job EXCEPT ![x].left = @ \ {f}]
    BY <1>7 DEF VerifyFile
  <2> DEFINE left == job[x].left \ {f}
             j == [job[x] EXCEPT !.left = left]
  <2>3. job' = [job EXCEPT ![x] = j]
    BY <1>0, <2>2
  <2> HIDE DEF left
  <2>4. BuildsItsScan(j)
    BY <2>1, BuildFields DEF BuildsItsScan, JobShape, BuildJob
  <2> HIDE DEF j
  <2> QED BY <1>7, <2>3, <2>4, OneJob DEF VerifyFile
<1>8. ASSUME NEW x \in Indexers, Install(x) \/ GiveUp(x) PROVE CodeInv'
  <2>1. BuildsItsScan(Idle)
    BY DEF BuildsItsScan, JobShape, Idle
  <2>2. job' = [job EXCEPT ![x] = Idle] /\ UNCHANGED search
    BY <1>8 DEF Install, GiveUp
  <2>3. \A y \in Indexers : BuildsItsScan(job'[y])
    BY <1>0, <2>1, <2>2
  <2>4. installed' # NoIndex => installed'.files = Indexed(installed'.of)
    <3>1. CASE Install(x)
      BY <1>0, <3>1 DEF Install, BuildsItsScan
    <3>2. CASE GiveUp(x)
      BY <1>0, <3>2 DEF GiveUp
    <3> QED BY <1>8, <3>1, <3>2
  <2> QED BY <1>0, <2>2, <2>3, <2>4 DEF CodeInv, ReadsItsScan, HitsAreOfTheScan
<1>9. ASSUME UNCHANGED <<job, installed>>, ReadsItsScan', HitsAreOfTheScan' PROVE CodeInv'
  BY <1>9 DEF CodeInv
<1>10. CASE ReadBinding \/ ReadState \/ EndSearch
  BY <1>9, <1>10 DEF ReadBinding, ReadState, EndSearch, ReadsItsScan, HitsAreOfTheScan, Idle
<1>11. CASE OpenIndex
  <2>1. installed.files = Indexed(search.scan)
    BY <1>0, <1>11 DEF OpenIndex, Current, Fits
  <2> QED BY <1>9, <1>11, <2>1 DEF OpenIndex, ReadsItsScan, HitsAreOfTheScan
<1>12. CASE ReadHit
  <2>1. PICK f : search' = [search EXCEPT !.left = @ \ {f}]
    BY <1>12 DEF ReadHit
  <2>2. search' = [search EXCEPT !.left = search.left \ {f}]
    BY <2>1
  <2> DEFINE left == search.left \ {f}
  <2> HIDE DEF left
  <2>3. /\ search.at = "reading" /\ search.rows = Indexed(search.scan)
        /\ search = [at |-> "reading", root |-> search.root, scan |-> search.scan,
                     rows |-> search.rows, left |-> search.left]
    BY <1>0, <1>12 DEF ReadHit, ReadsItsScan
  <2>4. search' = [at |-> "reading", root |-> search.root, scan |-> search.scan,
                   rows |-> search.rows, left |-> left]
    BY <2>2, <2>3 DEF left
  <2> QED BY <1>9, <1>12, <2>3, <2>4 DEF ReadHit, ReadsItsScan, HitsAreOfTheScan
<1>13. ASSUME NEW withContent \in BOOLEAN, Answer(withContent) PROVE CodeInv'
  BY <1>0, <1>9, <1>13 DEF Answer, ReadsItsScan, HitsAreOfTheScan
<1>14. ASSUME NEW x \in Indexers, Integrate(x) \/ Reindex(x) PROVE CodeInv'
  BY <1>2, <1>14 DEF Integrate, Reindex
<1>15. ASSUME NEW r, NEW f, NEW t, Edit(r, f, t) \/ Rebind(r) PROVE CodeInv'
  BY <1>1, <1>15 DEF Edit, Rebind
<1>16. CASE UNCHANGED codeVars
  BY <1>1, <1>16 DEF codeVars
<1> QED BY <1>3, <1>4, <1>5, <1>6, <1>7, <1>8, <1>10, <1>11, <1>12, <1>13, <1>14, <1>15, <1>16
        DEF CodeNext

(* For any files, directories, texts and number of processes: a search     *)
(* finds all that can be indexed of the scan that it took for the accepted *)
(* one and nothing else, whichever texts an index took over from an older  *)
(* one and whoever replaced it meanwhile (apply_source_code_index,         *)
(* retrieve_source_code).                                                  *)
THEOREM HitsOfTheScan == CodeSpec => []HitsAreOfTheScan
<1>1. CodeInv => HitsAreOfTheScan
  BY DEF CodeInv
<1> QED BY <1>1, CodeBegins, CodeSteps, PTL DEF CodeSpec

-----------------------------------------------------------------------------
(* The semantic index.                                                     *)

(* What an indexer reads is one graph after another: an item is never read *)
(* at a lower revision than before, and the digest that a plan took is not *)
(* above what is read when it is applied.                                  *)
Revisions == [1 .. Items -> Nat]

ReadInOrder(j) ==
    \A k \in 1 .. 3, i \in 1 .. Items :
        Place(k, i) <= Len(j.got) =>
          /\ j.got[Place(k, i)] <= graph[i]
          /\ k > 1 => j.got[Place(k - 1, i)] <= j.got[Place(k, i)]
          /\ j.at = "applying" => j.of[i] <= j.got[Place(k, i)]

Reading(j) ==
    /\ j.got \in Seq(Nat) /\ Len(j.got) <= 3 * Items
    /\ j.projected \in graphs
    /\ ReadInOrder(j)

DigestWasRead(j) ==
    /\ j.of \in Revisions
    /\ \A i \in 1 .. Items : j.of[i] <= graph[i]

IndexerShape(j) ==
    \/ j = Resting
    \/ /\ j.at = "planning"
       /\ j = [at |-> "planning", projected |-> j.projected, got |-> j.got]
    \/ /\ j.at = "approved"
       /\ j = [at |-> "approved", entries |-> j.entries, of |-> j.of, exists |-> j.exists]
    \/ /\ j.at = "applying"
       /\ j = [at |-> "applying", projected |-> j.projected, got |-> j.got,
               entries |-> j.entries, of |-> j.of, exists |-> j.exists]
    \/ /\ j.at = "installing"
       /\ j = [at |-> "installing", entries |-> j.entries, of |-> j.of]

IndexerInv(j) ==
    /\ IndexerShape(j)
    /\ j.at \in {"planning", "applying"} => Reading(j)
    /\ j.at \in {"approved", "applying"} => DigestWasRead(j)
    /\ j.at = "installing" => j.entries = j.of /\ j.of \in graphs

SemanticInv ==
    /\ graph \in Revisions /\ graph \in graphs /\ graphs \subseteq Revisions
    /\ shown \in graphs
    /\ indexer = [x \in Embedders |-> indexer[x]]
    /\ \A x \in Embedders : IndexerInv(indexer[x])
    /\ VectorsAreOfOneGraph

LEMMA OnePlace ==
    ASSUME NEW k \in 1 .. 3, NEW l \in 1 .. 3, NEW i \in 1 .. Items, NEW j \in 1 .. Items
    PROVE  /\ Place(k, i) \in Nat \ {0} /\ Place(k, i) <= 3 * Items
           /\ Place(k, i) = Place(l, j) => k = l /\ i = j
           /\ k > 1 => k - 1 \in 1 .. 3 /\ Place(k - 1, i) < Place(k, i)
<1>1. Items \in Nat
  BY ItemsAssumption
<1>2. k \in {1, 2, 3} /\ l \in {1, 2, 3}
  OBVIOUS
<1> QED BY <1>1, <1>2 DEF Place

LEMMA ReadIsInOrder ==
    ASSUME SemanticInv, NEW x \in Embedders, ReadsGraph(x),
           NEW l \in 1 .. 3, NEW i \in 1 .. Items, Len(indexer[x].got) = Place(l, i) - 1
    PROVE  Reading([indexer[x] EXCEPT !.got = Append(indexer[x].got, graph[i])])
<1>1. Len(indexer[x].got) = Place(l, i) - 1
  OBVIOUS
<1>2. IndexerInv(indexer[x]) /\ Reading(indexer[x]) /\ graph \in Revisions
  BY DEF SemanticInv, IndexerInv, ReadsGraph
<1> DEFINE j == indexer[x]  got == j.got  new == Append(got, graph[i])
<1> DEFINE next == [j EXCEPT !.got = new]
<1>3. graph[i] \in Nat /\ got \in Seq(Nat) /\ Items \in Nat
  BY <1>2, ItemsAssumption DEF Revisions, Reading
<1>4. /\ next.got = new /\ next.at = j.at /\ next.projected = j.projected
      /\ j.at = "applying" => next.of = j.of
  BY <1>2 DEF IndexerInv, IndexerShape, ReadsGraph, Resting
<1>5. /\ new \in Seq(Nat) /\ Len(new) = Place(l, i) /\ new[Place(l, i)] = graph[i]
      /\ \A p \in 1 .. Place(l, i) - 1 : new[p] = got[p]
  <2>1. Place(l, i) \in Nat \ {0}
    BY OnePlace
  <2>2. \A p \in Nat : p <= Len(got) <=> p <= Place(l, i) - 1
    BY <1>1
  <2> HIDE DEF got
  <2> QED BY <1>1, <1>3, <2>1, <2>2 DEF got
<1>6. ASSUME NEW k \in 1 .. 3, NEW h \in 1 .. Items, Place(k, h) <= Place(l, i)
      PROVE  /\ new[Place(k, h)] <= graph[h]
             /\ k > 1 => new[Place(k - 1, h)] <= new[Place(k, h)]
             /\ j.at = "applying" => j.of[h] <= new[Place(k, h)]
  <2>1. CASE Place(k, h) = Place(l, i)
    <3>1. k = l /\ h = i
      BY <2>1, OnePlace
    <3>2. ASSUME k > 1
          PROVE  new[Place(k - 1, i)] <= graph[i]
      <4>1. k - 1 \in 1 .. 3 /\ Place(k - 1, i) \in 1 .. Place(l, i) - 1
        BY <3>1, <3>2, OnePlace
      <4>2. Place(k - 1, i) <= Len(got) /\ new[Place(k - 1, i)] = got[Place(k - 1, i)]
        BY <1>1, <1>5, <4>1
      <4> HIDE DEF new
      <4> QED BY <1>2, <4>1, <4>2 DEF Reading, ReadInOrder
    <3>3. j.at = "applying" => j.of[i] <= graph[i]
      BY <1>2 DEF IndexerInv, DigestWasRead
    <3> HIDE DEF j, got, new
    <3> QED BY <1>3, <1>5, <2>1, <3>1, <3>2, <3>3
  <2>2. CASE Place(k, h) # Place(l, i)
    <3>1. Place(k, h) \in 1 .. Place(l, i) - 1
      BY <1>6, <2>2, OnePlace
    <3>2. k > 1 => k - 1 \in 1 .. 3 /\ Place(k - 1, h) \in 1 .. Place(l, i) - 1
      BY <3>1, OnePlace
    <3>3. new[Place(k, h)] = got[Place(k, h)] /\ Place(k, h) <= Len(got)
      BY <1>1, <1>5, <3>1
    <3>4. k > 1 => new[Place(k - 1, h)] = got[Place(k - 1, h)]
      BY <1>5, <3>2
    <3> HIDE DEF got, new
    <3> QED BY <1>2, <3>3, <3>4 DEF Reading, ReadInOrder, got
  <2> QED BY <2>1, <2>2
<1>7. Len(new) <= 3 * Items
  BY <1>5, OnePlace
<1> HIDE DEF new, next
<1>8. Reading(next)
  BY <1>2, <1>4, <1>5, <1>6, <1>7 DEF Reading, ReadInOrder
<1> QED BY <1>8 DEF next, new

LEMMA VectorsBegin == SemanticInit => SemanticInv
<1> SUFFICES ASSUME SemanticInit PROVE SemanticInv
  OBVIOUS
<1>1. \A x \in Embedders : indexer[x] = Resting /\ IndexerInv(indexer[x])
  BY DEF SemanticInit, IndexerInv, IndexerShape, Resting
<1> QED BY <1>1 DEF SemanticInit, SemanticInv, Revisions, VectorsAreOfOneGraph

(* Another state of one indexer                                            *)
LEMMA OneIndexer ==
    ASSUME SemanticInv, NEW x \in Embedders, NEW j,
           indexer' = [indexer EXCEPT ![x] = j], IndexerInv(j), 
           UNCHANGED <<graph, shown, graphs>>, VectorsAreOfOneGraph'
    PROVE  SemanticInv'
<1>1. indexer = [y \in Embedders |-> indexer[y]]
  BY DEF SemanticInv
<1>2. \A y \in Embedders : indexer'[y] = IF y = x THEN j ELSE indexer[y]
  BY <1>1
<1>3. \A y \in Embedders : IndexerInv(indexer[y]) => IndexerInv(indexer[y])'
  <2>1. ASSUME NEW y \in Embedders, IndexerInv(indexer[y]) PROVE IndexerInv(indexer[y])'
    <3>1. CASE y = x
      <4>1. indexer'[y] = j
        BY <1>2, <3>1
      <4>2. IndexerShape(indexer[y])'
        <5>1. IndexerShape(indexer'[y])
          BY <4>1 DEF IndexerInv
        <5> QED BY <5>1 DEF IndexerShape
      <4>3. Reading(j) => Reading(indexer[y])'
        <5>1. Reading(j) => Reading(indexer'[y])
          BY <4>1
        <5>2. ReadInOrder(indexer'[y]) => ReadInOrder(indexer[y])'
          BY DEF ReadInOrder
        <5> QED BY <5>1, <5>2 DEF Reading
      <4>4. DigestWasRead(j) => DigestWasRead(indexer[y])'
        <5>1. DigestWasRead(j) => DigestWasRead(indexer'[y])
          BY <4>1
        <5> QED BY <5>1 DEF DigestWasRead
      <4> QED BY <4>1, <4>2, <4>3, <4>4 DEF IndexerInv
    <3>2. CASE y # x
      BY <1>2, <2>1, <3>2 DEF IndexerInv, IndexerShape, Reading, ReadInOrder, DigestWasRead
    <3> QED BY <3>1, <3>2
  <2> QED BY <2>1
<1> QED BY <1>1, <1>3 DEF SemanticInv

LEMMA VectorsFollow == SemanticInv /\ [SemanticNext]_semanticVars => SemanticInv'
<1> SUFFICES ASSUME SemanticInv, [SemanticNext]_semanticVars PROVE SemanticInv'
  OBVIOUS
<1>0. /\ indexer = [y \in Embedders |-> indexer[y]] /\ graph \in Revisions
      /\ \A x \in Embedders : IndexerInv(indexer[x])
      /\ graphs \subseteq Revisions /\ shown \in graphs /\ VectorsAreOfOneGraph
  BY DEF SemanticInv
<1>1. CASE UNCHANGED semanticVars
  <2>1. UNCHANGED <<graph, shown, semantic, indexer, graphs>>
    BY <1>1 DEF semanticVars
  <2>2. ASSUME NEW x \in Embedders PROVE IndexerInv(indexer[x])'
    BY <1>0, <2>1 DEF IndexerInv, IndexerShape, Reading, ReadInOrder, DigestWasRead
  <2> QED BY <2>1, <2>2 DEF SemanticInv, VectorsAreOfOneGraph
<1>2. ASSUME NEW x \in Embedders, PrepareVectors(x) PROVE SemanticInv'
  <2> DEFINE j == [at |-> "planning", projected |-> shown, got |-> <<>>]
  <2>1. IndexerInv(j)
    <3>1. Len(j.got) = 0 /\ j.got \in Seq(Nat)
      OBVIOUS
    <3>2. ReadInOrder(j)
      BY <3>1, OnePlace DEF ReadInOrder
    <3> QED BY <1>0, <1>2, <3>1, <3>2, ItemsAssumption
            DEF IndexerInv, IndexerShape, Reading, PrepareVectors
  <2> HIDE DEF j
  <2> QED BY <1>0, <1>2, <2>1, OneIndexer DEF PrepareVectors, j, VectorsAreOfOneGraph
<1>3. ASSUME NEW x \in Embedders, ReadItem(x) PROVE SemanticInv'
  <2>1. IndexerInv(indexer[x]) /\ ReadsGraph(x)
    BY <1>0, <1>3 DEF ReadItem
  <2>2. PICK l \in 1 .. 3, i \in 1 .. Items :
          /\ Len(indexer[x].got) = Place(l, i) - 1
          /\ indexer' = [indexer EXCEPT ![x].got = Append(@, graph[i])]
    BY <1>3 DEF ReadItem
  <2> DEFINE j == [indexer[x] EXCEPT !.got = Append(indexer[x].got, graph[i])]
  <2>3. indexer' = [indexer EXCEPT ![x] = j]
    BY <1>0, <2>2
  <2>4. Reading(j)
    BY <2>1, <2>2, ReadIsInOrder
  <2>5. IndexerShape(j) /\ j.at = indexer[x].at
        /\ (j.at = "applying" => j.of = indexer[x].of)
    <3> DEFINE new == Append(indexer[x].got, graph[i])
    <3> HIDE DEF new
    <3>1. /\ IndexerShape([indexer[x] EXCEPT !.got = new])
          /\ [indexer[x] EXCEPT !.got = new].at = indexer[x].at
          /\ indexer[x].at = "applying" => [indexer[x] EXCEPT !.got = new].of = indexer[x].of
      BY <2>1 DEF IndexerInv, IndexerShape, ReadsGraph, Resting
    <3> QED BY <3>1 DEF new
  <2> HIDE DEF j
  <2>6. IndexerInv(j)
    BY <2>1, <2>4, <2>5 DEF IndexerInv, DigestWasRead, ReadsGraph
  <2> QED BY <1>0, <1>3, <2>3, <2>6, OneIndexer DEF ReadItem, VectorsAreOfOneGraph
<1>4. ASSUME NEW x \in Embedders, Planned(x) PROVE SemanticInv'
  <2> DEFINE j == [at |-> "approved", entries |-> List(x, 2), of |-> List(x, 3),
                   exists |-> semantic # NoVectors]
  <2>1. Reading(indexer[x]) /\ Len(indexer[x].got) = 3 * Items
    BY <1>0, <1>4 DEF Planned, AllRead, IndexerInv
  <2>2. ASSUME NEW i \in 1 .. Items
        PROVE  List(x, 3)[i] \in Nat /\ List(x, 3)[i] <= graph[i]
    <3>1. Place(3, i) \in 1 .. Len(indexer[x].got)
      BY <2>1, OnePlace, ItemsAssumption
    <3> QED BY <2>1, <3>1 DEF Reading, ReadInOrder, List
  <2>3. List(x, 3) \in Revisions
    BY <2>2 DEF List, Revisions
  <2>4. IndexerInv(j)
    BY <1>4, <2>2, <2>3 DEF IndexerInv, IndexerShape, DigestWasRead, Planned
  <2> HIDE DEF j
  <2> QED BY <1>0, <1>4, <2>4, OneIndexer DEF Planned, j, VectorsAreOfOneGraph
<1>5. ASSUME NEW x \in Embedders, Apply(x) PROVE SemanticInv'
  <2> DEFINE j == [at |-> "applying", projected |-> shown, got |-> <<>>,
                   entries |-> indexer[x].entries, of |-> indexer[x].of,
                   exists |-> indexer[x].exists]
  <2>1. IndexerInv(j)
    <3>1. Len(j.got) = 0 /\ j.got \in Seq(Nat)
      OBVIOUS
    <3>2. ReadInOrder(j)
      BY <3>1, OnePlace DEF ReadInOrder
    <3>3. DigestWasRead(j)
      BY <1>0, <1>5 DEF IndexerInv, DigestWasRead, Apply
    <3> QED BY <1>0, <1>5, <3>1, <3>2, <3>3, ItemsAssumption
            DEF IndexerInv, IndexerShape, Reading, Apply
  <2>2. indexer' = [indexer EXCEPT ![x] = j]
    BY <1>5 DEF Apply
  <2> HIDE DEF j
  <2> QED BY <1>0, <1>5, <2>1, <2>2, OneIndexer DEF Apply, VectorsAreOfOneGraph
<1>6. ASSUME NEW x \in Embedders, Verify(x) PROVE SemanticInv'
  <2> DEFINE j == [at |-> "installing", entries |-> indexer[x].entries, of |-> indexer[x].of]
  <2>1. /\ Reading(indexer[x]) /\ DigestWasRead(indexer[x]) /\ indexer[x].at = "applying"
        /\ Len(indexer[x].got) = 3 * Items
        /\ indexer[x].projected = List(x, 1) /\ indexer[x].entries = List(x, 2)
        /\ indexer[x].of = List(x, 3)
    BY <1>0, <1>6 DEF Verify, AllRead, IndexerInv, ProjectionCurrent, AsPlanned
  <2>2. ASSUME NEW i \in 1 .. Items
        PROVE  List(x, 1)[i] = List(x, 3)[i] /\ List(x, 2)[i] = List(x, 3)[i]
    <3> DEFINE got == indexer[x].got
    <3>1. /\ Place(1, i) \in 1 .. Len(got) /\ Place(2, i) \in 1 .. Len(got)
          /\ Place(3, i) \in 1 .. Len(got)
      BY <2>1, OnePlace, ItemsAssumption
    <3>2. /\ List(x, 3)[i] <= got[Place(1, i)]
          /\ got[Place(1, i)] <= got[Place(2, i)] /\ got[Place(2, i)] <= got[Place(3, i)]
      BY <2>1, <3>1 DEF Reading, ReadInOrder
    <3>3. /\ got[Place(1, i)] \in Nat /\ got[Place(2, i)] \in Nat /\ got[Place(3, i)] \in Nat
      <4>1. \A p \in 1 .. Len(got) : got[p] \in Nat
        BY <2>1 DEF Reading
      <4> QED BY <3>1, <4>1
    <3> HIDE DEF got
    <3>4. /\ List(x, 1)[i] = got[Place(1, i)] /\ List(x, 2)[i] = got[Place(2, i)]
          /\ List(x, 3)[i] = got[Place(3, i)]
      BY DEF List, got
    <3> QED BY <3>2, <3>3, <3>4
  <2>3. List(x, 1) = List(x, 3) /\ List(x, 2) = List(x, 3)
    BY <2>2 DEF List
  <2>4. IndexerInv(j)
    BY <1>6, <2>1, <2>3 DEF IndexerInv, IndexerShape, Reading, Verify
  <2>5. indexer' = [indexer EXCEPT ![x] = j]
    BY <1>6 DEF Verify
  <2> HIDE DEF j
  <2> QED BY <1>0, <1>6, <2>4, <2>5, OneIndexer DEF Verify, VectorsAreOfOneGraph
<1>7. ASSUME NEW x \in Embedders, InstallVectors(x) \/ Abort(x) PROVE SemanticInv'
  <2>1. IndexerInv(Resting)
    BY DEF IndexerInv, IndexerShape, Resting
  <2>2. VectorsAreOfOneGraph'
    BY <1>0, <1>7 DEF InstallVectors, Abort, VectorsAreOfOneGraph, IndexerInv
  <2> QED BY <1>7, <2>1, <2>2, OneIndexer DEF InstallVectors, Abort
<1>8. ASSUME NEW i \in 1 .. Items, PutItem(i) PROVE SemanticInv'
  <2>1. /\ graph' \in Revisions /\ \A h \in 1 .. Items : graph[h] <= graph'[h]
        /\ graphs' = graphs \cup {graph'}
    BY <1>0, <1>8 DEF PutItem, Revisions
  <2>2. UNCHANGED <<shown, semantic, indexer>>
    BY <1>8 DEF PutItem
  <2>3. ASSUME NEW x \in Embedders PROVE IndexerInv(indexer[x])'
    <3> DEFINE j == indexer[x]
    <3>1. IndexerInv(j) /\ j' = j
      BY <1>0, <2>2
    <3>2. ASSUME Reading(j) PROVE Reading(j)'
      <4>1. ASSUME NEW k \in 1 .. 3, NEW h \in 1 .. Items, Place(k, h) <= Len(j.got)
            PROVE  j.got[Place(k, h)] <= graph'[h]
        <5>1. j.got[Place(k, h)] \in Nat /\ j.got[Place(k, h)] <= graph[h]
          <6>1. \A p \in 1 .. Len(j.got) : j.got[p] \in Nat
            BY <3>2 DEF Reading
          <6>2. Place(k, h) \in 1 .. Len(j.got)
            <7>1. Len(j.got) \in Nat
              BY <3>2 DEF Reading
            <7> QED BY <4>1, <7>1, OnePlace
          <6> QED BY <3>2, <4>1, <6>1, <6>2 DEF Reading, ReadInOrder
        <5>2. graph[h] \in Nat /\ graph'[h] \in Nat
          BY <1>0, <2>1 DEF Revisions
        <5> HIDE DEF j
        <5> QED BY <2>1, <5>1, <5>2
      <4> HIDE DEF j
      <4> QED BY <2>1, <3>1, <3>2, <4>1 DEF Reading, ReadInOrder
    <3>3. ASSUME DigestWasRead(j) PROVE DigestWasRead(j)'
      <4>1. \A h \in 1 .. Items : j.of[h] \in Nat /\ graph[h] \in Nat /\ graph'[h] \in Nat
        BY <1>0, <2>1, <3>3 DEF Revisions, DigestWasRead
      <4> HIDE DEF j
      <4> QED BY <2>1, <3>1, <3>3, <4>1 DEF DigestWasRead
    <3> HIDE DEF j
    <3>4. IndexerInv(j)'
      BY <2>1, <3>1, <3>2, <3>3 DEF IndexerInv, IndexerShape
    <3> QED BY <3>4 DEF j
  <2> QED BY <1>0, <2>1, <2>2, <2>3 DEF SemanticInv, VectorsAreOfOneGraph
<1>9. CASE ProjectGraph
  <2>1. UNCHANGED <<graph, semantic, indexer, graphs>> /\ shown' \in graphs
    BY <1>9 DEF ProjectGraph
  <2>2. ASSUME NEW x \in Embedders PROVE IndexerInv(indexer[x])'
    BY <1>0, <2>1 DEF IndexerInv, IndexerShape, Reading, ReadInOrder, DigestWasRead
  <2> QED BY <2>1, <2>2 DEF SemanticInv, VectorsAreOfOneGraph
<1> QED BY <1>1, <1>2, <1>3, <1>4, <1>5, <1>6, <1>7, <1>8, <1>9 DEF SemanticNext

(* For any number of items and of processes that index them: the vectors   *)
(* of an installed index are those of the graph that it names, and there   *)
(* has been such a graph, although nothing is locked while items and       *)
(* digest are listed (prepare_ and apply_work_semantic_index).             *)
THEOREM VectorsOfOneGraph == SemanticSpec => []VectorsAreOfOneGraph
<1>1. SemanticInv => VectorsAreOfOneGraph
  BY DEF SemanticInv
<1> QED BY <1>1, VectorsBegin, VectorsFollow, PTL DEF SemanticSpec

-----------------------------------------------------------------------------
(* Durable memory.                                                         *)

(* The revision that a decision leads to, and the record it leads to       *)
RevisionOf(d) == IF d.kind = "review" THEN d.revision ELSE d.revision + 1

Lifecycle(kind) ==
    CASE kind = "review" -> "current" [] kind = "supersede" -> "superseded"
      [] kind = "revoke" -> "archived"

Made(d) == [revision |-> RevisionOf(d), content |-> d.content, lifecycle |-> Lifecycle(d.kind)]

MemoryRecords ==
    [revision: Nat, content: Contents \cup {"none"},
     lifecycle: {"absent", "current", "superseded", "archived"}]

IsDecision(d) ==
    /\ d.kind \in {"review", "supersede", "revoke"}
    /\ d.memory \in Memories /\ d.revision \in Nat /\ d.content \in Contents

MemoryTypes ==
    /\ memory \in [Memories -> MemoryRecords]
    /\ DOMAIN pending = Presenters
    /\ writes \in Seq(decisions)
    /\ \A d \in decisions : IsDecision(d)

(* What is about to be put is what a decision leads to, ...                *)
Grounded(p) ==
    p # NothingPending =>
      /\ p.decision \in decisions
      /\ p.decision.kind = "review" => Persistable(p.decision)
      /\ p.new = Made(p.decision)

(* ... and what was put makes up the revisions of a memory one by one.     *)
WritesAreInOrder ==
    /\ \A i \in DOMAIN writes :
         /\ RevisionOf(writes[i]) <= memory[writes[i].memory].revision
         /\ writes[i].kind = "review" => Persistable(writes[i])
    /\ \A i, j \in DOMAIN writes :
         i < j /\ writes[i].memory = writes[j].memory =>
           RevisionOf(writes[i]) < RevisionOf(writes[j])

RevisionsAreWritten ==
    /\ \A m \in Memories : \A r \in 1 .. memory[m].revision :
         \E i \in DOMAIN writes : writes[i].memory = m /\ RevisionOf(writes[i]) = r
    /\ \A m \in Memories : memory[m].revision = 0 => memory[m].lifecycle = "absent"
    /\ \A i \in DOMAIN writes :
         LET m == writes[i].memory IN
         RevisionOf(writes[i]) = memory[m].revision => memory[m] = Made(writes[i])

(* A report suggests to supersede a memory only for one before it that has *)
(* had the meaning.                                                        *)
HasBefore(d) ==
    \E i \in DOMAIN writes :
      writes[i].memory < d.memory /\ Meaning[writes[i].content] = Meaning[d.content]

ReportsSpareOne ==
    \A d \in decisions : d.kind = "supersede" /\ "replacement" \in DOMAIN d => HasBefore(d)

MemoryInv ==
    /\ MemoryTypes
    /\ \A c \in Presenters : Grounded(pending[c])
    /\ WritesAreInOrder
    /\ RevisionsAreWritten
    /\ ReportsSpareOne

-----------------------------------------------------------------------------
LEMMA MemoryStarts == MemoryInit => MemoryInv
  <1> SUFFICES ASSUME MemoryInit PROVE MemoryInv
    OBVIOUS
  <1>1. writes = <<>> /\ decisions = {} /\ DOMAIN writes = {}
    BY DEF MemoryInit
  <1>2. NotStored \in MemoryRecords
    BY DEF NotStored, MemoryRecords
  <1>3. MemoryTypes
    BY <1>1, <1>2 DEF MemoryInit, MemoryTypes
  <1>4. \A c \in Presenters : Grounded(pending[c])
    BY DEF MemoryInit, Grounded
  <1>5. WritesAreInOrder /\ ReportsSpareOne
    BY <1>1 DEF WritesAreInOrder, ReportsSpareOne
  <1>6. RevisionsAreWritten
    BY <1>1 DEF RevisionsAreWritten, MemoryInit, NotStored
  <1>7. QED
    BY <1>3, <1>4, <1>5, <1>6 DEF MemoryInv

LEMMA DocumentsAreDecisions ==
    ASSUME NEW d \in Documents
    PROVE  IsDecision(d) /\ "replacement" \notin DOMAIN d
  <1>1. CASE d \in Reviews
    BY <1>1, DocumentsAssumption DEF Reviews, IsDecision
  <1>2. CASE d \in Actions
    BY <1>2, DocumentsAssumption DEF Actions, IsDecision
  <1>3. QED
    BY <1>1, <1>2, DocumentsAssumption

(* A decision more changes nothing of what was put.                        *)
LEMMA DecisionIsAdded ==
    ASSUME MemoryInv, NEW d, Decide(d), IsDecision(d),
           d.kind = "supersede" /\ "replacement" \in DOMAIN d => HasBefore(d)
    PROVE  MemoryInv'
  <1>1. decisions' = decisions \cup {d} /\ UNCHANGED <<memory, pending, writes>>
    BY DEF Decide
  <1>2. writes \in Seq(decisions')
    <2>1. writes \in Seq(decisions)
      BY DEF MemoryInv, MemoryTypes
    <2>2. writes \in [1 .. Len(writes) -> decisions] /\ Len(writes) \in Nat
      BY <2>1
    <2>3. writes \in [1 .. Len(writes) -> decisions']
      BY <2>2, <1>1
    <2>4. QED
      BY <2>2, <2>3 DEF Seq
  <1>3. MemoryTypes'
    BY <1>1, <1>2 DEF MemoryInv, MemoryTypes
  <1>4. \A c \in Presenters : Grounded(pending[c])'
    BY <1>1 DEF MemoryInv, Grounded
  <1>5. WritesAreInOrder' /\ RevisionsAreWritten'
    BY <1>1 DEF MemoryInv, WritesAreInOrder, RevisionsAreWritten
  <1>6. ReportsSpareOne'
    BY <1>1 DEF MemoryInv, ReportsSpareOne, HasBefore
  <1>7. QED
    BY <1>3, <1>4, <1>5, <1>6 DEF MemoryInv

(* A plan more, or one less, neither.                                      *)
LEMMA PlansChange ==
    ASSUME MemoryInv, UNCHANGED <<memory, decisions, writes>>, NEW c \in Presenters, NEW p,
           pending' = [pending EXCEPT ![c] = p], Grounded(p)
    PROVE  MemoryInv'
  <1>1. MemoryTypes'
    BY DEF MemoryInv, MemoryTypes
  <1>2. \A b \in Presenters : Grounded(pending[b])'
    BY DEF MemoryInv, MemoryTypes, Grounded
  <1>3. WritesAreInOrder' /\ RevisionsAreWritten' /\ ReportsSpareOne'
    BY DEF MemoryInv, WritesAreInOrder, RevisionsAreWritten, ReportsSpareOne, HasBefore
  <1>4. QED
    BY <1>1, <1>2, <1>3 DEF MemoryInv

LEMMA RecordChanges ==
    ASSUME NEW old \in MemoryRecords, NEW lifecycle
    PROVE  [old EXCEPT !.revision = @ + 1, !.lifecycle = lifecycle]
             = [revision |-> old.revision + 1, content |-> old.content, lifecycle |-> lifecycle]
  <1> DEFINE Fields == {"revision", "content", "lifecycle"}
             x == [old EXCEPT !.revision = @ + 1, !.lifecycle = lifecycle]
             y == [revision |-> old.revision + 1, content |-> old.content, lifecycle |-> lifecycle]
  <1>1. DOMAIN old = Fields
    BY DEF MemoryRecords
  <1>2. x = [f \in Fields |-> x[f]]
    BY <1>1
  <1>3. y = [f \in Fields |-> y[f]]
    OBVIOUS
  <1>4. x.revision = y.revision /\ x.content = y.content /\ x.lifecycle = y.lifecycle
    BY <1>1
  <1> HIDE DEF x, y
  <1>5. \A f \in Fields : x[f] = y[f]
    BY <1>4
  <1>6. x = y
    BY <1>2, <1>3, <1>5, Zenon
  <1>7. QED
    BY <1>6 DEF x, y

LEMMA PreparationKeeps ==
    ASSUME MemoryInv, NEW c \in Presenters, NEW d \in decisions,
           PreparePersistence(c, d) \/ PrepareLifecycle(c, d)
    PROVE  MemoryInv'
  <1>0. IsDecision(d) /\ memory[d.memory] \in MemoryRecords
    BY DEF MemoryInv, MemoryTypes, IsDecision
  <1>1. CASE PreparePersistence(c, d)
    <2> DEFINE p == [decision |-> d,
                     new |-> [revision |-> d.revision, content |-> d.content,
                              lifecycle |-> "current"]]
    <2>1. Grounded(p)
      BY <1>1 DEF PreparePersistence, Grounded, Made, RevisionOf, Lifecycle
    <2>2. pending' = [pending EXCEPT ![c] = p] /\ UNCHANGED <<memory, decisions, writes>>
      BY <1>1 DEF PreparePersistence
    <2> HIDE DEF p
    <2>3. QED
      BY <2>1, <2>2, PlansChange
  <1>2. CASE PrepareLifecycle(c, d)
    <2> DEFINE old == memory[d.memory]
               new == [old EXCEPT !.revision = @ + 1,
                                  !.lifecycle = IF d.kind = "supersede"
                                                THEN "superseded" ELSE "archived"]
               p   == [decision |-> d, new |-> new]
    <2>1. /\ d.kind \in {"supersede", "revoke"} /\ old.revision = d.revision
          /\ old.content = d.content
      BY <1>2 DEF PrepareLifecycle
    <2>2. new = Made(d)
      <3>2. new = [revision |-> d.revision + 1, content |-> d.content,
                   lifecycle |-> IF d.kind = "supersede" THEN "superseded" ELSE "archived"]
        <4>1. new = [revision |-> old.revision + 1, content |-> old.content,
                     lifecycle |-> IF d.kind = "supersede" THEN "superseded" ELSE "archived"]
          BY <1>0, RecordChanges
        <4>2. QED
          BY <4>1, <2>1
      <3>3. Lifecycle(d.kind) = IF d.kind = "supersede" THEN "superseded" ELSE "archived"
        BY <2>1 DEF Lifecycle
      <3>4. RevisionOf(d) = d.revision + 1
        BY <2>1 DEF RevisionOf
      <3>5. QED
        BY <3>2, <3>3, <3>4 DEF Made
    <2>3. pending' = [pending EXCEPT ![c] = p] /\ UNCHANGED <<memory, decisions, writes>>
      BY <1>2 DEF PrepareLifecycle
    <2> HIDE DEF new
    <2>4. Grounded(p)
      BY <2>1, <2>2 DEF Grounded
    <2> HIDE DEF p
    <2>5. QED
      BY <2>3, <2>4, PlansChange
  <1>3. QED
    BY <1>1, <1>2

(* A put appends the decision, which leads to the next revision.           *)
LEMMA PutKeeps ==
    ASSUME MemoryInv, NEW c \in Presenters, Put(c)
    PROVE  MemoryInv'
  <1> DEFINE d == pending[c].decision
             m == d.memory
             n == Len(writes)
  <1>1. /\ d \in decisions /\ IsDecision(d) /\ m \in Memories
        /\ d.kind = "review" => Persistable(d)
        /\ pending[c].new = Made(d)
    BY DEF MemoryInv, MemoryTypes, Grounded, Put, IsDecision
  <1>2. memory[m] \in MemoryRecords /\ RevisionOf(d) \in Nat
    BY <1>1 DEF MemoryInv, MemoryTypes, IsDecision, RevisionOf
  <1>3. /\ memory' = [memory EXCEPT ![m] = Made(d)]
        /\ writes' = Append(writes, d)
        /\ pending' = [pending EXCEPT ![c] = NothingPending]
        /\ decisions' = decisions
    <2>1. writes \in Seq(decisions)
      BY DEF MemoryInv, MemoryTypes
    <2>2. writes \o <<d>> = Append(writes, d)
      BY <2>1, <1>1
    <2>3. QED
      BY <2>2, <1>1 DEF Put
  <1>4. RevisionOf(d) = memory[m].revision + 1
    BY <1>1, <1>2 DEF Put, PlanCurrent, Made, MemoryRecords
  <1>5. Made(d) \in MemoryRecords /\ Made(d).revision = RevisionOf(d)
    BY <1>1, <1>2 DEF Made, MemoryRecords, Lifecycle, IsDecision
  <1>6. /\ writes \in Seq(decisions) /\ n \in Nat
        /\ DOMAIN writes = 1 .. n /\ DOMAIN writes' = 1 .. n + 1
        /\ \A i \in 1 .. n : writes'[i] = writes[i] /\ writes[i] \in decisions
        /\ writes'[n + 1] = d /\ writes' \in Seq(decisions)
    BY <1>1, <1>3 DEF MemoryInv, MemoryTypes
  <1>7. \A k \in Memories : /\ memory[k] \in MemoryRecords
                            /\ memory'[k] = IF k = m THEN Made(d) ELSE memory[k]
    BY <1>3 DEF MemoryInv, MemoryTypes
  <1>8. \A i \in 1 .. n : /\ IsDecision(writes[i]) /\ writes[i].memory \in Memories
                          /\ RevisionOf(writes[i]) \in Nat
    BY <1>6 DEF MemoryInv, MemoryTypes, IsDecision, RevisionOf
  <1> HIDE DEF d
  <1>9. MemoryTypes'
    BY <1>1, <1>3, <1>5, <1>6 DEF MemoryInv, MemoryTypes
  <1>10. \A b \in Presenters : Grounded(pending[b])'
    BY <1>3 DEF MemoryInv, MemoryTypes, Grounded
  <1>11. \A k \in Memories : memory[k].revision \in Nat
    BY <1>7 DEF MemoryRecords
  <1>12. WritesAreInOrder'
    <2>1. ASSUME NEW i \in 1 .. n + 1
          PROVE  /\ RevisionOf(writes'[i]) <= memory'[writes'[i].memory].revision
                 /\ writes'[i].kind = "review" => Persistable(writes'[i])
      <3>1. CASE i = n + 1
        BY <3>1, <1>1, <1>2, <1>5, <1>6, <1>7
      <3>2. CASE i \in 1 .. n
        BY <3>2, <1>2, <1>4, <1>5, <1>6, <1>7, <1>8, <1>11 DEF MemoryInv, WritesAreInOrder
      <3>3. QED
        BY <3>1, <3>2, <1>6
    <2>2. ASSUME NEW i \in 1 .. n + 1, NEW j \in 1 .. n + 1, i < j,
                 writes'[i].memory = writes'[j].memory
          PROVE  RevisionOf(writes'[i]) < RevisionOf(writes'[j])
      <3>1. i \in 1 .. n
        BY <2>2, <1>6
      <3>2. CASE j = n + 1
        <4>1. RevisionOf(writes[i]) <= memory[writes[i].memory].revision
          BY <3>1, <1>6 DEF MemoryInv, WritesAreInOrder
        <4>2. QED
          BY <4>1, <3>1, <3>2, <2>2, <1>1, <1>4, <1>6, <1>8, <1>11
      <3>3. CASE j \in 1 .. n
        BY <3>1, <3>3, <2>2, <1>6 DEF MemoryInv, WritesAreInOrder
      <3>4. QED
        BY <3>2, <3>3, <1>6
    <2>3. QED
      BY <2>1, <2>2, <1>6 DEF WritesAreInOrder
  <1>13. RevisionsAreWritten'
    <2>1. ASSUME NEW k \in Memories, NEW r \in 1 .. memory'[k].revision
          PROVE  \E i \in DOMAIN writes' : writes'[i].memory = k /\ RevisionOf(writes'[i]) = r
      <3>1. CASE k = m /\ r = RevisionOf(d)
        BY <3>1, <1>6
      <3>2. CASE ~(k = m /\ r = RevisionOf(d))
        <4>1. r \in 1 .. memory[k].revision
          BY <3>2, <2>1, <1>4, <1>5, <1>7, <1>11
        <4>2. PICK i \in DOMAIN writes : writes[i].memory = k /\ RevisionOf(writes[i]) = r
          BY <4>1 DEF MemoryInv, RevisionsAreWritten
        <4>3. QED
          BY <4>2, <1>6
      <3>3. QED
        BY <3>1, <3>2
    <2>2. ASSUME NEW k \in Memories, memory'[k].revision = 0
          PROVE  memory'[k].lifecycle = "absent"
      BY <2>2, <1>4, <1>5, <1>7, <1>11, <1>1 DEF MemoryInv, RevisionsAreWritten
    <2>3. ASSUME NEW i \in DOMAIN writes',
                 RevisionOf(writes'[i]) = memory'[writes'[i].memory].revision
          PROVE  memory'[writes'[i].memory] = Made(writes'[i])
      <3>1. CASE i = n + 1
        BY <3>1, <1>1, <1>6, <1>7
      <3>2. CASE i \in 1 .. n
        <4>1. RevisionOf(writes[i]) <= memory[writes[i].memory].revision
          BY <3>2, <1>6 DEF MemoryInv, WritesAreInOrder
        <4>2. writes[i].memory # m
          BY <4>1, <3>2, <2>3, <1>1, <1>4, <1>5, <1>6, <1>7, <1>8, <1>11
        <4>3. QED
          BY <4>2, <3>2, <2>3, <1>6, <1>7, <1>8 DEF MemoryInv, RevisionsAreWritten
      <3>3. QED
        BY <3>1, <3>2, <1>6
    <2>4. QED
      BY <2>1, <2>2, <2>3 DEF RevisionsAreWritten
  <1>14. ReportsSpareOne'
    <2>1. ASSUME NEW e \in decisions, HasBefore(e) PROVE HasBefore(e)'
      <3>1. PICK i \in DOMAIN writes :
              writes[i].memory < e.memory /\ Meaning[writes[i].content] = Meaning[e.content]
        BY <2>1 DEF HasBefore
      <3>2. i \in DOMAIN writes' /\ writes'[i] = writes[i]
        BY <1>6
      <3>3. QED
        BY <3>1, <3>2 DEF HasBefore
    <2>2. QED
      BY <2>1, <1>3 DEF MemoryInv, ReportsSpareOne
  <1>15. QED
    BY <1>9, <1>10, <1>12, <1>13, <1>14 DEF MemoryInv

-----------------------------------------------------------------------------
(* A set of numbers has a smallest one.                                    *)
LEMMA SmallestIs ==
    ASSUME NEW S, S \subseteq Nat, S # {}
    PROVE  \E p \in S : \A q \in S : p <= q
  <1> DEFINE R == {ss \in Nat \X Nat : ss[1] < ss[2]}
  <1>1. IsWellFoundedOn(R, Nat)
    BY NatLessThanWellFounded, Zenon DEF OpToRel
  <1> HIDE DEF R
  <1>2. PICK p \in S : \A q \in S : <<q, p>> \notin R
    BY <1>1, WFMin
  <1>3. ASSUME NEW q \in S PROVE p <= q
    <2>1. <<q, p>> \in Nat \X Nat /\ <<q, p>>[1] = q /\ <<q, p>>[2] = p
      OBVIOUS
    <2>2. ~ (q < p)
      BY <1>2, <1>3, <2>1 DEF R
    <2>3. QED
      BY <2>2
  <1>4. QED
    BY <1>3

(* The record that an overlay is about was written.                        *)
LEMMA RecordsWereWritten ==
    ASSUME MemoryInv, NEW m \in Memories, NEW r \in 1 .. memory[m].revision
    PROVE  /\ \E i \in DOMAIN writes : /\ writes[i].memory = m
                                      /\ writes[i].content = RecordOf(m, r).content
           /\ RecordOf(m, r).revision = r
  <1> DEFINE P(i) == /\ writes[i].memory = m
                     /\ writes[i].revision = IF writes[i].kind = "review" THEN r ELSE r - 1
             j == CHOOSE i \in DOMAIN writes : P(i)
  <1>1. PICK i \in DOMAIN writes : writes[i].memory = m /\ RevisionOf(writes[i]) = r
    BY DEF MemoryInv, RevisionsAreWritten
  <1>2. writes[i].revision \in Nat
    BY DEF MemoryInv, MemoryTypes, IsDecision
  <1>3. P(i)
    BY <1>1, <1>2 DEF RevisionOf
  <1>4. j \in DOMAIN writes /\ P(j)
    BY <1>3, Zenon
  <1>5. RecordOf(m, r).content = writes[j].content /\ RecordOf(m, r).revision = r
    BY DEF RecordOf
  <1> HIDE DEF j
  <1>6. QED
    BY <1>4, <1>5

(* What the overlays are, part by part                                     *)
There == {m \in Memories : memory[m].revision > 0}
RevisionsOf(S) == {r \in [S -> 1 .. MaxMemoryRevision] : \A m \in S : r[m] <= memory[m].revision}
Overlay(S, r, a) == [m \in S |-> [record |-> RecordOf(m, r[m]), age |-> a[m]]]
OverlaysOf(S) == {Overlay(S, r, a) : r \in RevisionsOf(S), a \in [S -> Ages]}

LEMMA OverlaysAre == Overlays = UNION {OverlaysOf(S) : S \in SUBSET There}
  BY SMT DEF Overlays, OverlaysOf, Overlay, RevisionsOf, There

(* A suggestion is a sound decision, and supersedes only what a smaller    *)
(* memory of the same meaning stood for.                                   *)
LEMMA SuggestionsAreDecisions ==
    ASSUME MemoryInv, NEW o \in Overlays, NEW now, NEW d \in Suggestions(o, now)
    PROVE  IsDecision(d) /\ (d.kind = "supersede" => HasBefore(d))
  <1>1. PICK m \in DOMAIN o : d = Suggestion(o, m)
    <2>1. \A x : CurrentOf(o, x) \subseteq DOMAIN o
      BY DEF CurrentOf, Group
    <2>2. Duplicates(o) \subseteq DOMAIN o
      BY <2>1 DEF Duplicates
    <2> DEFINE Old == {m \in DOMAIN o : Stale(o[m], now) \/ DueForReview(o[m], now)}
    <2>3. PICK m \in Duplicates(o) \cup Old : d = Suggestion(o, m)
      BY Zenon DEF Suggestions
    <2>4. Old \subseteq DOMAIN o
      OBVIOUS
    <2> HIDE DEF Old
    <2>5. QED
      BY <2>2, <2>3, <2>4
  <1>2. PICK S \in SUBSET There : o \in OverlaysOf(S)
    BY OverlaysAre
  <1>3. PICK revision \in RevisionsOf(S), age \in [S -> Ages] : o = Overlay(S, revision, age)
    BY <1>2 DEF OverlaysOf
  <1>4. \A k \in DOMAIN o : /\ k \in Memories /\ o[k].record = RecordOf(k, revision[k])
                            /\ revision[k] \in 1 .. memory[k].revision
    BY <1>3 DEF There, RevisionsOf, Overlay, MemoryInv, MemoryTypes, MemoryRecords
  <1>5. \A k \in DOMAIN o : /\ \E i \in DOMAIN writes : /\ writes[i].memory = k
                                                       /\ writes[i].content = o[k].record.content
                            /\ o[k].record.revision \in Nat
    BY <1>4, RecordsWereWritten
  <1>6. /\ d.memory = m /\ d.revision = o[m].record.revision /\ d.content = o[m].record.content
        /\ d.kind = IF m \in Duplicates(o) THEN "supersede" ELSE "revoke"
    BY <1>1 DEF Suggestion
  <1>7. IsDecision(d)
    <2>1. PICK i \in DOMAIN writes : writes[i].content = o[m].record.content
      BY <1>5
    <2>2. IsDecision(writes[i])
      BY DEF MemoryInv, MemoryTypes
    <2>3. QED
      BY <2>1, <2>2, <1>4, <1>5, <1>6 DEF IsDecision
  <1>8. ASSUME m \in Duplicates(o) PROVE HasBefore(d)
    <2>1. PICK x : m \in CurrentOf(o, x) \ {Canonical(o, x)}
      BY <1>8 DEF Duplicates
    <2>2. \A k \in CurrentOf(o, x) : k \in DOMAIN o /\ Meaning[o[k].record.content] = x
      BY DEF CurrentOf, Group, Meant
    <2> DEFINE first == Canonical(o, x)
    <2>3. first \in CurrentOf(o, x) /\ first <= m
      <3>1. CurrentOf(o, x) \subseteq Nat /\ CurrentOf(o, x) # {}
        BY <2>1, <2>2, <1>4, MemoriesAssumption
      <3>2. \E n \in CurrentOf(o, x) : \A k \in CurrentOf(o, x) : n <= k
        BY <3>1, SmallestIs
      <3>3. QED
        BY <3>2, <2>1 DEF Canonical, Min
    <2>4. first # m
      BY <2>1
    <2> HIDE DEF first
    <2>5. first \in DOMAIN o /\ m \in Nat /\ first \in Nat /\ first < m
      <3>1. first \in DOMAIN o /\ first \in Memories /\ m \in Memories
        BY <2>2, <2>3, <1>4, Zenon
      <3>2. first \in Nat /\ m \in Nat
        BY <3>1, MemoriesAssumption
      <3>3. QED
        BY <3>1, <3>2, <2>3, <2>4
    <2>6. PICK i \in DOMAIN writes :
            writes[i].memory = first /\ writes[i].content = o[first].record.content
      BY <2>5, <1>5
    <2>7. QED
      BY <2>1, <2>2, <2>3, <2>5, <2>6, <1>6 DEF HasBefore
  <1>9. QED
    BY <1>6, <1>7, <1>8

LEMMA MemoryKeeps == MemoryInv /\ [HygieneNext]_memoryVars => MemoryInv'
  <1> SUFFICES ASSUME MemoryInv, [HygieneNext]_memoryVars PROVE MemoryInv'
    OBVIOUS
  <1>1. ASSUME NEW d \in Documents, Decide(d) PROVE MemoryInv'
    BY <1>1, DocumentsAreDecisions, DecisionIsAdded
  <1>2. ASSUME NEW c \in Presenters, NEW d \in decisions,
               PreparePersistence(c, d) \/ PrepareLifecycle(c, d)
        PROVE  MemoryInv'
    BY <1>2, PreparationKeeps
  <1>3. ASSUME NEW c \in Presenters, DropPut(c) PROVE MemoryInv'
    <2>1. Grounded(NothingPending)
      BY DEF Grounded
    <2>2. pending' = [pending EXCEPT ![c] = NothingPending] /\ UNCHANGED <<memory, decisions, writes>>
      BY <1>3 DEF DropPut
    <2>3. QED
      BY <2>1, <2>2, PlansChange
  <1>4. ASSUME Follow PROVE MemoryInv'
    <2>1. PICK o \in Overlays, now \in Times : \E d \in Suggestions(o, now) : Decide(d)
      BY <1>4 DEF Follow
    <2>2. PICK d \in Suggestions(o, now) : Decide(d)
      BY <2>1
    <2>3. QED
      BY <2>2, SuggestionsAreDecisions, DecisionIsAdded
  <1>5. CASE UNCHANGED memoryVars
    BY <1>5 DEF memoryVars, MemoryInv, MemoryTypes, Grounded, WritesAreInOrder, RevisionsAreWritten,
                ReportsSpareOne, HasBefore
  <1>6. QED
    BY <1>1, <1>2, <1>3, <1>4, <1>5, PutKeeps DEF HygieneNext, MemoryNext

THEOREM MemoryInvariant == HygieneSpec => []MemoryInv
  BY MemoryStarts, MemoryKeeps, PTL DEF HygieneSpec

LEMMA DecisionsAreRestedOn == MemoryInv => MemoryRestsOnDecisions
  <1> SUFFICES ASSUME MemoryInv PROVE MemoryRestsOnDecisions
    OBVIOUS
  <1>1. \A i \in DOMAIN writes : /\ i \in Nat /\ writes[i] \in decisions
                                 /\ RevisionOf(writes[i]) \in Nat
    BY DEF MemoryInv, MemoryTypes, IsDecision, RevisionOf
  <1>2. ASSUME NEW i \in DOMAIN writes, NEW j \in DOMAIN writes, writes[i] = writes[j] PROVE i = j
    BY <1>1, <1>2 DEF MemoryInv, WritesAreInOrder
  <1>3. ASSUME NEW m \in Memories, memory[m].lifecycle = "current"
        PROVE  \E d \in decisions :
                 /\ d.kind = "review" /\ d.memory = m
                 /\ d.revision = memory[m].revision /\ d.content = memory[m].content
                 /\ d.outcome = "approved"
                 /\ d.conflicts = d.acknowledged /\ "policy" \notin d.conflicts
    <2>1. memory[m].revision \in Nat /\ memory[m].revision # 0
      BY <1>3 DEF MemoryInv, MemoryTypes, MemoryRecords, RevisionsAreWritten
    <2>2. PICK i \in DOMAIN writes :
            writes[i].memory = m /\ RevisionOf(writes[i]) = memory[m].revision
      BY <2>1 DEF MemoryInv, RevisionsAreWritten
    <2>3. memory[m] = Made(writes[i])
      BY <2>2 DEF MemoryInv, RevisionsAreWritten
    <2>4. writes[i].kind = "review" /\ memory[m].content = writes[i].content
      BY <2>3, <1>3, <1>1 DEF Made, Lifecycle, MemoryInv, MemoryTypes, IsDecision
    <2>5. Persistable(writes[i])
      BY <2>4 DEF MemoryInv, WritesAreInOrder
    <2>6. QED
      BY <2>2, <2>4, <2>5, <1>1 DEF Persistable, RevisionOf
  <1>4. QED
    BY <1>2, <1>3 DEF MemoryRestsOnDecisions

(* The smallest memory that had a meaning is not superseded by a report.   *)
LEMMA ACopyStays == MemoryInv => LastCopyStays
  <1> SUFFICES ASSUME MemoryInv, NEW meaning, Stored(meaning) # {}, ~GivenUp(meaning)
               PROVE  \E m \in Memories :
                        memory[m].lifecycle = "current" /\ Meaning[memory[m].content] = meaning
    BY DEF LastCopyStays
  <1>1. \A i \in DOMAIN writes : /\ i \in Nat /\ writes[i] \in decisions /\ IsDecision(writes[i])
                                 /\ RevisionOf(writes[i]) \in Nat
                                 /\ writes[i].memory \in Memories /\ writes[i].memory \in Nat
    <2>1. \A i \in DOMAIN writes : i \in Nat /\ writes[i] \in decisions /\ IsDecision(writes[i])
      BY DEF MemoryInv, MemoryTypes
    <2>2. ASSUME NEW i \in DOMAIN writes PROVE RevisionOf(writes[i]) \in Nat
      BY <2>1 DEF IsDecision, RevisionOf
    <2>3. ASSUME NEW i \in DOMAIN writes PROVE writes[i].memory \in Memories
      BY <2>1 DEF IsDecision
    <2>4. QED
      BY <2>1, <2>2, <2>3, MemoriesAssumption
  <1> DEFINE S == {writes[i].memory : i \in Stored(meaning)}
  <1>2. PICK m \in S : \A k \in S : m <= k
    <2>1. S \subseteq Nat /\ S # {}
      BY <1>1 DEF Stored
    <2>2. QED
      BY <2>1, SmallestIs
  <1>3. PICK i \in Stored(meaning) : writes[i].memory = m
    BY <1>2
  <1>4. i \in DOMAIN writes /\ m \in Memories /\ memory[m].revision \in Nat
    BY <1>1, <1>3 DEF Stored, MemoryInv, MemoryTypes, MemoryRecords
  <1>5. RevisionOf(writes[i]) <= memory[m].revision
    BY <1>3, <1>4 DEF MemoryInv, WritesAreInOrder
  <1>6. memory[m].revision # 0
    <2>1. memory[m].revision = 0 => memory[m] = Made(writes[i])
      BY <1>3, <1>4, <1>5, <1>1 DEF MemoryInv, RevisionsAreWritten
    <2>2. Made(writes[i]).lifecycle # "absent"
      BY <1>1, <1>4 DEF Made, Lifecycle, IsDecision
    <2>3. QED
      BY <2>1, <2>2, <1>1, <1>4, <1>5 DEF MemoryInv, RevisionsAreWritten
  <1>7. PICK l \in DOMAIN writes :
          writes[l].memory = m /\ RevisionOf(writes[l]) = memory[m].revision
    BY <1>4, <1>6 DEF MemoryInv, RevisionsAreWritten
  <1>8. memory[m] = Made(writes[l])
    BY <1>7 DEF MemoryInv, RevisionsAreWritten
  <1>9. ~(l < i)
    BY <1>1, <1>3, <1>4, <1>5, <1>7 DEF MemoryInv, WritesAreInOrder
  <1>10. l \in Stored(meaning)
    <2>1. l = i \/ i < l
      BY <1>1, <1>4, <1>9
    <2>2. QED
      BY <2>1, <1>3, <1>7 DEF GivenUp
  <1>11. writes[l].kind = "review"
    <2>1. writes[l].kind # "revoke"
      BY <1>10 DEF GivenUp
    <2>2. ASSUME writes[l].kind = "supersede" PROVE FALSE
      <3>1. "replacement" \in DOMAIN writes[l]
        BY <2>2, <1>10 DEF GivenUp
      <3>2. HasBefore(writes[l])
        BY <3>1, <2>2, <1>1 DEF MemoryInv, ReportsSpareOne
      <3>3. PICK k \in DOMAIN writes : /\ writes[k].memory < m
                                      /\ Meaning[writes[k].content] = meaning
        BY <3>2, <1>7, <1>10 DEF HasBefore, Stored
      <3>4. k \in Stored(meaning)
        BY <3>3 DEF Stored
      <3>5. writes[k].memory \in S /\ writes[k].memory \in Nat /\ m \in Nat
        BY <3>4, <1>1, <1>4, MemoriesAssumption DEF Stored
      <3>6. QED
        BY <3>3, <3>5, <1>2
    <2>3. QED
      BY <2>1, <2>2, <1>1 DEF IsDecision
  <1>12. QED
    BY <1>4, <1>8, <1>10, <1>11 DEF Made, Lifecycle, Stored

(* Each decision takes effect once, what is current was approved, and a    *)
(* meaning is not lost by superseding its duplicates.                      *)
THEOREM MemoriesStay == HygieneSpec => []MemoriesAreKept
  <1>1. MemoryInv => MemoriesAreKept
    BY DecisionsAreRestedOn, ACopyStays DEF MemoriesAreKept
  <1>2. QED
    BY <1>1, MemoryInvariant, PTL

-----------------------------------------------------------------------------
(* The import of a batch.                                                  *)

Size == Len(Batch)

ItemStates == [revision : Nat, by : Importers \cup {"others", "nobody"}]

ItemRecords == [Batched -> ItemStates]

Views == [{"projection", "index"} -> ItemRecords]

(* What an importer writes is there, or was replaced by others.            *)
Wrote(i, after) ==
    /\ item[i].revision >= after[i].revision
    /\ item[i].revision = after[i].revision => item[i].by \in Importers

(* The records before number n and the events before number m              *)
WroteBefore(n, after) ==
    /\ \A k \in 1 .. Size : k < n => Wrote(Batch[k], after)
    /\ \A k \in 1 .. Size : Size + k < n => after[Batch[k]].revision \in logged[Batch[k]]

IsKept(kept) ==
    /\ kept = [item |-> kept.item, logged |-> kept.logged, view |-> kept.view,
               manifest |-> kept.manifest]
    /\ kept.item \in ItemRecords
    /\ kept.logged = [i \in Batched |-> kept.logged[i]]
    /\ kept.view \in Views
    /\ kept.manifest = NoManifest

(* The targets from number n on but those left are as they were kept.      *)
RestoredFrom(n, kept, left) ==
    /\ \A k \in 1 .. Size :
         k >= n /\ k \notin left => item[Batch[k]] = kept.item[Batch[k]]
    /\ \A k \in 1 .. Size :
         Size + k >= n /\ Size + k \notin left => logged[Batch[k]] = kept.logged[Batch[k]]
    /\ 2 * Size + 1 >= n /\ 2 * Size + 1 \notin left =>
         view["projection"] = kept.view["projection"]
    /\ 2 * Size + 2 >= n /\ 2 * Size + 2 \notin left => view["index"] = kept.view["index"]
    /\ 2 * Size + 3 >= n /\ 2 * Size + 3 \notin left => manifest = kept.manifest

ImporterIs(p, x) ==
    /\ x.at \in {"planned", "writing"} => x.after \in [Batched -> [revision : Nat, by : {p}]]
    /\ x.at = "writing" =>
         /\ DOMAIN x = {"at", "next", "after", "seen", "kept"}
         /\ x.next \in 1 .. 2 * Size + 4
    /\ x.at = "restoring" =>
         /\ DOMAIN x = {"at", "next", "kept", "left"}
         /\ x.next \in 1 .. 2 * Size + 3
    /\ x.at \in {"writing", "restoring", "rolled-back"} => IsKept(x.kept)

(* An importer that writes has no manifest yet, unless everything is there;*)
(* one that restores removes the manifest first.                           *)
Advanced(x) ==
    /\ x.at = "writing" =>
         /\ WroteBefore(x.next, x.after)
         /\ x.next <= 2 * Size + 3 => manifest = NoManifest
    /\ x.at = "restoring" /\ x.next < 2 * Size + 3 => manifest = NoManifest

(* What nobody else touched since is what was kept, as far as it is        *)
(* restored.                                                               *)
PutBackSo(x) ==
    /\ x.at = "restoring" => RestoredFrom(x.next + 1, x.kept, x.left)
    /\ x.at = "rolled-back" => RestoredFrom(1, x.kept, x.left)

StoreIs ==
    /\ item \in ItemRecords
    /\ logged = [i \in Batched |-> logged[i]]
    /\ view \in Views
    /\ manifest \in [Batched -> Nat]
    /\ DOMAIN importer = Importers

(* Neither did two write at once nor was a manifest left by a rollback.    *)
Clear == ~overlapped /\ ~unremoved

ImportInv ==
    /\ StoreIs
    /\ \A p \in Importers : ImporterIs(p, importer[p])
    /\ Clear =>
         /\ \A p, q \in Importers : AtWork(p) /\ AtWork(q) => p = q
         /\ manifest # NoManifest => EffectsExist
         /\ \A p \in Importers : Advanced(importer[p])
    /\ \A p \in Importers \ disturbed : PutBackSo(importer[p])

-----------------------------------------------------------------------------
LEMMA BatchIs == Size \in Nat /\ DOMAIN Batch = 1 .. Size /\ \A k \in 1 .. Size : Batch[k] \in Batched
  BY BatchAssumption DEF Size, Batched

LEMMA BatchedIs == \A i \in Batched : \E k \in 1 .. Size : i = Batch[k]
  BY BatchIs DEF Batched

LEMMA ConcatIs ==
    ASSUME NEW S, NEW s \in Seq(S), NEW t \in Seq(S)
    PROVE  /\ s \o t \in Seq(S) /\ Len(s \o t) = Len(s) + Len(t)
           /\ \A k \in 1 .. Len(s) : (s \o t)[k] = s[k]
           /\ \A k \in 1 .. Len(t) : (s \o t)[Len(s) + k] = t[k]
  OBVIOUS

LEMMA TargetsAre ==
    /\ Len(Targets) = 2 * Size + 3
    /\ \A k \in 1 .. Size : Targets[k] = <<"item", Batch[k]>>
    /\ \A k \in 1 .. Size : Targets[Size + k] = <<"event", Batch[k]>>
    /\ Targets[2 * Size + 1] = <<"projection">>
    /\ Targets[2 * Size + 2] = <<"index">>
    /\ Targets[2 * Size + 3] = <<"manifest">>
  <1> DEFINE T == {"item", "event", "projection", "index", "manifest"} \X Batched
  <1> DEFINE S == {<<"item", b>> : b \in Batched} \cup {<<"event", b>> : b \in Batched}
                  \cup {<<"projection">>, <<"index">>, <<"manifest">>}
  <1> DEFINE A == [n \in 1 .. Size |-> <<"item", Batch[n]>>]
  <1> DEFINE B == [n \in 1 .. Size |-> <<"event", Batch[n]>>]
  <1> DEFINE C == << <<"projection">>, <<"index">>, <<"manifest">> >>
  <1>1. A \in Seq(S) /\ Len(A) = Size /\ B \in Seq(S) /\ Len(B) = Size
    BY BatchIs
  <1>2. C \in Seq(S) /\ Len(C) = 3
    OBVIOUS
  <1>3. Targets = A \o B \o C
    BY DEF Targets, Size
  <1>4. /\ \A k \in 1 .. Size : A[k] = <<"item", Batch[k]>> /\ B[k] = <<"event", Batch[k]>>
        /\ C[1] = <<"projection">> /\ C[2] = <<"index">> /\ C[3] = <<"manifest">>
    OBVIOUS
  <1> HIDE DEF A, B, C, S
  <1> DEFINE AB == A \o B
  <1>5. /\ AB \in Seq(S) /\ Len(AB) = Size + Size
        /\ \A k \in 1 .. Size : AB[k] = A[k]
        /\ \A k \in 1 .. Size : AB[Size + k] = B[k]
    <2>1. /\ A \o B \in Seq(S) /\ Len(A \o B) = Len(A) + Len(B)
          /\ \A k \in 1 .. Len(A) : (A \o B)[k] = A[k]
          /\ \A k \in 1 .. Len(B) : (A \o B)[Len(A) + k] = B[k]
      <3>1. A \in Seq(S) /\ B \in Seq(S)
        BY <1>1
      <3> QED
        BY <3>1, ConcatIs
    <2> QED
      BY <1>1, <2>1
  <1> HIDE DEF AB
  <1>6. /\ Len(AB \o C) = Size + Size + 3
        /\ \A k \in 1 .. Size + Size : (AB \o C)[k] = AB[k]
        /\ \A k \in 1 .. 3 : (AB \o C)[Size + Size + k] = C[k]
    <2>1. /\ Len(AB \o C) = Len(AB) + Len(C)
          /\ \A k \in 1 .. Len(AB) : (AB \o C)[k] = AB[k]
          /\ \A k \in 1 .. Len(C) : (AB \o C)[Len(AB) + k] = C[k]
      <3>1. AB \in Seq(S) /\ C \in Seq(S)
        BY <1>2, <1>5
      <3> QED
        BY <3>1, ConcatIs
    <2>2. Len(AB) = Size + Size /\ Len(C) = 3
      BY <1>2, <1>5
    <2> QED
      BY <2>1, <2>2
  <1>7. Targets = AB \o C
    BY <1>3 DEF AB
  <1> HIDE DEF Size
  <1>8. \A k \in 1 .. Size : Targets[k] = <<"item", Batch[k]>>
    <2>1. ASSUME NEW k \in 1 .. Size PROVE Targets[k] = AB[k] /\ AB[k] = A[k]
      <3>1. k \in 1 .. Size + Size
        BY BatchIs
      <3> QED
        BY <1>5, <1>6, <1>7, <3>1
    <2> QED
      BY <1>4, <2>1
  <1>9. ASSUME NEW k \in 1 .. Size PROVE Targets[Size + k] = <<"event", Batch[k]>>
    <2>1. Size + k \in 1 .. Size + Size
      BY BatchIs
    <2>2. Targets[Size + k] = AB[Size + k]
      BY <1>6, <1>7, <2>1
    <2> QED
      BY <1>4, <1>5, <2>2
  <1>10. 2 * Size = Size + Size
    BY BatchIs
  <1>11. Targets[2 * Size + 1] = C[1] /\ Targets[2 * Size + 2] = C[2] /\ Targets[2 * Size + 3] = C[3]
    <2>1. 1 \in 1 .. 3 /\ 2 \in 1 .. 3 /\ 3 \in 1 .. 3
      OBVIOUS
    <2> QED
      BY <1>6, <1>7, <1>10, <2>1
  <1> QED
    BY <1>4, <1>6, <1>7, <1>8, <1>9, <1>10, <1>11

(* What a number stands for                                                *)
LEMMA NumbersAre ==
    ASSUME NEW n \in 1 .. 2 * Size + 3
    PROVE  \/ \E k \in 1 .. Size : n = k /\ Targets[n] = <<"item", Batch[k]>>
           \/ \E k \in 1 .. Size : n = Size + k /\ Targets[n] = <<"event", Batch[k]>>
           \/ n = 2 * Size + 1 /\ Targets[n] = <<"projection">>
           \/ n = 2 * Size + 2 /\ Targets[n] = <<"index">>
           \/ n = 2 * Size + 3 /\ Targets[n] = <<"manifest">>
  <1>1. CASE n \in 1 .. Size
    BY <1>1, TargetsAre
  <1>2. CASE n \in Size + 1 .. 2 * Size
    <2>1. n - Size \in 1 .. Size /\ n = Size + (n - Size)
      BY <1>2, BatchIs
    <2> QED
      BY <2>1, TargetsAre
  <1>3. CASE n \in {2 * Size + 1, 2 * Size + 2, 2 * Size + 3}
    BY <1>3, TargetsAre
  <1> QED
    BY <1>1, <1>2, <1>3, BatchIs

(* The steps, target by target                                             *)
LEMMA WriteIs ==
    ASSUME NEW p, WriteNext(p), importer[p].next \in 1 .. 2 * Size + 4
    PROVE  LET n == importer[p].next
               after == importer[p].after
           IN  /\ n \in 1 .. 2 * Size + 3
               /\ \/ \E k \in 1 .. Size :
                       /\ n = k /\ item[Batch[k]].revision = after[Batch[k]].revision - 1
                       /\ item' = [item EXCEPT ![Batch[k]] = after[Batch[k]]]
                       /\ UNCHANGED <<logged, view, manifest>>
                  \/ \E k \in 1 .. Size :
                       /\ n = Size + k
                       /\ logged' = [logged EXCEPT ![Batch[k]] =
                                       @ \cup {after[Batch[k]].revision}]
                       /\ UNCHANGED <<item, view, manifest>>
                  \/ \E v \in {"projection", "index"} :
                       /\ n \in {2 * Size + 1, 2 * Size + 2}
                       /\ item = after /\ view' = [view EXCEPT ![v] = after]
                       /\ UNCHANGED <<item, logged, manifest>>
                  \/ /\ n = 2 * Size + 3
                     /\ manifest' = [i \in Batched |-> after[i].revision]
                     /\ UNCHANGED <<item, logged, view>>
  <1> DEFINE n == importer[p].next
  <1>1. n \in 1 .. 2 * Size + 3
    BY TargetsAre, BatchIs DEF WriteNext
  <1>2. CASE \E k \in 1 .. Size : n = k /\ Targets[n] = <<"item", Batch[k]>>
    BY <1>1, <1>2 DEF WriteNext
  <1>3. CASE \E k \in 1 .. Size : n = Size + k /\ Targets[n] = <<"event", Batch[k]>>
    BY <1>1, <1>3 DEF WriteNext
  <1>4. CASE n = 2 * Size + 1 /\ Targets[n] = <<"projection">>
    BY <1>1, <1>4 DEF WriteNext
  <1>5. CASE n = 2 * Size + 2 /\ Targets[n] = <<"index">>
    BY <1>1, <1>5 DEF WriteNext
  <1>6. CASE n = 2 * Size + 3 /\ Targets[n] = <<"manifest">>
    BY <1>1, <1>6 DEF WriteNext
  <1> QED
    BY <1>1, <1>2, <1>3, <1>4, <1>5, <1>6, NumbersAre

LEMMA RestoreIs ==
    ASSUME NEW n \in 1 .. 2 * Size + 3, NEW kept, RestoreTarget(Targets[n], kept),
           DOMAIN view = {"projection", "index"}
    PROVE  \/ \E k \in 1 .. Size :
                /\ n = k /\ item' = [item EXCEPT ![Batch[k]] = kept.item[Batch[k]]]
                /\ UNCHANGED <<logged, view, manifest>>
           \/ \E k \in 1 .. Size :
                /\ n = Size + k /\ logged' = [logged EXCEPT ![Batch[k]] = kept.logged[Batch[k]]]
                /\ UNCHANGED <<item, view, manifest>>
           \/ /\ n = 2 * Size + 1 /\ view' = [view EXCEPT !["projection"] = kept.view["projection"]]
              /\ UNCHANGED <<item, logged, manifest>>
           \/ /\ n = 2 * Size + 2 /\ view' = [view EXCEPT !["index"] = kept.view["index"]]
              /\ UNCHANGED <<item, logged, manifest>>
           \/ /\ n = 2 * Size + 3 /\ manifest' = kept.manifest
              /\ UNCHANGED <<item, logged, view>>
  <1>2. CASE \E k \in 1 .. Size : n = k /\ Targets[n] = <<"item", Batch[k]>>
    <2>1. PICK k \in 1 .. Size : n = k /\ Targets[n] = <<"item", Batch[k]>>
      BY <1>2
    <2>2. Targets[n][1] = "item" /\ Targets[n][2] = Batch[k] /\ Targets[n][1] \notin DOMAIN view
      BY <2>1
    <2> QED
      BY <2>1, <2>2 DEF RestoreTarget
  <1>3. CASE \E k \in 1 .. Size : n = Size + k /\ Targets[n] = <<"event", Batch[k]>>
    <2>1. PICK k \in 1 .. Size : n = Size + k /\ Targets[n] = <<"event", Batch[k]>>
      BY <1>3
    <2>2. Targets[n][1] = "event" /\ Targets[n][2] = Batch[k] /\ Targets[n][1] \notin DOMAIN view
      BY <2>1
    <2> QED
      BY <2>1, <2>2 DEF RestoreTarget
  <1>4. CASE n = 2 * Size + 1 /\ Targets[n] = <<"projection">>
    BY <1>4 DEF RestoreTarget
  <1>5. CASE n = 2 * Size + 2 /\ Targets[n] = <<"index">>
    BY <1>5 DEF RestoreTarget
  <1>6. CASE n = 2 * Size + 3 /\ Targets[n] = <<"manifest">>
    BY <1>6 DEF RestoreTarget
  <1> QED
    BY <1>2, <1>3, <1>4, <1>5, <1>6, NumbersAre

(* A step of one importer that ends up with x, and leaves the files alone  *)
LEMMA ImporterMoves ==
    ASSUME ImportInv, NEW p \in Importers, NEW x, importer' = [importer EXCEPT ![p] = x],
           UNCHANGED <<item, logged, view, manifest>>,
           disturbed' \in {disturbed, disturbed \ {p}},
           ImporterIs(p, x), Clear' => Advanced(x), p \notin disturbed' => PutBackSo(x),
           overlapped => overlapped', unremoved => unremoved',
           Clear' /\ x.at \in {"writing", "restoring"} =>
             \A q \in Importers \ {p} : ~AtWork(q)
    PROVE  ImportInv'
  <1>1. importer'[p] = x /\ \A q \in Importers \ {p} : importer'[q] = importer[q]
    BY DEF ImportInv, StoreIs
  <1>2. StoreIs'
    BY DEF ImportInv, StoreIs
  <1>3. \A q \in Importers : ImporterIs(q, importer'[q])
    BY <1>1 DEF ImportInv
  <1>4. ASSUME Clear'
        PROVE  /\ \A q, r \in Importers : AtWork(q)' /\ AtWork(r)' => q = r
               /\ manifest # NoManifest => EffectsExist
               /\ \A q \in Importers : Advanced(importer'[q])
    <2>1. Clear
      BY <1>4 DEF Clear
    <2> QED
      BY <1>1, <1>4, <2>1 DEF ImportInv, AtWork
  <1>5. \A q \in Importers \ disturbed' : PutBackSo(importer'[q])
    BY <1>1 DEF ImportInv
  <1> QED
    BY <1>2, <1>3, <1>4, <1>5 DEF ImportInv, ImporterIs, Advanced, PutBackSo, EffectsExist,
                                  WroteBefore, Wrote, RestoredFrom

LEMMA ImportStarts == ImportInit => ImportInv
  <1> SUFFICES ASSUME ImportInit PROVE ImportInv
    OBVIOUS
  <1>1. item \in ItemRecords
    BY DEF ImportInit, ItemRecords, ItemStates
  <1>2. StoreIs
    BY <1>1 DEF ImportInit, StoreIs, Views, NoManifest
  <1>3. \A p \in Importers : importer[p].at = "idle"
    BY DEF ImportInit, IdleImporter
  <1> QED
    BY <1>2, <1>3 DEF ImportInit, ImportInv, ImporterIs, Advanced, PutBackSo, AtWork

(* An importer that is neither at work nor rolled back nor has planned     *)
LEMMA AtRestIs ==
    ASSUME NEW p, NEW x, x.at \notin {"planned", "writing", "restoring", "rolled-back"}
    PROVE  ImporterIs(p, x) /\ Advanced(x) /\ PutBackSo(x)
  BY DEF ImporterIs, Advanced, PutBackSo

(* It ends, one way or another.                                            *)
LEMMA EndsStep ==
    ASSUME ImportInv, NEW p \in Importers, NEW how, Ends(p, how),
           how \notin {"planned", "writing", "restoring", "rolled-back"},
           UNCHANGED <<item, logged, view, manifest, disturbed, overlapped, unremoved>>
    PROVE  ImportInv'
  <1>1. PICK x : x = [at |-> how] /\ importer' = [importer EXCEPT ![p] = x]
    BY DEF Ends, Become
  <1>2. x.at = how
    BY <1>1
  <1>3. ImporterIs(p, x) /\ Advanced(x) /\ PutBackSo(x)
    BY <1>2, AtRestIs
  <1> QED
    BY <1>1, <1>2, <1>3, ImporterMoves

LEMMA PrepareStep ==
    ASSUME ImportInv, NEW p \in Importers, PrepareImport(p)
    PROVE  ImportInv'
  <1>1. CASE manifest # NoManifest
    BY <1>1, EndsStep DEF PrepareImport
  <1>2. CASE manifest = NoManifest
    <2>1. PICK x : /\ importer' = [importer EXCEPT ![p] = x]
                   /\ x = [at |-> "planned", before |-> item, seen |-> view,
                           after |-> [i \in Batched |->
                                        [revision |-> item[i].revision + 1, by |-> p]]]
      BY <1>2 DEF PrepareImport, Become
    <2>2. /\ x.at = "planned"
          /\ x.after = [i \in Batched |-> [revision |-> item[i].revision + 1, by |-> p]]
      BY <2>1
    <2>3. x.after \in [Batched -> [revision : Nat, by : {p}]]
      BY <2>2 DEF ImportInv, StoreIs, ItemRecords, ItemStates
    <2>4. ImporterIs(p, x) /\ Advanced(x) /\ PutBackSo(x)
      BY <2>2, <2>3 DEF ImporterIs, Advanced, PutBackSo
    <2> QED
      BY <2>1, <2>2, <2>4, ImporterMoves DEF PrepareImport
  <1> QED
    BY <1>1, <1>2

LEMMA PreflightStep ==
    ASSUME ImportInv, NEW p \in Importers, PreflightImport(p)
    PROVE  ImportInv'
  <1> DEFINE kept == [item |-> item, logged |-> logged, view |-> view, manifest |-> manifest]
  <1>1. PICK x : /\ importer' = [importer EXCEPT ![p] = x]
                 /\ x = [at |-> "writing", next |-> 1, after |-> importer[p].after,
                         seen |-> view, kept |-> kept]
    BY DEF PreflightImport, Become
  <1>2. /\ x.at = "writing" /\ x.next = 1 /\ x.after = importer[p].after /\ x.kept = kept
        /\ DOMAIN x = {"at", "next", "after", "seen", "kept"}
    BY <1>1
  <1>3. IsKept(kept)
    BY DEF PreflightImport, ImportInv, StoreIs, IsKept
  <1>4. x.after \in [Batched -> [revision : Nat, by : {p}]]
    BY <1>2 DEF PreflightImport, ImportInv, ImporterIs
  <1> HIDE DEF kept
  <1>5. ImporterIs(p, x)
    BY <1>2, <1>3, <1>4, BatchIs DEF ImporterIs
  <1>6. Advanced(x)
    BY <1>2, BatchIs DEF Advanced, WroteBefore, PreflightImport
  <1>7. PutBackSo(x)
    BY <1>2 DEF PutBackSo
  <1>8. disturbed' = disturbed \ {p} /\ UNCHANGED <<item, logged, view, manifest, unremoved>>
        /\ overlapped' = (overlapped \/ \E q \in Importers \ {p} : AtWork(q))
    BY DEF PreflightImport
  <1>9. /\ overlapped => overlapped'
        /\ Clear' => \A q \in Importers \ {p} : ~AtWork(q)
    BY <1>8 DEF Clear
  <1> QED
    BY <1>1, <1>5, <1>6, <1>7, <1>8, <1>9, ImporterMoves

LEMMA FailStep ==
    ASSUME ImportInv, NEW p \in Importers, Fail(p)
    PROVE  ImportInv'
  <1>1. PICK x : /\ importer' = [importer EXCEPT ![p] = x]
                 /\ x = [at |-> "restoring", next |-> Len(Targets), kept |-> importer[p].kept,
                         left |-> {}]
    BY DEF Fail, Become
  <1>2. /\ x.at = "restoring" /\ x.next = 2 * Size + 3 /\ x.kept = importer[p].kept
        /\ DOMAIN x = {"at", "next", "kept", "left"}
    BY <1>1, TargetsAre
  <1>3. IsKept(x.kept)
    BY <1>2 DEF Fail, ImportInv, ImporterIs
  <1>4. ImporterIs(p, x)
    BY <1>2, <1>3, BatchIs DEF ImporterIs
  <1>5. Advanced(x) /\ PutBackSo(x)
    BY <1>2, BatchIs DEF Advanced, PutBackSo, RestoredFrom
  <1>6. Clear' => \A q \in Importers \ {p} : ~AtWork(q)
    BY DEF Fail, ImportInv, AtWork, Clear
  <1> QED
    BY <1>1, <1>4, <1>5, <1>6, ImporterMoves DEF Fail

(* Others only add to what an importer wrote.                              *)
LEMMA OthersStep ==
    ASSUME ImportInv, Others
    PROVE  ImportInv'
  <1>1. /\ UNCHANGED <<manifest, importer, overlapped, unremoved>> /\ disturbed' = Importers
        /\ StoreIs
    BY DEF Others, ImportInv
  <1>2. /\ item' \in ItemRecords /\ logged' = [i \in Batched |-> logged'[i]] /\ view' \in Views
        /\ \A i \in Batched : item'[i] = item[i] \/ item'[i].revision > item[i].revision
        /\ \A i \in Batched : logged[i] \subseteq logged'[i]
    <2>1. ASSUME NEW i \in Contested, OthersPut(i)
          PROVE  /\ item' \in ItemRecords /\ UNCHANGED <<logged, view>>
                 /\ \A j \in Batched : item'[j] = item[j] \/ item'[j].revision > item[j].revision
      <3>1. i \in Batched /\ item[i].revision \in Nat
        BY <1>1, BatchAssumption DEF StoreIs, ItemRecords, ItemStates
      <3>2. item' = [item EXCEPT ![i] = [revision |-> item[i].revision + 1, by |-> "others"]]
        BY <2>1 DEF OthersPut
      <3> QED
        BY <1>1, <2>1, <3>1, <3>2 DEF StoreIs, ItemRecords, ItemStates, OthersPut
    <2>2. ASSUME NEW i \in Contested, OthersLog(i)
          PROVE  /\ UNCHANGED <<item, view>> /\ logged' = [j \in Batched |-> logged'[j]]
                 /\ \A j \in Batched : logged[j] \subseteq logged'[j]
      BY <1>1, <2>2, BatchAssumption DEF StoreIs, OthersLog
    <2>3. ASSUME NEW v \in DOMAIN view, OthersView(v)
          PROVE  UNCHANGED <<item, logged>> /\ view' \in Views
      BY <1>1, <2>3 DEF StoreIs, OthersView, Views
    <2>4. \/ \E i \in Contested : OthersPut(i) \/ OthersLog(i)
          \/ \E v \in DOMAIN view : OthersView(v)
      BY DEF Others
    <2>5. logged = [i \in Batched |-> logged[i]] /\ view \in Views /\ item \in ItemRecords
      BY <1>1 DEF StoreIs
    <2> QED
      BY <2>1, <2>2, <2>3, <2>4, <2>5
  <1>3. StoreIs'
    BY <1>1, <1>2 DEF StoreIs
  <1>4. \A i \in Batched : item[i].revision \in Nat /\ item'[i].revision \in Nat /\ manifest[i] \in Nat
    BY <1>1, <1>2 DEF StoreIs, ItemRecords, ItemStates
  <1>5. EffectsExist => EffectsExist'
    <2>1. SUFFICES ASSUME EffectsExist, NEW i \in Batched
          PROVE  /\ item'[i].revision >= manifest[i]
                 /\ item'[i].revision = manifest[i] => item'[i].by \in Importers
                 /\ manifest[i] \in logged'[i]
      BY <1>1 DEF EffectsExist
    <2>2. /\ item[i].revision >= manifest[i]
          /\ item[i].revision = manifest[i] => item[i].by \in Importers
          /\ manifest[i] \in logged[i]
      BY <2>1 DEF EffectsExist
    <2>3. CASE item'[i] = item[i]
      BY <1>2, <2>2, <2>3
    <2>4. CASE item'[i].revision > item[i].revision
      BY <1>2, <1>4, <2>2, <2>4
    <2> QED
      BY <1>2, <2>3, <2>4
  <1>6. ASSUME NEW p \in Importers, importer[p].at = "writing",
               ImporterIs(p, importer[p]), Advanced(importer[p])
        PROVE  Advanced(importer[p])'
    <2>1. WroteBefore(importer[p].next, importer[p].after)
      BY <1>6 DEF Advanced
    <2>2. \A i \in Batched : importer[p].after[i].revision \in Nat
      BY <1>6 DEF ImporterIs
    <2>3. \A i \in Batched : Wrote(i, importer[p].after) => Wrote(i, importer[p].after)'
      BY <1>1, <1>2, <1>4, <2>2 DEF Wrote
    <2>4. WroteBefore(importer[p].next, importer[p].after)'
      BY <1>1, <1>2, <2>1, <2>3, BatchIs DEF WroteBefore
    <2> QED
      BY <1>1, <1>6, <2>4 DEF Advanced
  <1>7. ASSUME Clear'
        PROVE  /\ \A p, q \in Importers : AtWork(p)' /\ AtWork(q)' => p = q
               /\ manifest' # NoManifest => EffectsExist'
               /\ \A p \in Importers : Advanced(importer[p])'
    BY <1>1, <1>5, <1>6, <1>7 DEF ImportInv, AtWork, Advanced, Clear
  <1> QED
    BY <1>1, <1>3, <1>7 DEF ImportInv, ImporterIs

(* One more target is written; the manifest, when everything else is.      *)
LEMMA WriteStep ==
    ASSUME ImportInv, NEW p \in Importers, WriteNext(p)
    PROVE  ImportInv'
  <1>0. PICK n, after : n = importer[p].next /\ after = importer[p].after
    OBVIOUS
  <1>1. /\ importer[p].at = "writing" /\ disturbed' = disturbed \cup (Importers \ {p})
        /\ UNCHANGED <<overlapped, unremoved>> /\ StoreIs /\ ImporterIs(p, importer[p])
    BY DEF WriteNext, ImportInv
  <1>2. /\ n \in 1 .. 2 * Size + 4 /\ after \in [Batched -> [revision : Nat, by : {p}]]
        /\ DOMAIN importer[p] = {"at", "next", "after", "seen", "kept"}
        /\ IsKept(importer[p].kept)
    BY <1>0, <1>1 DEF ImporterIs
  <1>3. PICK x : /\ importer' = [importer EXCEPT ![p] = x]
                 /\ x = [importer[p] EXCEPT !.next = @ + 1]
    BY DEF WriteNext, Become
  <1>4. /\ x.at = "writing" /\ x.next = n + 1 /\ x.after = after /\ x.kept = importer[p].kept
        /\ DOMAIN x = {"at", "next", "after", "seen", "kept"}
    BY <1>0, <1>1, <1>2, <1>3
  <1>5. /\ importer'[p] = x /\ \A q \in Importers \ {p} : importer'[q] = importer[q]
        /\ DOMAIN importer' = Importers
    BY <1>1, <1>3 DEF StoreIs
  <1>6. /\ n \in 1 .. 2 * Size + 3
        /\ \/ \E k \in 1 .. Size :
                /\ n = k /\ item[Batch[k]].revision = after[Batch[k]].revision - 1
                /\ item' = [item EXCEPT ![Batch[k]] = after[Batch[k]]]
                /\ UNCHANGED <<logged, view, manifest>>
           \/ \E k \in 1 .. Size :
                /\ n = Size + k
                /\ logged' = [logged EXCEPT ![Batch[k]] = @ \cup {after[Batch[k]].revision}]
                /\ UNCHANGED <<item, view, manifest>>
           \/ \E v \in {"projection", "index"} :
                /\ n \in {2 * Size + 1, 2 * Size + 2}
                /\ item = after /\ view' = [view EXCEPT ![v] = after]
                /\ UNCHANGED <<item, logged, manifest>>
           \/ /\ n = 2 * Size + 3
              /\ manifest' = [i \in Batched |-> after[i].revision]
              /\ UNCHANGED <<item, logged, view>>
    BY <1>0, <1>2, WriteIs
  <1>7. StoreIs'
    <2>1. /\ item \in ItemRecords /\ logged = [i \in Batched |-> logged[i]] /\ view \in Views
          /\ manifest \in [Batched -> Nat]
      BY <1>1 DEF StoreIs
    <2>2. \A i \in Batched : after[i] \in ItemStates /\ after[i].revision \in Nat
      BY <1>2 DEF ItemStates
    <2>3. \A k \in 1 .. Size : Batch[k] \in Batched
      BY BatchIs
    <2> SUFFICES /\ item' \in ItemRecords /\ logged' = [i \in Batched |-> logged'[i]]
                 /\ view' \in Views /\ manifest' \in [Batched -> Nat]
      BY <1>5 DEF StoreIs
    <2>4. ASSUME NEW k \in 1 .. Size, item' = [item EXCEPT ![Batch[k]] = after[Batch[k]]]
          PROVE  item' \in ItemRecords
      BY <2>1, <2>2, <2>3, <2>4 DEF ItemRecords
    <2>5. ASSUME NEW k \in 1 .. Size,
                 logged' = [logged EXCEPT ![Batch[k]] = @ \cup {after[Batch[k]].revision}]
          PROVE  logged' = [i \in Batched |-> logged'[i]]
      BY <2>1, <2>5
    <2>6. ASSUME NEW v \in {"projection", "index"}, item = after,
                 view' = [view EXCEPT ![v] = after]
          PROVE  view' \in Views
      BY <2>1, <2>6 DEF Views
    <2>7. [i \in Batched |-> after[i].revision] \in [Batched -> Nat]
      BY <2>2
    <2>8. CASE \E k \in 1 .. Size :
                 /\ item' = [item EXCEPT ![Batch[k]] = after[Batch[k]]]
                 /\ UNCHANGED <<logged, view, manifest>>
      BY <2>1, <2>4, <2>8
    <2>9. CASE \E k \in 1 .. Size :
                 /\ logged' = [logged EXCEPT ![Batch[k]] = @ \cup {after[Batch[k]].revision}]
                 /\ UNCHANGED <<item, view, manifest>>
      BY <2>1, <2>5, <2>9
    <2>10. CASE \E v \in {"projection", "index"} :
                 /\ item = after /\ view' = [view EXCEPT ![v] = after]
                 /\ UNCHANGED <<item, logged, manifest>>
      BY <2>1, <2>6, <2>10
    <2>11. CASE /\ manifest' = [i \in Batched |-> after[i].revision]
                /\ UNCHANGED <<item, logged, view>>
      BY <2>1, <2>7, <2>11
    <2> QED
      BY <1>6, <2>8, <2>9, <2>10, <2>11
  <1>8. ImporterIs(p, x)'
    <2>1. x.next \in 1 .. 2 * Size + 4
      BY <1>4, <1>6, BatchIs
    <2>2. IsKept(x.kept)'
      BY <1>2, <1>4 DEF IsKept
    <2> QED
      BY <1>2, <1>4, <2>1, <2>2 DEF ImporterIs
  <1>9. ASSUME Clear
        PROVE  /\ WroteBefore(n, after) /\ manifest = NoManifest
               /\ \A q \in Importers \ {p} : importer[q].at \notin {"writing", "restoring"}
    <2>1. Advanced(importer[p])
      BY <1>9 DEF ImportInv
    <2>2. WroteBefore(n, after) /\ manifest = NoManifest
      BY <1>0, <1>1, <1>6, <2>1 DEF Advanced
    <2> QED
      BY <1>1, <1>9, <2>2 DEF ImportInv, AtWork
  <1>10. ASSUME Clear PROVE WroteBefore(n + 1, after)'
    <2>1. /\ \A j \in 1 .. Size : j < n => Wrote(Batch[j], after)
          /\ \A j \in 1 .. Size : Size + j < n => after[Batch[j]].revision \in logged[Batch[j]]
      BY <1>9, <1>10 DEF WroteBefore
    <2>2. /\ item \in ItemRecords /\ logged = [i \in Batched |-> logged[i]]
          /\ \A i \in Batched : after[i].revision \in Nat /\ after[i].by \in Importers
      BY <1>1, <1>2 DEF StoreIs
    <2>3. CASE \E k \in 1 .. Size :
                 /\ n = k /\ item' = [item EXCEPT ![Batch[k]] = after[Batch[k]]]
                 /\ UNCHANGED <<logged, view, manifest>>
      <3>1. PICK k \in 1 .. Size :
                 /\ n = k /\ item' = [item EXCEPT ![Batch[k]] = after[Batch[k]]]
                 /\ UNCHANGED <<logged, view, manifest>>
        BY <2>3
      <3>2. ASSUME NEW j \in 1 .. Size, j < n + 1 PROVE Wrote(Batch[j], after)'
        <4>1. Batch[j] \in Batched /\ Batch[k] \in Batched
          BY BatchIs
        <4>2. CASE Batch[j] = Batch[k]
          <5>1. item'[Batch[j]] = after[Batch[j]]
            BY <2>2, <3>1, <4>1, <4>2 DEF ItemRecords
          <5> QED
            BY <2>2, <4>1, <5>1 DEF Wrote
        <4>3. CASE Batch[j] # Batch[k]
          <5>1. item'[Batch[j]] = item[Batch[j]]
            BY <2>2, <3>1, <4>1, <4>3 DEF ItemRecords
          <5>2. j < n
            BY <3>1, <3>2, <4>3, BatchIs
          <5> QED
            BY <2>1, <5>1, <5>2 DEF Wrote
        <4> QED
          BY <4>2, <4>3
      <3>3. \A j \in 1 .. Size : ~(Size + j < n + 1)
        BY <3>1, BatchIs
      <3> QED
        BY <3>2, <3>3 DEF WroteBefore
    <2>4. CASE \E k \in 1 .. Size :
                 /\ n = Size + k
                 /\ logged' = [logged EXCEPT ![Batch[k]] = @ \cup {after[Batch[k]].revision}]
                 /\ UNCHANGED <<item, view, manifest>>
      <3>1. PICK k \in 1 .. Size :
                 /\ n = Size + k
                 /\ logged' = [logged EXCEPT ![Batch[k]] = @ \cup {after[Batch[k]].revision}]
                 /\ UNCHANGED <<item, view, manifest>>
        BY <2>4
      <3>2. \A j \in 1 .. Size : Wrote(Batch[j], after)'
        BY <2>1, <3>1, BatchIs DEF Wrote
      <3>3. ASSUME NEW j \in 1 .. Size, Size + j < n + 1
            PROVE  after[Batch[j]].revision \in logged'[Batch[j]]
        <4>1. Batch[j] \in Batched /\ Batch[k] \in Batched
          BY BatchIs
        <4>2. CASE Batch[j] = Batch[k]
          BY <2>2, <3>1, <4>1, <4>2
        <4>3. CASE Batch[j] # Batch[k]
          <5>1. Size + j < n
            BY <3>1, <3>3, <4>3, BatchIs
          <5> QED
            BY <2>1, <2>2, <3>1, <4>1, <5>1
        <4> QED
          BY <4>2, <4>3
      <3> QED
        BY <3>2, <3>3 DEF WroteBefore
    <2>5. CASE n \in {2 * Size + 1, 2 * Size + 2, 2 * Size + 3} /\ UNCHANGED <<item, logged>>
      <3>1. \A j \in 1 .. Size : j < n /\ Size + j < n
        BY <2>5, BatchIs
      <3> QED
        BY <2>1, <2>5, <3>1 DEF WroteBefore, Wrote
    <2> QED
      BY <1>6, <2>3, <2>4, <2>5
  <1>11. ASSUME Clear, manifest' # NoManifest PROVE EffectsExist'
    <2>1. /\ n = 2 * Size + 3 /\ manifest' = [i \in Batched |-> after[i].revision]
          /\ UNCHANGED <<item, logged, view>> /\ WroteBefore(n, after)
      BY <1>6, <1>9, <1>11
    <2>2. ASSUME NEW i \in Batched
          PROVE  /\ item'[i].revision >= manifest'[i]
                 /\ item'[i].revision = manifest'[i] => item'[i].by \in Importers
                 /\ manifest'[i] \in logged'[i]
      <3>1. PICK k \in 1 .. Size : i = Batch[k]
        BY BatchedIs
      <3>2. k < n /\ Size + k < n
        BY <2>1, BatchIs
      <3> QED
        BY <2>1, <3>1, <3>2 DEF WroteBefore, Wrote
    <2> QED
      BY <2>2 DEF EffectsExist
  <1>12. ASSUME Clear PROVE \A q \in Importers : Advanced(importer[q])'
    <2>1. Advanced(x)'
      <3>1. n + 1 <= 2 * Size + 3 => UNCHANGED manifest
        BY <1>6, BatchIs
      <3> QED
        BY <1>4, <1>9, <1>10, <1>12, <3>1 DEF Advanced
    <2>2. \A q \in Importers \ {p} : Advanced(importer[q])'
      BY <1>5, <1>9, <1>12 DEF Advanced
    <2> QED
      BY <1>5, <2>1, <2>2 DEF Advanced
  <1>13. ASSUME Clear PROVE \A q, r \in Importers : AtWork(q)' /\ AtWork(r)' => q = r
    BY <1>5, <1>9, <1>13 DEF AtWork
  <1>14. \A q \in Importers \ disturbed' : PutBackSo(importer[q])'
    BY <1>1, <1>4, <1>5 DEF PutBackSo
  <1>15. \A q \in Importers : ImporterIs(q, importer[q])'
    BY <1>5, <1>8 DEF ImportInv, ImporterIs
  <1> QED
    BY <1>1, <1>7, <1>11, <1>12, <1>13, <1>14, <1>15 DEF ImportInv, Clear

(* One more target is put back; the manifest is the first.                 *)
LEMMA RestoreStep ==
    ASSUME ImportInv, NEW p \in Importers, Restore(p)
    PROVE  ImportInv'
  <1>0. PICK n, kept, left : /\ n = importer[p].next /\ kept = importer[p].kept
                             /\ left = importer[p].left
    OBVIOUS
  <1>1. /\ importer[p].at = "restoring" /\ disturbed' = disturbed \cup (Importers \ {p})
        /\ UNCHANGED <<overlapped, unremoved>> /\ RestoreTarget(Targets[n], kept)
        /\ StoreIs /\ ImporterIs(p, importer[p])
    BY <1>0 DEF Restore, ImportInv
  <1>2. /\ n \in 1 .. 2 * Size + 3 /\ DOMAIN importer[p] = {"at", "next", "kept", "left"}
        /\ IsKept(kept)
    BY <1>0, <1>1 DEF ImporterIs
  <1>3. PICK x : /\ importer' = [importer EXCEPT ![p] = x]
                 /\ n = 1 => x = [at |-> "rolled-back", kept |-> kept, left |-> left]
                 /\ n # 1 => x = [importer[p] EXCEPT !.next = @ - 1, !.left = left]
    <2>1. CASE n = 1
      BY <1>0, <2>1 DEF Restore, GoesOn, Become
    <2>2. CASE n # 1
      BY <1>0, <2>2 DEF Restore, GoesOn, Become
    <2> QED
      BY <2>1, <2>2
  <1>4. /\ x.kept = kept /\ x.left = left
        /\ n = 1 => x.at = "rolled-back"
        /\ n # 1 => /\ x.at = "restoring" /\ x.next = n - 1
                    /\ DOMAIN x = {"at", "next", "kept", "left"}
    <2>1. CASE n = 1
      BY <1>3, <2>1
    <2>2. CASE n # 1
      <3>1. x = [importer[p] EXCEPT !.next = n - 1, !.left = left]
        BY <1>0, <1>3, <2>2
      <3> QED
        BY <1>0, <1>1, <1>2, <2>2, <3>1
    <2> QED
      BY <2>1, <2>2
  <1>5. /\ importer'[p] = x /\ \A q \in Importers \ {p} : importer'[q] = importer[q]
        /\ DOMAIN importer' = Importers
    BY <1>1, <1>3 DEF StoreIs
  <1>6. \/ \E k \in 1 .. Size :
             /\ n = k /\ item' = [item EXCEPT ![Batch[k]] = kept.item[Batch[k]]]
             /\ UNCHANGED <<logged, view, manifest>>
        \/ \E k \in 1 .. Size :
             /\ n = Size + k /\ logged' = [logged EXCEPT ![Batch[k]] = kept.logged[Batch[k]]]
             /\ UNCHANGED <<item, view, manifest>>
        \/ /\ n = 2 * Size + 1 /\ view' = [view EXCEPT !["projection"] = kept.view["projection"]]
           /\ UNCHANGED <<item, logged, manifest>>
        \/ /\ n = 2 * Size + 2 /\ view' = [view EXCEPT !["index"] = kept.view["index"]]
           /\ UNCHANGED <<item, logged, manifest>>
        \/ /\ n = 2 * Size + 3 /\ manifest' = kept.manifest
           /\ UNCHANGED <<item, logged, view>>
    <2>1. DOMAIN view = {"projection", "index"}
      BY <1>1 DEF StoreIs, Views
    <2> QED
      BY <1>1, <1>2, <2>1, RestoreIs
  <1>7. /\ item \in ItemRecords /\ logged = [i \in Batched |-> logged[i]] /\ view \in Views
        /\ manifest \in [Batched -> Nat]
        /\ kept.item \in ItemRecords /\ kept.view \in Views /\ kept.manifest = NoManifest
    BY <1>1, <1>2 DEF StoreIs, IsKept
  <1>8. /\ item' \in ItemRecords /\ logged' = [i \in Batched |-> logged'[i]]
        /\ view' \in Views /\ manifest' \in [Batched -> Nat]
    <2>1. ASSUME NEW k \in 1 .. Size, item' = [item EXCEPT ![Batch[k]] = kept.item[Batch[k]]]
          PROVE  item' \in ItemRecords
      BY <1>7, <2>1, BatchIs DEF ItemRecords
    <2>2. ASSUME NEW k \in 1 .. Size,
                 logged' = [logged EXCEPT ![Batch[k]] = kept.logged[Batch[k]]]
          PROVE  logged' = [i \in Batched |-> logged'[i]]
      BY <1>7, <2>2
    <2>3. ASSUME NEW v \in {"projection", "index"}, view' = [view EXCEPT ![v] = kept.view[v]]
          PROVE  view' \in Views
      BY <1>7, <2>3 DEF Views
    <2>4. NoManifest \in [Batched -> Nat]
      BY DEF NoManifest
    <2>5. CASE \E k \in 1 .. Size :
                 /\ item' = [item EXCEPT ![Batch[k]] = kept.item[Batch[k]]]
                 /\ UNCHANGED <<logged, view, manifest>>
      BY <1>7, <2>1, <2>5
    <2>6. CASE \E k \in 1 .. Size :
                 /\ logged' = [logged EXCEPT ![Batch[k]] = kept.logged[Batch[k]]]
                 /\ UNCHANGED <<item, view, manifest>>
      BY <1>7, <2>2, <2>6
    <2>7. CASE \E v \in {"projection", "index"} :
                 /\ view' = [view EXCEPT ![v] = kept.view[v]]
                 /\ UNCHANGED <<item, logged, manifest>>
      BY <1>7, <2>3, <2>7
    <2>8. CASE manifest' = kept.manifest /\ UNCHANGED <<item, logged, view>>
      BY <1>7, <2>4, <2>8
    <2> QED
      BY <1>6, <2>5, <2>6, <2>7, <2>8
  <1>9. ImporterIs(p, x)'
    <2>1. IsKept(x.kept)'
      BY <1>2, <1>4 DEF IsKept
    <2>2. n # 1 => n - 1 \in 1 .. 2 * Size + 3
      BY <1>2, BatchIs
    <2> QED
      BY <1>4, <2>1, <2>2 DEF ImporterIs
  <1>10. ASSUME Clear
         PROVE  /\ manifest' = NoManifest
                /\ \A q \in Importers \ {p} : importer[q].at \notin {"writing", "restoring"}
    <2>1. n < 2 * Size + 3 => manifest = NoManifest
      <3>1. Advanced(importer[p])
        BY <1>10 DEF ImportInv
      <3> QED
        BY <1>0, <1>1, <3>1 DEF Advanced
    <2>3. n < 2 * Size + 3 => UNCHANGED manifest
      BY <1>6, BatchIs
    <2>4. n < 2 * Size + 3 \/ n = 2 * Size + 3
      BY <1>2, BatchIs
    <2>5. n = 2 * Size + 3 => manifest' = kept.manifest
      BY <1>6, BatchIs
    <2>6. manifest' = NoManifest
      BY <1>7, <2>1, <2>3, <2>4, <2>5
    <2> QED
      BY <1>1, <1>10, <2>6 DEF ImportInv, AtWork
  <1>11. ASSUME RestoredFrom(n + 1, kept, left) PROVE RestoredFrom(n, kept, left)'
    <2>1. CASE \E k \in 1 .. Size :
                 /\ n = k /\ item' = [item EXCEPT ![Batch[k]] = kept.item[Batch[k]]]
                 /\ UNCHANGED <<logged, view, manifest>>
      <3>1. PICK k \in 1 .. Size :
                 /\ n = k /\ item' = [item EXCEPT ![Batch[k]] = kept.item[Batch[k]]]
                 /\ UNCHANGED <<logged, view, manifest>>
        BY <2>1
      <3>2. ASSUME NEW j \in 1 .. Size, j >= n, j \notin left
            PROVE  item'[Batch[j]] = kept.item[Batch[j]]
        <4>1. CASE Batch[j] = Batch[k]
          BY <1>7, <3>1, <4>1, BatchIs DEF ItemRecords
        <4>2. CASE Batch[j] # Batch[k]
          <5>1. j >= n + 1
            BY <3>1, <3>2, <4>2, BatchIs
          <5>2. item[Batch[j]] = kept.item[Batch[j]]
            BY <1>11, <3>2, <5>1 DEF RestoredFrom
          <5> QED
            BY <1>7, <3>1, <4>2, <5>2, BatchIs DEF ItemRecords
        <4> QED
          BY <4>1, <4>2
      <3>3. /\ \A j \in 1 .. Size : Size + j >= n + 1
            /\ 2 * Size + 1 >= n + 1 /\ 2 * Size + 2 >= n + 1 /\ 2 * Size + 3 >= n + 1
        BY <3>1, BatchIs
      <3> QED
        BY <1>11, <3>1, <3>2, <3>3 DEF RestoredFrom
    <2>2. CASE \E k \in 1 .. Size :
                 /\ n = Size + k /\ logged' = [logged EXCEPT ![Batch[k]] = kept.logged[Batch[k]]]
                 /\ UNCHANGED <<item, view, manifest>>
      <3>1. PICK k \in 1 .. Size :
                 /\ n = Size + k /\ logged' = [logged EXCEPT ![Batch[k]] = kept.logged[Batch[k]]]
                 /\ UNCHANGED <<item, view, manifest>>
        BY <2>2
      <3>2. ASSUME NEW j \in 1 .. Size, Size + j >= n, Size + j \notin left
            PROVE  logged'[Batch[j]] = kept.logged[Batch[j]]
        <4>1. CASE Batch[j] = Batch[k]
          BY <1>7, <3>1, <4>1, BatchIs
        <4>2. CASE Batch[j] # Batch[k]
          <5>1. Size + j >= n + 1
            BY <3>1, <3>2, <4>2, BatchIs
          <5>2. logged[Batch[j]] = kept.logged[Batch[j]]
            BY <1>11, <3>2, <5>1 DEF RestoredFrom
          <5> QED
            BY <1>7, <3>1, <4>2, <5>2, BatchIs
        <4> QED
          BY <4>1, <4>2
      <3>3. /\ \A j \in 1 .. Size : ~(j >= n)
            /\ 2 * Size + 1 >= n + 1 /\ 2 * Size + 2 >= n + 1 /\ 2 * Size + 3 >= n + 1
        BY <3>1, BatchIs
      <3> QED
        BY <1>11, <3>1, <3>2, <3>3 DEF RestoredFrom
    <2>3. CASE n \in {2 * Size + 1, 2 * Size + 2, 2 * Size + 3} /\ UNCHANGED <<item, logged>>
      <3>1. \A j \in 1 .. Size : ~(j >= n) /\ ~(Size + j >= n)
        BY <2>3, BatchIs
      <3>2. /\ 2 * Size + 1 >= n /\ 2 * Size + 1 \notin left =>
                 view'["projection"] = kept.view["projection"]
            /\ 2 * Size + 2 >= n /\ 2 * Size + 2 \notin left =>
                 view'["index"] = kept.view["index"]
            /\ 2 * Size + 3 >= n /\ 2 * Size + 3 \notin left => manifest' = kept.manifest
        <4>1. /\ 2 * Size + 1 >= n + 1 /\ 2 * Size + 1 \notin left =>
                   view["projection"] = kept.view["projection"]
              /\ 2 * Size + 2 >= n + 1 /\ 2 * Size + 2 \notin left =>
                   view["index"] = kept.view["index"]
              /\ 2 * Size + 3 >= n + 1 /\ 2 * Size + 3 \notin left =>
                   manifest = kept.manifest
          BY <1>11 DEF RestoredFrom
        <4>2. CASE n = 2 * Size + 1
          BY <1>6, <1>7, <4>1, <4>2, BatchIs DEF Views
        <4>3. CASE n = 2 * Size + 2
          BY <1>6, <1>7, <4>1, <4>3, BatchIs DEF Views
        <4>4. CASE n = 2 * Size + 3
          BY <1>6, <1>7, <4>1, <4>4, BatchIs DEF Views
        <4> QED
          BY <2>3, <4>2, <4>3, <4>4
      <3> QED
        BY <3>1, <3>2 DEF RestoredFrom
    <2> QED
      BY <1>6, <2>1, <2>2, <2>3
  <1>12. ASSUME p \notin disturbed PROVE PutBackSo(x)'
    <2>1. RestoredFrom(n + 1, kept, left)
      BY <1>0, <1>1, <1>12 DEF ImportInv, PutBackSo
    <2>2. RestoredFrom(n, kept, left)'
      BY <1>11, <2>1
    <2>3. n # 1 => x.next + 1 = n
      BY <1>2, <1>4
    <2> QED
      BY <1>4, <2>2, <2>3 DEF PutBackSo
  <1>13. \A q \in Importers \ disturbed' : PutBackSo(importer[q])'
    BY <1>1, <1>5, <1>12 DEF PutBackSo
  <1>14. \A q \in Importers : ImporterIs(q, importer[q])'
    BY <1>5, <1>9 DEF ImportInv, ImporterIs
  <1>15. ASSUME Clear
         PROVE  /\ \A q \in Importers : Advanced(importer[q])'
                /\ \A q, r \in Importers : AtWork(q)' /\ AtWork(r)' => q = r
    <2>1. Advanced(x)'
      BY <1>4, <1>10, <1>15 DEF Advanced
    <2> QED
      BY <1>5, <1>10, <1>15, <2>1 DEF Advanced, AtWork
  <1> QED
    BY <1>1, <1>5, <1>8, <1>10, <1>13, <1>14, <1>15 DEF ImportInv, StoreIs, Clear

(* One target is left as it is; if it is the manifest, nothing more is said*)
(* of manifests.                                                           *)
LEMMA LeaveStep ==
    ASSUME ImportInv, NEW p \in Importers, CannotRestore(p)
    PROVE  ImportInv'
  <1>0. PICK n, kept, left : /\ n = importer[p].next /\ kept = importer[p].kept
                             /\ left = importer[p].left
    OBVIOUS
  <1>1. /\ importer[p].at = "restoring" /\ ImporterIs(p, importer[p])
        /\ UNCHANGED <<item, logged, view, manifest, disturbed, overlapped>>
    BY DEF CannotRestore, ImportInv
  <1>2. /\ n \in 1 .. 2 * Size + 3 /\ DOMAIN importer[p] = {"at", "next", "kept", "left"}
        /\ IsKept(kept)
    BY <1>0, <1>1 DEF ImporterIs
  <1>3. PICK x : /\ importer' = [importer EXCEPT ![p] = x]
                 /\ n = 1 => x = [at |-> "rolled-back", kept |-> kept, left |-> left \cup {n}]
                 /\ n # 1 => x = [importer[p] EXCEPT !.next = @ - 1, !.left = left \cup {n}]
    <2>1. CASE n = 1
      BY <1>0, <2>1 DEF CannotRestore, GoesOn, Become
    <2>2. CASE n # 1
      BY <1>0, <2>2 DEF CannotRestore, GoesOn, Become
    <2> QED
      BY <2>1, <2>2
  <1>4. /\ x.kept = kept /\ x.left = left \cup {n}
        /\ n = 1 => x.at = "rolled-back"
        /\ n # 1 => /\ x.at = "restoring" /\ x.next = n - 1
                    /\ DOMAIN x = {"at", "next", "kept", "left"}
    <2>1. CASE n = 1
      BY <1>3, <2>1
    <2>2. CASE n # 1
      <3>1. x = [importer[p] EXCEPT !.next = n - 1, !.left = left \cup {n}]
        BY <1>0, <1>3, <2>2
      <3> QED
        BY <1>0, <1>1, <1>2, <2>2, <3>1
    <2> QED
      BY <2>1, <2>2
  <1>5. ImporterIs(p, x)
    <2>1. n # 1 => n - 1 \in 1 .. 2 * Size + 3
      BY <1>2, BatchIs
    <2> QED
      BY <1>2, <1>4, <2>1 DEF ImporterIs
  <1>6. /\ unremoved => unremoved'
        /\ importer[p].next = Len(Targets) => unremoved'
    BY Zenon DEF CannotRestore
  <1>7. Clear' => Clear /\ n < 2 * Size + 3
    <2>1. Clear' => Clear /\ n # 2 * Size + 3
      BY <1>0, <1>1, <1>6, TargetsAre, Zenon DEF Clear
    <2> QED
      BY <1>2, <2>1, BatchIs
  <1>8. Clear' => Advanced(x)
    <2>1. Clear' => Advanced(importer[p])
      BY <1>7 DEF ImportInv
    <2> QED
      BY <1>0, <1>1, <1>4, <1>7, <2>1 DEF Advanced
  <1>9. p \notin disturbed' => PutBackSo(x)
    <2>1. p \notin disturbed' => RestoredFrom(n + 1, kept, left)
      BY <1>0, <1>1 DEF ImportInv, PutBackSo
    <2>2. RestoredFrom(n + 1, kept, left) => RestoredFrom(n, kept, left \cup {n})
      <3>1. SUFFICES ASSUME RestoredFrom(n + 1, kept, left)
                     PROVE  RestoredFrom(n, kept, left \cup {n})
        OBVIOUS
      <3>2. \A k \in Int : k >= n /\ k \notin left \cup {n} => k >= n + 1 /\ k \notin left
        BY <1>2, BatchIs
      <3>3. /\ \A k \in 1 .. Size : k \in Int /\ Size + k \in Int
            /\ 2 * Size + 1 \in Int /\ 2 * Size + 2 \in Int /\ 2 * Size + 3 \in Int
        BY BatchIs
      <3> QED
        BY <3>1, <3>2, <3>3 DEF RestoredFrom
    <2>3. n # 1 => x.next + 1 = n
      BY <1>2, <1>4
    <2> QED
      BY <1>4, <2>1, <2>2, <2>3 DEF PutBackSo
  <1>10. Clear' => \A q \in Importers \ {p} : ~AtWork(q)
    BY <1>1, <1>7 DEF ImportInv, AtWork
  <1> QED
    BY <1>1, <1>3, <1>5, <1>6, <1>8, <1>9, <1>10, ImporterMoves

LEMMA ImportStep == ImportInv /\ [ImportNext]_importVars => ImportInv'
  <1> SUFFICES ASSUME ImportInv, [ImportNext]_importVars PROVE ImportInv'
    OBVIOUS
  <1>1. ASSUME NEW p \in Importers, VerifyImport(p) \/ Refuse(p) \/ Die(p) PROVE ImportInv'
    BY <1>1, EndsStep DEF VerifyImport, Refuse, Die
  <1>2. CASE UNCHANGED importVars
    BY <1>2 DEF importVars, ImportInv, StoreIs, ImporterIs, Advanced, PutBackSo, EffectsExist,
                AtWork, WroteBefore, Wrote, RestoredFrom, Clear
  <1> QED
    BY <1>1, <1>2, PrepareStep, PreflightStep, WriteStep, FailStep, RestoreStep, LeaveStep,
       OthersStep DEF ImportNext

LEMMA ImportIsWhole == ImportInv => WholeOrNothing
  <1> SUFFICES ASSUME ImportInv PROVE WholeOrNothing
    OBVIOUS
  <1>1. ASSUME NEW p \in Importers \ disturbed, importer[p].at = "rolled-back",
               NEW n \in DOMAIN Targets \ importer[p].left
        PROVE  AsKept(Targets[n], importer[p].kept)
    <2>1. PICK kept, left : kept = importer[p].kept /\ left = importer[p].left
      OBVIOUS
    <2>2. RestoredFrom(1, kept, left)
      BY <1>1, <2>1 DEF ImportInv, PutBackSo
    <2>3. n \in 1 .. 2 * Size + 3 /\ n \notin left
      <3>1. DOMAIN Targets = 1 .. Len(Targets)
        BY BatchIs DEF Targets
      <3> QED
        BY <1>1, <2>1, <3>1, TargetsAre
    <2>4. CASE \E k \in 1 .. Size : n = k /\ Targets[n] = <<"item", Batch[k]>>
      <3>1. PICK k \in 1 .. Size : n = k /\ Targets[n] = <<"item", Batch[k]>>
        BY <2>4
      <3>2. item[Batch[k]] = kept.item[Batch[k]]
        BY <2>2, <2>3, <3>1 DEF RestoredFrom
      <3> QED
        BY <2>1, <3>1, <3>2 DEF AsKept
    <2>5. CASE \E k \in 1 .. Size : n = Size + k /\ Targets[n] = <<"event", Batch[k]>>
      <3>1. PICK k \in 1 .. Size : n = Size + k /\ Targets[n] = <<"event", Batch[k]>>
        BY <2>5
      <3>2. logged[Batch[k]] = kept.logged[Batch[k]]
        BY <2>2, <2>3, <3>1, BatchIs DEF RestoredFrom
      <3> QED
        BY <2>1, <3>1, <3>2 DEF AsKept
    <2>6. CASE n = 2 * Size + 1 /\ Targets[n] = <<"projection">>
      <3>1. view["projection"] = kept.view["projection"]
        BY <2>2, <2>3, <2>6, BatchIs DEF RestoredFrom
      <3> QED
        BY <2>1, <2>6, <3>1 DEF AsKept
    <2>7. CASE n = 2 * Size + 2 /\ Targets[n] = <<"index">>
      <3>1. view["index"] = kept.view["index"]
        BY <2>2, <2>3, <2>7, BatchIs DEF RestoredFrom
      <3> QED
        BY <2>1, <2>7, <3>1 DEF AsKept
    <2>8. CASE n = 2 * Size + 3 /\ Targets[n] = <<"manifest">>
      <3>1. manifest = kept.manifest
        BY <2>2, <2>3, <2>8, BatchIs DEF RestoredFrom
      <3> QED
        BY <2>1, <2>8, <3>1 DEF AsKept
    <2> QED
      BY <2>3, <2>4, <2>5, <2>6, <2>7, <2>8, NumbersAre
  <1> QED
    BY <1>1 DEF ImportInv, WholeOrNothing, Clear

(* The inductive invariant of the import                                   *)
THEOREM ImportInvariant == ImportSpec => []ImportInv
  BY ImportStarts, ImportStep, PTL DEF ImportSpec

(* A manifest means that the whole batch is there, unless two importers    *)
(* wrote at once or a rollback reported that the manifest is left; and an  *)
(* import that failed left nothing but the targets that its rollback could *)
(* not restore, when nobody else wrote meanwhile (apply_work_import).      *)
THEOREM ImportsAreWhole == ImportSpec => []WholeOrNothing
  BY ImportInvariant, ImportIsWhole, PTL

-----------------------------------------------------------------------------
(* The integration of a project, by any number of callers, with any        *)
(* directories and versions.                                               *)
(* What a call holds.                                                      *)
OfIntegration(s) == s.kind \in {"manual", "automatic"}

CallIs(s) ==
    /\ DOMAIN s = {"at", "kind", "plan", "disturbed"}
    /\ s.at \in {"checking", "putting", "vector", "code", "verifying", "verified", "failed"}
    /\ {"puts", "after"} \subseteq DOMAIN s.plan
    /\ s.plan.puts \subseteq Records
    /\ \A k \in Records : s.plan.after[k].revision \in Nat
    /\ s.at \in {"vector", "code", "verifying", "verified"} => OfIntegration(s)
    /\ OfIntegration(s) => {"vector", "code"} \subseteq DOMAIN s.plan

RecordsAre ==
    /\ DOMAIN rec = Records
    /\ \A k \in Records : rec[k].revision \in Nat

CallsAre ==
    /\ DOMAIN client = Callers
    /\ \A c \in Callers : client[c] = NoCall \/ CallIs(client[c])

(* The records that an integration leaves: all of a project, about one     *)
(* version and one revision of the binding                                 *)
Complete(p) ==
    /\ \A k \in Records : p.after[k].revision > 0
    /\ p.after["binding"].of = p.root
    /\ p.after["binding"].revision = p.bound
    /\ p.after["project"].of = <<Technologies(p.version), Modules(p.version)>>
    /\ p.after["state"].of = p.version
    /\ \A k \in Information \cup {"integration"} :
         [of |-> p.after[k].of, under |-> p.after[k].under] = Built(k, p.version, p.root, p.bound)

(* What is still true for a plan while nobody else writes: what it has put *)
(* is there, what it has to put is as it was planned against, and so are   *)
(* the indexes.                                                            *)
RecordsAsPlanned(p) ==
    \A k \in Records : IF k \in p.puts THEN rec[k].revision = p.after[k].revision - 1
                                       ELSE rec[k] = p.after[k]

IndexesAsPlanned(p) ==
    /\ p.catalog = Catalog(p.after, elsewhere)
    /\ ~p.vector => vector = p.catalog
    /\ p.vector => p.hadVector = (vector # <<>>)
    /\ ~p.code => code = <<p.version, p.bound>>
    /\ p.code => p.hadCode = (code # <<>>)

StagesAreDone(s) ==
    /\ s.at # "failed"
    /\ s.at \notin {"checking", "putting"} => s.plan.puts = {}
    /\ s.at \in {"code", "verifying", "verified"} => ~s.plan.vector
    /\ s.at \in {"verifying", "verified"} => ~s.plan.code

CallAsPlanned(s) ==
    /\ tree[s.plan.root] = s.plan.version
    /\ RecordsAsPlanned(s.plan)
    /\ OfIntegration(s) => Complete(s.plan) /\ IndexesAsPlanned(s.plan)
    /\ StagesAreDone(s)

ProjectInv ==
    /\ RecordsAre
    /\ CallsAre
    /\ \A c \in Callers : client[c] # NoCall /\ ~client[c].disturbed => CallAsPlanned(client[c])

LEMMA RecordsIs == Records = {"binding", "workspace", "project", "state", "source", "overview",
                              "capabilities", "integration"}
  <1>1. DOMAIN Kinds = 1 .. 8
    BY DEF Kinds
  <1>2. 1 .. 8 = {1, 2, 3, 4, 5, 6, 7, 8}
    OBVIOUS
  <1>3. /\ Kinds[1] = "binding" /\ Kinds[2] = "workspace" /\ Kinds[3] = "project"
        /\ Kinds[4] = "state" /\ Kinds[5] = "source" /\ Kinds[6] = "overview"
        /\ Kinds[7] = "capabilities" /\ Kinds[8] = "integration"
    BY DEF Kinds
  <1> QED
    BY <1>1, <1>2, <1>3 DEF Records

LEMMA NextPutIsOne ==
    ASSUME NEW c \in Callers, client[c].plan.puts \subseteq Records, client[c].plan.puts # {}
    PROVE  NextPut(c) \in client[c].plan.puts
  <1> DEFINE P(n) == Kinds[n] \in client[c].plan.puts
  <1> DEFINE First(n) == P(n) /\ \A m \in DOMAIN Kinds : P(m) => n <= m
  <1>1. DOMAIN Kinds = 1 .. 8
    BY DEF Kinds
  <1>2. \E n \in 1 .. 8 : P(n)
    BY <1>1 DEF Records
  <1>3. \E n \in 1 .. 8 : First(n)
    <2> HIDE DEF P
    <2>1. P(1) \/ P(2) \/ P(3) \/ P(4) \/ P(5) \/ P(6) \/ P(7) \/ P(8)
      BY <1>2
    <2> QED
      BY <1>1, <2>1
  <1>4. PICK n : n = CHOOSE x \in DOMAIN Kinds : First(x)
    OBVIOUS
  <1>5. First(n)
    BY <1>1, <1>3, <1>4
  <1>6. NextPut(c) = Kinds[n]
    BY <1>4 DEF NextPut
  <1> QED
    BY <1>5, <1>6

LEMMA ProjectStarts == ProjectInit => ProjectInv
  BY DEF ProjectInit, ProjectInv, RecordsAre, CallsAre, NoRecord

-----------------------------------------------------------------------------
(* While nobody else writes, a call passes all of its checks.              *)
LEMMA AsPlannedPasses ==
    ASSUME ProjectInv, NEW c \in Callers, client[c] # NoCall, ~client[c].disturbed
    PROVE  (Busy(c) => Passes(c)) /\ ~MayNotProfile(c)
  <1> PICK s : s = client[c]
    OBVIOUS
  <1> PICK p : p = s.plan
    OBVIOUS
  <1>1. CallAsPlanned(s) /\ CallIs(s)
    BY DEF ProjectInv, CallsAre
  <1>2. SourceCurrent(c)
    BY <1>1 DEF CallAsPlanned, SourceCurrent
  <1>3. ASSUME NEW k \in p.puts PROVE RecordCurrent(c, k)
    BY <1>1, <1>3 DEF CallAsPlanned, RecordsAsPlanned, RecordCurrent, CallIs
  <1>4. ASSUME p.puts = {}, OfIntegration(s) PROVE CatalogAsPlanned(c)
    <2>1. \A k \in Records : rec[k] = p.after[k]
      BY <1>1, <1>4 DEF CallAsPlanned, RecordsAsPlanned
    <2>2. Catalog(rec, elsewhere) = Catalog(p.after, elsewhere)
      BY <2>1, RecordsIs DEF Catalog, Information
    <2> QED
      BY <1>1, <1>4, <2>2 DEF CallAsPlanned, IndexesAsPlanned, CatalogAsPlanned
  <1>5. s.at = "putting" => Passes(c)
    <2>1. ASSUME s.at = "putting", p.puts # {} PROVE Passes(c)
      BY <1>1, <1>3, <2>1, NextPutIsOne DEF Passes, CallIs
    <2> QED
      BY <1>4, <2>1 DEF Passes, Integrates, OfIntegration
  <1>6. s.at = "verifying" => Passes(c)
    <2> SUFFICES ASSUME s.at = "verifying" PROVE Passes(c)
      OBVIOUS
    <2>1. p.puts = {} /\ OfIntegration(s) /\ Complete(p)
      BY <1>1 DEF CallAsPlanned, StagesAreDone, CallIs
    <2>2. rec["integration"] = p.after["integration"] /\ rec["capabilities"] = p.after["capabilities"]
      BY <1>1, <2>1, RecordsIs DEF CallAsPlanned, RecordsAsPlanned
    <2>3. ProfileCurrent(p.version, p.bound)
      BY <2>1, <2>2, RecordsIs DEF Complete, ProfileCurrent, Says, Built, Information
    <2> QED
      BY <2>1, <2>2, <2>3, RecordsIs DEF Passes, Complete
  <1>7. s.at = "vector" => Passes(c)
    BY <1>1 DEF CallAsPlanned, IndexesAsPlanned, CallIs, Passes
  <1>8. s.at = "code" => Passes(c)
    BY <1>1, <1>2 DEF CallAsPlanned, IndexesAsPlanned, CallIs, Passes
  <1>9. s.at = "checking" => Passes(c)
    BY <1>2, <1>3 DEF Passes
  <1>10. s.at \in {"checking", "putting", "vector", "code", "verifying"} => Passes(c)
    BY <1>5, <1>6, <1>7, <1>8, <1>9
  <1> QED
    BY <1>1, <1>2, <1>10 DEF MayNotProfile, Busy, CallIs, CallAsPlanned, StagesAreDone

(* What an integration completed leaves is what another one would leave.   *)
LEMMA CompletedIsDone ==
    ASSUME ProjectInv, NEW c \in Callers, client[c] # NoCall, ~client[c].disturbed,
           client[c].at = "verified", client[c].kind = "manual" \/ fresh
    PROVE  NothingToDo(PlanOf(client[c].kind))
  <1> PICK s : s = client[c]
    OBVIOUS
  <1> PICK p : p = s.plan
    OBVIOUS
  <1>1. CallAsPlanned(s) /\ CallIs(s) /\ OfIntegration(s) /\ RecordsAre
    BY DEF ProjectInv, CallsAre, CallIs
  <1>2. p.puts = {} /\ Complete(p) /\ IndexesAsPlanned(p) /\ ~p.vector /\ ~p.code
    BY <1>1 DEF CallAsPlanned, StagesAreDone
  <1>3. tree[p.root] = p.version /\ \A k \in Records : rec[k] = p.after[k]
    BY <1>1, <1>2 DEF CallAsPlanned, RecordsAsPlanned
  <1>4. /\ rec["binding"].revision = p.bound /\ rec["binding"].of = p.root
        /\ rec["binding"].revision > 0
        /\ rec["project"].of = <<Technologies(p.version), Modules(p.version)>>
        /\ rec["state"].of = p.version
        /\ \A k \in Records : rec[k].revision > 0
        /\ \A k \in Information \cup {"integration"} :
              Says(k) = Built(k, p.version, p.root, p.bound)
    <2>1. ASSUME NEW k \in Information \cup {"integration"}
          PROVE  Says(k) = Built(k, p.version, p.root, p.bound)
      <3>1. rec[k] = p.after[k]
        BY <1>3, RecordsIs DEF Information
      <3> QED
        BY <1>2, <3>1 DEF Complete, Says
    <2>2. \A k \in Records : rec[k].revision > 0
      BY <1>2, <1>3 DEF Complete
    <2>3. /\ rec["binding"] = p.after["binding"] /\ rec["project"] = p.after["project"]
          /\ rec["state"] = p.after["state"]
      BY <1>3, RecordsIs
    <2> QED
      BY <1>2, <2>1, <2>2, <2>3, RecordsIs DEF Complete
  <1>5. ~SomethingMissing
    <2>1. Says("capabilities") = Built("capabilities", p.version, p.root, p.bound)
      BY <1>4 DEF Information
    <2>2. ProfileCurrent(p.version, p.bound)
      BY <1>4, <2>1, RecordsIs DEF ProfileCurrent, Built
    <2>3. rec["integration"].of = p.version
      BY <1>4 DEF Says, Built
    <2> QED
      BY <1>4, <2>2, <2>3 DEF SomethingMissing
  <1> DEFINE scan == FALSE \/ Scans(s.kind)
             version == IF scan THEN tree[p.root] ELSE rec["state"].of
             after == [k \in Records |-> IF k \in {} THEN Successor(k, version, p.root, p.bound)
                                                     ELSE rec[k]]
  <1>6. version = p.version
    BY <1>3, <1>4
  <1>7. s.kind = "automatic" => ~scan
    BY <1>5 DEF Scans
  <1>8. ASSUME NEW k \in Records PROVE ~Needed(k, s.kind, scan, p.version, p.root, p.bound)
    <2>1. k = "project" => rec[k].of = Built(k, p.version, p.root, p.bound).of
      BY <1>4 DEF Built
    <2>2. k = "state" => rec[k].of = Built(k, p.version, p.root, p.bound).of
      BY <1>4 DEF Built
    <2>3. k \in Information \cup {"integration"} =>
             ~Differs(k, Built(k, p.version, p.root, p.bound))
      BY <1>4 DEF Differs
    <2> HIDE DEF scan
    <2>4. ~(k = "integration" /\ s.kind = "automatic" /\ scan)
      BY <1>7
    <2> QED
      BY <1>4, <2>1, <2>2, <2>3, <2>4 DEF Needed
  <1>9. Catalog(after, elsewhere) = Catalog(rec, elsewhere)
    BY RecordsIs DEF Catalog, Information
  <1>10. Catalog(rec, elsewhere) = p.catalog
    <2>1. Catalog(rec, elsewhere) = Catalog(p.after, elsewhere)
      BY <1>3, RecordsIs DEF Catalog, Information
    <2> QED
      BY <1>2, <2>1 DEF IndexesAsPlanned
  <1>11. vector = p.catalog /\ code = <<p.version, p.bound>>
    BY <1>2 DEF IndexesAsPlanned
  <1>12. {k \in Records : Needed(k, s.kind, scan, version, p.root, p.bound)} = {}
    BY <1>6, <1>8
  <1>13. PlanOf(s.kind).puts = {}
    BY <1>4, <1>12 DEF PlanOf
  <1>14. PlanOf(s.kind).vector = (vector # Catalog(after, elsewhere))
    BY <1>4, <1>12 DEF PlanOf
  <1>15. PlanOf(s.kind).code = (code # <<version, p.bound>>)
    BY <1>4, <1>12 DEF PlanOf
  <1> QED
    BY <1>6, <1>9, <1>10, <1>11, <1>13, <1>14, <1>15 DEF NothingToDo

LEMMA ProjectIsUndisturbed == ProjectInv => UndisturbedCompletes
  <1> SUFFICES ASSUME ProjectInv, NEW c \in Callers, client[c].at # "idle", ~client[c].disturbed
               PROVE  /\ client[c].at # "failed"
                      /\ client[c].at = "verified" /\ (client[c].kind = "manual" \/ fresh) =>
                           NothingToDo(PlanOf(client[c].kind))
    BY DEF UndisturbedCompletes
  <1>1. client[c] # NoCall
    BY DEF NoCall
  <1>2. client[c].at # "failed"
    BY <1>1 DEF ProjectInv, CallAsPlanned, StagesAreDone
  <1> QED
    BY <1>1, <1>2, CompletedIsDone

-----------------------------------------------------------------------------
(* A call begins with a plan that is right at this time.                   *)
LEMMA BeginStep ==
    ASSUME ProjectInv, NEW c \in Callers, NEW kind, NEW p, BeginCall(c, kind, p),
           {"puts", "after"} \subseteq DOMAIN p, p.puts \subseteq Records,
           \A k \in Records : p.after[k].revision \in Nat,
           kind \in {"manual", "automatic"} => {"vector", "code"} \subseteq DOMAIN p,
           RecordsAsPlanned(p),
           kind \in {"manual", "automatic"} => Complete(p) /\ IndexesAsPlanned(p)
    PROVE  ProjectInv'
  <1> PICK s : s = [at |-> "checking", kind |-> kind, plan |-> p,
                    disturbed |-> tree[p.root] # p.version]
    OBVIOUS
  <1>1. client' = [client EXCEPT ![c] = s] /\ UNCHANGED <<tree, rec, fresh, elsewhere, vector, code>>
    BY DEF BeginCall
  <1>2. CallIs(s)
    BY DEF CallIs, OfIntegration
  <1>3. ~s.disturbed => CallAsPlanned(s)
    BY DEF CallAsPlanned, StagesAreDone, OfIntegration
  <1>4. RecordsAre' /\ CallsAre'
    BY <1>1, <1>2 DEF ProjectInv, RecordsAre, CallsAre
  <1>5. ASSUME NEW d \in Callers, client'[d] # NoCall, ~client'[d].disturbed
        PROVE  CallAsPlanned(client[d])'
    <2>1. CallAsPlanned(client'[d])
      BY <1>1, <1>3, <1>5 DEF ProjectInv, CallsAre
    <2> QED
      BY <1>1, <2>1 DEF CallAsPlanned, RecordsAsPlanned, IndexesAsPlanned, StagesAreDone, Complete,
                        Catalog, OfIntegration
  <1> QED
    BY <1>4, <1>5 DEF ProjectInv

LEMMA SuccessorIs ==
    ASSUME RecordsAre, NEW k \in Records, NEW version, NEW root, NEW bound
    PROVE  LET next == Successor(k, version, root, bound)
               says == Built(k, version, root, bound)
           IN /\ next.revision = rec[k].revision + 1 /\ next.revision \in Nat
              /\ next.revision > 0 /\ rec[k].revision = next.revision - 1
              /\ next.of = says.of /\ next.under = says.under
  BY DEF Successor, RecordsAre

LEMMA IntegrateStep ==
    ASSUME ProjectInv, NEW c \in Callers, NEW mode \in {"manual", "automatic"},
           IntegrateProject(c, mode)
    PROVE  ProjectInv'
  <1> DEFINE new == rec["binding"].revision = 0
             root == IF new THEN 1 ELSE rec["binding"].of
             bound == IF new THEN 1 ELSE rec["binding"].revision
             scan == new \/ Scans(mode)
             version == IF scan THEN tree[root] ELSE rec["state"].of
             puts == {k \in Records : Needed(k, mode, scan, version, root, bound)}
             after == [k \in Records |->
                         IF k \in puts THEN Successor(k, version, root, bound) ELSE rec[k]]
  <1> PICK p : p = PlanOf(mode)
    OBVIOUS
  <1>1. /\ p.puts = puts /\ p.after = after /\ p.root = root /\ p.version = version
        /\ p.bound = bound /\ p.catalog = Catalog(after, elsewhere)
        /\ p.vector = (vector # Catalog(after, elsewhere)) /\ p.hadVector = (vector # <<>>)
        /\ p.code = (code # <<version, bound>>) /\ p.hadCode = (code # <<>>)
        /\ {"puts", "after", "vector", "code"} \subseteq DOMAIN p
    BY DEF PlanOf
  <1>2. BeginCall(c, mode, p)
    BY DEF IntegrateProject
  <1>3. RecordsAre
    BY DEF ProjectInv
  <1>4. PICK v, r, b : v = version /\ r = root /\ b = bound
    OBVIOUS
  <1>5. ASSUME NEW k \in Records
        PROVE  IF k \in puts THEN p.after[k] = Successor(k, v, r, b) ELSE p.after[k] = rec[k]
    BY <1>1, <1>4
  <1>6. ASSUME NEW k \in Records
        PROVE  k \in puts <=> Needed(k, mode, scan, v, r, b)
    BY <1>4
  <1> HIDE DEF puts, after, version, root, bound, scan
  <1>7. ASSUME NEW k \in Records
        PROVE  /\ p.after[k].revision \in Nat /\ p.after[k].revision > 0
               /\ IF k \in puts THEN rec[k].revision = p.after[k].revision - 1
                                ELSE rec[k] = p.after[k]
    <2>1. CASE k \in puts
      BY <1>3, <1>5, <2>1, SuccessorIs
    <2>2. CASE k \notin puts
      BY <1>3, <1>5, <1>6, <2>2 DEF RecordsAre, Needed
    <2> QED
      BY <2>1, <2>2
  <1>8. RecordsAsPlanned(p)
    BY <1>1, <1>7 DEF RecordsAsPlanned
  <1>9. IndexesAsPlanned(p)
    BY <1>1 DEF IndexesAsPlanned
  <1>10. p.after["binding"].of = r /\ p.after["binding"].revision = b
    <2>1. "binding" \in puts <=> new
      BY <1>6, RecordsIs DEF Needed, Information
    <2>2. CASE new
      BY <1>3, <1>4, <1>5, <2>1, <2>2, RecordsIs, SuccessorIs DEF Built, root, bound
    <2>3. CASE ~new
      BY <1>4, <1>5, <2>1, <2>3, RecordsIs DEF root, bound
    <2> QED
      BY <2>2, <2>3
  <1>11. ASSUME NEW k \in {"project", "state"}
         PROVE  p.after[k].of = Built(k, v, r, b).of
    <2>1. k \in Records
      BY RecordsIs
    <2>2. CASE k \in puts
      BY <1>3, <1>5, <2>1, <2>2, SuccessorIs
    <2>3. CASE k \notin puts
      BY <1>5, <1>6, <2>1, <2>3 DEF Needed
    <2> QED
      BY <2>2, <2>3
  <1>12. ASSUME NEW k \in Information \cup {"integration"}
         PROVE  [of |-> p.after[k].of, under |-> p.after[k].under] = Built(k, v, r, b)
    <2>1. k \in Records
      BY RecordsIs DEF Information
    <2>2. CASE k \in puts
      <3>1. p.after[k].of = Built(k, v, r, b).of /\ p.after[k].under = Built(k, v, r, b).under
        BY <1>3, <1>5, <2>1, <2>2, SuccessorIs
      <3> QED
        BY <3>1 DEF Built
    <2>3. CASE k \notin puts
      BY <1>5, <1>6, <2>1, <2>3 DEF Needed, Differs, Says
    <2> QED
      BY <2>2, <2>3
  <1>13. p.after["project"].of = <<Technologies(v), Modules(v)>> /\ p.after["state"].of = v
    BY <1>11 DEF Built
  <1>14. Complete(p)
    BY <1>1, <1>4, <1>7, <1>10, <1>12, <1>13 DEF Complete
  <1> QED
    BY <1>1, <1>2, <1>7, <1>8, <1>9, <1>14, BeginStep DEF puts

(* A plan of the other calls                                               *)
LEMMA PutsStep ==
    ASSUME ProjectInv, NEW c \in Callers, NEW kind, kind \in {"rescan", "rebind"},
           NEW puts \in SUBSET Records, NEW root, NEW put,
           \A k \in puts : put[k].revision = rec[k].revision + 1,
           BeginCall(c, kind, Puts(puts, put, root))
    PROVE  ProjectInv'
  <1> PICK p : p = Puts(puts, put, root)
    OBVIOUS
  <1>1. /\ p.puts = puts /\ {"puts", "after"} \subseteq DOMAIN p
        /\ \A k \in Records : IF k \in puts THEN p.after[k] = put[k] ELSE p.after[k] = rec[k]
    BY DEF Puts
  <1>2. RecordsAre
    BY DEF ProjectInv
  <1>3. ASSUME NEW k \in Records
        PROVE  /\ p.after[k].revision \in Nat
               /\ IF k \in puts THEN rec[k].revision = p.after[k].revision - 1
                                ELSE rec[k] = p.after[k]
    <2>1. CASE k \in puts
      BY <1>1, <1>2, <2>1 DEF RecordsAre
    <2>2. CASE k \notin puts
      BY <1>1, <1>2, <2>2 DEF RecordsAre
    <2> QED
      BY <2>1, <2>2
  <1>4. RecordsAsPlanned(p)
    BY <1>1, <1>3 DEF RecordsAsPlanned
  <1> QED
    BY <1>1, <1>3, <1>4, BeginStep

LEMMA RescanStep == ASSUME ProjectInv, NEW c \in Callers, Rescan(c) PROVE ProjectInv'
  <1> DEFINE root == rec["binding"].of
             put == [project |-> [revision |-> rec["project"].revision + 1, under |-> 0,
                                  of |-> <<Technologies(tree[root]), rec["project"].of[2]>>],
                     state   |-> Successor("state", tree[root], root, rec["binding"].revision)]
             puts == {k \in {"project", "state"} : rec[k].revision = 0 \/ rec[k].of # put[k].of}
  <1>1. BeginCall(c, "rescan", Puts(puts, put, root))
    BY DEF Rescan
  <1>2. puts \in SUBSET Records /\ puts \subseteq {"project", "state"}
    BY RecordsIs
  <1>3. \A k \in {"project", "state"} : put[k].revision = rec[k].revision + 1
    BY DEF Successor
  <1> HIDE DEF puts, put, root
  <1> QED
    BY <1>1, <1>2, <1>3, PutsStep

LEMMA RebindStep ==
    ASSUME ProjectInv, NEW c \in Callers, NEW root, RebindProject(c, root) PROVE ProjectInv'
  <1> DEFINE put == [k \in {"binding", "state"} |->
                       Successor(k, tree[root], root, rec["binding"].revision + 1)]
  <1>1. BeginCall(c, "rebind", Puts({"binding", "state"}, put, root))
    BY DEF RebindProject
  <1>2. \A k \in {"binding", "state"} : put[k].revision = rec[k].revision + 1
    BY DEF Successor
  <1> HIDE DEF put
  <1> QED
    BY <1>1, <1>2, RecordsIs, PutsStep

-----------------------------------------------------------------------------
(* A call goes on without writing, or ends.                                *)
LEMMA GoesOnStep ==
    ASSUME ProjectInv, NEW c \in Callers, client[c] # NoCall, NEW place, GoOn(c, place),
           UNCHANGED <<tree, rec, elsewhere, vector, code>>,
           place \in {"putting", "vector", "code", "verifying", "verified", "failed"},
           place \in {"vector", "code", "verifying", "verified"} => Integrates(c),
           ~client[c].disturbed =>
              /\ place # "failed"
              /\ place # "putting" => client[c].plan.puts = {}
              /\ place \in {"code", "verifying", "verified"} => ~client[c].plan.vector
              /\ place \in {"verifying", "verified"} => ~client[c].plan.code
    PROVE  ProjectInv'
  <1> PICK s : s = [client[c] EXCEPT !.at = place]
    OBVIOUS
  <1>1. CallIs(client[c])
    BY DEF ProjectInv, CallsAre
  <1>2. /\ s.at = place /\ s.kind = client[c].kind /\ s.plan = client[c].plan
        /\ s.disturbed = client[c].disturbed /\ DOMAIN s = DOMAIN client[c]
    BY <1>1 DEF CallIs
  <1>3. client' = [client EXCEPT ![c] = s]
    BY DEF GoOn
  <1>4. CallIs(s)
    BY <1>1, <1>2 DEF CallIs, Integrates, OfIntegration
  <1>5. ~s.disturbed => CallAsPlanned(s)
    BY <1>2 DEF ProjectInv, CallAsPlanned, StagesAreDone, OfIntegration
  <1>6. RecordsAre' /\ CallsAre'
    BY <1>3, <1>4 DEF ProjectInv, RecordsAre, CallsAre
  <1>7. ASSUME NEW d \in Callers, client'[d] # NoCall, ~client'[d].disturbed
        PROVE  CallAsPlanned(client[d])'
    <2>1. CallAsPlanned(client'[d])
      BY <1>3, <1>5, <1>7 DEF ProjectInv, CallsAre
    <2> QED
      BY <2>1 DEF CallAsPlanned, RecordsAsPlanned, IndexesAsPlanned, StagesAreDone, Complete,
                  Catalog, OfIntegration
  <1> QED
    BY <1>6, <1>7 DEF ProjectInv

LEMMA CallEndsStep ==
    ASSUME ProjectInv, NEW c \in Callers, client' = [client EXCEPT ![c] = NoCall],
           UNCHANGED <<tree, rec, elsewhere, vector, code>>
    PROVE  ProjectInv'
  <1>1. RecordsAre' /\ CallsAre'
    BY DEF ProjectInv, RecordsAre, CallsAre
  <1>2. ASSUME NEW d \in Callers, client'[d] # NoCall, ~client'[d].disturbed
        PROVE  CallAsPlanned(client[d])'
    <2>1. CallAsPlanned(client'[d])
      BY <1>2 DEF ProjectInv, CallsAre
    <2> QED
      BY <2>1 DEF CallAsPlanned, RecordsAsPlanned, IndexesAsPlanned, StagesAreDone, Complete,
                  Catalog, OfIntegration
  <1> QED
    BY <1>1, <1>2 DEF ProjectInv

(* Whoever is at work when somebody else writes is disturbed.              *)
LEMMA DisturbedIs ==
    ASSUME NEW s, s = NoCall \/ CallIs(s)
    PROVE  /\ Disturbed(s) = NoCall \/ CallIs(Disturbed(s))
           /\ Disturbed(s) # NoCall => Disturbed(s).disturbed
  <1>1. CASE s = NoCall
    BY <1>1 DEF Disturbed, NoCall
  <1>2. CASE CallIs(s)
    <2>1. s.at # "idle"
      BY <1>2 DEF CallIs
    <2> PICK t : t = [s EXCEPT !.disturbed = TRUE]
      OBVIOUS
    <2>2. /\ t.at = s.at /\ t.kind = s.kind /\ t.plan = s.plan /\ t.disturbed
          /\ DOMAIN t = DOMAIN s
      BY <1>2 DEF CallIs
    <2>3. CallIs(t)
      BY <1>2, <2>2 DEF CallIs, OfIntegration
    <2> QED
      BY <2>1, <2>2, <2>3 DEF Disturbed
  <1> QED
    BY <1>1, <1>2

LEMMA AllDisturbedStep == ASSUME ProjectInv, DisturbAll, UNCHANGED rec PROVE ProjectInv'
  <1>1. ASSUME NEW d \in Callers
        PROVE  /\ client'[d] = NoCall \/ CallIs(client'[d])
               /\ client'[d] # NoCall => client'[d].disturbed
    BY DisturbedIs DEF ProjectInv, CallsAre, DisturbAll
  <1> QED
    BY <1>1 DEF ProjectInv, CallsAre, RecordsAre, DisturbAll

LEMMA WrittenStep ==
    ASSUME ProjectInv, NEW c \in Callers, NEW s, WrittenBy(c, s), CallIs(s), RecordsAre',
           ~s.disturbed => CallAsPlanned(s)'
    PROVE  ProjectInv'
  <1>1. ASSUME NEW d \in Callers
        PROVE  /\ client'[d] = NoCall \/ CallIs(client'[d])
               /\ d # c => (client'[d] # NoCall => client'[d].disturbed)
    BY DisturbedIs DEF ProjectInv, CallsAre, WrittenBy
  <1>2. client'[c] = s /\ DOMAIN client' = Callers
    BY DEF WrittenBy
  <1>3. ASSUME NEW d \in Callers, client'[d] # NoCall, ~client'[d].disturbed
        PROVE  CallAsPlanned(client[d])'
    <2>1. d = c
      BY <1>1, <1>3
    <2> QED
      BY <1>2, <1>3, <2>1 DEF CallAsPlanned, RecordsAsPlanned, IndexesAsPlanned, StagesAreDone,
                              Complete, Catalog, OfIntegration
  <1> QED
    BY <1>1, <1>2, <1>3 DEF ProjectInv, CallsAre

LEMMA PutStep == ASSUME ProjectInv, NEW c \in Callers, PutNext(c) PROVE ProjectInv'
  <1> PICK s : s = client[c]
    OBVIOUS
  <1> PICK p : p = s.plan
    OBVIOUS
  <1> PICK k : k = NextPut(c)
    OBVIOUS
  <1> PICK q : q = [p EXCEPT !.puts = @ \ {k}]
    OBVIOUS
  <1> PICK t : t = [s EXCEPT !.plan.puts = @ \ {k}]
    OBVIOUS
  <1>1. CallIs(s) /\ s.at = "putting" /\ p.puts # {}
    BY DEF PutNext, ProjectInv, CallsAre, NoCall
  <1>2. k \in p.puts /\ k \in Records
    BY <1>1, NextPutIsOne DEF CallIs
  <1>3. /\ q.puts = p.puts \ {k} /\ q.after = p.after /\ q.root = p.root /\ q.version = p.version
        /\ q.bound = p.bound /\ q.catalog = p.catalog /\ q.vector = p.vector /\ q.code = p.code
        /\ q.hadVector = p.hadVector /\ q.hadCode = p.hadCode /\ DOMAIN q = DOMAIN p
    BY <1>1 DEF CallIs
  <1>4. /\ t.at = s.at /\ t.kind = s.kind /\ t.disturbed = s.disturbed /\ t.plan = q
        /\ DOMAIN t = DOMAIN s
    BY <1>1 DEF CallIs
  <1>5. rec' = [rec EXCEPT ![k] = p.after[k]] /\ UNCHANGED <<tree, elsewhere, vector, code>>
    BY DEF PutNext
  <1>6. WrittenBy(c, t)
    BY DEF PutNext
  <1>7. CallIs(t)
    BY <1>1, <1>3, <1>4 DEF CallIs, OfIntegration
  <1>8. RecordsAre'
    BY <1>1, <1>2, <1>5 DEF ProjectInv, RecordsAre, CallIs
  <1>9. ~t.disturbed => CallAsPlanned(t)'
    <2> SUFFICES ASSUME ~s.disturbed PROVE CallAsPlanned(t)'
      BY <1>4
    <2>1. CallAsPlanned(s)
      BY <1>1 DEF ProjectInv, NoCall
    <2>2. \A j \in Records : IF j \in q.puts THEN rec'[j].revision = q.after[j].revision - 1
                                             ELSE rec'[j] = q.after[j]
      BY <1>2, <1>3, <1>5, <2>1 DEF CallAsPlanned, RecordsAsPlanned, ProjectInv, RecordsAre
    <2>3. tree'[q.root] = q.version /\ RecordsAsPlanned(q)' /\ StagesAreDone(t)
      BY <1>1, <1>3, <1>4, <1>5, <2>1, <2>2 DEF CallAsPlanned, RecordsAsPlanned, StagesAreDone
    <2>4. Complete(p) => Complete(q)
      BY <1>3 DEF Complete
    <2>5. IndexesAsPlanned(p) => IndexesAsPlanned(q)'
      BY <1>3, <1>5 DEF IndexesAsPlanned, Catalog
    <2>6. OfIntegration(t) => Complete(q) /\ IndexesAsPlanned(q)'
      BY <1>4, <2>1, <2>4, <2>5 DEF CallAsPlanned, OfIntegration
    <2> QED
      BY <1>4, <2>3, <2>6 DEF CallAsPlanned, StagesAreDone, Complete, OfIntegration
  <1> QED
    BY <1>6, <1>7, <1>8, <1>9, WrittenStep

LEMMA ReplaceVectorStep == ASSUME ProjectInv, NEW c \in Callers, ReplaceVector(c) PROVE ProjectInv'
  <1> PICK s : s = client[c]
    OBVIOUS
  <1> PICK p : p = s.plan
    OBVIOUS
  <1> PICK q : q = [p EXCEPT !.vector = FALSE]
    OBVIOUS
  <1> PICK t : t = [s EXCEPT !.plan.vector = FALSE]
    OBVIOUS
  <1>1. CallIs(s) /\ s.at = "vector" /\ OfIntegration(s)
    BY DEF ReplaceVector, ProjectInv, CallsAre, NoCall, CallIs
  <1>2. /\ q.puts = p.puts /\ q.after = p.after /\ q.root = p.root /\ q.version = p.version
        /\ q.bound = p.bound /\ q.catalog = p.catalog /\ q.vector = FALSE /\ q.code = p.code
        /\ q.hadVector = p.hadVector /\ q.hadCode = p.hadCode /\ DOMAIN q = DOMAIN p
    BY <1>1 DEF CallIs
  <1>3. /\ t.at = s.at /\ t.kind = s.kind /\ t.disturbed = s.disturbed /\ t.plan = q
        /\ DOMAIN t = DOMAIN s
    BY <1>1 DEF CallIs
  <1>4. vector' = p.catalog /\ UNCHANGED <<tree, rec, elsewhere, code>> /\ WrittenBy(c, t)
    BY DEF ReplaceVector
  <1>5. CallIs(t)
    BY <1>1, <1>2, <1>3 DEF CallIs, OfIntegration
  <1>6. ~t.disturbed => CallAsPlanned(t)'
    <2> SUFFICES ASSUME ~s.disturbed PROVE CallAsPlanned(t)'
      BY <1>3
    <2>1. CallAsPlanned(s)
      BY <1>1 DEF ProjectInv, NoCall
    <2>2. tree'[q.root] = q.version /\ RecordsAsPlanned(q)' /\ StagesAreDone(t)
      BY <1>1, <1>2, <1>3, <1>4, <2>1 DEF CallAsPlanned, RecordsAsPlanned, StagesAreDone
    <2>3. Complete(p) /\ IndexesAsPlanned(p)
      BY <1>1, <2>1 DEF CallAsPlanned
    <2>4. Complete(q)
      BY <1>2, <2>3 DEF Complete
    <2>5. IndexesAsPlanned(q)'
      BY <1>2, <1>4, <2>3 DEF IndexesAsPlanned, Catalog
    <2> QED
      BY <1>3, <2>2, <2>4, <2>5 DEF CallAsPlanned, StagesAreDone, Complete, OfIntegration
  <1> QED
    BY <1>4, <1>5, <1>6, WrittenStep DEF ProjectInv, RecordsAre

LEMMA ReplaceCodeStep == ASSUME ProjectInv, NEW c \in Callers, ReplaceCode(c) PROVE ProjectInv'
  <1> PICK s : s = client[c]
    OBVIOUS
  <1> PICK p : p = s.plan
    OBVIOUS
  <1> PICK q : q = [p EXCEPT !.code = FALSE]
    OBVIOUS
  <1> PICK t : t = [s EXCEPT !.plan.code = FALSE]
    OBVIOUS
  <1>1. CallIs(s) /\ s.at = "code" /\ OfIntegration(s)
    BY DEF ReplaceCode, ProjectInv, CallsAre, NoCall, CallIs
  <1>2. /\ q.puts = p.puts /\ q.after = p.after /\ q.root = p.root /\ q.version = p.version
        /\ q.bound = p.bound /\ q.catalog = p.catalog /\ q.vector = p.vector /\ q.code = FALSE
        /\ q.hadVector = p.hadVector /\ q.hadCode = p.hadCode /\ DOMAIN q = DOMAIN p
    BY <1>1 DEF CallIs
  <1>3. /\ t.at = s.at /\ t.kind = s.kind /\ t.disturbed = s.disturbed /\ t.plan = q
        /\ DOMAIN t = DOMAIN s
    BY <1>1 DEF CallIs
  <1>4. /\ code' = <<p.version, p.bound>> /\ UNCHANGED <<tree, rec, elsewhere, vector>>
        /\ WrittenBy(c, t)
    BY DEF ReplaceCode
  <1>5. CallIs(t)
    BY <1>1, <1>2, <1>3 DEF CallIs, OfIntegration
  <1>6. ~t.disturbed => CallAsPlanned(t)'
    <2> SUFFICES ASSUME ~s.disturbed PROVE CallAsPlanned(t)'
      BY <1>3
    <2>1. CallAsPlanned(s)
      BY <1>1 DEF ProjectInv, NoCall
    <2>2. tree'[q.root] = q.version /\ RecordsAsPlanned(q)' /\ StagesAreDone(t)
      BY <1>1, <1>2, <1>3, <1>4, <2>1 DEF CallAsPlanned, RecordsAsPlanned, StagesAreDone
    <2>3. Complete(p) /\ IndexesAsPlanned(p)
      BY <1>1, <2>1 DEF CallAsPlanned
    <2>4. Complete(q)
      BY <1>2, <2>3 DEF Complete
    <2>5. IndexesAsPlanned(q)'
      BY <1>2, <1>4, <2>3 DEF IndexesAsPlanned, Catalog
    <2> QED
      BY <1>3, <2>2, <2>4, <2>5 DEF CallAsPlanned, StagesAreDone, Complete, OfIntegration
  <1> QED
    BY <1>4, <1>5, <1>6, WrittenStep DEF ProjectInv, RecordsAre

LEMMA ProjectStep == ProjectInv /\ [ProjectNext]_projectVars => ProjectInv'
  <1> SUFFICES ASSUME ProjectInv, [ProjectNext]_projectVars PROVE ProjectInv'
    OBVIOUS
  <1>1. ASSUME NEW c \in Callers, Rescan(c) PROVE ProjectInv'
    BY <1>1, RescanStep
  <1>2. ASSUME NEW c \in Callers, NEW root, RebindProject(c, root) PROVE ProjectInv'
    BY <1>2, RebindStep
  <1>3. ASSUME NEW c \in Callers, Check(c) PROVE ProjectInv'
    BY <1>3, GoesOnStep DEF Check, NoCall
  <1>4. ASSUME NEW c \in Callers, BuildCatalog(c) PROVE ProjectInv'
    BY <1>4, GoesOnStep, CallEndsStep DEF BuildCatalog, NoCall
  <1>5. ASSUME NEW c \in Callers, VerifyVector(c) PROVE ProjectInv'
    <2>1. client[c] # NoCall /\ CallIs(client[c])
      BY <1>5 DEF VerifyVector, NoCall, ProjectInv, CallsAre
    <2> QED
      BY <1>5, <2>1, GoesOnStep
         DEF VerifyVector, ProjectInv, CallAsPlanned, StagesAreDone, CallIs, OfIntegration, Integrates
  <1>6. ASSUME NEW c \in Callers, VerifyCode(c) PROVE ProjectInv'
    <2>1. client[c] # NoCall /\ CallIs(client[c])
      BY <1>6 DEF VerifyCode, NoCall, ProjectInv, CallsAre
    <2> QED
      BY <1>6, <2>1, GoesOnStep
         DEF VerifyCode, ProjectInv, CallAsPlanned, StagesAreDone, CallIs, OfIntegration, Integrates
  <1>7. ASSUME NEW c \in Callers, VerifyAll(c) PROVE ProjectInv'
    <2>1. client[c] # NoCall /\ CallIs(client[c])
      BY <1>7 DEF VerifyAll, NoCall, ProjectInv, CallsAre
    <2> QED
      BY <1>7, <2>1, GoesOnStep
         DEF VerifyAll, ProjectInv, CallAsPlanned, StagesAreDone, CallIs, OfIntegration, Integrates
  <1>8. ASSUME NEW c \in Callers, CallFails(c) PROVE ProjectInv'
    <2>1. client[c] # NoCall
      BY <1>8 DEF CallFails, Busy, NoCall
    <2>2. client[c].disturbed
      BY <1>8, <2>1, AsPlannedPasses DEF CallFails
    <2> QED
      BY <1>8, <2>1, <2>2, GoesOnStep DEF CallFails
  <1>9. ASSUME NEW c \in Callers, CallDies(c) PROVE ProjectInv'
    BY <1>9, CallEndsStep DEF CallDies
  <1>10. CASE \E root \in Directories, version \in Versions : EditSource(root, version)
    BY <1>10, AllDisturbedStep DEF EditSource
  <1>11. CASE OthersChange
    BY <1>11, AllDisturbedStep DEF OthersChange
  <1>12. CASE Age \/ UNCHANGED projectVars
    BY <1>12 DEF Age, projectVars, ProjectInv, RecordsAre, CallsAre, CallAsPlanned, RecordsAsPlanned,
                 IndexesAsPlanned, StagesAreDone, Complete, OfIntegration, Catalog
  <1> QED
    BY <1>1, <1>2, <1>3, <1>4, <1>5, <1>6, <1>7, <1>8, <1>9, <1>10, <1>11, <1>12, IntegrateStep,
       PutStep, ReplaceVectorStep, ReplaceCodeStep DEF ProjectNext

(* The inductive invariant of the integration of a project                 *)
THEOREM ProjectInvariant == ProjectSpec => []ProjectInv
  BY ProjectStarts, ProjectStep, PTL DEF ProjectSpec

(* Whatever interrupted calls left behind, an integration that nobody      *)
(* disturbs passes all of its checks, and another one finds nothing left   *)
(* to do (project_integration.py).                                         *)
THEOREM UndisturbedIntegrates == ProjectSpec => []UndisturbedCompletes
  BY ProjectInvariant, ProjectIsUndisturbed, PTL

-----------------------------------------------------------------------------
(* The checks of models and their assignment to the steps of a plan, for   *)
(* any models, entries, plans and checkers.                                *)
HealthRecord ==
    [revision : Nat, of : Entries, at : Nat, failures : Nat,
     status : {"health-passed", "health-failed", "quarantined"}, until : Nat]

CheckResult == [of : Entries, at : Nat, passed : BOOLEAN]

CheckState ==
    {NoCheck}
    \cup [at : {"approved", "admitting", "admitted"}, model : 1 .. Models, force : BOOLEAN,
          of : Entries, revision : Nat]
    \cup [at : {"probing"}, model : 1 .. Models, of : Entries]
    \cup [at : {"putting"}, model : 1 .. Models, record : HealthRecord]

Assignments ==
    {[model |-> m, id |-> e.id, of |-> e] : m \in 1 .. Models, e \in Entries}
    \cup {[model |-> NoModel, id |-> DefaultId]}

Decision ==
    [at : {"reading", "decided"}, plan : {p \in Plans : PlanAccepted(p)}, now : Nat,
     got : Seq(Entries \cup HealthRecord), made : Seq(Assignments)]

AssignmentTypeOK ==
    /\ clock \in Nat
    /\ inventory \in [1 .. Models -> Entries]
    /\ health \in [1 .. Models -> HealthRecord]
    /\ results \in [1 .. Models -> Seq(CheckResult)]
    /\ checker \in [Checkers -> CheckState]
    /\ planner \in Decision \cup {NoCheck}

(* A health record is what the last result made of the one before.         *)
RightStatus(h) ==
    /\ h.status = "quarantined" <=> h.failures >= Threshold
    /\ h.status = "health-passed" <=> h.failures = 0

Counted(list, n) ==
    /\ n <= Len(list) /\ FailedInARow(list, n)
    /\ n < Len(list) => ~FailedInARow(list, n + 1)

HealthIsCounted ==
    \A m \in 1 .. Models :
      LET list == results[m]
          last == list[Len(list)]
          n    == health[m].failures
      IN  /\ Len(list) > 0 /\ health[m].revision = Len(list)
          /\ last.of = health[m].of /\ last.at = health[m].at
          /\ last.passed <=> health[m].status = "health-passed"
          /\ RightStatus(health[m])
          /\ Counted(list, n)

(* A record that is about to be put was made of the one there is, or it is *)
(* refused.                                                                *)
CountedOn(h, previous) ==
    h.failures = (IF h.status = "health-passed" THEN 0
                  ELSE IF previous.of = h.of THEN previous.failures + 1 ELSE 1)

PutsAreCounted ==
    \A c \in Checkers : checker[c].at = "putting" =>
      LET h == checker[c].record
          m == checker[c].model
      IN  /\ RightStatus(h)
          /\ h.revision <= health[m].revision + 1
          /\ h.revision = health[m].revision + 1 => CountedOn(h, health[m])

(* What was read about a model is what was once there.                     *)
PassedOnce(m, of, at) ==
    \E r \in DOMAIN results[m] :
      results[m][r].of = of /\ results[m][r].at = at /\ results[m][r].passed

ReadWasThere ==
    planner # NoCheck =>
      /\ Len(planner.got) <= 2 * Models
      /\ \A k \in 1 .. Models : k <= Len(planner.got) => EntryRead(k) \in Entries
      /\ \A m \in 1 .. Models : Models + m <= Len(planner.got) =>
           /\ HealthRead(m) \in HealthRecord
           /\ HealthRead(m).status = "health-passed" =>
                PassedOnce(m, HealthRead(m).of, HealthRead(m).at)

(* Workers that come before a verifier have another model.                 *)
MadeInOrder ==
    planner # NoCheck =>
      /\ planner.at = "reading" => Len(planner.made) < Len(planner.plan)
      /\ Len(planner.made) <= Len(planner.plan)
      /\ \A v \in DOMAIN planner.made : \A w \in 1 .. v - 1 :
           planner.plan[v].role = "verifier" /\ planner.plan[w].role = "worker" =>
             /\ planner.made[v].model # NoModel => planner.made[v].model # planner.made[w].model
             /\ planner.made[v].id # NoId => planner.made[v].id # planner.made[w].id

AssignmentInv ==
    AssignmentTypeOK /\ HealthIsCounted /\ PutsAreCounted /\ ReadWasThere /\ MadeInOrder
      /\ AssignedWereTested

LEMMA AssignmentStarts == AssignmentInit => AssignmentInv
  <1> SUFFICES ASSUME AssignmentInit PROVE AssignmentInv
    OBVIOUS
  <1> USE ModelsAssumption
  <1>1. ASSUME NEW m \in 1 .. Models
        PROVE  /\ inventory[m] \in Entries
               /\ health[m] \in HealthRecord
               /\ health[m].revision = 1 /\ health[m].of = inventory[m] /\ health[m].at = 0
               /\ health[m].status = "health-passed" /\ health[m].failures = 0
    <2> PICK h : h = Record(NoHealth, inventory[m], TRUE)
      OBVIOUS
    <2>1. h = [revision |-> 1, of |-> inventory[m], at |-> clock, failures |-> 0,
               status |-> "health-passed", until |-> 0]
      BY DEF Record, Failures, NoHealth
    <2>2. health[m] = [h EXCEPT !.at = 0]
      BY DEF AssignmentInit
    <2>3. inventory[m] \in Entries
      BY DEF AssignmentInit
    <2>4. health[m] = [revision |-> 1, of |-> inventory[m], at |-> 0, failures |-> 0,
                       status |-> "health-passed", until |-> 0]
      BY <2>1, <2>2
    <2> QED
      BY <2>3, <2>4 DEF HealthRecord
  <1>2. ASSUME NEW m \in 1 .. Models
        PROVE  /\ results[m] = <<[of |-> inventory[m], at |-> 0, passed |-> TRUE]>>
               /\ results[m] \in Seq(CheckResult)
               /\ Len(results[m]) = 1
               /\ results[m][1] = [of |-> inventory[m], at |-> 0, passed |-> TRUE]
    <2> PICK x : x = [of |-> inventory[m], at |-> 0, passed |-> TRUE]
      OBVIOUS
    <2>1. x \in CheckResult
      BY <1>1 DEF CheckResult
    <2>2. results[m] = <<x>>
      BY DEF AssignmentInit
    <2> QED
      BY <2>1, <2>2
  <1>3. health \in [1 .. Models -> HealthRecord] /\ results \in [1 .. Models -> Seq(CheckResult)]
    BY <1>1, <1>2 DEF AssignmentInit
  <1>4. AssignmentTypeOK
    BY <1>1, <1>3 DEF AssignmentInit, AssignmentTypeOK, CheckState
  <1>5. HealthIsCounted
    <2> SUFFICES ASSUME NEW m \in 1 .. Models
                 PROVE  LET list == results[m]
                            last == list[Len(list)]
                            n    == health[m].failures
                        IN  /\ Len(list) > 0 /\ health[m].revision = Len(list)
                            /\ last.of = health[m].of /\ last.at = health[m].at
                            /\ last.passed <=> health[m].status = "health-passed"
                            /\ RightStatus(health[m])
                            /\ Counted(list, n)
      BY DEF HealthIsCounted
    <2>1. Len(results[m]) = 1 /\ results[m][1] = [of |-> inventory[m], at |-> 0, passed |-> TRUE]
      BY <1>2
    <2>2. Counted(results[m], 0)
      BY <2>1 DEF Counted, FailedInARow
    <2> QED
      BY <1>1, <2>1, <2>2 DEF RightStatus
  <1> QED
    BY <1>4, <1>5 DEF AssignmentInit, AssignmentInv, PutsAreCounted, ReadWasThere, MadeInOrder,
                      AssignedWereTested, NoCheck

-----------------------------------------------------------------------------
(* Counting.                                                               *)
LEMMA FailuresGrow ==
    ASSUME NEW list \in Seq(CheckResult), Len(list) > 0, NEW n \in Nat, Counted(list, n),
           n = 0 <=> list[Len(list)].passed,
           NEW x \in CheckResult, NEW next, next = Append(list, x), NEW k \in Nat,
           k = (IF x.passed THEN 0 ELSE IF list[Len(list)].of = x.of THEN n + 1 ELSE 1)
    PROVE  Counted(next, k)
  <1> USE DEF Counted
  <1>1. /\ Len(next) = Len(list) + 1 /\ next[Len(list) + 1] = x
        /\ \A i \in 1 .. Len(list) : next[i] = list[i]
    BY DEF CheckResult
  <1>2. Len(list) \in Nat
    OBVIOUS
  <1>3. CASE x.passed
    BY <1>1, <1>2, <1>3 DEF FailedInARow
  <1>4. CASE ~x.passed /\ list[Len(list)].of # x.of
    <2>1. FailedInARow(next, 1)
      BY <1>1, <1>2, <1>4 DEF FailedInARow
    <2>2. ~FailedInARow(next, 2)
      BY <1>1, <1>2, <1>4 DEF FailedInARow
    <2> QED
      BY <1>1, <1>2, <1>4, <2>1, <2>2
  <1>5. CASE ~x.passed /\ list[Len(list)].of = x.of
    <2>1. FailedInARow(next, n + 1)
      BY <1>1, <1>2, <1>5 DEF FailedInARow
    <2>2. ASSUME n < Len(list) PROVE ~FailedInARow(next, n + 2)
      <3>1. PICK i \in Len(list) - (n + 1) + 1 .. Len(list) :
                 list[i].passed \/ list[i].of # list[Len(list)].of
        BY <2>2 DEF FailedInARow
      <3>2. i \in Len(next) - (n + 2) + 1 .. Len(next) /\ i \in 1 .. Len(list)
        BY <1>1, <1>2, <2>2, <3>1
      <3> QED
        BY <1>1, <1>5, <3>1, <3>2 DEF FailedInARow
    <2>3. k = n + 1
      BY <1>5
    <2> QED
      BY <1>1, <1>2, <2>1, <2>2, <2>3
  <1> QED
    BY <1>3, <1>4, <1>5

-----------------------------------------------------------------------------
(* Health checks.                                                          *)
RightPut(s) ==
    s.at = "putting" =>
      /\ RightStatus(s.record)
      /\ s.record.revision <= health[s.model].revision + 1
      /\ s.record.revision = health[s.model].revision + 1 => CountedOn(s.record, health[s.model])

LEMMA CheckerStep ==
    ASSUME AssignmentInv, NEW c \in Checkers, NEW s \in CheckState, checker' = [checker EXCEPT ![c] = s],
           UNCHANGED <<clock, inventory, health, planner, results, changes>>, RightPut(s)
    PROVE  AssignmentInv'
  <1>1. AssignmentTypeOK'
    BY DEF AssignmentInv, AssignmentTypeOK
  <1>2. PutsAreCounted'
    <2> SUFFICES ASSUME NEW d \in Checkers, checker'[d].at = "putting"
                 PROVE  LET h == checker'[d].record
                            m == checker'[d].model
                        IN  /\ RightStatus(h)
                            /\ h.revision <= health[m].revision + 1
                            /\ h.revision = health[m].revision + 1 => CountedOn(h, health[m])
      BY DEF PutsAreCounted, RightStatus, CountedOn
    <2>1. CASE d = c
      BY <2>1 DEF RightPut, AssignmentInv, AssignmentTypeOK
    <2>2. CASE d # c
      BY <2>2 DEF AssignmentInv, AssignmentTypeOK, PutsAreCounted
    <2> QED
      BY <2>1, <2>2
  <1> QED
    BY <1>1, <1>2 DEF AssignmentInv, HealthIsCounted, ReadWasThere, MadeInOrder, AssignedWereTested,
                      RightStatus, Counted, FailedInARow, PassedOnce, EntryRead, HealthRead, NoCheck

LEMMA CheckGoesOn ==
    ASSUME AssignmentInv, NEW c \in Checkers, NEW place \in {"admitting", "admitted"},
           checker[c].at \in {"approved", "admitting"}, CheckAt(c, place),
           UNCHANGED <<clock, inventory, health, planner, results, changes>>
    PROVE  AssignmentInv'
  <1> PICK s : s = [checker[c] EXCEPT !.at = place]
    OBVIOUS
  <1>1. s \in CheckState /\ s.at = place
    BY DEF AssignmentInv, AssignmentTypeOK, CheckState, NoCheck
  <1> QED
    BY <1>1, CheckerStep DEF CheckAt, RightPut

LEMMA PlanCheckStep ==
    ASSUME AssignmentInv, NEW c \in Checkers, NEW m \in 1 .. Models, NEW force \in BOOLEAN,
           PlanCheck(c, m, force)
    PROVE  AssignmentInv'
  <1> PICK s : s = [at |-> "approved", model |-> m, force |-> force, of |-> inventory[m],
                    revision |-> health[m].revision]
    OBVIOUS
  <1>1. s \in CheckState /\ s.at = "approved"
    BY DEF AssignmentInv, AssignmentTypeOK, CheckState, HealthRecord
  <1> QED
    BY <1>1, CheckerStep DEF PlanCheck, RightPut

LEMMA ProbeStep == ASSUME AssignmentInv, NEW c \in Checkers, Probe(c) PROVE AssignmentInv'
  <1>1. checker[c].model \in 1 .. Models
    BY DEF Probe, AssignmentInv, AssignmentTypeOK, CheckState, NoCheck
  <1> PICK s : s = [at |-> "probing", model |-> checker[c].model,
                    of |-> inventory[checker[c].model]]
    OBVIOUS
  <1>2. s \in CheckState /\ s.at = "probing"
    BY <1>1 DEF AssignmentInv, AssignmentTypeOK, CheckState
  <1> QED
    BY <1>2, CheckerStep DEF Probe, RightPut

LEMMA RecordIs ==
    ASSUME NEW previous \in HealthRecord, previous.revision > 0, NEW entry \in Entries,
           NEW passed \in BOOLEAN, clock \in Nat
    PROVE  LET h == Record(previous, entry, passed)
           IN  /\ h \in HealthRecord /\ h.of = entry /\ RightStatus(h)
               /\ h.revision = previous.revision + 1 /\ CountedOn(h, previous)
  <1> USE ModelsAssumption
  <1> PICK h : h = Record(previous, entry, passed)
    OBVIOUS
  <1> PICK n : n = Failures(previous, entry, passed)
    OBVIOUS
  <1> PICK status : status = IF passed THEN "health-passed"
                             ELSE IF n >= Threshold THEN "quarantined" ELSE "health-failed"
    OBVIOUS
  <1> PICK until : until = IF status = "quarantined" THEN clock + Cooldown ELSE 0
    OBVIOUS
  <1>1. h = [revision |-> previous.revision + 1, of |-> entry, at |-> clock, failures |-> n,
             status |-> status, until |-> until]
    BY DEF Record
  <1>2. previous # NoHealth
    BY DEF NoHealth
  <1>3. /\ n = IF passed THEN 0 ELSE IF previous.of = entry THEN previous.failures + 1 ELSE 1
        /\ n \in Nat /\ (~passed => n > 0)
    BY <1>2 DEF Failures, HealthRecord
  <1>4. until \in Nat
    OBVIOUS
  <1>5. h \in HealthRecord
    BY <1>1, <1>3, <1>4 DEF HealthRecord
  <1>6. status = "health-passed" <=> passed
    OBVIOUS
  <1>7. RightStatus(h)
    BY <1>1, <1>3, <1>6 DEF RightStatus
  <1>8. CountedOn(h, previous)
    BY <1>1, <1>3, <1>6 DEF CountedOn
  <1> QED
    BY <1>1, <1>5, <1>7, <1>8

LEMMA ObserveStep ==
    ASSUME AssignmentInv, NEW c \in Checkers, NEW passed \in BOOLEAN, Observe(c, passed)
    PROVE  AssignmentInv'
  <1> PICK m : m = checker[c].model
    OBVIOUS
  <1> PICK h : h = Record(health[m], checker[c].of, passed)
    OBVIOUS
  <1> PICK s : s = [at |-> "putting", model |-> m, record |-> h]
    OBVIOUS
  <1>1. checker[c].at = "probing" /\ m \in 1 .. Models /\ checker[c].of \in Entries
    BY DEF Observe, AssignmentInv, AssignmentTypeOK, CheckState, NoCheck
  <1>2. health[m] \in HealthRecord /\ health[m].revision > 0 /\ clock \in Nat
    BY <1>1 DEF AssignmentInv, AssignmentTypeOK, HealthIsCounted
  <1>3. /\ h \in HealthRecord /\ RightStatus(h)
        /\ h.revision = health[m].revision + 1 /\ CountedOn(h, health[m])
    BY <1>1, <1>2, RecordIs
  <1>4. s \in CheckState
    BY <1>1, <1>3 DEF CheckState
  <1>5. RightPut(s)
    BY <1>2, <1>3 DEF RightPut, HealthRecord
  <1> QED
    BY <1>4, <1>5, CheckerStep DEF Observe

LEMMA PutIsCounted ==
    ASSUME NEW list \in Seq(CheckResult), Len(list) > 0, NEW g \in HealthRecord,
           Counted(list, g.failures), list[Len(list)].of = g.of,
           list[Len(list)].passed <=> g.failures = 0,
           NEW h \in HealthRecord, CountedOn(h, g),
           NEW x \in CheckResult, x.of = h.of, x.passed <=> h.status = "health-passed"
    PROVE  Counted(Append(list, x), h.failures)
  <1> PICK next : next = Append(list, x)
    OBVIOUS
  <1>1. g.failures \in Nat /\ h.failures \in Nat
    BY DEF HealthRecord
  <1>2. g.failures = 0 <=> list[Len(list)].passed
    OBVIOUS
  <1>3. h.failures = (IF x.passed THEN 0
                      ELSE IF list[Len(list)].of = x.of THEN g.failures + 1 ELSE 1)
    BY DEF CountedOn
  <1> QED
    BY <1>1, <1>2, <1>3, FailuresGrow

LEMMA PutHealthStep == ASSUME AssignmentInv, NEW c \in Checkers, PutHealth(c) PROVE AssignmentInv'
  <1> PICK m : m = checker[c].model
    OBVIOUS
  <1> PICK h : h = checker[c].record
    OBVIOUS
  <1> PICK passed \in BOOLEAN : passed <=> h.status = "health-passed"
    OBVIOUS
  <1>a. PICK x : x = [of |-> h.of, at |-> h.at, passed |-> passed]
    OBVIOUS
  <1>1. m \in 1 .. Models /\ h \in HealthRecord
    BY DEF PutHealth, AssignmentInv, AssignmentTypeOK, CheckState, NoCheck
  <1>2. /\ health' = [health EXCEPT ![m] = h] /\ checker' = [checker EXCEPT ![c] = NoCheck]
        /\ health[m].revision + 1 = h.revision
        /\ UNCHANGED <<clock, inventory, planner, changes>>
    BY DEF PutHealth
  <1>3. results' = [results EXCEPT ![m] = Append(results[m], x)]
    BY <1>a DEF PutHealth
  <1>4. /\ health \in [1 .. Models -> HealthRecord] /\ results \in [1 .. Models -> Seq(CheckResult)]
        /\ checker \in [Checkers -> CheckState]
    BY DEF AssignmentInv, AssignmentTypeOK
  <1>5. x \in CheckResult
    BY <1>1, <1>a DEF HealthRecord, CheckResult
  <1>6. AssignmentTypeOK'
    BY <1>1, <1>2, <1>3, <1>4, <1>5 DEF AssignmentInv, AssignmentTypeOK, CheckState
  <1>7. RightStatus(h) /\ CountedOn(h, health[m])
    BY <1>2 DEF PutHealth, AssignmentInv, PutsAreCounted
  <1>b. PICK old : old = results[m]
    OBVIOUS
  <1>c. PICK next : next = Append(old, x)
    OBVIOUS
  <1>8. /\ old \in Seq(CheckResult) /\ Len(next) = Len(old) + 1 /\ next[Len(next)] = x
        /\ \A i \in 1 .. Len(old) : next[i] = old[i]
        /\ results'[m] = next /\ health'[m] = h
    BY <1>1, <1>2, <1>3, <1>4, <1>5, <1>b, <1>c
  <1>9. next \in Seq(CheckResult)
    BY <1>5, <1>8, <1>c
  <1>10. HealthIsCounted'
    <2> SUFFICES ASSUME NEW j \in 1 .. Models
                 PROVE  LET list == results'[j]
                            last == list[Len(list)]
                            n    == health'[j].failures
                        IN  /\ Len(list) > 0 /\ health'[j].revision = Len(list)
                            /\ last.of = health'[j].of /\ last.at = health'[j].at
                            /\ last.passed <=> health'[j].status = "health-passed"
                            /\ RightStatus(health'[j])
                            /\ Counted(list, n)
      BY DEF HealthIsCounted, RightStatus, Counted, FailedInARow
    <2>1. CASE j # m
      BY <1>1, <1>2, <1>3, <1>4, <2>1 DEF AssignmentInv, HealthIsCounted
    <2>2. CASE j = m
      <3>1. /\ Len(old) > 0 /\ health[m].revision = Len(old)
            /\ old[Len(old)].of = health[m].of
            /\ old[Len(old)].passed <=> health[m].failures = 0
            /\ Counted(old, health[m].failures)
        BY <1>1, <1>b DEF AssignmentInv, HealthIsCounted, RightStatus
      <3>2. Counted(next, h.failures)
        <4>1. old \in Seq(CheckResult)
          BY <1>8
        <4>2. Len(old) > 0
          BY <3>1
        <4>3. health[m] \in HealthRecord
          BY <1>1, <1>4
        <4>4. Counted(old, health[m].failures)
          BY <3>1
        <4>5. old[Len(old)].of = health[m].of
          BY <3>1
        <4>6. old[Len(old)].passed <=> health[m].failures = 0
          BY <3>1
        <4>7. h \in HealthRecord
          BY <1>1
        <4>8. CountedOn(h, health[m])
          BY <1>7
        <4>9. x.of = h.of
          BY <1>a
        <4>10. x.passed <=> h.status = "health-passed"
          BY <1>a
        <4>11. Counted(Append(old, x), h.failures)
          BY <4>1, <4>2, <4>3, <4>4, <4>5, <4>6, <4>7, <4>8, <4>9, <4>10, <1>5, PutIsCounted, Zenon
        <4> QED
          BY <4>11, <1>c
      <3>3. Len(next) > 0 /\ h.revision = Len(next)
        BY <1>2, <1>8, <3>1
      <3>4. next[Len(next)].of = h.of /\ next[Len(next)].at = h.at
        BY <1>8, <1>a
      <3>5. next[Len(next)].passed <=> h.status = "health-passed"
        BY <1>8, <1>a
      <3> QED
        BY <1>7, <1>8, <2>2, <3>2, <3>3, <3>4, <3>5
    <2> QED
      BY <2>1, <2>2
  <1>11. PutsAreCounted'
    <2> SUFFICES ASSUME NEW d \in Checkers, checker'[d].at = "putting"
                 PROVE  LET g == checker'[d].record
                            j == checker'[d].model
                        IN  /\ RightStatus(g)
                            /\ g.revision <= health'[j].revision + 1
                            /\ g.revision = health'[j].revision + 1 => CountedOn(g, health'[j])
      BY DEF PutsAreCounted, RightStatus, CountedOn
    <2>1. d # c /\ checker'[d] = checker[d]
      BY <1>2, <1>4 DEF NoCheck
    <2>2. checker[d].model \in 1 .. Models /\ checker[d].record \in HealthRecord
      BY <1>4, <2>1 DEF CheckState, NoCheck
    <2>3. /\ RightStatus(checker[d].record)
          /\ checker[d].record.revision <= health[checker[d].model].revision + 1
          /\ checker[d].record.revision = health[checker[d].model].revision + 1 =>
               CountedOn(checker[d].record, health[checker[d].model])
      BY <2>1 DEF AssignmentInv, PutsAreCounted
    <2>4. CASE checker[d].model # m
      BY <1>2, <1>4, <2>1, <2>2, <2>3, <2>4
    <2>5. CASE checker[d].model = m
      <3>1. health[m].revision \in Nat /\ checker[d].record.revision \in Nat
        BY <1>1, <1>4, <2>2 DEF HealthRecord
      <3>2. health'[m].revision = health[m].revision + 1
        BY <1>2, <1>8
      <3> QED
        BY <2>1, <2>3, <2>5, <3>1, <3>2
    <2> QED
      BY <2>4, <2>5
  <1>12. ASSUME NEW j \in 1 .. Models
         PROVE  \A i \in DOMAIN results[j] : i \in DOMAIN results'[j] /\ results'[j][i] = results[j][i]
    <2>1. CASE j = m
      BY <1>8, <1>9, <1>b, <1>c, <2>1
    <2>2. CASE j # m
      BY <1>3, <1>4, <2>2
    <2> QED
      BY <2>1, <2>2
  <1>13. ReadWasThere'
    <2>1. \A j \in 1 .. Models : \A of, at : PassedOnce(j, of, at) => PassedOnce(j, of, at)'
      BY <1>12 DEF PassedOnce
    <2> QED
      BY <1>2, <2>1 DEF AssignmentInv, ReadWasThere, EntryRead, HealthRead
  <1>14. AssignedWereTested'
    <2> SUFFICES ASSUME planner.at # "idle", NEW k \in DOMAIN planner.made,
                        planner.made[k].model # NoModel
                 PROVE  LET list == results'[planner.made[k].model]
                        IN  \E r \in DOMAIN list :
                              /\ list[r].of = planner.made[k].of
                              /\ list[r].passed
                              /\ list[r].at \in planner.now - MaxAge .. planner.now
      BY <1>2 DEF AssignedWereTested
    <2>1. planner.made \in Seq(Assignments)
      BY DEF AssignmentInv, AssignmentTypeOK, Decision, NoCheck
    <2>2. planner.made[k].model \in 1 .. Models
      BY <2>1 DEF Assignments, NoModel
    <2> QED
      BY <1>12, <2>2 DEF AssignmentInv, AssignedWereTested
  <1> QED
    BY <1>2, <1>6, <1>10, <1>11, <1>13, <1>14 DEF AssignmentInv, MadeInOrder

-----------------------------------------------------------------------------
(* Decisions.                                                              *)
LEMMA PlannerStep ==
    ASSUME AssignmentInv, planner' \in Decision \cup {NoCheck}, ReadWasThere', MadeInOrder',
           AssignedWereTested',
           UNCHANGED <<clock, inventory, health, checker, results, changes>>
    PROVE  AssignmentInv'
  BY DEF AssignmentInv, AssignmentTypeOK, HealthIsCounted, PutsAreCounted, RightStatus, Counted,
         FailedInARow, CountedOn

LEMMA EndPlanStep == ASSUME AssignmentInv, EndPlan PROVE AssignmentInv'
  BY PlannerStep DEF EndPlan, ReadWasThere, MadeInOrder, AssignedWereTested, NoCheck

LEMMA BeginPlanStep ==
    ASSUME AssignmentInv, NEW taskPlan \in Plans, BeginPlan(taskPlan) PROVE AssignmentInv'
  <1> USE ModelsAssumption
  <1> PICK p : p = [at |-> "reading", plan |-> taskPlan, now |-> clock, got |-> <<>>, made |-> <<>>]
    OBVIOUS
  <1>1. planner' = p /\ PlanAccepted(taskPlan)
        /\ UNCHANGED <<clock, inventory, health, checker, results, changes>>
    BY DEF BeginPlan
  <1>2. p \in Decision
    BY <1>1 DEF Decision, AssignmentInv, AssignmentTypeOK
  <1>3. 0 < Len(taskPlan)
    <2>1. DOMAIN taskPlan # {}
      BY <1>1 DEF PlanAccepted, Having
    <2> QED
      BY <2>1
  <1>4. /\ Len(p.got) = 0 /\ Len(p.made) = 0 /\ DOMAIN p.made = {} /\ p.plan = taskPlan
        /\ p.at = "reading"
    OBVIOUS
  <1>5. ReadWasThere' /\ MadeInOrder' /\ AssignedWereTested'
    BY <1>1, <1>3, <1>4 DEF ReadWasThere, MadeInOrder, AssignedWereTested, NoCheck
  <1> QED
    BY <1>1, <1>2, <1>5, PlannerStep

(* A passed record was put with its result.                                *)
LEMMA HealthPassedOnce ==
    ASSUME AssignmentInv, NEW m \in 1 .. Models, health[m].status = "health-passed"
    PROVE  PassedOnce(m, health[m].of, health[m].at)
  <1> PICK list : list = results[m]
    OBVIOUS
  <1>1. list \in Seq(CheckResult)
    BY DEF AssignmentInv, AssignmentTypeOK
  <1>2. /\ Len(list) > 0 /\ list[Len(list)].of = health[m].of
        /\ list[Len(list)].at = health[m].at /\ list[Len(list)].passed
    BY DEF AssignmentInv, HealthIsCounted
  <1>3. Len(list) \in DOMAIN list
    BY <1>1, <1>2
  <1> QED
    BY <1>2, <1>3 DEF PassedOnce

LEMMA ReadNextStep == ASSUME AssignmentInv, ReadNext PROVE AssignmentInv'
  <1> USE ModelsAssumption
  <1> PICK p : p = planner
    OBVIOUS
  <1> PICK k : k = Len(p.got) + 1
    OBVIOUS
  <1> PICK x : x = IF k <= Models THEN inventory[k] ELSE health[k - Models]
    OBVIOUS
  <1> PICK got : got = Append(p.got, x)
    OBVIOUS
  <1> PICK q : q = [p EXCEPT !.got = got]
    OBVIOUS
  <1>1. /\ p.at = "reading" /\ Len(p.got) # 2 * Models /\ planner' = q
        /\ UNCHANGED <<clock, inventory, health, checker, results, changes>>
    BY DEF ReadNext, AllWasRead
  <1>2. p \in Decision /\ planner # NoCheck
    BY <1>1 DEF AssignmentInv, AssignmentTypeOK, NoCheck
  <1>3. /\ Models \in Nat /\ p.got \in Seq(Entries \cup HealthRecord) /\ Len(p.got) \in Nat
        /\ Len(p.got) <= 2 * Models
    <2>1. p.got \in Seq(Entries \cup HealthRecord)
      BY <1>2 DEF Decision
    <2>2. Len(planner.got) <= 2 * Models
      BY <1>2 DEF AssignmentInv, ReadWasThere
    <2> QED
      BY <2>1, <2>2
  <1>4. k \in 1 .. 2 * Models
    BY <1>1, <1>3
  <1>5. /\ k <= Models => k \in 1 .. Models /\ x = inventory[k] /\ x \in Entries
        /\ ~(k <= Models) => /\ k - Models \in 1 .. Models /\ x = health[k - Models]
                             /\ x \in HealthRecord
    BY <1>4 DEF AssignmentInv, AssignmentTypeOK
  <1>6. x \in Entries \cup HealthRecord
    BY <1>5
  <1>7. /\ got \in Seq(Entries \cup HealthRecord) /\ Len(got) = k /\ got[k] = x
        /\ \A i \in 1 .. Len(p.got) : got[i] = p.got[i]
    BY <1>3, <1>6
  <1>8. /\ q.got = got /\ q.at = p.at /\ q.plan = p.plan /\ q.now = p.now /\ q.made = p.made
        /\ q \in Decision
    BY <1>2, <1>7 DEF Decision
  <1>9. ReadWasThere'
    <2>1. ASSUME NEW i \in 1 .. Models, i <= Len(got) PROVE got[i] \in Entries
      <3>1. CASE i = k
        BY <1>5, <1>7, <3>1
      <3>2. CASE i # k
        <4>1. i \in 1 .. Len(p.got)
          BY <1>3, <1>7, <2>1, <3>2
        <4> QED
          BY <1>2, <1>7, <2>1, <4>1 DEF AssignmentInv, ReadWasThere, EntryRead
      <3> QED
        BY <3>1, <3>2
    <2>2. ASSUME NEW m \in 1 .. Models, Models + m <= Len(got)
          PROVE  /\ got[Models + m] \in HealthRecord
                 /\ got[Models + m].status = "health-passed" =>
                      PassedOnce(m, got[Models + m].of, got[Models + m].at)
      <3>1. CASE Models + m = k
        <4>1. m = k - Models /\ ~(k <= Models)
          BY <1>4, <3>1
        <4>2. got[Models + m] = health[m] /\ health[m] \in HealthRecord
          BY <1>5, <1>7, <3>1, <4>1
        <4> QED
          BY <4>2, HealthPassedOnce
      <3>2. CASE Models + m # k
        <4>1. Models + m \in 1 .. Len(p.got)
          BY <1>3, <1>7, <2>2, <3>2
        <4>2. got[Models + m] = HealthRead(m) /\ Models + m <= Len(planner.got)
          BY <1>3, <1>7, <4>1 DEF HealthRead
        <4> QED
          BY <1>2, <4>2 DEF AssignmentInv, ReadWasThere
      <3> QED
        BY <3>1, <3>2
    <2>3. Len(got) <= 2 * Models
      BY <1>4, <1>7
    <2>4. planner'.got = got
      BY <1>1, <1>8
    <2>5. \A m \in 1 .. Models : PassedOnce(m, got[Models + m].of, got[Models + m].at) =>
                                 PassedOnce(m, got[Models + m].of, got[Models + m].at)'
      BY <1>1 DEF PassedOnce
    <2> QED
      BY <2>1, <2>2, <2>3, <2>4, <2>5 DEF ReadWasThere, EntryRead, HealthRead
  <1>10. /\ planner'.at = planner.at /\ planner'.plan = planner.plan /\ planner'.now = planner.now
         /\ planner'.made = planner.made
    BY <1>1, <1>8
  <1>11. MadeInOrder'
    BY <1>2, <1>10 DEF AssignmentInv, MadeInOrder
  <1>12. AssignedWereTested'
    BY <1>1, <1>10 DEF AssignmentInv, AssignedWereTested
  <1> QED
    BY <1>1, <1>8, <1>9, <1>11, <1>12, PlannerStep

LEMMA AssignStep ==
    ASSUME AssignmentInv, planner.at = "reading", NEW choice \in Assignments, Assign(choice),
           UNCHANGED <<clock, inventory, health, checker, results, changes>>,
           choice.model # NoModel =>
             \E r \in DOMAIN results[choice.model] :
               LET x == results[choice.model][r]
               IN  x.of = choice.of /\ x.passed /\ x.at \in planner.now - MaxAge .. planner.now
    PROVE  AssignmentInv'
  <1> USE ModelsAssumption
  <1> PICK p : p = planner
    OBVIOUS
  <1>a. PICK k : k = Len(p.made) + 1
    OBVIOUS
  <1>b. PICK made : made = Append(p.made, choice)
    OBVIOUS
  <1>c. PICK place : place = IF k = Len(p.plan) THEN "decided" ELSE "reading"
    OBVIOUS
  <1>d. PICK q : q = [p EXCEPT !.made = made, !.got = <<>>, !.at = place]
    OBVIOUS
  <1>1. planner' = q /\ ~Reused(choice)
    BY <1>a, <1>b, <1>c, <1>d DEF Assign
  <1>2. p \in Decision /\ planner # NoCheck
    BY DEF AssignmentInv, AssignmentTypeOK, NoCheck
  <1>3. /\ p.made \in Seq(Assignments) /\ Len(p.made) \in Nat /\ Len(p.plan) \in Nat
        /\ Len(p.made) < Len(p.plan)
    BY <1>2 DEF Decision, AssignmentInv, MadeInOrder
  <1>4. /\ made \in Seq(Assignments) /\ Len(made) = k /\ made[k] = choice
        /\ DOMAIN made = 1 .. k /\ DOMAIN p.made = 1 .. k - 1
        /\ \A i \in 1 .. k - 1 : made[i] = p.made[i]
        /\ k = Len(p.made) + 1
    BY <1>3, <1>a, <1>b
  <1>5. /\ q.made = made /\ q.got = <<>> /\ q.at = place /\ q.plan = p.plan /\ q.now = p.now
        /\ q \in Decision
    <2>1. place \in {"reading", "decided"} /\ <<>> \in Seq(Entries \cup HealthRecord)
      BY <1>c
    <2>2. /\ q.made = made /\ q.got = <<>> /\ q.at = place /\ q.plan = p.plan /\ q.now = p.now
          /\ q = [at |-> place, plan |-> p.plan, now |-> p.now, got |-> <<>>, made |-> made]
      BY <1>2, <1>d DEF Decision
    <2> QED
      BY <1>2, <1>4, <2>1, <2>2 DEF Decision
  <1>6. ReadWasThere'
    BY <1>1, <1>5 DEF ReadWasThere
  <1>7. ASSUME NEW v \in 1 .. k, NEW w \in 1 .. v - 1, p.plan[v].role = "verifier",
               p.plan[w].role = "worker"
        PROVE  /\ made[v].model # NoModel => made[v].model # made[w].model
               /\ made[v].id # NoId => made[v].id # made[w].id
    <2>1. w \in 1 .. k - 1 /\ made[w] = p.made[w]
      BY <1>3, <1>4
    <2>2. CASE v = k
      <3>1. Step.role = "verifier"
        BY <1>7, <1>a, <2>2 DEF Step
      <3>2. w \in MadeFor("worker")
        BY <1>4, <1>7, <2>1 DEF MadeFor
      <3>3. choice.model \notin WorkerModels /\ choice.id \notin WorkerIds
        BY <1>1, <3>1 DEF Reused
      <3>4. made[v] = choice
        BY <1>4, <2>2
      <3>5. choice.model # NoModel => choice.model # p.made[w].model
        BY <3>2, <3>3 DEF WorkerModels
      <3>6. choice.id # NoId => choice.id # p.made[w].id
        BY <3>2, <3>3 DEF WorkerIds
      <3> QED
        BY <2>1, <3>4, <3>5, <3>6
    <2>3. CASE v # k
      <3>1. v \in 1 .. k - 1 /\ made[v] = p.made[v] /\ v \in DOMAIN p.made
        BY <1>3, <1>4, <2>3
      <3> QED
        BY <1>2, <1>7, <2>1, <3>1 DEF AssignmentInv, MadeInOrder
    <2> QED
      BY <2>2, <2>3
  <1>8. /\ place = "reading" => k < Len(p.plan)
        /\ k <= Len(p.plan)
    BY <1>3, <1>a, <1>c
  <1>9. MadeInOrder'
    <2>1. planner'.made = made /\ planner'.plan = p.plan /\ planner'.at = place
      BY <1>1, <1>5
    <2>2. \A v \in DOMAIN made : \A w \in 1 .. v - 1 :
            p.plan[v].role = "verifier" /\ p.plan[w].role = "worker" =>
              /\ made[v].model # NoModel => made[v].model # made[w].model
              /\ made[v].id # NoId => made[v].id # made[w].id
      BY <1>4, <1>7
    <2> QED
      BY <1>4, <1>8, <2>1, <2>2 DEF MadeInOrder
  <1>10. AssignedWereTested'
    <2>1. ASSUME NEW i \in DOMAIN made, made[i].model # NoModel
          PROVE  LET list == results[made[i].model]
                 IN  \E r \in DOMAIN list :
                       /\ list[r].of = made[i].of
                       /\ list[r].passed
                       /\ list[r].at \in p.now - MaxAge .. p.now
      <3>1. CASE i = k
        BY <1>4, <2>1, <3>1
      <3>2. CASE i # k
        <4>1. i \in DOMAIN p.made /\ made[i] = p.made[i]
          BY <1>3, <1>4, <3>2
        <4> QED
          BY <2>1, <4>1 DEF AssignmentInv, AssignedWereTested
      <3> QED
        BY <3>1, <3>2
    <2>2. planner'.made = made /\ planner'.now = p.now /\ results' = results
      BY <1>1, <1>5
    <2> QED
      BY <2>1, <2>2 DEF AssignedWereTested
  <1> QED
    BY <1>1, <1>5, <1>6, <1>9, <1>10, PlannerStep

LEMMA DecideStepStep == ASSUME AssignmentInv, DecideStep PROVE AssignmentInv'
  <1> USE ModelsAssumption
  <1>1. planner.at = "reading" /\ AllWasRead /\ Consistent
        /\ UNCHANGED <<clock, inventory, health, checker, results, changes>>
    BY DEF DecideStep
  <1>2. CASE Assign([model |-> NoModel, id |-> DefaultId])
    BY <1>1, <1>2, AssignStep DEF Assignments
  <1>3. ASSUME NEW m \in 1 .. Models, Eligible(m),
               Assign([model |-> m, id |-> EntryRead(m).id, of |-> EntryRead(m)])
        PROVE  AssignmentInv'
    <2> PICK choice : choice = [model |-> m, id |-> EntryRead(m).id, of |-> EntryRead(m)]
      OBVIOUS
    <2>1. planner # NoCheck /\ planner \in Decision
      BY <1>1 DEF NoCheck, AssignmentInv, AssignmentTypeOK
    <2>2. m <= Len(planner.got) /\ Models + m <= Len(planner.got)
      BY <1>1 DEF AllWasRead
    <2>3. /\ EntryRead(m) \in Entries /\ HealthRead(m) \in HealthRecord
          /\ PassedOnce(m, HealthRead(m).of, HealthRead(m).at)
      BY <1>3, <2>1, <2>2 DEF AssignmentInv, ReadWasThere, Eligible
    <2>4. HealthRead(m).at <= planner.now
      BY <1>1, <1>3 DEF Eligible, Consistent
    <2>5. HealthRead(m).at \in planner.now - MaxAge .. planner.now
      BY <1>3, <2>1, <2>3, <2>4 DEF Eligible, HealthRecord, Decision
    <2>6. choice \in Assignments /\ choice.model = m /\ choice.of = EntryRead(m)
      BY <2>3 DEF Assignments
    <2>7. \E r \in DOMAIN results[m] :
            /\ results[m][r].of = choice.of /\ results[m][r].passed
            /\ results[m][r].at \in planner.now - MaxAge .. planner.now
      BY <1>3, <2>3, <2>5, <2>6 DEF PassedOnce, Eligible
    <2> QED
      BY <1>1, <1>3, <2>6, <2>7, AssignStep
  <1> QED
    BY <1>2, <1>3 DEF DecideStep

LEMMA AsideStep ==
    ASSUME AssignmentInv, inventory' \in [1 .. Models -> Entries], clock' \in Nat,
           UNCHANGED <<health, checker, planner, results>>
    PROVE  AssignmentInv'
  <1>1. AssignmentTypeOK'
    BY DEF AssignmentInv, AssignmentTypeOK
  <1>2. HealthIsCounted' /\ PutsAreCounted'
    BY DEF AssignmentInv, HealthIsCounted, PutsAreCounted, RightStatus, Counted, FailedInARow,
           CountedOn
  <1>3. ReadWasThere' /\ MadeInOrder' /\ AssignedWereTested'
    BY DEF AssignmentInv, ReadWasThere, MadeInOrder, AssignedWereTested, PassedOnce, EntryRead,
           HealthRead
  <1> QED
    BY <1>1, <1>2, <1>3 DEF AssignmentInv

LEMMA AssignmentStep == AssignmentInv /\ [AssignmentNext]_assignmentVars => AssignmentInv'
  <1> SUFFICES ASSUME AssignmentInv, [AssignmentNext]_assignmentVars PROVE AssignmentInv'
    OBVIOUS
  <1>1. ASSUME NEW c \in Checkers, Reread(c) \/ Admit(c) PROVE AssignmentInv'
    BY <1>1, CheckGoesOn DEF Reread, Admit
  <1>2. ASSUME NEW c \in Checkers, GiveCheckUp(c) PROVE AssignmentInv'
    <2>1. NoCheck \in CheckState /\ RightPut(NoCheck)
      BY DEF CheckState, RightPut, NoCheck
    <2> QED
      BY <1>2, <2>1, CheckerStep DEF GiveCheckUp
  <1>3. ASSUME NEW m \in 1 .. Models, NEW e \in Entries, Declare(m, e) PROVE AssignmentInv'
    <2>1. /\ inventory' = [inventory EXCEPT ![m] = e]
          /\ UNCHANGED <<clock, health, checker, planner, results>>
      BY <1>3 DEF Declare
    <2>2. inventory' \in [1 .. Models -> Entries] /\ clock' \in Nat
      BY <2>1 DEF AssignmentInv, AssignmentTypeOK
    <2> QED
      BY <2>1, <2>2, AsideStep
  <1>4. CASE Tick \/ UNCHANGED assignmentVars
    <2>1. UNCHANGED <<inventory, health, checker, planner, results>> /\ clock' \in Nat
      BY <1>4 DEF Tick, assignmentVars, AssignmentInv, AssignmentTypeOK
    <2>2. inventory' \in [1 .. Models -> Entries]
      BY <2>1 DEF AssignmentInv, AssignmentTypeOK
    <2> QED
      BY <2>1, <2>2, AsideStep
  <1> QED
    BY <1>1, <1>2, <1>3, <1>4, PlanCheckStep, ProbeStep, ObserveStep, PutHealthStep, BeginPlanStep,
       ReadNextStep, DecideStepStep, EndPlanStep DEF AssignmentNext

-----------------------------------------------------------------------------
(* What a step depends on comes before it.                                 *)
LEMMA AncestorsAreEarlier ==
    ASSUME NEW p \in Plans, PlanAccepted(p), NEW v \in DOMAIN p, NEW w \in Ancestors(p, v)
    PROVE  w \in 1 .. v - 1
  <1> DEFINE earlier == 1 .. v - 1
  <1>1. Len(p) \in Nat /\ DOMAIN p = 1 .. Len(p)
    BY ModelsAssumption
  <1>2. earlier \in SUBSET DOMAIN p
    BY <1>1
  <1>3. p[v].after \subseteq earlier
    BY DEF PlanAccepted
  <1>4. ASSUME NEW d \in earlier PROVE p[d].after \subseteq earlier
    <2>1. d \in DOMAIN p /\ 1 .. d - 1 \subseteq earlier
      BY <1>1, <1>4
    <2> QED
      BY <2>1 DEF PlanAccepted
  <1>5. Closed(p, earlier)
    BY <1>4 DEF Closed
  <1> QED
    BY <1>2, <1>3, <1>5 DEF Ancestors

LEMMA AssignmentIsSound == AssignmentInv => AssignmentsAreSound
  <1> SUFFICES ASSUME AssignmentInv PROVE AssignmentsAreSound
    OBVIOUS
  <1>1. VerifiersAreIndependent
    <2> SUFFICES ASSUME planner.at = "decided", NEW v \in MadeFor("verifier"),
                        NEW w \in Ancestors(planner.plan, v) \cap MadeFor("worker")
                 PROVE  /\ planner.made[v].model # NoModel =>
                              planner.made[v].model # planner.made[w].model
                        /\ planner.made[v].id # NoId => planner.made[v].id # planner.made[w].id
      BY DEF VerifiersAreIndependent
    <2>1. planner \in Decision /\ planner # NoCheck
      BY DEF AssignmentInv, AssignmentTypeOK, NoCheck
    <2>2. planner.plan \in Plans /\ PlanAccepted(planner.plan) /\ planner.made \in Seq(Assignments)
      BY <2>1 DEF Decision
    <2>3. v \in DOMAIN planner.plan
      BY <2>1, <2>2, ModelsAssumption DEF AssignmentInv, MadeInOrder, MadeFor
    <2>4. w \in 1 .. v - 1
      BY <2>2, <2>3, AncestorsAreEarlier
    <2> QED
      BY <2>1, <2>4 DEF AssignmentInv, MadeInOrder, MadeFor
  <1>2. FailuresAreCounted
    BY DEF AssignmentInv, HealthIsCounted, FailuresAreCounted, Counted, RightStatus
  <1> QED
    BY <1>1, <1>2 DEF AssignmentsAreSound, AssignmentInv

(* The inductive invariant of health checks and decisions                  *)
THEOREM AssignmentInvariant == AssignmentSpec => []AssignmentInv
  BY AssignmentStarts, AssignmentStep, PTL DEF AssignmentSpec

(* Models are assigned on evidence that was counted right, and verifiers   *)
(* are independent (model_decision.py, model_health.py).                   *)
THEOREM AssignmentsStaySound == AssignmentSpec => []AssignmentsAreSound
  BY AssignmentInvariant, AssignmentIsSound, PTL
=============================================================================
