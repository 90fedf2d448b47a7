------------------------------ MODULE WorkGraph ------------------------------
(***************************************************************************)
(* The authoritative Work Graph of one project: a record for each work     *)
(* item, an immutable event for each revision, and two derived views, the  *)
(* SQLite projection and the readable index.                               *)
(*                                                                         *)
(* apply_work_item is a sequence of separate durable writes under no       *)
(* common lock.  Only a single record write is atomic and checked against  *)
(* the planned revision (LocalWorkspaceStore.apply_put), so any number of  *)
(* clients may be between any two of the steps, and one may die there.     *)
(*                                                                         *)
(* A digest of the graph is the graph.  An item keeps its status and the   *)
(* targets of its depends-on and parent-of relations; titles, evidence     *)
(* (demanded of a completed item while planning), weaker relations and     *)
(* provenance are left out.  Reading all the records is one step: they are *)
(* read twice, while planning and before projecting, and revisions only    *)
(* grow, so two equal readings show a state the records really had.        *)
(***************************************************************************)
EXTENDS Integers, FiniteSets, Sequences

CONSTANTS Works,        \* work item ids
          Clients,      \* processes that change work items
          Statuses,     \* the statuses considered
          InitialGraph, \* the records there are in the beginning
          MaxRevision   \* bound: revisions of a work item

AllStatuses == {"proposed", "active", "blocked", "completed", "cancelled", "archived"}

ASSUME StatusAssumption == Statuses \subseteq AllStatuses

ASSUME RevisionAssumption == MaxRevision \in Nat \ {0}

Absent == [revision |-> 0, status |-> "absent", needs |-> {}]

WorkItem == {Absent} \cup
    [revision: 1 .. MaxRevision, status: Statuses, needs: SUBSET Works]

ASSUME GraphAssumption ==
    InitialGraph \in [Works -> {Absent} \cup
                        [revision: {1}, status: Statuses, needs: SUBSET Works]]

VARIABLES
    record,      \* the work-items records
    events,      \* the work-events records
    projection,  \* the graph the SQLite projection was built from
    index,       \* the graph the readable index was rendered from
    pc,          \* where each client is in apply_work_item
    plan,        \* the plan each client applies
    past         \* history: every graph the records ever made up

vars == <<record, events, projection, index, pc, plan, past>>

derived == <<projection, index>>

(* TRANSITIONS                                                             *)
Transitions(status) ==
    CASE status = "absent"    -> AllStatuses
      [] status = "proposed"  -> {"proposed", "active", "cancelled", "archived"}
      [] status = "active"    -> {"active", "blocked", "completed", "cancelled", "archived"}
      [] status = "blocked"   -> {"blocked", "active", "completed", "cancelled", "archived"}
      [] status = "completed" -> {"completed", "archived", "active"}
      [] status = "cancelled" -> {"cancelled", "archived", "active"}
      [] status = "archived"  -> {"archived", "active"}

(* _validate_graph: every walk along the relations ends; a cycle is a set  *)
(* of items each of which needs another one in the set.                    *)
Acyclic(graph) ==
    \A loop \in (SUBSET Works) \ {{}} :
        \E w \in loop : graph[w].needs \cap loop = {}

TargetsExist(graph) ==
    \A w \in Works : \A target \in graph[w].needs : graph[target].revision > 0

ASSUME InitialGraphAssumption == TargetsExist(InitialGraph)

Event == [work: Works, revision: 1 .. MaxRevision,
          from: Statuses \cup {"absent"}, to: Statuses]

EventOf(w, old, new) ==
    [work |-> w, revision |-> new.revision, from |-> old.status, to |-> new.status]

NoPlan == [work |-> "none"]

Init ==
    /\ record = InitialGraph
    /\ events = {EventOf(w, Absent, record[w]) : w \in {v \in Works : record[v] # Absent}}
    /\ projection = record
    /\ index = record
    /\ pc = [c \in Clients |-> "idle"]
    /\ plan = [c \in Clients |-> NoPlan]
    /\ past = {record, [w \in Works |-> Absent]}

-----------------------------------------------------------------------------
Goto(c, place) == pc' = [pc EXCEPT ![c] = place]

(* The client gives up with an error, or its process dies: what it wrote   *)
(* stays.                                                                  *)
Abandon(c) ==
    /\ pc' = [pc EXCEPT ![c] = "idle"]
    /\ plan' = [plan EXCEPT ![c] = NoPlan]

HasEvent(w, r) == \E e \in events : e.work = w /\ e.revision = r

(* prepare_work_item: everything is checked against the records and the    *)
(* derived views as they are now.                                          *)
Prepare(c, w, status, needs) ==
    /\ pc[c] = "idle"
    /\ record[w].revision < MaxRevision
    /\ status \in Transitions(record[w].status)
    /\ LET new == [revision |-> record[w].revision + 1, status |-> status, needs |-> needs]
           graph == [record EXCEPT ![w] = new]
           event == EventOf(w, record[w], new)
       IN /\ TargetsExist(graph)
          /\ Acyclic(graph)
          /\ ~HasEvent(w, new.revision)
          /\ plan' = [plan EXCEPT ![c] =
                        [work |-> w, new |-> new, event |-> event,
                         graph |-> graph, seenIndex |-> index]]
    /\ Goto(c, "planned")
    /\ UNCHANGED <<record, events, derived, past>>

(* assert_work_index_preflight before anything is written                  *)
Preflight(c) ==
    /\ pc[c] = "planned"
    /\ record[plan[c].work].revision = plan[c].new.revision - 1
    /\ index = plan[c].seenIndex
    /\ Goto(c, "checked")
    /\ UNCHANGED <<record, events, derived, plan, past>>

\* The record is replaced without looking at its revision.
RevisionIgnored(c) == TRUE

(* assert_plan_current under the record's lock                             *)
RevisionUnchanged(c) == record[plan[c].work].revision = plan[c].new.revision - 1

\* The event is written first.
EventFirst(c) ==
    /\ pc[c] = "checked"
    /\ events' = events \cup {plan[c].event}
    /\ Goto(c, "recorded")
    /\ UNCHANGED <<record, derived, plan, past>>

(* apply_put of the record                                                 *)
PutRecord(c) ==
    /\ pc[c] = "checked"
    /\ RevisionUnchanged(c)
    /\ record' = [record EXCEPT ![plan[c].work] = plan[c].new]
    /\ past' = past \cup {record'}
    /\ Goto(c, "recorded")
    /\ UNCHANGED <<events, derived, plan>>

(* apply_put of the event                                                  *)
PutEvent(c) ==
    /\ pc[c] = "recorded"
    /\ ~HasEvent(plan[c].work, plan[c].new.revision)
    /\ events' = events \cup {plan[c].event}
    /\ Goto(c, "evented")
    /\ UNCHANGED <<record, derived, plan, past>>

\* The projection is written from the plan without reading the records.
Trusted(c) == TRUE

(* "work graph changed before projection" otherwise                        *)
GraphAsPlanned(c) == record = plan[c].graph

CheckGraph(c) ==
    /\ pc[c] = "evented"
    /\ GraphAsPlanned(c)
    /\ Goto(c, "matched")
    /\ UNCHANGED <<record, events, derived, plan, past>>

(* _write_projection replaces the projection as a whole.                   *)
WriteProjection(c) ==
    /\ pc[c] = "matched"
    /\ projection' = plan[c].graph
    /\ Goto(c, "projected")
    /\ UNCHANGED <<record, events, index, plan, past>>

(* apply_work_index plans again and compares ...                           *)
CheckIndex(c) ==
    /\ pc[c] = "projected"
    /\ record = plan[c].graph
    /\ index = plan[c].seenIndex
    /\ Goto(c, "rendered")
    /\ UNCHANGED <<record, events, derived, plan, past>>

(* ... and replaces the readable index.                                    *)
WriteIndex(c) ==
    /\ pc[c] = "rendered"
    /\ index' = plan[c].graph
    /\ Abandon(c)
    /\ UNCHANGED <<record, events, projection, past>>

(* Any check that fails raises, and a process may die anywhere.            *)
Stop(c) ==
    /\ pc[c] # "idle"
    /\ Abandon(c)
    /\ UNCHANGED <<record, events, derived, past>>

Next ==
    \E c \in Clients :
        \/ \E w \in Works, status \in Statuses, needs \in SUBSET Works :
              Prepare(c, w, status, needs)
        \/ Preflight(c)
        \/ PutRecord(c)
        \/ PutEvent(c)
        \/ CheckGraph(c)
        \/ WriteProjection(c)
        \/ CheckIndex(c)
        \/ WriteIndex(c)
        \/ Stop(c)

Spec == Init /\ [][Next]_vars

-----------------------------------------------------------------------------
(* Properties.                                                             *)

Plan == {NoPlan} \cup
    [work: Works, new: WorkItem \ {Absent}, event: Event,
     graph: [Works -> WorkItem], seenIndex: [Works -> WorkItem]]

(* The type invariant, with "every target must exist": a relation always   *)
(* names an item that has a record.                                        *)
TypeOK ==
    /\ record \in [Works -> WorkItem]
    /\ \A w \in Works : \A target \in record[w].needs : record[target] # Absent
    /\ events \subseteq Event
    /\ projection \in [Works -> WorkItem]
    /\ index \in [Works -> WorkItem]
    /\ pc \in [Clients -> {"idle", "planned", "checked", "recorded", "evented",
                           "matched", "projected", "rendered"}]
    /\ plan \in [Clients -> Plan]

(* An event tells the truth: its revision was the item's record at some    *)
(* time, with the status the event says, and came from the status it names.*)
EventsAreTrue ==
    \A e \in events :
        /\ \E g \in past : g[e.work].revision = e.revision /\ g[e.work].status = e.to
        /\ \E g \in past : g[e.work].revision = e.revision - 1 /\ g[e.work].status = e.from

(* The projection and the readable index show a graph that the records     *)
(* really made up at some time, never a mix of one client's plan with      *)
(* another client's writes.                                                *)
ViewsWereTrue == {projection, index} \subseteq past

(* No revision is lost or rewritten, whichever clients race: an item moves *)
(* one revision at a time and only along a legal transition ("Reopening    *)
(* ... is a visible revision, never a silent rewrite").                    *)
EveryRevisionIsVisible ==
    [][\A w \in Works : record'[w] # record[w] =>
          /\ record'[w].revision = record[w].revision + 1
          /\ record'[w].status \in Transitions(record[w].status)]_vars

(* "Dependency and parent graphs must be acyclic" (WORK-GRAPH.md).         *)
GraphIsAcyclic == Acyclic(record)
=============================================================================
