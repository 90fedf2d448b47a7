-------------------------- MODULE WorkSemanticIndex --------------------------
(***************************************************************************)
(* The semantic index of a work graph (work_semantic_index.py): one vector *)
(* for each work item, in a derived file that names the graph it was built *)
(* from and is replaced as a whole.  Items and digest of the graph are     *)
(* read one after the other, and each of them item by item, while other    *)
(* clients put items: nothing is locked.                                   *)
(*                                                                         *)
(* A graph is the sequence of the revisions of its items, in the order in  *)
(* which they are listed; its digest is the graph.  An entry is told apart *)
(* by the revision that it was computed from, so that it does not matter   *)
(* whether it was taken over from an older index.                          *)
(***************************************************************************)
EXTENDS Integers, Sequences

CONSTANTS Items,           \* number of work items of the project
          Embedders,
          MaxItemRevision  \* bound: revisions of an item

ASSUME ItemsAssumption == Items \in Nat

VARIABLES
    graph,       \* the revision of each item
    shown,       \* the graph that the projection was written from
    semantic,    \* the installed index
    indexer,     \* what each indexer does
    graphs       \* history: the graphs there have been

semanticVars == <<graph, shown, semantic, indexer, graphs>>

NoVectors == [of |-> <<>>]

Resting == [at |-> "idle"]

-----------------------------------------------------------------------------
(* Planning and applying read the same: the digest that the projection was *)
(* written from and, to compare it, the digest of the graph; the items;    *)
(* the digest again.                                                       *)
ReadsGraph(x) == indexer[x].at \in {"planning", "applying"}

(* Three lists of all items are read.                                      *)
Place(list, i) == (list - 1) * Items + i

List(x, list) == [i \in 1 .. Items |-> indexer[x].got[Place(list, i)]]

AllRead(x) == ReadsGraph(x) /\ Len(indexer[x].got) = 3 * Items

(* work_graph_projection_is_current                                        *)
ProjectionCurrent(x) == indexer[x].projected = List(x, 1)

(* The next item of the next list                                          *)
ReadItem(x) ==
    /\ ReadsGraph(x)
    /\ \E list \in 1 .. 3, i \in 1 .. Items :
         /\ Len(indexer[x].got) = Place(list, i) - 1
         /\ indexer' = [indexer EXCEPT ![x].got = Append(@, graph[i])]
    /\ UNCHANGED <<graph, shown, semantic, graphs>>

PrepareVectors(x) ==
    /\ indexer[x].at = "idle"
    /\ indexer' = [indexer EXCEPT ![x] =
                     [at |-> "planning", projected |-> shown, got |-> <<>>]]
    /\ UNCHANGED <<graph, shown, semantic, graphs>>

Planned(x) ==
    /\ indexer[x].at = "planning"
    /\ AllRead(x)
    /\ ProjectionCurrent(x)
    /\ indexer' = [indexer EXCEPT ![x] =
                     [at |-> "approved", entries |-> List(x, 2), of |-> List(x, 3),
                      exists |-> semantic # NoVectors]]
    /\ UNCHANGED <<graph, shown, semantic, graphs>>

Apply(x) ==
    /\ indexer[x].at = "approved"
    /\ indexer' = [indexer EXCEPT ![x] =
                     [at |-> "applying", projected |-> shown, got |-> <<>>,
                      entries |-> @.entries, of |-> @.of, exists |-> @.exists]]
    /\ UNCHANGED <<graph, shown, semantic, graphs>>

\* mutant: the entries are not computed again
SameDigest(x) == List(x, 3) = indexer[x].of

(* The plan is current: entries and digest are what they would be now.     *)
AsPlanned(x) == List(x, 3) = indexer[x].of /\ List(x, 2) = indexer[x].entries

Verify(x) ==
    /\ indexer[x].at = "applying"
    /\ AllRead(x)
    /\ ProjectionCurrent(x)
    /\ AsPlanned(x)
    /\ indexer[x].exists = (semantic # NoVectors)
    /\ indexer' = [indexer EXCEPT ![x] =
                     [at |-> "installing", entries |-> @.entries, of |-> @.of]]
    /\ UNCHANGED <<graph, shown, semantic, graphs>>

(* The file is made aside and takes the place of whatever is there.        *)
InstallVectors(x) ==
    /\ indexer[x].at = "installing"
    /\ semantic' = [of |-> indexer[x].of, entries |-> indexer[x].entries]
    /\ indexer' = [indexer EXCEPT ![x] = Resting]
    /\ UNCHANGED <<graph, shown, graphs>>

(* A check fails, or the process dies.                                     *)
Abort(x) ==
    /\ indexer[x].at # "idle"
    /\ indexer' = [indexer EXCEPT ![x] = Resting]
    /\ UNCHANGED <<graph, shown, semantic, graphs>>

-----------------------------------------------------------------------------
(* Other clients put items; of the projections they write the last may be  *)
(* an older one.                                                           *)
PutItem(i) ==
    /\ graph[i] < MaxItemRevision
    /\ graph' = [graph EXCEPT ![i] = @ + 1]
    /\ graphs' = graphs \cup {graph'}
    /\ UNCHANGED <<shown, semantic, indexer>>

ProjectGraph ==
    /\ shown' \in graphs \ {shown}
    /\ UNCHANGED <<graph, semantic, indexer, graphs>>

SemanticInit ==
    /\ graph = [i \in 1 .. Items |-> 1]
    /\ shown = graph
    /\ semantic = NoVectors
    /\ indexer = [x \in Embedders |-> Resting]
    /\ graphs = {graph}

SemanticNext ==
    \/ \E x \in Embedders :
         \/ PrepareVectors(x) \/ ReadItem(x) \/ Planned(x) \/ Apply(x)
         \/ Verify(x) \/ InstallVectors(x) \/ Abort(x)
    \/ \E i \in 1 .. Items : PutItem(i)
    \/ ProjectGraph

SemanticSpec == SemanticInit /\ [][SemanticNext]_semanticVars

-----------------------------------------------------------------------------
(* The vectors of an installed index are those of the graph whose digest   *)
(* it names, and there has been such a graph, although neither was read at *)
(* one moment.                                                             *)
VectorsAreOfOneGraph ==
    semantic # NoVectors => semantic.entries = semantic.of /\ semantic.of \in graphs
=============================================================================
