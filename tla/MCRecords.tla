----------------------------- MODULE MCRecords -----------------------------
(***************************************************************************)
(* What clients do with the records of a home: two clients change a work   *)
(* graph, a batch of work items is imported, memories are approved and     *)
(* withdrawn, a project is integrated, the two derived indexes, of source  *)
(* code and of work items, are built while what they index changes, models *)
(* are declared, checked and assigned, and questions are asked while       *)
(* records are put.                                                        *)
(* "subject" says which of them a behaviour is about.                      *)
(***************************************************************************)
EXTENDS WorkGraph, SourceCodeIndex, WorkSemanticIndex, MemoryHygiene, WorkImport,
        ProjectIntegration, ModelAssignment, TLC

(* Two clients and two work items, one of them not there in the beginning. *)
(* An item may come to need the other, be completed and be reopened within *)
(* the revisions allowed.                                                  *)
MCInitialGraph ==
    [w \in Works |-> IF w = "u" THEN [revision |-> 1, status |-> "active", needs |-> {}]
                               ELSE Absent]

Symmetry == Permutations(Clients)

(* A new item begins as active; it is completed by its next revision.      *)
GraphNext ==
    /\ Next
    /\ \A c \in Clients : plan'[c] # NoPlan /\ plan'[c].new.revision = 1 =>
         plan'[c].new.status = "active"

VARIABLES subject,
          records, puts, question \* of InformationRetrieval

(* Two new items, imported by one process while others change one of them  *)
(* (a refused import writes nothing, like one that has not begun), until a *)
(* rollback cannot remove the manifest; by one alone, which may leave two  *)
(* targets of each rollback; or by two at any times, which plan the first  *)
(* revision of each item and can restore everything.                       *)
MCBatch == <<"u", "v">>

LeftBy(p) == IF importer'[p].at \in {"restoring", "rolled-back"} THEN importer'[p].left ELSE {}

OneOf(p) == \A q \in Importers \ {p} : importer'[q] = IdleImporter

OneImports ==
    /\ ImportNext
    /\ \E p \in Importers : /\ OneOf(p) /\ importer'[p].at # "refused"
                            /\ LeftBy(p) \subseteq {Len(Targets)}
    /\ unremoved => importer' # importer

AloneImports ==
    /\ ImportNext /\ importer' # importer
    /\ \E p \in Importers : OneOf(p) /\ Cardinality(LeftBy(p)) <= 2

TwoImport ==
    /\ ImportNext /\ importer' # importer
    /\ \A p \in Importers : importer'[p].at = "planned" =>
         \A i \in Batched : importer'[p].after[i].revision = 1
    /\ \A p \in Importers : LeftBy(p) = {}

(* One memory: at most four decisions among approvals of every revision    *)
(* with either content, reviews that reject, leave a conflict              *)
(* unacknowledged, acknowledge one or acknowledge a policy's, and actions  *)
(* on the first two revisions.                                             *)
Approval(m, revision, content) ==
    [kind |-> "review", memory |-> m, revision |-> revision, content |-> content,
     conflicts |-> {}, acknowledged |-> {}, outcome |-> "approved"]

Action(kind, revision, content) ==
    [kind |-> kind, memory |-> 1, revision |-> revision, content |-> content]

GateDocuments ==
    {Approval(1, r, c) : r \in 1 .. 3, c \in {"x", "y"}}
    \cup {[Approval(1, 1, "x") EXCEPT !.outcome = "rejected"],
          [Approval(1, 1, "x") EXCEPT !.conflicts = {"source"}],
          [Approval(1, 1, "x") EXCEPT !.conflicts = {"source"}, !.acknowledged = {"source"}],
          [Approval(1, 2, "y") EXCEPT !.conflicts = {"policy"}, !.acknowledged = {"policy"}]}
    \cup {Action("revoke", r, "x") : r \in 1 .. 2}
    \cup {Action("supersede", 1, "x"), Action("supersede", 2, "y")}

GateNext ==
    /\ MemoryNext
    /\ decisions' \subseteq GateDocuments /\ Cardinality(decisions') <= 4

(* Three memories of one meaning, of which one may be approved again and   *)
(* another get another content; and five decisions, among them those that  *)
(* a report suggests from overlays with either of two times of last use    *)
ApprovedTwice ==
    {Approval(m, 1, "x") : m \in 1 .. 3}
    \cup {Approval(1, 2, "y"), Approval(2, 2, "x"), Approval(2, 3, "x"), Approval(3, 3, "x")}

ReportsNext ==
    /\ MemoryNext \/ (Cardinality(decisions) < MaxDecisions /\ Follow)
    /\ \A d \in decisions' : d \in ApprovedTwice \/ "replacement" \in DOMAIN d

UsedAt(time) == [used |-> time, until |-> 9, review |-> 9]

MCDocuments == GateDocuments \cup ApprovedTwice
MCMeaning == [x \in {"x", "y"} |-> x]
MCAges == {UsedAt(0), UsedAt(1)}

(* Two calls about one project, or two after its first integration, a copy *)
(* of its source and one edit; a project that nobody integrated, when a    *)
(* behaviour is about something else                                       *)
Version(v) == v

NotIntegrated == ~fresh /\ \A d \in Directories : tree[d] = 1

(* Two processes index two files, one of them with a secret, that are in   *)
(* two directories, and one edit is made.                                  *)
OneSecret == copy[1] = <<"a", "secret">>

(* An answer stays as it is, so nothing else happens until it is given.    *)
CodeSteps == CodeNext /\ (search.at = "answered" => search' # search)

(* An index is built of two items, of which three revisions are put.       *)
PutsNext == SemanticNext /\ graph'[1] + graph'[2] <= 5

(* A worker and its verifier are given two models while one is declared    *)
(* anew and the first is checked, or the time comes when what was found    *)
(* out is too old; nothing happens between the decision and its answer.    *)
(* And two processes check one model.                                      *)
ModelIds == {"A", "B"}
MCEntries == [id : ModelIds, enabled : BOOLEAN]
MCBound == [role \in {"worker", "verifier"} |-> ModelIds]
PairPlan == <<[role |-> "worker", after |-> {}], [role |-> "verifier", after |-> {1}]>>
MCPlans == {PairPlan}

NotAssigned == inventory[1].id = "A"

AssignNext ==
    /\ AssignmentNext
    /\ planner.at = "decided" => planner' # planner
    /\ \E c \in Checkers : \A d \in Checkers \ {c} : checker'[d] = NoCheck
    /\ \A c \in Checkers : checker'[c] # NoCheck => checker'[c].model = 1
    /\ \A c \in Checkers : checker'[c].at = "approved" => ~checker'[c].force
    /\ Len(results'[1]) + Len(results'[2]) <= 3
    /\ clock' = 2 => checker' = [c \in Checkers |-> NoCheck]

ChecksNext ==
    /\ AssignmentNext
    /\ planner' = planner /\ clock' <= 1
    /\ inventory'[2] = inventory[2]
    /\ \A c \in Checkers : checker'[c] # NoCheck => checker'[c].model = 1

(* One question about a source, what two knowledge records and a memory    *)
(* say of it and how they are related, while two records are put; after    *)
(* the last reading nothing looks at the records again.                    *)
Asked(seeds, direction, depth, nodes, edges, stale, unavailable) ==
    [kind |-> "dependencies", seeds |-> seeds, direction |-> direction,
     types |-> {"uses", "tells"}, depth |-> depth, nodes |-> nodes, edges |-> edges,
     stale |-> stale, unavailable |-> unavailable]

Walks ==
    {Asked(<<"k">>, d, n, m, 2, FALSE, FALSE) :
       d \in {"outbound", "both"}, n \in {1}, m \in {2, 3}}
    \cup {Asked(<<"k">>, "both", 2, 3, 4, stale, gone) : stale \in BOOLEAN, gone \in BOOLEAN}

Chosen(r, required, priority, cut) ==
    [record |-> r, required |-> required, priority |-> priority, cut |-> cut]

Contexts ==
    [kind : {"context"}, requires : {{}, {"s"}}, items : {2, 3}, units : {5}, fragment : {1},
     lost : {0}, cutting : {TRUE},
     candidates : {<<Chosen("s", FALSE, 2, TRUE), Chosen("k", FALSE, 1, FALSE),
                     Chosen("n", TRUE, 2, TRUE)>>,
                   <<Chosen("k", FALSE, 2, TRUE), Chosen("n", FALSE, 1, TRUE),
                     Chosen("k", FALSE, 1, TRUE), Chosen("s", FALSE, 1, TRUE)>>}]

Searches ==
    [kind : {"exact"}, matches : {("s" :> 1) @@ ("k" :> 0) @@ ("m" :> 1)}, limit : {1, 2},
     unavailable : BOOLEAN]

Relations ==
    <<[from |-> "k", to |-> "m", type |-> "uses"], [from |-> "m", to |-> "k", type |-> "uses"],
      [from |-> "k", to |-> "s", type |-> "tells"], [from |-> "m", to |-> "s", type |-> "tells"]>>

Retrieval == INSTANCE InformationRetrieval WITH
    Sources <- <<"s">>, Knowledge <- <<"k", "m">>, Memories <- <<"n">>,
    SourceOf <- [n \in {"k", "m", "n"} |-> "s"], Links <- Relations,
    Units <- ("s" :> 2) @@ ("k" :> 3) @@ ("m" :> 1) @@ ("n" :> 2),
    Questions <- Walks \cup Contexts \cup Searches, MaxChanges <- 2,
    store <- records, changes <- puts, question <- question

retrievalVars == <<records, puts, question>>

QuestionsNext ==
    /\ Retrieval!RetrievalNext
    /\ puts' # puts => \/ question.phase = "idle"
                       \/ question.phase = "reading" /\ question.todo # <<>>

NothingAsked == records = <<>> /\ puts = 0 /\ question = [phase |-> "idle"]

Subjects ==
    {"graph", "code", "semantic", "memory", "hygiene", "import", "alone", "imports", "project",
     "assignment", "checks", "questions"}

MCInit ==
    /\ subject \in Subjects
    /\ Init
    /\ CodeInit /\ OneSecret
    /\ SemanticInit
    /\ MemoryInit
    /\ ImportInit
    /\ ProjectInit /\ (subject # "project" => NotIntegrated)
    /\ AssignmentInit /\ (subject # "assignment" => NotAssigned)
    /\ IF subject = "questions" THEN Retrieval!RetrievalInit ELSE NothingAsked

MCNext ==
    /\ UNCHANGED subject
    /\ \/ /\ subject = "graph" /\ GraphNext
          /\ UNCHANGED <<codeVars, semanticVars, memoryVars, importVars, projectVars,
                         assignmentVars, retrievalVars>>
       \/ /\ subject = "code" /\ CodeSteps
          /\ UNCHANGED <<vars, semanticVars, memoryVars, importVars, projectVars, assignmentVars,
                         retrievalVars>>
       \/ /\ subject = "semantic" /\ PutsNext
          /\ UNCHANGED <<vars, codeVars, memoryVars, importVars, projectVars, assignmentVars,
                         retrievalVars>>
       \/ /\ \/ subject = "memory" /\ GateNext
             \/ subject = "hygiene" /\ ReportsNext
          /\ UNCHANGED <<vars, codeVars, semanticVars, importVars, projectVars, assignmentVars,
                         retrievalVars>>
       \/ /\ \/ subject = "import" /\ OneImports
             \/ subject = "alone" /\ AloneImports
             \/ subject = "imports" /\ TwoImport
          /\ UNCHANGED <<vars, codeVars, semanticVars, memoryVars, projectVars, assignmentVars,
                         retrievalVars>>
       \/ /\ subject = "project" /\ ProjectNext
          /\ UNCHANGED <<vars, codeVars, semanticVars, memoryVars, importVars, assignmentVars,
                         retrievalVars>>
       \/ /\ \/ subject = "assignment" /\ AssignNext
             \/ subject = "checks" /\ ChecksNext
          /\ UNCHANGED <<vars, codeVars, semanticVars, memoryVars, importVars, projectVars,
                         retrievalVars>>
       \/ /\ subject = "questions" /\ QuestionsNext
          /\ UNCHANGED <<vars, codeVars, semanticVars, memoryVars, importVars, projectVars,
                         assignmentVars>>

MCSpec ==
    /\ MCInit
    /\ [][MCNext]_<<subject, vars, codeVars, semanticVars, memoryVars, importVars, projectVars,
                    assignmentVars, retrievalVars>>

(* The work graph by itself                                                *)
GraphSpec == subject = "graph" /\ MCSpec

-----------------------------------------------------------------------------
(* Answers are true of the time since they were asked for, and complete as *)
(* far as they say (dependency_retrieval.py, context_builder.py).          *)
AnswersAreTrue == subject = "questions" => Retrieval!AnswersAreTrue
=============================================================================
