---------------------------- MODULE DurableMemory ----------------------------
(***************************************************************************)
(* The gate of durable memory.  A candidate is proposed for one revision   *)
(* of one memory; the user reviews exactly that candidate, its conflicts   *)
(* included, and a client persists it.  Revocation and supersession are    *)
(* decisions of their own about one revision and its content.              *)
(*                                                                         *)
(* Decisions are documents that stay valid: nothing takes them back and    *)
(* any client may present one at any time, again, and beside others.  What *)
(* a client presents is planned against the store and put a little later,  *)
(* when the store compares the revision (LocalWorkspaceStore.apply_put).   *)
(***************************************************************************)
EXTENDS Integers, FiniteSets, Sequences

CONSTANTS Memories,
          Contents,
          Presenters,         \* the clients
          MaxMemoryRevision,  \* bound: revisions of a memory
          Documents,          \* bound: the reviews and actions considered
          MaxDecisions        \* bound: how many of them there are

Conflicts == {"source", "policy"}

NotStored == [revision |-> 0, content |-> "none", lifecycle |-> "absent"]

VARIABLES memory,     \* the memory records of the store
          decisions,  \* the reviews and actions there are
          pending,    \* what each client is about to put
          writes      \* history: the decision behind every write

memoryVars == <<memory, decisions, pending, writes>>

NothingPending == [decision |-> "none"]

MemoryInit ==
    /\ memory = [m \in Memories |-> NotStored]
    /\ decisions = {}
    /\ pending = [c \in Presenters |-> NothingPending]
    /\ writes = <<>>

-----------------------------------------------------------------------------
(* What may be in Documents.  A review of a candidate: only the user's     *)
(* approval carries an approval id; a delegate may reject.                 *)
Reviews ==
    [kind: {"review"}, memory: Memories, revision: 1 .. MaxMemoryRevision, content: Contents,
     conflicts: SUBSET Conflicts, acknowledged: SUBSET Conflicts,
     outcome: {"approved", "rejected"}]

(* An action on the revision and content that the user looked at.          *)
Actions ==
    [kind: {"supersede", "revoke"}, memory: Memories, revision: 1 .. MaxMemoryRevision - 1,
     content: Contents]

ASSUME DocumentsAssumption ==
    MaxMemoryRevision \in Nat /\ Documents \subseteq Reviews \cup Actions

Decide(d) ==
    /\ Cardinality(decisions) < MaxDecisions
    /\ d \notin decisions
    /\ decisions' = decisions \cup {d}
    /\ UNCHANGED <<memory, pending, writes>>

(* prepare_memory_persistence                                              *)
Persistable(d) ==
    /\ d.outcome = "approved"
    /\ d.acknowledged = d.conflicts
    /\ "policy" \notin d.conflicts

(* The store asks for the next revision, whatever became of the last one.  *)
PreparePersistence(c, d) ==
    /\ pending[c] = NothingPending
    /\ d.kind = "review"
    /\ Persistable(d)
    /\ d.revision = memory[d.memory].revision + 1
    /\ pending' = [pending EXCEPT ![c] =
                  [decision |-> d,
                   new |-> [revision |-> d.revision, content |-> d.content,
                            lifecycle |-> "current"]]]
    /\ UNCHANGED <<memory, decisions, writes>>

(* prepare_memory_lifecycle                                                *)
PrepareLifecycle(c, d) ==
    LET old == memory[d.memory]
    IN /\ pending[c] = NothingPending
       /\ d.kind \in {"supersede", "revoke"}
       /\ old.lifecycle = "current"
       /\ old.revision = d.revision
       /\ old.content = d.content
       /\ pending' = [pending EXCEPT ![c] =
                     [decision |-> d,
                      new |-> [old EXCEPT !.revision = @ + 1,
                                          !.lifecycle = IF d.kind = "supersede"
                                                        THEN "superseded" ELSE "archived"]]]
       /\ UNCHANGED <<memory, decisions, writes>>

\* mutant: the record is put whatever its revision
AnyRevision(c) == TRUE

(* assert_plan_current, under the record's lock                            *)
PlanCurrent(c) == memory[pending[c].decision.memory].revision = pending[c].new.revision - 1

(* apply_memory_persistence, apply_memory_lifecycle                        *)
Put(c) ==
    /\ pending[c] # NothingPending
    /\ PlanCurrent(c)
    /\ memory' = [memory EXCEPT ![pending[c].decision.memory] = pending[c].new]
    /\ writes' = writes \o <<pending[c].decision>>
    /\ pending' = [pending EXCEPT ![c] = NothingPending]
    /\ UNCHANGED decisions

(* A refused call, or the death of the client                              *)
DropPut(c) ==
    /\ pending[c] # NothingPending
    /\ pending' = [pending EXCEPT ![c] = NothingPending]
    /\ UNCHANGED <<memory, decisions, writes>>

MemoryNext ==
    \/ \E d \in Documents : Decide(d)
    \/ \E c \in Presenters :
         \/ \E d \in decisions : PreparePersistence(c, d) \/ PrepareLifecycle(c, d)
         \/ Put(c)
         \/ DropPut(c)

MemorySpec == MemoryInit /\ [][MemoryNext]_memoryVars

-----------------------------------------------------------------------------
(* Properties.                                                             *)

(* A decision takes effect once, however often and by whomever it is       *)
(* presented, and a memory that a later decision withdrew comes back by a  *)
(* new approval only: what is current was approved by the user for exactly *)
(* this revision, with all its conflicts acknowledged and none of them an  *)
(* active policy.                                                          *)
MemoryRestsOnDecisions ==
    /\ \A i, j \in DOMAIN writes : writes[i] = writes[j] => i = j
    /\ \A m \in Memories : memory[m].lifecycle = "current" =>
         \E d \in decisions :
           /\ d.kind = "review" /\ d.memory = m
           /\ d.revision = memory[m].revision /\ d.content = memory[m].content
           /\ d.outcome = "approved"
           /\ d.conflicts = d.acknowledged /\ "policy" \notin d.conflicts
=============================================================================
