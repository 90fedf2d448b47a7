# Specifications of krcn-core

krcn-core coordinates work on software projects: a local home directory holds each project's records, a queue leases
steps of work to agents, an orchestrator carries tasks from plan to verified completion, derived indexes make what is
known findable, and a deployment engine updates the installed tree. Everything is Python over SQLite files and JSON
records. There is no server: any number of processes (command line calls, agents, a human) open the same files at the
same time, and each may die between any two writes.

This directory holds TLA+ modules of the parts where that is hard, TLC configurations that check them on small instances,
and theorems, checked by TLAPS, that hold for every value of the constants. Paths below are relative to
`src/src/krcn_core/` unless they begin with `docs/` or `tests/`.

## 1. The system

### The queue and its clients

**Agent runtime queue** (`agent_runtime.py`). One SQLite database for each project: items, leases, resource locks,
attempts, projection jobs and an event log. Operations: enqueue, claim, heartbeat, bind effect claim, bind effect receipt,
complete, fail, recover, reconcile, migrate to schema 2; each is one `BEGIN IMMEDIATE` transaction. Hard: workers that
report late with evidence of a lease that is gone; expiry, recovery and retry against each other; resources that overlap
without being equal. Correct when items, leases and locks agree; overlapping items are never leased together; only the
live, newest lease publishes; attempts stay within their limit; an effect that is more than a read is not repeated; a
settled item never changes; and the queue drains.

**Runtime queue plans** (`prepare_runtime_queue_action`, `apply_runtime_queue_action`, `_runtime_queue_action` of
`application.py`). A client asks for an exact plan and applies it by its id; the apply call prepares the action again and
the transaction compares a digest of the database. Hard: calls that are retried or overlap, and the Work Graph, which the
digest does not cover. Correct when a plan takes effect at most once and a job closes only on work that is completed.

**Effect ledger** (`effect_ledger_store.py`, `effect_ledger.py`). A second database: claims before an effect, one terminal
receipt after it, one reconciliation by an operator where the result stayed open. Hard: no transaction spans queue and
ledger. Correct when an effect runs at most once and each claim has one verdict.

**Generic DAG executor** (`generic_dag_executor.py`). A client of the queue that dispatches a plan in batches, with a thread
for each step and a heartbeat thread beside it. Hard: its own heartbeats and other processes move the digest under its
calls; claims go by role and capabilities and not by item. Correct when handlers with live leases keep apart, single
effects begin once, and a dispatch ends.

**Research runtime** (`research_runtime.py`, `research_execution.py`, `research_orchestration.py`). A research is run in five roles by
command line clients of models, each under a lease of the queue, with cancellation and a deadline; its packet, raw
responses, findings and manifest are files. Hard: processes that stay silent or leave descendants that hold the pipes;
imports that are brought again, fail half-way or overlap. Correct when an answer is what was printed, the results of a
research are of one call, an execution ends, and what was imported stays.

### Records of a home

**Local workspace store** (`local_store.py`). A file for each record in one of two layouts, put under a record lock when the
revision is as planned. Everything below is built from such puts; nothing makes two of them one.

**Work Graph** (`work_graph.py`, `work_index.py`). A record for each work item, an immutable event for each revision, a SQLite
projection and a readable index. A change is planned against all records and applied as separate writes. Hard: two
clients between any two of these writes; a crash after the record and before its event; a view built from a plan that is
no longer true. Correct when no revision is lost, events are true, views show graphs that existed, and the graph stays
acyclic.

**Work import** (`work_import.py`). A batch of work items as one all-or-nothing call, undone from a snapshot of bytes. Hard: other
clients of the same items. Correct when an undisturbed batch is there as a whole or not at all.

**Orchestration** (`orchestration_service.py`, `orchestration_state.py`, `orchestration_worker.py`, `orchestration_verifier.py`,
`work_completion.py`). A task has a state record, a chain of events, a checkpoint for each worker step, and an attestation
for the closing of its work item. Operations: start, execute, verify, resume. Correct when the stored state's event chain can
be read back, completed steps are not taken back, dependencies come first, and a task completes only on the
verification its work item was closed on.

**Project integration** (`project_integration.py`, parts of `application.py`). A project's source, bindings, knowledge, vectors and
code index, brought up to date by one call of many puts, next to rescans and rebinds. Hard: calls that died half-way, an
owner who edits the source meanwhile. Correct when an undisturbed call completes whatever earlier calls left.

**Memory gate and hygiene** (`memory_gate.py`, `memory_hygiene.py`). Candidates, reviews, revocations and supersessions of durable
memory; decisions are documents that stay valid. Reports on reviewed metadata suggest what to withdraw. Hard: reports
speak of what memories once were, and no one looks at a replacement again. Correct when what is current was approved as
it is, a decision takes effect once, and superseding duplicates keeps one of them.

**Request authorization** (`request_authorization.py`, `application.py`). A receipt is written before the first effect of a
request and consumed after the last. Hard: the request is delivered again, to another thread or process. Correct when it
is applied once and answered truly.

**Indexes and retrieval** (`source_code_index.py`, `work_semantic_index.py`, `knowledge_catalog.py`, `exact_retrieval.py`,
`dependency_retrieval.py`, `context_builder.py`). Derived files that name what they were built from, and questions that read record
after record without a lock. Hard: what is indexed or read changes meanwhile. Correct when hits, vectors and answers are
true of one accepted scan, of one graph, or of the time since the question was asked.

**Model services** (`model_inventory.py`, `model_health.py`, `model_decision.py`, `model_benchmark_runner.py`). Models are declared, probed,
quarantined, benchmarked and assigned to the steps of a plan. Hard: probes of two processes, an inventory that changes
between two reads, a benchmark whose ledger answers late or not. Correct when an assignment rests on evidence that was
counted right and a verifier is independent, and when a benchmark has one true report.

**Skill lifecycle, execution governance, measured loop** (`skill_lifecycle.py`, `execution_governance.py`, `measured_loop.py`). Chains of
immutable documents that their holders bring in any order, at any time. Correct when an active skill was tested and
approved by four different people, no environment is promoted over an open severe finding, and nothing is admitted to a
loop that is over.

### Trees of files

**Deployment, merge and rollback** (`deployment.py`, `merge_*.py`, `rollback.py`, `verification.py`, `migrations.py`). A journal with stages, a
backup, replaced files, verification and rollback. Hard: a crash while files are replaced or restored, a stage whose
rollback fails, two processes, files changed by others. Correct when the tree settles on a whole version and edits survive.

**Project homes and capsules** (`project_home*.py`, `project_capsule_*.py`, `portable_*.py`, `repo_local_migration.py`). A home is moved
from the flat layout into capsules, or initialized, migrated, archived, restored and merged elsewhere, while its clients
put records. Correct when no record is gone, an archive shows a home as it was, and what was reported as done stays.

**Work documents** (`work_documents.py`, `work_document_layout_migration.py`). Documents are copied, moved to a new layout, listed in a
manifest and made evidence. Correct when what the manifest lists is there as listed.

### Components that compute without shared transitions

Gates, policies and plan construction (`mutation_gate.py`, `validation_gate.py`, `orchestration_intent.py`, `orchestration_plan.py`, ...) check
one request against one authorization. Ranking, scores, context and profiles, doctor and quality checks, the command
line and the foundations derive data or render it. `PROJECT.json` names each with its files and the reason it is not
modelled.

### How they interact

```
  DAG executor, research ──claim, report──┐
                                          ▼
  application / CLI ──plan, apply──▶ runtime queue ◀──bind──▶ effect ledger ◀── worker, operator
        │                                 │ jobs                                   │
        │                                 │ reconcile reads                   handler runs
        ▼                                 ▼
  orchestrator, import ─record, event─▶ Work Graph ──▶ projection, readable index, semantic index
        │ checkpoints, state, attestation │
        ▼                                 ▼
  local store (revision-checked put of one record) ◀── integration, memory, models, receipts
        │                                         │
        ▼                                         ▼
  home as a tree of files ◀── migration, transfer code index, catalog ◀── questions
```

The queue reads the Work Graph when an enqueue or a reconcile is planned and reads the ledger when a bind is planned. The
orchestrator and the import close and create work items with the same two writes as the Work Graph. Homes are moved
beneath all of them without taking their locks. Nothing calls back.

## 2. The modules

| module | models | of |
|---|---|---|
| `ResourceRefs` | the overlap test of resource references | `agent_runtime.py` |
| `LeasedWork` | what the queue promises, without leases, locks, fences or a clock | (abstract specification) |
| `RuntimeQueue` | the queue, one action for each `_apply_*` method | `agent_runtime.py` |
| `RuntimeQueuePlans` | exact plans over queue and Work Graph records | `agent_runtime.py`, `application.py` |
| `EffectLedger`, `GovernedExecution` | the ledger's writes; queue and ledger composed, with workers and an operator | `effect_ledger_store.py`, the binds |
| `DagExecutor` | dispatches of one plan by several processes, composed with `RuntimeQueue` | `generic_dag_executor.py` |
| `ResearchDispatch` | the roles of a research over `DagExecutor`, with cancellation | `research_runtime.py` |
| `ResearchExecution` | one client process, its pipes, readers, deadline and end | `research_execution.py` |
| `ResearchFiles` | packet, responses, findings and manifest of a research | `research_orchestration.py` |
| `WorkGraph` | planning and the five writes of `apply_work_item` | `work_graph.py`, `work_index.py`, `local_store.py` |
| `WorkImport` | plan, writes and undoing of a batch beside other clients | `work_import.py` |
| `Orchestration` | start, execute, verify, resume and the closing of the work item | `orchestration_*.py`, `work_completion.py` |
| `ProjectIntegration` | integration, rescan and rebind of one project, put by put | `project_integration.py`, `application.py` |
| `DurableMemory` | reviews and actions on memories against the store | `memory_gate.py` |
| `MemoryHygiene` | reports, suggestions and the decisions that follow them, over `DurableMemory` | `memory_hygiene.py` |
| `RequestReceipts` | delivery, effects, receipt and replay of one authorized request | `request_authorization.py`, `application.py` |
| `SourceCodeIndex`, `WorkSemanticIndex` | building, replacing and searching the derived indexes | the files of these names |
| `InformationRetrieval` | availability, exact search, the walk along relations, the context package | the four retrieval files above |
| `ModelAssignment` | inventory, health checks, quarantine, assignment | `model_inventory.py`, `model_health.py`, `model_decision.py` |
| `BenchmarkRun` | claim, trials, receipt and replay of one benchmark | `model_benchmark_runner.py` |
| `MeasuredLoop` | plan, iterations, status, cancellation and admission | `measured_loop.py` |
| `SkillLifecycle` | evaluation, plans, approval, records, registry; duplicate groups | `skill_lifecycle.py` |
| `ExecutionGovernance` | register of findings, transitions, authorization, rollback | `execution_governance.py` |
| `ReleasePlan` | planning of a release as operators | `merge_plan.py`, `migrations.py` |
| `AtomicRelease` | a tree that is replaced as a whole or not at all | (abstract specification) |
| `Deployment` | journal, backup, stages, verification, commit and rollbacks | `deployment.py`, `merge_*.py`, `rollback.py`, `verification.py` |
| `HomeMigration` | flat home into capsules | `project_capsule_migration.py` |
| `HomeTransfer` | initialization, migration, archive, restore, merge | `project_home_*.py`, `portable_*.py` |
| `WorkDocuments` | copying, layout migration, manifest, processing | `work_documents.py`, `work_document_layout_migration.py` |
| `RuntimeQueueProofs` | theorems about the queue and its promise | `RuntimeQueue`, `LeasedWork` |
| `QueueClientsProofs`, `GovernedProofs` | theorems about the clients of the queue, over those about the queue | `RuntimeQueuePlans`, `DagExecutor`; `GovernedExecution` |
| `WorkGraphProofs` | theorems about the work graph, its import, the derived indexes, memories, the integration of a project, and models | `WorkGraph`, `WorkImport`, `ProjectIntegration`, `ModelAssignment`, `SourceCodeIndex`, `WorkSemanticIndex`, `MemoryHygiene` with `DurableMemory` |
| `OrchestrationProofs` | theorems about tasks | `Orchestration` |
| `TreeProofs` | theorems about trees of files, with a refinement | `Deployment`, `AtomicRelease`, `HomeMigration` |
| `TransferProofs` | theorems about archives, transfers between homes, and work documents | `HomeTransfer`, `WorkDocuments` |
| `ServiceProofs` | theorems about requests, benchmarks, loops, skills, and a research's files and clients | `RequestReceipts`, `BenchmarkRun`, `MeasuredLoop`, `SkillLifecycle`, `ResearchFiles`, `ResearchExecution` |
| `MC*` | instances for TLC | |

`map` in `PROJECT.json` names, for each definition, the source lines it translates.

Three conventions hold throughout. A call that raises before its first write changes nothing and is no step. A step is as
much as the code makes atomic: one transaction, one locked put, one replaced file; several reads are one step only where
the code compares what it read again before it relies on it, or where the module says why a later reading gives the same
answer. A process that raises between two writes and one that dies are the same step unless the code undoes something.

**Instances with several subjects.** Systems that do not interact share a run. `MCQueueClients`, `MCRecords`, `MCServices` and
`MCTrees` have a variable (`clients`, `subject`) that is chosen at first and never changes; it says which system a behaviour
is about. A module with theorems is extended, so that its run checks the very definitions that are proved and evaluates its
assumptions: `MCQueueClients` extends `RuntimeQueuePlans` and `DagExecutor`, `MCServices` extends `GovernedExecution`,
`RequestReceipts`, `BenchmarkRun`, `MeasuredLoop`, `SkillLifecycle`, `ResearchFiles` and `ResearchExecution`, `MCRecords` extends `WorkGraph`,
`WorkImport`, `SourceCodeIndex`, `WorkSemanticIndex`, `MemoryHygiene`, `ProjectIntegration` and `ModelAssignment`, `MCTrees` extends
`Deployment`, `HomeMigration`, `HomeTransfer` and `WorkDocuments`. Systems without a theorem get variables of the instance by an
`INSTANCE ... WITH`; those of `MCServices` take turns with plain variables (`s1`..), of which a subject leaves what it does not
need at "unused". Each property speaks of its subject only.

**RuntimeQueue.** The variables are the tables. Every action takes its evidence (item, owner, fence) from *any* caller: a
stalled, crashed or superseded worker needs no state of its own, it is a caller whose evidence no longer matches. A lease
keeps the time it has left instead of two clock readings, since the code only compares `expires_at` with now; `Tick` is the
clock. The lease id, a digest of item, owner and fence, is that triple. Evidence digests and the event log are left out,
since nothing reads them but the state digest.

**RuntimeQueuePlans.** The state digest covers every table and the event log, and every action but a reconcile appends an
event. So no digest comes back, and all that is kept of it is whether a plan is still *fresh*. `Look` is a step of its own
because preparing a reconcile reads whether the projection is current before it reads the jobs and the records.

**GovernedExecution.** The bind actions of both stores are conjoined. The ledger is read in the step of the queue's
transaction although the code reads it just before: what a bind requires of the ledger is never revoked there. The worker is
external, as `src/` has the stores and not the program that runs a handler: it runs the handler only with both answers,
and forgets them when it dies.

**DagExecutor.** A call that is applied met the digest it read, so its two halves are one step; a call that somebody else came
between is refused, and any call may be. A step's owner token is part of the plan, so two processes present the same one.

**WorkGraph.** A client is a program counter and a plan. Reading all records is one step although the code reads file
after file: the records are read twice and compared, and revisions only grow. `past` is history: every graph the records
ever made up.

**Orchestration.** An event's digest covers the one before it, so an event is identified by the whole history it ends.
`PutEvent` compares the stored state and puts the event in one step: an event put after the state moved on has a sequence that
no later event has, and its state is refused, so nothing can tell. Left out are the plan record, the handoff, the statuses
that no operation of the service enters, and the layout below 2 in which no work item is bound.

**Deployment.** A deployment is identified by what its plan was made from, so that two processes that plan the same update
work on one journal. Comparing and writing are never one step when both concern the same file.

**Documents in any order.** In `DurableMemory`, `MeasuredLoop`, `SkillLifecycle` and `ExecutionGovernance` a document is a value that anybody who has it
may bring again: the sets of documents only grow, and an operation takes any of them. That is how old approvals meet
newer states.

## 3. The runs

Deadlock is checked nowhere: each of these systems may rightly stop, when every item has settled or when a bound on
revisions, calls or documents is reached and every client is idle.

| run | distinct states | question |
|---|---|---|
| `runtime_queue` | 18 608 | do conflicting items exclude each other, do the tables implement `LeasedWork`, does the queue drain? |
| `queue_clients` | 1 389 522 | does a plan take effect once, do jobs close on completed work, do handlers keep apart, is a research of one call? |
| `services` | 716 104 | do effects, requests, benchmarks and imports happen once, are skills, transitions and loops within their rules, does what is started end? |
| `records` | 1 989 465 | are events, views, batches, memories, integrations, indexes, assignments and answers true while their records change? |
| `orchestration` | about 1 531 000 | do history, completed steps and attestations survive races and crashes? |
| `trees` | 2 184 354 | is a tree whole, and nobody's record or edit lost, wherever a move of files stops? |
| `job_closes_early` | violation | does no job close while its work item is active? |
| `work_graph_acyclic` | violation | does the graph stay acyclic? |
| `completed_step_checkpoint` | violation | does every completed step keep its completed checkpoint? |
| `next_step_can_start` | violation | can the step that resume names be started? |
| `interrupted_recoverable` | violation | can an interrupted restore be rolled back or followed by an update? |
| `dag_foreign_lease` | violation | does an executor lease only items of its own plan? |

**Each property and the hazard it is for** is listed under `hazards` in `PROJECT.json`, and each has a mutant: a
plausible slip in the code under which TLC finds it violated. The mutated forms stand beside the definitions they replace,
with a one-line comment that says what is wrong with them, and are used nowhere else. A property that is proved and whose
case another run's property covers is not run a second time.

### Bounds and why they are enough

*`runtime_queue`:* three items, where the second overlaps both others and the other two may run together, are the fewest
that show both exclusion and parallelism; two of them have an attempt to spare, one may write; two workers, of which one
may run only the reads; leases of one or two seconds, so that one may expire while another is live. Attempts are bounded
by the scheduler policy itself (`MaximumAttempts`); the state space is finite without a further bound.

*`queue_clients`:* one plan with two deliveries against all other clients is enough for a retry to overlap, since a
plan is only ever compared with the database; two work items with a dependency, of which `MaxRevision` 2 lets each be completed,
cancelled or blocked once; two queue items (0 and 3) that are executions of them, of which a version 1 database may hold one, waiting (what such a database
had leased or settled is left out). Executors: two processes and two dispatches of three steps, of which two may run together and one
depends on another, beside an item of somebody else. Research: two processes, a batch of two roles and one that depends on
both; the five roles of the code (789 thousand states) pass as well.

*`services`:* governed effects: two claims under one lease with different keys and one under another lease that shares a
key, the three ways in which a second run of a handler could come about. Requests: two threads of one process and one of
another. Benchmark: three runners, two repetitions (the policy's minimum number of samples is not part of the instance).
Loop: three rounds and times, a plateau of two, so that each limit is reached by some behaviour before the others.
Execution: three blocks of output where two are kept. Files: a packet, a response brought twice and another. Skills: one
candidate, four people and a policy that becomes stricter and laxer, three plans, so that a change can follow an activation
while a rival waits; and all ways in which four candidates share three pieces of evidence. Governance: a severe finding,
two entries that would close or belittle it, and a promotion with its rollback, at four times that are the halves of seconds, so that
a whole second and its own fraction are compared as texts both ways. References: every ordered pair of depth up to three over two names.

*`records`:* two clients and two items, one of them new, which begins as active (any status, 771 thousand states, passes as well); a race
needs two clients, a cycle two items. Semantic index: two items and three puts (four, 265 thousand states, pass as well). Import: one batch of
two, by one process up to the second revision while others change one of the two items, whose rollback may leave the manifest; by one process
alone, each of whose rollbacks may leave any two targets; or by two processes at any times up to
the first revision, whose rollbacks restore everything (two processes beside others exceed 10 million states). The theorem has none of these bounds. Memory: three revisions, two contents, four decisions.
Hygiene: three memories of one meaning, two times of last use and five decisions (six, 294 thousand states, pass as well). Project: two calls, a copy of the
source and one edit, where a version tells its technologies and its modules (three calls with one edit, 2.3 million states, and two with two edits pass as well). Code index: two
files, two directories, two processes and one edit. Models: two models and a worker with its verifier, while one
model is declared anew and the first, of either id, is checked, or until what was found out is too old; or two checkers of one model. Questions: a source, two
knowledge records that form a cycle, a memory, and two changes; walks in all directions with limits that cut and limits
that do not. Where an answer is given that nothing changes any more, the instance takes no other step before it is answered, and
records are put only until the last reading.

*`orchestration`:* two clients, two steps with a dependency, one of which can be requested with two inputs; `MaxRevision` 5
is the shortest history that completes a task and one more transition, so a failure, its retry or a lost race fits in;
`MaxItemRevision` 2 lets the owner interfere once. `VIEW View` leaves out events that are neither in the state's history
nor of a later sequence, and what a client was about to put that is refused for good, as it can only stop: no action and no
property of that run looks at them again. (The number of states differs a little between executions: of two states that differ by
the names of the clients only, TLC may keep both, as it orders them before it applies the view.)

*`trees`:* Deployment: two releases that can follow each other, a program file, a user's record that is migrated, and a
derived file; three journal events and one edit; without edits three deployments pass as well. Migration of a home: two
records and one client, and a revision more than a put before and one after the move need. Transfers: two homes of two files, two transfers, puts until a file has its third content; the
source may lack the second file where the target is no home yet.
Documents: one outside and two of the old layout that want the same place, two tools, one mishap (a death, a failure or
an edit); two outside and two old ones, 10.9 million states, pass as well.

Symmetry is used for clients, executors and processes where their identities are model values that nothing compares
but for equality, and only in runs without liveness.

### Fairness

`runtime_queue`: weak fairness of `Tick`, of `Recover`, of claiming each item by some worker, and of a report on each item.
The clock runs. Claiming is what workers do in their loop. Recovery is an operation that no component calls by itself:
`generic_dag_executor.py:672` refuses to go on with a leased step and tells its caller that recovery is required. Its
fairness is the assumption that some client or operator then calls `runtime.queue.recover`. A report stays enabled
only while the lease is live: a worker may be dead, and then its lease expires; what is excluded is a worker that renews
its lease for ever and never reports.

`services`, for a dispatch: the loop of the dispatching process and its threads go on, the clock runs and somebody recovers. Calls
of others may be refused for ever and still `DispatchEnds`, since a refusal ends the dispatch. For an execution: the
running thread, its two readers and the clock; *none* of the client process, which may stay silent or hold its pipes
for ever. No other subject has fairness, and no other run a liveness property.

### Disagreements that a run finds

Each has an entry under `findings`.

1. *A job may close while its work item is active* (`job_closes_early`). The Work Graph is read while a reconcile is
   prepared, and the digest that the transaction compares does not cover it.
2. *Two clients may make a dependency cycle* (`work_graph_acyclic`). Each plan is checked against the whole graph, each
   write only against its own record.
3. *A failed checkpoint may replace a completed one* (`completed_step_checkpoint`). Two clients run the same step; the
   slower one's failure is stored before its transition is refused.
4. *A task may become impossible to resume* (`next_step_can_start`). A client that dies between an event and the state leaves
   an event under the id that every later attempt computes.
5. *An interrupted restore blocks the installation* (`interrupted_recoverable`). A process that dies while it restores
   leaves a journal that neither rollback nor a later update accepts.
6. *An executor may lease somebody else's item* (`dag_foreign_lease`). Claims go by role and capabilities; the executor
   drops an item that is not its own without giving the lease back.

### Further observations

Met while modelling and visible in the modules, where the properties are stated so that they hold with them:

*Queue and clients.* Enqueueing through the executor uses `RuntimeQueue`'s action without the work item's checks, and the
checks of a prepared enqueue are not repeated by the transaction. A dispatch whose last missing step is completed elsewhere
raises "no schedulable ready step". The first heartbeat of a step is outside the block that reports a failure.

*Research.* A descendant of the client that keeps stdout open makes the readers miss the last chunk when `join(timeout=5)`
gives up, so an earlier draft in the output would be taken for the answer. Items that a failed research leaves queued can be claimed by the next
one's dispatch. The manifest is written before the findings: a process that dies between leaves the research
invalid. Two overlapping importers can lose an import that was answered with applied.

*Work Graph and import.* A revision may never get its event: record and event are two writes, and a later call computes
another event (`docs/specifications/WORK-GRAPH.md:27`). A projection stays stale when a slow client writes it last. A process that dies between a completed
record and its event leaves the task verifying; an item that changes between building and persisting its attestation
fixes that attestation, and completion fails closed (`WORK-CONTINUITY.md:49`). A failed import restores raw
bytes and so overwrites a newer revision of another client. It goes on after a target that it cannot restore and raises only in the end
(`work_import.py:737-741`): a manifest that cannot be removed then claims a batch whose records are gone. `WholeOrNothing` remembers such a
rollback (`unremoved`) and says of one that failed what holds of the targets it could restore. Two importers of one batch that plan before either writes both
pass the checks. The one that fails on a record the other has put restores its targets, the absent manifest first and the records
last; if the other writes the manifest in between, it claims a batch that is not there. The property and its theorem exclude this by
`overlapped`.

*Requests.* Another thread with the same request id that raises removes the pending authorization of the first, whose
receipt then stays pending although its answer is applied (`REQUEST-AUTHORIZATION.md:21`). The operation
`request.authorization.repair-local` is named and does not exist.

*Deployment.* An automatic rollback of a failing deployment undoes another process's completed one of the same
release; an operator who does not wait (`OperatorWaits` FALSE) can see "completed" overwrite "rolling-back"; two applies of
one plan can overwrite the journal with "preparing".

*Homes.* The capsule migration takes no record locks: a put between comparison and removal is lost, a record created
anew survives a rollback, and a put planned for the old layout may leave a record in two places. A migration that
died cannot be resumed by any tool. An initialization that loses a race restores the Git exclude file to the bytes before
its plan, so that the winner's home is no longer excluded. A merge replaces a file that a client put after the look, and
a failed merge removes files that others changed or reported as done (`PROJECT-HOME-MERGE.md:59`). An initialization that cannot read back the marker it created removes it
(`project_home_initialization.py:513-515`), although another initialization may have found it and reported success; a merge that was
planned before then writes into a place without a marker, where a restore may meanwhile have put a home. `SuccessIsKept` says what stays nevertheless. Beside another merge the archive of the
target may show files that were never together: the two readings agree (`project_home_merge.py:195-223` compares path, size and digest), and yet
the other merge may have put a file between them and taken it back when it failed (`:502-509`). It takes two merges and three files of which
the source lacks one, or three merges and two files. `ArchivesAreSnapshots` says it of the target only where no other merge is.

*Work documents.* A repeated initial copy rebuilds the manifest and drops what was added to it; a migration keeps the revision of an entry whose file was edited without a
manifest update; overlapping writers share `import-manifest.json.tmp`. The module ends at such an overlap (`spoilt`).

*Integration.* A registration that died half-way blocks its source, and a rebind that died half-way makes later rebinds
refuse until the content changes (`PROJECT-INTEGRATION-LIFECYCLE.md`, Recovery; `StoppedIsResumed` in the module states what
the document promises). An automatic call on an edited source raises until a manual scan.

*Models, loop, skills, governance.* A probe started before a quarantine lifts it when it passes afterwards
(`MODEL-INVENTORY-HEALTH.md:51`). A worker that is decided after a verifier may get that verifier's model. A status close
to the zombie age admits up to `ZombieAfter` later, and a decision to cancel, accept or revert is reported before an
exhausted budget. The mutation of a skill plan does not name the approver, so one approval covers two plans that
differ only in that. A transition dated ahead of the time, and a rollback to other stages or digests than the
promotion's, are not refused. Times are compared as texts, and `isoformat` drops zero microseconds (`execution_governance.py:92-101`): `...:01.500000Z` sorts before
`...:01Z`, so that an entry up to a second later than a transition dated at a whole second clears a severe finding, although the
message says "cannot use future register evidence" (`:609`). `Text` is that order, and `FindingsAreDisposedOf` allows exactly this second.

*Indexes and retrieval.* Semantic scores load the index again after they checked it, so a slow writer's older index may
be scored. A search of the code index reads binding and source state separately. `depth_limited` is reported also for
relations that would have been left out as stale; the path check of the dependency walk decides nothing, as a
neighbor on the path has been found before.

*Memory hygiene.* A report orders the groups of duplicates by their first memories, current or not, but its parser wants them in the order of
the memories that stand for them: with a superseded memory `a`, current duplicates `d` and `e` of it, and other duplicates `b` and `c`
`build_memory_hygiene_report` raises "memory duplicate groups must be sorted", so that such a home gets no report
(`memory_hygiene.py:738` and `:858`; in the module, `Accepted` is a guard). A report may suggest to supersede duplicates by a memory
that it also suggests to revoke, and a replacement may have got other content since; the meaning is then lost.
The same evidence may have weight zero among the duplicates and weight one among the versions of its source.

*Continuity and coordination (read, not modelled).* `verify_continuity_snapshot` skips the comparison of completed steps when they were omitted for length
(`CONTINUITY.md`), and a journal that lost its tail verifies. The execution coordinator dispatches an awaiting plan before
it looks at the approval envelope, and cannot finalize a plan with more steps than a snapshot may list.

## 4. The theorems

TLAPS checks these for every number of items, workers, clients, processes, steps, files, records and documents, every
conflict relation, dependency relation, release and policy, and every limit. Each module states its inductive
invariant first (`...Invariant`), which TLC had checked on the instance of the run, and then what follows from it. Properties
of one subject are stated without the run's `subject`: the run checks the same definition while the behaviour is about it.

**RuntimeQueue** (`RuntimeQueueProofs`). Assumed: queue ids are numbers (`ItemsAssumption`), references conflict
reflexively and symmetrically (`ConflictAssumption`; `ResourceRefs` checks the code's test against a definition that is
both), the tables that describe an item are well typed (`ItemAssumption`), limits and durations are positive
(`PolicyAssumption`: the policy loader, `agent_runtime.py:147-157`, refuses a number below one). `TypeCorrect` is inductive by itself. The others rest on

    IInv == TypeOK /\ TablesAgree /\ NoConflictingExecution /\ AttemptsBounded
              /\ FenceCountsAttempts /\ AbsentIsBlank

Exclusion is not inductive alone: claim looks at locks, so it needs that locks are those of the leased items
(`TablesAgree`). The attempt limit is not looked at by claim at all, so it needs that a queued item has an attempt left, and that
needs that an absent row is blank. `TablesAgree` is kept because `Complete`, `Fail` and `Recover` are one kind of step
(`Releases(gone)`: some leases go with their locks, their items leave "leased"), `Heartbeat` and `Tick` another (`Renews`), and the
rest leaves the tables alone (`Untouched`) or is a claim or an enqueue; the proof shows each kind once and each
action to be of its kind. From the invariant follow `TablesAlwaysAgree`, `ExclusiveExecution`, `AttemptLimit`, `SettledIsFinal`
(an action property) and, with one more conjunct about attempt rows, `EffectsAreNotReplayed`. `BindingsAreFinal` and
`OnlyTheLiveLeasePublishes` are action properties that follow from it alone; the latter needs that a lease there is carries the
newest fence. `CompletionsAreAccounted` is inductive over it. `AttemptsAreHistory` adds that a leased item has had an attempt, so
that the row a completion closes is there. `QueueImplementsLeasedWork` is the
refinement: the phase of an item comes from its status, the attempts begun are its fence, and each step is a step of
`LeasedWork` or a stutter. A recovery of many leases is one `Lose`.

**WorkGraph** (`WorkGraphProofs`). Assumed: the initial graph is one the planner accepts, and there is a bound on revisions.
The invariant says of a plan whose record is not written yet that the record has not gone back, and that *while* it is at
the planned revision its status is the one the plan was checked against; that what is about to be logged as an event
is witnessed by the records' history; and that a graph that was compared with the records is one they had. The first is
the reason why comparing only revisions suffices: `RevisionsAreVisible`. The others give `EventsTellTheTruth`,
`ViewsShowPastGraphs` and `RelationsHaveTargets`.

**Derived indexes** (`WorkGraphProofs`). Nothing is assumed about the source code index. What a job has built is what can be
indexed of its scan but for the files that are left, so an index that is installed is complete for the scan it names, and a search
opens it only if that is the scan it took for the accepted one: `HitsOfTheScan`. The two later readings of the files, before an
index is installed and before a hit is given, are not needed for it: they keep *old* content out, and the theorem is about what the
index says. Of the semantic index it is assumed that `Items` is a natural number. Its invariant says that an item is never read at a lower
revision than it was read before, within a call (`ReadInOrder`) and between planning and applying (`DigestWasRead`). So digest and
entries, equal at planning and at applying, cannot have moved in between and are those of the graph that the projection was written
from, which there was: `VectorsOfOneGraph`. That revisions only grow is what it turns on.

**Durable memory** (`WorkGraphProofs`). Assumed: documents are reviews and actions (`DocumentsAssumption`), memories are named by
numbers (`MemoriesAssumption`: that they are ordered is all that is used). The invariant `MemoryInv` says of what is about to be put that
it is what a decision that was presented leads to, and persistable (`Grounded`); of the writes, that those of one memory are in the order of their
revisions (`WritesAreInOrder`), that each revision there is was written and the last write is what is stored (`RevisionsAreWritten`);
and that a report suggests to supersede a memory only for a smaller one that has had the meaning (`ReportsSpareOne`). So the smallest
memory that ever had a meaning is superseded by no suggestion: it is there, or somebody gave it up. This is `MemoriesStay`,
with both halves of `MemoriesAreKept`.

**WorkImport** (`WorkGraphProofs`). Assumed: the batch is a sequence, what others change is among it, and importers have names of
their own (`BatchAssumption`); a batch may name an item twice, and there may be any number of importers. The invariant `ImportInv` says of an
importer that writes, as long as no two wrote at once, that every record and event before the one it is at is there or was replaced by a
newer revision (`WroteBefore`), and that there is no manifest until all are (`Advanced`); of one that restores, that the manifest was the first to
go, unless some rollback could not remove it (`Clear` is neither). Of one since whose snapshot nobody else wrote, it says that all targets behind the one it is
at are as they were kept but for those it could not restore (`RestoredFrom`). The targets are a concatenation; what stands at each number is a lemma of its own (`TargetsAre`, `NumbersAre`).
From it follows `ImportsAreWhole`.

**ProjectIntegration** (`WorkGraphProofs`). Nothing is assumed of callers, directories, versions, what a version tells, and bounds. The invariant `ProjectInv` says, of
every call that nobody disturbed since it planned, that each record of the plan is what the call has put, or still at the revision
that it was planned against (`RecordsAsPlanned`), that the indexes are as planned or replaced (`IndexesAsPlanned`), and that what an
integration leaves is complete, about one version and one revision of the binding (`Complete`). Two lemmas carry the theorem: such a call
passes the check of every stage (`AsPlannedPasses`), so that it never fails, and what a verified one leaves is, put by put,
what another one would plan (`CompletedIsDone`). Interrupted calls need no invariant of their own: a plan is made from whatever records there are.
From it follows `UndisturbedIntegrates`.

**ModelAssignment** (`WorkGraphProofs`). Assumed: the numbers are numbers, the threshold is at least one, as the health policy demands,
and plans are sequences (`ModelsAssumption`); there may be any number of models, checkers and plans, with any dependencies. The invariant
`AssignmentInv` says of a health record that it counts the results there were, as far back as they failed in a row for the same
declaration (`HealthIsCounted`, `Counted`); of one that is about to be put, that it was made of the record it would replace or will
be refused for its revision (`PutsAreCounted`): two checks that overlap never count one failure into another's record. What the planner read
of a model was there, and if it passed there is such a result (`ReadWasThere`), so whatever is assigned was tested (`AssignedWereTested`). And each verifier
was given another model than all workers before it (`MadeInOrder`). That only a verifier's ancestors are asked about suffices since
those come earlier in an accepted plan: the steps before it are closed under dependency, and its ancestors are the least such set
(`AncestorsAreEarlier`), which takes the place of an induction. From it follows `AssignmentsStaySound`.

**Orchestration** (`OrchestrationProofs`). Assumed: a task has at least one step, dependencies are among the steps, and the bounds are
numbers. The invariant speaks of what a client carries: a transition continues the history it read; a state
whose event is written is, unless the stored state moved on, an allowed successor of the stored state; what it read of the
checkpoints names steps that still have one; and what it is about to close is what is attested. One lemma (`OthersStay`)
shows that a step of one client keeps this for the others, as records only grow: checkpoints of a step are replaced and
never removed, events and an attestation stay, a state that changes gets longer. From it follow `RecordsAreWellFormed`,
`ChainIsNeverBroken`, `CompletedTasksAreAttested`, `DependenciesComeFirst` and `NoStepBack`.

**RuntimeQueuePlans** (`QueueClientsProofs`). Assumed: each queue item is bound to a revision of a work item, dependencies are among
work items (`WorkAssumption`). `PlansAreOfTheQueue` shows that every step, whatever the plan performs, is one of the queue
or leaves its tables alone, so that all theorems about the queue hold here. The invariant `PInv` adds that a plan that still
matches the digest has not been applied (`FreshIsUnapplied`; a plan is made fresh by preparing it only, and every applied
action makes every plan stale), and that what a reconcile reads is witnessed: an open job whose work is completed was seen so
while it was open, and the jobs that a fresh reconcile would close are such jobs (`ReadingsAreWitnessed`). From it follow
`PlansAreAppliedOnce` and `JobsCloseOnCompletedWork`.

**GovernedExecution** (`GovernedProofs`). Assumed: each claim names a lease (`LeaseOfAssumption`), and the queue may be told of
any completed receipt (`ReceiptsAssumption`). Again every behaviour is one of the queue (`GovernedIsAQueue`). The invariant
`GInv` holds the two stores together although no transaction spans them: a bound claim is durable, is for the item and
fence of the row, and a bound receipt is that claim's completed one (`RowRestsOnLedger`; it needs of the queue that a ledgered item
is more than a read and therefore has one fence ever); a receipt and a run need a claim, a completed receipt needs a run
(`LedgerRestsOnRuns`); and the two answers a worker remembers are used up by the run (`AnswersAreUsedOnce`). From it follow
`CompletionsRestOnLedger` and `EffectsRunOnce`.

**DagExecutor** (`QueueClientsProofs`). Assumed: the steps are items of the queue and the worker tokens of their own claims, dependencies
are among the steps, and the default duration is one the queue grants (`DagAssumption`). `DagIsOfTheQueue` shows that the calls are
operations of the queue. What a lease alone does not show is who holds it, as all processes present the same token: the
invariant says that two processes never hold the same fence of a step, that no fence is of the future, and that a step began
at most as many handlers as it has had fences, one fewer as long as the holder of the newest has not begun (`FencesAreGivenOnce`,
`BegunOncePerFence`). With the queue's exclusion this is `HandlersStayExclusive`.

**Deployment** (`TreeProofs`). Assumed: the first tree is one that the engine can read (`Tree0Assumption`), and what somebody else
writes can be told from what releases and migrations make (`ForeignAssumption`): this is how the model knows an edit, not a
demand on the code. There are two invariants. The first, `IInv`, holds with any number of processes at once: trees are well-formed,
what a process carries is a plan without conflict, and a file that a process is about to write was not edited since it compared it
(`ComparedIsUnedited`). From it follows `EditsAreKept`. The second, `SInv`, is about processes that come one after the other and
die anywhere. It says that nobody else is at work and how far the one at work has come (`OneAtWork`, `WorkIsAlone`), that journals
which were not rolled back are for different revisions (`JournalsDiffer`), that completed ones are for the revisions
from the first on without a gap (`CompletedAreSuccessive`), and accounts for the tree (`TreeIsAccountedFor`): each file is as an
interrupted deployment found it or was to leave it, each deployment was made for the first tree or for what another one left, and an
interrupted one is for the current revision or the one before. The way out is needed, because the code reaches it: a rollback that died
may be followed by none other, and then a deployment's base is gone and nothing starts any more (`Stuck`; finding 5).
From it follow `SettledTreesAreWhole` and the refinement `AtomicReleaseIsImplemented`. There, versions are the completed
deployments by revision; marking a new deployment "preparing" is the promise's `Begin`, completing it `Install`, starting the
rollback of a completed one `Withdraw`, finishing the rollback of the only one pending `GiveUp`, and every other step stutters.

**HomeMigration** (`TreeProofs`). Assumed: the bound on revisions is a number. The invariant `MInv` follows the migrating process: before
the archive only clients have changed the home (`Untouched`), afterwards the archive is the plan (`Archived`); until the layout is
published nobody puts into a capsule and the capsules are what is compared before a flat file goes (`BeforeTheLayout`), afterwards capsules
have what was planned or newer (`AfterTheLayout`), also of puts that are on their way (`PutsAreOfALayout`,
`LocksAreExclusive`); a rollback has restored what it passed (`RollbackRestores`). From it follows `MigrationLosesNothing`.

**HomeTransfer** (`TransferProofs`). Assumed: the files of a home are numbered from one on and there is at least one, the archive
that is there has contents that there are, and the bound on contents is a number (`TransferAssumption`). That two readings agree shows
that there was such a home only because contents grow: between the end of the first reading and the beginning of the second there is a time whose files
lie between what both found, so an archive made of readings that agree shows the home of that time. `SourceIsSeen` and
`TargetIsSeen` say so of a reading half-way, file by file in the order they are read (`Orderly`). What merges take back is all that ever gets
less, and `CarriedStays` bounds it: a merge adds, and takes back, only files that it found lacking, so of what a transfer
carried and reported nothing goes. A marker is created exclusively, so the one there is was made by one process at most, and only that
one takes it away: `MarkersStay`. Until an initialization does so (`TookBack`), every merge and every transfer that is done finds a marker; afterwards
only what brought its own marker is certain of it, and of its files where there is no other merge. From `TransferInv`, these together with the
types, follow `ArchivesAreSnapshots` and `SuccessIsKept`.

**WorkDocuments** (`TransferProofs`). Assumed: no content is the mark for "no file", and every document has a place
(`WorkDocumentsAssumption`). The invariant `DocsInv` says of the manifest that its documents are there (`Shows`); of a plan, that it
copies, has read or found listed what it will list (`ListsWithReason`), each path once (`CopiesAreOne`); of the tool at work, of which
there is one until they overlap, that what its plan lists is there or is still to be copied (`ToCopy`), that the manifest is the one it found or
the one it installed (`ManifestIs`), and that what it created was neither listed in what it found nor known to anybody (`IsCreated`), so that
undoing disturbs nothing. `Knows` carries the evidence of work items. The comparison before writing is where a plan, however old, becomes true
again: `CompareStep` obtains `ToCopy` from the manifest, the readings and the targets. From it follows `ListedStays`.

**Services** (`ServiceProofs`). *Requests:* nothing is assumed, not even that callers are finitely many. What was executed leaves
its trace (`TracesAreLeft`), so that a caller that reconciles sees it; a caller in the middle of the effects is alone
(`WriterIsAlone`: not by a lock, but because it put the item at the revision that its plan names); what a caller saw or answers has happened
(`CallersAreRight`), and the receipt is right (`ReceiptIsRight`). From it follows `RequestsAreAppliedOnce`.
*Benchmarks:* at least one repetition, and runners are not named "nobody" (`BenchmarkAssumption`). Only the runner that claimed the
plan works, and its outcomes are all that was tried (`WorkIsClaimed`, `TriedOnceAtMost`), so `BenchmarksReportOnce`.
*Loop:* limits are positive, as `measured_loop.py` demands of a budget (`LoopAssumption`). `AdmissionsAreBounded` needs the
type invariant and that active claims are within the ceiling. *Skills:* each candidate has a proposer, an evaluation has at least one trial (`SkillAssumption`).
Documents rest on each other: evaluations by others than the proposer (`EvaluationsAreIndependent`), plans whose evaluation sufficed or
that follow a record (`PlansAreSupported`), records of plans (`RecordsAreOfPlans`), entries of records
(`EntriesAreOfRecords`); as documents are never taken back, support stays. From it follows `ActiveSkillsRestOnEvidence`.
*Files of a research:* the packet is not the name of a response, and each importer brings a response or the packet
(`ResearchAssumption`). Until two importers write at once or one dies writing, the invariant says of the one that writes that undoing what it wrote
leads back to sound files, that each file is as it was or as planned, and, the point on which `ImportsStay` turns, that an importer
which was answered meanwhile "applied", because it found its response listed, relies on what was listed before; or nothing is left to
write and so nothing can fail and be undone (`WorkIsHalfDone`). That half-written files list nothing new without being seen to
be wrong is a lemma of its own (`HalfWrittenListsNothingNew`): the manifest is written first, so what it lists too early has no files yet.
*Execution of a client:* the limit is a number (`LimitAssumption`); pipes, chunks, deadline and which output parses may be anything. What was written
to a stream is in the pipe, with its reader or kept, unless some of it was cut off for good (`NothingIsLost`), and when the readers
have been joined nothing more can come, unless a descendant keeps the streams open (`JoinedAtTheEnd`). From it follows `AnswersStayWhole`.

**Only model-checked**, and why:

- `QueueDrains`, `DispatchEnds`, `ExecutionEnds`: liveness under fairness, outside the prover's reach.
- `RelationsAreExact`, `AnswersAreTrue`, `FindingsAreDisposedOf`, `ResearchIsOneCall`: what recursive definitions over data compute
  (paths of references, chains of evidence, walks and folds, successors of a finding, batches); induction over data is outside the prover's
  reach.
- `OneSuccessor`: with two processes at once, which of the states that were written was seen by whom has to be
  remembered for every file; the invariant would be about histories that the model does not keep.

Several definitions of the modules with theorems (`TypeOK`, `AttemptHistory`, `SettledStaysSettled`, `DependenciesRanBefore`, ...)
are proved and not run, since a run would only repeat the theorem.

## 5. What is not modelled, and the plan

**Not modelled**, with the reason:

- *Execution coordinator, continuity.* Sequences of checks over records that nothing under `src/` persists between calls; the
  parts they call are modelled.
- *Orchestration intent and plan, gates, model scores, adaptive routing, evidence and context measurements, ranking of hybrid and unified retrieval,
  context and profiles, doctor, statement classifier.* Deterministic functions of one input without a transition; their
  correctness is numerical or textual. Where a modelled component relies on one, what it promises is a guard.
- *Implementation delivery and sandbox.* Effects of Git and of external processes.
- *Handoff and plan record of orchestration, unresolved reviews and shared bundles of work documents, deletion of records.*
  Written once or read only by people; nothing modelled decides on them.
- *Command line, tools, rendering, packaging.*
- *Faults inside a step:* a marker that is created and then cannot be written stays, and later plans refuse it
  (`project_home_initialization.py:505`: `home_created` is set after the write); that a client's process group is asked to end and killed
  two seconds later is one step, before which it goes on (`ResearchExecution.Terminate`).

Digests are taken to be injective throughout, and SQLite transactions and `os.replace` to be atomic and durable. That a
file is deleted and created again with the same bytes between two looks is not considered.

**Order of the work**, what loses data or repeats effects first:

1. *done* Queue, its promise, its plans, the ledger and their composition.
2. *done* Work Graph and import; orchestration with work completion.
3. *done* Deployment and rollback with `AtomicRelease`; homes; work documents.
4. *done* Executor and research as clients of the queue, with their liveness.
5. *done* Requests, memory, integration, indexes, retrieval, models, loop, skills, governance.
6. *done* Theorems of the composition: plans, ledger and executor over the queue.
7. *done* Theorems of the trees: what survives in a deployed tree, that `Deployment` implements `AtomicRelease` for processes one
   after the other, and that a migration keeps records.
8. *done* Theorems of the services: requests, benchmarks, loops, skills, files and clients of a research.
9. *done* Theorems of the derived indexes.
10. *done* Theorems of transfers between homes.
11. *done* Theorems of files that several tools write, of memories, of imported batches, of the integration of a project, and of models.
12. **What is left**: a theorem about the one property above that the prover could reach, `OneSuccessor`, by a model that
    remembers who saw which state of a file.
