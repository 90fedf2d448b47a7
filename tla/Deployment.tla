----------------------------- MODULE Deployment -----------------------------
(***************************************************************************)
(* Deployment of releases: a journal of stages, a backup, files that are   *)
(* replaced one by one, verification, and rollback.  Any number of         *)
(* processes (Clients) work on one installed tree without a lock, each may *)
(* die between any two steps, and somebody else may edit files.            *)
(*                                                                         *)
(* A deployment is identified by what its plan was made from: the release, *)
(* the tree and the deployments there were.  So two processes that plan    *)
(* the same update work on the same journal.                               *)
(*                                                                         *)
(* Reading is one step where it is followed by a comparison with what was  *)
(* read: a file that changes after its own comparison is a file that       *)
(* changes after the step.  Comparing and writing are never one step when  *)
(* both concern the same file.  Files are written in any order, the state  *)
(* last when restoring.                                                    *)
(***************************************************************************)
EXTENDS ReleasePlan

CONSTANTS Clients,
          Tree0,           \* the installed tree at first
          OperatorWaits,   \* an operator rolls back only while no other process is
                           \* at work, and no update starts meanwhile
          Foreign,         \* a content that no release and no migration makes
          MaxEvents,       \* bound: journals and edits together
          MaxEdits         \* bound: edits by somebody else

ASSUME Tree0Assumption ==
    /\ Tree0 = [f \in Files \cup {StateFile} |-> Tree0[f]]
    /\ \A f \in Files : Tree0[f] \in Contents \cup {Absent}
    /\ StateWellFormed(Tree0[StateFile])

(* What somebody else writes is known by its content: a migration leaves   *)
(* it as it is.                                                            *)
ASSUME ForeignAssumption ==
    /\ Foreign \in Contents
    /\ \A r \in Releases :
         /\ \A f \in DOMAIN Manifest[r] : Manifest[r][f] # Upsert(Foreign)
         /\ \A content \in DOMAIN Migrate[r] :
              Migrate[r][content] = Foreign <=> content = Foreign
    /\ \A f \in DOMAIN Tree0[StateFile].managed : Tree0[StateFile].managed[f] # Foreign

VARIABLES tree,      \* the installed tree with its state file
          journal,   \* deployment -> status, the journal files
          backups,   \* the deployments whose checkpoint is complete
          client,    \* what each process is doing
          edited,    \* history: files that somebody else edited,
          exposed,   \* those of them that were about to be written just then
          overlap    \* history: two processes were at work together

history == <<edited, exposed, overlap>>
vars == <<tree, journal, backups, client, history>>

Idle == [pc |-> "idle"]

Statuses == {"preparing", "backed-up", "applying", "migrating", "rebuilding",
             "verifying", "completed", "rolling-back", "rolled-back", "failed"}

Transitions(status) ==
    CASE status = "preparing"    -> {"backed-up", "failed"}
      [] status = "backed-up"    -> {"applying", "rolling-back", "failed"}
      [] status = "applying"     -> {"migrating", "rebuilding", "verifying",
                                     "rolling-back", "failed"}
      [] status = "migrating"    -> {"rebuilding", "verifying", "rolling-back", "failed"}
      [] status = "rebuilding"   -> {"verifying", "rolling-back", "failed"}
      [] status = "verifying"    -> {"completed", "rolling-back", "failed"}
      [] status = "completed"    -> {"rolling-back"}
      [] status = "failed"       -> {"rolling-back"}
      [] status = "rolling-back" -> {"rolled-back", "failed"}
      [] status = "rolled-back"  -> {}

\* mutant: a rollback that failed counts as the end
FailedIsFinal(d) == journal[d] \notin {"completed", "rolled-back", "failed"}

Interrupted(d) == journal[d] \notin {"completed", "rolled-back"}

-----------------------------------------------------------------------------
(* What a deployment's plan says.                                          *)

Before(d, f) == d.tree[f]
After(d, f) == PostTree(d.release, d.tree)[f]
Touched(d) == Entries(d.release, d.tree)
Migrates(d) == PendingMigration(d.release, d.tree[StateFile])
Rebuilds(d) == HasRebuild(d.release)

(* The stages of a deployment and the status that each of them expects.    *)
StageBefore(d, stage) ==
    CASE stage = "applying" -> "backed-up"
      [] stage = "migrating" -> "applying"
      [] stage = "rebuilding" -> IF Migrates(d) THEN "migrating" ELSE "applying"
      [] stage = "verifying" -> IF Rebuilds(d) THEN "rebuilding"
                                ELSE IF Migrates(d) THEN "migrating" ELSE "applying"

Stages(d) ==
    {"applying", "verifying"} \cup (IF Migrates(d) THEN {"migrating"} ELSE {})
                              \cup (IF Rebuilds(d) THEN {"rebuilding"} ELSE {})

(* What each of apply_managed_files, apply_migrations and                  *)
(* apply_derived_actions compares and then writes.                         *)
Changed(d, files) == {f \in files : After(d, f) # Before(d, f)}

ManagedWrites(d) == Changed(d, Managed)
MigrationWrites(d) == Changed(d, Data)
DerivedWrites(d) == Changed(d, Derived)

StageWrites(d, stage) ==
    CASE stage = "applying" -> ManagedWrites(d)
      [] stage = "migrating" -> MigrationWrites(d)
      [] stage = "rebuilding" -> DerivedWrites(d)
      [] OTHER -> {}

Unchanged(d, files) == \A f \in files : tree[f] = Before(d, f)
Replaced(d, files) == \A f \in files : tree[f] = After(d, f)

-----------------------------------------------------------------------------
(* The files.                                                              *)

(* Two people at one installation: nothing in the code keeps them apart.   *)
OperatorAtWork == \E c \in Clients : client[c] # Idle /\ client[c].operator

Goto(c, pc) == client' = [client EXCEPT ![c].pc = pc]

SetStatus(d, status) ==
    journal' = [x \in {d} \cup DOMAIN journal |-> IF x = d THEN status ELSE journal[x]]

(* An atomic replacement, or an unlink that fails on a missing file.       *)
Put(f, content) ==
    /\ content = Absent => tree[f] # Absent
    /\ tree' = [tree EXCEPT ![f] = content]

-----------------------------------------------------------------------------
(* start_deployment                                                        *)

(* The update is planned and checked against the tree.                     *)
Start(c, r) ==
    LET d == [release |-> r, tree |-> tree, others |-> DOMAIN journal]
    IN /\ client[c] = Idle
       /\ Cardinality(DOMAIN journal) + Cardinality(edited) < MaxEvents
       /\ OperatorWaits => ~OperatorAtWork
       /\ \A other \in DOMAIN journal : ~Interrupted(other)
       /\ NoConflict(r, tree)
       /\ HasEffects(r, tree)
       /\ client' = [client EXCEPT ![c] =
                       [pc |-> "prepare", of |-> d, stage |-> "preparing", todo |-> {},
                        operator |-> FALSE]]
       /\ overlap' = (overlap \/ \E other \in Clients \ {c} : client[other] # Idle)
       /\ UNCHANGED <<tree, journal, backups, edited, exposed>>

(* The journal was not there when it was looked for.                       *)
WritePreparing(c) ==
    /\ client[c].pc = "prepare"
    /\ SetStatus(client[c].of, "preparing")
    /\ Goto(c, "backup")
    /\ UNCHANGED <<tree, backups, history>>

(* Contents are copied while they are still the planned ones, then the     *)
(* manifest is written.                                                    *)
BackUp(c) ==
    LET d == client[c].of
    IN /\ client[c].pc = "backup"
       /\ d \notin backups
       /\ Unchanged(d, {f \in Touched(d) : Before(d, f) # Absent})
       /\ journal[d] = "preparing"
       /\ backups' = backups \cup {d}
       /\ client' = [client EXCEPT ![c].pc = "mark", ![c].stage = "backed-up"]
       /\ UNCHANGED <<tree, journal, history>>

-----------------------------------------------------------------------------
(* The stages: each checks the journal and its targets, then enters its    *)
(* status, then writes.                                                    *)

\* mutant: the targets are not compared again
EnterStageUnchecked(c, stage) ==
    LET d == client[c].of
    IN /\ client[c].pc = "write" /\ client[c].todo = {}
       /\ stage \in Stages(d)
       /\ StageBefore(d, stage) = client[c].stage
       /\ journal[d] = StageBefore(d, stage)
       /\ client' = [client EXCEPT ![c].pc = "mark", ![c].stage = stage]
       /\ UNCHANGED <<tree, journal, backups, history>>

EnterStage(c, stage) ==
    LET d == client[c].of
    IN /\ client[c].pc = "write"
       /\ client[c].todo = {}
       /\ stage \in Stages(d)
       /\ StageBefore(d, stage) = client[c].stage
       /\ journal[d] = StageBefore(d, stage)
       /\ Unchanged(d, IF stage = "verifying" THEN {StateFile} ELSE StageWrites(d, stage))
       /\ client' = [client EXCEPT ![c].pc = "mark", ![c].stage = stage]
       /\ UNCHANGED <<tree, journal, backups, history>>

MarkStage(c) ==
    LET d == client[c].of
        stage == client[c].stage
    IN /\ client[c].pc = "mark"
       /\ SetStatus(d, stage)
       /\ client' = [client EXCEPT ![c].pc = IF stage = "verifying" THEN "verify" ELSE "write",
                                   ![c].todo = StageWrites(d, stage)]
       /\ UNCHANGED <<tree, backups, history>>

WriteFile(c, f) ==
    /\ client[c].pc = "write"
    /\ f \in client[c].todo
    /\ Put(f, After(client[c].of, f))
    /\ client' = [client EXCEPT ![c].todo = @ \ {f}]
    /\ UNCHANGED <<journal, backups, history>>

-----------------------------------------------------------------------------
(* verify_and_commit                                                       *)

(* All managed files of the desired state, what was to go, and what the    *)
(* other stages wrote.                                                     *)
VerifyTree(c) ==
    LET d == client[c].of
        desired == DesiredManaged(d.release, d.tree[StateFile])
    IN /\ client[c].pc = "verify"
       /\ d \in backups
       /\ \A f \in DOMAIN desired : tree[f] = desired[f]
       /\ Replaced(d, {f \in Managed : After(d, f) = Absent /\ Before(d, f) # Absent})
       /\ Replaced(d, StageWrites(d, "migrating") \cup StageWrites(d, "rebuilding"))
       /\ Goto(c, "commit")
       /\ UNCHANGED <<tree, journal, backups, history>>

CommitState(c) ==
    /\ client[c].pc = "commit"
    /\ Put(StateFile, After(client[c].of, StateFile))
    /\ Goto(c, "confirm")
    /\ UNCHANGED <<journal, backups, history>>

\* mutant: the files are not looked at after the state was written
ConfirmUnchecked(c) ==
    /\ client[c].pc = "confirm"
    /\ "completed" \in Transitions(journal[client[c].of])
    /\ Goto(c, "complete")
    /\ UNCHANGED <<tree, journal, backups, history>>

(* Everything that was backed up is looked at once more.                   *)
Confirm(c) ==
    LET d == client[c].of
    IN /\ client[c].pc = "confirm"
       /\ Replaced(d, Touched(d))
       /\ "completed" \in Transitions(journal[d])
       /\ Goto(c, "complete")
       /\ UNCHANGED <<tree, journal, backups, history>>

Complete(c) ==
    /\ client[c].pc = "complete"
    /\ SetStatus(client[c].of, "completed")
    /\ client' = [client EXCEPT ![c] = Idle]
    /\ UNCHANGED <<tree, backups, history>>

(* Any check or write after the backup may fail; the deployment then rolls *)
(* itself back.                                                            *)
StageFails(c) ==
    /\ client[c].pc \in {"mark", "write", "verify", "commit", "confirm", "complete"}
    /\ client[c].stage # "backed-up" \/ client[c].pc = "write"
    /\ Goto(c, "undo")
    /\ UNCHANGED <<tree, journal, backups, history>>

-----------------------------------------------------------------------------
(* Rollback, of its own deployment after a failure or of any by an         *)
(* operator.                                                               *)

(* Every file is as it was before or as it was to be.                      *)
Restorable(d) ==
    /\ "rolling-back" \in Transitions(journal[d])
    /\ d \in backups
    /\ \A f \in Touched(d) : tree[f] \in {Before(d, f), After(d, f)}

PlanRollback(c, d) ==
    /\ \/ client[c] = Idle /\ (OperatorWaits => \A other \in Clients : client[other] = Idle)
       \/ client[c].pc = "undo" /\ client[c].of = d
    /\ d \in DOMAIN journal
    /\ Restorable(d)
    /\ client' = [client EXCEPT ![c] =
                    [pc |-> "mark-undo", of |-> d, stage |-> "rolling-back",
                     todo |-> {f \in Touched(d) : tree[f] # Before(d, f)},
                     operator |-> client[c] = Idle]]
    /\ overlap' = (overlap \/ \E other \in Clients \ {c} : client[other] # Idle)
    /\ UNCHANGED <<tree, journal, backups, edited, exposed>>

MarkRollingBack(c) ==
    /\ client[c].pc = "mark-undo"
    /\ SetStatus(client[c].of, "rolling-back")
    /\ Goto(c, "restore")
    /\ UNCHANGED <<tree, backups, history>>

RestoreFile(c, f) ==
    /\ client[c].pc = "restore"
    /\ f \in client[c].todo
    /\ f = StateFile => client[c].todo = {StateFile}
    /\ Put(f, Before(client[c].of, f))
    /\ client' = [client EXCEPT ![c].todo = @ \ {f}]
    /\ UNCHANGED <<journal, backups, history>>

FinishRollback(c) ==
    LET d == client[c].of
    IN /\ client[c].pc = "restore"
       /\ client[c].todo = {}
       /\ Unchanged(d, Touched(d))
       /\ SetStatus(d, "rolled-back")
       /\ client' = [client EXCEPT ![c] = Idle]
       /\ UNCHANGED <<tree, backups, history>>

RollbackFails(c) ==
    /\ client[c].pc = "restore"
    /\ SetStatus(client[c].of, "failed")
    /\ client' = [client EXCEPT ![c] = Idle]
    /\ UNCHANGED <<tree, backups, history>>

(* A process dies, or an error leaves it: before the backup is complete    *)
(* nothing is undone, and a rollback that cannot be planned is given up.   *)
Stop(c) ==
    /\ client[c] # Idle
    /\ client' = [client EXCEPT ![c] = Idle]
    /\ UNCHANGED <<tree, journal, backups, history>>

(* Somebody else changes a file, perhaps one that a process has compared   *)
(* and not yet written.                                                    *)
AboutToWrite(c, f) ==
    \/ client[c].pc = "mark" /\ f \in StageWrites(client[c].of, client[c].stage)
    \/ client[c].pc \in {"write", "mark-undo", "restore"} /\ f \in client[c].todo

Edit(f) ==
    /\ Cardinality(edited) < MaxEdits
    /\ Cardinality(DOMAIN journal) + Cardinality(edited) < MaxEvents
    /\ tree[f] # Foreign
    /\ tree' = [tree EXCEPT ![f] = Foreign]
    /\ edited' = edited \cup {f}
    /\ exposed' = IF \E c \in Clients : AboutToWrite(c, f) THEN exposed \cup {f} ELSE exposed
    /\ UNCHANGED <<journal, backups, client, overlap>>

Init ==
    /\ tree = Tree0
    /\ journal = <<>>
    /\ backups = {}
    /\ client = [c \in Clients |-> Idle]
    /\ edited = {}
    /\ exposed = {}
    /\ overlap = FALSE

Deploys(c) ==
    \/ \E r \in Releases : Start(c, r)
    \/ WritePreparing(c) \/ BackUp(c)
    \/ \E stage \in {"applying", "migrating", "rebuilding", "verifying"} : EnterStage(c, stage)
    \/ MarkStage(c)
    \/ \E f \in Files : WriteFile(c, f)
    \/ VerifyTree(c) \/ CommitState(c) \/ Confirm(c) \/ Complete(c)
    \/ StageFails(c)

RollsBack(c) ==
    \/ \E d \in DOMAIN journal : PlanRollback(c, d)
    \/ MarkRollingBack(c)
    \/ \E f \in Files \cup {StateFile} : RestoreFile(c, f)
    \/ FinishRollback(c) \/ RollbackFails(c)

Next ==
    \/ \E c \in Clients : Deploys(c) \/ RollsBack(c) \/ Stop(c)
    \/ \E f \in Files : Edit(f)

Spec == Init /\ [][Next]_vars

-----------------------------------------------------------------------------
(* Properties.                                                             *)

(* Types, and what a process carries: its deployment has a journal as soon *)
(* as it is past writing it.                                               *)
TypeOK ==
    /\ \A f \in Files : tree[f] \in Contents \cup {Absent}
    /\ StateWellFormed(tree[StateFile])
    /\ \A d \in DOMAIN journal : journal[d] \in Statuses
    /\ backups \subseteq DOMAIN journal
    /\ exposed \subseteq edited /\ edited \subseteq Files
    /\ \A c \in Clients :
         client[c] = Idle \/ client[c].pc = "prepare" \/ client[c].of \in DOMAIN journal

(* Two deployments that were made for the same state of the installation   *)
(* and want different contents of a file that both of them write never     *)
(* both complete, whatever order their processes take their steps in: each *)
(* looks at the state after it wrote its files, and at its files after it  *)
(* wrote the state (verify_and_commit).  Only a third one for that state   *)
(* that is rolled back can make room, since it cannot tell another's files *)
(* from its own when they are equal.  When they agree on the files that    *)
(* they share, both may complete, and one state is lost.                   *)
Disagree(d, e) == \E f \in Touched(d) \cap Touched(e) \cap Files : After(d, f) # After(e, f)

OneSuccessor ==
    \A d, e \in DOMAIN journal :
      /\ journal[d] = "completed" /\ journal[e] = "completed"
      /\ d.tree[StateFile] = e.tree[StateFile]
      /\ Disagree(d, e)
      => \E x \in DOMAIN journal \ {d, e} :
           /\ x.tree[StateFile] = d.tree[StateFile]
           /\ journal[x] \in {"rolling-back", "rolled-back", "failed"}

(* What somebody else wrote into a file of the program or of the user is   *)
(* never replaced, by a deployment or by a rollback, unless the file was   *)
(* being written at that very moment (MergeApplyError and RollbackError    *)
(* on a target that changed).                                              *)
EditsSurvive ==
    \A f \in (edited \ exposed) \cap (Managed \cup Data) : tree[f] = Foreign

(* As long as no two processes were at work together, whenever no process  *)
(* is at work and no deployment is interrupted, the tree is one whole      *)
(* version, the first one or what a completed deployment planned, whatever *)
(* was left half done and rolled back on the way.                          *)
Settled ==
    /\ \A c \in Clients : client[c] = Idle
    /\ \A d \in DOMAIN journal : ~Interrupted(d)

Completed == {d \in DOMAIN journal : journal[d] = "completed"}

WholeVersions == {Tree0} \cup {PostTree(d.release, d.tree) : d \in Completed}

SettledTreeIsWhole ==
    Settled /\ ~overlap =>
      \E version \in WholeVersions :
        \A f \in (Files \cup {StateFile}) \ edited : tree[f] = version[f]

(* The promise: see AtomicRelease.  The versions are those of the          *)
(* completed deployments, by revision; the tree may be relied on while no  *)
(* deployment is interrupted.                                              *)
CompletedAt(revision) == CHOOSE d \in Completed : d.tree[StateFile].revision = revision

InstalledVersions ==
    [n \in 1..(Cardinality(Completed) + 1) |->
       IF n = 1 THEN {Tree0}
       ELSE LET d == CompletedAt(Tree0[StateFile].revision + n - 2)
            IN {PostTree(d.release, d.tree)}]

SeenTree == IF \E d \in DOMAIN journal : Interrupted(d) THEN {} ELSE {tree}

Promise == INSTANCE AtomicRelease
             WITH Initial <- {Tree0}, Changing <- {},
                  versions <- InstalledVersions, seen <- SeenTree

(* Processes one after the other, with crashes anywhere, keep the promise. *)
ImplementsAtomicRelease ==
    /\ Promise!Init
    /\ [][overlap' \/ edited' # {} \/ Promise!Next
          \/ UNCHANGED <<InstalledVersions, SeenTree>>]_vars

(* A tree that a deployment left half replaced, or a rollback half         *)
(* restored, can be rolled back when its process is gone                   *)
(* (docs/specifications/UPDATE-MERGE-CONTRACT.md:51, "Interrupted merges   *)
(* are detectable and recoverable").                                       *)
InterruptedIsRecoverable ==
    \A d \in DOMAIN journal :
      /\ Interrupted(d)
      /\ \A c \in Clients : client[c] = Idle
      /\ ~Unchanged(d, Touched(d))
      => "rolling-back" \in Transitions(journal[d])
=============================================================================
