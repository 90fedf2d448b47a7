--------------------------- MODULE HomeMigration ---------------------------
(***************************************************************************)
(* The migration of a KRCN home from flat collections to project capsules  *)
(* (project_capsule_migration.py) while clients of the same home read and  *)
(* put records (LocalWorkspaceStore): back up, write the capsule files,    *)
(* verify, remove the flat files, publish the layout marker, verify again; *)
(* roll back when a step fails.  The migration takes no record locks.      *)
(*                                                                         *)
(* A file is the revision in it, 0 when there is none.  A record is moved  *)
(* from its flat to its capsule place; generated manifests, indexes and    *)
(* the choice of the project are left out.                                 *)
(***************************************************************************)
EXTENDS Integers, FiniteSets

CONSTANTS Records,         \* the records there are when the migration is planned
          Putters,         \* clients that put records
          MaxFileRevision \* bound: revisions of a record

ASSUME MigrationAssumption == MaxFileRevision \in Nat

VARIABLES
    flat, capsule,  \* the files in both layouts
    marker,         \* layout.json is there: layout version 2
    backup,         \* what the archive holds of each record
    migrator,       \* the migrating process: place, plan, files still to do
    putter          \* what each client is about to put

migrationVars == <<flat, capsule, marker, backup, migrator, putter>>

NoFiles == [r \in Records |-> 0]

NoPut == [record |-> "none"]

MigrationInit ==
    /\ flat = [r \in Records |-> 1]
    /\ capsule = NoFiles
    /\ marker = FALSE
    /\ backup = NoFiles
    /\ migrator = [at |-> "idle", plan |-> NoFiles, todo |-> {}]
    /\ putter = [c \in Putters |-> NoPut]

-----------------------------------------------------------------------------
(* The store: layout_version, _existing_targets, _target.                  *)
Versions(r) == {flat[r]} \cup (IF marker THEN {capsule[r]} ELSE {})

Places(r) == (IF flat[r] > 0 THEN {"flat"} ELSE {})
               \cup (IF marker /\ capsule[r] > 0 THEN {"capsule"} ELSE {})

(* A record in both places cannot be read.                                 *)
Readable(r) == Cardinality(Places(r)) <= 1

Stored(r) == IF "flat" \in Places(r) THEN flat[r]
             ELSE IF "capsule" \in Places(r) THEN capsule[r] ELSE 0

(* prepare_put: where the record is, or where a new one goes               *)
PreparePut(c, r) ==
    /\ putter[c] = NoPut
    /\ Readable(r)
    /\ Stored(r) < MaxFileRevision
    /\ \E place \in {"flat", "capsule"} :
         /\ IF Places(r) # {} THEN place \in Places(r)
            ELSE place = IF marker THEN "capsule" ELSE "flat"
         /\ putter' = [putter EXCEPT ![c] =
                         [record |-> r, next |-> Stored(r) + 1, place |-> place,
                          layout |-> marker, checked |-> FALSE]]
    /\ UNCHANGED <<flat, capsule, marker, backup, migrator>>

(* assert_plan_current, with the record locked against other clients       *)
CheckPut(c) ==
    LET put == putter[c]
    IN /\ put # NoPut
       /\ ~put.checked
       /\ \A d \in Putters \ {c} : putter[d] # NoPut =>
            ~(putter[d].record = put.record /\ putter[d].checked)
       /\ put.layout = marker
       /\ Readable(put.record)
       /\ Stored(put.record) = put.next - 1
       /\ Places(put.record) \subseteq {put.place}
       /\ putter' = [putter EXCEPT ![c].checked = TRUE]
       /\ UNCHANGED <<flat, capsule, marker, backup, migrator>>

(* os.replace                                                              *)
ReplaceRecord(c) ==
    LET put == putter[c]
    IN /\ put # NoPut
       /\ put.checked
       /\ IF put.place = "flat"
          THEN flat' = [flat EXCEPT ![put.record] = put.next] /\ UNCHANGED capsule
          ELSE capsule' = [capsule EXCEPT ![put.record] = put.next] /\ UNCHANGED flat
       /\ putter' = [putter EXCEPT ![c] = NoPut]
       /\ UNCHANGED <<marker, backup, migrator>>

GiveUpPut(c) ==
    /\ putter[c] # NoPut
    /\ putter' = [putter EXCEPT ![c] = NoPut]
    /\ UNCHANGED <<flat, capsule, marker, backup, migrator>>

-----------------------------------------------------------------------------
Step(from, to) == /\ migrator.at = from
                  /\ migrator.todo = {}
                  /\ migrator' = [migrator EXCEPT !.at = to, !.todo = Records]

OneOf(r, place) == /\ migrator.at = place
                   /\ r \in migrator.todo
                   /\ migrator' = [migrator EXCEPT !.todo = @ \ {r}]

(* prepare_project_capsule_migration: layout 1, no archive and no capsule  *)
(* file yet; again when the migration is applied.                          *)
PlanMigration ==
    /\ migrator.at = "idle"
    /\ ~marker
    /\ backup = NoFiles
    /\ capsule = NoFiles
    /\ migrator' = [at |-> "planned", plan |-> flat, todo |-> {}]
    /\ UNCHANGED <<flat, capsule, marker, backup, putter>>

StartMigration ==
    /\ Step("planned", "backup")
    /\ ~marker /\ backup = NoFiles /\ capsule = NoFiles
    /\ flat = migrator.plan
    /\ UNCHANGED <<flat, capsule, marker, backup, putter>>

\* mutant: the flat files go before there is an archive
NoBackup ==
    /\ migrator.at = "backup"
    /\ migrator' = [migrator EXCEPT !.at = "write", !.todo = Records]
    /\ UNCHANGED <<flat, capsule, marker, backup, putter>>

(* The archive is written from the plan and read back.                     *)
WriteArchive ==
    /\ migrator.at = "backup"
    /\ backup' = migrator.plan
    /\ migrator' = [migrator EXCEPT !.at = "write", !.todo = Records]
    /\ UNCHANGED <<flat, capsule, marker, putter>>

WriteCapsule(r) ==
    /\ OneOf(r, "write")
    /\ capsule' = [capsule EXCEPT ![r] = migrator.plan[r]]
    /\ UNCHANGED <<flat, marker, backup, putter>>

VerifyCapsules ==
    /\ Step("write", "compare")
    /\ \A r \in Records : capsule[r] = migrator.plan[r]
    /\ UNCHANGED <<flat, capsule, marker, backup, putter>>

(* A flat file is compared with the plan and removed: two steps, taken one *)
(* record after the other.                                                 *)
CompareFlat(r) ==
    /\ migrator.at = "compare"
    /\ r \in migrator.todo
    /\ flat[r] = migrator.plan[r]
    /\ migrator' = [migrator EXCEPT !.at = "remove", !.todo = @ \ {r}]
    /\ UNCHANGED <<flat, capsule, marker, backup, putter>>

RemoveFlat(r) ==
    /\ migrator.at = "remove"
    /\ r \notin migrator.todo
    /\ flat[r] > 0
    /\ flat' = [flat EXCEPT ![r] = 0]
    /\ migrator' = [migrator EXCEPT !.at = "compare"]
    /\ UNCHANGED <<capsule, marker, backup, putter>>

PublishLayout ==
    /\ Step("compare", "final")
    /\ marker' = TRUE
    /\ UNCHANGED <<flat, capsule, backup, putter>>

VerifyMove(r) ==
    /\ OneOf(r, "final")
    /\ flat[r] = 0
    /\ capsule[r] = migrator.plan[r]
    /\ UNCHANGED <<flat, capsule, marker, backup, putter>>

Migrated ==
    /\ Step("final", "applied")
    /\ UNCHANGED <<flat, capsule, marker, backup, putter>>

(* A step fails: _rollback_partial removes the marker first ...            *)
FailMigration ==
    /\ migrator.at \in {"write", "compare", "remove", "final"}
    /\ marker' = FALSE
    /\ migrator' = [migrator EXCEPT !.at = "rollback", !.todo = Records]
    /\ UNCHANGED <<flat, capsule, backup, putter>>

(* ... and then goes from record to record: a flat file that is missing    *)
(* comes back, one that is there stays, the capsule file goes.             *)
RestoreFlat(r) ==
    /\ OneOf(r, "rollback")
    /\ flat' = [flat EXCEPT ![r] = IF @ = 0 THEN migrator.plan[r] ELSE @]
    /\ capsule' = [capsule EXCEPT ![r] = 0]
    /\ UNCHANGED <<marker, backup, putter>>

RolledBack ==
    /\ Step("rollback", "rolled-back")
    /\ UNCHANGED <<flat, capsule, marker, backup, putter>>

(* Refused before it began, or dead in the middle: nobody takes it up.     *)
Leave ==
    /\ migrator.at \notin {"idle", "applied", "rolled-back", "left"}
    /\ migrator' = [migrator EXCEPT !.at = "left", !.todo = {}]
    /\ UNCHANGED <<flat, capsule, marker, backup, putter>>

MigrationNext ==
    \/ \E c \in Putters : \/ \E r \in Records : PreparePut(c, r)
                          \/ CheckPut(c) \/ ReplaceRecord(c) \/ GiveUpPut(c)
    \/ PlanMigration \/ StartMigration \/ WriteArchive \/ VerifyCapsules \/ PublishLayout
    \/ Migrated \/ FailMigration \/ RolledBack \/ Leave
    \/ \E r \in Records : \/ WriteCapsule(r) \/ CompareFlat(r) \/ RemoveFlat(r)
                          \/ VerifyMove(r) \/ RestoreFlat(r)

MigrationSpec == MigrationInit /\ [][MigrationNext]_migrationVars

-----------------------------------------------------------------------------
(* Properties.                                                             *)

(* The type invariant.                                                     *)
MigrationTypeOK ==
    /\ flat \in [Records -> Nat]
    /\ capsule \in [Records -> Nat]
    /\ marker \in BOOLEAN
    /\ backup \in [Records -> Nat]
    /\ migrator \in
         [at: {"idle", "planned", "backup", "write", "compare", "remove", "final", "applied",
               "rollback", "rolled-back", "left"},
          plan: [Records -> Nat], todo: SUBSET Records]
    /\ putter \in
         [Putters -> {NoPut} \cup
            [record: Records, next: Nat, place: {"flat", "capsule"}, layout: BOOLEAN,
             checked: BOOLEAN]]

(* What the migration planned to move is never gone: wherever it stops,    *)
(* each record is still in a flat file, in its capsule or in the archive,  *)
(* not older than planned.  One that succeeded leaves every record where   *)
(* layout 2 looks, one that was rolled back where layout 1 does.           *)
MigrationKeepsRecords ==
    \A r \in Records :
      /\ \/ flat[r] >= migrator.plan[r]
         \/ capsule[r] >= migrator.plan[r]
         \/ backup[r] = migrator.plan[r]
      /\ migrator.at = "applied" => marker /\ capsule[r] >= migrator.plan[r]
      /\ migrator.at = "rolled-back" => ~marker /\ flat[r] > 0
=============================================================================
