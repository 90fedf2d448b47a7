------------------------------ MODULE MCTrees ------------------------------
(***************************************************************************)
(* What becomes of whole trees of files: an installation is updated and    *)
(* rolled back, a home is moved from the flat layout to capsules, or       *)
(* transferred to another place, and the work documents of a project are   *)
(* copied, moved and listed.  "subject" says which of them a behaviour is  *)
(* about.  Each has variables of its own.                                  *)
(***************************************************************************)
EXTENDS Deployment, HomeMigration, HomeTransfer, WorkDocuments, TLC

(* Two releases of a program of one file, with one record of the user and  *)
(* one derived file.  The first release changes the program file and       *)
(* rebuilds; the second removes it and migrates the user's record, and can *)
(* be followed by the first.                                               *)
MCTree0 ==
    [f \in Files \cup {StateFile} |->
       CASE f = "core" -> "core 0"
         [] f = "notes" -> "notes 0"
         [] f = "index" -> Absent
         [] f = StateFile ->
              [revision |-> 1, release |-> Release0, managed |-> [g \in {"core"} |-> "core 0"],
               migrated |-> {}]]

MCAccepts == [r \in Releases |-> IF r = "r1" THEN {"r0", "r1", "r2"} ELSE {"r0", "r2"}]

MCManifest ==
    [r \in Releases |->
       [f \in {"core"} |-> IF r = "r1" THEN Upsert("core 1") ELSE Delete("core 0")]]

MCMigrate ==
    [r \in Releases |->
       IF r = "r1" THEN <<>>
       ELSE [old \in Contents |-> IF old = "notes 0" THEN "notes 2" ELSE old]]

MCRebuild ==
    [r \in Releases |-> IF r = "r1" THEN [f \in {"index"} |-> "index 1"] ELSE <<>>]

Symmetry == Permutations(Clients)

VARIABLE subject

(* A document outside and two of the old layout, one of them excluded, all *)
(* with one name and item                                                  *)
MCPlaceOf == [d \in Sources \cup Olds |-> "a"]

(* Two transfers between homes of two files, whose clients put twice       *)
MCGiven == <<1, 1>>

(* The beginnings for transfers: one source only where a home is in use    *)
Transferred == TransferInit /\ (target.marker => source = MCGiven)

(* One of the beginnings, for the behaviours that are about others         *)
HomesAtRest ==
    TransferInit /\ source = MCGiven /\ target.marker /\ target.files = None /\ excluded

NoDocuments ==
    DocsInit /\ outside = [s \in Sources |-> 1] /\ manifest = NoManifest

MCInit ==
    /\ subject \in {"deployment", "migration", "transfer", "documents"}
    /\ Init
    /\ MigrationInit
    /\ IF subject = "transfer" THEN Transferred ELSE HomesAtRest
    /\ IF subject = "documents" THEN DocsInit ELSE NoDocuments

MCNext ==
    /\ UNCHANGED subject
    /\ \/ subject = "deployment" /\ Next /\ UNCHANGED <<migrationVars, transferVars, docsVars>>
       \/ subject = "migration" /\ MigrationNext /\ UNCHANGED <<vars, transferVars, docsVars>>
       \/ subject = "transfer" /\ TransferNext /\ UNCHANGED <<vars, migrationVars, docsVars>>
       \/ subject = "documents" /\ DocsNext /\ UNCHANGED <<vars, migrationVars, transferVars>>

MCSpec == MCInit /\ [][MCNext]_<<subject, vars, migrationVars, transferVars, docsVars>>

(* The installation by itself                                              *)
DeploymentSpec == subject = "deployment" /\ MCSpec
=============================================================================
