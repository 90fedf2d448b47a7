----------------------------- MODULE ReleasePlan -----------------------------
(***************************************************************************)
(* What an update would do: the comparison of a release with an installed  *)
(* tree, and the plan made from it.  A plan is a pure function of what is  *)
(* on disk; the deployment that carries it out is module Deployment.       *)
(*                                                                         *)
(* A tree maps every file to its content or to Absent.  The installation   *)
(* state, itself a file, is the record that names the managed files and    *)
(* their contents, the migrations that were done, the release and a        *)
(* revision.  Sizes, digests and ownership of a path are part of what a    *)
(* content or a file is.                                                   *)
(***************************************************************************)
EXTENDS Naturals, FiniteSets, Functions

CONSTANTS Managed,    \* files that belong to the program
          Data,       \* files of the user that a migration may rewrite
          Derived,    \* files that are rebuilt
          StateFile,  \* the installation state
          Contents, Absent,
          Releases,
          Release0,   \* what is installed at first
          Accepts,    \* of a release: the releases it may be installed over
          Manifest,   \* of a release: managed file -> what becomes of it
          Migrate,    \* of a release with a migration: content -> content
          Rebuild     \* of a release: derived file -> content or Absent

Files == Managed \cup Data \cup Derived

Upsert(content) == [operation |-> "upsert", content |-> content]
Delete(previous) == [operation |-> "delete", previous |-> previous]

HasMigration(r) == DOMAIN Migrate[r] # {}
HasRebuild(r) == DOMAIN Rebuild[r] # {}

(* What the readers of a manifest, of a migration and of a rebuild accept: *)
(* a path once, in the program's files, with one of two operations;        *)
(* handlers whose repetition changes nothing.                              *)
ManifestAssumption ==
    \A r \in Releases :
      /\ Accepts[r] \subseteq Releases \cup {Release0}
      /\ DOMAIN Manifest[r] \subseteq Managed
      /\ \A f \in DOMAIN Manifest[r] :
           Manifest[r][f] \in {Upsert(content) : content \in Contents}
                                \cup {Delete(content) : content \in Contents}

HandlerAssumption ==
    \A r \in Releases :
      /\ DOMAIN Migrate[r] \in {{}, Contents}
      /\ \A content \in DOMAIN Migrate[r] :
           /\ Migrate[r][content] \in Contents
           /\ Migrate[r][Migrate[r][content]] = Migrate[r][content]
      /\ DOMAIN Rebuild[r] \subseteq Derived
      /\ \A f \in DOMAIN Rebuild[r] : Rebuild[r][f] \in Contents \cup {Absent}

ASSUME FilesAssumption ==
    /\ Managed \cap Data = {} /\ (Managed \cup Data) \cap Derived = {}
    /\ StateFile \notin Files /\ Absent \notin Contents
ASSUME ReleaseAssumption == ManifestAssumption /\ HandlerAssumption

(* What the reader of an installation state accepts.                       *)
StateWellFormed(state) ==
    /\ state.revision \in Nat \ {0}
    /\ DOMAIN state.managed \subseteq Managed
    /\ \A f \in DOMAIN state.managed : state.managed[f] \in Contents
    /\ state.migrated \subseteq Releases

(* The release is for what is installed, and not older.                    *)
Compatible(r, state) == state.release \in Accepts[r]

(* A migration that this installation has not done yet.                    *)
PendingMigration(r, state) == HasMigration(r) /\ r \notin state.migrated

-----------------------------------------------------------------------------
(* The inspection and the diff.                                            *)

(* Every managed file is there as the state says.                          *)
ManagedClean(tree) ==
    LET managed == tree[StateFile].managed
    IN \A f \in DOMAIN managed : tree[f] = managed[f]

(* An upsert replaces what the state names, or creates; a delete removes   *)
(* exactly the content that the release was made against.                  *)
UpsertAllowed(f, tree) == f \in DOMAIN tree[StateFile].managed \/ tree[f] = Absent

DeleteAllowed(f, previous, tree) ==
    /\ f \in DOMAIN tree[StateFile].managed
    /\ tree[StateFile].managed[f] = previous

NoConflict(r, tree) ==
    /\ Compatible(r, tree[StateFile])
    /\ ManagedClean(tree)
    /\ \A f \in DOMAIN Manifest[r] :
         LET change == Manifest[r][f]
         IN IF change.operation = "upsert" THEN UpsertAllowed(f, tree)
            ELSE DeleteAllowed(f, change.previous, tree)

-----------------------------------------------------------------------------
(* The tree that the update is to leave behind.                            *)

DesiredContent(r, f) ==
    LET change == Manifest[r][f]
    IN IF change.operation = "upsert" THEN change.content ELSE Absent

MigratedContent(r, f, tree) ==
    IF tree[f] = Absent THEN Absent ELSE Migrate[r][tree[f]]

(* A file that is listed for deletion leaves the managed files.            *)
DesiredManaged(r, state) ==
    LET upserts == {f \in DOMAIN Manifest[r] : Manifest[r][f].operation = "upsert"}
        kept == DOMAIN state.managed \ DOMAIN Manifest[r]
    IN [f \in upserts \cup kept |->
          IF f \in upserts THEN Manifest[r][f].content ELSE state.managed[f]]

DesiredState(r, state) ==
    [revision |-> state.revision + 1,
     release  |-> r,
     managed  |-> DesiredManaged(r, state),
     migrated |-> IF HasMigration(r) THEN state.migrated \cup {r} ELSE state.migrated]

PostTree(r, tree) ==
    [f \in Files \cup {StateFile} |->
       CASE f = StateFile -> DesiredState(r, tree[StateFile])
         [] f \in Managed /\ f \in DOMAIN Manifest[r] -> DesiredContent(r, f)
         [] f \in Data /\ PendingMigration(r, tree[StateFile]) ->
              MigratedContent(r, f, tree)
         [] f \in Derived /\ f \in DOMAIN Rebuild[r] -> Rebuild[r][f]
         [] OTHER -> tree[f]]

HasEffects(r, tree) ==
    \/ tree[StateFile].release # r
    \/ PendingMigration(r, tree[StateFile])
    \/ HasRebuild(r)
    \/ \E f \in Files : PostTree(r, tree)[f] # tree[f]

\* mutant: a derived file that is created is not in the manifest
EntriesWithoutCreated(r, tree) ==
    {StateFile}
      \cup {f \in Managed : PostTree(r, tree)[f] # tree[f]}
      \cup {f \in Data : PendingMigration(r, tree[StateFile]) /\ tree[f] # Absent}
      \cup {f \in Derived : HasRebuild(r) /\ tree[f] # Absent}

(* What is backed up: the state, the managed files that change, and the    *)
(* whole scope of a migration or a rebuild.                                *)
Entries(r, tree) ==
    LET post == PostTree(r, tree)
    IN {StateFile}
         \cup {f \in Managed : post[f] # tree[f]}
         \cup {f \in Data : PendingMigration(r, tree[StateFile]) /\ tree[f] # Absent}
         \cup {f \in Derived : HasRebuild(r) /\ (tree[f] # Absent \/ post[f] # Absent)}
=============================================================================
