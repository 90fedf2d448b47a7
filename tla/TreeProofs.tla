----------------------------- MODULE TreeProofs -----------------------------
(***************************************************************************)
(* Proofs about what becomes of trees of files.                            *)
(*                                                                         *)
(* Deployment, for any releases, files, number of processes and bounds:    *)
(* what a process carries is the plan of a deployment that was found to be *)
(* without conflict, and so nothing that somebody else wrote is replaced   *)
(* unless it was being written at that moment.  As long as processes come  *)
(* one after the other, wherever they die, the tree is explained by what   *)
(* the deployments planned, and the promise of AtomicRelease is kept.      *)
(*                                                                         *)
(* HomeMigration, for any records and clients: wherever a migration stops, *)
(* each record is where a layout looks or in the archive.                  *)
(***************************************************************************)
EXTENDS Deployment, HomeMigration, FiniteSetTheorems, SequenceTheorems, TLAPS

TreeFiles == Files \cup {StateFile}

(* A tree that an update may be planned for: every file has a content or   *)
(* is absent, and the state is well-formed and names nothing foreign.      *)
GoodTree(t) ==
    /\ t = [f \in TreeFiles |-> t[f]]
    /\ \A f \in Files : t[f] \in Contents \cup {Absent}
    /\ StateWellFormed(t[StateFile])
    /\ \A f \in DOMAIN t[StateFile].managed : t[StateFile].managed[f] # Foreign

(* A deployment as start_deployment makes it.                              *)
Planned(d) ==
    /\ d.release \in Releases
    /\ GoodTree(d.tree)
    /\ NoConflict(d.release, d.tree)

(* A process that is at work carries a planned deployment.                 *)
ClientWellFormed(c) ==
    \/ client[c] = Idle
    \/ /\ client[c] = [pc |-> client[c].pc, of |-> client[c].of, stage |-> client[c].stage,
                       todo |-> client[c].todo, operator |-> client[c].operator]
       /\ client[c].pc # "idle"
       /\ client[c].stage \in Statuses
       /\ client[c].todo \subseteq TreeFiles
       /\ Planned(client[c].of)
       /\ client[c].pc = "prepare" \/ client[c].of \in DOMAIN journal

(* What a process is about to write was not edited since it compared it.   *)
ComparedIsUnedited(c) ==
    \A f \in Managed \cup Data : AboutToWrite(c, f) => f \notin edited \ exposed

IInv ==
    /\ GoodTree(tree)
    /\ \A d \in DOMAIN journal : Planned(d) /\ journal[d] \in Statuses
    /\ backups \subseteq DOMAIN journal
    /\ client = [c \in Clients |-> client[c]]
    /\ \A c \in Clients : ClientWellFormed(c) /\ ComparedIsUnedited(c)
    /\ exposed \subseteq edited /\ edited \subseteq Files
    /\ EditsSurvive

-----------------------------------------------------------------------------
(* Plans.                                                                  *)

LEMMA FilesApart == /\ StateFile \notin Files
                    /\ Managed \subseteq Files /\ Data \subseteq Files /\ Derived \subseteq Files
                    /\ Managed \cap Data = {} /\ Managed \cap Derived = {} /\ Data \cap Derived = {}
                    /\ Foreign # Absent
  BY FilesAssumption, ForeignAssumption DEF Files

(* What becomes of each kind of file.                                      *)
LEMMA PostTreeOf ==
    ASSUME NEW r, NEW t
    PROVE  /\ PostTree(r, t)[StateFile] = DesiredState(r, t[StateFile])
           /\ \A f \in Managed : PostTree(r, t)[f] = IF f \in DOMAIN Manifest[r]
                                                     THEN DesiredContent(r, f) ELSE t[f]
           /\ \A f \in Data : PostTree(r, t)[f] = IF PendingMigration(r, t[StateFile])
                                                  THEN MigratedContent(r, f, t) ELSE t[f]
           /\ \A f \in Derived : PostTree(r, t)[f] = IF f \in DOMAIN Rebuild[r]
                                                     THEN Rebuild[r][f] ELSE t[f]
           /\ PostTree(r, t) = [f \in TreeFiles |-> PostTree(r, t)[f]]
  BY FilesApart DEF PostTree, TreeFiles

(* A release says upsert or delete, and nothing foreign.                   *)
LEMMA ManifestSays ==
    ASSUME NEW r \in Releases, NEW f \in DOMAIN Manifest[r]
    PROVE  /\ f \in Managed
           /\ \/ /\ Manifest[r][f].operation = "upsert"
                 /\ Manifest[r][f].content \in Contents
                 /\ Manifest[r][f].content # Foreign
                 /\ DesiredContent(r, f) = Manifest[r][f].content
              \/ /\ Manifest[r][f].operation = "delete"
                 /\ Manifest[r][f].previous \in Contents
                 /\ DesiredContent(r, f) = Absent
<1>1. /\ f \in Managed
      /\ \/ \E x \in Contents : Manifest[r][f] = Upsert(x)
         \/ \E x \in Contents : Manifest[r][f] = Delete(x)
  BY ReleaseAssumption DEF ManifestAssumption
<1>2. Manifest[r][f] # Upsert(Foreign)
  BY ForeignAssumption
<1>3. CASE \E x \in Contents : Manifest[r][f] = Upsert(x)
  <2>1. PICK x \in Contents : Manifest[r][f] = Upsert(x)
    BY <1>3
  <2>2. x # Foreign
    BY <2>1, <1>2
  <2>3. Manifest[r][f].operation = "upsert" /\ Manifest[r][f].content = x
    BY <2>1 DEF Upsert
  <2> QED BY <1>1, <2>2, <2>3 DEF DesiredContent
<1>4. CASE \E x \in Contents : Manifest[r][f] = Delete(x)
  <2>1. PICK x \in Contents : Manifest[r][f] = Delete(x)
    BY <1>4
  <2>2. Manifest[r][f].operation = "delete" /\ Manifest[r][f].previous = x
    BY <2>1 DEF Delete
  <2> QED BY <1>1, <2>2 DEF DesiredContent
<1> QED BY <1>1, <1>3, <1>4

LEMMA MigrationSays ==
    ASSUME NEW d, Planned(d), NEW f \in Data, Migrates(d)
    PROVE  /\ After(d, f) \in Contents \cup {Absent}
           /\ After(d, f) = Foreign <=> Before(d, f) = Foreign
           /\ Before(d, f) = Absent <=> After(d, f) = Absent
<1>1. DOMAIN Migrate[d.release] = Contents
  BY ReleaseAssumption DEF Planned, HandlerAssumption, Migrates, PendingMigration, HasMigration
<1>2. After(d, f) = MigratedContent(d.release, f, d.tree)
  BY PostTreeOf DEF After, Migrates
<1>3. d.tree[f] \in Contents \cup {Absent}
  BY FilesApart DEF Planned, GoodTree
<1>4. \A x \in Contents : /\ Migrate[d.release][x] \in Contents
                          /\ Migrate[d.release][x] = Foreign <=> x = Foreign
  BY <1>1, ReleaseAssumption, ForeignAssumption DEF Planned, HandlerAssumption
<1> QED BY <1>2, <1>3, <1>4, FilesApart, FilesAssumption DEF MigratedContent, Before

(* A file of the program or of the user that is to change was not foreign  *)
(* when the deployment was planned, and will not be.                       *)
LEMMA ChangeIsNotForeign ==
    ASSUME NEW d, Planned(d), NEW f \in Managed \cup Data, After(d, f) # Before(d, f)
    PROVE  Before(d, f) # Foreign /\ After(d, f) # Foreign
<1>1. CASE f \in Managed
  <2>1. f \in DOMAIN Manifest[d.release] /\ After(d, f) = DesiredContent(d.release, f)
    BY <1>1, PostTreeOf DEF After, Before
  <2>2. \/ f \in DOMAIN d.tree[StateFile].managed
        \/ d.tree[f] = Absent
    BY <2>1, ManifestSays DEF Planned, NoConflict, UpsertAllowed, DeleteAllowed
  <2>3. Before(d, f) # Foreign
    BY <2>2, FilesApart DEF Planned, NoConflict, ManagedClean, GoodTree, Before
  <2>4. After(d, f) # Foreign
    BY <2>1, ManifestSays, FilesApart DEF Planned
  <2> QED BY <2>3, <2>4
<1>2. CASE f \in Data
  <2>1. Migrates(d)
    BY <1>2, PostTreeOf DEF After, Before, Migrates
  <2>2. CASE Before(d, f) = Foreign
    <3>1. d.tree[f] = Foreign /\ Foreign \in DOMAIN Migrate[d.release]
      BY <2>1, <2>2, ReleaseAssumption, ForeignAssumption
      DEF Planned, HandlerAssumption, Migrates, PendingMigration, HasMigration, Before
    <3>2. Migrate[d.release][Foreign] = Foreign
      BY <3>1, ForeignAssumption DEF Planned
    <3>3. After(d, f) = MigratedContent(d.release, f, d.tree)
      BY <1>2, <2>1, PostTreeOf DEF After, Migrates
    <3> QED BY <3>1, <3>2, <3>3, <2>2, FilesApart DEF MigratedContent
  <2> QED BY <1>2, <2>1, <2>2, MigrationSays
<1> QED BY <1>1, <1>2

(* The tree that a deployment is to leave behind is one that the next may  *)
(* be planned for.                                                         *)
LEMMA PostTreeIsGood ==
    ASSUME NEW d, Planned(d)
    PROVE  GoodTree(PostTree(d.release, d.tree))
<1> DEFINE r == d.release
           state == d.tree[StateFile]
           upserts == {f \in DOMAIN Manifest[r] : Manifest[r][f].operation = "upsert"}
           kept == DOMAIN state.managed \ DOMAIN Manifest[r]
<1>0. /\ r \in Releases
      /\ StateWellFormed(state)
      /\ \A f \in DOMAIN state.managed : state.managed[f] # Foreign
      /\ \A f \in Files : d.tree[f] \in Contents \cup {Absent}
  BY DEF Planned, GoodTree
<1>1. ASSUME NEW f \in Files
      PROVE  PostTree(r, d.tree)[f] \in Contents \cup {Absent}
  <2>1. CASE f \in Managed
    BY <2>1, <1>0, PostTreeOf, ManifestSays
  <2>2. CASE f \in Data
    BY <2>2, <1>0, PostTreeOf, MigrationSays DEF After, Migrates
  <2>3. CASE f \in Derived
    BY <2>3, <1>0, PostTreeOf, ReleaseAssumption DEF HandlerAssumption
  <2> QED BY <2>1, <2>2, <2>3 DEF Files
<1>2. /\ DOMAIN DesiredManaged(r, state) = upserts \cup kept
      /\ \A f \in upserts \cup kept :
           DesiredManaged(r, state)[f] = IF f \in upserts THEN Manifest[r][f].content
                                         ELSE state.managed[f]
  BY DEF DesiredManaged
<1>3. /\ DOMAIN DesiredManaged(r, state) \subseteq Managed
      /\ \A f \in DOMAIN DesiredManaged(r, state) :
           /\ DesiredManaged(r, state)[f] \in Contents
           /\ DesiredManaged(r, state)[f] # Foreign
  BY <1>0, <1>2, ManifestSays DEF StateWellFormed
<1>4. /\ DesiredState(r, state).revision = state.revision + 1
      /\ DesiredState(r, state).managed = DesiredManaged(r, state)
      /\ DesiredState(r, state).migrated \subseteq Releases
  BY <1>0 DEF DesiredState, StateWellFormed
<1>5. StateWellFormed(DesiredState(r, state))
  BY <1>0, <1>3, <1>4 DEF StateWellFormed
<1>6. PostTree(r, d.tree)[StateFile] = DesiredState(r, state)
  BY PostTreeOf
<1> HIDE DEF r, state
<1> QED BY <1>1, <1>3, <1>4, <1>5, <1>6, PostTreeOf DEF GoodTree, r, state

LEMMA PlansChangeGoodTrees ==
    ASSUME NEW d, Planned(d), NEW f \in TreeFiles
    PROVE  /\ f \in Files => /\ Before(d, f) \in Contents \cup {Absent}
                             /\ After(d, f) \in Contents \cup {Absent}
           /\ f = StateFile => GoodTree(d.tree) /\ GoodTree(PostTree(d.release, d.tree))
  BY PostTreeIsGood DEF Planned, GoodTree, Before, After

(* A file replaced by its content of a plan, before or after, leaves a     *)
(* good tree.                                                              *)
LEMMA PutKeepsGood ==
    ASSUME NEW d, Planned(d), NEW f \in TreeFiles, GoodTree(tree),
           NEW content \in {Before(d, f), After(d, f)}, Put(f, content)
    PROVE  GoodTree(tree') /\ \A g \in TreeFiles \ {f} : tree'[g] = tree[g]
<1>1. /\ tree' = [g \in TreeFiles |-> tree'[g]]
      /\ \A g \in TreeFiles : tree'[g] = IF g = f THEN content ELSE tree[g]
  BY DEF Put, GoodTree
<1>2. CASE f = StateFile
  <2>1. content \in {d.tree[StateFile], PostTree(d.release, d.tree)[StateFile]}
    BY <1>2 DEF Before, After
  <2>2. GoodTree(d.tree) /\ GoodTree(PostTree(d.release, d.tree))
    BY <1>2, PlansChangeGoodTrees
  <2>4. /\ StateWellFormed(content)
        /\ \A g \in DOMAIN content.managed : content.managed[g] # Foreign
    <3>1. CASE content = d.tree[StateFile]
      BY ONLY <3>1, <2>2 DEF GoodTree
    <3>2. CASE content = PostTree(d.release, d.tree)[StateFile]
      BY ONLY <3>2, <2>2 DEF GoodTree
    <3> QED BY <2>1, <3>1, <3>2
  <2>3. tree'[StateFile] = content /\ \A g \in Files : tree'[g] = tree[g]
    BY <1>1, <1>2, FilesApart DEF TreeFiles
  <2>5. \A g \in Files : tree'[g] \in Contents \cup {Absent}
    BY <2>3 DEF GoodTree
  <2> QED BY ONLY <1>1, <2>3, <2>4, <2>5, <1>2 DEF GoodTree
<1>3. CASE f \in Files
  <2>1. tree'[StateFile] = tree[StateFile]
    BY <1>1, <1>3, FilesApart DEF TreeFiles
  <2>2. content \in Contents \cup {Absent}
    BY <1>3, PlansChangeGoodTrees
  <2>3. \A g \in Files : tree'[g] \in Contents \cup {Absent}
    BY <1>1, <2>2 DEF GoodTree, TreeFiles
  <2> QED BY <1>1, <2>1, <2>3 DEF GoodTree
<1> QED BY <1>2, <1>3 DEF TreeFiles

(* What a stage writes are files that change, never the state.             *)
LEMMA StagesWriteChanges ==
    ASSUME NEW d, NEW stage
    PROVE  /\ StageWrites(d, stage) \subseteq Files
           /\ \A f \in StageWrites(d, stage) : After(d, f) # Before(d, f)
  BY FilesApart DEF StageWrites, ManagedWrites, MigrationWrites, DerivedWrites, Changed

LEMMA TouchedAreFiles ==
    ASSUME NEW d PROVE Touched(d) \subseteq TreeFiles
  BY FilesApart DEF Touched, Entries, TreeFiles

(* A file that is not touched stays as it is planned to stay.              *)
LEMMA UntouchedStays ==
    ASSUME NEW d, Planned(d), NEW f \in TreeFiles \ Touched(d)
    PROVE  After(d, f) = Before(d, f)
<1>1. f # StateFile /\ f \in Files
  BY DEF Touched, Entries, TreeFiles
<1>2. CASE f \in Managed
  BY <1>2 DEF Touched, Entries, After, Before
<1>3. CASE f \in Data
  <2>1. ~Migrates(d) \/ Before(d, f) = Absent
    BY <1>3 DEF Touched, Entries, Migrates, Before
  <2>2. CASE ~Migrates(d)
    BY <2>2, <1>3, PostTreeOf DEF Migrates, After, Before
  <2>3. CASE Migrates(d) /\ Before(d, f) = Absent
    BY <2>3, <1>3, MigrationSays
  <2> QED BY <2>1, <2>2, <2>3
<1>4. CASE f \in Derived
  <2>1. \/ ~HasRebuild(d.release)
        \/ Before(d, f) = Absent /\ After(d, f) = Absent
    BY <1>4 DEF Touched, Entries, Before, After
  <2>2. CASE ~HasRebuild(d.release)
    BY <2>2, <1>4, PostTreeOf DEF HasRebuild, After, Before
  <2> QED BY <2>1, <2>2
<1> QED BY <1>1, <1>2, <1>3, <1>4 DEF Files

-----------------------------------------------------------------------------
(* The invariant.                                                          *)

LEMMA InitInvariant == Init => IInv
<1> SUFFICES ASSUME Init PROVE IInv
  OBVIOUS
<1>1. GoodTree(tree)
  BY Tree0Assumption, ForeignAssumption DEF Init, GoodTree, TreeFiles
<1>2. DOMAIN journal = {}
  BY DEF Init
<1>3. \A c \in Clients : ClientWellFormed(c)
  BY DEF Init, ClientWellFormed
<1> QED BY <1>1, <1>2, <1>3 DEF Init, IInv, ComparedIsUnedited, EditsSurvive

(* A step of one process keeps the invariant when it keeps it for the      *)
(* process, the tree and the journal and replaces nothing that was edited. *)
LEMMA StepOfOne ==
    ASSUME IInv, NEW c \in Clients,
           client' = [client EXCEPT ![c] = client'[c]],
           GoodTree(tree'),
           DOMAIN journal \subseteq DOMAIN journal',
           \A d \in DOMAIN journal' : Planned(d) /\ journal'[d] \in Statuses,
           backups' \subseteq DOMAIN journal',
           edited' = edited, exposed' = exposed,
           \A f \in (edited \ exposed) \cap (Managed \cup Data) : tree'[f] = tree[f],
           ClientWellFormed(c)', ComparedIsUnedited(c)'
    PROVE  IInv'
<1>1. client' = [o \in Clients |-> client'[o]]
  BY DEF IInv
<1>2. ASSUME NEW o \in Clients \ {c}
      PROVE  ClientWellFormed(o)' /\ ComparedIsUnedited(o)'
  <2>1. client'[o] = client[o]
    BY DEF IInv
  <2>2. ClientWellFormed(o) /\ ComparedIsUnedited(o)
    BY DEF IInv
  <2> QED BY <2>1, <2>2 DEF ClientWellFormed, ComparedIsUnedited, AboutToWrite, Planned
<1>3. EditsSurvive'
  BY DEF IInv, EditsSurvive
<1> QED BY <1>1, <1>2, <1>3 DEF IInv, GoodTree, Planned

LEMMA StatusKeepsJournal ==
    ASSUME IInv, NEW d, Planned(d), NEW status \in Statuses, SetStatus(d, status)
    PROVE  /\ DOMAIN journal' = DOMAIN journal \cup {d}
           /\ \A e \in DOMAIN journal' : Planned(e) /\ journal'[e] \in Statuses
  BY DEF IInv, SetStatus

(* A process at work, as the invariant has it.                             *)
LEMMA AtWork ==
    ASSUME IInv, NEW c \in Clients, client[c].pc # "idle"
    PROVE  /\ client[c] = [pc |-> client[c].pc, of |-> client[c].of, stage |-> client[c].stage,
                           todo |-> client[c].todo, operator |-> client[c].operator]
           /\ client[c].stage \in Statuses
           /\ client[c].todo \subseteq TreeFiles
           /\ Planned(client[c].of)
           /\ client[c].pc = "prepare" \/ client[c].of \in DOMAIN journal
           /\ ComparedIsUnedited(c)
  BY DEF IInv, ClientWellFormed, Idle

LEMMA RecordChanges ==
    ASSUME NEW r, NEW pc, NEW d, NEW stage, NEW todo, NEW operator,
           r = [pc |-> pc, of |-> d, stage |-> stage, todo |-> todo, operator |-> operator],
           NEW x, NEW y
    PROVE  /\ [r EXCEPT !.pc = x] =
                [pc |-> x, of |-> d, stage |-> stage, todo |-> todo, operator |-> operator]
           /\ [r EXCEPT !.todo = y] =
                [pc |-> pc, of |-> d, stage |-> stage, todo |-> y, operator |-> operator]
           /\ [r EXCEPT !.pc = x, !.stage = y] =
                [pc |-> x, of |-> d, stage |-> y, todo |-> todo, operator |-> operator]
           /\ [r EXCEPT !.pc = x, !.todo = y] =
                [pc |-> x, of |-> d, stage |-> stage, todo |-> y, operator |-> operator]
<1>1. /\ r.pc = pc /\ r.of = d /\ r.stage = stage /\ r.todo = todo /\ r.operator = operator
      /\ DOMAIN r = {"pc", "of", "stage", "todo", "operator"}
  OBVIOUS
<1>2. [r EXCEPT !.pc = x] =
        [pc |-> x, of |-> d, stage |-> stage, todo |-> todo, operator |-> operator]
  OBVIOUS
<1>3. [r EXCEPT !.todo = y] =
        [pc |-> pc, of |-> d, stage |-> stage, todo |-> y, operator |-> operator]
  OBVIOUS
<1>4. [r EXCEPT !.pc = x, !.stage = y] =
        [pc |-> x, of |-> d, stage |-> y, todo |-> todo, operator |-> operator]
  <2>1. PICK s : s = [r EXCEPT !.pc = x]
    OBVIOUS
  <2>2. [s EXCEPT !.stage = y] =
          [pc |-> x, of |-> d, stage |-> y, todo |-> todo, operator |-> operator]
    <3>1. s = [pc |-> x, of |-> d, stage |-> stage, todo |-> todo, operator |-> operator]
      BY ONLY <2>1, <1>2
    <3> QED BY ONLY <3>1
  <2>3. [r EXCEPT !.pc = x, !.stage = y] = [s EXCEPT !.stage = y]
    BY ONLY <2>1
  <2> QED BY ONLY <2>2, <2>3
<1>5. [r EXCEPT !.pc = x, !.todo = y] =
        [pc |-> x, of |-> d, stage |-> stage, todo |-> y, operator |-> operator]
  <2>1. PICK s : s = [r EXCEPT !.pc = x]
    OBVIOUS
  <2>2. [s EXCEPT !.todo = y] =
          [pc |-> x, of |-> d, stage |-> stage, todo |-> y, operator |-> operator]
    <3>1. s = [pc |-> x, of |-> d, stage |-> stage, todo |-> todo, operator |-> operator]
      BY ONLY <2>1, <1>2
    <3> QED BY ONLY <3>1
  <2>3. [r EXCEPT !.pc = x, !.todo = y] = [s EXCEPT !.todo = y]
    BY ONLY <2>1
  <2> QED BY ONLY <2>2, <2>3
<1> QED BY <1>2, <1>3, <1>4, <1>5

(* What is to be shown of a process that carries this on.                  *)
ToWrite(pc, d, stage, todo) ==
    {f \in Managed \cup Data :
       \/ pc = "mark" /\ f \in StageWrites(d, stage)
       \/ pc \in {"write", "mark-undo", "restore"} /\ f \in todo}

LEMMA CarriedOn ==
    ASSUME NEW c, NEW pc, NEW d, NEW stage, NEW todo, NEW operator,
           client'[c] = [pc |-> pc, of |-> d, stage |-> stage, todo |-> todo,
                         operator |-> operator],
           pc # "idle", stage \in Statuses, todo \subseteq TreeFiles, Planned(d),
           pc = "prepare" \/ d \in DOMAIN journal',
           ToWrite(pc, d, stage, todo) \cap (edited' \ exposed') = {}
    PROVE  ClientWellFormed(c)' /\ ComparedIsUnedited(c)'
<1>1. /\ client'[c].pc = pc /\ client'[c].of = d /\ client'[c].stage = stage
      /\ client'[c].todo = todo /\ client'[c].operator = operator
  OBVIOUS
<1>2. client'[c] = [pc |-> client'[c].pc, of |-> client'[c].of, stage |-> client'[c].stage,
                    todo |-> client'[c].todo, operator |-> client'[c].operator]
  BY <1>1
<1>3. ClientWellFormed(c)'
  BY <1>1, <1>2 DEF ClientWellFormed, Planned
<1>4. ComparedIsUnedited(c)'
  BY <1>1 DEF ComparedIsUnedited, AboutToWrite, ToWrite
<1> QED BY <1>3, <1>4

(* A process that turns to something else than writing, and one that is    *)
(* through with its deployment.                                            *)
LEMMA StepWithoutWriting ==
    ASSUME IInv, NEW c \in Clients, client[c].pc # "idle",
           NEW pc \in {"backup", "verify", "commit", "confirm", "complete", "undo"},
           client' = [client EXCEPT ![c].pc = pc],
           GoodTree(tree'), \A f \in Managed \cup Data : tree'[f] = tree[f],
           DOMAIN journal' = DOMAIN journal \cup {client[c].of},
           \A d \in DOMAIN journal' : Planned(d) /\ journal'[d] \in Statuses,
           backups' = backups, edited' = edited, exposed' = exposed
    PROVE  IInv'
<1>1. client' = [client EXCEPT ![c] = client'[c]]
  BY DEF IInv
<1>2. client'[c] = [pc |-> pc, of |-> client[c].of, stage |-> client[c].stage,
                    todo |-> client[c].todo, operator |-> client[c].operator]
  BY AtWork DEF IInv
<1>3. ClientWellFormed(c)' /\ ComparedIsUnedited(c)'
  <2>1. ToWrite(pc, client[c].of, client[c].stage, client[c].todo) = {}
    BY DEF ToWrite
  <2>2. /\ pc # "idle" /\ client[c].stage \in Statuses /\ client[c].todo \subseteq TreeFiles
        /\ Planned(client[c].of) /\ client[c].of \in DOMAIN journal'
    BY AtWork
  <2> QED BY ONLY <1>2, <2>1, <2>2, CarriedOn
<1>5. backups' \subseteq DOMAIN journal'
  BY DEF IInv
<1> QED BY <1>1, <1>3, <1>5, StepOfOne

LEMMA StepToIdle ==
    ASSUME IInv, NEW c \in Clients,
           client' = [client EXCEPT ![c] = Idle],
           DOMAIN journal \subseteq DOMAIN journal',
           \A d \in DOMAIN journal' : Planned(d) /\ journal'[d] \in Statuses,
           tree' = tree, backups' = backups, edited' = edited, exposed' = exposed
    PROVE  IInv'
<1>1. client'[c] = Idle /\ client' = [client EXCEPT ![c] = client'[c]]
  BY DEF IInv
<1>2. ClientWellFormed(c)' /\ ComparedIsUnedited(c)'
  BY <1>1 DEF ClientWellFormed, ComparedIsUnedited, AboutToWrite, Idle
<1>3. GoodTree(tree') /\ backups' \subseteq DOMAIN journal'
  BY DEF IInv, GoodTree
<1> QED BY <1>1, <1>2, <1>3, StepOfOne

-----------------------------------------------------------------------------
(* The steps.                                                              *)

LEMMA StartStep ==
    ASSUME IInv, NEW c \in Clients, NEW r \in Releases, Start(c, r) PROVE IInv'
<1> DEFINE d == [release |-> r, tree |-> tree, others |-> DOMAIN journal]
<1>1. Planned(d)
  BY DEF Start, Planned, IInv
<1>2. client' = [client EXCEPT ![c] = client'[c]]
  BY DEF IInv, Start
<1>3. client'[c] = [pc |-> "prepare", of |-> d, stage |-> "preparing", todo |-> {},
                    operator |-> FALSE]
  BY DEF IInv, Start
<1>4. ClientWellFormed(c)'
  BY <1>1, <1>3 DEF ClientWellFormed, Planned, Statuses
<1>5. ComparedIsUnedited(c)'
  BY <1>3 DEF ComparedIsUnedited, AboutToWrite
<1> QED BY <1>2, <1>4, <1>5, StepOfOne DEF Start, IInv

LEMMA PreparingStep ==
    ASSUME IInv, NEW c \in Clients, WritePreparing(c) PROVE IInv'
  BY AtWork, StatusKeepsJournal, StepWithoutWriting
  DEF WritePreparing, Goto, Statuses, history, IInv

LEMMA BackUpStep ==
    ASSUME IInv, NEW c \in Clients, BackUp(c) PROVE IInv'
<1>1. /\ client[c].pc = "backup" /\ client[c].of \in DOMAIN journal
      /\ backups' = backups \cup {client[c].of}
      /\ UNCHANGED <<tree, journal, history>>
  BY AtWork DEF BackUp
<1>2. client' = [client EXCEPT ![c] = client'[c]]
  BY DEF IInv, BackUp
<1>3. client'[c] = [pc |-> "mark", of |-> client[c].of, stage |-> "backed-up",
                    todo |-> client[c].todo, operator |-> client[c].operator]
  <2>1. client'[c] = [client[c] EXCEPT !.pc = "mark", !.stage = "backed-up"]
    BY DEF IInv, BackUp
  <2> QED BY <1>1, <2>1, AtWork, RecordChanges
<1>4. ToWrite("mark", client[c].of, "backed-up", client[c].todo) = {}
  BY DEF ToWrite, StageWrites
<1>5. ClientWellFormed(c)' /\ ComparedIsUnedited(c)'
  <2>1. /\ "mark" # "idle" /\ "backed-up" \in Statuses /\ client[c].todo \subseteq TreeFiles
        /\ Planned(client[c].of) /\ client[c].of \in DOMAIN journal'
    BY <1>1, AtWork DEF Statuses
  <2> QED BY ONLY <1>3, <1>4, <2>1, CarriedOn
<1> QED BY <1>1, <1>2, <1>4, <1>5, StepOfOne DEF IInv, history

(* The stage's files are as planned, so none of them was edited.           *)
LEMMA EnterStageStep ==
    ASSUME IInv, NEW c \in Clients,
           NEW stage \in {"applying", "migrating", "rebuilding", "verifying"},
           EnterStage(c, stage)
    PROVE  IInv'
<1> DEFINE d == client[c].of
<1>1. /\ client[c].pc = "write" /\ d \in DOMAIN journal /\ Planned(d)
      /\ UNCHANGED <<tree, journal, backups, history>>
  BY AtWork DEF EnterStage
<1>2. client' = [client EXCEPT ![c] = client'[c]]
  BY DEF IInv, EnterStage
<1>3. client'[c] = [pc |-> "mark", of |-> d, stage |-> stage,
                    todo |-> client[c].todo, operator |-> client[c].operator]
  <2>1. client'[c] = [client[c] EXCEPT !.pc = "mark", !.stage = stage]
    BY DEF IInv, EnterStage
  <2> QED BY <1>1, <2>1, AtWork, RecordChanges
<1>5. ASSUME NEW f \in Managed \cup Data, f \in StageWrites(d, stage)
      PROVE  f \notin edited \ exposed
  <2>1. stage # "verifying"
    BY <1>5 DEF StageWrites
  <2>2. tree[f] = Before(d, f)
    BY <1>5, <2>1 DEF EnterStage, Unchanged
  <2>3. Before(d, f) # Foreign
    BY <1>1, <1>5, StagesWriteChanges, ChangeIsNotForeign
  <2> QED BY <2>2, <2>3 DEF IInv, EditsSurvive
<1>6. ClientWellFormed(c)' /\ ComparedIsUnedited(c)'
  <2>1. ToWrite("mark", d, stage, client[c].todo) \cap (edited' \ exposed') = {}
    BY <1>1, <1>5 DEF ToWrite, history
  <2>2. /\ "mark" # "idle" /\ stage \in Statuses /\ client[c].todo \subseteq TreeFiles
        /\ Planned(d) /\ d \in DOMAIN journal'
    BY <1>1, AtWork DEF Statuses
  <2> QED BY ONLY <1>3, <2>1, <2>2, CarriedOn
<1> QED BY <1>1, <1>2, <1>6, StepOfOne DEF IInv, history

LEMMA MarkStageStep ==
    ASSUME IInv, NEW c \in Clients, MarkStage(c) PROVE IInv'
<1> DEFINE d == client[c].of
           stage == client[c].stage
<1>1. /\ client[c].pc = "mark" /\ d \in DOMAIN journal /\ Planned(d) /\ stage \in Statuses
      /\ SetStatus(d, stage)
      /\ UNCHANGED <<tree, backups, history>>
  BY AtWork DEF MarkStage
<1>2. client' = [client EXCEPT ![c] = client'[c]]
  BY DEF IInv, MarkStage
<1>3. PICK pc \in {"verify", "write"} :
        client'[c] = [pc |-> pc, of |-> d, stage |-> stage,
                      todo |-> StageWrites(d, stage), operator |-> client[c].operator]
  <2> DEFINE pc == IF stage = "verifying" THEN "verify" ELSE "write"
  <2>1. client'[c] = [client[c] EXCEPT !.pc = pc, !.todo = StageWrites(d, stage)]
    BY DEF IInv, MarkStage
  <2>2. client'[c] = [pc |-> pc, of |-> d, stage |-> stage, todo |-> StageWrites(d, stage),
                      operator |-> client[c].operator]
    BY <1>1, <2>1, AtWork, RecordChanges
  <2> QED BY <2>2
<1>4. /\ DOMAIN journal' = DOMAIN journal \cup {d}
      /\ \A e \in DOMAIN journal' : Planned(e) /\ journal'[e] \in Statuses
  BY <1>1, StatusKeepsJournal
<1>5. StageWrites(d, stage) \subseteq TreeFiles
  BY StagesWriteChanges DEF TreeFiles
<1>7. \A f \in Managed \cup Data : f \in StageWrites(d, stage) => f \notin edited \ exposed
  BY <1>1, AtWork DEF ComparedIsUnedited, AboutToWrite
<1>8. ClientWellFormed(c)' /\ ComparedIsUnedited(c)'
  <2>1. ToWrite(pc, d, stage, StageWrites(d, stage)) \cap (edited' \ exposed') = {}
    BY <1>1, <1>7 DEF ToWrite, history
  <2> QED BY <1>1, <1>3, <1>4, <1>5, <2>1, CarriedOn
<1>9. backups' \subseteq DOMAIN journal' /\ GoodTree(tree')
  BY <1>1, <1>4 DEF IInv
<1> QED BY <1>1, <1>2, <1>4, <1>8, <1>9, StepOfOne DEF history

(* A file that is written, by a stage or by a rollback, is one to write.   *)
LEMMA WriteStep ==
    ASSUME IInv, NEW c \in Clients, client[c].pc \in {"write", "restore"},
           NEW f \in client[c].todo,
           NEW content \in {Before(client[c].of, f), After(client[c].of, f)}, Put(f, content),
           client' = [client EXCEPT ![c].todo = @ \ {f}],
           UNCHANGED <<journal, backups, history>>
    PROVE  IInv'
<1> DEFINE d == client[c].of
<1>1. f \in TreeFiles /\ Planned(d) /\ d \in DOMAIN journal
  BY AtWork
<1>2. GoodTree(tree') /\ \A g \in TreeFiles \ {f} : tree'[g] = tree[g]
  BY <1>1, PutKeepsGood DEF IInv
<1>3. client' = [client EXCEPT ![c] = client'[c]]
  BY DEF IInv
<1>4. client'[c] = [pc |-> client[c].pc, of |-> d, stage |-> client[c].stage,
                    todo |-> client[c].todo \ {f}, operator |-> client[c].operator]
  <2>1. client'[c] = [client[c] EXCEPT !.todo = client[c].todo \ {f}]
    BY DEF IInv
  <2>2. client[c] = [pc |-> client[c].pc, of |-> d, stage |-> client[c].stage,
                     todo |-> client[c].todo, operator |-> client[c].operator]
    BY AtWork
  <2> QED BY ONLY <2>1, <2>2, RecordChanges
<1>5. \A g \in Managed \cup Data : g \in client[c].todo => g \notin edited \ exposed
  BY AtWork DEF ComparedIsUnedited, AboutToWrite
<1>6. ClientWellFormed(c)' /\ ComparedIsUnedited(c)'
  <2>1. ToWrite(client[c].pc, d, client[c].stage, client[c].todo \ {f})
          \cap (edited' \ exposed') = {}
    BY <1>5 DEF ToWrite, history
  <2>2. client[c].stage \in Statuses /\ client[c].todo \ {f} \subseteq TreeFiles
    BY AtWork
  <2>3. Planned(d) /\ d \in DOMAIN journal' /\ client[c].pc # "idle"
    BY <1>1
  <2> QED BY ONLY <1>4, <2>1, <2>2, <2>3, CarriedOn
<1>8. \A g \in (edited \ exposed) \cap (Managed \cup Data) : tree'[g] = tree[g]
  BY <1>2, <1>5, FilesApart DEF TreeFiles
<1> QED BY <1>2, <1>3, <1>6, <1>8, StepOfOne DEF IInv, history

LEMMA CommitStep ==
    ASSUME IInv, NEW c \in Clients, CommitState(c) PROVE IInv'
<1>1. Planned(client[c].of) /\ client[c].of \in DOMAIN journal /\ client[c].pc # "idle"
  BY AtWork DEF CommitState
<1>2. GoodTree(tree') /\ \A g \in TreeFiles \ {StateFile} : tree'[g] = tree[g]
  BY <1>1, PutKeepsGood DEF CommitState, IInv, TreeFiles
<1>3. \A g \in Managed \cup Data : tree'[g] = tree[g]
  BY <1>2, FilesApart DEF TreeFiles
<1> QED BY <1>1, <1>2, <1>3, StepWithoutWriting DEF CommitState, Goto, IInv, history

(* Every file is as before or as after: one that was edited stands as it   *)
(* was edited, and is neither, or is left alone.                           *)
LEMMA PlanRollbackStep ==
    ASSUME IInv, NEW c \in Clients, NEW d \in DOMAIN journal, PlanRollback(c, d)
    PROVE  IInv'
<1> DEFINE todo == {f \in Touched(d) : tree[f] # Before(d, f)}
<1>1. Planned(d)
  BY DEF IInv
<1>2. client' = [client EXCEPT ![c] = client'[c]]
  BY DEF IInv, PlanRollback
<1>3. client'[c] = [pc |-> "mark-undo", of |-> d, stage |-> "rolling-back", todo |-> todo,
                    operator |-> client[c] = Idle]
  BY DEF IInv, PlanRollback
<1>5. ASSUME NEW f \in Managed \cup Data, f \in todo
      PROVE  f \notin edited \ exposed
  <2>1. tree[f] = After(d, f) /\ tree[f] # Before(d, f)
    BY <1>5 DEF PlanRollback, Restorable
  <2>2. tree[f] # Foreign
    BY <1>1, <2>1, ChangeIsNotForeign
  <2> QED BY <2>2 DEF IInv, EditsSurvive
<1>6. ClientWellFormed(c)' /\ ComparedIsUnedited(c)'
  <2>1. ToWrite("mark-undo", d, "rolling-back", todo) \cap (edited' \ exposed') = {}
    BY <1>5 DEF ToWrite, PlanRollback
  <2>2. "rolling-back" \in Statuses /\ d \in DOMAIN journal'
    BY DEF Statuses, PlanRollback
  <2>3. todo \subseteq TreeFiles
    BY <1>1, TouchedAreFiles
  <2>4. PICK operator : operator = (client[c] = Idle)
    OBVIOUS
  <2>5. client'[c] = [pc |-> "mark-undo", of |-> d, stage |-> "rolling-back", todo |-> todo,
                      operator |-> operator]
    BY <1>3, <2>4
  <2> QED BY ONLY <1>1, <2>1, <2>2, <2>3, <2>5, CarriedOn
<1> QED BY <1>2, <1>6, StepOfOne DEF IInv, PlanRollback

LEMMA MarkRollingBackStep ==
    ASSUME IInv, NEW c \in Clients, MarkRollingBack(c) PROVE IInv'
<1> DEFINE d == client[c].of
<1>1. /\ client[c].pc = "mark-undo" /\ d \in DOMAIN journal /\ Planned(d)
      /\ SetStatus(d, "rolling-back")
      /\ UNCHANGED <<tree, backups, history>>
  BY AtWork DEF MarkRollingBack
<1>2. client' = [client EXCEPT ![c] = client'[c]]
  BY DEF IInv, MarkRollingBack, Goto
<1>3. client'[c] = [pc |-> "restore", of |-> d, stage |-> client[c].stage,
                    todo |-> client[c].todo, operator |-> client[c].operator]
  BY <1>1, AtWork DEF IInv, MarkRollingBack, Goto
<1>4. /\ DOMAIN journal' = DOMAIN journal \cup {d}
      /\ \A e \in DOMAIN journal' : Planned(e) /\ journal'[e] \in Statuses
  BY <1>1, StatusKeepsJournal DEF Statuses
<1>5. \A f \in Managed \cup Data : f \in client[c].todo => f \notin edited \ exposed
  BY <1>1, AtWork DEF ComparedIsUnedited, AboutToWrite
<1>6. ClientWellFormed(c)' /\ ComparedIsUnedited(c)'
  <2>1. ToWrite("restore", d, client[c].stage, client[c].todo) \cap (edited' \ exposed') = {}
    BY <1>1, <1>5 DEF ToWrite, history
  <2> QED BY <1>1, <1>3, <1>4, <2>1, AtWork, CarriedOn
<1>7. backups' \subseteq DOMAIN journal' /\ GoodTree(tree')
  BY <1>1, <1>4 DEF IInv
<1> QED BY <1>1, <1>2, <1>4, <1>6, <1>7, StepOfOne DEF history

(* Somebody else's edit: a file that was about to be written is exposed.   *)
LEMMA EditStep ==
    ASSUME IInv, NEW f \in Files, Edit(f) PROVE IInv'
<1>1. /\ tree' = [g \in TreeFiles |-> tree'[g]]
      /\ \A g \in TreeFiles : tree'[g] = IF g = f THEN Foreign ELSE tree[g]
  BY DEF Edit, IInv, GoodTree
<1>2. tree'[StateFile] = tree[StateFile]
  BY <1>1, FilesApart DEF TreeFiles
<1>3. \A g \in Files : tree'[g] \in Contents \cup {Absent}
  BY <1>1, ForeignAssumption DEF IInv, GoodTree, TreeFiles
<1>4. GoodTree(tree')
  BY <1>1, <1>2, <1>3 DEF IInv, GoodTree
<1>5. EditsSurvive'
  BY <1>1, FilesApart DEF IInv, Edit, EditsSurvive, TreeFiles
<1>6. ASSUME NEW c \in Clients
      PROVE  ClientWellFormed(c)' /\ ComparedIsUnedited(c)'
  <2>1. ClientWellFormed(c)'
    BY DEF IInv, Edit, ClientWellFormed, Planned
  <2>2. \A g \in Managed \cup Data : AboutToWrite(c, g) => g \notin edited' \ exposed'
    BY DEF IInv, Edit, ComparedIsUnedited
  <2> QED BY <2>1, <2>2 DEF Edit, ComparedIsUnedited, AboutToWrite
<1>7. exposed' \subseteq edited' /\ edited' \subseteq Files
  BY DEF IInv, Edit
<1> QED BY <1>4, <1>5, <1>6, <1>7 DEF IInv, Edit, Planned

LEMMA NextInvariant ==
    ASSUME IInv, [Next]_vars PROVE IInv'
<1>1. ASSUME NEW c \in Clients, Deploys(c) PROVE IInv'
  <2>1. ASSUME NEW r \in Releases, Start(c, r) PROVE IInv'
    BY <2>1, StartStep
  <2>2. CASE WritePreparing(c)
    BY <2>2, PreparingStep
  <2>3. CASE BackUp(c)
    BY <2>3, BackUpStep
  <2>4. ASSUME NEW stage \in {"applying", "migrating", "rebuilding", "verifying"},
               EnterStage(c, stage)
        PROVE  IInv'
    BY <2>4, EnterStageStep
  <2>5. CASE MarkStage(c)
    BY <2>5, MarkStageStep
  <2>6. ASSUME NEW f \in Files, WriteFile(c, f) PROVE IInv'
    BY <2>6, WriteStep DEF WriteFile
  <2>7. CASE VerifyTree(c)
    BY <2>7, AtWork, StepWithoutWriting DEF VerifyTree, Goto, IInv, history
  <2>8. CASE CommitState(c)
    BY <2>8, CommitStep
  <2>9. CASE Confirm(c)
    BY <2>9, AtWork, StepWithoutWriting DEF Confirm, Goto, IInv, history
  <2>10. CASE Complete(c)
    <3>1. Planned(client[c].of) /\ "completed" \in Statuses
      BY <2>10, AtWork DEF Complete, Statuses
    <3> QED BY <2>10, <3>1, StatusKeepsJournal, StepToIdle DEF Complete, history
  <2>11. CASE StageFails(c)
    <3>1. client[c].pc \notin {"idle", "prepare"}
      BY <2>11 DEF StageFails
    <3> QED BY <2>11, <3>1, AtWork, StepWithoutWriting DEF StageFails, Goto, IInv, history
  <2> QED BY <1>1, <2>1, <2>2, <2>3, <2>4, <2>5, <2>6, <2>7, <2>8, <2>9, <2>10, <2>11 DEF Deploys
<1>2. ASSUME NEW c \in Clients, RollsBack(c) PROVE IInv'
  <2>1. ASSUME NEW d \in DOMAIN journal, PlanRollback(c, d) PROVE IInv'
    BY <2>1, PlanRollbackStep
  <2>2. CASE MarkRollingBack(c)
    BY <2>2, MarkRollingBackStep
  <2>3. ASSUME NEW f \in Files \cup {StateFile}, RestoreFile(c, f) PROVE IInv'
    BY <2>3, WriteStep DEF RestoreFile
  <2>4. CASE FinishRollback(c)
    <3>1. Planned(client[c].of) /\ "rolled-back" \in Statuses
      BY <2>4, AtWork DEF FinishRollback, Statuses
    <3> QED BY <2>4, <3>1, StatusKeepsJournal, StepToIdle DEF FinishRollback, history
  <2>5. CASE RollbackFails(c)
    <3>1. Planned(client[c].of) /\ "failed" \in Statuses
      BY <2>5, AtWork DEF RollbackFails, Statuses
    <3> QED BY <2>5, <3>1, StatusKeepsJournal, StepToIdle DEF RollbackFails, history
  <2> QED BY <1>2, <2>1, <2>2, <2>3, <2>4, <2>5 DEF RollsBack
<1>3. ASSUME NEW c \in Clients, Stop(c) PROVE IInv'
  BY <1>3, StepToIdle DEF Stop, history, IInv
<1>4. ASSUME NEW f \in Files, Edit(f) PROVE IInv'
  BY <1>4, EditStep
<1>5. CASE UNCHANGED vars
  BY <1>5 DEF vars, history, IInv, EditsSurvive, ClientWellFormed, ComparedIsUnedited,
              AboutToWrite, Planned, GoodTree
<1> QED BY <1>1, <1>2, <1>3, <1>4, <1>5 DEF Next

-----------------------------------------------------------------------------
(* Trees, journals and what a process carries are well-formed, and files   *)
(* that no step may have been told to write are what they were: the        *)
(* inductive invariant.                                                    *)
THEOREM DeploymentInvariant == Spec => []IInv
  BY InitInvariant, NextInvariant, PTL DEF Spec

(* Trees, journals and what a process carries are well-formed.             *)
THEOREM DeploymentTypeCorrect == Spec => []TypeOK
<1>1. IInv => TypeOK
  BY DEF IInv, TypeOK, GoodTree, ClientWellFormed
<1> QED BY <1>1, DeploymentInvariant, PTL

(* What somebody else wrote into a file of the program or of the user is   *)
(* not replaced by a deployment or a rollback, however many processes race *)
(* and die, unless it was being written just then.                         *)
THEOREM EditsAreKept == Spec => []EditsSurvive
<1>1. IInv => EditsSurvive
  BY DEF IInv
<1> QED BY <1>1, DeploymentInvariant, PTL

-----------------------------------------------------------------------------
(* Deployments one after the other.                                        *)

Rev(t) == t[StateFile].revision

(* Two trees that differ at most in files that somebody else has edited.   *)
Alike(t, u) == \A f \in TreeFiles \ edited : t[f] = u[f]

Pending == {d \in DOMAIN journal : Interrupted(d)}
Live == {d \in DOMAIN journal : journal[d] # "rolled-back"}

(* A deployment whose base is gone can neither go on nor be rolled back:   *)
(* it stays interrupted, and nothing starts any more.                      *)
Stuck == \E d \in Pending : Rev(tree) < Rev(d.tree)

OneAtWork == \A c, d \in Clients : client[c] # Idle /\ client[d] # Idle => c = d

JournalsDiffer ==
    /\ \A d \in DOMAIN journal : d \notin d.others /\ Rev(Tree0) <= Rev(d.tree)
    /\ Rev(Tree0) <= Rev(tree)
    /\ \A d, e \in Live : Rev(d.tree) = Rev(e.tree) => d = e

(* The completed deployments are for successive revisions from the first.  *)
CompletedAreSuccessive ==
    LET next == Rev(Tree0) + Cardinality(Completed)
    IN /\ IsFiniteSet(DOMAIN journal)
       /\ \A d \in Completed : Rev(d.tree) < Rev(tree) /\ Rev(d.tree) < next
       /\ \A n \in Nat : Rev(Tree0) <= n /\ n < next =>
            \E d \in Completed : Rev(d.tree) = n

(* What a process relies on.                                               *)
WorkIsAlone(c) ==
    LET d == client[c].of
    IN /\ client[c].pc = "prepare" =>
            Pending = {} /\ d.others = DOMAIN journal /\ Alike(tree, d.tree)
       /\ client[c].pc \in {"backup", "mark", "write", "verify", "commit", "confirm",
                            "complete", "undo"} =>
            Pending = {d} /\ Rev(d.tree) <= Rev(tree)
       /\ client[c].pc = "mark" => client[c].stage \notin {"completed", "rolled-back"}
       /\ client[c].pc = "complete" => Alike(tree, PostTree(d.release, d.tree))
       /\ client[c].pc = "mark-undo" =>
            /\ d \in Live
            /\ \A f \in Touched(d) \ edited : tree[f] \in {Before(d, f), After(d, f)}
       /\ client[c].pc = "restore" => d \in Pending
       /\ client[c].pc \in {"mark-undo", "restore"} /\ StateFile \in client[c].todo =>
            tree[StateFile] = After(d, StateFile)

(* A deployment was made for the first tree or for what a deployment left. *)
BasesStand ==
    \A d \in Live :
      \/ Alike(d.tree, Tree0)
      \/ \E e \in Live : Alike(d.tree, PostTree(e.release, e.tree))

(* The tree lies between what interrupted deployments started from and     *)
(* what they were to leave.                                                *)
TreeIsExplained ==
    IF Pending = {}
    THEN \E version \in WholeVersions : Alike(tree, version)
    ELSE \A f \in TreeFiles \ edited :
           \E d \in Pending : tree[f] \in {Before(d, f), After(d, f)}

PendingAreRecent == \A d \in Pending : Rev(d.tree) \in {Rev(tree), Rev(tree) - 1}

TreeIsAccountedFor == Stuck \/ (BasesStand /\ TreeIsExplained /\ PendingAreRecent)

Alone ==
    /\ OneAtWork
    /\ JournalsDiffer
    /\ CompletedAreSuccessive
    /\ TreeIsAccountedFor
    /\ \A c \in Clients : WorkIsAlone(c)

SInv == ~overlap => Alone

-----------------------------------------------------------------------------
(* What a plan says of revisions.                                          *)
LEMMA PlanRevisions ==
    ASSUME NEW d, Planned(d)
    PROVE  /\ Rev(d.tree) \in Nat /\ Rev(PostTree(d.release, d.tree)) = Rev(d.tree) + 1
           /\ Before(d, StateFile).revision = Rev(d.tree)
           /\ After(d, StateFile).revision = Rev(d.tree) + 1
           /\ After(d, StateFile) # Before(d, StateFile)
           /\ StateFile \in Touched(d)
<1>1. Rev(d.tree) \in Nat
  BY DEF Planned, GoodTree, StateWellFormed, Rev
<1>2. PostTree(d.release, d.tree)[StateFile].revision = d.tree[StateFile].revision + 1
  <2>1. PostTree(d.release, d.tree)[StateFile] = DesiredState(d.release, d.tree[StateFile])
    BY PostTreeOf
  <2> QED BY <2>1 DEF DesiredState
<1>3. StateFile \in Touched(d)
  BY DEF Touched, Entries
<1> QED BY <1>1, <1>2, <1>3 DEF Rev, Before, After

LEMMA TreeRevisions ==
    ASSUME IInv
    PROVE  /\ Rev(tree) \in Nat /\ Rev(Tree0) \in Nat
           /\ StateFile \in TreeFiles \ edited
           /\ \A t, u : Alike(t, u) => Rev(t) = Rev(u) /\ t[StateFile] = u[StateFile]
<1>1. Rev(tree) \in Nat
  BY DEF IInv, GoodTree, StateWellFormed, Rev
<1>2. Rev(Tree0) \in Nat
  BY Tree0Assumption DEF StateWellFormed, Rev
<1>3. StateFile \in TreeFiles \ edited
  BY FilesApart DEF IInv, TreeFiles
<1> QED BY <1>1, <1>2, <1>3 DEF Alike, Rev

(* The sets of deployments by status.                                      *)
LEMMA StatusSets ==
    /\ Pending \subseteq Live /\ Completed \subseteq Live /\ Live \subseteq DOMAIN journal
    /\ Pending \cap Completed = {} /\ Live = Pending \cup Completed
  BY DEF Pending, Completed, Live, Interrupted

LEMMA StatusMoves ==
    ASSUME NEW d, NEW status, SetStatus(d, status)
    PROVE  /\ DOMAIN journal' = DOMAIN journal \cup {d}
           /\ status = "completed" =>
                /\ Pending' = Pending \ {d} /\ Live' = Live \cup {d}
                /\ Completed' = Completed \cup {d}
           /\ status = "rolled-back" =>
                /\ Pending' = Pending \ {d} /\ Live' = Live \ {d}
                /\ Completed' = Completed \ {d}
           /\ status \notin {"completed", "rolled-back"} =>
                /\ Pending' = Pending \cup {d} /\ Live' = Live \cup {d}
                /\ Completed' = Completed \ {d}
<1>1. /\ DOMAIN journal' = DOMAIN journal \cup {d}
      /\ journal'[d] = status
      /\ \A e \in DOMAIN journal \ {d} : journal'[e] = journal[e]
  BY DEF SetStatus
<1>2. CASE status = "completed"
  BY <1>1, <1>2 DEF Pending, Live, Completed, Interrupted
<1>3. CASE status = "rolled-back"
  BY <1>1, <1>3 DEF Pending, Live, Completed, Interrupted
<1>4. CASE status \notin {"completed", "rolled-back"}
  BY <1>1, <1>4 DEF Pending, Live, Completed, Interrupted
<1> QED BY <1>1, <1>2, <1>3, <1>4

(* A process that is at work alone.                                        *)
LEMMA OthersIdle ==
    ASSUME IInv, OneAtWork, NEW c \in Clients, client[c].pc # "idle"
    PROVE  \A o \in Clients \ {c} : client[o] = Idle
  BY DEF OneAtWork, Idle

LEMMA AloneByOne ==
    ASSUME IInv, NEW c \in Clients, \A o \in Clients \ {c} : client[o] = Idle,
           client' = [client EXCEPT ![c] = client'[c]],
           JournalsDiffer', CompletedAreSuccessive', TreeIsAccountedFor', WorkIsAlone(c)'
    PROVE  Alone'
<1>1. \A o \in Clients \ {c} : client'[o] = Idle
  BY DEF IInv
<1>2. \A o \in Clients \ {c} : client'[o].pc = "idle"
  BY <1>1 DEF Idle
<1>3. \A o \in Clients \ {c} : WorkIsAlone(o)'
  BY <1>2 DEF WorkIsAlone
<1>4. OneAtWork'
  BY <1>1 DEF OneAtWork
<1> QED BY <1>3, <1>4 DEF Alone

(* A step that only moves a process, or a status among those of            *)
(* interrupted deployments.                                                *)
LEMMA NothingMoves ==
    ASSUME Alone, tree' = tree, edited' = edited, DOMAIN journal' = DOMAIN journal,
           Pending' = Pending, Live' = Live, Completed' = Completed
    PROVE  JournalsDiffer' /\ CompletedAreSuccessive' /\ TreeIsAccountedFor'
<1>1. JournalsDiffer'
  BY DEF Alone, JournalsDiffer
<1>2. CompletedAreSuccessive'
  BY DEF Alone, CompletedAreSuccessive
<1>3. Stuck' <=> Stuck
  BY DEF Stuck
<1>4. \A t, u : Alike(t, u)' <=> Alike(t', u')
  BY DEF Alike
<1>5. BasesStand => BasesStand'
  BY DEF BasesStand, Alike
<1>6. WholeVersions' = WholeVersions
  BY DEF WholeVersions
<1>7. TreeIsExplained => TreeIsExplained'
  BY <1>6 DEF TreeIsExplained, Alike
<1>8. PendingAreRecent => PendingAreRecent'
  BY DEF PendingAreRecent
<1> QED BY <1>1, <1>2, <1>3, <1>5, <1>7, <1>8 DEF Alone, TreeIsAccountedFor

(* The completed deployment on top.                                        *)
LEMMA TopCompleted ==
    ASSUME IInv, JournalsDiffer, CompletedAreSuccessive, NEW d \in Completed,
           Rev(d.tree) + 1 = Rev(tree)
    PROVE  Rev(d.tree) + 1 = Rev(Tree0) + Cardinality(Completed)
<1>1. Planned(d) /\ Rev(d.tree) \in Nat /\ Rev(tree) \in Nat /\ Rev(Tree0) \in Nat
  BY StatusSets, PlanRevisions, TreeRevisions DEF IInv
<1>2. IsFiniteSet(Completed)
  BY FS_Subset, StatusSets DEF CompletedAreSuccessive
<1>3. Cardinality(Completed) \in Nat
  BY <1>2, FS_CardinalityType
<1>4. Cardinality(Completed) # 0
  BY <1>2, FS_EmptySet
<1> DEFINE next == Rev(Tree0) + Cardinality(Completed)
<1>5. next - 1 \in Nat /\ Rev(Tree0) <= next - 1 /\ next - 1 < next
  BY <1>1, <1>3, <1>4
<1>6. PICK e \in Completed : Rev(e.tree) = next - 1
  BY <1>5 DEF CompletedAreSuccessive
<1>7. Rev(e.tree) < Rev(tree) /\ Rev(d.tree) < next
  BY DEF CompletedAreSuccessive
<1> QED BY <1>1, <1>3, <1>6, <1>7

(* The one interrupted deployment is next, and was made for what the last  *)
(* completed one left.                                                     *)
LEMMA NextDeployment ==
    ASSUME IInv, Alone, NEW d, Pending = {d}, Rev(d.tree) <= Rev(tree)
    PROVE  /\ Rev(d.tree) = Rev(Tree0) + Cardinality(Completed)
           /\ Cardinality(Completed) \in Nat /\ IsFiniteSet(Completed)
           /\ \/ Cardinality(Completed) = 0 /\ Alike(d.tree, Tree0)
              \/ \E e \in Completed : /\ Rev(e.tree) + 1 = Rev(d.tree)
                                      /\ Alike(d.tree, PostTree(e.release, e.tree))
<1> USE DEF Alone
<1>1. d \in Live /\ d \in DOMAIN journal /\ Live = {d} \cup Completed
  BY StatusSets
<1>2. /\ \A e \in Live : Planned(e) /\ Rev(e.tree) \in Nat /\ Rev(Tree0) <= Rev(e.tree)
      /\ Rev(tree) \in Nat /\ Rev(Tree0) \in Nat
  BY StatusSets, PlanRevisions, TreeRevisions DEF IInv, JournalsDiffer
<1>3. IsFiniteSet(Completed) /\ Cardinality(Completed) \in Nat
  BY FS_Subset, FS_CardinalityType, StatusSets DEF CompletedAreSuccessive
<1>4. ~Stuck
  BY <1>1, <1>2 DEF Stuck
<1>5. BasesStand /\ PendingAreRecent
  BY <1>4 DEF TreeIsAccountedFor
<1>6. Rev(d.tree) \in {Rev(tree), Rev(tree) - 1}
  BY <1>5 DEF PendingAreRecent
<1> DEFINE next == Rev(Tree0) + Cardinality(Completed)
<1>7. next <= Rev(d.tree)
  <2>1. CASE Cardinality(Completed) = 0
    BY <1>1, <1>2, <2>1
  <2>2. CASE Cardinality(Completed) # 0
    <3>1. next - 1 \in Nat /\ Rev(Tree0) <= next - 1 /\ next - 1 < next
      BY <1>2, <1>3, <2>2
    <3>2. PICK e \in Completed : Rev(e.tree) = next - 1
      BY <3>1 DEF CompletedAreSuccessive
    <3>3. Rev(e.tree) < Rev(tree) /\ e # d
      BY StatusSets DEF CompletedAreSuccessive
    <3>4. Rev(e.tree) # Rev(d.tree)
      BY <1>1, <3>3 DEF JournalsDiffer
    <3> QED BY <1>1, <1>2, <1>3, <1>6, <3>2, <3>3, <3>4
  <2> QED BY <2>1, <2>2
<1>8. CASE Alike(d.tree, Tree0)
  <2>1. Rev(d.tree) = Rev(Tree0)
    BY <1>8, TreeRevisions
  <2> QED BY <1>2, <1>3, <1>7, <1>8, <2>1
<1>9. ASSUME NEW e \in Live, Alike(d.tree, PostTree(e.release, e.tree))
      PROVE  /\ Rev(e.tree) + 1 = Rev(d.tree) /\ e \in Completed
             /\ Rev(d.tree) = next
  <2>1. Rev(d.tree) = Rev(e.tree) + 1
    BY <1>2, <1>9, TreeRevisions, PlanRevisions
  <2>2. e \in Completed
    BY <1>1, <1>2, <2>1
  <2>3. Rev(e.tree) < next
    BY <2>2 DEF CompletedAreSuccessive
  <2> QED BY <1>2, <1>3, <1>7, <2>1, <2>2, <2>3
<1>10. Alike(d.tree, Tree0) \/ \E e \in Live : Alike(d.tree, PostTree(e.release, e.tree))
  BY <1>1, <1>5 DEF BasesStand
<1> QED BY <1>3, <1>8, <1>9, <1>10

-----------------------------------------------------------------------------
(* What statuses and files may become.                                     *)

(* A new journal is of a new deployment.                                   *)
LEMMA NewJournal ==
    ASSUME IInv, Alone, NEW d, Planned(d), Pending = {}, d.others = DOMAIN journal,
           Alike(tree, d.tree), SetStatus(d, "preparing"), tree' = tree, edited' = edited
    PROVE  /\ JournalsDiffer' /\ CompletedAreSuccessive' /\ TreeIsAccountedFor'
           /\ Pending' = {d} /\ Completed' = Completed /\ Rev(d.tree) = Rev(tree)
<1> USE DEF Alone
<1>1. d \notin DOMAIN journal
  BY DEF JournalsDiffer
<1>2. /\ DOMAIN journal' = DOMAIN journal \cup {d}
      /\ Pending' = {d} /\ Live' = Live \cup {d} /\ Completed' = Completed
      /\ Live = Completed
  <2>1. /\ DOMAIN journal' = DOMAIN journal \cup {d} /\ Pending' = Pending \cup {d}
        /\ Live' = Live \cup {d} /\ Completed' = Completed \ {d}
    <3>1. PICK status : status = "preparing"
      OBVIOUS
    <3>2. status \notin {"completed", "rolled-back"}
      BY <3>1
    <3>3. SetStatus(d, status)
      BY <3>1
    <3> QED BY ONLY <3>2, <3>3, StatusMoves
  <2>2. d \notin Completed /\ Live = Pending \cup Completed
    BY <1>1, StatusSets
  <2> QED BY ONLY <2>1, <2>2, Pending = {}
<1>3. Rev(d.tree) = Rev(tree) /\ Rev(tree) \in Nat /\ Rev(Tree0) \in Nat
  BY TreeRevisions
<1>4. \A e \in Completed : Rev(e.tree) < Rev(d.tree) /\ Rev(e.tree) \in Nat
  BY <1>3, StatusSets, PlanRevisions DEF CompletedAreSuccessive, IInv
<1>5. JournalsDiffer'
  BY <1>1, <1>2, <1>3, <1>4 DEF JournalsDiffer
<1>6. CompletedAreSuccessive'
  <2>1. IsFiniteSet(DOMAIN journal')
    BY <1>2, FS_AddElement DEF CompletedAreSuccessive
  <2> QED BY <1>2, <2>1 DEF CompletedAreSuccessive
<1>7. BasesStand /\ TreeIsExplained
  BY DEF TreeIsAccountedFor, Stuck
<1>8. PICK version \in WholeVersions : Alike(tree, version)
  BY <1>7 DEF TreeIsExplained
<1>9. Alike(d.tree, version)
  BY <1>8 DEF Alike
<1>10. Alike(d.tree, Tree0) \/ \E e \in Live : Alike(d.tree, PostTree(e.release, e.tree))
  BY <1>2, <1>9 DEF WholeVersions
<1>11. BasesStand'
  BY <1>2, <1>7, <1>10 DEF BasesStand, Alike
<1>12. TreeIsExplained'
  BY <1>2 DEF TreeIsExplained, Alike, Before
<1>13. PendingAreRecent'
  BY <1>2, <1>3 DEF PendingAreRecent
<1> QED BY <1>2, <1>3, <1>5, <1>6, <1>11, <1>12, <1>13 DEF TreeIsAccountedFor

(* The one interrupted deployment completes.                               *)
LEMMA DeploymentCompletes ==
    ASSUME IInv, Alone, NEW d, Pending = {d}, Alike(tree, PostTree(d.release, d.tree)),
           SetStatus(d, "completed"), tree' = tree, edited' = edited
    PROVE  /\ JournalsDiffer' /\ CompletedAreSuccessive' /\ TreeIsAccountedFor'
           /\ Pending' = {} /\ Completed' = Completed \cup {d} /\ d \notin Completed
           /\ Rev(d.tree) = Rev(Tree0) + Cardinality(Completed)
           /\ Cardinality(Completed') = Cardinality(Completed) + 1
           /\ Cardinality(Completed) \in Nat
<1> USE DEF Alone
<1>1. d \in Live /\ d \in DOMAIN journal /\ d \notin Completed /\ Planned(d)
  BY StatusSets DEF IInv
<1>2. /\ DOMAIN journal' = DOMAIN journal
      /\ Pending' = {} /\ Live' = Live /\ Completed' = Completed \cup {d}
  <2>1. /\ DOMAIN journal' = DOMAIN journal \cup {d} /\ Pending' = Pending \ {d}
        /\ Live' = Live \cup {d} /\ Completed' = Completed \cup {d}
    BY StatusMoves
  <2> QED BY ONLY <1>1, <2>1, Pending = {d}
<1>3. /\ Rev(tree) = Rev(d.tree) + 1 /\ Rev(d.tree) \in Nat /\ Rev(tree) \in Nat
      /\ Rev(Tree0) \in Nat
  BY <1>1, TreeRevisions, PlanRevisions
<1>4. /\ Rev(d.tree) = Rev(Tree0) + Cardinality(Completed)
      /\ Cardinality(Completed) \in Nat /\ IsFiniteSet(Completed)
  BY <1>3, NextDeployment
<1>5. Cardinality(Completed') = Cardinality(Completed) + 1
  BY <1>1, <1>2, <1>4, FS_AddElement
<1>6. JournalsDiffer'
  BY <1>2 DEF JournalsDiffer
<1>7. CompletedAreSuccessive'
  <2>1. ASSUME NEW e \in Completed'
        PROVE  Rev(e.tree) < Rev(tree) /\ Rev(e.tree) < Rev(Tree0) + Cardinality(Completed')
    <3>1. CASE e = d
      BY <1>3, <1>4, <1>5, <3>1
    <3>2. CASE e \in Completed
      <4>1. Rev(e.tree) \in Nat
        BY <3>2, StatusSets, PlanRevisions DEF IInv
      <4> QED BY <1>3, <1>4, <1>5, <3>2, <4>1 DEF CompletedAreSuccessive
    <3> QED BY <1>2, <3>1, <3>2
  <2>2. ASSUME NEW n \in Nat, Rev(Tree0) <= n, n < Rev(Tree0) + Cardinality(Completed')
        PROVE  \E e \in Completed' : Rev(e.tree) = n
    <3>1. CASE n = Rev(d.tree)
      BY <1>2, <3>1
    <3>2. CASE n # Rev(d.tree)
      <4>1. n < Rev(Tree0) + Cardinality(Completed)
        BY <1>3, <1>4, <1>5, <2>2, <3>2
      <4> QED BY <1>2, <2>2, <4>1 DEF CompletedAreSuccessive
    <3> QED BY <3>1, <3>2
  <2> QED BY <1>2, <2>1, <2>2 DEF CompletedAreSuccessive
<1>8. ~Stuck
  BY <1>3 DEF Stuck
<1>9. BasesStand'
  BY <1>2, <1>8 DEF BasesStand, Alike, TreeIsAccountedFor
<1>10. TreeIsExplained'
  BY <1>2 DEF TreeIsExplained, WholeVersions, Alike
<1>11. PendingAreRecent'
  BY <1>2 DEF PendingAreRecent
<1> QED BY <1>1, <1>2, <1>4, <1>5, <1>6, <1>7, <1>9, <1>10, <1>11 DEF TreeIsAccountedFor

(* The rollback of a completed deployment begins: it was the last one.     *)
LEMMA LastIsTakenBack ==
    ASSUME IInv, Alone, NEW d \in Completed, NEW status, SetStatus(d, status),
           status \notin {"completed", "rolled-back"},
           tree[StateFile] \in {Before(d, StateFile), After(d, StateFile)},
           tree' = tree, edited' = edited
    PROVE  /\ JournalsDiffer' /\ CompletedAreSuccessive' /\ TreeIsAccountedFor'
           /\ Pending' = Pending \cup {d} /\ Completed' = Completed \ {d}
           /\ Rev(d.tree) + 1 = Rev(Tree0) + Cardinality(Completed)
           /\ Cardinality(Completed) \in Nat
           /\ Cardinality(Completed') = Cardinality(Completed) - 1
<1> USE DEF Alone
<1>1. d \in Live /\ d \in DOMAIN journal /\ d \notin Pending /\ Planned(d)
  BY StatusSets DEF IInv
<1>2. /\ DOMAIN journal' = DOMAIN journal
      /\ Pending' = Pending \cup {d} /\ Live' = Live /\ Completed' = Completed \ {d}
  <2>1. /\ DOMAIN journal' = DOMAIN journal \cup {d} /\ Pending' = Pending \cup {d}
        /\ Live' = Live \cup {d} /\ Completed' = Completed \ {d}
    BY StatusMoves
  <2> QED BY ONLY <1>1, <2>1
<1>3. /\ Rev(d.tree) \in Nat /\ Rev(tree) \in Nat /\ Rev(Tree0) \in Nat
      /\ Rev(Tree0) <= Rev(d.tree)
  BY <1>1, TreeRevisions, PlanRevisions DEF JournalsDiffer
<1>4. Rev(d.tree) + 1 = Rev(tree)
  <2>1. Rev(d.tree) < Rev(tree)
    BY DEF CompletedAreSuccessive
  <2>2. Rev(tree) \in {Rev(d.tree), Rev(d.tree) + 1}
    BY <1>1, PlanRevisions DEF Rev
  <2> QED BY <1>3, <2>1, <2>2
<1>5. Rev(d.tree) + 1 = Rev(Tree0) + Cardinality(Completed)
  BY <1>4, TopCompleted
<1>6. IsFiniteSet(Completed) /\ Cardinality(Completed) \in Nat
  BY FS_Subset, FS_CardinalityType, StatusSets DEF CompletedAreSuccessive
<1>7. Cardinality(Completed') = Cardinality(Completed) - 1
  BY <1>2, <1>6, FS_RemoveElement
<1>8. JournalsDiffer'
  BY <1>2 DEF JournalsDiffer
<1>9. CompletedAreSuccessive'
  <2>1. ASSUME NEW e \in Completed'
        PROVE  Rev(e.tree) < Rev(tree) /\ Rev(e.tree) < Rev(Tree0) + Cardinality(Completed')
    <3>1. e \in Completed /\ e # d /\ e \in Live /\ Rev(e.tree) \in Nat
      BY <1>2, StatusSets, PlanRevisions DEF IInv
    <3>2. Rev(e.tree) # Rev(d.tree)
      BY <1>1, <3>1 DEF JournalsDiffer
    <3>3. Rev(e.tree) < Rev(tree)
      BY <3>1 DEF CompletedAreSuccessive
    <3> QED BY <1>3, <1>4, <1>5, <1>6, <1>7, <3>1, <3>2, <3>3
  <2>2. ASSUME NEW n \in Nat, Rev(Tree0) <= n, n < Rev(Tree0) + Cardinality(Completed')
        PROVE  \E e \in Completed' : Rev(e.tree) = n
    <3>1. n < Rev(Tree0) + Cardinality(Completed) /\ n # Rev(d.tree)
      BY <1>3, <1>5, <1>6, <1>7, <2>2
    <3>2. PICK e \in Completed : Rev(e.tree) = n
      BY <2>2, <3>1 DEF CompletedAreSuccessive
    <3> QED BY <1>2, <3>1, <3>2
  <2> QED BY <1>2, <2>1, <2>2 DEF CompletedAreSuccessive
<1>10. TreeIsAccountedFor'
  <2>1. CASE Stuck
    BY <1>2, <2>1 DEF Stuck, TreeIsAccountedFor
  <2>2. CASE ~Stuck
    <3>1. BasesStand /\ TreeIsExplained /\ PendingAreRecent
      BY <2>2 DEF TreeIsAccountedFor
    <3>2. BasesStand'
      BY <1>2, <3>1 DEF BasesStand, Alike
    <3>3. PendingAreRecent'
      BY <1>2, <1>3, <1>4, <3>1 DEF PendingAreRecent
    <3>4. TreeIsExplained'
      <4>1. CASE Pending # {}
        BY <1>2, <3>1, <4>1 DEF TreeIsExplained
      <4>2. CASE Pending = {}
        <5>1. PICK version \in WholeVersions : Alike(tree, version)
          BY <3>1, <4>2 DEF TreeIsExplained
        <5>2. Rev(tree) = Rev(version)
          BY <5>1, TreeRevisions
        <5>3. version # Tree0
          BY <1>3, <1>4, <5>2
        <5>4. PICK e \in Completed : version = PostTree(e.release, e.tree)
          BY <5>3 DEF WholeVersions
        <5>5. e \in Live /\ Planned(e)
          BY StatusSets DEF IInv
        <5>6. Rev(e.tree) = Rev(d.tree)
          BY <1>3, <1>4, <5>2, <5>4, <5>5, PlanRevisions
        <5>7. e = d
          BY <1>1, <5>5, <5>6 DEF JournalsDiffer
        <5>8. \A f \in TreeFiles \ edited : tree[f] = After(d, f)
          BY <5>1, <5>4, <5>7 DEF Alike, After
        <5> QED BY <1>2, <5>8 DEF TreeIsExplained
      <4> QED BY <4>1, <4>2
    <3> QED BY <3>2, <3>3, <3>4 DEF TreeIsAccountedFor
  <2> QED BY <2>1, <2>2
<1> QED BY <1>2, <1>5, <1>6, <1>7, <1>8, <1>9, <1>10

(* A rollback is through: what the deployment was made for is there again, *)
(* or what was made for its result is stuck.                               *)
LEMMA RollbackEnds ==
    ASSUME IInv, Alone, NEW d \in Pending, SetStatus(d, "rolled-back"),
           Unchanged(d, Touched(d)), tree' = tree, edited' = edited
    PROVE  /\ JournalsDiffer' /\ CompletedAreSuccessive' /\ TreeIsAccountedFor'
           /\ Pending' = Pending \ {d} /\ Completed' = Completed
           /\ Rev(d.tree) = Rev(tree)
           /\ Pending = {d} => Alike(tree, d.tree)
<1> USE DEF Alone
<1>1. d \in Live /\ d \in DOMAIN journal /\ d \notin Completed /\ Planned(d)
  BY StatusSets DEF IInv
<1>2. /\ DOMAIN journal' = DOMAIN journal
      /\ Pending' = Pending \ {d} /\ Live' = Live \ {d} /\ Completed' = Completed
  <2>1. /\ DOMAIN journal' = DOMAIN journal \cup {d} /\ Pending' = Pending \ {d}
        /\ Live' = Live \ {d} /\ Completed' = Completed \ {d}
    BY StatusMoves
  <2> QED BY ONLY <1>1, <2>1
<1>3. \A e \in Live : e \in DOMAIN journal /\ Planned(e) /\ Rev(e.tree) \in Nat
  BY StatusSets, PlanRevisions DEF IInv
<1>4. Rev(d.tree) = Rev(tree) /\ Rev(tree) \in Nat /\ Rev(Tree0) \in Nat
  BY <1>1, PlanRevisions, TreeRevisions DEF Unchanged, Rev
<1>5. \A e \in Live : Rev(e.tree) = Rev(d.tree) => e = d
  BY <1>1 DEF JournalsDiffer
<1>6. JournalsDiffer'
  BY <1>2 DEF JournalsDiffer
<1>7. CompletedAreSuccessive'
  BY <1>2 DEF CompletedAreSuccessive
<1>8. ASSUME ~Stuck, NEW f \in TreeFiles \ edited, f \notin Touched(d)
      PROVE  \/ tree[f] = Before(d, f)
             \/ \E e \in Pending \ {d} : tree[f] \in {Before(e, f), After(e, f)}
  <2>1. PICK e \in Pending : tree[f] \in {Before(e, f), After(e, f)}
    BY <1>8 DEF TreeIsAccountedFor, TreeIsExplained
  <2>2. After(d, f) = Before(d, f)
    BY <1>1, <1>8, UntouchedStays
  <2> QED BY <2>1, <2>2
<1>9. ASSUME Pending = {d}
      PROVE  Alike(tree, d.tree)
  <2>1. ~Stuck
    BY <1>4, <1>9 DEF Stuck
  <2>2. ASSUME NEW f \in TreeFiles \ edited
        PROVE  tree[f] = Before(d, f)
    <3>1. CASE f \in Touched(d)
      BY <3>1 DEF Unchanged
    <3>2. CASE f \notin Touched(d)
      BY <1>8, <1>9, <2>1, <3>2
    <3> QED BY <3>1, <3>2
  <2> QED BY <2>2 DEF Alike, Before
<1>10. TreeIsAccountedFor'
  <2>1. CASE Stuck
    <3>1. PICK e \in Pending : Rev(tree) < Rev(e.tree)
      BY <2>1 DEF Stuck
    <3>2. e # d
      BY <1>4, <3>1
    <3> QED BY <1>2, <3>1, <3>2 DEF TreeIsAccountedFor, Stuck
  <2>2. CASE ~Stuck
    <3>1. BasesStand /\ TreeIsExplained /\ PendingAreRecent
      BY <2>2 DEF TreeIsAccountedFor
    <3>2. ASSUME NEW e \in Live, Alike(e.tree, PostTree(d.release, d.tree))
          PROVE  FALSE
      <4>1. Rev(e.tree) = Rev(d.tree) + 1
        BY <1>1, <3>2, TreeRevisions, PlanRevisions
      <4>2. ~(Rev(e.tree) < Rev(tree)) /\ Rev(tree) < Rev(e.tree)
        BY <1>4, <4>1
      <4>3. e \notin Completed
        BY <4>2 DEF CompletedAreSuccessive
      <4>4. e \notin Pending
        BY <2>2, <4>2 DEF Stuck
      <4> QED BY <4>3, <4>4, StatusSets
    <3>3. BasesStand'
      <4>1. ASSUME NEW e \in Live, e # d
            PROVE  \/ Alike(e.tree, Tree0)
                   \/ \E x \in Live \ {d} : Alike(e.tree, PostTree(x.release, x.tree))
        <5>1. \/ Alike(e.tree, Tree0)
              \/ \E x \in Live : Alike(e.tree, PostTree(x.release, x.tree))
          BY <3>1, <4>1 DEF BasesStand
        <5> QED BY <3>2, <5>1
      <4> QED BY <1>2, <4>1 DEF BasesStand, Alike
    <3>4. PendingAreRecent'
      BY <1>2, <3>1 DEF PendingAreRecent
    <3>5. Alike(d.tree, Tree0) \/ \E x \in Live : Alike(d.tree, PostTree(x.release, x.tree))
      BY <1>1, <3>1 DEF BasesStand
    <3>6. ASSUME NEW x \in Live, Alike(d.tree, PostTree(x.release, x.tree))
          PROVE  Rev(x.tree) + 1 = Rev(d.tree) /\ x # d
      <4>1. Rev(d.tree) = Rev(x.tree) + 1
        BY <1>3, <3>6, TreeRevisions, PlanRevisions
      <4> QED BY <1>3, <4>1
    <3>7. TreeIsExplained'
      <4>1. CASE Pending = {d}
        <5>1. \E version \in WholeVersions : Alike(d.tree, version)
          <6>1. CASE Alike(d.tree, Tree0)
            BY <6>1 DEF WholeVersions
          <6>2. ASSUME NEW x \in Live, Alike(d.tree, PostTree(x.release, x.tree))
                PROVE  PostTree(x.release, x.tree) \in WholeVersions
            <7>1. x \in Completed
              BY <3>6, <4>1, <6>2, StatusSets
            <7> QED BY <7>1 DEF WholeVersions
          <6> QED BY <3>5, <6>1, <6>2
        <5>2. \E version \in WholeVersions : Alike(tree, version)
          BY <1>9, <4>1, <5>1 DEF Alike
        <5> QED BY <1>2, <4>1, <5>2 DEF TreeIsExplained, WholeVersions, Alike
      <4>2. CASE Pending # {d}
        <5>1. PICK e \in Pending : e # d
          BY <4>2
        <5>2. Rev(e.tree) + 1 = Rev(d.tree) /\ e \in Live
          <6>1. e \in Live /\ Rev(e.tree) \in {Rev(tree), Rev(tree) - 1}
            BY <3>1, <5>1, StatusSets DEF PendingAreRecent
          <6>2. Rev(e.tree) # Rev(d.tree)
            BY <1>5, <5>1, <6>1
          <6> QED BY <1>3, <1>4, <6>1, <6>2
        <5>3. Rev(d.tree) # Rev(Tree0)
          <6>1. Rev(Tree0) <= Rev(e.tree)
            BY <1>3, <5>2 DEF JournalsDiffer
          <6> QED BY <1>3, <1>4, <5>2, <6>1
        <5>4. PICK x \in Live : Alike(d.tree, PostTree(x.release, x.tree))
          BY <3>5, <5>3, TreeRevisions
        <5>5. x = e
          <6>1. Rev(x.tree) = Rev(e.tree)
            BY <1>3, <3>6, <5>2, <5>4
          <6> QED BY <5>2, <6>1 DEF JournalsDiffer
        <5>6. \A f \in TreeFiles \ edited : Before(d, f) = After(e, f)
          BY <5>4, <5>5 DEF Alike, Before, After
        <5>7. ASSUME NEW f \in TreeFiles \ edited
              PROVE  \E y \in Pending \ {d} : tree[f] \in {Before(y, f), After(y, f)}
          <6>1. CASE f \in Touched(d)
            BY <5>1, <5>6, <6>1 DEF Unchanged
          <6>2. CASE f \notin Touched(d)
            BY <1>8, <2>2, <5>1, <5>6, <6>2
          <6> QED BY <6>1, <6>2
        <5> QED BY <1>2, <5>1, <5>7 DEF TreeIsExplained
      <4> QED BY <4>1, <4>2
    <3> QED BY <3>3, <3>4, <3>7 DEF TreeIsAccountedFor
  <2> QED BY <2>1, <2>2
<1> QED BY <1>2, <1>4, <1>6, <1>7, <1>9, <1>10

(* Writing a file of an interrupted deployment, as it is to be or as it    *)
(* was, explains it.                                                       *)
LEMMA FileIsWritten ==
    ASSUME IInv, Alone, NEW d \in Pending, NEW f \in Files,
           NEW content \in {Before(d, f), After(d, f)}, Put(f, content),
           journal' = journal, edited' = edited
    PROVE  /\ JournalsDiffer' /\ CompletedAreSuccessive' /\ TreeIsAccountedFor'
           /\ Pending' = Pending /\ Completed' = Completed
           /\ tree'[StateFile] = tree[StateFile]
<1> USE DEF Alone
<1>1. /\ Pending' = Pending /\ Live' = Live /\ Completed' = Completed
      /\ DOMAIN journal' = DOMAIN journal
  BY DEF Pending, Live, Completed, Interrupted
<1>2. \A g \in TreeFiles : tree'[g] = IF g = f THEN content ELSE tree[g]
  BY DEF Put, IInv, GoodTree
<1>3. tree'[StateFile] = tree[StateFile] /\ Rev(tree') = Rev(tree)
  BY <1>2, FilesApart DEF TreeFiles, Rev
<1>4. JournalsDiffer' /\ CompletedAreSuccessive'
  BY <1>1, <1>3 DEF JournalsDiffer, CompletedAreSuccessive
<1>5. Stuck => Stuck'
  BY <1>1, <1>3 DEF Stuck
<1>6. BasesStand => BasesStand'
  BY <1>1 DEF BasesStand, Alike
<1>7. PendingAreRecent => PendingAreRecent'
  BY <1>1, <1>3 DEF PendingAreRecent
<1>8. TreeIsExplained => TreeIsExplained'
  BY <1>1, <1>2 DEF TreeIsExplained
<1> QED BY <1>1, <1>3, <1>4, <1>5, <1>6, <1>7, <1>8 DEF TreeIsAccountedFor

(* So does writing the state: the one interrupted deployment is committed, *)
LEMMA StateIsCommitted ==
    ASSUME IInv, Alone, NEW d, Pending = {d}, Rev(d.tree) <= Rev(tree),
           Put(StateFile, After(d, StateFile)), journal' = journal, edited' = edited
    PROVE  /\ JournalsDiffer' /\ CompletedAreSuccessive' /\ TreeIsAccountedFor'
           /\ Pending' = Pending /\ Completed' = Completed
           /\ Rev(d.tree) <= Rev(tree')
<1> USE DEF Alone
<1>1. /\ Pending' = Pending /\ Live' = Live /\ Completed' = Completed
      /\ DOMAIN journal' = DOMAIN journal
  BY DEF Pending, Live, Completed, Interrupted
<1>2. Planned(d) /\ d \in DOMAIN journal
  BY StatusSets DEF IInv
<1>3. \A g \in TreeFiles : tree'[g] = IF g = StateFile THEN After(d, StateFile) ELSE tree[g]
  BY DEF Put, IInv, GoodTree
<1>4. Rev(tree') = Rev(d.tree) + 1 /\ Rev(d.tree) \in Nat /\ Rev(tree) \in Nat
      /\ Rev(Tree0) \in Nat
  BY <1>2, <1>3, PlanRevisions, TreeRevisions DEF Rev, TreeFiles
<1>5. ~Stuck
  BY <1>4 DEF Stuck
<1>6. BasesStand /\ TreeIsExplained /\ PendingAreRecent
  BY <1>5 DEF TreeIsAccountedFor
<1>7. Rev(tree) <= Rev(tree')
  BY <1>4, <1>6 DEF PendingAreRecent
<1>8. JournalsDiffer'
  BY <1>1, <1>2, <1>4 DEF JournalsDiffer
<1>9. CompletedAreSuccessive'
  <2>1. \A e \in Completed : Rev(e.tree) < Rev(tree')
    BY <1>4, <1>7, StatusSets, PlanRevisions DEF CompletedAreSuccessive, IInv
  <2> QED BY <1>1, <2>1 DEF CompletedAreSuccessive
<1>10. BasesStand'
  BY <1>1, <1>6 DEF BasesStand, Alike
<1>11. PendingAreRecent'
  BY <1>1, <1>4 DEF PendingAreRecent
<1>12. TreeIsExplained'
  BY <1>1, <1>3, <1>6 DEF TreeIsExplained
<1> QED BY <1>1, <1>4, <1>8, <1>9, <1>10, <1>11, <1>12 DEF TreeIsAccountedFor

(* or one is taken back, and what was made for its result is stuck.        *)
LEMMA StateIsRestored ==
    ASSUME IInv, Alone, NEW d \in Pending, tree[StateFile] = After(d, StateFile),
           Put(StateFile, Before(d, StateFile)), journal' = journal, edited' = edited
    PROVE  /\ JournalsDiffer' /\ CompletedAreSuccessive' /\ TreeIsAccountedFor'
           /\ Pending' = Pending /\ Completed' = Completed
<1> USE DEF Alone
<1>1. /\ Pending' = Pending /\ Live' = Live /\ Completed' = Completed
      /\ DOMAIN journal' = DOMAIN journal
  BY DEF Pending, Live, Completed, Interrupted
<1>2. Planned(d) /\ d \in DOMAIN journal /\ d \in Live /\ d \notin Completed
  BY StatusSets DEF IInv
<1>3. \A g \in TreeFiles : tree'[g] = IF g = StateFile THEN Before(d, StateFile) ELSE tree[g]
  BY DEF Put, IInv, GoodTree
<1>4. /\ Rev(tree') = Rev(d.tree) /\ Rev(tree) = Rev(d.tree) + 1
      /\ Rev(d.tree) \in Nat /\ Rev(Tree0) \in Nat /\ Rev(Tree0) <= Rev(d.tree)
  BY <1>2, <1>3, PlanRevisions, TreeRevisions DEF Rev, TreeFiles, JournalsDiffer
<1>5. \A e \in Live : Rev(e.tree) \in Nat /\ (Rev(e.tree) = Rev(d.tree) => e = d)
  BY <1>2, StatusSets, PlanRevisions DEF IInv, JournalsDiffer
<1>6. JournalsDiffer'
  BY <1>1, <1>4 DEF JournalsDiffer
<1>7. CompletedAreSuccessive'
  <2>1. ASSUME NEW e \in Completed
        PROVE  Rev(e.tree) < Rev(tree')
    <3>1. Rev(e.tree) < Rev(tree)
      BY DEF CompletedAreSuccessive
    <3>2. Rev(e.tree) \in Nat /\ Rev(e.tree) # Rev(d.tree)
      BY <1>2, <1>5, StatusSets
    <3> QED BY <1>4, <3>1, <3>2
  <2> QED BY <1>1, <2>1 DEF CompletedAreSuccessive
<1>8. TreeIsAccountedFor'
  <2>1. CASE \E e \in Pending : Rev(tree') < Rev(e.tree)
    BY <1>1, <2>1 DEF TreeIsAccountedFor, Stuck
  <2>2. CASE ~\E e \in Pending : Rev(tree') < Rev(e.tree)
    <3>1. \A e \in Pending : ~(Rev(tree) < Rev(e.tree))
      BY <1>4, <1>5, <2>2, StatusSets
    <3>2. BasesStand /\ TreeIsExplained /\ PendingAreRecent
      BY <3>1 DEF TreeIsAccountedFor, Stuck
    <3>3. BasesStand'
      BY <1>1, <3>2 DEF BasesStand, Alike
    <3>4. PendingAreRecent'
      <4>1. ASSUME NEW e \in Pending
            PROVE  Rev(e.tree) \in {Rev(tree'), Rev(tree') - 1}
        <5>1. Rev(e.tree) \in {Rev(tree), Rev(tree) - 1} /\ ~(Rev(tree') < Rev(e.tree))
          BY <2>2, <3>2 DEF PendingAreRecent
        <5> QED BY <1>4, <5>1
      <4> QED BY <1>1, <4>1 DEF PendingAreRecent
    <3>5. TreeIsExplained'
      BY <1>1, <1>3, <3>2 DEF TreeIsExplained
    <3> QED BY <3>3, <3>4, <3>5 DEF TreeIsAccountedFor
  <2> QED BY <2>1, <2>2
<1> QED BY <1>1, <1>6, <1>7, <1>8

(* What somebody else edits is no longer looked at.                        *)
LEMMA EditKeepsAlone ==
    ASSUME IInv, Alone, NEW f \in Files, Edit(f)
    PROVE  Alone'
<1> USE DEF Alone
<1>1. /\ journal' = journal /\ client' = client /\ edited' = edited \cup {f}
      /\ \A g \in TreeFiles \ {f} : tree'[g] = tree[g]
      /\ tree'[StateFile] = tree[StateFile]
  BY FilesApart DEF Edit, IInv, GoodTree, TreeFiles
<1>2. /\ Pending' = Pending /\ Live' = Live /\ Completed' = Completed
      /\ Rev(tree') = Rev(tree)
  BY <1>1 DEF Pending, Live, Completed, Interrupted, Rev
<1>3. \A t, u : Alike(t, u) => \A g \in TreeFiles \ edited' : t[g] = u[g]
  BY <1>1 DEF Alike
<1>4. JournalsDiffer' /\ CompletedAreSuccessive' /\ OneAtWork'
  BY <1>1, <1>2 DEF JournalsDiffer, CompletedAreSuccessive, OneAtWork
<1>5. BasesStand => BasesStand'
  BY <1>1, <1>2, <1>3 DEF BasesStand, Alike
<1>6. Stuck => Stuck'
  BY <1>2 DEF Stuck
<1>7. PendingAreRecent => PendingAreRecent'
  BY <1>2 DEF PendingAreRecent
<1>8. TreeIsExplained => TreeIsExplained'
  <2>1. CASE Pending = {}
    <3>1. WholeVersions' = WholeVersions
      BY <1>2 DEF WholeVersions
    <3> QED BY <1>1, <1>2, <2>1, <3>1 DEF TreeIsExplained, Alike
  <2>2. CASE Pending # {}
    BY <1>1, <1>2, <2>2 DEF TreeIsExplained
  <2> QED BY <2>1, <2>2
<1>9. ASSUME NEW c \in Clients
      PROVE  WorkIsAlone(c)'
  <2>1. WorkIsAlone(c)
    OBVIOUS
  <2>2. \A t : Alike(tree, t) => \A g \in TreeFiles \ edited' : tree'[g] = t[g]
    BY <1>1 DEF Alike
  <2>3. \A d : \A g \in Touched(d) \ edited' : g \notin edited /\ tree'[g] = tree[g]
    BY <1>1, TouchedAreFiles
  <2>4. ASSUME client[c].pc = "mark-undo"
        PROVE  \A g \in Touched(client[c].of) \ edited' :
                 tree'[g] \in {Before(client[c].of, g), After(client[c].of, g)}
    BY <2>1, <2>3, <2>4 DEF WorkIsAlone
  <2> QED BY <1>1, <1>2, <2>1, <2>2, <2>4 DEF WorkIsAlone, Alike
<1> QED BY <1>4, <1>5, <1>6, <1>7, <1>8, <1>9 DEF TreeIsAccountedFor

-----------------------------------------------------------------------------
(* The steps of a process that is at work alone.                           *)

(* What a process turns to, apart from the tree and the journals.          *)
LEMMA TurnsTo ==
    ASSUME IInv, Alone, NEW c \in Clients, \A o \in Clients \ {c} : client[o] = Idle,
           client' = [client EXCEPT ![c] = client'[c]],
           UNCHANGED <<tree, journal, edited>>, WorkIsAlone(c)'
    PROVE  Alone'
<1>1. /\ Pending' = Pending /\ Live' = Live /\ Completed' = Completed
      /\ DOMAIN journal' = DOMAIN journal
  BY DEF Pending, Live, Completed, Interrupted
<1>2. JournalsDiffer' /\ CompletedAreSuccessive' /\ TreeIsAccountedFor'
  BY <1>1, NothingMoves
<1> QED BY <1>2, AloneByOne

LEMMA StartAlone ==
    ASSUME IInv, Alone, NEW c \in Clients, NEW r \in Releases, Start(c, r), ~overlap'
    PROVE  Alone'
<1>1. \A o \in Clients \ {c} : client[o] = Idle
  BY DEF Start
<1>2. client' = [client EXCEPT ![c] = client'[c]]
  BY DEF IInv, Start
<1>3. PICK d : /\ d = [release |-> r, tree |-> tree, others |-> DOMAIN journal]
               /\ client'[c] = [pc |-> "prepare", of |-> d, stage |-> "preparing", todo |-> {},
                                operator |-> FALSE]
  BY DEF IInv, Start
<1>4. client'[c].pc = "prepare" /\ client'[c].of = d /\ client'[c].todo = {}
  BY <1>3
<1>5. d.tree = tree /\ d.others = DOMAIN journal
  BY <1>3
<1>6. Pending = {} /\ UNCHANGED <<tree, journal, edited>>
  BY DEF Start, Pending
<1>7. Pending' = {} /\ DOMAIN journal' = DOMAIN journal
  BY <1>6 DEF Pending, Interrupted
<1>8. WorkIsAlone(c)'
  BY <1>4, <1>5, <1>6, <1>7 DEF WorkIsAlone, Alike
<1> QED BY <1>1, <1>2, <1>6, <1>8, TurnsTo

LEMMA PreparingAlone ==
    ASSUME IInv, Alone, NEW c \in Clients, WritePreparing(c)
    PROVE  /\ Alone'
           /\ Pending = {} /\ Pending' = {client[c].of} /\ Completed' = Completed
<1> DEFINE d == client[c].of
<1>1. client[c].pc = "prepare" /\ SetStatus(d, "preparing") /\ UNCHANGED <<tree, edited>>
  BY DEF WritePreparing, history
<1>2. \A o \in Clients \ {c} : client[o] = Idle
  BY <1>1, OthersIdle DEF Alone
<1>3. Planned(d) /\ Pending = {} /\ d.others = DOMAIN journal /\ Alike(tree, d.tree)
  BY <1>1, AtWork DEF Alone, WorkIsAlone
<1> HIDE DEF d
<1>4. /\ JournalsDiffer' /\ CompletedAreSuccessive' /\ TreeIsAccountedFor'
      /\ Pending' = {d} /\ Completed' = Completed /\ Rev(d.tree) = Rev(tree)
  BY <1>1, <1>3, NewJournal
<1>5. client' = [client EXCEPT ![c] = client'[c]]
  BY DEF IInv, WritePreparing, Goto
<1>6. client'[c].pc = "backup" /\ client'[c].of = d
  BY <1>1, AtWork DEF IInv, WritePreparing, Goto, d
<1>7. Rev(tree) \in Nat /\ Rev(tree') = Rev(tree)
  BY <1>1, TreeRevisions DEF Rev
<1>8. WorkIsAlone(c)'
  BY <1>4, <1>6, <1>7 DEF WorkIsAlone
<1> QED BY <1>2, <1>3, <1>4, <1>5, <1>8, AloneByOne DEF d

(* A deploying process goes on with its deployment.                        *)
Deploying == {"backup", "mark", "write", "verify", "commit", "confirm", "complete", "undo"}

LEMMA DeployingAlone ==
    ASSUME IInv, Alone, NEW c \in Clients, client[c].pc \in Deploying
    PROVE  /\ Pending = {client[c].of} /\ Rev(client[c].of.tree) <= Rev(tree)
           /\ Planned(client[c].of) /\ client[c].of \in DOMAIN journal
           /\ \A o \in Clients \ {c} : client[o] = Idle
<1>1. client[c].pc \notin {"idle", "prepare"}
  BY DEF Deploying
<1>2. Planned(client[c].of) /\ client[c].of \in DOMAIN journal
  BY <1>1, AtWork
<1>3. WorkIsAlone(c)
  BY DEF Alone
<1> QED BY <1>1, <1>2, <1>3, OthersIdle DEF Alone, WorkIsAlone, Deploying

LEMMA GoesOn ==
    ASSUME IInv, Alone, NEW c \in Clients, client[c].pc \in Deploying,
           client' = [client EXCEPT ![c] = client'[c]],
           client'[c].of = client[c].of,
           client'[c].pc \in Deploying,
           client'[c].pc = "mark" => client'[c].stage \notin {"completed", "rolled-back"},
           client'[c].pc = "complete" =>
             Alike(tree, PostTree(client[c].of.release, client[c].of.tree)),
           UNCHANGED <<tree, journal, edited>>
    PROVE  Alone'
<1>1. Pending' = Pending
  BY DEF Pending, Interrupted
<1>2. WorkIsAlone(c)'
  BY <1>1, DeployingAlone DEF WorkIsAlone, Deploying, Alike
<1> QED BY <1>2, DeployingAlone, TurnsTo

LEMMA BackUpAlone ==
    ASSUME IInv, Alone, NEW c \in Clients, BackUp(c) PROVE Alone'
<1>1. client[c].pc = "backup" /\ client[c].pc \in Deploying
  BY DEF BackUp, Deploying
<1>2. /\ client' = [client EXCEPT ![c] = client'[c]]
      /\ client'[c].of = client[c].of /\ client'[c].pc = "mark"
      /\ client'[c].stage = "backed-up"
  <2>1. client[c] = [pc |-> client[c].pc, of |-> client[c].of, stage |-> client[c].stage,
                     todo |-> client[c].todo, operator |-> client[c].operator]
    BY <1>1, AtWork
  <2>2. client' = [client EXCEPT ![c].pc = "mark", ![c].stage = "backed-up"]
    BY DEF BackUp
  <2>3. client'[c] = [client[c] EXCEPT !.pc = "mark", !.stage = "backed-up"]
    BY <2>2 DEF IInv
  <2>4. client'[c] = [pc |-> "mark", of |-> client[c].of, stage |-> "backed-up",
                      todo |-> client[c].todo, operator |-> client[c].operator]
    BY ONLY <2>1, <2>3, RecordChanges
  <2>5. client' = [client EXCEPT ![c] = client'[c]]
    BY <2>2 DEF IInv
  <2> QED BY <2>4, <2>5
<1>3. "mark" \in Deploying /\ UNCHANGED <<tree, journal, edited>>
  BY DEF BackUp, Deploying, history
<1> QED BY <1>1, <1>2, <1>3, GoesOn

LEMMA EnterStageAlone ==
    ASSUME IInv, Alone, NEW c \in Clients,
           NEW stage \in {"applying", "migrating", "rebuilding", "verifying"},
           EnterStage(c, stage)
    PROVE  Alone'
<1>1. client[c].pc = "write" /\ client[c].pc \in Deploying
  BY DEF EnterStage, Deploying
<1>2. /\ client' = [client EXCEPT ![c] = client'[c]]
      /\ client'[c].of = client[c].of /\ client'[c].pc = "mark"
      /\ client'[c].stage = stage
  <2>1. client[c] = [pc |-> client[c].pc, of |-> client[c].of, stage |-> client[c].stage,
                     todo |-> client[c].todo, operator |-> client[c].operator]
    BY <1>1, AtWork
  <2>2. client' = [client EXCEPT ![c].pc = "mark", ![c].stage = stage]
    BY DEF EnterStage
  <2>3. client'[c] = [client[c] EXCEPT !.pc = "mark", !.stage = stage]
    BY <2>2 DEF IInv
  <2>4. client'[c] = [pc |-> "mark", of |-> client[c].of, stage |-> stage,
                      todo |-> client[c].todo, operator |-> client[c].operator]
    BY ONLY <2>1, <2>3, RecordChanges
  <2>5. client' = [client EXCEPT ![c] = client'[c]]
    BY <2>2 DEF IInv
  <2> QED BY <2>4, <2>5
<1>3. "mark" \in Deploying /\ UNCHANGED <<tree, journal, edited>>
  BY DEF EnterStage, Deploying, history
<1> QED BY <1>1, <1>2, <1>3, GoesOn

(* A step that only moves on to another pc.                                *)
LEMMA GotoAlone ==
    ASSUME IInv, Alone, NEW c \in Clients, client[c].pc \in Deploying,
           NEW pc \in Deploying \ {"mark"}, Goto(c, pc),
           pc = "complete" => Alike(tree, PostTree(client[c].of.release, client[c].of.tree)),
           UNCHANGED <<tree, journal, edited>>
    PROVE  Alone'
<1>1. client[c].pc # "idle"
  BY DEF Deploying
<1>2. client[c] = [pc |-> client[c].pc, of |-> client[c].of, stage |-> client[c].stage,
                   todo |-> client[c].todo, operator |-> client[c].operator]
  BY <1>1, AtWork
<1>3. client' = [client EXCEPT ![c] = client'[c]] /\ client'[c] = [client[c] EXCEPT !.pc = pc]
  BY DEF IInv, Goto
<1>4. client'[c].of = client[c].of /\ client'[c].pc = pc
  BY <1>2, <1>3
<1> QED BY <1>3, <1>4, GoesOn

(* A file that was found as it is to be, or is not touched at all.         *)
LEMMA ConfirmAlone ==
    ASSUME IInv, Alone, NEW c \in Clients, Confirm(c) PROVE Alone'
<1> DEFINE d == client[c].of
<1>1. client[c].pc \in Deploying /\ Goto(c, "complete") /\ UNCHANGED <<tree, journal, edited>>
  BY DEF Confirm, Deploying, history
<1>2. /\ Pending = {d} /\ Planned(d) /\ Rev(d.tree) <= Rev(tree)
      /\ Rev(d.tree) \in Nat /\ Rev(tree) \in Nat
  BY <1>1, DeployingAlone, PlanRevisions, TreeRevisions
<1>3. TreeIsExplained
  <2>1. ~Stuck
    BY <1>2 DEF Stuck
  <2> QED BY <2>1 DEF Alone, TreeIsAccountedFor
<1>4. ASSUME NEW f \in TreeFiles \ edited
      PROVE  tree[f] = After(d, f)
  <2>1. CASE f \in Touched(d)
    BY <2>1 DEF Confirm, Replaced
  <2>2. CASE f \notin Touched(d)
    <3>1. tree[f] \in {Before(d, f), After(d, f)}
      BY <1>2, <1>3 DEF TreeIsExplained
    <3> QED BY <1>2, <2>2, <3>1, UntouchedStays
  <2> QED BY <2>1, <2>2
<1>5. Alike(tree, PostTree(d.release, d.tree))
  BY <1>4 DEF Alike, After
<1> QED BY <1>1, <1>5, GotoAlone DEF Deploying

(* Statuses of interrupted deployments.                                    *)
LEMMA StatusAmongPending ==
    ASSUME NEW d \in Pending, NEW status, status \notin {"completed", "rolled-back"},
           SetStatus(d, status)
    PROVE  /\ Pending' = Pending /\ Live' = Live /\ Completed' = Completed
           /\ DOMAIN journal' = DOMAIN journal
<1>1. /\ DOMAIN journal' = DOMAIN journal \cup {d} /\ Pending' = Pending \cup {d}
      /\ Live' = Live \cup {d} /\ Completed' = Completed \ {d}
  BY StatusMoves
<1>2. d \in DOMAIN journal /\ d \in Live /\ d \notin Completed
  BY StatusSets
<1> QED BY ONLY <1>1, <1>2, d \in Pending

LEMMA MarkStageAlone ==
    ASSUME IInv, Alone, NEW c \in Clients, MarkStage(c)
    PROVE  /\ Alone' /\ Pending' = Pending /\ Completed' = Completed /\ Pending # {}
<1> DEFINE d == client[c].of
           stage == client[c].stage
           pc == IF stage = "verifying" THEN "verify" ELSE "write"
<1>1. client[c].pc \in Deploying /\ client[c].pc = "mark"
  BY DEF MarkStage, Deploying
<1>2. /\ Pending = {d} /\ Rev(d.tree) <= Rev(tree)
      /\ \A o \in Clients \ {c} : client[o] = Idle
  BY <1>1, DeployingAlone
<1>3. stage \notin {"completed", "rolled-back"}
  BY <1>1 DEF Alone, WorkIsAlone
<1>4. /\ Pending' = Pending /\ Live' = Live /\ Completed' = Completed
      /\ DOMAIN journal' = DOMAIN journal
  BY <1>2, <1>3, StatusAmongPending DEF MarkStage
<1>5. tree' = tree /\ edited' = edited
  BY DEF MarkStage, history
<1>6. JournalsDiffer' /\ CompletedAreSuccessive' /\ TreeIsAccountedFor'
  BY <1>4, <1>5, NothingMoves
<1>7. client' = [client EXCEPT ![c] = client'[c]]
  BY DEF IInv, MarkStage
<1>8. client'[c].of = d /\ client'[c].pc = pc
  <2>1. client[c] = [pc |-> client[c].pc, of |-> client[c].of, stage |-> client[c].stage,
                     todo |-> client[c].todo, operator |-> client[c].operator]
    BY <1>1, AtWork
  <2>2. PICK writes : writes = StageWrites(d, stage)
    OBVIOUS
  <2>3. client'[c] = [client[c] EXCEPT !.pc = pc, !.todo = writes]
    BY <2>2 DEF IInv, MarkStage
  <2>4. client'[c] = [pc |-> pc, of |-> client[c].of, stage |-> client[c].stage,
                      todo |-> writes, operator |-> client[c].operator]
    BY ONLY <2>1, <2>3, RecordChanges
  <2> QED BY <2>4
<1>9. WorkIsAlone(c)'
  BY <1>2, <1>4, <1>5, <1>8 DEF WorkIsAlone, Rev
<1> QED BY <1>2, <1>4, <1>6, <1>7, <1>9, AloneByOne

LEMMA WriteFileAlone ==
    ASSUME IInv, Alone, NEW c \in Clients, NEW f \in Files, WriteFile(c, f)
    PROVE  /\ Alone' /\ Pending' = Pending /\ Completed' = Completed /\ Pending # {}
<1> DEFINE d == client[c].of
<1>1. client[c].pc \in Deploying /\ client[c].pc = "write"
  BY DEF WriteFile, Deploying
<1>2. /\ Pending = {d} /\ Rev(d.tree) <= Rev(tree)
      /\ \A o \in Clients \ {c} : client[o] = Idle
  BY <1>1, DeployingAlone
<1>3. Put(f, After(d, f)) /\ journal' = journal /\ edited' = edited
  BY DEF WriteFile, history
<1>4. /\ JournalsDiffer' /\ CompletedAreSuccessive' /\ TreeIsAccountedFor'
      /\ Pending' = Pending /\ Completed' = Completed /\ tree'[StateFile] = tree[StateFile]
  BY <1>2, <1>3, FileIsWritten
<1>5. /\ client' = [client EXCEPT ![c] = client'[c]]
      /\ client'[c].of = d /\ client'[c].pc = "write"
  <2>1. client[c] = [pc |-> client[c].pc, of |-> client[c].of, stage |-> client[c].stage,
                     todo |-> client[c].todo, operator |-> client[c].operator]
    BY <1>1, AtWork
  <2>2. /\ client' = [client EXCEPT ![c] = client'[c]]
        /\ client'[c] = [client[c] EXCEPT !.todo = @ \ {f}]
    BY DEF IInv, WriteFile
  <2> QED BY <1>1, <2>1, <2>2
<1>6. WorkIsAlone(c)'
  BY <1>2, <1>4, <1>5 DEF WorkIsAlone, Rev
<1> QED BY <1>2, <1>4, <1>5, <1>6, AloneByOne

LEMMA CommitAlone ==
    ASSUME IInv, Alone, NEW c \in Clients, CommitState(c)
    PROVE  /\ Alone' /\ Pending' = Pending /\ Completed' = Completed /\ Pending # {}
<1> DEFINE d == client[c].of
<1>1. client[c].pc \in Deploying /\ client[c].pc = "commit"
  BY DEF CommitState, Deploying
<1>2. /\ Pending = {d} /\ Rev(d.tree) <= Rev(tree)
      /\ \A o \in Clients \ {c} : client[o] = Idle
  BY <1>1, DeployingAlone
<1>3. Put(StateFile, After(d, StateFile)) /\ journal' = journal /\ edited' = edited
  BY DEF CommitState, history
<1>4. /\ JournalsDiffer' /\ CompletedAreSuccessive' /\ TreeIsAccountedFor'
      /\ Pending' = Pending /\ Completed' = Completed /\ Rev(d.tree) <= Rev(tree')
  BY <1>2, <1>3, StateIsCommitted
<1>5. /\ client' = [client EXCEPT ![c] = client'[c]]
      /\ client'[c].of = d /\ client'[c].pc = "confirm"
  <2>1. client[c] = [pc |-> client[c].pc, of |-> client[c].of, stage |-> client[c].stage,
                     todo |-> client[c].todo, operator |-> client[c].operator]
    BY <1>1, AtWork
  <2>2. /\ client' = [client EXCEPT ![c] = client'[c]]
        /\ client'[c] = [client[c] EXCEPT !.pc = "confirm"]
    BY DEF IInv, CommitState, Goto
  <2> QED BY <2>1, <2>2
<1>6. WorkIsAlone(c)'
  BY <1>2, <1>4, <1>5 DEF WorkIsAlone
<1> QED BY <1>2, <1>4, <1>5, <1>6, AloneByOne

(* A process that leaves.                                                  *)
LEMMA LeavesAlone ==
    ASSUME IInv, NEW c \in Clients, \A o \in Clients \ {c} : client[o] = Idle,
           client' = [client EXCEPT ![c] = Idle],
           JournalsDiffer', CompletedAreSuccessive', TreeIsAccountedFor'
    PROVE  Alone'
<1>1. client'[c] = Idle
  BY DEF IInv
<1>2. WorkIsAlone(c)'
  BY <1>1 DEF WorkIsAlone, Idle
<1> QED BY <1>1, <1>2, AloneByOne

LEMMA CompleteAlone ==
    ASSUME IInv, Alone, NEW c \in Clients, Complete(c)
    PROVE  /\ Alone' /\ Pending' = {}
           /\ LET d == client[c].of
              IN /\ Pending = {d} /\ Alike(tree, PostTree(d.release, d.tree))
                 /\ Completed' = Completed \cup {d} /\ d \notin Completed
                 /\ Rev(d.tree) = Rev(Tree0) + Cardinality(Completed)
                 /\ Cardinality(Completed') = Cardinality(Completed) + 1
                 /\ Cardinality(Completed) \in Nat
<1> DEFINE d == client[c].of
<1>1. client[c].pc \in Deploying /\ client[c].pc = "complete"
  BY DEF Complete, Deploying
<1>2. /\ Pending = {d} /\ \A o \in Clients \ {c} : client[o] = Idle
  BY <1>1, DeployingAlone
<1>3. Alike(tree, PostTree(d.release, d.tree))
  BY <1>1 DEF Alone, WorkIsAlone
<1>4. /\ SetStatus(d, "completed") /\ tree' = tree /\ edited' = edited
      /\ client' = [client EXCEPT ![c] = Idle]
  BY DEF Complete, history
<1> HIDE DEF d
<1>5. /\ JournalsDiffer' /\ CompletedAreSuccessive' /\ TreeIsAccountedFor'
      /\ Pending' = {} /\ Completed' = Completed \cup {d} /\ d \notin Completed
      /\ Rev(d.tree) = Rev(Tree0) + Cardinality(Completed)
      /\ Cardinality(Completed') = Cardinality(Completed) + 1
      /\ Cardinality(Completed) \in Nat
  BY <1>2, <1>3, <1>4, DeploymentCompletes
<1>6. Alone'
  BY <1>2, <1>4, <1>5, LeavesAlone
<1> QED BY <1>2, <1>3, <1>5, <1>6 DEF d

LEMMA StopAlone ==
    ASSUME IInv, Alone, NEW c \in Clients, Stop(c)
    PROVE  Alone'
<1>1. client[c] # Idle /\ client' = [client EXCEPT ![c] = Idle]
      /\ tree' = tree /\ journal' = journal /\ edited' = edited
  BY DEF Stop, history
<1>2. \A o \in Clients \ {c} : client[o] = Idle
  BY <1>1 DEF Alone, OneAtWork
<1>3. /\ Pending' = Pending /\ Live' = Live /\ Completed' = Completed
      /\ DOMAIN journal' = DOMAIN journal
  BY <1>1 DEF Pending, Live, Completed, Interrupted
<1>4. JournalsDiffer' /\ CompletedAreSuccessive' /\ TreeIsAccountedFor'
  BY <1>1, <1>3, NothingMoves
<1> QED BY <1>1, <1>2, <1>4, LeavesAlone

LEMMA VerifyTreeAlone ==
    ASSUME IInv, Alone, NEW c \in Clients, VerifyTree(c) PROVE Alone'
<1>1. client[c].pc \in Deploying /\ Goto(c, "commit") /\ UNCHANGED <<tree, journal, edited>>
  BY DEF VerifyTree, Deploying, history
<1>2. "commit" \in Deploying \ {"mark"} /\ "commit" # "complete"
  BY DEF Deploying
<1> QED BY <1>1, <1>2, GotoAlone

LEMMA StageFailsAlone ==
    ASSUME IInv, Alone, NEW c \in Clients, StageFails(c) PROVE Alone'
<1>1. client[c].pc \in Deploying /\ Goto(c, "undo") /\ UNCHANGED <<tree, journal, edited>>
  BY DEF StageFails, Deploying, history
<1>2. "undo" \in Deploying \ {"mark"} /\ "undo" # "complete"
  BY DEF Deploying
<1> QED BY <1>1, <1>2, GotoAlone

LEMMA PlanRollbackAlone ==
    ASSUME IInv, Alone, NEW c \in Clients, NEW d \in DOMAIN journal, PlanRollback(c, d),
           ~overlap'
    PROVE  Alone'
<1>1. \A o \in Clients \ {c} : client[o] = Idle
  BY DEF PlanRollback
<1>2. client' = [client EXCEPT ![c] = client'[c]]
  BY DEF IInv, PlanRollback
<1>3. UNCHANGED <<tree, journal, edited>>
  BY DEF PlanRollback
<1>4. PICK todo : todo = {f \in Touched(d) : tree[f] # Before(d, f)}
  OBVIOUS
<1>5. PICK operator : operator = (client[c] = Idle)
  OBVIOUS
<1>6. client'[c] = [pc |-> "mark-undo", of |-> d, stage |-> "rolling-back", todo |-> todo,
                    operator |-> operator]
  BY <1>4, <1>5 DEF IInv, PlanRollback
<1>7. client'[c].pc = "mark-undo" /\ client'[c].of = d /\ client'[c].todo = todo
  BY <1>6
<1>8. Restorable(d)
  BY DEF PlanRollback
<1>9. d \in Live
  BY <1>8 DEF Restorable, Transitions, Live
<1>10. StateFile \in todo => tree[StateFile] = After(d, StateFile)
  BY <1>4, <1>8 DEF Restorable
<1>11. \A f \in Touched(d) \ edited : tree[f] \in {Before(d, f), After(d, f)}
  BY <1>8 DEF Restorable
<1>12. Live' = Live
  BY <1>3 DEF Live
<1>13. WorkIsAlone(c)'
  BY <1>3, <1>7, <1>9, <1>10, <1>11, <1>12 DEF WorkIsAlone
<1> QED BY <1>1, <1>2, <1>3, <1>13, TurnsTo

(* A rollback begins: of an interrupted deployment, or of the last one.    *)
LEMMA MarkRollingBackAlone ==
    ASSUME IInv, Alone, NEW c \in Clients, MarkRollingBack(c)
    PROVE  /\ Alone'
           /\ LET d == client[c].of
              IN \/ d \in Pending /\ Pending' = Pending /\ Completed' = Completed
                 \/ /\ d \in Completed
                    /\ Pending' = Pending \cup {d} /\ Completed' = Completed \ {d}
                    /\ Rev(d.tree) + 1 = Rev(Tree0) + Cardinality(Completed)
                    /\ Cardinality(Completed) \in Nat
                    /\ Cardinality(Completed') = Cardinality(Completed) - 1
<1> DEFINE d == client[c].of
<1>1. PICK status : status = "rolling-back"
  OBVIOUS
<1>2. /\ client[c].pc = "mark-undo" /\ SetStatus(d, status) /\ tree' = tree
      /\ edited' = edited
  BY <1>1 DEF MarkRollingBack, history
<1>3. status \notin {"completed", "rolled-back"}
  BY <1>1
<1>4. \A o \in Clients \ {c} : client[o] = Idle
  BY <1>2, OthersIdle DEF Alone
<1>5. /\ d \in Live
      /\ \A f \in Touched(d) \ edited : tree[f] \in {Before(d, f), After(d, f)}
      /\ StateFile \in client[c].todo => tree[StateFile] = After(d, StateFile)
  BY <1>2 DEF Alone, WorkIsAlone
<1>6. /\ client' = [client EXCEPT ![c] = client'[c]]
      /\ client'[c].pc = "restore" /\ client'[c].of = d /\ client'[c].todo = client[c].todo
  <2>1. client[c] = [pc |-> client[c].pc, of |-> client[c].of, stage |-> client[c].stage,
                     todo |-> client[c].todo, operator |-> client[c].operator]
    BY <1>2, AtWork
  <2>2. /\ client' = [client EXCEPT ![c] = client'[c]]
        /\ client'[c] = [client[c] EXCEPT !.pc = "restore"]
    BY DEF IInv, MarkRollingBack, Goto
  <2> QED BY <2>1, <2>2
<1> HIDE DEF d
<1>7. CASE d \in Pending
  <2>1. /\ Pending' = Pending /\ Live' = Live /\ Completed' = Completed
        /\ DOMAIN journal' = DOMAIN journal
    BY <1>2, <1>3, <1>7, StatusAmongPending
  <2>2. JournalsDiffer' /\ CompletedAreSuccessive' /\ TreeIsAccountedFor'
    BY <1>2, <2>1, NothingMoves
  <2>3. WorkIsAlone(c)'
    BY <1>2, <1>5, <1>6, <1>7, <2>1 DEF WorkIsAlone
  <2> QED BY <1>4, <1>6, <1>7, <2>1, <2>2, <2>3, AloneByOne DEF d
<1>8. CASE d \in Completed
  <2>1. tree[StateFile] \in {Before(d, StateFile), After(d, StateFile)}
    BY <1>5, StatusSets, PlanRevisions, TreeRevisions DEF IInv
  <2>2. /\ JournalsDiffer' /\ CompletedAreSuccessive' /\ TreeIsAccountedFor'
        /\ Pending' = Pending \cup {d} /\ Completed' = Completed \ {d}
        /\ Rev(d.tree) + 1 = Rev(Tree0) + Cardinality(Completed)
        /\ Cardinality(Completed) \in Nat
        /\ Cardinality(Completed') = Cardinality(Completed) - 1
    BY <1>2, <1>3, <1>8, <2>1, LastIsTakenBack
  <2>3. WorkIsAlone(c)'
    BY <1>2, <1>5, <1>6, <2>2 DEF WorkIsAlone
  <2> QED BY <1>4, <1>6, <1>8, <2>2, <2>3, AloneByOne DEF d
<1> QED BY <1>5, <1>7, <1>8, StatusSets

(* A process that restores.                                                *)
LEMMA RestoringAlone ==
    ASSUME IInv, Alone, NEW c \in Clients, client[c].pc = "restore"
    PROVE  /\ client[c].of \in Pending
           /\ StateFile \in client[c].todo => tree[StateFile] = After(client[c].of, StateFile)
           /\ \A o \in Clients \ {c} : client[o] = Idle
  BY OthersIdle DEF Alone, WorkIsAlone

LEMMA RestoreFileAlone ==
    ASSUME IInv, Alone, NEW c \in Clients, NEW f \in TreeFiles, RestoreFile(c, f)
    PROVE  /\ Alone' /\ Pending' = Pending /\ Completed' = Completed /\ Pending # {}
<1> DEFINE d == client[c].of
<1>1. client[c].pc = "restore" /\ f \in client[c].todo /\ Put(f, Before(d, f))
      /\ journal' = journal /\ edited' = edited
  BY DEF RestoreFile, history
<1>2. /\ d \in Pending
      /\ StateFile \in client[c].todo => tree[StateFile] = After(d, StateFile)
      /\ \A o \in Clients \ {c} : client[o] = Idle
  BY <1>1, RestoringAlone
<1>3. /\ client' = [client EXCEPT ![c] = client'[c]]
      /\ client'[c].pc = "restore" /\ client'[c].of = d
      /\ client'[c].todo = client[c].todo \ {f}
  <2>1. client[c] = [pc |-> client[c].pc, of |-> client[c].of, stage |-> client[c].stage,
                     todo |-> client[c].todo, operator |-> client[c].operator]
    BY <1>1, AtWork
  <2>2. /\ client' = [client EXCEPT ![c] = client'[c]]
        /\ client'[c] = [client[c] EXCEPT !.todo = @ \ {f}]
    BY DEF IInv, RestoreFile
  <2> QED BY <1>1, <2>1, <2>2
<1> HIDE DEF d
<1>4. CASE f = StateFile
  <2>1. tree[StateFile] = After(d, StateFile) /\ Put(StateFile, Before(d, StateFile))
    BY <1>1, <1>2, <1>4
  <2>2. /\ JournalsDiffer' /\ CompletedAreSuccessive' /\ TreeIsAccountedFor'
        /\ Pending' = Pending /\ Completed' = Completed
    BY <1>1, <1>2, <2>1, StateIsRestored
  <2>3. WorkIsAlone(c)'
    BY <1>2, <1>3, <1>4, <2>2 DEF WorkIsAlone
  <2> QED BY <1>2, <1>3, <2>2, <2>3, AloneByOne
<1>5. CASE f \in Files
  <2>1. Before(d, f) \in {Before(d, f), After(d, f)}
    OBVIOUS
  <2>2. /\ JournalsDiffer' /\ CompletedAreSuccessive' /\ TreeIsAccountedFor'
        /\ Pending' = Pending /\ Completed' = Completed
        /\ tree'[StateFile] = tree[StateFile]
    BY <1>1, <1>2, <1>5, <2>1, FileIsWritten
  <2>3. WorkIsAlone(c)'
    BY <1>2, <1>3, <2>2 DEF WorkIsAlone
  <2> QED BY <1>2, <1>3, <2>2, <2>3, AloneByOne
<1> QED BY <1>4, <1>5 DEF TreeFiles

LEMMA FinishRollbackAlone ==
    ASSUME IInv, Alone, NEW c \in Clients, FinishRollback(c)
    PROVE  /\ Alone'
           /\ LET d == client[c].of
              IN /\ d \in Pending /\ Pending' = Pending \ {d} /\ Completed' = Completed
                 /\ Rev(d.tree) = Rev(tree) /\ (Pending = {d} => Alike(tree, d.tree))
<1> DEFINE d == client[c].of
<1>1. client[c].pc = "restore" /\ SetStatus(d, "rolled-back") /\ Unchanged(d, Touched(d))
      /\ tree' = tree /\ edited' = edited /\ client' = [client EXCEPT ![c] = Idle]
  BY DEF FinishRollback, history
<1>2. d \in Pending /\ \A o \in Clients \ {c} : client[o] = Idle
  BY <1>1, RestoringAlone
<1> HIDE DEF d
<1>3. /\ JournalsDiffer' /\ CompletedAreSuccessive' /\ TreeIsAccountedFor'
      /\ Pending' = Pending \ {d} /\ Completed' = Completed
      /\ Rev(d.tree) = Rev(tree) /\ (Pending = {d} => Alike(tree, d.tree))
  BY <1>1, <1>2, RollbackEnds
<1> QED BY <1>1, <1>2, <1>3, LeavesAlone DEF d

LEMMA RollbackFailsAlone ==
    ASSUME IInv, Alone, NEW c \in Clients, RollbackFails(c)
    PROVE  /\ Alone' /\ Pending' = Pending /\ Completed' = Completed /\ Pending # {}
<1> DEFINE d == client[c].of
<1>1. PICK status : status = "failed"
  OBVIOUS
<1>2. client[c].pc = "restore" /\ SetStatus(d, status)
      /\ tree' = tree /\ edited' = edited /\ client' = [client EXCEPT ![c] = Idle]
  BY <1>1 DEF RollbackFails, history
<1>3. d \in Pending /\ \A o \in Clients \ {c} : client[o] = Idle
  BY <1>2, RestoringAlone
<1> HIDE DEF d
<1>4. /\ Pending' = Pending /\ Live' = Live /\ Completed' = Completed
      /\ DOMAIN journal' = DOMAIN journal
  BY <1>1, <1>2, <1>3, StatusAmongPending
<1>5. JournalsDiffer' /\ CompletedAreSuccessive' /\ TreeIsAccountedFor'
  BY <1>2, <1>4, NothingMoves
<1> QED BY <1>2, <1>3, <1>4, <1>5, LeavesAlone

(* No journal at first.                                                    *)
LEMMA NothingAtFirst ==
    ASSUME Init
    PROVE  /\ DOMAIN journal = {} /\ Pending = {} /\ Live = {} /\ Completed = {}
           /\ Cardinality(Completed) = 0 /\ tree = Tree0
<1>1. DOMAIN journal = {}
  BY DEF Init
<1>2. Pending = {} /\ Live = {} /\ Completed = {}
  BY <1>1 DEF Pending, Live, Completed
<1> QED BY <1>1, <1>2, FS_EmptySet DEF Init

LEMMA InitAlone == Init => Alone
<1> SUFFICES ASSUME Init PROVE Alone
  OBVIOUS
<1>1. IInv
  BY InitInvariant
<1>2. Rev(Tree0) \in Nat /\ tree = Tree0
  BY <1>1, TreeRevisions, NothingAtFirst
<1>3. \A c \in Clients : client[c] = Idle /\ client[c].pc = "idle"
  BY DEF Init, Idle
<1>4. OneAtWork /\ \A c \in Clients : WorkIsAlone(c)
  BY <1>3 DEF OneAtWork, WorkIsAlone
<1>5. JournalsDiffer
  BY <1>2, NothingAtFirst DEF JournalsDiffer
<1>6. CompletedAreSuccessive
  BY <1>2, NothingAtFirst, FS_EmptySet DEF CompletedAreSuccessive
<1>7. TreeIsExplained
  BY <1>2, NothingAtFirst DEF TreeIsExplained, WholeVersions, Alike
<1>8. BasesStand /\ PendingAreRecent
  BY NothingAtFirst DEF BasesStand, PendingAreRecent
<1> QED BY <1>4, <1>5, <1>6, <1>7, <1>8 DEF Alone, TreeIsAccountedFor

LEMMA NextAlone == IInv /\ SInv /\ [Next]_vars => SInv'
<1> SUFFICES ASSUME IInv, SInv, [Next]_vars, ~overlap' PROVE Alone'
  BY DEF SInv
<1>1. CASE UNCHANGED vars
  BY <1>1 DEF vars, history, SInv, Alone, OneAtWork, JournalsDiffer, CompletedAreSuccessive,
              TreeIsAccountedFor, Stuck, BasesStand, TreeIsExplained, PendingAreRecent,
              WorkIsAlone, Alike, Pending, Live, Completed, WholeVersions, Interrupted
<1>2. CASE \E f \in Files : Edit(f)
  <2>1. Alone
    BY <1>2 DEF Edit, SInv
  <2> QED BY <1>2, <2>1, EditKeepsAlone
<1>3. ASSUME NEW c \in Clients, Deploys(c)
      PROVE  Alone'
  <2>1. CASE \E r \in Releases : Start(c, r)
    <3>1. PICK r \in Releases : Start(c, r)
      BY <2>1
    <3>2. Alone
      BY <3>1 DEF Start, SInv
    <3> QED BY <3>1, <3>2, StartAlone
  <2>2. CASE WritePreparing(c)
    <3>1. Alone
      BY <2>2 DEF WritePreparing, history, SInv
    <3> QED BY <2>2, <3>1, PreparingAlone
  <2>3. CASE BackUp(c)
    <3>1. Alone
      BY <2>3 DEF BackUp, history, SInv
    <3> QED BY <2>3, <3>1, BackUpAlone
  <2>4. CASE \E stage \in {"applying", "migrating", "rebuilding", "verifying"} :
               EnterStage(c, stage)
    <3>1. PICK stage \in {"applying", "migrating", "rebuilding", "verifying"} :
            EnterStage(c, stage)
      BY <2>4
    <3>2. Alone
      BY <3>1 DEF EnterStage, history, SInv
    <3> QED BY <3>1, <3>2, EnterStageAlone
  <2>5. CASE MarkStage(c)
    <3>1. Alone
      BY <2>5 DEF MarkStage, history, SInv
    <3> QED BY <2>5, <3>1, MarkStageAlone
  <2>6. CASE \E f \in Files : WriteFile(c, f)
    <3>1. PICK f \in Files : WriteFile(c, f)
      BY <2>6
    <3>2. Alone
      BY <3>1 DEF WriteFile, history, SInv
    <3> QED BY <3>1, <3>2, WriteFileAlone
  <2>7. CASE VerifyTree(c)
    <3>1. Alone
      BY <2>7 DEF VerifyTree, history, SInv
    <3> QED BY <2>7, <3>1, VerifyTreeAlone
  <2>8. CASE CommitState(c)
    <3>1. Alone
      BY <2>8 DEF CommitState, history, SInv
    <3> QED BY <2>8, <3>1, CommitAlone
  <2>9. CASE Confirm(c)
    <3>1. Alone
      BY <2>9 DEF Confirm, history, SInv
    <3> QED BY <2>9, <3>1, ConfirmAlone
  <2>10. CASE Complete(c)
    <3>1. Alone
      BY <2>10 DEF Complete, history, SInv
    <3> QED BY <2>10, <3>1, CompleteAlone
  <2>11. CASE StageFails(c)
    <3>1. Alone
      BY <2>11 DEF StageFails, history, SInv
    <3> QED BY <2>11, <3>1, StageFailsAlone
  <2> QED BY <1>3, <2>1, <2>2, <2>3, <2>4, <2>5, <2>6, <2>7, <2>8, <2>9, <2>10, <2>11
          DEF Deploys
<1>4. ASSUME NEW c \in Clients, RollsBack(c)
      PROVE  Alone'
  <2>1. CASE \E d \in DOMAIN journal : PlanRollback(c, d)
    <3>1. PICK d \in DOMAIN journal : PlanRollback(c, d)
      BY <2>1
    <3>2. Alone
      BY <3>1 DEF PlanRollback, SInv
    <3> QED BY <3>1, <3>2, PlanRollbackAlone
  <2>2. CASE MarkRollingBack(c)
    <3>1. Alone
      BY <2>2 DEF MarkRollingBack, history, SInv
    <3> QED BY <2>2, <3>1, MarkRollingBackAlone
  <2>3. CASE \E f \in Files \cup {StateFile} : RestoreFile(c, f)
    <3>1. PICK f \in TreeFiles : RestoreFile(c, f)
      BY <2>3 DEF TreeFiles
    <3>2. Alone
      BY <3>1 DEF RestoreFile, history, SInv
    <3> QED BY <3>1, <3>2, RestoreFileAlone
  <2>4. CASE FinishRollback(c)
    <3>1. Alone
      BY <2>4 DEF FinishRollback, history, SInv
    <3> QED BY <2>4, <3>1, FinishRollbackAlone
  <2>5. CASE RollbackFails(c)
    <3>1. Alone
      BY <2>5 DEF RollbackFails, history, SInv
    <3> QED BY <2>5, <3>1, RollbackFailsAlone
  <2> QED BY <1>4, <2>1, <2>2, <2>3, <2>4, <2>5 DEF RollsBack
<1>5. ASSUME NEW c \in Clients, Stop(c)
      PROVE  Alone'
  <2>1. Alone
    BY <1>5 DEF Stop, history, SInv
  <2> QED BY <1>5, <2>1, StopAlone
<1> QED BY <1>1, <1>2, <1>3, <1>4, <1>5 DEF Next

(* Deployments and rollbacks one after the other, with crashes and edits   *)
(* anywhere: the tree lies between what interrupted deployments started    *)
(* from and what they were to leave, or a deployment is stuck and nothing  *)
(* starts any more.                                                        *)
THEOREM OneAfterTheOther == Spec => []SInv
<1>1. Init => SInv
  BY InitAlone DEF SInv
<1> QED BY <1>1, DeploymentInvariant, NextAlone, PTL DEF Spec

(* When no process is at work and no deployment is interrupted the tree is *)
(* one whole version.                                                      *)
THEOREM SettledTreesAreWhole == Spec => []SettledTreeIsWhole
<1>1. SInv => SettledTreeIsWhole
  <2> SUFFICES ASSUME SInv, Settled, ~overlap
               PROVE  \E version \in WholeVersions :
                        \A f \in (Files \cup {StateFile}) \ edited : tree[f] = version[f]
    BY DEF SettledTreeIsWhole
  <2>1. Pending = {}
    BY DEF Settled, Pending
  <2>2. TreeIsExplained
    BY <2>1 DEF SInv, Alone, TreeIsAccountedFor, Stuck
  <2> QED BY <2>1, <2>2 DEF TreeIsExplained, Alike, TreeFiles
<1> QED BY <1>1, OneAfterTheOther, PTL

-----------------------------------------------------------------------------
(* The promise of AtomicRelease is kept.                                   *)

(* What the installed versions are, as long as deployments are alone.      *)
VersionsAre ==
    LET N == Cardinality(Completed) + 1
    IN /\ Cardinality(Completed) \in Nat
       /\ InstalledVersions = [n \in 1..N |-> InstalledVersions[n]]
       /\ InstalledVersions[1] = {Tree0}
       /\ \A n \in 2..N : \E d \in Completed :
            /\ Rev(d.tree) = Rev(Tree0) + n - 2
            /\ InstalledVersions[n] = {PostTree(d.release, d.tree)}
       /\ \A d, e \in Completed : Rev(d.tree) = Rev(e.tree) => d = e

LEMMA VersionsByRevision == IInv /\ Alone => VersionsAre
<1> HAVE IInv /\ Alone
<1> DEFINE N == Cardinality(Completed) + 1
<1>1. Cardinality(Completed) \in Nat
  BY FS_Subset, FS_CardinalityType, StatusSets DEF Alone, CompletedAreSuccessive
<1>2. Rev(Tree0) \in Nat
  BY TreeRevisions
<1>3. \A d, e \in Completed : Rev(d.tree) = Rev(e.tree) => d = e
  BY StatusSets DEF Alone, JournalsDiffer
<1>4. /\ InstalledVersions = [n \in 1..N |-> InstalledVersions[n]]
      /\ InstalledVersions[1] = {Tree0}
  BY <1>1 DEF InstalledVersions
<1>5. ASSUME NEW n \in 2..N
      PROVE  \E d \in Completed : /\ Rev(d.tree) = Rev(Tree0) + n - 2
                                  /\ InstalledVersions[n] = {PostTree(d.release, d.tree)}
  <2>1. Rev(Tree0) + n - 2 \in Nat /\ Rev(Tree0) <= Rev(Tree0) + n - 2
        /\ Rev(Tree0) + n - 2 < Rev(Tree0) + Cardinality(Completed)
    BY <1>1, <1>2
  <2>2. \E d \in Completed : Rev(d.tree) = Rev(Tree0) + n - 2
    BY <2>1 DEF Alone, CompletedAreSuccessive
  <2>3. PICK revision : revision = Rev(Tree0) + n - 2
    OBVIOUS
  <2>4. CompletedAt(revision) \in Completed /\ Rev(CompletedAt(revision).tree) = revision
    BY <2>2, <2>3 DEF CompletedAt, Rev
  <2>5. InstalledVersions[n] = {PostTree(CompletedAt(revision).release,
                                         CompletedAt(revision).tree)}
    <3>1. n \in 1..N /\ n # 1
      BY <1>1
    <3>2. revision = Tree0[StateFile].revision + n - 2
      BY <2>3 DEF Rev
    <3> QED BY <3>1, <3>2 DEF InstalledVersions
  <2> QED BY <2>3, <2>4, <2>5
<1>6. \A n \in 2..N : \E d \in Completed :
        /\ Rev(d.tree) = Rev(Tree0) + n - 2
        /\ InstalledVersions[n] = {PostTree(d.release, d.tree)}
  BY <1>5
<1>7. VersionsAre
  BY ONLY <1>1, <1>3, <1>4, <1>6, Zenon DEF VersionsAre
<1> QED BY <1>7

LEMMA AsSequence ==
    ASSUME NEW n \in Nat, NEW s, s = [i \in 1..n |-> s[i]], NEW S, \A i \in 1..n : s[i] \in S
    PROVE  s \in Seq(S) /\ Len(s) = n
  OBVIOUS

(* The sequence of versions of a subset of the same completed deployments. *)
LEMMA SameVersions ==
    ASSUME VersionsAre, VersionsAre', Rev(Tree0) \in Nat,
           NEW n \in Nat, 1 <= n,
           n <= Cardinality(Completed) + 1, n <= Cardinality(Completed') + 1,
           Completed \subseteq Completed' \/ Completed' \subseteq Completed
    PROVE  InstalledVersions'[n] = InstalledVersions[n]
<1>1. CASE n = 1
  BY <1>1 DEF VersionsAre
<1>2. CASE n # 1
  <2>1. n \in 2..(Cardinality(Completed) + 1) /\ n \in 2..(Cardinality(Completed') + 1)
    BY <1>2 DEF VersionsAre
  <2>2. PICK d \in Completed : /\ Rev(d.tree) = Rev(Tree0) + n - 2
                               /\ InstalledVersions[n] = {PostTree(d.release, d.tree)}
    BY <2>1 DEF VersionsAre
  <2>3. PICK e \in Completed' : /\ Rev(e.tree) = Rev(Tree0) + n - 2
                                /\ InstalledVersions'[n] = {PostTree(e.release, e.tree)}
    BY <2>1 DEF VersionsAre, Rev
  <2>4. d = e
    BY <2>2, <2>3 DEF VersionsAre, Rev
  <2> QED BY <2>2, <2>3, <2>4
<1> QED BY <1>1, <1>2

LEMMA TreesAgree ==
    ASSUME edited = {}, NEW t, NEW u, Alike(t, u),
           t = [f \in TreeFiles |-> t[f]], u = [f \in TreeFiles |-> u[f]]
    PROVE  t = u
  BY DEF Alike

LEMMA Seen ==
    /\ Pending = {} => SeenTree = {tree}
    /\ Pending # {} => SeenTree = {}
  BY DEF SeenTree, Pending

LEMMA SeenNext ==
    /\ Pending' = {} => SeenTree' = {tree'}
    /\ Pending' # {} => SeenTree' = {}
  BY DEF SeenTree, Pending, Interrupted

(* The same deployments are completed.                                     *)
LEMMA NoOtherVersions ==
    ASSUME VersionsAre, VersionsAre', Rev(Tree0) \in Nat, Completed' = Completed
    PROVE  InstalledVersions' = InstalledVersions
<1> DEFINE N == Cardinality(Completed) + 1
<1>1. /\ InstalledVersions = [n \in 1..N |-> InstalledVersions[n]]
      /\ InstalledVersions' = [n \in 1..N |-> InstalledVersions'[n]]
      /\ N \in Nat
  BY DEF VersionsAre
<1>2. \A n \in 1..N : InstalledVersions'[n] = InstalledVersions[n]
  BY SameVersions, <1>1
<1> QED BY <1>1, <1>2

(* One more deployment is completed.                                       *)
LEMMA OneMoreVersion ==
    ASSUME VersionsAre, VersionsAre', Rev(Tree0) \in Nat, NEW d,
           Completed' = Completed \cup {d},
           Rev(d.tree) = Rev(Tree0) + Cardinality(Completed),
           Cardinality(Completed') = Cardinality(Completed) + 1
    PROVE  InstalledVersions' =
             Append(InstalledVersions, {PostTree(d.release, d.tree)})
<1> DEFINE N == Cardinality(Completed) + 1
           last == {PostTree(d.release, d.tree)}
<1>1. /\ InstalledVersions = [n \in 1..N |-> InstalledVersions[n]]
      /\ InstalledVersions' = [n \in 1..(N + 1) |-> InstalledVersions'[n]]
      /\ N \in Nat
  BY DEF VersionsAre
<1>2. \A n \in 1..N : InstalledVersions'[n] = InstalledVersions[n]
  <2>1. ASSUME NEW n \in 1..N
        PROVE  InstalledVersions'[n] = InstalledVersions[n]
    <3>1. /\ n \in Nat /\ 1 <= n /\ n <= Cardinality(Completed) + 1
          /\ n <= Cardinality(Completed') + 1 /\ Completed \subseteq Completed'
      <4>1. Cardinality(Completed) \in Nat
        BY DEF VersionsAre
      <4> QED BY <4>1
    <3> QED BY <3>1, SameVersions
  <2> QED BY <2>1
<1>3. InstalledVersions'[N + 1] = last
  <2>1. N + 1 \in 2..(Cardinality(Completed') + 1) /\ Cardinality(Completed) \in Nat
    <3>1. Cardinality(Completed) \in Nat
      BY DEF VersionsAre
    <3> QED BY <3>1
  <2>2. PICK e \in Completed' : /\ Rev(e.tree) = Rev(Tree0) + (N + 1) - 2
                                /\ InstalledVersions'[N + 1] = {PostTree(e.release, e.tree)}
    BY <2>1 DEF VersionsAre, Rev
  <2>3. Rev(e.tree) = Rev(d.tree)
    BY <2>1, <2>2
  <2>4. e = d
    BY <2>2, <2>3 DEF VersionsAre, Rev
  <2> QED BY <2>2, <2>4
<1> DEFINE S == {InstalledVersions[n] : n \in 1..N} \cup {last}
<1>4. InstalledVersions \in Seq(S) /\ Len(InstalledVersions) = N
  <2>1. \A n \in 1..N : InstalledVersions[n] \in S
    OBVIOUS
  <2> HIDE DEF S, N
  <2> QED BY <1>1, <2>1, AsSequence
<1>5. InstalledVersions' \in Seq(S) /\ Len(InstalledVersions') = N + 1
  <2>1. \A n \in 1..(N + 1) : InstalledVersions'[n] \in S
    BY <1>1, <1>2, <1>3
  <2>2. N + 1 \in Nat
    BY <1>1
  <2> HIDE DEF S, N
  <2> QED BY <1>1, <2>1, <2>2, AsSequence
<1>6. last \in S
  OBVIOUS
<1> HIDE DEF S, N, last
<1>7. /\ Append(InstalledVersions, last) \in Seq(S)
      /\ Len(Append(InstalledVersions, last)) = N + 1
      /\ \A n \in 1..N : Append(InstalledVersions, last)[n] = InstalledVersions[n]
      /\ Append(InstalledVersions, last)[N + 1] = last
  BY <1>4, <1>6, AppendProperties
<1>8. \A n \in 1..(N + 1) : InstalledVersions'[n] = Append(InstalledVersions, last)[n]
  BY <1>1, <1>2, <1>3, <1>7
<1>9. InstalledVersions' = Append(InstalledVersions, last)
  BY <1>5, <1>7, <1>8, SeqEqual
<1> QED BY <1>9 DEF last

(* The last one is taken back.                                             *)
LEMMA OneVersionLess ==
    ASSUME VersionsAre, VersionsAre', Rev(Tree0) \in Nat,
           Completed' \subseteq Completed,
           Cardinality(Completed') = Cardinality(Completed) - 1
    PROVE  /\ Len(InstalledVersions) > 1
           /\ InstalledVersions' =
                SubSeq(InstalledVersions, 1, Len(InstalledVersions) - 1)
<1> DEFINE N == Cardinality(Completed)
<1>1. /\ InstalledVersions = [n \in 1..(N + 1) |-> InstalledVersions[n]]
      /\ InstalledVersions' = [n \in 1..N |-> InstalledVersions'[n]]
      /\ N \in Nat /\ N >= 1
  BY DEF VersionsAre
<1>2. \A n \in 1..N : InstalledVersions'[n] = InstalledVersions[n]
  BY SameVersions, <1>1
<1> DEFINE S == {InstalledVersions[n] : n \in 1..(N + 1)}
<1>3. InstalledVersions \in Seq(S) /\ Len(InstalledVersions) = N + 1
  <2>1. \A n \in 1..(N + 1) : InstalledVersions[n] \in S
    OBVIOUS
  <2>2. N + 1 \in Nat
    BY <1>1
  <2> HIDE DEF S, N
  <2> QED BY <1>1, <2>1, <2>2, AsSequence
<1>4. InstalledVersions' \in Seq(S) /\ Len(InstalledVersions') = N
  <2>1. \A n \in 1..N : InstalledVersions'[n] \in S
    BY <1>1, <1>2
  <2> HIDE DEF S, N
  <2> QED BY <1>1, <2>1, AsSequence
<1>5. \A n \in 1..N : InstalledVersions[n] \in S
  BY <1>1
<1> HIDE DEF S, N
<1>6. /\ SubSeq(InstalledVersions, 1, N) \in Seq(S)
      /\ Len(SubSeq(InstalledVersions, 1, N)) = N
      /\ \A n \in 1..N : SubSeq(InstalledVersions, 1, N)[n] = InstalledVersions[n]
  <2>1. 1 \in Int /\ N \in Int
    BY <1>1
  <2>2. /\ SubSeq(InstalledVersions, 1, N) \in Seq(S)
        /\ Len(SubSeq(InstalledVersions, 1, N)) = IF 1 <= N THEN N - 1 + 1 ELSE 0
        /\ \A i \in 1..(N - 1 + 1) :
             SubSeq(InstalledVersions, 1, N)[i] = InstalledVersions[1 + i - 1]
    BY <1>5, <2>1, SubSeqProperties
  <2> QED BY <1>1, <2>2
<1>7. InstalledVersions' = SubSeq(InstalledVersions, 1, N)
  BY <1>1, <1>2, <1>4, <1>6, SeqEqual
<1> QED BY <1>1, <1>3, <1>7

(* What is given up leaves the last version.                               *)
LEMMA LastVersion ==
    ASSUME IInv, Alone, VersionsAre, edited = {}, NEW d, Pending = {d},
           Rev(d.tree) = Rev(tree), Alike(tree, d.tree)
    PROVE  InstalledVersions[Len(InstalledVersions)] = {tree}
<1> DEFINE N == Cardinality(Completed) + 1
<1>1. /\ InstalledVersions = [n \in 1..N |-> InstalledVersions[n]] /\ N \in Nat
  BY DEF VersionsAre
<1>2. Len(InstalledVersions) = N
  <2>1. \A n \in 1..N : InstalledVersions[n] \in {InstalledVersions[n1] : n1 \in 1..N}
    OBVIOUS
  <2> HIDE DEF N
  <2> QED BY <1>1, <2>1, AsSequence
<1>3. Rev(d.tree) <= Rev(tree) /\ Rev(Tree0) \in Nat
  BY TreeRevisions
<1>4. /\ Rev(d.tree) = Rev(Tree0) + Cardinality(Completed)
      /\ Cardinality(Completed) \in Nat
      /\ \/ Cardinality(Completed) = 0 /\ Alike(d.tree, Tree0)
         \/ \E e \in Completed : /\ Rev(e.tree) + 1 = Rev(d.tree)
                                 /\ Alike(d.tree, PostTree(e.release, e.tree))
  BY <1>3, NextDeployment
<1>5. tree = [f \in TreeFiles |-> tree[f]]
  BY DEF IInv, GoodTree
<1>6. CASE Cardinality(Completed) = 0 /\ Alike(d.tree, Tree0)
  <2>1. Alike(tree, Tree0) /\ Tree0 = [f \in TreeFiles |-> Tree0[f]]
    BY <1>6, Tree0Assumption DEF Alike, TreeFiles
  <2>2. tree = Tree0
    BY <1>5, <2>1, TreesAgree
  <2> QED BY <1>2, <1>6, <2>2 DEF VersionsAre
<1>7. ASSUME NEW e \in Completed, Rev(e.tree) + 1 = Rev(d.tree),
             Alike(d.tree, PostTree(e.release, e.tree))
      PROVE  InstalledVersions[N] = {tree}
  <2>1. PICK t : t = PostTree(e.release, e.tree)
    OBVIOUS
  <2>2. Alike(tree, t) /\ t = [f \in TreeFiles |-> t[f]]
    BY <1>7, <2>1, PostTreeOf DEF Alike
  <2>3. tree = t
    BY <1>5, <2>2, TreesAgree
  <2>4. Rev(e.tree) \in Nat /\ Rev(Tree0) <= Rev(e.tree)
    BY StatusSets, PlanRevisions DEF IInv, Alone, JournalsDiffer
  <2>5. N \in 2..N
    BY <1>3, <1>4, <1>7, <2>4
  <2>6. PICK x \in Completed : /\ Rev(x.tree) = Rev(Tree0) + N - 2
                               /\ InstalledVersions[N] = {PostTree(x.release, x.tree)}
    BY <2>5 DEF VersionsAre
  <2>7. Rev(x.tree) = Rev(e.tree)
    BY <1>3, <1>4, <1>7, <2>4, <2>6
  <2>8. x = e
    BY <2>7 DEF VersionsAre
  <2> QED BY <2>1, <2>3, <2>6, <2>8
<1> QED BY <1>2, <1>4, <1>6, <1>7

(* The four changes of the promise, and what is none.                      *)
LEMMA NoChange ==
    ASSUME VersionsAre, VersionsAre', Rev(Tree0) \in Nat, Completed' = Completed,
           \/ Pending # {} /\ Pending' # {}
           \/ Pending' = Pending /\ tree' = tree
    PROVE  UNCHANGED <<InstalledVersions, SeenTree>>
<1>1. InstalledVersions' = InstalledVersions
  BY NoOtherVersions
<1>2. SeenTree' = SeenTree
  BY Seen, SeenNext
<1> QED BY <1>1, <1>2

LEMMA ChangeBegins ==
    ASSUME VersionsAre, VersionsAre', Rev(Tree0) \in Nat, Completed' = Completed,
           Pending = {}, Pending' # {}
    PROVE  Promise!Begin
<1>1. InstalledVersions' = InstalledVersions
  BY NoOtherVersions
<1>2. SeenTree = {tree} /\ SeenTree' = {}
  BY Seen, SeenNext
<1> QED BY <1>1, <1>2 DEF Promise!Begin

LEMMA ChangeIsInstalled ==
    ASSUME VersionsAre, VersionsAre', Rev(Tree0) \in Nat, NEW d, Pending # {}, Pending' = {},
           tree' = PostTree(d.release, d.tree),
           Completed' = Completed \cup {d},
           Rev(d.tree) = Rev(Tree0) + Cardinality(Completed),
           Cardinality(Completed') = Cardinality(Completed) + 1
    PROVE  Promise!Install
<1>1. InstalledVersions' = Append(InstalledVersions, {tree'})
  BY OneMoreVersion
<1>2. SeenTree = {} /\ SeenTree' = {tree'}
  BY Seen, SeenNext
<1> QED BY <1>1, <1>2 DEF Promise!Install

LEMMA VersionIsWithdrawn ==
    ASSUME VersionsAre, VersionsAre', Rev(Tree0) \in Nat, Pending' # {},
           Completed' \subseteq Completed,
           Cardinality(Completed') = Cardinality(Completed) - 1
    PROVE  Promise!Withdraw
<1>1. /\ Len(InstalledVersions) > 1
      /\ InstalledVersions' = SubSeq(InstalledVersions, 1, Len(InstalledVersions) - 1)
  BY OneVersionLess
<1>2. SeenTree' = {}
  BY SeenNext
<1> QED BY <1>1, <1>2 DEF Promise!Withdraw

LEMMA ChangeIsGivenUp ==
    ASSUME VersionsAre, VersionsAre', Rev(Tree0) \in Nat, Completed' = Completed,
           Pending # {}, Pending' = {}, tree' = tree,
           InstalledVersions[Len(InstalledVersions)] = {tree}
    PROVE  Promise!GiveUp
<1>1. InstalledVersions' = InstalledVersions
  BY NoOtherVersions
<1>2. SeenTree = {} /\ SeenTree' = {tree}
  BY Seen, SeenNext
<1> QED BY <1>1, <1>2 DEF Promise!GiveUp

(* Which step is which change.                                             *)
StepIsOfPromise == Promise!Next \/ UNCHANGED <<InstalledVersions, SeenTree>>

LEMMA NothingIsMarked ==
    ASSUME VersionsAre, VersionsAre', Rev(Tree0) \in Nat, tree' = tree, journal' = journal
    PROVE  StepIsOfPromise
<1>1. Pending' = Pending /\ Completed' = Completed
  BY DEF Pending, Completed, Interrupted
<1> QED BY <1>1, NoChange DEF StepIsOfPromise

LEMMA DeployingKeepsPromise ==
    ASSUME IInv, Alone, VersionsAre, VersionsAre', edited = {}, NEW c \in Clients, Deploys(c)
    PROVE  StepIsOfPromise
<1>1. Rev(Tree0) \in Nat
  BY TreeRevisions
<1>2. CASE WritePreparing(c)
  <2>1. Pending = {} /\ Pending' # {} /\ Completed' = Completed
    BY <1>2, PreparingAlone
  <2> QED BY <1>1, <2>1, ChangeBegins DEF StepIsOfPromise, Promise!Next
<1>3. CASE MarkStage(c)
  <2>1. Pending # {} /\ Pending' # {} /\ Completed' = Completed
    BY <1>3, MarkStageAlone
  <2> QED BY <1>1, <2>1, NoChange DEF StepIsOfPromise
<1>4. CASE \E f \in Files : WriteFile(c, f)
  <2>1. Pending # {} /\ Pending' # {} /\ Completed' = Completed
    BY <1>4, WriteFileAlone
  <2> QED BY <1>1, <2>1, NoChange DEF StepIsOfPromise
<1>5. CASE CommitState(c)
  <2>1. Pending # {} /\ Pending' # {} /\ Completed' = Completed
    BY <1>5, CommitAlone
  <2> QED BY <1>1, <2>1, NoChange DEF StepIsOfPromise
<1>6. CASE Complete(c)
  <2>1. PICK d : d = client[c].of
    OBVIOUS
  <2>2. /\ Pending' = {} /\ Pending = {d} /\ Alike(tree, PostTree(d.release, d.tree))
        /\ Completed' = Completed \cup {d}
        /\ Rev(d.tree) = Rev(Tree0) + Cardinality(Completed)
        /\ Cardinality(Completed') = Cardinality(Completed) + 1
    BY <1>6, <2>1, CompleteAlone
  <2>3. PICK t : t = PostTree(d.release, d.tree)
    OBVIOUS
  <2>4. Alike(tree, t) /\ t = [f \in TreeFiles |-> t[f]] /\ tree = [f \in TreeFiles |-> tree[f]]
    BY <2>2, <2>3, PostTreeOf DEF IInv, GoodTree
  <2>5. tree' = PostTree(d.release, d.tree)
    BY <1>6, <2>3, <2>4, TreesAgree DEF Complete
  <2>6. Pending # {}
    BY <2>2
  <2> QED BY <1>1, <2>2, <2>5, <2>6, ChangeIsInstalled DEF StepIsOfPromise, Promise!Next
<1>7. CASE \/ \E r \in Releases : Start(c, r)
           \/ BackUp(c)
           \/ \E stage \in {"applying", "migrating", "rebuilding", "verifying"} :
                EnterStage(c, stage)
           \/ VerifyTree(c) \/ Confirm(c) \/ StageFails(c)
  <2>1. tree' = tree /\ journal' = journal
    BY <1>7 DEF Start, BackUp, EnterStage, VerifyTree, Confirm, StageFails
  <2> QED BY <1>1, <2>1, NothingIsMarked
<1> QED BY <1>2, <1>3, <1>4, <1>5, <1>6, <1>7 DEF Deploys

LEMMA RollingBackKeepsPromise ==
    ASSUME IInv, Alone, VersionsAre, VersionsAre', edited = {}, NEW c \in Clients,
           RollsBack(c)
    PROVE  StepIsOfPromise
<1>1. Rev(Tree0) \in Nat
  BY TreeRevisions
<1>2. CASE \E d \in DOMAIN journal : PlanRollback(c, d)
  <2>1. tree' = tree /\ journal' = journal
    BY <1>2 DEF PlanRollback
  <2> QED BY <1>1, <2>1, NothingIsMarked
<1>3. CASE MarkRollingBack(c)
  <2>1. PICK d : d = client[c].of
    OBVIOUS
  <2>2. \/ d \in Pending /\ Pending' = Pending /\ Completed' = Completed
        \/ /\ Pending' = Pending \cup {d} /\ Completed' = Completed \ {d}
           /\ Cardinality(Completed') = Cardinality(Completed) - 1
    BY <1>3, <2>1, MarkRollingBackAlone
  <2>3. CASE d \in Pending /\ Pending' = Pending /\ Completed' = Completed
    <3>1. Pending # {} /\ Pending' # {}
      BY <2>3
    <3> QED BY <1>1, <2>3, <3>1, NoChange DEF StepIsOfPromise
  <2>4. CASE /\ Pending' = Pending \cup {d} /\ Completed' = Completed \ {d}
             /\ Cardinality(Completed') = Cardinality(Completed) - 1
    <3>1. Pending' # {} /\ Completed' \subseteq Completed
      BY <2>4
    <3> QED BY <1>1, <2>4, <3>1, VersionIsWithdrawn DEF StepIsOfPromise, Promise!Next
  <2> QED BY <2>2, <2>3, <2>4
<1>4. CASE \E f \in Files \cup {StateFile} : RestoreFile(c, f)
  <2>1. Pending # {} /\ Pending' # {} /\ Completed' = Completed
    BY <1>4, RestoreFileAlone DEF TreeFiles
  <2> QED BY <1>1, <2>1, NoChange DEF StepIsOfPromise
<1>5. CASE FinishRollback(c)
  <2>1. PICK d : d = client[c].of
    OBVIOUS
  <2>2. /\ d \in Pending /\ Pending' = Pending \ {d} /\ Completed' = Completed
        /\ Rev(d.tree) = Rev(tree) /\ (Pending = {d} => Alike(tree, d.tree))
    BY <1>5, <2>1, FinishRollbackAlone
  <2>3. tree' = tree
    BY <1>5 DEF FinishRollback
  <2>4. CASE Pending = {d}
    <3>1. InstalledVersions[Len(InstalledVersions)] = {tree}
      BY <2>2, <2>4, LastVersion
    <3>2. Pending # {} /\ Pending' = {}
      BY <2>2, <2>4
    <3> QED BY <1>1, <2>2, <2>3, <3>1, <3>2, ChangeIsGivenUp DEF StepIsOfPromise, Promise!Next
  <2>5. CASE Pending # {d}
    <3>1. Pending # {} /\ Pending' # {}
      BY <2>2, <2>5
    <3> QED BY <1>1, <2>2, <3>1, NoChange DEF StepIsOfPromise
  <2> QED BY <2>4, <2>5
<1>6. CASE RollbackFails(c)
  <2>1. Pending # {} /\ Pending' # {} /\ Completed' = Completed
    BY <1>6, RollbackFailsAlone
  <2> QED BY <1>1, <2>1, NoChange DEF StepIsOfPromise
<1> QED BY <1>2, <1>3, <1>4, <1>5, <1>6 DEF RollsBack

LEMMA EachStepKeepsPromise ==
    /\ IInv /\ SInv /\ IInv' /\ SInv'
    /\ (IInv /\ Alone => VersionsAre)
    /\ (IInv' /\ Alone' => VersionsAre')
    /\ Next
    => overlap' \/ edited' # {} \/ StepIsOfPromise
<1> SUFFICES ASSUME IInv, SInv, IInv', SInv', (IInv /\ Alone => VersionsAre),
                    (IInv' /\ Alone' => VersionsAre'), Next, ~overlap', edited' = {}
             PROVE  StepIsOfPromise
  OBVIOUS
<1>1. Alone' /\ VersionsAre'
  BY DEF SInv
<1>2. CASE \E f \in Files : Edit(f)
  BY <1>2 DEF Edit
<1>3. ASSUME NEW c \in Clients, Deploys(c) \/ RollsBack(c) \/ Stop(c)
      PROVE  StepIsOfPromise
  <2>1. ~overlap /\ edited = {}
    <3>1. CASE Deploys(c)
      <4>1. CASE \E r \in Releases : Start(c, r)
        BY <4>1 DEF Start
      <4>2. CASE WritePreparing(c) \/ BackUp(c) \/ MarkStage(c)
                 \/ \E f \in Files : WriteFile(c, f)
        BY <4>2 DEF WritePreparing, BackUp, MarkStage, WriteFile, history
      <4>3. CASE \E stage \in {"applying", "migrating", "rebuilding", "verifying"} :
                   EnterStage(c, stage)
        BY <4>3 DEF EnterStage, history
      <4>4. CASE VerifyTree(c) \/ CommitState(c) \/ Confirm(c) \/ Complete(c) \/ StageFails(c)
        BY <4>4 DEF VerifyTree, CommitState, Confirm, Complete, StageFails, history
      <4> QED BY <3>1, <4>1, <4>2, <4>3, <4>4 DEF Deploys
    <3>2. CASE RollsBack(c)
      <4>1. CASE \E d \in DOMAIN journal : PlanRollback(c, d)
        BY <4>1 DEF PlanRollback
      <4>2. CASE MarkRollingBack(c) \/ FinishRollback(c) \/ RollbackFails(c)
        BY <4>2 DEF MarkRollingBack, FinishRollback, RollbackFails, history
      <4>3. CASE \E f \in Files \cup {StateFile} : RestoreFile(c, f)
        BY <4>3 DEF RestoreFile, history
      <4> QED BY <3>2, <4>1, <4>2, <4>3 DEF RollsBack
    <3>3. CASE Stop(c)
      BY <3>3 DEF Stop, history
    <3> QED BY <1>3, <3>1, <3>2, <3>3
  <2>2. Alone /\ VersionsAre
    BY <2>1 DEF SInv
  <2>3. CASE Stop(c)
    <3>1. tree' = tree /\ journal' = journal /\ Rev(Tree0) \in Nat
      BY <2>3, TreeRevisions DEF Stop
    <3> QED BY <1>1, <2>2, <3>1, NothingIsMarked
  <2> QED BY <1>1, <1>3, <2>1, <2>2, <2>3, DeployingKeepsPromise, RollingBackKeepsPromise
<1> QED BY <1>2, <1>3 DEF Next

LEMMA PromiseAtFirst == Init => Promise!Init
<1> SUFFICES ASSUME Init PROVE Promise!Init
  OBVIOUS
<1>1. SeenTree = {Tree0}
  BY NothingAtFirst, Seen
<1>2. InstalledVersions = <<{Tree0}>>
  <2>1. InstalledVersions = [n \in 1..1 |-> {Tree0}]
    BY NothingAtFirst DEF InstalledVersions
  <2> QED BY <2>1
<1> QED BY <1>1, <1>2 DEF Promise!Init

(* Processes one after the other, whatever crashes and is rolled back on   *)
(* the way, install one whole version after another, take the last one     *)
(* back, or leave the last one as it is.                                   *)
THEOREM AtomicReleaseIsImplemented == Spec => ImplementsAtomicRelease
<1>1. IInv /\ SInv /\ IInv' /\ SInv' /\ [Next]_vars
      => [overlap' \/ edited' # {} \/ Promise!Next
          \/ UNCHANGED <<InstalledVersions, SeenTree>>]_vars
  <2>1. IInv /\ Alone => VersionsAre
    BY VersionsByRevision
  <2>2. IInv' /\ Alone' => VersionsAre'
    BY VersionsByRevision, PTL
  <2> QED BY <2>1, <2>2, EachStepKeepsPromise DEF StepIsOfPromise
<1> QED BY <1>1, PromiseAtFirst, DeploymentInvariant, OneAfterTheOther, PTL
        DEF Spec, ImplementsAtomicRelease

-----------------------------------------------------------------------------
(* The migration.                                                          *)

Putting(c) == putter[c] # NoPut

Checked(c) == Putting(c) /\ putter[c].checked

(* Before the archive is written, only clients have changed the home, and  *)
(* with layout 1.                                                          *)
Untouched ==
    /\ migrator.at \in {"idle", "planned", "backup", "left"}
    /\ ~marker
    /\ backup = NoFiles
    /\ capsule = NoFiles
    /\ \A r \in Records : flat[r] >= 1 /\ flat[r] >= migrator.plan[r]
    /\ \A c \in Putters : Putting(c) =>
         /\ putter[c].place = "flat" /\ ~putter[c].layout
         /\ putter[c].checked => putter[c].next = flat[putter[c].record] + 1

Archived ==
    /\ migrator.at \notin {"idle", "planned", "backup"}
    /\ backup = migrator.plan

(* A capsule is put to only by a client that saw layout 2.                 *)
PutsAreOfALayout ==
    \A c \in Putters : Putting(c) =>
      /\ putter[c].next >= 1
      /\ putter[c].place = "capsule" => putter[c].layout

(* A record is locked by one client at most.                               *)
LocksAreExclusive ==
    \A c, d \in Putters :
      c # d /\ Checked(c) /\ Checked(d) => putter[c].record # putter[d].record

(* Until the layout is published nobody has seen layout 2, and what is     *)
(* compared before a flat file goes is its capsule's content.              *)
BeforeTheLayout ==
    migrator.at \in {"write", "compare", "remove"} =>
      /\ ~marker
      /\ \A c \in Putters : Putting(c) => ~putter[c].layout
      /\ migrator.at # "write" => capsule = migrator.plan

(* After that the capsules have what was planned, and only newer revisions *)
(* are on their way to them.                                               *)
AfterTheLayout ==
    migrator.at \in {"final", "applied"} =>
      /\ marker
      /\ \A r \in Records : capsule[r] >= migrator.plan[r]
      /\ \A c \in Putters : Checked(c) /\ putter[c].place = "capsule" =>
           putter[c].next > migrator.plan[putter[c].record]

(* A rollback goes from record to record.                                  *)
RollbackRestores ==
    migrator.at \in {"rollback", "rolled-back"} =>
      /\ ~marker
      /\ \A r \in Records :
           migrator.at = "rolled-back" \/ r \notin migrator.todo => flat[r] >= 1

MInv ==
    /\ MigrationTypeOK
    /\ migrator.at # "idle" => \A r \in Records : migrator.plan[r] >= 1
    /\ Untouched \/ Archived
    /\ PutsAreOfALayout
    /\ LocksAreExclusive
    /\ BeforeTheLayout
    /\ AfterTheLayout
    /\ RollbackRestores

-----------------------------------------------------------------------------
(* What a client carries.                                                  *)
LEMMA PutsAreRecords ==
    ASSUME MigrationTypeOK, NEW c \in Putters, Putting(c)
    PROVE  /\ putter[c].record \in Records /\ putter[c].next \in Nat
           /\ putter[c].place \in {"flat", "capsule"}
           /\ putter[c].layout \in BOOLEAN /\ putter[c].checked \in BOOLEAN
  BY DEF MigrationTypeOK, Putting

LEMMA FilesAreRevisions ==
    ASSUME MigrationTypeOK, NEW r \in Records
    PROVE  flat[r] \in Nat /\ capsule[r] \in Nat /\ backup[r] \in Nat /\ migrator.plan[r] \in Nat
  BY DEF MigrationTypeOK

(* What the store finds of a record under either layout.                   *)
LEMMA LookUps ==
    ASSUME MigrationTypeOK, NEW r \in Records
    PROVE  /\ Stored(r) \in Nat
           /\ flat[r] >= 1 => Stored(r) = flat[r] /\ "flat" \in Places(r)
           /\ Places(r) \subseteq {"capsule"} /\ marker => Stored(r) = capsule[r]
           /\ "capsule" \in Places(r) => marker
           /\ Places(r) \subseteq {"flat", "capsule"}
  BY FilesAreRevisions DEF Stored, Places

LEMMA MigrationInitInvariant == MigrationInit => MInv
<1> SUFFICES ASSUME MigrationInit
             PROVE  MInv
  OBVIOUS
<1> USE DEF MigrationInit
<1>1. \A c \in Putters : ~Putting(c)
  BY DEF Putting
<1>2. MigrationTypeOK
  BY DEF MigrationTypeOK, NoFiles
<1>3. Untouched
  BY <1>1 DEF Untouched, NoFiles
<1> QED BY <1>1, <1>2, <1>3
        DEF MInv, PutsAreOfALayout, LocksAreExclusive, Checked, BeforeTheLayout, AfterTheLayout,
            RollbackRestores

-----------------------------------------------------------------------------
(* Clients.                                                                *)

LEMMA PreparePutKeeps ==
    ASSUME MInv, NEW c \in Putters, NEW r \in Records, PreparePut(c, r)
    PROVE  MInv'
<1> USE DEF MInv
<1>1. PICK place \in {"flat", "capsule"} :
        /\ IF Places(r) # {} THEN place \in Places(r)
           ELSE place = IF marker THEN "capsule" ELSE "flat"
        /\ putter' = [putter EXCEPT ![c] =
                        [record |-> r, next |-> Stored(r) + 1, place |-> place,
                         layout |-> marker, checked |-> FALSE]]
  BY DEF PreparePut
<1> DEFINE put == [record |-> r, next |-> Stored(r) + 1, place |-> place,
                   layout |-> marker, checked |-> FALSE]
<1>2. /\ put \in [record: Records, next: Nat, place: {"flat", "capsule"}, layout: BOOLEAN,
                  checked: BOOLEAN]
      /\ put.next >= 1 /\ ~put.checked /\ put.layout = marker /\ put.place = place
  BY LookUps DEF MigrationTypeOK
<1>3. place = "capsule" => marker
  BY <1>1, LookUps
<1>4. UNCHANGED <<flat, capsule, marker, backup, migrator>>
  BY DEF PreparePut
<1>5. /\ putter' = [d \in Putters |-> IF d = c THEN put ELSE putter[d]]
  BY <1>1 DEF MigrationTypeOK
<1> HIDE DEF put
<1>6. MigrationTypeOK'
  BY <1>2, <1>4, <1>5 DEF MigrationTypeOK
<1>7. \A d \in Putters : /\ d # c => putter'[d] = putter[d]
                         /\ d = c => putter'[d] = put
  BY <1>5
<1>8. (Untouched \/ Archived)'
  BY <1>2, <1>3, <1>4, <1>7 DEF Untouched, Archived, NoFiles, Putting
<1>9. /\ PutsAreOfALayout' /\ LocksAreExclusive' /\ BeforeTheLayout' /\ AfterTheLayout'
  BY <1>2, <1>3, <1>4, <1>7
  DEF PutsAreOfALayout, LocksAreExclusive, BeforeTheLayout, AfterTheLayout, Checked, Putting
<1> QED BY <1>4, <1>6, <1>8, <1>9 DEF RollbackRestores

LEMMA CheckPutKeeps ==
    ASSUME MInv, NEW c \in Putters, CheckPut(c)
    PROVE  MInv'
<1> USE DEF MInv
<1>1. /\ Putting(c) /\ putter[c].layout = marker
      /\ Stored(putter[c].record) = putter[c].next - 1
      /\ Places(putter[c].record) \subseteq {putter[c].place}
      /\ \A d \in Putters \ {c} : Checked(d) => putter[d].record # putter[c].record
      /\ putter' = [putter EXCEPT ![c].checked = TRUE]
      /\ UNCHANGED <<flat, capsule, marker, backup, migrator>>
  BY DEF CheckPut, Putting, Checked
<1>2. PICK r \in Records : r = putter[c].record
  BY <1>1, PutsAreRecords
<1>3. /\ putter[c].next \in Nat /\ putter[c].place \in {"flat", "capsule"}
      /\ putter[c] \in [record: Records, next: Nat, place: {"flat", "capsule"},
                        layout: BOOLEAN, checked: BOOLEAN]
  BY <1>1, PutsAreRecords DEF MigrationTypeOK, Putting
<1>4. PICK put \in [record: Records, next: Nat, place: {"flat", "capsule"}, layout: BOOLEAN,
                    checked: BOOLEAN] :
        /\ put = [putter[c] EXCEPT !.checked = TRUE]
        /\ put.record = r /\ put.next = putter[c].next /\ put.place = putter[c].place
        /\ put.layout = putter[c].layout /\ put.checked
  <2> DEFINE locked == [putter[c] EXCEPT !.checked = TRUE]
  <2>1. /\ locked \in [record: Records, next: Nat, place: {"flat", "capsule"}, layout: BOOLEAN,
                       checked: BOOLEAN]
        /\ locked.record = putter[c].record /\ locked.next = putter[c].next
        /\ locked.place = putter[c].place /\ locked.layout = putter[c].layout
        /\ locked.checked
    BY <1>3
  <2> QED BY <1>2, <2>1
<1>5. \A d \in Putters : /\ d # c => putter'[d] = putter[d]
                         /\ d = c => putter'[d] = put
  BY <1>1, <1>4 DEF MigrationTypeOK
<1>6. MigrationTypeOK'
  <2>1. putter' = [d \in Putters |-> putter'[d]]
    BY <1>1 DEF MigrationTypeOK
  <2> QED BY <1>1, <1>4, <1>5, <2>1 DEF MigrationTypeOK
<1>7. flat[r] \in Nat /\ capsule[r] \in Nat /\ migrator.plan[r] \in Nat
  BY FilesAreRevisions
<1>8. (Untouched \/ Archived)'
  <2>1. CASE Untouched
    <3>1. flat[r] >= 1 /\ put.place = "flat"
      BY <1>1, <1>4, <2>1 DEF Untouched
    <3>2. put.next = flat[r] + 1
      BY <1>1, <1>2, <1>3, <1>4, <1>7, <3>1, LookUps
    <3> QED BY <1>1, <1>4, <1>5, <2>1, <3>1, <3>2 DEF Untouched, NoFiles, Putting
  <2>2. CASE Archived
    BY <1>1, <2>2 DEF Archived
  <2> QED BY <2>1, <2>2
<1>9. PutsAreOfALayout' /\ BeforeTheLayout'
  BY <1>1, <1>4, <1>5 DEF PutsAreOfALayout, BeforeTheLayout, Putting
<1>10. LocksAreExclusive'
  BY <1>1, <1>2, <1>4, <1>5 DEF LocksAreExclusive, Checked, Putting
<1>11. AfterTheLayout'
  <2>1. ASSUME migrator.at \in {"final", "applied"}, put.place = "capsule"
        PROVE  put.next > migrator.plan[r]
    <3>1. marker /\ capsule[r] >= migrator.plan[r]
      BY <2>1 DEF AfterTheLayout
    <3>2. Stored(r) = capsule[r]
      BY <1>1, <1>2, <1>4, <2>1, <3>1, LookUps
    <3> QED BY <1>1, <1>2, <1>3, <1>4, <1>7, <3>1, <3>2
  <2> QED BY <1>1, <1>4, <1>5, <2>1 DEF AfterTheLayout, Checked, Putting
<1> QED BY <1>1, <1>6, <1>8, <1>9, <1>10, <1>11 DEF RollbackRestores

(* A client that gives up or is done has nothing left.                     *)
LEMMA ClientIsDone ==
    ASSUME MInv, NEW c \in Putters, putter' = [putter EXCEPT ![c] = NoPut]
    PROVE  /\ putter' \in [Putters -> {NoPut} \cup
                [record: Records, next: Nat, place: {"flat", "capsule"}, layout: BOOLEAN,
                 checked: BOOLEAN]]
           /\ \A d \in Putters : Putting(d)' => d # c /\ Putting(d) /\ putter'[d] = putter[d]
           /\ PutsAreOfALayout'
           /\ LocksAreExclusive'
  BY DEF MInv, MigrationTypeOK, PutsAreOfALayout, LocksAreExclusive, Checked, Putting

LEMMA GiveUpPutKeeps ==
    ASSUME MInv, NEW c \in Putters, GiveUpPut(c)
    PROVE  MInv'
<1> USE DEF MInv
<1>1. /\ putter' = [putter EXCEPT ![c] = NoPut]
      /\ UNCHANGED <<flat, capsule, marker, backup, migrator>>
  BY DEF GiveUpPut
<1>2. MigrationTypeOK'
  BY <1>1, ClientIsDone DEF MigrationTypeOK
<1>3. (Untouched \/ Archived)'
  BY <1>1, ClientIsDone DEF Untouched, Archived, NoFiles
<1>4. BeforeTheLayout' /\ AfterTheLayout'
  BY <1>1, ClientIsDone DEF BeforeTheLayout, AfterTheLayout, Checked
<1> QED BY <1>1, <1>2, <1>3, <1>4, ClientIsDone DEF RollbackRestores

LEMMA ReplaceRecordKeeps ==
    ASSUME MInv, NEW c \in Putters, ReplaceRecord(c)
    PROVE  MInv'
<1> USE DEF MInv
<1>1. /\ Checked(c) /\ Putting(c)
      /\ putter' = [putter EXCEPT ![c] = NoPut]
      /\ UNCHANGED <<marker, backup, migrator>>
  BY DEF ReplaceRecord, Checked, Putting
<1>2. PICK r \in Records, n \in Nat : r = putter[c].record /\ n = putter[c].next
  BY <1>1, PutsAreRecords
<1>3. n >= 1
  BY <1>1, <1>2 DEF PutsAreOfALayout
<1>4. \A d \in Putters : Putting(d)' => d # c /\ Putting(d) /\ putter'[d] = putter[d]
  BY <1>1, ClientIsDone
<1>5. PutsAreOfALayout' /\ LocksAreExclusive'
  BY <1>1, ClientIsDone
<1>6. CASE putter[c].place = "flat"
  <2>1. flat' = [flat EXCEPT ![r] = n] /\ UNCHANGED capsule
    BY <1>2, <1>6 DEF ReplaceRecord
  <2>2. \A s \in Records : flat'[s] = IF s = r THEN n ELSE flat[s]
    BY <2>1 DEF MigrationTypeOK
  <2>3. MigrationTypeOK'
    BY <1>1, <2>1, ClientIsDone DEF MigrationTypeOK
  <2>4. (Untouched \/ Archived)'
    <3>1. CASE Untouched
      <4>1. n = flat[r] + 1
        BY <1>1, <1>2, <3>1 DEF Untouched, Checked
      <4>2. ASSUME NEW s \in Records
            PROVE  flat'[s] >= 1 /\ flat'[s] >= migrator.plan[s]
        BY <1>3, <2>2, <3>1, <4>1, FilesAreRevisions DEF Untouched
      <4>3. ASSUME NEW d \in Putters, Putting(d)', putter'[d].checked
            PROVE  putter'[d].next = flat'[putter'[d].record] + 1
        <5>1. Checked(d) /\ d # c /\ putter'[d] = putter[d] /\ putter[d].record \in Records
          BY <1>4, <4>3, PutsAreRecords DEF Checked
        <5>2. putter[d].record # r
          BY <1>1, <1>2, <5>1 DEF LocksAreExclusive
        <5> QED BY <2>2, <3>1, <5>1, <5>2 DEF Untouched, Checked
      <4> QED BY <1>1, <1>4, <2>1, <3>1, <4>2, <4>3 DEF Untouched, NoFiles
    <3>2. CASE Archived
      BY <1>1, <3>2 DEF Archived
    <3> QED BY <3>1, <3>2
  <2>5. BeforeTheLayout' /\ AfterTheLayout'
    BY <1>1, <1>4, <2>1 DEF BeforeTheLayout, AfterTheLayout, Checked
  <2>6. RollbackRestores'
    BY <1>1, <1>3, <2>2 DEF RollbackRestores
  <2> QED BY <1>1, <1>5, <2>3, <2>4, <2>5, <2>6
<1>7. CASE putter[c].place # "flat"
  <2>1. /\ capsule' = [capsule EXCEPT ![r] = n] /\ UNCHANGED flat
        /\ putter[c].place = "capsule" /\ putter[c].layout
    BY <1>1, <1>2, <1>7, PutsAreRecords DEF ReplaceRecord, PutsAreOfALayout
  <2>2. \A s \in Records : capsule'[s] = IF s = r THEN n ELSE capsule[s]
    BY <2>1 DEF MigrationTypeOK
  <2>3. MigrationTypeOK'
    BY <1>1, <2>1, ClientIsDone DEF MigrationTypeOK
  <2>4. (Untouched \/ Archived)'
    BY <1>1, <1>7 DEF Untouched, Archived
  <2>5. BeforeTheLayout'
    BY <1>1, <2>1 DEF BeforeTheLayout
  <2>6. AfterTheLayout'
    <3> SUFFICES ASSUME migrator.at \in {"final", "applied"}
                 PROVE  AfterTheLayout'
      BY <1>1 DEF AfterTheLayout
    <3>1. n > migrator.plan[r]
      BY <1>1, <1>2, <2>1 DEF AfterTheLayout
    <3>2. ASSUME NEW s \in Records
          PROVE  capsule'[s] >= migrator.plan[s]
      BY <2>2, <3>1, FilesAreRevisions DEF AfterTheLayout
    <3> QED BY <1>1, <1>4, <3>2 DEF AfterTheLayout, Checked
  <2>7. RollbackRestores'
    BY <1>1, <2>1 DEF RollbackRestores
  <2> QED BY <1>1, <1>5, <2>3, <2>4, <2>5, <2>6, <2>7
<1> QED BY <1>6, <1>7

-----------------------------------------------------------------------------
(* The migrating process.                                                  *)

LEMMA StepTo ==
    ASSUME MigrationTypeOK, NEW from, NEW to, Step(from, to)
    PROVE  /\ migrator.at = from /\ migrator.todo = {}
           /\ migrator'.at = to /\ migrator'.todo = Records /\ migrator'.plan = migrator.plan
           /\ migrator' = [at |-> to, plan |-> migrator.plan, todo |-> Records]
  BY DEF MigrationTypeOK, Step

LEMMA OneOfTo ==
    ASSUME MigrationTypeOK, NEW r, NEW place, OneOf(r, place)
    PROVE  /\ migrator.at = place /\ r \in migrator.todo
           /\ migrator'.at = place /\ migrator'.todo = migrator.todo \ {r}
           /\ migrator'.plan = migrator.plan
           /\ migrator' = [at |-> place, plan |-> migrator.plan, todo |-> migrator.todo \ {r}]
  BY DEF MigrationTypeOK, OneOf

(* The clients are told nothing of what the migration does.                *)
LEMMA ClientsGoOn ==
    ASSUME MInv, UNCHANGED putter
    PROVE  /\ \A c \in Putters : Putting(c)' <=> Putting(c)
           /\ \A c \in Putters : Checked(c)' <=> Checked(c)
           /\ PutsAreOfALayout' /\ LocksAreExclusive'
  BY DEF MInv, PutsAreOfALayout, LocksAreExclusive, Checked, Putting

LEMMA PlanMigrationKeeps == MInv /\ PlanMigration => MInv'
<1> SUFFICES ASSUME MInv, PlanMigration
             PROVE  MInv'
  OBVIOUS
<1> USE DEF MInv
<1>1. /\ migrator.at = "idle"
      /\ migrator'.at = "planned" /\ migrator'.plan = flat
      /\ migrator' = [at |-> "planned", plan |-> flat, todo |-> {}]
      /\ UNCHANGED <<flat, capsule, marker, backup, putter>>
  BY DEF PlanMigration
<1>2. Untouched
  BY <1>1 DEF Archived
<1>3. MigrationTypeOK'
  BY <1>1 DEF MigrationTypeOK
<1>4. Untouched'
  BY <1>1, <1>2, ClientsGoOn, FilesAreRevisions DEF Untouched, NoFiles
<1>5. BeforeTheLayout' /\ AfterTheLayout' /\ RollbackRestores'
  BY <1>1 DEF BeforeTheLayout, AfterTheLayout, RollbackRestores
<1> QED BY <1>1, <1>2, <1>3, <1>4, <1>5, ClientsGoOn DEF Untouched

LEMMA StartMigrationKeeps == MInv /\ StartMigration => MInv'
<1> SUFFICES ASSUME MInv, StartMigration
             PROVE  MInv'
  OBVIOUS
<1> USE DEF MInv
<1>1. /\ migrator.at = "planned"
      /\ migrator'.at = "backup" /\ migrator'.plan = migrator.plan
      /\ migrator' = [at |-> "backup", plan |-> migrator.plan, todo |-> Records]
      /\ UNCHANGED <<flat, capsule, marker, backup, putter>>
  BY StepTo DEF StartMigration
<1>2. Untouched
  BY <1>1 DEF Archived
<1>3. MigrationTypeOK'
  BY <1>1 DEF MigrationTypeOK
<1>4. Untouched'
  BY <1>1, <1>2, ClientsGoOn DEF Untouched, NoFiles
<1>5. BeforeTheLayout' /\ AfterTheLayout' /\ RollbackRestores'
  BY <1>1 DEF BeforeTheLayout, AfterTheLayout, RollbackRestores
<1> QED BY <1>1, <1>3, <1>4, <1>5, ClientsGoOn

LEMMA WriteArchiveKeeps == MInv /\ WriteArchive => MInv'
<1> SUFFICES ASSUME MInv, WriteArchive
             PROVE  MInv'
  OBVIOUS
<1> USE DEF MInv
<1>1. /\ migrator.at = "backup"
      /\ migrator'.at = "write" /\ migrator'.plan = migrator.plan
      /\ migrator' = [at |-> "write", plan |-> migrator.plan, todo |-> Records]
      /\ backup' = migrator.plan
      /\ UNCHANGED <<flat, capsule, marker, putter>>
  BY DEF WriteArchive, MigrationTypeOK
<1>2. Untouched
  BY <1>1 DEF Archived
<1>3. MigrationTypeOK'
  BY <1>1 DEF MigrationTypeOK
<1>4. Archived'
  BY <1>1 DEF Archived
<1>5. BeforeTheLayout'
  <2>1. \A c \in Putters : Putting(c) => ~putter[c].layout
    BY <1>2 DEF Untouched
  <2> QED BY <1>1, <1>2, <2>1, ClientsGoOn DEF BeforeTheLayout, Untouched
<1>6. AfterTheLayout' /\ RollbackRestores'
  BY <1>1 DEF AfterTheLayout, RollbackRestores
<1> QED BY <1>1, <1>3, <1>4, <1>5, <1>6, ClientsGoOn

(* A step from writing up to removing keeps the archive and layout 1.      *)
LEMMA MoveStep ==
    ASSUME MInv, MigrationTypeOK',
           migrator.at \in {"write", "compare", "remove"},
           migrator'.at \in {"write", "compare", "remove"},
           migrator'.plan = migrator.plan,
           migrator'.at # "write" => capsule' = migrator.plan,
           UNCHANGED <<marker, backup, putter>>
    PROVE  MInv'
<1> USE DEF MInv
<1>1. Archived
  BY DEF Untouched
<1>2. Archived'
  BY <1>1 DEF Archived
<1>3. BeforeTheLayout'
  BY ClientsGoOn DEF BeforeTheLayout
<1>4. AfterTheLayout' /\ RollbackRestores'
  BY DEF AfterTheLayout, RollbackRestores
<1> QED BY <1>2, <1>3, <1>4, ClientsGoOn

LEMMA WriteCapsuleKeeps ==
    ASSUME MInv, NEW r \in Records, WriteCapsule(r)
    PROVE  MInv'
<1> USE DEF MInv
<1>1. /\ migrator.at = "write" /\ migrator'.at = "write" /\ migrator'.plan = migrator.plan
      /\ migrator' = [at |-> "write", plan |-> migrator.plan, todo |-> migrator.todo \ {r}]
      /\ capsule' = [capsule EXCEPT ![r] = migrator.plan[r]]
      /\ UNCHANGED <<flat, marker, backup, putter>>
  BY OneOfTo DEF WriteCapsule
<1>2. MigrationTypeOK'
  BY <1>1 DEF MigrationTypeOK
<1> QED BY <1>1, <1>2, MoveStep

LEMMA VerifyCapsulesKeeps == MInv /\ VerifyCapsules => MInv'
<1> SUFFICES ASSUME MInv, VerifyCapsules
             PROVE  MInv'
  OBVIOUS
<1> USE DEF MInv
<1>1. /\ migrator.at = "write" /\ migrator'.at = "compare" /\ migrator'.plan = migrator.plan
      /\ migrator' = [at |-> "compare", plan |-> migrator.plan, todo |-> Records]
      /\ \A r \in Records : capsule[r] = migrator.plan[r]
      /\ UNCHANGED <<flat, capsule, marker, backup, putter>>
  BY StepTo DEF VerifyCapsules
<1>2. MigrationTypeOK'
  BY <1>1 DEF MigrationTypeOK
<1>3. capsule' = migrator.plan
  BY <1>1 DEF MigrationTypeOK
<1> QED BY <1>1, <1>2, <1>3, MoveStep

LEMMA CompareFlatKeeps ==
    ASSUME MInv, NEW r \in Records, CompareFlat(r)
    PROVE  MInv'
<1> USE DEF MInv
<1>1. /\ migrator.at = "compare" /\ migrator'.at = "remove" /\ migrator'.plan = migrator.plan
      /\ migrator' = [at |-> "remove", plan |-> migrator.plan, todo |-> migrator.todo \ {r}]
      /\ UNCHANGED <<flat, capsule, marker, backup, putter>>
  BY DEF CompareFlat, MigrationTypeOK
<1>2. MigrationTypeOK'
  BY <1>1 DEF MigrationTypeOK
<1>3. capsule' = migrator.plan
  BY <1>1 DEF BeforeTheLayout
<1> QED BY <1>1, <1>2, <1>3, MoveStep

LEMMA RemoveFlatKeeps ==
    ASSUME MInv, NEW r \in Records, RemoveFlat(r)
    PROVE  MInv'
<1> USE DEF MInv
<1>1. /\ migrator.at = "remove" /\ migrator'.at = "compare" /\ migrator'.plan = migrator.plan
      /\ migrator' = [at |-> "compare", plan |-> migrator.plan, todo |-> migrator.todo]
      /\ flat' = [flat EXCEPT ![r] = 0]
      /\ UNCHANGED <<capsule, marker, backup, putter>>
  BY DEF RemoveFlat, MigrationTypeOK
<1>2. MigrationTypeOK'
  BY <1>1 DEF MigrationTypeOK
<1>3. capsule' = migrator.plan
  BY <1>1 DEF BeforeTheLayout
<1> QED BY <1>1, <1>2, <1>3, MoveStep

LEMMA PublishLayoutKeeps == MInv /\ PublishLayout => MInv'
<1> SUFFICES ASSUME MInv, PublishLayout
             PROVE  MInv'
  OBVIOUS
<1> USE DEF MInv
<1>1. /\ migrator.at = "compare" /\ migrator'.at = "final" /\ migrator'.plan = migrator.plan
      /\ migrator' = [at |-> "final", plan |-> migrator.plan, todo |-> Records]
      /\ marker' = TRUE
      /\ UNCHANGED <<flat, capsule, backup, putter>>
  BY StepTo DEF PublishLayout
<1>2. MigrationTypeOK'
  BY <1>1 DEF MigrationTypeOK
<1>3. Archived'
  BY <1>1 DEF Archived, Untouched
<1>4. AfterTheLayout'
  <2>1. \A c \in Putters : Putting(c) => putter[c].place # "capsule"
    BY <1>1 DEF BeforeTheLayout, PutsAreOfALayout
  <2>2. \A r \in Records : capsule[r] >= migrator.plan[r]
    BY <1>1, FilesAreRevisions DEF BeforeTheLayout
  <2> QED BY <1>1, <2>1, <2>2, ClientsGoOn DEF AfterTheLayout, Checked
<1>5. BeforeTheLayout' /\ RollbackRestores'
  BY <1>1 DEF BeforeTheLayout, RollbackRestores
<1> QED BY <1>1, <1>2, <1>3, <1>4, <1>5, ClientsGoOn

(* Once the layout is published, looking changes nothing.                  *)
LEMMA VerifyStep ==
    ASSUME MInv, MigrationTypeOK', migrator.at = "final", migrator'.at \in {"final", "applied"},
           migrator'.plan = migrator.plan,
           UNCHANGED <<flat, capsule, marker, backup, putter>>
    PROVE  MInv'
<1> USE DEF MInv
<1>1. Archived'
  BY DEF Archived, Untouched
<1>2. AfterTheLayout'
  BY ClientsGoOn DEF AfterTheLayout, Checked
<1>3. BeforeTheLayout' /\ RollbackRestores'
  BY DEF BeforeTheLayout, RollbackRestores
<1> QED BY <1>1, <1>2, <1>3, ClientsGoOn

LEMMA VerifyMoveKeeps ==
    ASSUME MInv, NEW r \in Records, VerifyMove(r)
    PROVE  MInv'
<1> USE DEF MInv
<1>1. /\ migrator.at = "final" /\ migrator'.at = "final" /\ migrator'.plan = migrator.plan
      /\ migrator' = [at |-> "final", plan |-> migrator.plan, todo |-> migrator.todo \ {r}]
      /\ UNCHANGED <<flat, capsule, marker, backup, putter>>
  BY OneOfTo DEF VerifyMove
<1>2. MigrationTypeOK'
  BY <1>1 DEF MigrationTypeOK
<1> QED BY <1>1, <1>2, VerifyStep

LEMMA MigratedKeeps == MInv /\ Migrated => MInv'
<1> SUFFICES ASSUME MInv, Migrated
             PROVE  MInv'
  OBVIOUS
<1> USE DEF MInv
<1>1. /\ migrator.at = "final" /\ migrator'.at = "applied" /\ migrator'.plan = migrator.plan
      /\ migrator' = [at |-> "applied", plan |-> migrator.plan, todo |-> Records]
      /\ UNCHANGED <<flat, capsule, marker, backup, putter>>
  BY StepTo DEF Migrated
<1>2. MigrationTypeOK'
  BY <1>1 DEF MigrationTypeOK
<1> QED BY <1>1, <1>2, VerifyStep

LEMMA FailMigrationKeeps == MInv /\ FailMigration => MInv'
<1> SUFFICES ASSUME MInv, FailMigration
             PROVE  MInv'
  OBVIOUS
<1> USE DEF MInv
<1>1. /\ migrator.at \in {"write", "compare", "remove", "final"}
      /\ migrator'.at = "rollback" /\ migrator'.plan = migrator.plan
      /\ migrator'.todo = Records
      /\ migrator' = [at |-> "rollback", plan |-> migrator.plan, todo |-> Records]
      /\ marker' = FALSE
      /\ UNCHANGED <<flat, capsule, backup, putter>>
  BY DEF FailMigration, MigrationTypeOK
<1>2. MigrationTypeOK'
  BY <1>1 DEF MigrationTypeOK
<1>3. Archived'
  BY <1>1 DEF Archived, Untouched
<1>4. BeforeTheLayout' /\ AfterTheLayout' /\ RollbackRestores'
  BY <1>1 DEF BeforeTheLayout, AfterTheLayout, RollbackRestores
<1> QED BY <1>1, <1>2, <1>3, <1>4, ClientsGoOn

LEMMA RestoreFlatKeeps ==
    ASSUME MInv, NEW r \in Records, RestoreFlat(r)
    PROVE  MInv'
<1> USE DEF MInv
<1>1. /\ migrator.at = "rollback" /\ migrator'.at = "rollback" /\ migrator'.plan = migrator.plan
      /\ migrator'.todo = migrator.todo \ {r}
      /\ migrator' = [at |-> "rollback", plan |-> migrator.plan, todo |-> migrator.todo \ {r}]
      /\ UNCHANGED <<marker, backup, putter>>
  BY OneOfTo DEF RestoreFlat
<1>2. flat' \in [Records -> Nat] /\ capsule' \in [Records -> Nat]
  BY FilesAreRevisions DEF RestoreFlat, MigrationTypeOK
<1>3. \A s \in Records :
        flat'[s] = IF s = r /\ flat[s] = 0 THEN migrator.plan[s] ELSE flat[s]
  BY DEF RestoreFlat, MigrationTypeOK
<1>4. MigrationTypeOK'
  BY <1>1, <1>2 DEF MigrationTypeOK
<1>5. Archived'
  BY <1>1 DEF Archived, Untouched
<1>6. RollbackRestores'
  <2>1. ASSUME NEW s \in Records, s \notin migrator'.todo
        PROVE  flat'[s] >= 1
    <3>1. migrator.plan[s] >= 1 /\ flat[s] \in Nat /\ migrator.plan[s] \in Nat
      BY <1>1, FilesAreRevisions
    <3>2. s = r \/ s \notin migrator.todo
      BY <1>1, <2>1
    <3>3. s # r => flat[s] >= 1
      BY <1>1, <3>2 DEF RollbackRestores
    <3> QED BY <1>3, <3>1, <3>3
  <2> QED BY <1>1, <2>1 DEF RollbackRestores
<1>7. BeforeTheLayout' /\ AfterTheLayout'
  BY <1>1 DEF BeforeTheLayout, AfterTheLayout
<1> QED BY <1>1, <1>4, <1>5, <1>6, <1>7, ClientsGoOn

LEMMA RolledBackKeeps == MInv /\ RolledBack => MInv'
<1> SUFFICES ASSUME MInv, RolledBack
             PROVE  MInv'
  OBVIOUS
<1> USE DEF MInv
<1>1. /\ migrator.at = "rollback" /\ migrator.todo = {}
      /\ migrator'.at = "rolled-back" /\ migrator'.plan = migrator.plan
      /\ migrator' = [at |-> "rolled-back", plan |-> migrator.plan, todo |-> Records]
      /\ UNCHANGED <<flat, capsule, marker, backup, putter>>
  BY StepTo DEF RolledBack
<1>2. MigrationTypeOK'
  BY <1>1 DEF MigrationTypeOK
<1>3. Archived'
  BY <1>1 DEF Archived, Untouched
<1>4. BeforeTheLayout' /\ AfterTheLayout' /\ RollbackRestores'
  BY <1>1 DEF BeforeTheLayout, AfterTheLayout, RollbackRestores
<1> QED BY <1>1, <1>2, <1>3, <1>4, ClientsGoOn

LEMMA LeaveKeeps == MInv /\ Leave => MInv'
<1> SUFFICES ASSUME MInv, Leave
             PROVE  MInv'
  OBVIOUS
<1> USE DEF MInv
<1>1. /\ migrator.at \notin {"idle", "applied", "rolled-back", "left"}
      /\ migrator'.at = "left" /\ migrator'.plan = migrator.plan
      /\ migrator' = [at |-> "left", plan |-> migrator.plan, todo |-> {}]
      /\ UNCHANGED <<flat, capsule, marker, backup, putter>>
  BY DEF Leave, MigrationTypeOK
<1>2. MigrationTypeOK'
  BY <1>1 DEF MigrationTypeOK
<1>3. (Untouched \/ Archived)'
  BY <1>1, ClientsGoOn DEF Archived, Untouched, NoFiles
<1>4. BeforeTheLayout' /\ AfterTheLayout' /\ RollbackRestores'
  BY <1>1 DEF BeforeTheLayout, AfterTheLayout, RollbackRestores
<1> QED BY <1>1, <1>2, <1>3, <1>4, ClientsGoOn

-----------------------------------------------------------------------------

LEMMA MigrationNextInvariant == MInv /\ [MigrationNext]_migrationVars => MInv'
<1> SUFFICES ASSUME MInv, [MigrationNext]_migrationVars
             PROVE  MInv'
  OBVIOUS
<1>1. CASE UNCHANGED migrationVars
  BY <1>1
  DEF migrationVars, MInv, MigrationTypeOK, Untouched, Archived, NoFiles, PutsAreOfALayout,
      LocksAreExclusive, BeforeTheLayout, AfterTheLayout, RollbackRestores, Checked, Putting
<1>2. ASSUME NEW c \in Putters, NEW r \in Records, PreparePut(c, r)
      PROVE  MInv'
  BY <1>2, PreparePutKeeps
<1>3. ASSUME NEW c \in Putters, CheckPut(c) \/ ReplaceRecord(c) \/ GiveUpPut(c)
      PROVE  MInv'
  BY <1>3, CheckPutKeeps, ReplaceRecordKeeps, GiveUpPutKeeps
<1>4. CASE \/ PlanMigration \/ StartMigration \/ WriteArchive \/ VerifyCapsules \/ PublishLayout
           \/ Migrated \/ FailMigration \/ RolledBack \/ Leave
  BY <1>4, PlanMigrationKeeps, StartMigrationKeeps, WriteArchiveKeeps, VerifyCapsulesKeeps,
     PublishLayoutKeeps, MigratedKeeps, FailMigrationKeeps, RolledBackKeeps, LeaveKeeps
<1>5. ASSUME NEW r \in Records,
             \/ WriteCapsule(r) \/ CompareFlat(r) \/ RemoveFlat(r)
             \/ VerifyMove(r) \/ RestoreFlat(r)
      PROVE  MInv'
  BY <1>5, WriteCapsuleKeeps, CompareFlatKeeps, RemoveFlatKeeps, VerifyMoveKeeps,
     RestoreFlatKeeps
<1> QED BY <1>1, <1>2, <1>3, <1>4, <1>5 DEF MigrationNext

(* The inductive invariant of the migration: up to the archive nothing but *)
(* clients' puts has changed the home; from then on the archive is the     *)
(* plan, the layout is published over complete capsules only, and a        *)
(* rollback leaves flat files behind it (project_capsule_migration.py,     *)
(* local_store.py), for any records and clients.                           *)
THEOREM MigrationInvariant == MigrationSpec => []MInv
<1>1. MigrationInit => MInv
  BY MigrationInitInvariant
<1>2. MInv /\ [MigrationNext]_migrationVars => MInv'
  BY MigrationNextInvariant
<1> QED BY <1>1, <1>2, PTL DEF MigrationSpec

(* The files, the migrating process and the clients are always well typed. *)
THEOREM MigrationTypeCorrect == MigrationSpec => []MigrationTypeOK
<1>1. MInv => MigrationTypeOK
  BY DEF MInv
<1> QED BY <1>1, MigrationInvariant, PTL

(* No record that a migration planned to move is ever lost, and one that   *)
(* succeeded or was rolled back leaves each where its layout looks         *)
(* (project_capsule_migration.py).                                         *)
THEOREM MigrationLosesNothing == MigrationSpec => []MigrationKeepsRecords
<1>1. ASSUME MInv
      PROVE  MigrationKeepsRecords
  <2> USE <1>1 DEF MInv
  <2>1. ASSUME NEW r \in Records
        PROVE  \/ flat[r] >= migrator.plan[r]
               \/ backup[r] = migrator.plan[r]
    BY DEF Untouched, Archived
  <2>2. ASSUME NEW r \in Records, migrator.at = "applied"
        PROVE  marker /\ capsule[r] >= migrator.plan[r]
    BY <2>2 DEF AfterTheLayout
  <2>3. ASSUME NEW r \in Records, migrator.at = "rolled-back"
        PROVE  ~marker /\ flat[r] > 0
    BY <2>3, FilesAreRevisions DEF RollbackRestores
  <2> QED BY <2>1, <2>2, <2>3 DEF MigrationKeepsRecords
<1> QED BY <1>1, MigrationInvariant, PTL
=============================================================================
