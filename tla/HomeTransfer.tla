---------------------------- MODULE HomeTransfer ----------------------------
(***************************************************************************)
(* What puts a whole home somewhere else: the initialization of a project  *)
(* home, the migration of an older home into it, the restoring of an       *)
(* archive and the merge of a home into one that is in use                 *)
(* (project_home_initialization.py, project_home_portability.py,           *)
(* portable_backup.py, portable_restore.py, project_home_merge.py).  The   *)
(* migration of a repository-local home is a migration without the         *)
(* exclusion, and an archived project capsule is collected, checked again  *)
(* and put back like a home (repo_local_migration.py,                      *)
(* project_capsule_portability.py).                                        *)
(*                                                                         *)
(* Files are read one by one while clients of both homes put new           *)
(* revisions; no transfer takes the store's locks.  A file is a number,    *)
(* which no other put uses again, and 0 where there is none; that the      *)
(* home's marker is there is a file of its own.  Of the Git exclude file   *)
(* only the line about the target is kept.  Secrets and machine paths,     *)
(* which refuse a backup, are absent.                                      *)
(***************************************************************************)
EXTENDS Naturals, Sequences, FiniteSets

CONSTANTS
    Names,        \* 1 .. n, the files of a home in the order they are read
    Transfers,    \* processes, each of which transfers once
    Given,        \* the files of an archive that is there from the beginning
    MaxContent    \* bound: the last content that a client puts

ASSUME TransferAssumption ==
    /\ IsFiniteSet(Names) /\ Names = 1 .. Cardinality(Names) /\ 1 \in Names
    /\ Given \in [Names -> {0, 1}]
    /\ MaxContent \in Nat

VARIABLES
    source,       \* the files of the home that is migrated or merged
    target,       \* [there, marker, files] the project's or the shared home
    excluded,     \* Git ignores the target
    content,      \* the newest content that a client put
    transfer,     \* per process: what it does, has read and has planned
    past          \* history: the files that each of the homes had at some time

transferVars == <<source, target, excluded, content, transfer, past>>

None == [p \in Names |-> 0]

NoArchive == <<>>

Homes == {"source", "target"}

AtRest == [kind |-> "none", at |-> "idle", read |-> <<>>, found |-> [h \in Homes |-> None],
         add |-> None, archive |-> [h \in Homes |-> NoArchive],
         line |-> FALSE, applied |-> FALSE, unmarked |-> FALSE, directory |-> FALSE,
         marker |-> "not made", made |-> {}]

TransferInit ==
    /\ source \in {files \in [Names -> {0, 1}] : files[1] = 1}
    /\ \/ target \in [there : BOOLEAN, marker : {FALSE}, files : {None}] /\ excluded = FALSE
       \/ target \in [there : {TRUE}, marker : {TRUE}, files : {None, [None EXCEPT ![1] = 1]}]
          /\ excluded \in BOOLEAN
    /\ content = 1
    /\ transfer = [t \in Transfers |-> AtRest]
    /\ past = [h \in Homes |-> {IF h = "source" THEN source ELSE target.files}]

FilesOf(h) == IF h = "source" THEN source ELSE target.files

(* A process goes on with what it has.                                     *)
Become(t, x) == transfer' = [transfer EXCEPT ![t] = x]

GoesOn(t, at) == Become(t, [transfer[t] EXCEPT !.at = at, !.read = <<>>])

At(t, at) == transfer[t].at = at

Quiet == UNCHANGED <<source, target, excluded, content, past>>

(* The target has new files, which the history notes.                      *)
Holds(home) ==
    /\ target' = home
    /\ past' = [past EXCEPT !["target"] = @ \cup {home.files}]
    /\ UNCHANGED <<source, content>>

Fail(t) == GoesOn(t, "undo") /\ Quiet

(* A transfer that is over: its archives stay, what it carried, and what   *)
(* became of the marker it made.                                           *)
End(t, at) ==
    LET x == transfer[t] IN
    Become(t, [AtRest EXCEPT !.kind = x.kind, !.at = at, !.archive = x.archive,
                           !.marker = x.marker,
                           !.add = IF at = "done" THEN x.add ELSE None])

Refuse(t) == End(t, "failed") /\ Quiet

-----------------------------------------------------------------------------
TargetIsEmpty == ~target.marker /\ target.files = None

(* The archives that a clean clone may be restored from                    *)
Archives == ({Given} \cup {transfer[t].archive["source"] : t \in Transfers}) \ {NoArchive}

(* What is planned: the exclusion unless Git ignores the target already,   *)
(* and the marker unless it is there.                                      *)
Planned(kind, at) ==
    [AtRest EXCEPT !.kind = kind, !.at = at, !.line = ~excluded, !.unmarked = ~target.marker]

(* A directory that holds files without the marker is not a home.          *)
MayBeHome == target.marker \/ target.files = None

PlanInitialization(t) == MayBeHome /\ Become(t, Planned("initialize", "check plan"))

PlanHomeMigration(t) == TargetIsEmpty /\ Become(t, Planned("migrate", "collect source"))

PlanRestore(t) ==
    /\ TargetIsEmpty
    /\ \E a \in Archives : Become(t, [Planned("restore", "compare line") EXCEPT !.add = a])

PlanMerge(t) == target.marker /\ Become(t, Planned("merge", "collect source"))

Plan(t) ==
    /\ At(t, "idle")
    /\ PlanInitialization(t) \/ PlanHomeMigration(t) \/ PlanRestore(t) \/ PlanMerge(t)
    /\ Quiet

(* _collect_entries and the like read one file after the other.            *)
ReadsSource == {"collect source", "check source", "source again", "read again"}
ReadsTarget == {"collect target", "check target", "target again"}

ReadFile(t) ==
    LET x == transfer[t]
        files == IF x.at \in ReadsSource THEN source ELSE target.files
    IN
    /\ x.at \in ReadsSource \cup ReadsTarget
    /\ Len(x.read) < Len(None)
    /\ Become(t, [x EXCEPT !.read = Append(@, files[Len(@) + 1])])
    /\ Quiet

HasRead(t, at) == At(t, at) /\ Len(transfer[t].read) = Len(None)

(* The snapshot that is planned; the marker is one of the target's files.  *)
Found(t, at, h, next) ==
    /\ HasRead(t, at)
    /\ Become(t, [transfer[t] EXCEPT !.found[h] = transfer[t].read, !.read = <<>>, !.at = next,
                                    !.unmarked = ~target.marker])
    /\ Quiet

(* Mutant: the second collection is not compared.                          *)
WhateverRead(t, h) == h \in Homes

(* The files are as they were planned.                                     *)
AsFound(t, h) ==
    /\ transfer[t].read = transfer[t].found[h]
    /\ h = "target" => transfer[t].unmarked = ~target.marker

(* A backup: the files are collected again, and the archive gets what was  *)
(* planned.                                                                *)
Archive(t, at, h, next) ==
    /\ HasRead(t, at)
    /\ AsFound(t, h)
    /\ Become(t, [transfer[t] EXCEPT !.archive[h] = transfer[t].found[h],
                                    !.read = <<>>, !.at = next])
    /\ Quiet

Same(t, at, h, next) == HasRead(t, at) /\ AsFound(t, h) /\ GoesOn(t, next) /\ Quiet

FoundChanged(t, h) ==
    /\ \E at \in {"check " \o h, h \o " again"} : HasRead(t, at)
    /\ ~AsFound(t, h)
    /\ Refuse(t)

-----------------------------------------------------------------------------
(* Initialization: the plan is made again, then the exclusion, the         *)
(* directory and the marker.                                               *)
CheckPlan(t) ==
    /\ At(t, "check plan")
    /\ IF MayBeHome /\ transfer[t].line = ~excluded /\ transfer[t].unmarked = ~target.marker
       THEN GoesOn(t, "compare line") /\ Quiet
       ELSE Refuse(t)

(* apply_git_exclusion, when an exclusion was planned                      *)
AfterLine(t) == IF transfer[t].kind = "initialize" THEN "make" ELSE "look empty"

CompareLine(t) ==
    /\ At(t, "compare line")
    /\ IF ~transfer[t].line THEN GoesOn(t, AfterLine(t)) /\ Quiet
       ELSE IF ~excluded THEN GoesOn(t, "write line") /\ Quiet
       ELSE Fail(t)

WriteLine(t) ==
    /\ At(t, "write line")
    /\ excluded' = TRUE
    /\ GoesOn(t, "ask git")
    /\ UNCHANGED <<source, target, content, past>>

AskGit(t) ==
    /\ At(t, "ask git")
    /\ IF excluded
       THEN Become(t, [transfer[t] EXCEPT !.applied = TRUE, !.at = AfterLine(t)]) /\ Quiet
       ELSE Fail(t)

MakeDirectory(t) ==
    /\ At(t, "make")
    /\ LET makes == transfer[t].unmarked /\ ~target.there IN
       /\ Become(t, [transfer[t] EXCEPT !.directory = makes,
                                        !.at = IF transfer[t].unmarked THEN "mark" ELSE "verify"])
       /\ target' = [target EXCEPT !.there = @ \/ makes]
    /\ UNCHANGED <<source, excluded, content, past>>

(* The marker is opened for exclusive creation.                            *)
WriteMarker(t) ==
    /\ At(t, "mark")
    /\ IF target.there /\ ~target.marker
       THEN /\ target' = [target EXCEPT !.marker = TRUE]
            /\ Become(t, [transfer[t] EXCEPT !.marker = "made", !.at = "verify"])
            /\ UNCHANGED <<source, excluded, content, past>>
       ELSE Fail(t)

(* The marker is read back, which may fail although it is there.           *)
Verify(t) ==
    /\ At(t, "verify")
    /\ \/ target.marker /\ End(t, "done") /\ Quiet
       \/ Fail(t)

-----------------------------------------------------------------------------
(* Restoring: an empty or absent target, a staging directory that takes    *)
(* its place.                                                              *)
FindEmpty(t) ==
    /\ At(t, "look empty")
    /\ IF TargetIsEmpty THEN GoesOn(t, "clear") /\ Quiet ELSE Fail(t)

(* Mutant: the directory is removed with what is in it.                    *)
RemovesTree == target.there

(* rmdir                                                                   *)
Removable == TargetIsEmpty

Clear(t) ==
    /\ At(t, "clear")
    /\ IF Removable
       THEN /\ Holds([there |-> FALSE, marker |-> FALSE, files |-> None])
            /\ GoesOn(t, "replace")
            /\ UNCHANGED excluded
       ELSE Fail(t)

(* os.replace of a directory takes the place of an empty one only.         *)
Replace(t) ==
    /\ At(t, "replace")
    /\ IF TargetIsEmpty
       THEN /\ Holds([there |-> TRUE, marker |-> TRUE, files |-> transfer[t].add])
            /\ Become(t, [transfer[t] EXCEPT !.marker = "made", !.at = "verify"])
            /\ UNCHANGED excluded
       ELSE Fail(t)

-----------------------------------------------------------------------------
(* The merge: what the target lacks; other contents refuse it.             *)
Compare(t) ==
    /\ HasRead(t, "read again")
    /\ LET read == transfer[t].read
           lacks == {p \in Names : target.files[p] = 0}
       IN
       IF \E p \in Names : read[p] # 0 /\ target.files[p] \notin {0, read[p]} THEN Refuse(t)
       ELSE /\ Become(t, [transfer[t] EXCEPT
                            !.add = [p \in Names |-> IF p \in lacks THEN read[p] ELSE 0],
                            !.read = <<>>, !.at = "check source"])
            /\ Quiet

Lacking(t) == {p \in Names : transfer[t].add[p] # 0} \ transfer[t].made

NextFile(t) == CHOOSE p \in Lacking(t) : \A q \in Lacking(t) : p <= q

LookForFile(t) ==
    /\ At(t, "look")
    /\ IF Lacking(t) = {} THEN GoesOn(t, "confirm") /\ Quiet
       ELSE IF target.files[NextFile(t)] = 0 THEN GoesOn(t, "put") /\ Quiet
       ELSE Fail(t)

PutFile(t) ==
    /\ At(t, "put")
    /\ LET p == NextFile(t) IN
       /\ Holds([target EXCEPT !.there = TRUE, !.files[p] = transfer[t].add[p]])
       /\ Become(t, [transfer[t] EXCEPT !.made = @ \cup {p}, !.at = "look"])
    /\ UNCHANGED excluded

ConfirmMerge(t) ==
    /\ At(t, "confirm")
    /\ IF \A p \in transfer[t].made : target.files[p] = transfer[t].add[p]
       THEN End(t, "done") /\ Quiet
       ELSE Fail(t)

-----------------------------------------------------------------------------
(* What a failed transfer takes back: files it created, newest first, the  *)
(* marker and the directory that an initialization made, this if it is     *)
(* empty, and its line.                                                    *)
RemoveFile(t) ==
    /\ At(t, "undo")
    /\ transfer[t].made # {}
    /\ LET p == CHOOSE p \in transfer[t].made : \A q \in transfer[t].made : p >= q IN
       /\ Holds([target EXCEPT !.files[p] = 0])
       /\ Become(t, [transfer[t] EXCEPT !.made = @ \ {p}])
    /\ UNCHANGED excluded

RemovesMarker(t) == transfer[t].kind = "initialize" /\ transfer[t].marker = "made"

(* unlink, whoever has found the marker there since                        *)
RemoveMarker(t) ==
    /\ At(t, "undo")
    /\ RemovesMarker(t)
    /\ target' = [target EXCEPT !.marker = FALSE]
    /\ Become(t, [transfer[t] EXCEPT !.marker = "taken back"])
    /\ UNCHANGED <<source, excluded, content, past>>

TakeBack(t) ==
    /\ At(t, "undo")
    /\ transfer[t].made = {} /\ ~RemovesMarker(t)
    /\ target' = [target EXCEPT !.there = @ /\ ~(transfer[t].directory /\ TargetIsEmpty)]
    /\ Become(t, [transfer[t] EXCEPT !.directory = FALSE, !.at = "take line"])
    /\ UNCHANGED <<source, excluded, content, past>>

RestoreLine(t) ==
    /\ At(t, "take line")
    /\ excluded' = (excluded /\ ~transfer[t].applied)
    /\ End(t, "failed")
    /\ UNCHANGED <<source, target, content, past>>

Die(t) ==
    /\ transfer[t].at \notin {"idle", "done", "failed", "dead"}
    /\ End(t, "dead")
    /\ Quiet

-----------------------------------------------------------------------------
(* A client puts a record in a home that is in use.                        *)
ClientPuts(p) ==
    /\ content < MaxContent
    /\ content' = content + 1
    /\ \/ /\ source' = [source EXCEPT ![p] = content + 1]
          /\ past' = [past EXCEPT !["source"] = @ \cup {source'}]
          /\ UNCHANGED target
       \/ /\ target.marker
          /\ target' = [target EXCEPT !.files[p] = content + 1]
          /\ past' = [past EXCEPT !["target"] = @ \cup {target'.files}]
          /\ UNCHANGED source
    /\ UNCHANGED <<excluded, transfer>>

MigratesHome(t) ==
    \/ Found(t, "collect source", "source", "check source") /\ transfer[t].kind = "migrate"
    \/ /\ transfer[t].kind = "migrate"
       /\ Archive(t, "check source", "source", "take archive")
    \/ /\ At(t, "take archive")
       /\ IF TargetIsEmpty
          THEN /\ Become(t, [transfer[t] EXCEPT !.add = transfer[t].archive["source"],
                                                !.at = "compare line"])
               /\ Quiet
          ELSE Refuse(t)

Merges(t) ==
    /\ transfer[t].kind = "merge"
    /\ \/ Found(t, "collect source", "source", "collect target")
       \/ Found(t, "collect target", "target", "read again")
       \/ Compare(t)
       \/ Archive(t, "check source", "source", "check target")
       \/ Archive(t, "check target", "target", "source again")
       \/ Same(t, "source again", "source", "target again")
       \/ Same(t, "target again", "target", "look")
       \/ LookForFile(t) \/ PutFile(t) \/ ConfirmMerge(t)

Works(t) ==
    \/ Plan(t) \/ ReadFile(t) \/ \E h \in Homes : FoundChanged(t, h)
    \/ CheckPlan(t) \/ CompareLine(t) \/ WriteLine(t) \/ AskGit(t)
    \/ MakeDirectory(t) \/ WriteMarker(t) \/ Verify(t)
    \/ FindEmpty(t) \/ Clear(t) \/ Replace(t)
    \/ MigratesHome(t) \/ Merges(t)
    \/ RemoveFile(t) \/ RemoveMarker(t) \/ TakeBack(t) \/ RestoreLine(t) \/ Die(t)

TransferNext ==
    \/ \E t \in Transfers : Works(t)
    \/ \E p \in Names : ClientPuts(p)

TransferSpec == TransferInit /\ [][TransferNext]_transferVars

-----------------------------------------------------------------------------
(* The merges that may touch the target while t works                      *)
OtherMerges(t) == {u \in Transfers \ {t} : transfer[u].kind = "merge"}

(* An archive shows the files that the home had at one time, however they  *)
(* changed while they were read, and a merge adds only what the archive of *)
(* its source holds (apply_portable_backup, _apply_local_backup).  It is   *)
(* not so for the target of a merge beside another merge: a file that this *)
(* puts and takes back between the two readings goes unnoticed.            *)
ArchivesAreSnapshots ==
    \A t \in Transfers : \A h \in Homes :
        LET x == transfer[t] IN
        /\ x.archive[h] # NoArchive /\ (h = "target" => OtherMerges(t) = {}) =>
             x.archive[h] \in past[h]
        /\ x.kind = "merge" /\ x.archive["source"] # NoArchive =>
             \A p \in Names : x.add[p] \in {0, x.archive["source"][p]}

(* An initialization that failed has removed the marker it made.           *)
TookBack == \E t \in Transfers : transfer[t].marker = "taken back"

(* What a transfer has reported as done stays, whichever other transfers   *)
(* run, fail or die: the marker that it brought and every file that it     *)
(* carried, or what clients have made of it since.  A marker that it only  *)
(* found stays unless the initialization that made it takes it back; a     *)
(* merge that was planned before may then write over what a restore has    *)
(* put in the emptied place.  Two merges do not keep this for each other.  *)
SuccessIsKept ==
    \A t \in Transfers :
        LET x == transfer[t] IN
        x.at = "done" =>
            /\ x.marker = "made" \/ ~TookBack => target.marker
            /\ OtherMerges(t) = {} \/ (x.kind # "merge" /\ ~TookBack) =>
                 \A p \in Names : target.files[p] >= x.add[p]
=============================================================================
