----------------------------- MODULE WorkImport -----------------------------
(***************************************************************************)
(* The import of a batch of classified work items: plan, preflight, put    *)
(* every record, then every event, project, render the index, and write    *)
(* the manifest last (work_import.py).  A step that fails puts the targets *)
(* back from a snapshot of bytes, as far as that succeeds, without a lock  *)
(* and without looking at revisions; a process that dies leaves what it    *)
(* wrote.  So two importers may write at once ("overlapped"), and the      *)
(* manifest of an import that failed may stay ("unremoved").               *)
(*                                                                         *)
(* Other clients change the same work items meanwhile with the steps of    *)
(* WorkGraph.  A digest of the graph is the graph; parsing, relations,     *)
(* status transitions and the cycle check are those of WorkGraph and left  *)
(* out.  The snapshot is read in one step.                                 *)
(***************************************************************************)
EXTENDS Integers, Sequences

CONSTANTS Batch,            \* the work items of the batch, in order
          Importers,        \* processes that import it, again when it failed
          Contested,        \* bound: the work items that others change
          MaxImportRevision \* bound: revisions of a work item

VARIABLES
    item,      \* the work-items records of the batch: revision and writer
    logged,    \* the revisions that have a work event
    view,      \* the graph that projection and readable index show
    manifest,  \* the manifest of the import, if there is one
    importer,  \* what each importer does
    disturbed, \* history: the importers since whose snapshot others wrote
    overlapped, \* history: two importers were writing at once
    unremoved  \* history: a rollback could not remove its manifest

importVars ==
    <<item, logged, view, manifest, importer, disturbed, overlapped, unremoved>>

Batched == {Batch[n] : n \in DOMAIN Batch}

ASSUME BatchAssumption ==
    /\ Batch \in Seq(Batched)
    /\ Contested \subseteq Batched
    /\ "nobody" \notin Importers /\ "others" \notin Importers

NoManifest == [i \in Batched |-> 0]

IdleImporter == [at |-> "idle"]

(* What an import writes, in the order in which it does.                   *)
Targets ==
    [n \in 1 .. Len(Batch) |-> <<"item", Batch[n]>>]
    \o [n \in 1 .. Len(Batch) |-> <<"event", Batch[n]>>]
    \o << <<"projection">>, <<"index">>, <<"manifest">> >>

ImportInit ==
    /\ item = [i \in Batched |-> [revision |-> 0, by |-> "nobody"]]
    /\ logged = [i \in Batched |-> {}]
    /\ view = [v \in {"projection", "index"} |-> item]
    /\ manifest = NoManifest
    /\ importer = [p \in Importers |-> IdleImporter]
    /\ disturbed = {}
    /\ overlapped = FALSE
    /\ unremoved = FALSE

-----------------------------------------------------------------------------
Become(p, state) == importer' = [importer EXCEPT ![p] = state]

Ends(p, how) == Become(p, [at |-> how])

(* _manifest_effects_exist                                                 *)
EffectsExist ==
    \A i \in Batched : /\ item[i].revision >= manifest[i]
                       /\ item[i].revision = manifest[i] => item[i].by \in Importers
                       /\ manifest[i] \in logged[i]

(* prepare_work_import: a batch whose manifest is there is a no-op.        *)
PrepareImport(p) ==
    /\ importer[p].at \in {"idle", "refused", "rolled-back", "dead"}
    /\ IF manifest # NoManifest
       THEN Ends(p, IF EffectsExist THEN "already-applied" ELSE "refused")
       ELSE /\ \A i \in Batched : /\ item[i].revision < MaxImportRevision
                                  /\ item[i].revision + 1 \notin logged[i]
            /\ Become(p,
                 [at |-> "planned", before |-> item, seen |-> view,
                  after |-> [i \in Batched |->
                               [revision |-> item[i].revision + 1, by |-> p]]])
    /\ UNCHANGED <<item, logged, view, manifest, disturbed, overlapped, unremoved>>

AtWork(p) == importer[p].at \in {"writing", "restoring"}

(* Every check of apply_work_import before it writes, and the snapshot.    *)
PreflightImport(p) ==
    /\ importer[p].at = "planned"
    /\ item = importer[p].before
    /\ \A i \in Batched : importer[p].after[i].revision \notin logged[i]
    /\ view = importer[p].seen
    /\ manifest = NoManifest
    /\ Become(p, [at |-> "writing", next |-> 1, after |-> importer[p].after,
                  seen |-> view,
                  kept |-> [item |-> item, logged |-> logged, view |-> view,
                            manifest |-> manifest]])
    /\ disturbed' = disturbed \ {p}
    /\ overlapped' = (overlapped \/ \E q \in Importers \ {p} : AtWork(q))
    /\ UNCHANGED <<item, logged, view, manifest, unremoved>>

(* One of the writes, with the checks that come with it: a record against  *)
(* its revision, the projection against the planned graph, the index       *)
(* against graph and index as planned.                                     *)
WriteNext(p) ==
    LET me == importer[p]
        target == Targets[me.next]
    IN /\ me.at = "writing"
       /\ me.next <= Len(Targets)
       /\ CASE target[1] = "item" ->
                 /\ item[target[2]].revision = me.after[target[2]].revision - 1
                 /\ item' = [item EXCEPT ![target[2]] = me.after[target[2]]]
                 /\ UNCHANGED <<logged, view, manifest>>
            [] target[1] = "event" ->
                 /\ me.after[target[2]].revision \notin logged[target[2]]
                 /\ logged' = [logged EXCEPT ![target[2]] =
                                 @ \cup {me.after[target[2]].revision}]
                 /\ UNCHANGED <<item, view, manifest>>
            [] target[1] \in {"projection", "index"} ->
                 /\ item = me.after
                 /\ target[1] = "index" => view["index"] = me.seen["index"]
                 /\ view' = [view EXCEPT ![target[1]] = me.after]
                 /\ UNCHANGED <<item, logged, manifest>>
            [] target[1] = "manifest" ->
                 /\ manifest' = [i \in Batched |-> me.after[i].revision]
                 /\ UNCHANGED <<item, logged, view>>
       /\ Become(p, [me EXCEPT !.next = @ + 1])
       /\ disturbed' = disturbed \cup (Importers \ {p})
       /\ UNCHANGED <<overlapped, unremoved>>

(* The manifest is read again.                                             *)
VerifyImport(p) ==
    /\ importer[p].at = "writing"
    /\ importer[p].next > Len(Targets)
    /\ manifest = [i \in Batched |-> importer[p].after[i].revision]
    /\ Ends(p, "applied")
    /\ UNCHANGED <<item, logged, view, manifest, disturbed, overlapped, unremoved>>

(* A check or a write fails: rollback, from the last target to the first.  *)
Fail(p) ==
    /\ importer[p].at = "writing"
    /\ Become(p, [at |-> "restoring", next |-> Len(Targets), kept |-> importer[p].kept,
                  left |-> {}])
    /\ UNCHANGED <<item, logged, view, manifest, disturbed, overlapped, unremoved>>

\* mutant: the events of the batch are not put back
RestoreRecordsOnly(target, kept) ==
    /\ item' = IF target[1] = "item" THEN [item EXCEPT ![target[2]] = kept.item[target[2]]]
               ELSE item
    /\ UNCHANGED logged
    /\ view' = IF target[1] \in DOMAIN view
               THEN [view EXCEPT ![target[1]] = kept.view[target[1]]] ELSE view
    /\ manifest' = IF target[1] = "manifest" THEN kept.manifest ELSE manifest

(* A snapshot of bytes, or the absence of the file                         *)
RestoreTarget(target, kept) ==
    /\ item' = IF target[1] = "item" THEN [item EXCEPT ![target[2]] = kept.item[target[2]]]
               ELSE item
    /\ logged' = IF target[1] = "event"
                 THEN [logged EXCEPT ![target[2]] = kept.logged[target[2]]] ELSE logged
    /\ view' = IF target[1] \in DOMAIN view
               THEN [view EXCEPT ![target[1]] = kept.view[target[1]]] ELSE view
    /\ manifest' = IF target[1] = "manifest" THEN kept.manifest ELSE manifest

(* The targets left are those that the rollback could not restore: with    *)
(* any it raises in the end, after the first target.                       *)
GoesOn(p, left) ==
    LET me == importer[p]
    IN Become(p, IF me.next = 1
                 THEN [at |-> "rolled-back", kept |-> me.kept, left |-> left]
                 ELSE [me EXCEPT !.next = @ - 1, !.left = left])

Restore(p) ==
    /\ importer[p].at = "restoring"
    /\ RestoreTarget(Targets[importer[p].next], importer[p].kept)
    /\ GoesOn(p, importer[p].left)
    /\ disturbed' = disturbed \cup (Importers \ {p})
    /\ UNCHANGED <<overlapped, unremoved>>

(* An OSError for one target, which stays as it is; the others are tried.  *)
CannotRestore(p) ==
    /\ importer[p].at = "restoring"
    /\ GoesOn(p, importer[p].left \cup {importer[p].next})
    /\ unremoved' = (unremoved \/ importer[p].next = Len(Targets))
    /\ UNCHANGED <<item, logged, view, manifest, disturbed, overlapped>>

(* A check before the first write fails, that of the source's inventory,   *)
(* which is taken again right before, among them.                          *)
Refuse(p) ==
    /\ importer[p].at = "planned"
    /\ Ends(p, "refused")
    /\ UNCHANGED <<item, logged, view, manifest, disturbed, overlapped, unremoved>>

Die(p) ==
    /\ importer[p].at \in {"planned", "writing", "restoring"}
    /\ Ends(p, "dead")
    /\ UNCHANGED <<item, logged, view, manifest, disturbed, overlapped, unremoved>>

(* Others: the record, the event and the views are separate writes.        *)
OthersPut(i) ==
    /\ item[i].revision < MaxImportRevision
    /\ item' = [item EXCEPT ![i] = [revision |-> @.revision + 1, by |-> "others"]]
    /\ UNCHANGED <<logged, view>>

OthersLog(i) ==
    /\ item[i].by = "others"
    /\ item[i].revision \notin logged[i]
    /\ logged' = [logged EXCEPT ![i] = @ \cup {item[i].revision}]
    /\ UNCHANGED <<item, view>>

OthersView(v) ==
    /\ view[v] # item
    /\ view' = [view EXCEPT ![v] = item]
    /\ UNCHANGED <<item, logged>>

Others ==
    /\ \/ \E i \in Contested : OthersPut(i) \/ OthersLog(i)
       \/ \E v \in DOMAIN view : OthersView(v)
    /\ disturbed' = Importers
    /\ UNCHANGED <<manifest, importer, overlapped, unremoved>>

ImportNext ==
    \/ \E p \in Importers : \/ PrepareImport(p) \/ PreflightImport(p) \/ WriteNext(p)
                            \/ VerifyImport(p) \/ Fail(p)
                            \/ Restore(p) \/ CannotRestore(p) \/ Refuse(p) \/ Die(p)
    \/ Others

ImportSpec == ImportInit /\ [][ImportNext]_importVars

-----------------------------------------------------------------------------
(* Properties.                                                             *)

AsKept(target, kept) ==
    CASE target[1] = "item" -> item[target[2]] = kept.item[target[2]]
      [] target[1] = "event" -> logged[target[2]] = kept.logged[target[2]]
      [] target[1] \in {"projection", "index"} -> view[target[1]] = kept.view[target[1]]
      [] target[1] = "manifest" -> manifest = kept.manifest

(* What is left of an import, wherever it stopped and whatever other       *)
(* clients did meanwhile: a manifest only of a batch that is there as a    *)
(* whole ("an absent manifest never claims that a partial import           *)
(* completed"), unless two importers wrote at once or a rollback reported  *)
(* that it could not remove the manifest; and of one that failed nothing   *)
(* but the targets it could not restore, when nobody else wrote since its  *)
(* snapshot.                                                               *)
WholeOrNothing ==
    /\ manifest # NoManifest /\ ~overlapped /\ ~unremoved => EffectsExist
    /\ \A p \in Importers \ disturbed : importer[p].at = "rolled-back" =>
         \A n \in DOMAIN Targets \ importer[p].left : AsKept(Targets[n], importer[p].kept)
=============================================================================
