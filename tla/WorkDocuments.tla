--------------------------- MODULE WorkDocuments ---------------------------
(***************************************************************************)
(* The work documents of one project: files in a directory, and a manifest *)
(* that lists them (work_documents.py, work_document_layout_migration.py). *)
(* Tools copy documents from outside, move the old layout (a year, an item *)
(* and a name) to the new one (an item and a name) by copying, take new    *)
(* and edited documents into the manifest, and make the listed digests the *)
(* evidence of work items.  Meanwhile the owner edits, tools die, and a    *)
(* plan may be applied long after it was made.                             *)
(*                                                                         *)
(* A content stands for its digest; the documents of all items are taken   *)
(* together, and a place is an item with a name.  The documents of tasks,  *)
(* bundles shared by several items, and identities that wait for a review  *)
(* are left out.                                                           *)
(***************************************************************************)
EXTENDS Integers, FiniteSets

CONSTANTS Sources,   \* documents outside
          Olds,      \* documents in the old layout
          PlaceOf,   \* where each of both belongs
          Excluded,  \* old documents that a reviewer excluded
          Texts,     \* the contents of documents
          Tools,
          MaxMishaps \* bound: edits of the owner, failures and deaths

VARIABLES
    outside,   \* the contents of the documents outside
    doc,       \* the files of the directory
    manifest,
    tool,      \* what each tool does
    touched,   \* history: the files that the owner edited
    spoilt,    \* history: a tool wrote while another tool was at work
    mishaps

docsVars == <<outside, doc, manifest, tool, touched, spoilt, mishaps>>

Nothing == 0

ASSUME WorkDocumentsAssumption ==
    Nothing \notin Texts /\ Sources \cup Olds \subseteq DOMAIN PlaceOf

NoManifest == [layout |-> 0]

IdleTool == [at |-> "idle"]

Old(o) == <<"old", o>>
Plain(place) == <<"new", place>>
Suffixed(p, content) == <<"new", p, content>>

DocPlaces == {PlaceOf[d] : d \in DOMAIN PlaceOf}

Paths ==
    {Old(o) : o \in Olds}
    \cup {Plain(q) : q \in DocPlaces} \cup {Suffixed(q, c) : q \in DocPlaces, c \in Texts}

IsOld(p) == p[1] = "old"

-----------------------------------------------------------------------------
(* Where documents go, given as pairs of a file or a document outside and  *)
(* a path that it belongs to: equal contents of one path are one, and      *)
(* different contents of one path all get a suffix.                        *)
ContentsAt(p, wanted, has) == {has[w[1]] : w \in {v \in wanted : v[2] = p}}

Target(w, wanted, has) ==
    IF Cardinality(ContentsAt(w[2], wanted, has)) > 1 THEN Suffixed(w[2][2], has[w[1]]) ELSE w[2]

Targets(wanted, has) == {<<w[1], Target(w, wanted, has)>> : w \in wanted}

(* A suffixed name may be taken by a file with another content.            *)
Conflict(targets, has) ==
    \E v, w \in targets : v[2] = w[2] /\ has[v[1]] # has[w[1]]

(* Of the documents with one target one is its origin, by their names.     *)
Origin(p, targets) == CHOOSE s \in {w[1] : w \in targets} : <<s, p>> \in targets

(* What has to be copied where, if it is not there                         *)
Copies(targets, has) ==
    {[from |-> Origin(p, targets), to |-> p, content |-> has[Origin(p, targets)]] :
       p \in {w[2] : w \in targets}}

New(content) == [sha |-> content, revision |-> 1, previous |-> Nothing]

(* An entry that says it replaced its own content is refused.              *)
Valid(m) ==
    m.layout # 0 /\ \A p \in DOMAIN m.entries : m.entries[p].previous # m.entries[p].sha

-----------------------------------------------------------------------------
(* The plans, each of them with what it read.                              *)

(* prepare_initial_work_document_copy                                      *)
CopyPlan ==
    LET wanted  == {<<s, Plain(PlaceOf[s])>> : s \in {t \in Sources : outside[t] # Nothing}}
        targets == Targets(wanted, outside)
        copies  == Copies(targets, outside)
    IN  [kind |-> "copy", copies |-> copies, compares |-> NoManifest,
         reads |-> [d \in {c.from : c \in copies} |-> outside[d]],
         refused |-> \E c \in copies : doc[c.to] \notin {Nothing, c.content},
         becomes |-> [layout |-> 2, aliases |-> {}, preserved |-> {},
                      entries |-> [p \in {c.to : c \in copies} |->
                                     New((CHOOSE c \in copies : c.to = p).content)]]]

(* The files that a migration takes up: of the old layout those that are   *)
(* neither excluded nor left behind by an earlier migration                *)
TakenUp ==
    {p \in Paths : doc[p] # Nothing /\ (IsOld(p) => p[2] \notin Excluded)}
    \ ({a[1] : a \in manifest.aliases} \cup manifest.preserved)

(* prepare_work_document_layout_migration.  An entry keeps its revision    *)
(* and what it replaced, whatever the file has become.                     *)
MigrationPlan ==
    LET wanted  == {<<p, IF IsOld(p) THEN Plain(PlaceOf[p[2]]) ELSE p>> : p \in TakenUp}
        targets == Targets(wanted, doc)
        copies  == Copies(targets, doc)
        others  == DOMAIN manifest.entries \ TakenUp
        kept    == {p \in others : ~IsOld(p)}
    IN  [kind |-> "migration", copies |-> copies, compares |-> manifest,
         reads |-> [p \in TakenUp |-> doc[p]],
         refused |-> Conflict(targets, doc),
         becomes |->
           [layout |-> 2,
            aliases |-> manifest.aliases \cup {w \in targets : w[1] # w[2]},
            preserved |-> manifest.preserved \cup {p \in others : IsOld(p)},
            entries |->
              [p \in {c.to : c \in copies} \cup kept |->
                 IF p \in kept /\ \A c \in copies : c.to # p THEN manifest.entries[p]
                 ELSE LET c == CHOOSE d \in copies : d.to = p
                      IN  IF c.from \in DOMAIN manifest.entries
                          THEN [manifest.entries[c.from] EXCEPT !.sha = c.content]
                          ELSE New(c.content)]]]

(* The documents of the new layout that the manifest does not list as they *)
(* are                                                                     *)
Unlisted(m) ==
    {p \in Paths : /\ ~IsOld(p) /\ doc[p] # Nothing
                   /\ p \in DOMAIN m.entries => m.entries[p].sha # doc[p]}

(* prepare_work_document_manifest_update                                   *)
UpdatePlan ==
    [kind |-> "update", copies |-> {}, compares |-> manifest,
     reads |-> [p \in Unlisted(manifest) |-> doc[p]],
     refused |-> manifest.layout = 1,
     becomes |->
       [manifest EXCEPT !.entries =
          [p \in DOMAIN manifest.entries \cup Unlisted(manifest) |->
             IF p \notin Unlisted(manifest) THEN manifest.entries[p]
             ELSE IF p \in DOMAIN manifest.entries
                  THEN [sha |-> doc[p], revision |-> manifest.entries[p].revision + 1,
                        previous |-> manifest.entries[p].sha]
                  ELSE New(doc[p])]]]

(* A plan is made at one moment here: whatever it rests on is read again   *)
(* before anything is written.                                             *)
PlanWith(t, plan) ==
    /\ tool[t].at = "idle"
    /\ ~plan.refused
    /\ plan.becomes # manifest \/ \E c \in plan.copies : doc[c.to] = Nothing
    /\ tool' = [tool EXCEPT ![t] = [at |-> "planned", plan |-> plan]]
    /\ UNCHANGED <<outside, doc, manifest, touched, spoilt, mishaps>>

PlanAny(t) ==
    \/ PlanWith(t, CopyPlan)
    \/ Valid(manifest) /\ (PlanWith(t, MigrationPlan) \/ PlanWith(t, UpdatePlan))

-----------------------------------------------------------------------------
(* The three apply functions.  AtWork is a tool that has begun to compare. *)
AtWork(t) == tool[t].at \notin {"idle", "planned", "imported"}

Overlaps(t) == spoilt' = (spoilt \/ \E u \in Tools \ {t} : AtWork(u))

ToolGoes(t, at) == tool' = [tool EXCEPT ![t].at = at]

Has(plan, f) == IF plan.kind = "copy" THEN outside[f] ELSE doc[f]

(* The manifest, by a copy never, the documents and their targets are      *)
(* compared with the plan; what changes meanwhile may as well change       *)
(* before or after.                                                        *)
CompareFiles(t) ==
    /\ tool[t].at = "planned"
    /\ LET plan == tool[t].plan
       IN  /\ plan.kind # "copy" => manifest = plan.compares
           /\ \A f \in DOMAIN plan.reads : Has(plan, f) = plan.reads[f]
           /\ \A c \in plan.copies : doc[c.to] \in {Nothing, c.content}
           /\ tool' = [tool EXCEPT ![t] = [at |-> "copying", plan |-> plan, left |-> plan.copies,
                                          created |-> {}, backup |-> manifest]]
    /\ Overlaps(t)
    /\ UNCHANGED <<outside, doc, manifest, touched, mishaps>>

(* A copy that turns out to be something else is not among the created.    *)
CopyFile(t) ==
    /\ tool[t].at = "copying"
    /\ \E c \in tool[t].left :
         IF doc[c.to] # Nothing
         THEN tool' = [tool EXCEPT ![t].left = @ \ {c}] /\ UNCHANGED doc
         ELSE LET found == Has(tool[t].plan, c.from)
              IN  /\ doc' = [doc EXCEPT ![c.to] = found]
                  /\ IF found = c.content
                     THEN tool' = [tool EXCEPT ![t].left = @ \ {c}, ![t].created = @ \cup {c.to}]
                     ELSE ToolGoes(t, "undoing")
    /\ Overlaps(t)
    /\ UNCHANGED <<outside, manifest, touched, mishaps>>

Verified(t) ==
    tool[t].plan.kind = "copy" \/ (Valid(manifest) /\ manifest = tool[t].plan.becomes)

\* mutant: not all documents are there yet
InstallEarly(t) ==
    /\ tool[t].at = "copying"
    /\ manifest' = tool[t].plan.becomes
    /\ tool' = [tool EXCEPT ![t] = IF @.plan.kind = "copy" THEN IdleTool ELSE [@ EXCEPT !.at = "verifying"]]
    /\ Overlaps(t)
    /\ UNCHANGED <<outside, doc, touched, mishaps>>

(* The manifest comes last; a copy does not read it again.                 *)
Install(t) ==
    /\ tool[t].at = "copying"
    /\ tool[t].left = {}
    /\ manifest' = tool[t].plan.becomes
    /\ tool' = [tool EXCEPT ![t] = IF @.plan.kind = "copy" THEN IdleTool ELSE [@ EXCEPT !.at = "verifying"]]
    /\ Overlaps(t)
    /\ UNCHANGED <<outside, doc, touched, mishaps>>

VerifyManifest(t) ==
    /\ tool[t].at = "verifying"
    /\ IF Verified(t) THEN tool' = [tool EXCEPT ![t] = IdleTool] ELSE ToolGoes(t, "undoing")
    /\ UNCHANGED <<outside, doc, manifest, touched, spoilt, mishaps>>

CopyFails(t) ==
    /\ tool[t].at = "copying"
    /\ mishaps < MaxMishaps
    /\ mishaps' = mishaps + 1
    /\ ToolGoes(t, "undoing")
    /\ UNCHANGED <<outside, doc, manifest, touched, spoilt>>

Unlink(t, at) ==
    \E p \in tool[t].created :
      /\ doc' = [doc EXCEPT ![p] = Nothing]
      /\ tool' = [tool EXCEPT ![t].at = at, ![t].created = @ \ {p}]
      /\ UNCHANGED manifest

PutBack(t, at) == manifest' = tool[t].backup /\ ToolGoes(t, at) /\ UNCHANGED doc

(* A migration puts the manifest back and then unlinks what it created; a  *)
(* copy does so the other way round.                                       *)
UndoStep(t) ==
    IF tool[t].plan.kind = "copy"
    THEN \/ tool[t].at = "undoing" /\ Unlink(t, "undoing")
         \/ tool[t].at = "undoing" /\ tool[t].created = {} /\ PutBack(t, "unlinking")
    ELSE \/ tool[t].at = "undoing" /\ PutBack(t, "unlinking")
         \/ tool[t].at = "unlinking" /\ Unlink(t, "unlinking")

Undo(t) ==
    /\ tool[t].at \in {"undoing", "unlinking"}
    /\ UndoStep(t)
    /\ Overlaps(t)
    /\ UNCHANGED <<outside, touched, mishaps>>

(* It is undone or imported, or a plan is dropped, which may have failed   *)
(* its comparison.                                                         *)
LeavePlan(t) ==
    /\ \/ tool[t].at \in {"planned", "imported"}
       \/ tool[t].at = "unlinking" /\ tool[t].created = {}
    /\ tool' = [tool EXCEPT ![t] = IdleTool]
    /\ UNCHANGED <<outside, doc, manifest, touched, spoilt, mishaps>>

ToolDies(t) ==
    /\ AtWork(t)
    /\ mishaps < MaxMishaps
    /\ mishaps' = mishaps + 1
    /\ tool' = [tool EXCEPT ![t] = IdleTool]
    /\ UNCHANGED <<outside, doc, manifest, touched, spoilt>>

-----------------------------------------------------------------------------
(* prepare_work_document_processing: every listed file is read.            *)
ReadListed(t) ==
    /\ tool[t].at = "idle"
    /\ Valid(manifest)
    /\ manifest.layout = 2 => Unlisted(manifest) = {}
    /\ \A p \in DOMAIN manifest.entries : doc[p] = manifest.entries[p].sha
    /\ tool' = [tool EXCEPT ![t] = [at |-> "reading", layout |-> manifest.layout,
                  found |-> [p \in DOMAIN manifest.entries |-> doc[p]]]]
    /\ Overlaps(t)
    /\ UNCHANGED <<outside, doc, manifest, touched, mishaps>>

(* Then what else is there: it counts in the old layout, and stops the     *)
(* processing of the new one, unless it is an old file.  The work items    *)
(* take the digests as their evidence.                                     *)
Import(t) ==
    /\ tool[t].at = "reading"
    /\ LET also == {p \in Paths \ DOMAIN tool[t].found :
                      doc[p] # Nothing /\ (IsOld(p) => tool[t].layout = 1)}
       IN  /\ tool[t].layout = 2 => also = {}
           /\ tool' = [tool EXCEPT ![t] =
                 [at |-> "imported",
                  evidence |-> [p \in DOMAIN @.found \cup also |->
                                  IF p \in also THEN doc[p] ELSE @.found[p]]]]
    /\ UNCHANGED <<outside, doc, manifest, touched, spoilt, mishaps>>

-----------------------------------------------------------------------------
(* The owner adds, edits or removes a document, here or outside.           *)
OwnerEdits(p, content) ==
    /\ mishaps < MaxMishaps
    /\ mishaps' = mishaps + 1
    /\ doc[p] # content
    /\ doc' = [doc EXCEPT ![p] = content]
    /\ touched' = touched \cup {p}
    /\ UNCHANGED <<outside, manifest, tool, spoilt>>

EditOutside(s, content) ==
    /\ mishaps < MaxMishaps
    /\ mishaps' = mishaps + 1
    /\ outside[s] # content
    /\ outside' = [outside EXCEPT ![s] = content]
    /\ UNCHANGED <<doc, manifest, tool, touched, spoilt>>

(* Nothing has been copied yet, or the old layout is listed, or documents  *)
(* of the new one that were revised once.                                  *)
DocsInit ==
    /\ outside \in [Sources -> Texts]
    /\ \/ /\ doc = [p \in Paths |-> Nothing]
          /\ manifest = NoManifest
       \/ \E olds \in [Olds -> Texts] :
            /\ doc = [p \in Paths |-> IF IsOld(p) THEN olds[p[2]] ELSE Nothing]
            /\ manifest = [layout |-> 1, aliases |-> {}, preserved |-> {},
                           entries |-> [p \in {Old(o) : o \in Olds} |-> New(olds[p[2]])]]
       \/ \E first, second \in Texts :
            /\ first # second
            /\ doc = [p \in Paths |-> IF p \in {Plain(q) : q \in DocPlaces} THEN second ELSE Nothing]
            /\ manifest = [layout |-> 2, aliases |-> {}, preserved |-> {},
                           entries |-> [p \in {Plain(q) : q \in DocPlaces} |->
                              [sha |-> second, revision |-> 2, previous |-> first]]]
    /\ tool = [t \in Tools |-> IdleTool]
    /\ touched = {}
    /\ spoilt = FALSE
    /\ mishaps = 0

(* Nothing is said of what follows when tools have overlapped.             *)
DocsNext ==
    /\ ~spoilt
    /\ \/ \E t \in Tools :
            \/ PlanAny(t) \/ CompareFiles(t) \/ CopyFile(t) \/ Install(t) \/ VerifyManifest(t)
            \/ CopyFails(t) \/ Undo(t) \/ LeavePlan(t) \/ ToolDies(t) \/ ReadListed(t) \/ Import(t)
       \/ \E p \in Paths, c \in Texts \cup {Nothing} : OwnerEdits(p, c)
       \/ \E s \in Sources, c \in Texts \cup {Nothing} : EditOutside(s, c)

DocsSpec == DocsInit /\ [][DocsNext]_docsVars

-----------------------------------------------------------------------------
(* What the manifest lists and what the work items name as evidence is     *)
(* there with that content, unless the owner edited it, wherever a copy, a  *)
(* migration or an update fails or dies, and however old its plan is; as   *)
(* long as no tool wrote while another one was at work.                    *)
ListedIsThere ==
    ~spoilt =>
      /\ manifest # NoManifest =>
           \A p \in DOMAIN manifest.entries \ touched : doc[p] = manifest.entries[p].sha
      /\ \A t \in Tools : tool[t].at = "imported" =>
           \A p \in DOMAIN tool[t].evidence \ touched : doc[p] = tool[t].evidence[p]
=============================================================================
