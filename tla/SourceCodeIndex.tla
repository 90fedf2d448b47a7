-------------------------- MODULE SourceCodeIndex --------------------------
(***************************************************************************)
(* The source code index of one project (source_code_index.py): a derived  *)
(* file without source text, built from the accepted scan of the source    *)
(* and replaced as a whole, and the search that reads its hits in place.   *)
(* Several processes index, one searches, the owner edits the source and   *)
(* its binding moves to another directory.  What else an integration does  *)
(* is ProjectIntegration's.                                                *)
(*                                                                         *)
(* A text stands for its digest, its size and its chunks.                  *)
(***************************************************************************)
EXTENDS Integers, FiniteSets

CONSTANTS Files,
          Roots,       \* directories with a copy of the source; 1 is given first
          Texts,
          Unindexed,   \* texts that are sensitive or binary
          Indexers,
          MaxScans,    \* bound: revisions of the accepted scan
          MaxEdits     \* bound: edits of files

VARIABLES
    copy,      \* the text of each file in each directory
    binding,   \* the bound directory, and the revision of the binding
    accepted,  \* the source state: the accepted scan and its revision
    installed, \* the installed index
    job,       \* what each indexer does
    search,    \* what the search does
    edits

codeVars == <<copy, binding, accepted, installed, job, search, edits>>

Gone == "gone"

NoIndex == [under |-> 0]

Idle == [at |-> "idle"]

-----------------------------------------------------------------------------
(* The files of a scan that an index has, with their texts                 *)
Indexed(scan) ==
    [f \in {g \in Files : scan[g] \notin Unindexed \cup {Gone}} |-> scan[f]]

\* mutant: the digest of the source is not compared
FitsBinding(i, scan, revision) == i.under = revision

(* The index was built for this scan under this revision of the binding.   *)
Fits(i, scan, revision) == i.under = revision /\ i.of = scan

(* source_code_index_summary, source_code_index_is_current                 *)
Current(scan, revision) == installed # NoIndex /\ Fits(installed, scan, revision)

(* A file is read and is what the scan says.                               *)
Verified(root, f, scan) == copy[root][f] = scan[f]

-----------------------------------------------------------------------------
(* Indexing.                                                               *)

Begin(x, scan, at) ==
    job' = [job EXCEPT ![x] =
              [at |-> at, root |-> binding.root, under |-> binding.revision,
               scan |-> scan, from |-> accepted.revision, left |-> Files]]

(* An integration scans the source, file by file ...                       *)
Integrate(x) ==
    /\ job[x].at = "idle"
    /\ Begin(x, [f \in Files |-> Gone], "scanning")
    /\ UNCHANGED <<copy, binding, accepted, installed, search, edits>>

MoveOn(x, at) == job' = [job EXCEPT ![x].at = at, ![x].left = Files]

ScanFile(x) ==
    /\ job[x].at = "scanning"
    /\ IF job[x].left = {} THEN MoveOn(x, "choosing")
       ELSE \E f \in job[x].left :
              job' = [job EXCEPT ![x].left = @ \ {f}, ![x].scan[f] = copy[job[x].root][f]]
    /\ UNCHANGED <<copy, binding, accepted, installed, search, edits>>

(* ... and the index operation takes the accepted one.                     *)
Reindex(x) ==
    /\ job[x].at = "idle"
    /\ ~Current(accepted.scan, binding.revision)
    /\ Begin(x, accepted.scan, "choosing")
    /\ UNCHANGED <<copy, binding, accepted, installed, search, edits>>

(* The installed index is loaded once, whatever it was built for: a file   *)
(* with the same text is taken from it; the others are read, and those     *)
(* that have nothing to hide are indexed.                                  *)
Choose(x) ==
    /\ job[x].at = "choosing"
    /\ job' = [job EXCEPT ![x] = [at |-> "preparing", root |-> @.root, under |-> @.under,
                 scan |-> @.scan, from |-> @.from, exists |-> installed # NoIndex,
                 built |-> <<>>,
                 left |-> {f \in Files : @.scan[f] # Gone},
                 reused |-> IF installed = NoIndex THEN {}
                            ELSE {f \in DOMAIN installed.files :
                                    installed.files[f] = @.scan[f]}]]
    /\ UNCHANGED <<copy, binding, accepted, installed, search, edits>>

Extend(built, f, text) ==
    [g \in DOMAIN built \cup {f} |-> IF g = f THEN text ELSE built[g]]

PrepareFile(x) ==
    /\ job[x].at = "preparing"
    /\ \E f \in job[x].left :
         /\ f \in job[x].reused \/ Verified(job[x].root, f, job[x].scan)
         /\ job' = [job EXCEPT ![x].left = @ \ {f},
                               ![x].built = IF f \in DOMAIN Indexed(job[x].scan)
                                            THEN Extend(@, f, job[x].scan[f]) ELSE @]
    /\ UNCHANGED <<copy, binding, accepted, installed, search, edits>>

(* The scan is accepted before its index is installed.                     *)
Accept(x) ==
    /\ job[x].at = "preparing"
    /\ job[x].left = {}
    /\ IF job[x].scan = accepted.scan THEN UNCHANGED accepted
       ELSE /\ accepted.revision = job[x].from
            /\ accepted.revision < MaxScans
            /\ accepted' = [revision |-> accepted.revision + 1, scan |-> job[x].scan]
    /\ job' = [job EXCEPT ![x].at = "verifying", ![x].left = DOMAIN job[x].built]
    /\ UNCHANGED <<copy, binding, installed, search, edits>>

VerifyFile(x) ==
    /\ job[x].at = "verifying"
    /\ \E f \in job[x].left :
         /\ Verified(job[x].root, f, job[x].built)
         /\ job' = [job EXCEPT ![x].left = @ \ {f}]
    /\ UNCHANGED <<copy, binding, accepted, installed, search, edits>>

Install(x) ==
    /\ job[x].at = "verifying"
    /\ job[x].left = {}
    /\ job[x].exists = (installed # NoIndex)
    /\ installed' = [under |-> job[x].under, of |-> job[x].scan, files |-> job[x].built]
    /\ job' = [job EXCEPT ![x] = Idle]
    /\ UNCHANGED <<copy, binding, accepted, search, edits>>

(* A check fails, or the process dies.                                     *)
GiveUp(x) ==
    /\ job[x].at \notin {"idle", "scanning"}
    /\ job' = [job EXCEPT ![x] = Idle]
    /\ UNCHANGED <<copy, binding, accepted, installed, search, edits>>

-----------------------------------------------------------------------------
(* retrieve_source_code, for a query that every chunk answers.  Binding    *)
(* and source state are read one after the other.                          *)
ReadBinding ==
    /\ search.at = "idle"
    /\ search' = [at |-> "state", root |-> binding.root, under |-> binding.revision]
    /\ UNCHANGED <<copy, binding, accepted, installed, job, edits>>

ReadState ==
    /\ search.at = "state"
    /\ search' = [at |-> "open", root |-> search.root, under |-> search.under,
                  scan |-> accepted.scan]
    /\ UNCHANGED <<copy, binding, accepted, installed, job, edits>>

(* The rows come from one installed index, also when it is replaced while  *)
(* they are read.                                                          *)
OpenIndex ==
    /\ search.at = "open"
    /\ Current(search.scan, search.under)
    /\ search' = [at |-> "reading", root |-> search.root, scan |-> search.scan,
                  rows |-> installed.files, left |-> DOMAIN installed.files]
    /\ UNCHANGED <<copy, binding, accepted, installed, job, edits>>

ReadHit ==
    /\ search.at = "reading"
    /\ \E f \in search.left :
         /\ Verified(search.root, f, search.rows)
         /\ search' = [search EXCEPT !.left = @ \ {f}]
    /\ UNCHANGED <<copy, binding, accepted, installed, job, edits>>

(* The content of the hits is asked for or not.                            *)
Answer(withContent) ==
    /\ search.at = "reading"
    /\ search.left = IF withContent THEN {} ELSE DOMAIN search.rows
    /\ search' = [at |-> "answered", scan |-> search.scan, hits |-> search.rows]
    /\ UNCHANGED <<copy, binding, accepted, installed, job, edits>>

EndSearch ==
    /\ search.at # "idle"
    /\ search' = Idle
    /\ UNCHANGED <<copy, binding, accepted, installed, job, edits>>

-----------------------------------------------------------------------------
(* The owner edits, adds or removes a file.                                *)
Edit(root, f, text) ==
    /\ edits < MaxEdits
    /\ edits' = edits + 1
    /\ copy' = [copy EXCEPT ![root][f] = text]
    /\ UNCHANGED <<binding, accepted, installed, job, search>>

(* project.rebind: another directory, with the accepted content            *)
Rebind(root) ==
    /\ root # binding.root
    /\ copy[root] = accepted.scan
    /\ accepted.revision < MaxScans
    /\ binding' = [root |-> root, revision |-> binding.revision + 1]
    /\ accepted' = [accepted EXCEPT !.revision = @ + 1]
    /\ UNCHANGED <<copy, installed, job, search, edits>>

(* A source was learned; it has no index yet.                              *)
CodeInit ==
    /\ copy \in {[r \in Roots |-> texts] : texts \in [Files -> Texts]}
    /\ binding = [root |-> 1, revision |-> 1]
    /\ accepted = [revision |-> 1, scan |-> copy[1]]
    /\ installed = NoIndex
    /\ job = [x \in Indexers |-> Idle]
    /\ search = Idle
    /\ edits = 0

CodeNext ==
    \/ \E x \in Indexers :
         \/ Integrate(x) \/ ScanFile(x) \/ Reindex(x) \/ Choose(x) \/ PrepareFile(x)
         \/ Accept(x) \/ VerifyFile(x) \/ Install(x) \/ GiveUp(x)
    \/ ReadBinding \/ ReadState \/ OpenIndex \/ ReadHit \/ EndSearch
    \/ \E withContent \in BOOLEAN : Answer(withContent)
    \/ \E r \in Roots, f \in Files, t \in Texts \cup {Gone} : Edit(r, f, t)
    \/ \E r \in Roots : Rebind(r)

CodeSpec == CodeInit /\ [][CodeNext]_codeVars

-----------------------------------------------------------------------------
(* What a search finds is all that can be indexed of the scan that it took *)
(* for the accepted one, and nothing of an earlier or later scan, of       *)
(* another directory or with sensitive content, whichever texts were taken *)
(* over from older indexes and whoever installed one meanwhile.            *)
HitsAreOfTheScan == search.at = "answered" => search.hits = Indexed(search.scan)
=============================================================================
