---------------------------- MODULE ResearchFiles ----------------------------
(***************************************************************************)
(* The files of one research run (research_orchestration.py): its packet   *)
(* (request, plan and prompts), a raw response and structured findings for *)
(* each imported revision of a role, and the manifest that lists the       *)
(* responses with their digests.  Callers in several processes prepare the  *)
(* run and import responses; nothing locks the directory.                  *)
(*                                                                         *)
(* A file has the content that one caller wrote.  The identity of a        *)
(* response is the caller that brings it, unless it is brought twice       *)
(* (Brings); raw texts and findings are told apart by it.  Validation      *)
(* compares digests of contents, and so do plans.                          *)
(***************************************************************************)
EXTENDS Integers, Sequences, FiniteSets, SequencesExt

CONSTANTS Importers,
          Brings,      \* the response that each caller imports, or "packet"
          RoleOf,      \* the role of each response
          MaxRevision  \* bound: revisions of a role

ASSUME ResearchAssumption ==
    /\ "packet" \notin DOMAIN RoleOf
    /\ Brings \in [Importers -> DOMAIN RoleOf \cup {"packet"}]
    /\ MaxRevision \in Nat

VARIABLES file,        \* the files below the root of the research
          call,        \* what each caller is doing
          applied,     \* history: responses whose import returned "applied"
          spoilt       \* history: a writer died, or two wrote at once

filesVars == <<file, call, applied, spoilt>>

Absent == <<>>

Roles == {RoleOf[r] : r \in DOMAIN RoleOf}

Manifest == <<"manifest">>
Packet == <<"packet">>
FindingsOf(role, n) == <<"findings", role, n>>
Raw(role, n) == <<"raw", role, n>>

(* In the order in which they are written: by path, and _krcn comes first. *)
Kind == <<"manifest", "findings", "packet", "raw">>

ResearchPaths ==
    {Manifest, Packet}
    \cup {<<k, role, n>> : k \in {"findings", "raw"}, role \in Roles, n \in 1 .. MaxRevision}

Before(p, q) ==
    \E i, j \in DOMAIN Kind : i < j /\ Kind[i] = p[1] /\ Kind[j] = q[1]

Idle == [at |-> "idle"]

-----------------------------------------------------------------------------
(* Reading: _load_json and _validate_research_manifest.                    *)

Entry(response, n) == [response |-> response, role |-> RoleOf[response], revision |-> n]

Responses == IF file[Manifest] = Absent THEN <<>> ELSE file[Manifest].responses

RevisionsOf(role) == {e.revision : e \in {f \in ToSet(Responses) : f.role = role}}

(* What the manifest lists is there as it was imported, no identity is     *)
(* listed twice and the revisions of a role are contiguous.                *)
Valid ==
    /\ \A e \in ToSet(Responses) :
         /\ file[Raw(e.role, e.revision)] = <<e.response>>
         /\ file[FindingsOf(e.role, e.revision)] = <<e.response>>
    /\ IsInjective([i \in DOMAIN Responses |-> Responses[i].response])
    /\ \A role \in Roles : \E n \in 0 .. MaxRevision : RevisionsOf(role) = 1 .. n

-----------------------------------------------------------------------------
(* Planning.                                                               *)

Listing(responses) == [responses |-> responses]

(* prepare_research_run keeps the responses that the manifest lists.       *)
PacketDocuments ==
    [p \in {Manifest, Packet} |->
        IF p = Manifest THEN Listing(Responses) ELSE <<"packet">>]

(* prepare_research_result_import: the next revision of its role           *)
ImportDocuments(response) ==
    LET role == RoleOf[response]
        n == Cardinality(RevisionsOf(role)) + 1
    IN [p \in {Manifest, FindingsOf(role, n), Raw(role, n)} |->
          IF p = Manifest THEN Listing(Append(Responses, Entry(response, n)))
          ELSE <<response>>]

Listed(response) == \E e \in ToSet(Responses) : e.response = response

(* The documents of a call; none when its response is listed.              *)
Documents(c) ==
    IF Brings[c] = "packet" THEN PacketDocuments
    ELSE IF Listed(Brings[c]) THEN <<>>
    ELSE ImportDocuments(Brings[c])

MayImport(response) ==
    /\ file[Manifest] # Absent
    /\ Listed(response) \/ Cardinality(RevisionsOf(RoleOf[response])) < MaxRevision

MayPlan(c) == Valid /\ (Brings[c] = "packet" \/ MayImport(Brings[c]))

(* _plan_documents: the effects are those that change a file.              *)
Effects(documents) == {p \in DOMAIN documents : file[p] # documents[p]}

PlanFiles(c) ==
    /\ call[c].at = "idle"
    /\ MayPlan(c)
    /\ call' = [call EXCEPT ![c] = [at |-> "approved", documents |-> Documents(c),
                                    effects |-> Effects(Documents(c))]]
    /\ UNCHANGED <<file, applied, spoilt>>

(* To apply, the plan is made again: it has to be the approved one.        *)
PlanAgain(c) ==
    LET documents == Documents(c)
    IN /\ call[c].at = "approved"
       /\ MayPlan(c)
       /\ call[c].documents = documents /\ call[c].effects = Effects(documents)
       /\ call' = [call EXCEPT ![c] =
                     IF call[c].effects = {} THEN [at |-> "applied"]
                     ELSE [at |-> "check", documents |-> documents,
                           previous |-> [p \in DOMAIN documents |-> file[p]]]]
       /\ applied' = IF call[c].effects = {} THEN applied \cup {Brings[c]} ELSE applied
       /\ UNCHANGED <<file, spoilt>>

Refuse(c) ==
    /\ call[c].at \in {"approved", "check"}
    /\ call' = [call EXCEPT ![c] = Idle]
    /\ UNCHANGED <<file, applied, spoilt>>

-----------------------------------------------------------------------------
(* _atomic_apply                                                           *)

Writing == {c \in Importers : call[c].at \in {"write", "undo"}}

Backup(c) ==
    call' = [call EXCEPT ![c] = [at |-> "write", documents |-> call[c].documents,
                                 backup |-> [p \in DOMAIN call[c].documents |-> file[p]],
                                 written |-> <<>>]]

(* _assert_plan_current: every file is what it was when it was planned.    *)
(* From here on the caller counts as one that writes.                      *)
Check(c) ==
    /\ call[c].at = "check"
    /\ \A p \in DOMAIN call[c].previous : file[p] = call[c].previous[p]
    /\ Backup(c)
    /\ spoilt' = (spoilt \/ Writing # {})
    /\ UNCHANGED <<file, applied>>

\* mutant: a file that is there is taken as written
LeftNew(c) ==
    {p \in DOMAIN call[c].documents \ ToSet(call[c].written) : call[c].backup[p] = Absent}

Left(c) ==
    {p \in DOMAIN call[c].documents \ ToSet(call[c].written) :
        call[c].backup[p] # call[c].documents[p]}

(* Each file is replaced as a whole, in order.                             *)
WriteFile(c) ==
    /\ call[c].at = "write"
    /\ \E p \in Left(c) :
         /\ \A q \in Left(c) \ {p} : ~Before(q, p)
         /\ file' = [file EXCEPT ![p] = call[c].documents[p]]
         /\ call' = [call EXCEPT ![c].written = Append(@, p)]
    /\ UNCHANGED <<applied, spoilt>>

Done(c) ==
    /\ call[c].at = "write"
    /\ Left(c) = {}
    /\ call' = [call EXCEPT ![c] = [at |-> "applied"]]
    /\ applied' = applied \cup {Brings[c]}
    /\ UNCHANGED <<file, spoilt>>

(* A write fails: what was written is undone, the last file first.         *)
WriteFails(c) ==
    /\ call[c].at = "write"
    /\ Left(c) # {}
    /\ call' = [call EXCEPT ![c].at = "undo"]
    /\ UNCHANGED <<file, applied, spoilt>>

Undo(c) ==
    /\ call[c].at = "undo"
    /\ IF call[c].written = <<>> THEN call' = [call EXCEPT ![c] = Idle] /\ UNCHANGED file
       ELSE LET p == Last(call[c].written)
            IN /\ file' = [file EXCEPT ![p] = call[c].backup[p]]
               /\ call' = [call EXCEPT ![c].written = Front(@)]
    /\ UNCHANGED <<applied, spoilt>>

ImporterDies(c) ==
    /\ call[c].at \in {"check", "write", "undo"}
    /\ call' = [call EXCEPT ![c] = [at |-> "died"]]
    /\ spoilt' = (spoilt \/ c \in Writing)
    /\ UNCHANGED <<file, applied>>

FilesInit ==
    /\ file = [p \in ResearchPaths |-> Absent]
    /\ call = [c \in Importers |-> Idle]
    /\ applied = {}
    /\ spoilt = FALSE

(* Once two have written at once or one has died nothing is claimed.       *)
FilesNext ==
    /\ ~spoilt
    /\ \E c \in Importers :
         \/ PlanFiles(c) \/ PlanAgain(c) \/ Refuse(c)
         \/ Check(c) \/ WriteFile(c) \/ Done(c) \/ WriteFails(c) \/ Undo(c) \/ ImporterDies(c)

FilesSpec == FilesInit /\ [][FilesNext]_filesVars

-----------------------------------------------------------------------------
(* Properties.                                                             *)

(* Every response whose import was answered with "applied" is listed, and  *)
(* with its raw bytes and findings as they were brought ("generated        *)
(* conclusions cannot rewrite their source evidence"), however many plans  *)
(* were made before it was written and whichever writes failed, as long as *)
(* no two callers wrote at once and none died while it wrote.              *)
ImportsAreKept ==
    ~spoilt =>
        /\ Writing = {} => Valid
        /\ Writing = {} => \A r \in applied \ {"packet"} : Listed(r)
=============================================================================
