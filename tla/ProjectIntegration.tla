------------------------- MODULE ProjectIntegration -------------------------
(***************************************************************************)
(* The integration of one project (project_integration.py) next to the     *)
(* rescan and the rebind of its source: calls that plan against the        *)
(* records there are, check, and then put record by record, replace two    *)
(* derived indexes and verify.  Any call may die between two writes, and   *)
(* the owner of the source edits it at any time.                           *)
(*                                                                         *)
(* A digest of the source is its version.  A record holds a revision, the  *)
(* version it was built from and, when it is about the binding as well,    *)
(* the binding's revision.  "overview" stands for the three knowledge      *)
(* records that depend on the source only.  Planning is one step: its      *)
(* reads are compared again, record by record, before and while putting.   *)
(***************************************************************************)
EXTENDS Integers, Sequences

CONSTANTS Callers,
          Directories,    \* directories with a copy of the source; 1 is given first
          Versions,
          Technologies(_),\* that are discovered in a version
          Modules(_),     \* the modules of a version
          MaxCalls,       \* bound: calls altogether
          MaxSourceEdits  \* bound: edits of a copy altogether

VARIABLES
    tree,       \* the version in each directory
    rec,        \* the records of the project
    fresh,      \* the integration record is younger than the freshness interval
    elsewhere,  \* the information records of other projects
    vector,     \* the catalog that the vector index was built from
    code,       \* the version and binding revision of the source code index
    client,     \* what each caller does
    calls, sourceEdits

projectVars ==
    <<tree, rec, fresh, elsewhere, vector, code, client, calls, sourceEdits>>

(* The records of a project, in the order in which they are put            *)
Kinds == <<"binding", "workspace", "project", "state", "source", "overview",
           "capabilities", "integration">>

Records == {Kinds[n] : n \in DOMAIN Kinds}

Information == {"source", "overview", "capabilities"}

AboutBinding == {"source", "capabilities", "integration", "state"}

NoRecord == [revision |-> 0, of |-> 0, under |-> 0]

NoCall == [at |-> "idle"]

-----------------------------------------------------------------------------
(* What a record says when it is built from a version at a root under a    *)
(* revision of the binding.                                                *)
Built(k, version, root, bound) ==
    [of    |-> CASE k = "binding" -> root
                 [] k = "workspace" -> 1
                 [] k = "project" -> <<Technologies(version), Modules(version)>>
                 [] OTHER -> version,
     under |-> IF k \in AboutBinding THEN bound ELSE 0]

Says(k) == [of |-> rec[k].of, under |-> rec[k].under]

(* project_capability_profile_is_current                                   *)
ProfileCurrent(version, bound) ==
    /\ rec["capabilities"].revision > 0
    /\ Says("capabilities") = Built("capabilities", version, 1, bound)

(* _integration_missing_stages, for the accepted source state              *)
SomethingMissing ==
    \/ \E k \in Records : rec[k].revision = 0
    \/ ~ProfileCurrent(rec["state"].of, rec["binding"].revision)
    \/ Technologies(rec["integration"].of) # Technologies(rec["state"].of)

(* The version that the plan is about: the source is scanned, or taken as  *)
(* it was accepted last.                                                   *)
Scans(mode) == mode = "manual" \/ SomethingMissing \/ ~fresh

(* build_information_catalog: the information records with the             *)
(* availability that their binding gives them, and those of others         *)
Catalog(records, others) ==
    <<[k \in Information |-> records[k]], records["binding"].revision, others>>

Successor(k, version, root, bound) ==
    LET says == Built(k, version, root, bound)
    IN [revision |-> rec[k].revision + 1, of |-> says.of, under |-> says.under]

\* mutant: the revision of the binding is not compared
ReadsOtherwise(k, wanted) == rec[k].of # wanted.of

Differs(k, wanted) == Says(k) # wanted

(* Which records need a put.  Of the state only digest and technologies    *)
(* are compared, and of the integration record an automatic scan leaves a  *)
(* trace even when nothing changed.                                        *)
Needed(k, mode, scan, version, root, bound) ==
    LET wanted == Built(k, version, root, bound)
    IN \/ rec[k].revision = 0
       \/ k \in {"project", "state"} /\ rec[k].of # wanted.of
       \/ k \in Information \cup {"integration"} /\ Differs(k, wanted)
       \/ k = "integration" /\ mode = "automatic" /\ scan

(* prepare_project_integration; a first call learns the project from the   *)
(* directory it is given.                                                  *)
PlanOf(mode) ==
    LET new == rec["binding"].revision = 0
        root == IF new THEN 1 ELSE rec["binding"].of
        bound == IF new THEN 1 ELSE rec["binding"].revision
        scan == new \/ Scans(mode)
        version == IF scan THEN tree[root] ELSE rec["state"].of
        puts == {k \in Records : Needed(k, mode, scan, version, root, bound)}
        after == [k \in Records |->
                    IF k \in puts THEN Successor(k, version, root, bound) ELSE rec[k]]
    IN [puts    |-> puts,
        after   |-> after,
        root    |-> root,
        version |-> version,
        scan    |-> scan,
        bound   |-> bound,
        catalog |-> Catalog(after, elsewhere),
        vector  |-> vector # Catalog(after, elsewhere),
        hadVector |-> vector # <<>>,
        code    |-> code # <<version, bound>>,
        hadCode |-> code # <<>>]

NothingToDo(plan) == plan.puts = {} /\ ~plan.vector /\ ~plan.code

-----------------------------------------------------------------------------
(* Nothing is registered, or one integration was verified.                 *)
ProjectInit ==
    /\ tree \in [Directories -> Versions]
    /\ rec \in {[k \in Records |-> NoRecord],
               [k \in Records |->
                  LET says == Built(k, tree[1], 1, 1)
                  IN [revision |-> 1, of |-> says.of, under |-> says.under]]}
    /\ fresh = (rec["integration"].revision = 1)
    /\ elsewhere = 0
    /\ vector = IF fresh THEN Catalog(rec, 0) ELSE <<>>
    /\ code = IF fresh THEN <<tree[1], 1>> ELSE <<>>
    /\ client = [c \in Callers |-> NoCall]
    /\ calls = 0
    /\ sourceEdits = 0

Busy(c) == client[c].at \notin {"idle", "verified", "failed"}

(* Whoever is at work, or done, when somebody else writes is disturbed;    *)
(* so is who takes a source as it was accepted, when it was edited since.  *)
Disturbed(state) == IF state.at = "idle" THEN state ELSE [state EXCEPT !.disturbed = TRUE]

WrittenBy(c, state) ==
    client' = [d \in Callers |-> IF d = c THEN state ELSE Disturbed(client[d])]

BeginCall(c, kind, plan) ==
    /\ ~Busy(c)
    /\ calls < MaxCalls
    /\ calls' = calls + 1
    /\ client' = [client EXCEPT ![c] = [at |-> "checking", kind |-> kind, plan |-> plan,
                                        disturbed |-> tree[plan.root] # plan.version]]
    /\ UNCHANGED <<tree, rec, fresh, elsewhere, vector, code, sourceEdits>>

(* A source that is registered without its project is refused.             *)
Registered == rec["binding"].revision > 0 => rec["project"].revision > 0

(* project.integrate; an unchanged project is answered without a change,   *)
(* and a version that is not there any more cannot be indexed.             *)
IntegrateProject(c, mode) ==
    LET plan == PlanOf(mode)
    IN /\ BeginCall(c, mode, plan)
       /\ Registered
       /\ ~NothingToDo(plan)
       /\ plan.code => plan.version = tree[plan.root]

(* A plan of the other calls: some records, and no index                   *)
Puts(puts, put, root) ==
    [puts |-> puts, root |-> root, version |-> tree[root], scan |-> TRUE,
     after |-> [k \in Records |-> IF k \in puts THEN put[k] ELSE rec[k]]]

(* project.rescan: the accepted state, and of the project the technologies *)
(* only: its modules stay.                                                 *)
Rescan(c) ==
    LET root == rec["binding"].of
        put == [project |-> [revision |-> rec["project"].revision + 1, under |-> 0,
                             of |-> <<Technologies(tree[root]), rec["project"].of[2]>>],
                state   |-> Successor("state", tree[root], root, rec["binding"].revision)]
        puts == {k \in {"project", "state"} : rec[k].revision = 0 \/ rec[k].of # put[k].of}
    IN /\ rec["project"].revision > 0
       /\ puts # {}
       /\ BeginCall(c, "rescan", Puts(puts, put, root))

(* project.rebind: a copy with the accepted content, in another directory  *)
RebindProject(c, root) ==
    /\ rec["state"].revision > 0
    /\ rec["state"].under = rec["binding"].revision
    /\ root # rec["binding"].of
    /\ tree[root] = rec["state"].of
    /\ LET put == [k \in {"binding", "state"} |->
                     Successor(k, tree[root], root, rec["binding"].revision + 1)]
       IN BeginCall(c, "rebind", Puts({"binding", "state"}, put, root))

-----------------------------------------------------------------------------
Integrates(c) == client[c].kind \in {"manual", "automatic"}

RecordCurrent(c, k) == rec[k].revision = client[c].plan.after[k].revision - 1

SourceCurrent(c) == tree[client[c].plan.root] = client[c].plan.version

(* A rebind puts the binding first, a rescan the state last: so does the   *)
(* order of all kinds.                                                     *)
NextPut(c) ==
    Kinds[CHOOSE n \in DOMAIN Kinds :
            /\ Kinds[n] \in client[c].plan.puts
            /\ \A m \in DOMAIN Kinds : Kinds[m] \in client[c].plan.puts => n <= m]

(* The information is what the plan said it would be.                      *)
CatalogAsPlanned(c) == Catalog(rec, elsewhere) = client[c].plan.catalog

(* What the next step of a call asks for: the source again, if it was      *)
(* scanned (not by a rescan), and every record plan; the revision of each  *)
(* record put; the catalog; each index, replaced or not; the records of    *)
(* the last stages.                                                        *)
Passes(c) ==
    LET plan == client[c].plan
    IN CASE client[c].at = "checking" ->
              /\ client[c].kind # "rescan" /\ plan.scan => SourceCurrent(c)
              /\ \A k \in plan.puts : RecordCurrent(c, k)
         [] client[c].at = "putting" ->
              IF plan.puts # {} THEN RecordCurrent(c, NextPut(c))
              ELSE Integrates(c) => CatalogAsPlanned(c)
         [] client[c].at = "vector" ->
              IF plan.vector THEN plan.hadVector = (vector # <<>>)
              ELSE vector = plan.catalog
         [] client[c].at = "code" ->
              IF plan.code THEN SourceCurrent(c) /\ plan.hadCode = (code # <<>>)
              ELSE code = <<plan.version, plan.bound>>
         [] client[c].at = "verifying" ->
              rec["integration"].revision > 0 /\ ProfileCurrent(plan.version, plan.bound)

GoOn(c, place) == client' = [client EXCEPT ![c].at = place]

Check(c) ==
    /\ client[c].at = "checking"
    /\ Passes(c)
    /\ GoOn(c, "putting")
    /\ UNCHANGED <<tree, rec, fresh, elsewhere, vector, code, calls, sourceEdits>>

PutNext(c) ==
    LET k == NextPut(c)
    IN /\ client[c].at = "putting"
       /\ client[c].plan.puts # {}
       /\ Passes(c)
       /\ rec' = [rec EXCEPT ![k] = client[c].plan.after[k]]
       /\ fresh' = (fresh \/ k = "integration")
       /\ WrittenBy(c, [client[c] EXCEPT !.plan.puts = @ \ {k}])
       /\ UNCHANGED <<tree, elsewhere, vector, code, calls, sourceEdits>>

(* The records are there: the end of the other calls                       *)
BuildCatalog(c) ==
    /\ client[c].at = "putting"
    /\ client[c].plan.puts = {}
    /\ Passes(c)
    /\ IF Integrates(c) THEN GoOn(c, "vector")
                        ELSE client' = [client EXCEPT ![c] = NoCall]
    /\ UNCHANGED <<tree, rec, fresh, elsewhere, vector, code, calls, sourceEdits>>

(* apply_hybrid_index creates or replaces the file as planned.             *)
ReplaceVector(c) ==
    /\ client[c].at = "vector"
    /\ client[c].plan.vector
    /\ Passes(c)
    /\ vector' = client[c].plan.catalog
    /\ WrittenBy(c, [client[c] EXCEPT !.plan.vector = FALSE])
    /\ UNCHANGED <<tree, rec, fresh, elsewhere, code, calls, sourceEdits>>

VerifyVector(c) ==
    /\ client[c].at = "vector"
    /\ ~client[c].plan.vector
    /\ Passes(c)
    /\ GoOn(c, "code")
    /\ UNCHANGED <<tree, rec, fresh, elsewhere, vector, code, calls, sourceEdits>>

(* apply_source_code_index: every file again, created or replaced as       *)
(* planned                                                                 *)
ReplaceCode(c) ==
    /\ client[c].at = "code"
    /\ client[c].plan.code
    /\ Passes(c)
    /\ code' = <<client[c].plan.version, client[c].plan.bound>>
    /\ WrittenBy(c, [client[c] EXCEPT !.plan.code = FALSE])
    /\ UNCHANGED <<tree, rec, fresh, elsewhere, vector, calls, sourceEdits>>

VerifyCode(c) ==
    /\ client[c].at = "code"
    /\ ~client[c].plan.code
    /\ Passes(c)
    /\ GoOn(c, "verifying")
    /\ UNCHANGED <<tree, rec, fresh, elsewhere, vector, code, calls, sourceEdits>>

VerifyAll(c) ==
    /\ client[c].at = "verifying"
    /\ Passes(c)
    /\ GoOn(c, "verified")
    /\ UNCHANGED <<tree, rec, fresh, elsewhere, vector, code, calls, sourceEdits>>

(* The profile is built again from the files that it looks into, whether   *)
(* the source was scanned or not: an edit concerns them or not.            *)
MayNotProfile(c) == client[c].at = "checking" /\ Integrates(c) /\ ~SourceCurrent(c)

(* A check fails: what was put stays.                                      *)
CallFails(c) ==
    /\ Busy(c)
    /\ ~Passes(c) \/ MayNotProfile(c)
    /\ GoOn(c, "failed")
    /\ UNCHANGED <<tree, rec, fresh, elsewhere, vector, code, calls, sourceEdits>>

CallDies(c) ==
    /\ Busy(c)
    /\ client' = [client EXCEPT ![c] = NoCall]
    /\ UNCHANGED <<tree, rec, fresh, elsewhere, vector, code, calls, sourceEdits>>

DisturbAll == client' = [c \in Callers |-> Disturbed(client[c])]

(* The owner edits a copy of the source.                                   *)
EditSource(root, version) ==
    /\ sourceEdits < MaxSourceEdits
    /\ sourceEdits' = sourceEdits + 1
    /\ tree' = [tree EXCEPT ![root] = version]
    /\ DisturbAll
    /\ UNCHANGED <<rec, fresh, elsewhere, vector, code, calls>>

(* Another project's records change, which all share one vector index.     *)
OthersChange ==
    /\ sourceEdits < MaxSourceEdits
    /\ sourceEdits' = sourceEdits + 1
    /\ elsewhere' = elsewhere + 1
    /\ DisturbAll
    /\ UNCHANGED <<tree, rec, fresh, vector, code, calls>>

Age ==
    /\ fresh
    /\ fresh' = FALSE
    /\ UNCHANGED <<tree, rec, elsewhere, vector, code, client, calls, sourceEdits>>

ProjectNext ==
    \/ \E c \in Callers :
         \/ \E mode \in {"manual", "automatic"} : IntegrateProject(c, mode)
         \/ Rescan(c)
         \/ \E root \in Directories : RebindProject(c, root)
         \/ Check(c) \/ PutNext(c) \/ BuildCatalog(c) \/ ReplaceVector(c)
         \/ VerifyVector(c) \/ ReplaceCode(c) \/ VerifyCode(c) \/ VerifyAll(c)
         \/ CallFails(c) \/ CallDies(c)
    \/ \E root \in Directories, version \in Versions : EditSource(root, version)
    \/ OthersChange
    \/ Age

ProjectSpec == ProjectInit /\ [][ProjectNext]_projectVars

-----------------------------------------------------------------------------
(* Properties.                                                             *)

(* Whatever interrupted or competing calls left behind, an integration     *)
(* that is disturbed by nobody passes all of its checks, and afterwards    *)
(* another one of its kind finds nothing left to do ("the next plan        *)
(* preserves completed records and prepares only missing, stale, or        *)
(* inconsistent stages").                                                  *)
UndisturbedCompletes ==
    \A c \in Callers :
      client[c].at # "idle" /\ ~client[c].disturbed =>
        /\ client[c].at # "failed"
        /\ client[c].at = "verified" /\ (client[c].kind = "manual" \/ fresh) =>
             NothingToDo(PlanOf(client[c].kind))

(* A call that stopped can be followed by another one: "If a prior         *)
(* execution stopped after some record writes, the next plan ..."          *)
StoppedIsResumed == (\A c \in Callers : ~Busy(c)) => Registered
=============================================================================
