----------------------------- MODULE MCServices -----------------------------
(***************************************************************************)
(* What must happen once, or stay within bounds: governed effects, a DAG   *)
(* dispatch, an authorized request, a benchmark, a measured loop, the      *)
(* execution of a research client and the files of a research, a skill     *)
(* with its candidates, the transitions of a governed environment, and the *)
(* test of overlapping resources that the queue relies on.  "subject" says *)
(* which of them a behaviour is about; the variables of the others stay as *)
(* they began.                                                             *)
(***************************************************************************)
EXTENDS GovernedExecution, MCDagPlan, ResourceRefs, RequestReceipts, BenchmarkRun,
        MeasuredLoop, SkillLifecycle, ResearchFiles, ResearchExecution

(* One write item that either of two workers may lease.  There are two     *)
(* claims for the lease of worker a, with different idempotency keys, and  *)
(* one for the lease of worker b that shares a key with the first.         *)
MCClaims == {"p", "q", "r"}

MCReceipts == MCClaims \X {"completed", "denied", "failed", "uncertain"}

MCKeyOf == ("p" :> "k1") @@ ("q" :> "k2") @@ ("r" :> "k1")

LeaseBy(w, i) == [item |-> i, owner |-> w, fence |-> 1]

MCLeaseOf == ("p" :> LeaseBy("a", 1)) @@ ("q" :> LeaseBy("a", 1))
                @@ ("r" :> LeaseBy("b", 1))

MCGateFits == {c \in Items \X MCClaims : MCLeaseOf[c[2]].item = c[1]}

MCCanRun == Workers \X Items

MCUses == [i \in Items |-> {}]

MCMaxAttempts == [i \in Items |-> 2]

VARIABLES subject, s1, s2, s3, s4, s5

Dag == INSTANCE DagExecutor WITH
    Items <- DagItems, Steps <- DagSteps, Workers <- DagSteps, CanRun <- DagCanRun,
    Resources <- DagResources, Conflict <- DagConflict, Uses <- DagUses,
    ReadOnly <- DagReadOnly, MaxAttempts <- DagMaxAttempts, Claims <- {}, Receipts <- {},
    GateFits <- {}, StepDependsOn <- DagDependsOn, MaxConcurrency <- 2, Seconds <- 1,
    Executors <- {"x"}, MaxDispatches <- 1, run <- s1, dispatches <- s2, begun <- s3

(* A request that reaches two threads of one process and one of another    *)
MCProcessOf == <<"p", "p", "q">>

(* Two blocks of stdout are kept, of three that the client may print.      *)
Printed == [s \in Streams |-> IF s = "stdout" THEN 3 ELSE 1]

(* The packet, a response that is brought twice, and another one           *)
Brought == ("packet" :> "packet") @@ ("first" :> "r") @@ ("again" :> "r") @@ ("other" :> "s")

MCRoleOf == [response \in {"r", "s"} |-> "role"]

(* A candidate, four people, and a policy that asks for more and again for *)
(* less; two of three trials are two thirds.                               *)
Measured(trials, passed) == [trials |-> trials, passed |-> passed, score |-> 2]
Asked(threshold) == [trials |-> 2, passed |-> 1, threshold |-> threshold]

MCSkill == [c \in Candidates |-> "skill"]
MCProposer == [c \in Candidates |-> "p"]
MCMeasures == {Measured(2, 1), Measured(3, 2)}
MCPolicies == {Asked(1), Asked(2)}

(* A severe finding is recorded, and two more that would close or belittle *)
(* it; a promotion and then a rollback.  The governance plan is of the     *)
(* second half of one second, and things happen until the second after the *)
(* next begins.                                                            *)
Said(severity, disposition) ==
    [lineage |-> [kind |-> "unknown"], severity |-> severity, disposition |-> disposition]

Governance == INSTANCE ExecutionGovernance WITH
    Findings <- {Said("high", "open"), Said("low", "open"), Said("low", "resolved")},
    Digests <- {1, 2}, MaxEntries <- 3, MaxTransitions <- 2,
    Parts <- 2, PlanTime <- 1, MaxClock <- 4,
    clock <- s1, register <- s2, environment <- s3, transitions <- s4, authorized <- s5

GovernanceNext ==
    /\ Governance!GovernanceNext
    /\ s2' # <<>> => s2'[1].finding = Said("high", "open")
    /\ s4' # <<>> => s2 # <<>>
    /\ Len(s4') = 2 => s4'[2].kind = "rollback"

others == <<s1, s2, s3, s4, s5>>

Unused4 == s4 = "unused" /\ s5 = "unused"
Unused3 == s3 = "unused" /\ Unused4
Unused1 == s1 = "unused" /\ s2 = "unused" /\ Unused3

(* Every ordered pair of references, of which one is wanted and the other  *)
(* locked, and the same pair seen from the other item                      *)
wanted == s1
locked == s2
TradePlaces == s1' = locked /\ s2' = wanted

(* The evidence of four candidates                                         *)
evidence == s1
AnyEvidence == [1 .. 4 -> (SUBSET {1, 2, 3}) \ {{}}]
Reversed == s1' = [c \in 1 .. 4 |-> evidence[5 - c]]

(* The variables of a component, for the behaviours that are about others  *)
queueVars == <<vars, claimed, outcome, reconciled, knows, ran>>
QueueAtRest == Init /\ schema = 2

SkillsAtRest == SkillInit /\ policy = Asked(1)

ExecutionAtRest ==
    /\ at = "over" /\ host = [executable |-> "missing", authorized |-> FALSE]
    /\ process = NotStarted /\ stream = [s \in Streams |-> Empty]
    /\ left = 0 /\ cancelEvent = FALSE /\ reason = "none" /\ status = "none"

MCInit ==
    /\ \/ /\ QueueAtRest
          /\ \/ subject \in {"governed", "request", "benchmark", "loop", "skill", "files",
                             "execution"}
                /\ Unused1
             \/ subject = "refs" /\ s1 \in Ref /\ s2 \in Ref /\ Unused3
             \/ subject = "candidates" /\ evidence \in AnyEvidence /\ s2 = "unused" /\ Unused3
             \/ /\ subject = "governance" /\ Governance!GovernanceInit /\ s3.digest = 1
       \/ subject = "dag" /\ Dag!DagInit /\ Unused4
    /\ Ledger!LedgerInit
    /\ knows = [c \in Claims |-> {}]
    /\ ran = [c \in Claims |-> 0]
    /\ ReceiptsInit
    /\ BenchmarkInit
    /\ LoopInit
    /\ FilesInit
    /\ IF subject = "skill" THEN SkillInit ELSE SkillsAtRest
    /\ IF subject = "execution" THEN ExecutionInit ELSE ExecutionAtRest

ledgerOnly == <<claimed, outcome, reconciled, knows, ran>>
systemVars == <<receiptVars, benchmarkVars, loopVars, skillVars, filesVars>>
ownOnly == <<systemVars, executionVars>>

DagStep(A) ==
    /\ subject = "dag" /\ A
    /\ UNCHANGED <<subject, ledgerOnly, ownOnly, s4, s5>>

ExecutionStep(A) ==
    /\ subject = "execution" /\ A
    /\ UNCHANGED <<subject, queueVars, systemVars, others>>

OwnStep ==
    /\ \/ /\ subject = "request" /\ ReceiptsNext
          /\ UNCHANGED <<benchmarkVars, loopVars, skillVars, filesVars>>
       \/ /\ subject = "benchmark" /\ BenchmarkNext
          /\ UNCHANGED <<receiptVars, loopVars, skillVars, filesVars>>
       \/ /\ subject = "loop" /\ LoopNext
          /\ UNCHANGED <<receiptVars, benchmarkVars, skillVars, filesVars>>
       \/ /\ subject = "skill" /\ SkillNext
          /\ UNCHANGED <<receiptVars, benchmarkVars, loopVars, filesVars>>
       \/ /\ subject = "files" /\ FilesNext
          /\ UNCHANGED <<receiptVars, benchmarkVars, loopVars, skillVars>>
    /\ UNCHANGED <<subject, queueVars, executionVars, others>>

MCNext ==
    \/ DagStep(Dag!DagNext)
    \/ ExecutionStep(ExecutionNext)
    \/ subject = "governed" /\ NextGoverned /\ UNCHANGED <<subject, others, ownOnly>>
    \/ OwnStep
    \/ /\ UNCHANGED <<subject, queueVars, ownOnly>>
       /\ \/ subject = "refs" /\ TradePlaces /\ UNCHANGED <<s3, s4, s5>>
          \/ subject = "candidates" /\ Reversed /\ UNCHANGED <<s2, s3, s4, s5>>
          \/ subject = "governance" /\ GovernanceNext

mcVars == <<subject, queueVars, others, ownOnly>>

MCSpec == MCInit /\ [][MCNext]_mcVars

(* The fairness of DagExecutor, for the behaviours of a dispatch; and in   *)
(* an execution, that of the running thread, of the two that read, and of  *)
(* the clock, but none of the client's.                                    *)
dagOnly == <<s1, s2, s3>>

MCFairSpec ==
    /\ MCSpec
    /\ WF_mcVars(DagStep(Dag!Loop("x")))
    /\ \A s \in DagSteps : WF_mcVars(DagStep(Dag!ThreadStep("x", s)))
    /\ WF_mcVars(DagStep(Dag!Tick /\ UNCHANGED dagOnly))
    /\ WF_mcVars(DagStep(Dag!Recover /\ UNCHANGED dagOnly))
    /\ WF_mcVars(ExecutionStep(RunsOn))
    /\ WF_mcVars(ExecutionStep(DeadlineNears))
    /\ \A s \in Streams : WF_mcVars(ExecutionStep(at # "over" /\ Reads(s)))

-----------------------------------------------------------------------------
(* What code computes about two things is what the two are to each other.  *)
(* Two references conflict exactly when something lies in both: an         *)
(* ancestor at any depth is found, and siblings, tasks and paths that only *)
(* look alike are not (_resource_conflicts).  Two candidates are grouped   *)
(* exactly when evidence connects them, however many lie between them      *)
(* (find_skill_candidate_duplicates).                                      *)
RelationsAreExact ==
    /\ subject = "refs" =>
         (ResourceConflicts(wanted, locked) <=> Extent(wanted) \cap Extent(locked) # {})
    /\ subject = "candidates" => GroupsAreClasses(evidence)

(* A dispatch of the DAG executor ends, whatever is refused.               *)
DispatchEnds ==
    (subject = "dag" /\ Dag!Dispatching("x")) ~> (subject = "dag" /\ ~Dag!Dispatching("x"))

(* No environment is promoted over a severe finding                        *)
(* (execution_governance.py).                                              *)
FindingsAreDisposedOf == subject = "governance" => Governance!FindingsAreDisposedOf
=============================================================================
