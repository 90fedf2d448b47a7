--------------------------- MODULE SkillLifecycle ---------------------------
(***************************************************************************)
(* How a skill becomes active and is withdrawn (skill_lifecycle.py):       *)
(* somebody proposes a candidate, two others evaluate it, a fourth         *)
(* approves an exact change of the registry, whose owner makes it.  All    *)
(* documents are immutable and held by their clients, who bring them at    *)
(* any later time, after the policy or the registry has changed.           *)
(***************************************************************************)
EXTENDS Integers, FiniteSets, FiniteSetsExt

CONSTANTS Candidates,
          Skill,          \* the skill that a candidate is for
          Proposer,       \* the identity of who proposed a candidate
          People,         \* identities
          Measures,       \* what an evaluation can measure
          Policies,       \* what the policy can ask for
          Scale,          \* the whole of a rate
          MaxEvaluations, \* bound: evaluations
          MaxPlans        \* bound: plans

ASSUME SkillAssumption ==
    /\ Proposer \in [Candidates -> People]
    /\ DOMAIN Skill = Candidates
    /\ Measures \subseteq [trials : Nat \ {0}, passed : Nat, score : Nat]
    /\ Policies \subseteq [trials : Nat, passed : Nat, threshold : Nat]
    /\ Scale \in Nat
    /\ {MaxEvaluations, MaxPlans} \subseteq Nat

VARIABLES
    policy,
    evaluations,
    plans,    \* plans, with the policy that they were made under
    approved, \* the mutations that a user approved
    records,  \* the lifecycle records that were finalized
    registry  \* the entry of each skill; an entry is its own digest

skillVars == <<policy, evaluations, plans, approved, records, registry>>

NoEntry == [state |-> "none"]

-----------------------------------------------------------------------------
(* What suffices; the rate of passed trials is rounded down.               *)
Suffices(m, p) ==
    /\ m.trials >= p.trials
    /\ m.passed >= p.passed
    /\ (m.passed * Scale) \div m.trials >= p.threshold
    /\ m.score >= p.threshold

(* build_skill_evaluation                                                  *)
Evaluate(c, evaluator, verifier, m) ==
    /\ Cardinality(evaluations) < MaxEvaluations
    /\ evaluator # verifier
    /\ Proposer[c] \notin {evaluator, verifier}
    /\ evaluations' = evaluations \cup
         {[candidate |-> c, evaluator |-> evaluator, verifier |-> verifier, measured |-> m,
           outcome |-> IF Suffices(m, policy) THEN "passed" ELSE "failed"]}
    /\ UNCHANGED <<policy, plans, approved, records, registry>>

Actors(e) == {Proposer[e.candidate], e.evaluator, e.verifier}

(* A plan's entry is the change that its mutation is about.                *)
Propose(e, approver, from, to, expected) ==
    /\ Cardinality(plans) < MaxPlans
    /\ plans' = plans \cup
         {[evaluation |-> e, approver |-> approver, from |-> from, under |-> policy,
           entry |-> [evaluation |-> e, state |-> to, expected |-> expected]]}
    /\ UNCHANGED <<policy, evaluations, approved, records, registry>>

(* The entries that a client may expect to be the current one              *)
Known(skill) ==
    {NoEntry} \cup {r.entry : r \in {s \in records : Skill[s.evaluation.candidate] = skill}}

(* prepare_skill_activation                                                *)
PlanActivation(e, approver, expected) ==
    /\ e.outcome = "passed"
    /\ Suffices(e.measured, policy)
    /\ approver \notin Actors(e)
    /\ expected \in Known(Skill[e.candidate])
    /\ Propose(e, approver, "evaluated", "active", expected)

Following(state) ==
    CASE state = "active"     -> {"deprecated", "retired"}
      [] state = "deprecated" -> {"retired"}
      [] OTHER                -> {}

\* mutant: who made the record may not approve the next, others may
OtherThanLast(record, approver) == approver # record.approver

(* An approver is none of those whose work is approved.                    *)
Independent(record, approver) == approver \notin Actors(record.evaluation)

(* prepare_skill_state_change, of a record that need not be the last       *)
PlanChange(record, to, approver) ==
    /\ to \in Following(record.entry.state)
    /\ Independent(record, approver)
    /\ Propose(record.evaluation, approver, record.entry.state, to, record.entry)

(* The user approves the mutation of a plan.                               *)
Approve(plan) ==
    /\ approved' = approved \cup {plan.entry}
    /\ UNCHANGED <<policy, evaluations, plans, records, registry>>

(* finalize_skill_registry_change, by the approver of the plan             *)
Finalize(plan) ==
    /\ plan.entry \in approved
    /\ records' = records \cup
         {[evaluation |-> plan.evaluation, approver |-> plan.approver, from |-> plan.from,
           entry |-> plan.entry]}
    /\ UNCHANGED <<policy, evaluations, plans, approved, registry>>

(* The registry's owner makes the exact change that was approved.          *)
Write(record) ==
    LET skill == Skill[record.evaluation.candidate]
    IN  /\ registry[skill] = record.entry.expected
        /\ registry' = [registry EXCEPT ![skill] = record.entry]
        /\ UNCHANGED <<policy, evaluations, plans, approved, records>>

ChangePolicy(p) ==
    /\ policy' = p
    /\ UNCHANGED <<evaluations, plans, approved, records, registry>>

SkillInit ==
    /\ policy \in Policies
    /\ evaluations = {} /\ plans = {} /\ approved = {} /\ records = {}
    /\ registry = [skill \in {Skill[c] : c \in Candidates} |-> NoEntry]

SkillNext ==
    \/ \E c \in Candidates, x, y \in People, m \in Measures : Evaluate(c, x, y, m)
    \/ \E e \in evaluations, a \in People :
         \E expected \in Known(Skill[e.candidate]) : PlanActivation(e, a, expected)
    \/ \E r \in records, to \in {"active", "deprecated", "retired"}, a \in People :
         PlanChange(r, to, a)
    \/ \E plan \in plans : Approve(plan) \/ Finalize(plan)
    \/ \E r \in records : Write(r)
    \/ \E p \in Policies : ChangePolicy(p)

SkillSpec == SkillInit /\ [][SkillNext]_skillVars

-----------------------------------------------------------------------------
(* Duplicate candidates: those that share evidence, directly or through    *)
(* others, are one group (find_skill_candidate_duplicates).                *)
Shares(evidence, j, k) == evidence[j] \cap evidence[k] # {}

Smaller(j, k) == IF j < k THEN j ELSE k
Larger(j, k) == IF j < k THEN k ELSE j

(* "root" of each candidate; a union hangs the larger root below the       *)
(* smaller.                                                                *)
Union(root, j, k) ==
    [c \in DOMAIN root |-> IF root[c] = Larger(root[j], root[k])
                           THEN Smaller(root[j], root[k]) ELSE root[c]]

Roots(evidence) ==
    FoldSet(LAMBDA pair, root : Union(root, pair[1], pair[2]),
            [c \in DOMAIN evidence |-> c],
            {pair \in (DOMAIN evidence) \X (DOMAIN evidence) :
               pair[1] < pair[2] /\ Shares(evidence, pair[1], pair[2])})

-----------------------------------------------------------------------------
(* Whatever is finalized or in the registry passed an evaluation that      *)
(* sufficed when its activation was planned, four different people acted   *)
(* on it, and a state that follows another follows a finalized one, with   *)
(* documents brought in any order and under any policy.                    *)
SkillsRestOnEvidence ==
    /\ \A r \in records :
         /\ Cardinality(Actors(r.evaluation) \cup {r.approver}) = 4
         /\ r.entry.evaluation = r.evaluation
         /\ \E plan \in plans :
              LET m == plan.evaluation.measured
              IN  /\ plan.evaluation = r.evaluation /\ plan.from = "evaluated"
                  /\ m.trials >= plan.under.trials
                  /\ m.passed * Scale >= plan.under.threshold * m.trials
                  /\ m.score >= plan.under.threshold
         /\ r.from # "evaluated" =>
              \E before \in records : /\ before.entry = r.entry.expected
                                      /\ before.entry.state = r.from
                                      /\ before.evaluation = r.evaluation
    /\ \A skill \in DOMAIN registry :
         registry[skill] # NoEntry =>
           \E r \in records : r.entry = registry[skill] /\ Skill[r.evaluation.candidate] = skill

(* Two candidates are in one group exactly when evidence connects them,    *)
(* that is, when no set that is closed under shared evidence has only one  *)
(* of them; and the first of a group stands for it.                        *)
GroupsAreClasses(evidence) ==
    LET C == DOMAIN evidence
        closed == {D \in SUBSET C : \A j \in D, k \in C \ D : ~Shares(evidence, j, k)}
        Class(c) == {d \in C : \A D \in closed : c \in D <=> d \in D}
    IN  \A c \in C : Roots(evidence)[c] = Min(Class(c))
=============================================================================
