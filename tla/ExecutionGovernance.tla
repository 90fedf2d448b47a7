------------------------ MODULE ExecutionGovernance ------------------------
(***************************************************************************)
(* The register of what is known and not known about a governed task, and  *)
(* the transitions of its environment that the register can block          *)
(* (execution_governance.py).  The module under src/ makes and checks      *)
(* documents and stores none: whoever uses it keeps the register, and      *)
(* changes the environment.                                                *)
(*                                                                         *)
(* Times are compared as the texts that isoformat makes of them.  It drops *)
(* a fraction of zero, and "." sorts before "Z": within each second its    *)
(* first moment, "...:01Z", comes after all others, "...:01.500000Z".      *)
(***************************************************************************)
EXTENDS Integers, Sequences, FiniteSets

CONSTANTS Findings,       \* what entries can say: lineage (kind, topic, owner), severity,
                          \* and a disposition that the kind can have
          Digests,        \* of the environment
          MaxEntries,     \* bound: entries
          MaxTransitions, \* bound: transition plans
          Parts,          \* of a second that times tell apart: the first is the whole second
          PlanTime,       \* when the governance plan was created
          MaxClock        \* bound: the time

VARIABLES
    clock,
    register,    \* entries in the order of their time
    environment, \* stage and digest
    transitions, \* transition plans, with the time when they were made
    authorized   \* the transition plans that were authorized, by their number

governanceVars == <<clock, register, environment, transitions, authorized>>

Stages == <<"dev", "test", "pilot", "production">>

Rank(severity) == CASE severity = "low" -> 0 [] severity = "medium" -> 1
                    [] severity = "high" -> 2 [] severity = "critical" -> 3

(* Where the text of _timestamp comes in the order of all such texts       *)
Text(time) == IF time % Parts = 0 THEN time + Parts - 1 ELSE time - 1

Unresolved(entry) == entry.finding.disposition \in {"open", "blocked"}

-----------------------------------------------------------------------------
(* create_register_entry; "over" is the entry that it supersedes, or 0.    *)
RecordEntry(finding, over) ==
    /\ Len(register) < MaxEntries
    /\ register' = Append(register, [finding |-> finding, over |-> over, at |-> clock])
    /\ UNCHANGED <<clock, environment, transitions, authorized>>

\* mutant: an unresolved entry may lower the severity
SameLineage(entry, prior) ==
    /\ entry.finding.lineage = prior.finding.lineage
    /\ Text(prior.at) < Text(entry.at)

(* What an entry may supersede                                             *)
Supersedes(entry, prior) ==
    /\ entry.finding.lineage = prior.finding.lineage
    /\ Unresolved(entry) => Rank(entry.finding.severity) >= Rank(prior.finding.severity)
    /\ Text(prior.at) < Text(entry.at)

(* validate_register                                                       *)
ValidRegister ==
    \A k \in DOMAIN register :
      /\ Text(register[k].at) >= Text(PlanTime)
      /\ register[k].over # 0 => Supersedes(register[k], register[register[k].over])

(* _blocking_entries                                                       *)
Blocking ==
    {k \in DOMAIN register :
       /\ \A later \in DOMAIN register : register[later].over # k
       /\ register[k].finding.lineage.kind \in {"unknown", "deviation"}
       /\ register[k].finding.severity \in {"high", "critical"}
       /\ Unresolved(register[k])}

(* _build_transition_plan, with a time that the caller says                *)
PlanTransition(kind, from, to, source, target, created, of) ==
    /\ Len(transitions) < MaxTransitions
    /\ Text(created) >= Text(PlanTime)
    /\ ValidRegister
    /\ \A k \in DOMAIN register : Text(register[k].at) <= Text(created)
    /\ Blocking = {}
    /\ source # target
    /\ transitions' = Append(transitions, [kind |-> kind, from |-> from, to |-> to,
                                           source |-> source, target |-> target,
                                           created |-> created, of |-> of,
                                           made |-> clock])
    /\ UNCHANGED <<clock, register, environment, authorized>>

(* build_environment_promotion_plan: only the first stage can be left.     *)
PlanPromotion(source, target, created) ==
    PlanTransition("promotion", Stages[1], Stages[2], source, target, created, 0)

(* build_environment_rollback_plan, of a promotion that was authorized;    *)
(* the caller may say other stages and digests than the promotion's.       *)
PlanRollback(t, stage, source, target, created) ==
    /\ transitions[t].kind = "promotion"
    /\ t \in authorized
    /\ environment.digest = transitions[t].target
    /\ PlanTransition("rollback", Stages[stage], Stages[stage - 1], source, target, created, t)

(* authorize_environment_transition, when the user has approved the exact  *)
(* plan; again is the same.                                                *)
Authorize(t) ==
    /\ environment.stage = transitions[t].from
    /\ environment.digest = transitions[t].source
    /\ Text(clock) >= Text(transitions[t].created)
    /\ authorized' = authorized \cup {t}
    /\ UNCHANGED <<clock, register, environment, transitions>>

(* What is authorized is done, by an adapter that is not under src/ and    *)
(* looks at the environment once more.                                     *)
Perform(t) ==
    /\ t \in authorized
    /\ environment = [stage |-> transitions[t].from, digest |-> transitions[t].source]
    /\ environment' = [stage |-> transitions[t].to, digest |-> transitions[t].target]
    /\ UNCHANGED <<clock, register, transitions, authorized>>

(* Somebody else changes the environment.                                  *)
Drift(digest) ==
    /\ environment' = [environment EXCEPT !.digest = digest]
    /\ UNCHANGED <<clock, register, transitions, authorized>>

Tick ==
    /\ clock < MaxClock
    /\ clock' = clock + 1
    /\ UNCHANGED <<register, environment, transitions, authorized>>

GovernanceInit ==
    /\ clock = PlanTime
    /\ register = <<>>
    /\ environment \in [stage : {Stages[1]}, digest : Digests]
    /\ transitions = <<>>
    /\ authorized = {}

Times == PlanTime .. MaxClock

GovernanceNext ==
    \/ \E finding \in Findings, over \in 0 .. Len(register) : RecordEntry(finding, over)
    \/ \E source, target \in Digests, created \in Times :
         \/ PlanPromotion(source, target, created)
         \/ \E t \in DOMAIN transitions, stage \in 2 .. Len(Stages) :
              PlanRollback(t, stage, source, target, created)
    \/ \E t \in DOMAIN transitions : Authorize(t) \/ Perform(t)
    \/ \E digest \in Digests : Drift(digest)
    \/ Tick

GovernanceSpec == GovernanceInit /\ [][GovernanceNext]_governanceVars

-----------------------------------------------------------------------------
(* The entries that supersede an entry, directly or through others         *)
Successors(k) ==
    LET over[j \in DOMAIN register] ==
          \/ register[j].over = k
          \/ register[j].over # 0 /\ over[register[j].over]
    IN  {j \in DOMAIN register : over[j]}

(* Whether what is dated "created" may rest on an entry: one of no later   *)
(* time, or of the second that begins with that date.                      *)
MayKnow(created, entry) ==
    \/ entry.at <= created
    \/ created % Parts = 0 /\ entry.at \div Parts = created \div Parts

(* A finding that was recorded as severe and unresolved before the date of *)
(* an authorized transition was disposed of by then, or within the second  *)
(* that begins with that date: an entry of the same lineage that supersedes*)
(* it, through any number of entries, is not unresolved.  (The code says   *)
(* that it "cannot use future register evidence", but compares texts.)  A  *)
(* plan that is dated ahead of the time cannot know what will be found, and*)
(* is left out.  And what is rolled back was a promotion that was          *)
(* authorized.                                                             *)
FindingsAreDisposedOf ==
    \A t \in authorized :
      LET plan     == transitions[t]
          findings == {k \in DOMAIN register :
                         /\ register[k].at < plan.created
                         /\ register[k].finding.lineage.kind \in {"unknown", "deviation"}
                         /\ Rank(register[k].finding.severity) >= Rank("high")
                         /\ Unresolved(register[k])}
      IN  /\ plan.created <= plan.made =>
               \A k \in findings : \E j \in Successors(k) :
                 /\ register[j].finding.lineage = register[k].finding.lineage
                 /\ ~Unresolved(register[j])
                 /\ MayKnow(plan.created, register[j])
          /\ plan.kind = "rollback" =>
               plan.of \in authorized /\ transitions[plan.of].kind = "promotion"
=============================================================================
