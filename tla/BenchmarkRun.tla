----------------------------- MODULE BenchmarkRun -----------------------------
(***************************************************************************)
(* One exact benchmark plan, given to any number of runners: resolve the   *)
(* inputs again, look into the ledger of the execution host, claim, run    *)
(* every repetition, aggregate, and store one terminal receipt              *)
(* (model_benchmark_runner.py).  The host is not part of the repository;   *)
(* its claim refuses a plan that is claimed (tests/test_model_benchmark_   *)
(* runner.py) and any of its calls may fail, before or after it has taken  *)
(* effect.                                                                 *)
(*                                                                         *)
(* A trial's outcome is "good" (verified, above both floors), "poor",      *)
(* "timeout", "error" (the adapter raised) or "unusable" (its answer does  *)
(* not parse).  Metrics, provenance and the provider authorization, which  *)
(* is part of the plan's identity, are left out.                           *)
(***************************************************************************)
EXTENDS Integers, Sequences

CONSTANTS Runners,
          Repetitions  \* of the plan

ASSUME BenchmarkAssumption == Repetitions \in Nat \ {0} /\ "nobody" \notin Runners

VARIABLES
    inputs,       \* the stored suite, model, health and source fit the plan
    claim,        \* the host's ledger: who claimed the plan
    terminal,     \* ... and the terminal receipt of the claim
    runner,       \* what each runner does
    tried         \* history: the outcomes of each repetition's calls

benchmarkVars == <<inputs, claim, terminal, runner, tried>>

Outcomes == {"good", "poor", "timeout", "error"}

Raised == [at |-> "ended", answer |-> "raised"]

BenchmarkInit ==
    /\ inputs = TRUE
    /\ claim = "nobody"
    /\ terminal = "none"
    /\ runner = [r \in Runners |-> [at |-> "new"]]
    /\ tried = [n \in 1 .. Repetitions |-> <<>>]

-----------------------------------------------------------------------------
Become(r, state) == runner' = [runner EXCEPT ![r] = state]

Ends(r, answer) == Become(r, [at |-> "ended", answer |-> answer])

(* The inputs are resolved from the store and compared with the plan, once.*)
Resolve(r) ==
    /\ runner[r].at = "new"
    /\ IF inputs THEN Become(r, [at |-> "look"]) ELSE Become(r, Raised)
    /\ UNCHANGED <<inputs, claim, terminal, tried>>

\* mutant: a claim without a receipt is taken up again
TakeUpPending(r) ==
    /\ runner[r].at = "look"
    /\ IF claim = "nobody" THEN Become(r, [at |-> "claim"])
       ELSE IF terminal = "none" THEN Become(r, [at |-> "trials", outcomes |-> <<>>])
       ELSE Ends(r, IF terminal = "failed" THEN "failure" ELSE "raised")
    /\ UNCHANGED <<inputs, claim, terminal, tried>>

(* _existing_execution_result: a claimed plan is answered from the ledger  *)
(* alone, and never entered again.                                         *)
LookUp(r) ==
    /\ runner[r].at = "look"
    /\ IF claim = "nobody" THEN Become(r, [at |-> "claim"])
       ELSE Ends(r, IF terminal = "failed" THEN "failure" ELSE "raised")
    /\ UNCHANGED <<inputs, claim, terminal, tried>>

ClaimPlan(r) ==
    /\ runner[r].at = "claim"
    /\ claim = "nobody"
    /\ claim' = r
    /\ \/ Become(r, [at |-> "trials", outcomes |-> <<>>])
       \/ Become(r, Raised)  \* the answer is lost
    /\ UNCHANGED <<inputs, terminal, tried>>

(* run_trial.  A timeout and an exception become outcomes; an answer that  *)
(* does not parse ends the run.                                            *)
RunTrial(r) ==
    /\ runner[r].at = "trials"
    /\ Len(runner[r].outcomes) < Repetitions
    /\ \E o \in Outcomes \cup {"unusable"} :
         /\ tried' = [tried EXCEPT ![Len(runner[r].outcomes) + 1] = Append(@, o)]
         /\ IF o = "unusable" THEN Become(r, [at |-> "fail"])
            ELSE Become(r, [runner[r] EXCEPT !.outcomes = Append(@, o)])
    /\ UNCHANGED <<inputs, claim, terminal>>

(* aggregate_model_benchmark_trials                                        *)
Passes(outcomes) == \A n \in DOMAIN outcomes : outcomes[n] = "good"

Aggregate(r) ==
    /\ runner[r].at = "trials"
    /\ Len(runner[r].outcomes) = Repetitions
    /\ \/ Become(r, [at |-> "complete", passed |-> Passes(runner[r].outcomes)])
       \/ Become(r, [at |-> "fail"])  \* a record that does not validate
    /\ UNCHANGED <<inputs, claim, terminal, tried>>

(* complete.  The receipt binds the aggregate; without the host's answer   *)
(* there is no output.                                                     *)
CompleteRun(r) ==
    /\ runner[r].at = "complete"
    /\ terminal' = "completed"
    /\ \/ Ends(r, IF runner[r].passed THEN "passed" ELSE "not-passed")
       \/ Become(r, Raised)
    /\ UNCHANGED <<inputs, claim, tried>>

(* complete_failure                                                        *)
CompleteFailure(r) ==
    /\ runner[r].at = "fail"
    /\ terminal' = "failed"
    /\ \/ Ends(r, "failure")
       \/ Become(r, Raised)
    /\ UNCHANGED <<inputs, claim, tried>>

(* A call of the host fails without effect, or the runner dies.            *)
GiveUp(r) ==
    /\ runner[r].at # "ended"
    /\ Become(r, Raised)
    /\ UNCHANGED <<inputs, claim, terminal, tried>>

(* The model's health expires, or the project's sources change.            *)
InputsChange ==
    /\ inputs
    /\ inputs' = FALSE
    /\ UNCHANGED <<claim, terminal, runner, tried>>

BenchmarkNext ==
    \/ \E r \in Runners :
         \/ Resolve(r) \/ LookUp(r) \/ ClaimPlan(r) \/ RunTrial(r) \/ Aggregate(r)
         \/ CompleteRun(r) \/ CompleteFailure(r) \/ GiveUp(r)
    \/ InputsChange

BenchmarkSpec == BenchmarkInit /\ [][BenchmarkNext]_benchmarkVars

-----------------------------------------------------------------------------
(* Properties.                                                             *)

(* No provider call is repeated: whoever runs the plan again, after a      *)
(* crash, a lost answer or at the same time, a repetition is called at     *)
(* most once, and only under the claim.  A benchmark that is reported as   *)
(* passed had every repetition run and approved ("prevents a high average  *)
(* from hiding an unsafe failed trial"), and one receipt answers for the   *)
(* plan: a run reported as failed never has another result.                *)
OneTrueReport ==
    /\ \A n \in DOMAIN tried : Len(tried[n]) <= 1 /\ (tried[n] # <<>> => claim # "nobody")
    /\ \A r \in Runners : runner[r].at = "ended" =>
         /\ runner[r].answer = "passed" =>
              terminal = "completed" /\ \A n \in DOMAIN tried : tried[n] = <<"good">>
         /\ runner[r].answer = "not-passed" =>
              terminal = "completed" /\ \E n \in DOMAIN tried : tried[n] # <<"good">>
         /\ runner[r].answer = "failure" => terminal = "failed"
=============================================================================
