----------------------------- MODULE MeasuredLoop -----------------------------
(***************************************************************************)
(* One run of a measured loop (measured_loop.py): a plan with hard         *)
(* ceilings, a chain of verified iterations, an optional cancellation, and *)
(* the status that is derived from them at some time.  An adapter keeps    *)
(* the records, persists a status, resumes from it and asks for admission  *)
(* of new claims with it, later and with newer records at hand.            *)
(*                                                                         *)
(* The plan is created at time 0.  One metric with baseline 0 that should  *)
(* rise by at least 1 to the target, one kind of token; digests stand for  *)
(* their records, and a chain has no other chain's digests.  Pressure of   *)
(* the machine, provider quota and cost headroom only defer, which the     *)
(* adapter may do anyway.                                                  *)
(***************************************************************************)
EXTENDS Integers, Sequences, FiniteSetsExt

CONSTANTS MaxRounds, MaxTokens, WallTime,  \* the plan's budget
          Ceiling,                         \* of concurrent claims
          PlateauRounds, ZombieAfter,      \* the policy
          Target,
          MaxClock                         \* bound: time

ASSUME LoopAssumption ==
    /\ {MaxRounds, MaxTokens, WallTime, PlateauRounds, ZombieAfter, MaxClock} \subseteq Nat \ {0}
    /\ {Ceiling, Target} \subseteq Nat

VARIABLES
    clock,
    chain,      \* the iteration records
    cancelled,  \* when the cancellation was requested, or Never
    persisted,  \* the status the adapter keeps
    claims      \* admitted claims that are active

loopVars == <<clock, chain, cancelled, persisted, claims>>

Never == MaxClock + 1

TerminalStates == {"cancelled", "completed", "recovery-required", "stopped"}

Tokens(records) == MapThenSumSet(LAMBDA n : records[n].tokens, DOMAIN records)

Newest(records) == records[Len(records)]

Decided(records) == records # <<>> /\ Newest(records).decision \in {"accept", "revert"}

(* _budget_stop_codes                                                      *)
Exhausted(records, at) ==
    \/ Len(records) >= MaxRounds
    \/ Tokens(records) >= MaxTokens
    \/ at >= WallTime

Plateau(records) ==
    /\ Len(records) >= PlateauRounds
    /\ \A n \in Len(records) - PlateauRounds + 1 .. Len(records) : ~records[n].improved

Zombie(records, at) ==
    at - (IF records = <<>> THEN 0 ELSE Newest(records).ended) >= ZombieAfter

(* build_measured_loop_status: the first reason that applies               *)
StateOf(records, cancel, at) ==
    IF cancel THEN "cancelled"
    ELSE IF Decided(records)
         THEN IF Newest(records).decision = "accept" THEN "completed" ELSE "stopped"
    ELSE IF Exhausted(records, at) \/ Plateau(records) THEN "stopped"
    ELSE IF Zombie(records, at) THEN "recovery-required"
    ELSE IF records = <<>> THEN "planned" ELSE "running"

Status(records, cancel, at) ==
    [state |-> StateOf(records, cancel, at), observed |-> at,
     latest |-> Len(records), tokens |-> Tokens(records), cancel |-> cancel]

LoopInit ==
    /\ clock = 0
    /\ chain = <<>>
    /\ cancelled = Never
    /\ persisted = Status(<<>>, FALSE, 0)
    /\ claims = 0

-----------------------------------------------------------------------------
Elapse ==
    /\ clock < MaxClock
    /\ clock' = clock + 1
    /\ UNCHANGED <<chain, cancelled, persisted, claims>>

(* create_iteration_record                                                 *)
Iterate(value, tokens, decision, verified) ==
    LET before == IF chain = <<>> THEN 0 ELSE Newest(chain).value
        record == [value |-> value, tokens |-> tokens, decision |-> decision,
                   improved |-> value - before >= 1, ended |-> clock]
    IN /\ cancelled = Never
       /\ ~Decided(chain)
       /\ clock <= WallTime
       /\ decision \in {"accept", "continue"} => verified
       /\ decision = "accept" => value >= Target
       /\ Len(chain) < MaxRounds
       /\ Tokens(chain) + tokens <= MaxTokens
       /\ chain' = Append(chain, record)
       /\ UNCHANGED <<clock, cancelled, persisted, claims>>

(* create_cancellation_record                                              *)
Cancel ==
    /\ cancelled = Never
    /\ cancelled' = clock
    /\ UNCHANGED <<clock, chain, persisted, claims>>

(* build_measured_loop_status with all the records there are               *)
Project ==
    /\ persisted' = Status(chain, cancelled # Never, clock)
    /\ UNCHANGED <<clock, chain, cancelled, claims>>

(* resume_measured_loop: a terminal status stays as it is.                 *)
Resume ==
    /\ persisted.latest = Len(chain)
    /\ persisted' = IF persisted.state \in TerminalStates THEN persisted
                    ELSE Status(chain, cancelled # Never, clock)
    /\ UNCHANGED <<clock, chain, cancelled, claims>>

\* mutant: the status is taken as it comes
StatusTrusted == TRUE

(* The status is built again at the time it was observed, from the records *)
(* as they are now; one that a later iteration or cancellation has         *)
(* overtaken predates its records.                                         *)
StatusRebuilt ==
    /\ chain # <<>> => Newest(chain).ended <= persisted.observed
    /\ cancelled # Never => cancelled <= persisted.observed
    /\ persisted = Status(chain, cancelled # Never, persisted.observed)

(* decide_admission                                                        *)
Admit(requested) ==
    /\ StatusRebuilt
    /\ persisted.observed >= WallTime => Exhausted(chain, persisted.observed)
    /\ persisted.state \notin TerminalStates
    /\ clock < WallTime
    /\ clock - persisted.observed < ZombieAfter
    /\ persisted.latest < MaxRounds /\ persisted.tokens < MaxTokens
    /\ claims < Ceiling
    /\ claims' = claims + Min({requested, Ceiling - claims})
    /\ UNCHANGED <<clock, chain, cancelled, persisted>>

(* Work that was admitted ends; nobody else ends it.                       *)
Release ==
    /\ claims > 0
    /\ claims' = claims - 1
    /\ UNCHANGED <<clock, chain, cancelled, persisted>>

LoopNext ==
    \/ Elapse
    \/ \E value \in 0 .. Target, tokens \in 0 .. 1, verified \in BOOLEAN,
          decision \in {"accept", "continue", "revert"} :
             Iterate(value, tokens, decision, verified)
    \/ Cancel
    \/ Project
    \/ Resume
    \/ \E requested \in 1 .. Ceiling : Admit(requested)
    \/ Release

LoopSpec == LoopInit /\ [][LoopNext]_loopVars

-----------------------------------------------------------------------------
(* Properties.                                                             *)

(* No claim is admitted to a run that is over by its newest records,       *)
(* however old the status is that the adapter shows: not after a           *)
(* cancellation, a terminal decision, a plateau or an exhausted ceiling,   *)
(* and never more claims than the ceiling.                                 *)
AdmissionIsBounded ==
    claims' > claims =>
      /\ cancelled = Never
      /\ ~Decided(chain)
      /\ ~Exhausted(chain, clock)
      /\ ~Plateau(chain)
      /\ claims' <= Ceiling

AdmittedWithinBounds == [][AdmissionIsBounded]_loopVars
=============================================================================
