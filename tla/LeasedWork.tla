----------------------------- MODULE LeasedWork -----------------------------
(***************************************************************************)
(* What the agent runtime queue promises its clients, without leases,      *)
(* locks, fencing tokens or a clock: work is admitted once, runs one       *)
(* attempt at a time, never beside work it clashes with, is repeated only  *)
(* when repeating it is harmless and allowed, and stays as it ended.       *)
(***************************************************************************)
EXTENDS Integers

CONSTANTS Items,        \* the units of work
          Clashes,      \* pairs of items that must not run together
          Repeatable,   \* the items whose lost attempt may be repeated
          Limit         \* the most attempts each item may have

VARIABLES phase,        \* where each item is
          runs          \* how many attempts each item has begun

vars == <<phase, runs>>

Phase == {"unknown", "waiting", "running", "done", "stopped"}

TypeOK == /\ phase \in [Items -> Phase]
          /\ runs \in [Items -> Nat]

Init == /\ phase \in [Items -> {"unknown", "waiting"}]
        /\ runs = [i \in Items |-> 0]

Admit(i) ==
    /\ phase[i] = "unknown"
    /\ phase' = [phase EXCEPT ![i] = "waiting"]
    /\ UNCHANGED runs

Start(i) ==
    /\ phase[i] = "waiting"
    /\ runs[i] < Limit[i]
    /\ \A j \in Items : phase[j] = "running" => <<i, j>> \notin Clashes
    /\ phase' = [phase EXCEPT ![i] = "running"]
    /\ runs' = [runs EXCEPT ![i] = @ + 1]

Finish(i) ==
    /\ phase[i] = "running"
    /\ phase' = [phase EXCEPT ![i] = "done"]
    /\ UNCHANGED runs

MayRepeat(i) == i \in Repeatable /\ runs[i] < Limit[i]

(* Some running attempts are lost at once: each goes back to waiting if it *)
(* may be repeated, and otherwise stops for good.                          *)
Lose(lost) ==
    /\ \A i \in lost : phase[i] = "running"
    /\ \E again \in SUBSET {i \in lost : MayRepeat(i)} :
          phase' = [i \in Items |-> IF i \in again THEN "waiting"
                                    ELSE IF i \in lost THEN "stopped"
                                    ELSE phase[i]]
    /\ UNCHANGED runs

Next == \/ \E i \in Items : Admit(i) \/ Start(i) \/ Finish(i)
        \/ \E lost \in SUBSET Items : Lose(lost)

Spec == Init /\ [][Next]_vars
=============================================================================
