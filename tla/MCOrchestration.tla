-------------------------- MODULE MCOrchestration --------------------------
(***************************************************************************)
(* Two clients carry on a task of two steps, the second of which depends   *)
(* on the first.                                                           *)
(***************************************************************************)
EXTENDS Orchestration, TLC

MCDependsOn == [step \in Steps |-> IF step = "test" THEN {"build"} ELSE {}]

MCInputs == [step \in Steps |-> IF step = "test" THEN {"x", "y"} ELSE {"x"}]

(* An event that is neither in the state's history nor of a later sequence *)
(* is never looked at again: the view leaves it out.                       *)
LiveEvents ==
    {h \in events : Len(h) > Len(state.history) \/ h = SubSeq(state.history, 1, Len(h))}

(* A client whose put is refused can only stop, as the history, the events *)
(* and the revision of the item never go back: what it was about to put is *)
(* left out as well.                                                       *)
Refused(c) ==
    \/ pc[c] = "transition" /\ ~ENABLED PutEvent(c)
    \/ pc[c] = "state" /\ ~ENABLED PutState(c)
    \/ pc[c] = "close" /\ ~ENABLED CloseItem(c)
    \/ pc[c] = "item-event" /\ ~ENABLED PutItemEvent(c)

Doing(c) == IF Refused(c) THEN <<"refused", NoJob>> ELSE <<pc[c], job[c]>>

View == <<state, LiveEvents, checkpoints, attestation, itemRecords,
          [c \in Clients |-> Doing(c)]>>

Symmetry == Permutations(Clients)
=============================================================================
