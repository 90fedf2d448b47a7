---------------------------- MODULE AtomicRelease ----------------------------
(***************************************************************************)
(* What deployment promises: the installed tree is one whole version after *)
(* another.  A version is installed over the last one or given up, the     *)
(* last one can be taken back, and whenever no change is in progress the   *)
(* tree that everybody sees is the last version, complete.                 *)
(***************************************************************************)
EXTENDS Naturals, Sequences

CONSTANTS Initial,    \* the first version
          Changing    \* what is seen of the tree during a change

VARIABLES versions,   \* the installed versions, the last one on top
          seen        \* the tree, as far as somebody may rely on it

Init ==
    /\ versions = <<Initial>>
    /\ seen = Initial

Begin ==
    /\ seen # Changing
    /\ seen' = Changing
    /\ UNCHANGED versions

(* Taking the last version back is a change that begins without it.        *)
Withdraw ==
    /\ Len(versions) > 1
    /\ versions' = SubSeq(versions, 1, Len(versions) - 1)
    /\ seen' = Changing

Install ==
    /\ seen = Changing
    /\ seen' # Changing
    /\ versions' = Append(versions, seen')

GiveUp ==
    /\ seen = Changing
    /\ seen' = versions[Len(versions)]
    /\ UNCHANGED versions

Next == Begin \/ Withdraw \/ Install \/ GiveUp

Spec == Init /\ [][Next]_<<versions, seen>>
=============================================================================
