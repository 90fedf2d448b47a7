------------------------------ MODULE MCDagPlan ------------------------------
(***************************************************************************)
(* A plan of three steps for the DAG executor: 1 and 3 may run together, 2 *)
(* writes a directory that 3 reads in and depends on 1.  Item 0 belongs to *)
(* somebody else and asks for nothing that the token of step 3 does not    *)
(* offer.                                                                  *)
(***************************************************************************)
EXTENDS TLC

DagItems == {0, 1, 2, 3}
DagSteps == {1, 2, 3}
DagResources == {"a", "b", "b/c"}
DagConflict == {<<r, r>> : r \in DagResources} \cup {<<"b", "b/c">>, <<"b/c", "b">>}
DagUses == (0 :> {}) @@ (1 :> {"a"}) @@ (2 :> {"b"}) @@ (3 :> {"b/c"})
DagCanRun == {<<1, 1>>, <<2, 2>>, <<3, 3>>, <<3, 0>>}
DagReadOnly == {0, 1, 3}
DagMaxAttempts == (0 :> 1) @@ (1 :> 2) @@ (2 :> 2) @@ (3 :> 1)
DagDependsOn == (1 :> {}) @@ (2 :> {1}) @@ (3 :> {})

ASSUME DagPlanAssumption ==
    DagSteps \subseteq DagItems /\ DagDependsOn \in [DagSteps -> SUBSET DagSteps]
=============================================================================
