--------------------------- MODULE MCRuntimeQueue ---------------------------
(***************************************************************************)
(* Three items of one project and two workers of which one may run only    *)
(* the reads.  Item 1 reads a directory, item 2 writes a file in it and    *)
(* takes a task, item 3 reads the same task: 2 overlaps both others, 1 and *)
(* 3 may run together.  Items 1 and 2 have an attempt to spare.            *)
(***************************************************************************)
EXTENDS RuntimeQueue, TLC

Refs == INSTANCE ResourceRefs WITH Names <- {"a", "b"}, MaxDepth <- 2

DirA   == [kind |-> "path", part |-> <<"a">>]
FileAB == [kind |-> "path", part |-> <<"a", "b">>]
TaskB  == [kind |-> "task", part |-> <<"b">>]

MCResources == {DirA, FileAB, TaskB}

MCConflict == {p \in MCResources \X MCResources : Refs!ResourceConflicts(p[1], p[2])}

MCUses == (1 :> {DirA}) @@ (2 :> {FileAB, TaskB}) @@ (3 :> {TaskB})

MCCanRun == {"w1"} \X {1, 2, 3} \cup {"w2"} \X {1, 3}

MCMaxAttempts == (1 :> 2) @@ (2 :> 2) @@ (3 :> 1)

MCGateFits == {2} \X Claims
=============================================================================
