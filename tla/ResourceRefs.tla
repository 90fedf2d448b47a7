---------------------------- MODULE ResourceRefs ----------------------------
(***************************************************************************)
(* Portable resource references of the runtime queue, and the test that    *)
(* decides whether two of them overlap.  One project has one queue, so the *)
(* project part of a reference is the same everywhere and is left out:     *)
(*                                                                         *)
(*     project:<p>          kind "project", part <<>>                      *)
(*     task:<p>:<id>        kind "task",    part <<id>>                    *)
(*     path:<p>:a/b         kind "path",    part <<a, b>>  ("." is <<>>)   *)
(*                                                                         *)
(* A path is the sequence of its components, which is what PurePosixPath   *)
(* makes of it: the source never compares paths as text.                   *)
(***************************************************************************)
EXTENDS Integers, Sequences, SequencesExt

CONSTANTS Names,      \* the components a path is made of, and the task ids
          MaxDepth    \* bound: the longest path considered

ASSUME DepthAssumption == MaxDepth \in Nat

Paths == SeqOf(Names, MaxDepth)

Ref == [kind: {"project"}, part: {<<>>}]
         \cup [kind: {"task"}, part: {<<n>> : n \in Names}]
         \cup [kind: {"path"}, part: Paths]

\* A plausible slip: only the immediate parent directory counts.
HoldsOnlyDirectParent(p, q) == Len(q) > 0 /\ p = Front(q)

(* p is one of the parents of q. *)
IsParentOf(p, q) == IsStrictPrefix(p, q)

(* _resource_conflicts: what claim asks of every wanted and locked pair.   *)
ResourceConflicts(left, right) ==
    \/ left = right
    \/ "project" \in {left.kind, right.kind}
    \/ /\ left.kind = "path"
       /\ right.kind = "path"
       /\ \/ IsParentOf(left.part, right.part)
          \/ IsParentOf(right.part, left.part)

(***************************************************************************)
(* Reference definition.  What a reference stands for: a project is all    *)
(* that is in it, a task is itself, a path is everything at or below it.   *)
(***************************************************************************)
Things == {<<"task", <<n>>>> : n \in Names} \cup {<<"path", p>> : p \in Paths}

Extent(ref) ==
    CASE ref.kind = "project" -> Things
      [] ref.kind = "task"    -> {<<"task", ref.part>>}
      [] ref.kind = "path"    -> {<<"path", p>> : p \in {q \in Paths : IsPrefix(ref.part, q)}}
=============================================================================
