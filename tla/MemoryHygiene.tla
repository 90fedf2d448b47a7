---------------------------- MODULE MemoryHygiene ----------------------------
(***************************************************************************)
(* Suggestions to withdraw durable memories (memory_hygiene.py), and the   *)
(* gate that they have to pass like any other decision (DurableMemory).    *)
(*                                                                         *)
(* A report is made from overlays: reviewed metadata about one revision of *)
(* a memory each, written at any time before and brought by the client.    *)
(* The store is not looked at.  So a report can be made at any later time  *)
(* from what the memories once were, and which suggestions there are does  *)
(* not depend on when they were made: reports are not part of the state.   *)
(* Memories are numbers, in the order of their identities.                 *)
(*                                                                         *)
(* The lists that suggest nothing (conflicts, unused, not yet valid), the  *)
(* grouping of research evidence and the measurement of contexts are left  *)
(* out.                                                                    *)
(***************************************************************************)
EXTENDS DurableMemory, FiniteSetsExt

CONSTANTS Meaning,    \* the semantic digest of a content
          Ages,       \* what an overlay can say: used (or created), until, review
          Times,      \* the times that a report can be asked for
          StaleAfter

ASSUME MemoriesAssumption == Memories \subseteq Nat

NoMemory == 0

-----------------------------------------------------------------------------
(* The record of a memory at one of its revisions, as it was written       *)
RecordOf(m, revision) ==
    LET i == CHOOSE i \in DOMAIN writes :
               /\ writes[i].memory = m
               /\ writes[i].revision = IF writes[i].kind = "review" THEN revision
                                       ELSE revision - 1
    IN  [revision |-> revision, content |-> writes[i].content,
         lifecycle |-> CASE writes[i].kind = "review"    -> "current"
                         [] writes[i].kind = "supersede" -> "superseded"
                         [] writes[i].kind = "revoke"    -> "archived"]

(* The overlays that a report may be made from, one for each memory that   *)
(* it is about (parse_memory_metadata_overlay)                             *)
Overlays ==
    UNION {{[m \in S |-> [record |-> RecordOf(m, revision[m]), age |-> age[m]]] :
              revision \in {r \in [S -> 1 .. MaxMemoryRevision] :
                              \A m \in S : r[m] <= memory[m].revision},
              age \in [S -> Ages]} :
           S \in SUBSET {m \in Memories : memory[m].revision > 0}}

Meant(overlay) == Meaning[overlay.record.content]

Stale(overlay, now) ==
    \/ overlay.age.until <= now
    \/ overlay.record.lifecycle = "current" /\ now - overlay.age.used >= StaleAfter

DueForReview(overlay, now) == overlay.age.review <= now

(* Memories with one meaning, and those of them that are current           *)
Group(o, meaning) == {m \in DOMAIN o : Meant(o[m]) = meaning}
CurrentOf(o, meaning) == {m \in Group(o, meaning) : o[m].record.lifecycle = "current"}
Duplicated(o) == {x \in {Meant(o[m]) : m \in DOMAIN o} : Cardinality(CurrentOf(o, x)) > 1}

\* mutant: the one that was used last stands for the others
LastUsed(o, meaning) ==
    CHOOSE m \in CurrentOf(o, meaning) :
      \A n \in CurrentOf(o, meaning) : o[n].age.used <= o[m].age.used

Canonical(o, meaning) == Min(CurrentOf(o, meaning))

Duplicates(o) == UNION {CurrentOf(o, x) \ {Canonical(o, x)} : x \in Duplicated(o)}

(* parse_memory_hygiene_report, which a report has to pass when it is      *)
(* made: the groups are in the order of their first memories, and refused  *)
(* unless that is the order of those that stand for them.                  *)
Accepted(o) ==
    \A x, y \in Duplicated(o) :
      Min(Group(o, x)) < Min(Group(o, y)) => Canonical(o, x) < Canonical(o, y)

(* HygieneActionSuggestion, as the action that it suggests                 *)
Suggestion(o, m) ==
    LET duplicate == m \in Duplicates(o)
    IN  [kind |-> IF duplicate THEN "supersede" ELSE "revoke", memory |-> m,
         revision |-> o[m].record.revision, content |-> o[m].record.content,
         replacement |-> IF duplicate THEN Canonical(o, Meant(o[m])) ELSE NoMemory]

(* build_memory_hygiene_report                                             *)
Suggestions(o, now) ==
    {Suggestion(o, m) :
       m \in Duplicates(o) \cup {m \in DOMAIN o : Stale(o[m], now) \/ DueForReview(o[m], now)}}

(* The user approves an action, which is exactly the one that is suggested *)
(* (prepare_reviewed_memory_action).                                       *)
Follow ==
    \E o \in {o \in Overlays : Accepted(o)}, now \in Times :
      \E action \in Suggestions(o, now) : Decide(action)

HygieneNext == MemoryNext \/ Follow

HygieneSpec == MemoryInit /\ [][HygieneNext]_memoryVars

-----------------------------------------------------------------------------
(* Properties.                                                             *)

(* Whatever was stored with a meaning, and given up by a revocation, by a  *)
(* supersession that no report suggested, or by new content in its place   *)
Stored(meaning) ==
    {i \in DOMAIN writes : Meaning[writes[i].content] = meaning}

GivenUp(meaning) ==
    \E i \in Stored(meaning) :
      \/ writes[i].kind = "revoke"
      \/ writes[i].kind = "supersede" /\ "replacement" \notin DOMAIN writes[i]
      \/ \E j \in DOMAIN writes \ Stored(meaning) :
           i < j /\ writes[j].memory = writes[i].memory

(* Superseding duplicates never loses their meaning: as long as no copy is *)
(* given up, one of them is current, although reports are made from old    *)
(* overlays, followed in any order, and nothing looks at a replacement     *)
(* again.                                                                  *)
LastCopyStays ==
    \A meaning \in {Meaning[x] : x \in Contents} :
      Stored(meaning) # {} /\ ~GivenUp(meaning) =>
        \E m \in Memories :
          memory[m].lifecycle = "current" /\ Meaning[memory[m].content] = meaning

(* What is current was approved, each decision takes effect once           *)
(* (memory_gate.py), and superseding duplicates keeps one of them          *)
(* (memory_hygiene.py).                                                    *)
MemoriesAreKept == MemoryRestsOnDecisions /\ LastCopyStays
=============================================================================
