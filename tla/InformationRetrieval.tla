------------------------ MODULE InformationRetrieval ------------------------
(***************************************************************************)
(* The reading side of a home's information records.  A question reads     *)
(* bindings, sources and what was written about them one record after the  *)
(* other, without a lock, and derives what of it is current                *)
(* (knowledge_catalog.py, information_records.py).  Then it finds the      *)
(* records with a text (exact_retrieval.py), walks along relations within  *)
(* explicit limits (dependency_retrieval.py) or packs records that a       *)
(* client chose into a limited context (context_builder.py).  Others put   *)
(* records meanwhile.  A revision stands for revision and digest together. *)
(***************************************************************************)
EXTENDS Integers, SequencesExt

CONSTANTS Sources,    \* sources, in the order in which they are listed
          Knowledge,  \* knowledge records, in that order
          Memories,   \* memory records, in that order
          SourceOf,   \* the source that such a record has its evidence from
          Links,      \* relations in the order of traversal: [from, to, type]
          Units,      \* the units that the content of a record takes
          Questions,  \* what may be asked
          MaxChanges  \* bound: records put

VARIABLES
    store,    \* the record of each key
    changes,
    question

retrievalVars == <<store, changes, question>>

Notes == Range(Knowledge) \cup Range(Memories)

LinkIds == DOMAIN Links

Keyed(kind, list) == [i \in DOMAIN list |-> <<kind, list[i]>>]

Ids == [l \in LinkIds |-> l]

(* What a question reads, in order                                         *)
Reads(kind) ==
    Keyed("binding", Sources) \o Keyed("record", Sources) \o Keyed("record", Knowledge)
      \o (CASE kind = "dependencies" -> Keyed("link", Ids)
            [] kind = "context"      -> Keyed("record", Memories)
            [] OTHER                 -> <<>>)

-----------------------------------------------------------------------------
(* What others put; each record has the next revision.                     *)
Put(key, record) ==
    /\ changes < MaxChanges
    /\ changes' = changes + 1
    /\ store' = [store EXCEPT ![key] = record]
    /\ UNCHANGED question

Revision(key) == store[key].revision

(* A binding is changed, and may allow reading or no longer.               *)
Rebind(s, readable) ==
    Put(<<"binding", s>>, [revision |-> Revision(<<"binding", s>>) + 1, readable |-> readable])

(* A source's current revision is recorded.                                *)
Rescan(s) ==
    Put(<<"record", s>>, [revision |-> Revision(<<"record", s>>) + 1,
                          binding |-> Revision(<<"binding", s>>), lifecycle |-> "current"])

(* Something is written from a revision of its source, an old one maybe.   *)
Write(n, of) ==
    Put(<<"record", n>>, [revision |-> Revision(<<"record", n>>) + 1, of |-> of,
                          lifecycle |-> "current"])

(* A relation is recorded, on evidence of the record that it starts from.  *)
Relate(l, of) ==
    Put(<<"link", l>>, [revision |-> Revision(<<"link", l>>) + 1, of |-> of,
                        lifecycle |-> "current"])

Archive(key) ==
    /\ store[key].lifecycle = "current"
    /\ Put(key, [store[key] EXCEPT !.revision = @ + 1, !.lifecycle = "archived"])

-----------------------------------------------------------------------------
(* Availability, from what was read                                        *)
SourceAvailability(seen, s) ==
    LET source == seen[<<"record", s>>]
        binding == seen[<<"binding", s>>]
    IN  CASE source.lifecycle # "current"         -> source.lifecycle
          [] ~binding.readable                    -> "binding-conflict"
          [] binding.revision # source.binding    -> "binding-stale"
          [] OTHER                                -> "current"

(* record_is_stale, and the lifecycle of a record                          *)
NoteAvailability(seen, n) ==
    LET note == seen[<<"record", n>>]
        s == SourceOf[n]
    IN  CASE note.lifecycle # "current" -> note.lifecycle
          [] SourceAvailability(seen, s) = "current"
               /\ seen[<<"record", s>>].revision = note.of -> "current"
          [] OTHER -> "stale"

Availability(seen, r) ==
    IF r \in Notes THEN NoteAvailability(seen, r) ELSE SourceAvailability(seen, r)

\* mutant: the evidence is not compared
BetweenCurrent(seen, l) ==
    CASE seen[<<"link", l>>].lifecycle # "current" -> seen[<<"link", l>>].lifecycle
      [] \A r \in {Links[l].from, Links[l].to} : Availability(seen, r) = "current" -> "current"
      [] OTHER -> "stale"

(* _relation_availability                                                  *)
LinkAvailability(seen, l) ==
    CASE seen[<<"link", l>>].lifecycle # "current" -> seen[<<"link", l>>].lifecycle
      [] /\ \A r \in {Links[l].from, Links[l].to} : Availability(seen, r) = "current"
         /\ seen[<<"record", Links[l].from>>].revision = seen[<<"link", l>>].of -> "current"
      [] OTHER -> "stale"

-----------------------------------------------------------------------------
Idle == [phase |-> "idle"]

(* parse_dependency_query                                                  *)
ValidQuery(ask) ==
    /\ ask.seeds # <<>> /\ IsInjective(ask.seeds)
    /\ ask.direction \in {"outbound", "inbound", "both"}
    /\ ask.types # {} /\ ask.depth >= 1 /\ ask.edges >= 1
    /\ ask.nodes >= Len(ask.seeds)

(* parse_exact_retrieval_query; "matches" are the records with the text,   *)
(* each with the rank of the best of the fields that have it.              *)
ValidSearch(ask) == ask.limit >= 1 /\ DOMAIN ask.matches \subseteq Range(Sources \o Knowledge)

(* parse_context_build_request                                             *)
ValidRequest(ask) ==
    /\ ask.candidates # <<>> /\ ask.units >= 1 /\ ask.items >= 1
    /\ ask.fragment \in 1 .. ask.units

(* "began" remembers the home as it was when the question was parsed.      *)
Ask(ask) ==
    /\ question = Idle
    /\ CASE ask.kind = "dependencies" -> ValidQuery(ask)
         [] ask.kind = "exact"        -> ValidSearch(ask)
         [] OTHER                     -> ValidRequest(ask)
    /\ question' = [phase |-> "reading", ask |-> ask, todo |-> Reads(ask.kind), seen |-> <<>>,
                    began |-> store]
    /\ UNCHANGED <<store, changes>>

ReadNext ==
    /\ question.phase = "reading"
    /\ question.todo # <<>>
    /\ LET key == Head(question.todo)
       IN  question' = [question EXCEPT !.todo = Tail(@), !.seen = (key :> store[key]) @@ @]
    /\ UNCHANGED <<store, changes>>

HasRead(kind) ==
    /\ question.phase = "reading"
    /\ question.todo = <<>>
    /\ question.ask.kind = kind

Answer(phase, found) ==
    /\ question' = [phase |-> phase, ask |-> question.ask, seen |-> question.seen,
                    began |-> question.began, found |-> found]
    /\ UNCHANGED <<store, changes>>

Refuse(why) == Answer("refused", why)

(* AUTHORITY_RANK, and the place among all records by name                 *)
Authority(r) ==
    CASE r \in Range(Sources) -> 0 [] r \in Range(Knowledge) -> 1 [] OTHER -> 2

Place(r) ==
    LET all == Sources \o Knowledge \o Memories
    IN  CHOOSE i \in DOMAIN all : all[i] = r

(* Sort keys are compared from the left.                                   *)
Less(k, l) == \E i \in DOMAIN k : k[i] < l[i] /\ \A j \in 1 .. i - 1 : k[j] = l[j]

(* AVAILABILITY_RANK                                                       *)
Gone(q, r) ==
    CHOOSE i \in 1 .. 5 :
      <<"current", "binding-stale", "binding-conflict", "stale", "archived">>[i]
        = Availability(q.seen, r)

(* _hit_sort_key; the evidence does not tell these records apart.          *)
HitKey(q, r) ==
    <<q.ask.matches[r], Gone(q, r), Authority(r), -q.seen[<<"record", r>>].revision, Place(r)>>

Better(q, r, t) == Less(HitKey(q, r), HitKey(q, t))

(* What may be found and matches                                           *)
Hits(q) == {r \in DOMAIN q.ask.matches : q.ask.unavailable \/ Availability(q.seen, r) = "current"}

(* retrieve_exact                                                          *)
FindExact ==
    /\ HasRead("exact")
    /\ LET q == question
           Order(r, t) == Better(q, r, t)
           ordered == SetToSortSeq(Hits(q), Order)
       IN  Answer("done", [hits |-> SubSeq(ordered, 1, Min({q.ask.limit, Len(ordered)})),
                           truncated |-> Len(ordered) > q.ask.limit])

(* retrieve_dependencies begins at its seeds.                              *)
BeginWalk ==
    /\ HasRead("dependencies")
    /\ LET ask == question.ask
           seeds == Range(ask.seeds)
       IN  IF /\ ~ask.unavailable
              /\ \E r \in seeds : Availability(question.seen, r) # "current"
           THEN Refuse("unavailable")
           ELSE Answer("walking",
                       [depth |-> [r \in seeds |-> 0], edges |-> {}, queue |-> ask.seeds,
                        truncated |-> FALSE, limited |-> FALSE])

(* _adjacent, of the relation types that are asked for                     *)
Eligible(ask, r) ==
    SelectSeq(Ids, LAMBDA l : /\ Links[l].type \in ask.types
                              /\ \/ ask.direction # "inbound" /\ Links[l].from = r
                                 \/ ask.direction # "outbound" /\ Links[l].to = r)

OtherEnd(l, r) == IF Links[l].from = r THEN Links[l].to ELSE Links[l].from

Usable(q, r, l) ==
    /\ q.ask.stale \/ LinkAvailability(q.seen, l) = "current"
    /\ q.ask.unavailable \/ Availability(q.seen, OtherEnd(l, r)) = "current"

(* One relation of record r.  (A neighbor that is on the path to r has     *)
(* been found, so the path decides nothing more.)                          *)
Follow(q, r, found, l) ==
    LET other == OtherEnd(l, r)
        new == other \notin DOMAIN found.depth
    IN  IF l \in found.edges \/ ~Usable(q, r, l)
        THEN found
        ELSE IF \/ new /\ Cardinality(DOMAIN found.depth) >= q.ask.nodes
                \/ Cardinality(found.edges) >= q.ask.edges
        THEN [found EXCEPT !.truncated = TRUE]
        ELSE [found EXCEPT !.edges = @ \cup {l},
                           !.depth = IF new THEN (other :> found.depth[r] + 1) @@ @ ELSE @,
                           !.queue = IF new THEN Append(@, other) ELSE @]

(* The next record of the queue                                            *)
Walk ==
    /\ question.phase = "walking"
    /\ question.found.queue # <<>>
    /\ LET q == question
           r == Head(q.found.queue)
           rest == [q.found EXCEPT !.queue = Tail(@)]
           Step(found, l) == Follow(q, r, found, l)
       IN  question' = [q EXCEPT !.found =
             IF rest.depth[r] >= q.ask.depth
             THEN [rest EXCEPT !.limited = @ \/ Range(Eligible(q.ask, r)) \ rest.edges # {}]
             ELSE FoldLeft(Step, rest, Eligible(q.ask, r))]
    /\ UNCHANGED <<store, changes>>

(* The relations that lie on a cycle: one reaches from their end to their  *)
(* start along relations that were found (_cycle_relation_ids).            *)
ReachedFrom(r, edges) ==
    LET Grow(S, i) == S \cup {Links[l].to : l \in {e \in edges : Links[e].from \in S}}
    IN  FoldLeft(Grow, {r}, Ids)

OnCycles(edges) == {l \in edges : Links[l].from \in ReachedFrom(Links[l].to, edges)}

EndWalk ==
    /\ question.phase = "walking"
    /\ question.found.queue = <<>>
    /\ Answer("done", question.found @@ [cycles |-> OnCycles(question.found.edges)])

-----------------------------------------------------------------------------
(* Candidates of the same record are one (_merge_candidates).              *)
Merged(ask) ==
    LET Of(r) == {c \in Range(ask.candidates) : c.record = r}
    IN  {[record |-> r,
          required |-> r \in ask.requires \/ \E c \in Of(r) : c.required,
          priority |-> Min({c.priority : c \in Of(r)}),
          cut |-> \A c \in Of(r) : c.cut] : r \in {c.record : c \in Range(ask.candidates)}}

(* _candidate_sort_key, where a priority stands for priority and layer, of *)
(* candidates that were selected alike; what is required comes first.      *)
CandidateKey(q, c) ==
    <<IF c.required THEN 0 ELSE 1, c.priority, Authority(c.record),
      -q.seen[<<"record", c.record>>].revision, Place(c.record)>>

Before(q, c, d) == Less(CandidateKey(q, c), CandidateKey(q, d))

UnitsOf(S) == MapThenSumSet(LAMBDA c : Units[c.record], S)

(* A candidate is included whole, or cut to the units that remain, or      *)
(* excluded; cutting at a character may lose some of the units.            *)
Pack(q, package, c) ==
    LET remaining == q.ask.units - package.used
        fragment == remaining - q.ask.lost
        Include(n) == [package EXCEPT !.items = (c.record :> n) @@ @, !.used = @ + n]
        Exclude(why) == [package EXCEPT !.excluded = (c.record :> why) @@ @]
    IN  IF Availability(q.seen, c.record) # "current" THEN Exclude("stale-or-unavailable")
        ELSE IF Cardinality(DOMAIN package.items) >= q.ask.items THEN Exclude("item-budget")
        ELSE IF Units[c.record] <= remaining THEN Include(Units[c.record])
        ELSE IF c.required THEN [package EXCEPT !.failed = TRUE]
        ELSE IF q.ask.cutting /\ c.cut /\ fragment >= q.ask.fragment THEN Include(fragment)
        ELSE Exclude("content-budget")

(* build_context_package; all candidates are from one reading.             *)
BuildContext ==
    /\ HasRead("context")
    /\ LET q == question
           candidates == Merged(q.ask)
           required == {c \in candidates : c.required}
           Step(package, c) == Pack(q, package, c)
           Order(c, d) == Before(q, c, d)
           empty == [items |-> <<>>, excluded |-> <<>>, used |-> 0, failed |-> FALSE]
           package == FoldLeft(Step, empty, SetToSortSeq(candidates, Order))
       IN  IF \/ ~(q.ask.requires \subseteq {c.record : c \in candidates})
              \/ Cardinality(required) > q.ask.items
              \/ \E c \in required : Availability(q.seen, c.record) # "current"
              \/ UnitsOf(required) > q.ask.units
           THEN Refuse("mandatory")
           ELSE IF package.failed THEN Refuse("cannot be cut")
           ELSE Answer("done", package)

RetrievalInit ==
    /\ store = [key \in Range(Reads("dependencies") \o Reads("context")) |->
                  CASE key[1] = "binding" -> [revision |-> 1, readable |-> TRUE]
                    [] key[1] = "link" -> [revision |-> 1, of |-> 1, lifecycle |-> "current"]
                    [] key[2] \in Notes -> [revision |-> 1, of |-> 1, lifecycle |-> "current"]
                    [] OTHER -> [revision |-> 1, binding |-> 1, lifecycle |-> "current"]]
    /\ changes = 0
    /\ question = Idle

RetrievalNext ==
    \/ \E s \in Range(Sources) : Rescan(s) \/ \E readable \in BOOLEAN : Rebind(s, readable)
    \/ \E n \in Notes : \E of \in 1 .. Revision(<<"record", SourceOf[n]>>) : Write(n, of)
    \/ \E l \in LinkIds : \E of \in 1 .. Revision(<<"record", Links[l].from>>) : Relate(l, of)
    \/ \E key \in {k \in DOMAIN store : k[1] # "binding"} : Archive(key)
    \/ \E ask \in Questions : Ask(ask)
    \/ ReadNext \/ FindExact \/ BeginWalk \/ Walk \/ EndWalk \/ BuildContext

RetrievalSpec == RetrievalInit /\ [][RetrievalNext]_retrievalVars

-----------------------------------------------------------------------------
(* What the answer presents as current, had not moved on when the question *)
(* began: its evidence is not of an older revision than was there then.    *)
NotOutdated(q, r) ==
    LET s == IF r \in Notes THEN SourceOf[r] ELSE r
        before == q.began[<<"record", s>>]
        revision == IF r \in Notes THEN q.seen[<<"record", r>>].of
                    ELSE q.seen[<<"record", r>>].revision
    IN  /\ revision >= before.revision
        /\ q.seen[<<"record", s>>].binding >= q.began[<<"binding", s>>].revision
        /\ q.began[<<"record", r>>].lifecycle = "archived" =>
             q.seen[<<"record", r>>].revision > q.began[<<"record", r>>].revision

LinkNotOutdated(q, l) ==
    /\ q.seen[<<"link", l>>].of >= q.began[<<"record", Links[l].from>>].revision
    /\ NotOutdated(q, Links[l].from) /\ NotOutdated(q, Links[l].to)

(* The records within n usable relations of the seeds                      *)
Neighbors(q, S) ==
    {OtherEnd(l, r) : <<l, r>> \in {p \in LinkIds \X S : p[1] \in Range(Eligible(q.ask, p[2]))
                                                           /\ Usable(q, p[2], p[1])}}

Within(q) ==
    LET W[n \in 0 .. q.ask.depth] ==
          IF n = 0 THEN Range(q.ask.seeds) ELSE W[n - 1] \cup Neighbors(q, W[n - 1])
    IN  W

(* What a walk found is at its true distance; a walk that was not          *)
(* truncated found all there is within the depth, one that was not limited *)
(* either all there is; a truncated one used up a budget; and the cycles   *)
(* are those of the relations found.                                       *)
WalkIsExact(q) ==
    LET W == Within(q)
        found == DOMAIN q.found.depth
    IN  /\ Cardinality(found) <= q.ask.nodes /\ Cardinality(q.found.edges) <= q.ask.edges
        /\ \A r \in found : /\ r \in W[q.found.depth[r]]
                            /\ \A n \in 0 .. q.found.depth[r] - 1 : r \notin W[n]
        /\ ~q.found.truncated =>
             /\ found = W[q.ask.depth]
             /\ \A r \in W[q.ask.depth - 1] : \A l \in Range(Eligible(q.ask, r)) :
                  Usable(q, r, l) => l \in q.found.edges
        /\ ~q.found.truncated /\ ~q.found.limited => Neighbors(q, found) \subseteq found
        /\ q.found.truncated => \/ Cardinality(found) = q.ask.nodes
                                \/ Cardinality(q.found.edges) = q.ask.edges
        /\ \A l \in q.found.edges :
             l \in q.found.cycles <=>
               \A D \in SUBSET found :
                 /\ Links[l].to \in D
                 /\ \A e \in q.found.edges : Links[e].from \in D => Links[e].to \in D
                 => Links[l].from \in D

(* A context has every required record whole and keeps its limits, says of *)
(* every candidate what became of it, and leaves out for its size only     *)
(* what did not fit behind those that come first.                          *)
ContextIsWhole(q) ==
    LET candidates == Merged(q.ask)
        items == q.found.items
        Earlier(c) == {d \in candidates : Before(q, d, c) /\ d.record \in DOMAIN items}
        Sum(S) == MapThenSumSet(LAMBDA d : items[d.record], S)
        Exceeds(c) == Sum(Earlier(c)) + Units[c.record] > q.ask.units
        TooLarge == {c \in candidates : /\ c.record \in DOMAIN q.found.excluded
                                        /\ q.found.excluded[c.record] = "content-budget"}
    IN  /\ q.found.used <= q.ask.units /\ Cardinality(DOMAIN items) <= q.ask.items
        /\ q.found.used = Sum({c \in candidates : c.record \in DOMAIN items})
        /\ DOMAIN items \cap DOMAIN q.found.excluded = {}
        /\ DOMAIN items \cup DOMAIN q.found.excluded = {c.record : c \in candidates}
        /\ \A c \in candidates :
             /\ c.required => c.record \in DOMAIN items /\ items[c.record] = Units[c.record]
             /\ c.record \in DOMAIN items =>
                  /\ Availability(q.seen, c.record) = "current"
                  /\ NotOutdated(q, c.record)
                  /\ items[c.record] # Units[c.record] =>
                       c.cut /\ Exceeds(c)
             /\ c \in TooLarge => Exceeds(c)

(* Only matches are found, each once; a search that was not truncated      *)
(* found all of them, a truncated one the best.                            *)
SearchIsExact(q) ==
    LET hits == Range(q.found.hits)
    IN  /\ hits \subseteq Hits(q) /\ IsInjective(q.found.hits)
        /\ IF q.found.truncated THEN Len(q.found.hits) = q.ask.limit ELSE hits = Hits(q)
        /\ \A r \in hits : \A t \in Hits(q) \ hits : Better(q, r, t)
        /\ \A r \in hits : Availability(q.seen, r) = "current" => NotOutdated(q, r)

(* Answers are true of one moment or later, whatever is put while they are *)
(* being read, and complete as far as they say.                            *)
AnswersAreTrue ==
    /\ question.phase = "done" /\ question.ask.kind = "dependencies" =>
         /\ WalkIsExact(question)
         /\ \A r \in DOMAIN question.found.depth :
              Availability(question.seen, r) = "current" => NotOutdated(question, r)
         /\ \A l \in question.found.edges :
              LinkAvailability(question.seen, l) = "current" => LinkNotOutdated(question, l)
    /\ question.phase = "done" /\ question.ask.kind = "exact" => SearchIsExact(question)
    /\ question.phase = "done" /\ question.ask.kind = "context" => ContextIsWhole(question)
    /\ question.phase = "refused" => question.found # "cannot be cut"
=============================================================================
