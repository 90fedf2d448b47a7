---------------------------- MODULE RuntimeQueue ----------------------------
(***************************************************************************)
(* The project-scoped agent runtime queue (class AgentRuntimeQueue).       *)
(*                                                                         *)
(* One action per _apply_* method.  Each method runs inside one BEGIN      *)
(* IMMEDIATE transaction that commits or rolls back as a whole, so an      *)
(* action is atomic; a method that raises changes nothing and is no step.  *)
(* The methods get their arguments from any client, so the evidence of     *)
(* ownership a call presents is arbitrary: a crashed, stalled or           *)
(* superseded worker is a caller whose evidence no longer matches.         *)
(*                                                                         *)
(* Abstractions.  Queue ids are numbers, in the order the claim query      *)
(* reads them.  A lease row keeps the time it has left instead of two      *)
(* clock readings: the code only ever compares expires_at with now.        *)
(* lease_id is a digest of item, owner and fence, so it is that triple.    *)
(* Evidence digests, step and plan ids and the event log are left out:     *)
(* each event only makes the state digest new, which RuntimeQueuePlans     *)
(* models as the freshness of a plan.                                      *)
(***************************************************************************)
EXTENDS Integers, FiniteSets

CONSTANTS
    Items,            \* queue ids, one for each idempotency key
    Workers,          \* owner tokens
    CanRun,           \* pairs <<w, i>>: role and capabilities of w suffice for i
    Resources,        \* canonical resource references
    Conflict,         \* pairs of references that overlap
    Uses,             \* resource_refs of each item
    ReadOnly,         \* items whose side effects are within {read}
    MaxAttempts,      \* max_attempts of each item
    MaximumAttempts,  \* scheduler policy: the bound on max_attempts
    LeaseSeconds,     \* scheduler policy: the lease durations a client may ask for
    Claims,           \* ids of effect claims
    Receipts,         \* ids of effect receipts
    GateFits,         \* pairs <<i, c>>: claim c names the validation gate of item i
    None              \* SQL NULL

ASSUME ItemsAssumption == Items \subseteq Nat

ASSUME ConflictAssumption ==
    /\ Conflict \subseteq Resources \X Resources
    /\ \A r \in Resources : <<r, r>> \in Conflict
    /\ \A r, s \in Resources : <<r, s>> \in Conflict => <<s, r>> \in Conflict

ASSUME ItemAssumption ==
    /\ Uses \in [Items -> SUBSET Resources]
    /\ CanRun \subseteq Workers \X Items
    /\ ReadOnly \subseteq Items
    /\ GateFits \subseteq Items \X Claims

ASSUME PolicyAssumption ==
    /\ MaximumAttempts \in Nat \ {0}
    /\ MaxAttempts \in [Items -> 1 .. MaximumAttempts]
    /\ LeaseSeconds \subseteq Nat \ {0}

ASSUME NoneAssumption == None \notin Claims \cup Receipts

VARIABLES
    schema,    \* metadata.schema_version
    item,      \* table queue_items
    leases,    \* table leases
    locks,     \* table resource_locks
    attempt,   \* table attempts: rows
    job        \* table projection_jobs: status of each item's job

vars == <<schema, item, leases, locks, attempt, job>>

-----------------------------------------------------------------------------
(* The tables.                                                             *)

ItemStatus == {"absent", "queued", "leased", "completed", "blocked", "recovery-required"}

Terminal == {"completed", "blocked", "recovery-required"}

Item == [status:   ItemStatus,
         attempts: Nat,
         fence:    Nat,               \* current_fence
         result:   Nat,               \* fence whose evidence is result_digest; 0 is NULL
         ledgered: BOOLEAN,           \* ledger_required
         claim:    Claims \cup {None},
         receipt:  Receipts \cup {None}]

Evidence == [item: Items, owner: Workers, fence: Nat]      \* what a caller presents

Lease == [item: Items, owner: Workers, fence: Nat, left: Nat]

Lock == [resource: Resources, item: Items, owner: Workers, fence: Nat]

Attempt == [item: Items, number: Nat, fence: Nat,
            status: {"executing", "completed", "failed", "expired"}]

OpenJob == {"pending", "blocked-awaiting-work-graph-update"}

JobStatus == OpenJob \cup {"none", "completed"}

Row(status, ledgered) ==
    [status |-> status, attempts |-> 0, fence |-> 0, result |-> 0,
     ledgered |-> ledgered, claim |-> None, receipt |-> None]

(* A fresh database has schema 2 and no rows.  A version 1 database may    *)
(* hold work that waits, all of it without a ledger; what it leased or     *)
(* settled is left out.                                                    *)
Init ==
    /\ \/ schema = 2 /\ item = [i \in Items |-> Row("absent", FALSE)]
       \/ schema = 1 /\ item \in [Items -> {Row("absent", FALSE), Row("queued", FALSE)}]
    /\ leases = {}
    /\ locks = {}
    /\ attempt = {}
    /\ job = [i \in Items |-> "none"]

-----------------------------------------------------------------------------
(* Helpers shared by the methods.                                          *)

IdOf(row) == [item |-> row.item, owner |-> row.owner, fence |-> row.fence]

(* _lease: the live lease the evidence names; the empty set is an error.   *)
Held(e) == {l \in leases : IdOf(l) = e /\ l.left > 0}

\* Only an identical reference is seen as a conflict.
NoIdenticalLock(i) == \A r \in Uses[i] : \A k \in locks : k.resource # r

(* No resource the item wants overlaps one that is locked.                 *)
NoConflictingLock(i) ==
    \A r \in Uses[i] : \A k \in locks : <<r, k.resource>> \notin Conflict

Claimable(w, i) ==
    /\ item[i].status = "queued"
    /\ <<w, i>> \in CanRun
    /\ NoConflictingLock(i)

\* Every failed attempt goes back to the queue while attempts remain.
RetryAnything(i, replaySafe) ==
    IF item[i].attempts < MaxAttempts[i] THEN "queued" ELSE "blocked"

(* Where an item goes when its attempt failed or its lease expired.        *)
AfterLoss(i, replaySafe) ==
    IF replaySafe /\ i \in ReadOnly /\ item[i].attempts < MaxAttempts[i] THEN "queued"
    ELSE IF item[i].attempts >= MaxAttempts[i] THEN "blocked"
    ELSE "recovery-required"

\* The leases go, their locks stay behind.
DropLeasesOnly(gone) ==
    /\ leases' = leases \ gone
    /\ UNCHANGED locks

(* DELETE FROM resource_locks / leases WHERE lease_id = ...                *)
Drop(gone) ==
    /\ leases' = leases \ gone
    /\ locks' = {k \in locks : IdOf(k) \notin {IdOf(l) : l \in gone}}

(* UPDATE attempts SET status = ... WHERE queue_id = ... AND fencing_token = ... *)
CloseAttempts(gone, status) ==
    attempt' = {IF \E l \in gone : l.item = a.item /\ l.fence = a.fence
                THEN [a EXCEPT !.status = status] ELSE a : a \in attempt}

-----------------------------------------------------------------------------
(* The methods.                                                            *)

(* _apply_enqueue.  A known idempotency key returns the existing row       *)
(* unchanged.  A validation gate makes the item ledger-required; planning  *)
(* refuses one for a read-only step.                                       *)
Enqueue(i, gated) ==
    /\ schema = 2
    /\ item[i].status = "absent"
    /\ gated => i \notin ReadOnly
    /\ item' = [item EXCEPT ![i] = Row("queued", gated)]
    /\ UNCHANGED <<schema, leases, locks, attempt, job>>

(* _apply_migrate_v2: additive; existing rows require no ledger.           *)
MigrateV2 ==
    /\ schema = 1
    /\ schema' = 2
    /\ UNCHANGED <<item, leases, locks, attempt, job>>

(* _apply_claim: the first claimable item in queue_id order.               *)
Claim(w, i, seconds) ==
    /\ schema = 2
    /\ Claimable(w, i)
    /\ \A j \in Items : j < i => ~Claimable(w, j)
    /\ LET fence == item[i].fence + 1
           number == item[i].attempts + 1
       IN /\ item' = [item EXCEPT ![i].status = "leased",
                                  ![i].attempts = number,
                                  ![i].fence = fence]
          /\ leases' = leases \cup
                {[item |-> i, owner |-> w, fence |-> fence, left |-> seconds]}
          /\ attempt' = attempt \cup
                {[item |-> i, number |-> number, fence |-> fence, status |-> "executing"]}
          /\ locks' = locks \cup
                {[resource |-> r, item |-> i, owner |-> w, fence |-> fence] : r \in Uses[i]}
    /\ UNCHANGED <<schema, job>>

(* _apply_heartbeat                                                        *)
Heartbeat(e, seconds) ==
    \E l \in Held(e) :
        /\ schema = 2
        /\ leases' = (leases \ {l}) \cup {[l EXCEPT !.left = seconds]}
        /\ UNCHANGED <<schema, item, locks, attempt, job>>

(* _apply_bind_effect_claim                                                *)
BindEffectClaim(e, c) ==
    /\ schema = 2
    /\ Held(e) # {}
    /\ item[e.item].status = "leased"
    /\ item[e.item].ledgered
    /\ <<e.item, c>> \in GateFits
    /\ item[e.item].claim \in {None, c}
    /\ item' = [item EXCEPT ![e.item].claim = c]
    /\ UNCHANGED <<schema, leases, locks, attempt, job>>

(* _apply_bind_effect_receipt                                              *)
BindEffectReceipt(e, c, r) ==
    /\ schema = 2
    /\ Held(e) # {}
    /\ item[e.item].status = "leased"
    /\ item[e.item].claim = c
    /\ item[e.item].receipt \in {None, r}
    /\ item' = [item EXCEPT ![e.item].receipt = r]
    /\ UNCHANGED <<schema, leases, locks, attempt, job>>

(* A ledger-required item needs its claim and receipt before completion.   *)
LedgerSettled(i) ==
    item[i].ledgered => item[i].claim # None /\ item[i].receipt # None

(* _apply_complete, through _finish                                        *)
Complete(e) ==
    /\ schema = 2
    /\ Held(e) # {}
    /\ item[e.item].status = "leased"
    /\ LedgerSettled(e.item)
    /\ item' = [item EXCEPT ![e.item].status = "completed", ![e.item].result = e.fence]
    /\ CloseAttempts(Held(e), "completed")
    /\ Drop(Held(e))
    /\ job' = [job EXCEPT ![e.item] = IF @ = "none" THEN "pending" ELSE @]
    /\ UNCHANGED schema

(* _apply_fail, through _finish                                            *)
Fail(e, replaySafe) ==
    /\ schema = 2
    /\ Held(e) # {}
    /\ item[e.item].status = "leased"
    /\ item' = [item EXCEPT ![e.item].status = AfterLoss(e.item, replaySafe),
                            ![e.item].result = e.fence]
    /\ CloseAttempts(Held(e), "failed")
    /\ Drop(Held(e))
    /\ UNCHANGED <<schema, job>>

Expired == {l \in leases : l.left = 0}

(* _apply_recover: every expired lease in one transaction.                 *)
Recover ==
    /\ schema = 2
    /\ Expired # {}
    /\ item' = [i \in Items |->
                  IF \E l \in Expired : l.item = i
                  THEN [item[i] EXCEPT !.status = AfterLoss(i, TRUE)] ELSE item[i]]
    /\ CloseAttempts(Expired, "expired")
    /\ Drop(Expired)
    /\ UNCHANGED <<schema, job>>

OpenJobs == {i \in Items : job[i] \in OpenJob}

(* _apply_reconcile with the updates planned for the open jobs: those in   *)
(* done close, the others wait for the Work Graph.                         *)
Reconcile(done) ==
    /\ schema = 2
    /\ OpenJobs # {}
    /\ done \subseteq OpenJobs
    /\ job' = [i \in Items |->
                 IF i \in done THEN "completed"
                 ELSE IF i \in OpenJobs THEN "blocked-awaiting-work-graph-update"
                 ELSE job[i]]
    /\ UNCHANGED <<schema, item, leases, locks, attempt>>

Aged(l) == [l EXCEPT !.left = IF @ > 0 THEN @ - 1 ELSE 0]

(* Time passes: every lease that has time left has less of it.             *)
Tick ==
    /\ \E l \in leases : l.left > 0
    /\ leases' = {Aged(l) : l \in leases}
    /\ UNCHANGED <<schema, item, locks, attempt, job>>

(* The evidence a caller can present: item, owner and any fence there is.  *)
Presented == [item: Items, owner: Workers, fence: 1 .. MaximumAttempts]

Next ==
    \/ \E i \in Items, gated \in BOOLEAN : Enqueue(i, gated)
    \/ MigrateV2
    \/ \E w \in Workers, i \in Items, s \in LeaseSeconds : Claim(w, i, s)
    \/ \E e \in Presented, s \in LeaseSeconds : Heartbeat(e, s)
    \/ \E e \in Presented, c \in Claims : BindEffectClaim(e, c)
    \/ \E e \in Presented, c \in Claims, r \in Receipts : BindEffectReceipt(e, c, r)
    \/ \E e \in Presented : Complete(e)
    \/ \E e \in Presented, safe \in BOOLEAN : Fail(e, safe)
    \/ Recover
    \/ \E done \in SUBSET Items : Reconcile(done)
    \/ Tick

Spec == Init /\ [][Next]_vars

-----------------------------------------------------------------------------
(* Properties.                                                             *)

(* The type invariant.                                                     *)
TypeOK ==
    /\ schema \in {1, 2}
    /\ item \in [Items -> Item]
    /\ leases \subseteq Lease
    /\ locks \subseteq Lock
    /\ attempt \subseteq Attempt
    /\ job \in [Items -> JobStatus]

LeaseMatchesItem ==
    /\ \A i \in Items : item[i].status = "leased" <=> \E l \in leases : l.item = i
    /\ \A l \in leases : l.fence = item[l.item].fence
    /\ \A l, m \in leases : l.item = m.item => l = m

LocksOf(l) ==
    {[resource |-> r, item |-> l.item, owner |-> l.owner, fence |-> l.fence] :
        r \in Uses[l.item]}

(* The three tables that say who owns what agree: an item is leased        *)
(* exactly when one lease row names it, that row carries the item's newest *)
(* fence, and the locked resources are those of the leased items, held     *)
(* under the same lease.  Claim, _finish and recover maintain this         *)
(* together; a lock left behind would block its resource for ever.         *)
TablesAgree ==
    /\ LeaseMatchesItem
    /\ locks = UNION {LocksOf(l) : l \in leases}

Clashes == {p \in Items \X Items :
              \E r \in Uses[p[1]], s \in Uses[p[2]] : <<r, s>> \in Conflict}

(* Two items that are leased at the same time use no overlapping           *)
(* resources, whatever was recovered or retried in between ("A project     *)
(* lock conflicts with every task and path lock in that project.  Parent   *)
(* and child path locks conflict.").                                       *)
NoConflictingExecution ==
    \A i, j \in Items :
        /\ i # j
        /\ item[i].status = "leased"
        /\ item[j].status = "leased"
        => <<i, j>> \notin Clashes

(* A write, execute or network step is handed to a worker at most once: no *)
(* failure, expiry, recovery or repeated enqueue gives it a second attempt.*)
EffectNeverReplayed ==
    \A i \in Items \ ReadOnly :
        \A a, b \in attempt : a.item = i /\ b.item = i => a = b

(* Attempts never exceed the item's limit, although claim itself does not  *)
(* look at it: an item that waits always has an attempt left.              *)
AttemptsBounded ==
    \A i \in Items :
        /\ item[i].attempts <= MaxAttempts[i]
        /\ item[i].status = "queued" => item[i].attempts < MaxAttempts[i]

(* The attempts table is a history without gaps: one row per fence, the    *)
(* newest row is open exactly while the item is leased, a completed row    *)
(* exists exactly when the item is completed, and then it is the newest    *)
(* and the one whose evidence is the item's result.                        *)
AttemptHistory ==
    \A i \in Items :
        LET rows == {a \in attempt : a.item = i} IN
        /\ {a.fence : a \in rows} = 1 .. item[i].fence
        /\ \A a, b \in rows : a.fence = b.fence => a = b
        /\ \A a \in rows :
             /\ a.number = a.fence
             /\ a.status = "executing" <=>
                  (a.fence = item[i].fence /\ item[i].status = "leased")
             /\ a.status = "completed" =>
                  /\ a.fence = item[i].fence
                  /\ item[i].status = "completed"
                  /\ item[i].result = a.fence
        /\ item[i].status = "completed" => \E a \in rows : a.status = "completed"

(* A ledger-required item completes only with a durable claim and receipt, *)
(* and an item has a projection job exactly when it is completed.          *)
CompletionIsAccounted ==
    \A i \in Items :
        /\ item[i].status = "completed" /\ item[i].ledgered =>
             item[i].claim # None /\ item[i].receipt # None
        /\ item[i].receipt # None => item[i].claim # None
        /\ item[i].status = "completed" <=> job[i] # "none"

(* "Completed checkpoints are represented by terminal queue state and are  *)
(* not executed again under the same idempotency key": nothing about a     *)
(* settled item changes, whatever is claimed, recovered or enqueued later. *)
SettledStaysSettled ==
    [][\A i \in Items : item[i].status \in Terminal => item'[i] = item[i]]_vars

(* "An expired or superseded worker cannot publish a result": a result is  *)
(* stored only while the lease it comes from is live and the newest.       *)
OnlyLiveLeasePublishes ==
    [][\A i \in Items : item'[i].result # item[i].result =>
          \E l \in leases : /\ l.item = i
                            /\ l.left > 0
                            /\ l.fence = item[i].fence
                            /\ l.fence = item'[i].result]_vars

(* An effect claim and an effect receipt, once bound to an item, stay the  *)
(* ones that are bound.                                                    *)
BindingIsFinal ==
    [][\A i \in Items :
          /\ item[i].claim # None => item'[i].claim = item[i].claim
          /\ item[i].receipt # None => item'[i].receipt = item[i].receipt]_vars

(* The abstract promise this module implements.                            *)
PhaseOf(status) ==
    CASE status = "absent"    -> "unknown"
      [] status = "queued"    -> "waiting"
      [] status = "leased"    -> "running"
      [] status = "completed" -> "done"
      [] OTHER                -> "stopped"

Promise == INSTANCE LeasedWork WITH
    Repeatable <- ReadOnly,
    Limit      <- MaxAttempts,
    phase      <- [i \in Items |-> PhaseOf(item[i].status)],
    runs       <- [i \in Items |-> item[i].fence]

(* The queue implements LeasedWork: leases, locks and fences together act  *)
(* as one mutual exclusion with bounded, harmless repetition.              *)
ImplementsLeasedWork == Promise!Spec

-----------------------------------------------------------------------------
(* Liveness.  The clock runs, some client recovers expired leases, some     *)
(* worker claims what it can run, and no worker renews a lease for ever    *)
(* without reporting.  A worker need not report at all: its process may be *)
(* gone, and then its lease expires and there is nothing left to report.   *)
ClaimBySome(i) == \E w \in Workers, s \in LeaseSeconds : Claim(w, i, s)

ReportOn(i) == \E e \in Presented : e.item = i /\ (Complete(e) \/ \E safe \in BOOLEAN : Fail(e, safe))

Fairness ==
    /\ WF_vars(Tick)
    /\ WF_vars(Recover)
    /\ \A i \in Items : WF_vars(ClaimBySome(i)) /\ WF_vars(ReportOn(i))

FairSpec == Init /\ [][Next]_vars /\ Fairness

(* Every queued item that some worker can run settles: no lock stays       *)
(* behind, no retry loop is endless, no item starves another one.          *)
QueueDrains ==
    \A i \in Items : (item[i].status = "queued" /\ schema = 2) ~> (item[i].status \in Terminal)
=============================================================================
