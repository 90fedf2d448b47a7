------------------------- MODULE RuntimeQueueProofs -------------------------
(***************************************************************************)
(* Proofs about RuntimeQueue, for any number of items and workers, any     *)
(* conflict relation, lease durations and attempt limits.                  *)
(***************************************************************************)
EXTENDS RuntimeQueue, TLAPS

USE ItemsAssumption

(* Where a lost attempt leaves its item.                                   *)
LEMMA AfterLossIs ==
    ASSUME NEW i \in Items, NEW safe \in BOOLEAN
    PROVE  /\ AfterLoss(i, safe) \in {"queued", "blocked", "recovery-required"}
           /\ AfterLoss(i, safe) = "queued" => i \in ReadOnly /\ item[i].attempts < MaxAttempts[i]
  BY DEF AfterLoss

(* The rows a presented piece of evidence selects are rows of leases.      *)
LEMMA HeldIs ==
    ASSUME TypeOK, NEW e, NEW l \in Held(e)
    PROVE  /\ l \in leases
           /\ l \in Lease
           /\ l.item = e.item
           /\ l.owner = e.owner
           /\ l.fence = e.fence
           /\ l.left > 0
  BY DEF TypeOK, Held, IdOf

(* A second that passes changes nothing of a lease but the time it has.    *)
LEMMA AgedIs ==
    ASSUME NEW l \in Lease
    PROVE  /\ Aged(l) \in Lease
           /\ IdOf(Aged(l)) = IdOf(l)
           /\ Aged(l).item = l.item
           /\ Aged(l).owner = l.owner
           /\ Aged(l).fence = l.fence
  BY DEF Aged, Lease, IdOf

(* Changing the status of a row makes a row.                               *)
LEMMA StatusChange ==
    ASSUME NEW row \in Item, NEW status \in ItemStatus
    PROVE  [row EXCEPT !.status = status] \in Item
  BY DEF Item

LEMMA TypeCorrectInit == Init => TypeOK
  <1> SUFFICES ASSUME Init
               PROVE  TypeOK
    OBVIOUS
  <1>1. Row("absent", FALSE) \in Item /\ Row("queued", FALSE) \in Item
    BY DEF Row, Item, ItemStatus
  <1>2. item \in [Items -> Item]
    BY <1>1 DEF Init
  <1>3. job \in [Items -> JobStatus]
    BY DEF Init, JobStatus
  <1>4. QED
    BY <1>2, <1>3 DEF Init, TypeOK

LEMMA TypeCorrectNext == TypeOK /\ [Next]_vars => TypeOK'
  <1> SUFFICES ASSUME TypeOK, [Next]_vars
               PROVE  TypeOK'
    OBVIOUS
  <1> USE DEF TypeOK, Item, ItemStatus, JobStatus, OpenJob
  <1>1. ASSUME NEW i \in Items, NEW gated \in BOOLEAN, Enqueue(i, gated)
        PROVE  TypeOK'
    BY <1>1 DEF Enqueue, Row
  <1>2. CASE MigrateV2
    BY <1>2 DEF MigrateV2
  <1>3. ASSUME NEW w \in Workers, NEW i \in Items, NEW s \in LeaseSeconds, Claim(w, i, s)
        PROVE  TypeOK'
    <2>1. item' \in [Items -> Item]
      BY <1>3 DEF Claim
    <2>2. leases' \subseteq Lease
      BY <1>3, PolicyAssumption DEF Claim, Lease
    <2>3. locks' \subseteq Lock
      BY <1>3, ItemAssumption DEF Claim, Lock
    <2>4. attempt' \subseteq Attempt
      BY <1>3 DEF Claim, Attempt
    <2>5. QED
      BY <1>3, <2>1, <2>2, <2>3, <2>4 DEF Claim
  <1>4. ASSUME NEW e \in Presented, NEW s \in LeaseSeconds, Heartbeat(e, s)
        PROVE  TypeOK'
    BY <1>4, HeldIs, PolicyAssumption DEF Heartbeat, Lease
  <1>5. ASSUME NEW e \in Presented, NEW c \in Claims, BindEffectClaim(e, c)
        PROVE  TypeOK'
    BY <1>5 DEF BindEffectClaim, Presented
  <1>6. ASSUME NEW e \in Presented, NEW c \in Claims, NEW r \in Receipts,
               BindEffectReceipt(e, c, r)
        PROVE  TypeOK'
    BY <1>6 DEF BindEffectReceipt, Presented
  <1>7. ASSUME NEW gone, NEW status \in {"completed", "failed", "expired"},
               CloseAttempts(gone, status)
        PROVE  attempt' \subseteq Attempt
    BY <1>7 DEF CloseAttempts, Attempt
  <1>8. ASSUME NEW gone, Drop(gone)
        PROVE  leases' \subseteq Lease /\ locks' \subseteq Lock
    BY <1>8 DEF Drop
  <1>9. ASSUME NEW e \in Presented, Complete(e)
        PROVE  TypeOK'
    <2>1. e.item \in Items /\ e.fence \in Nat
      BY DEF Presented
    <2>2. item' \in [Items -> Item] /\ job' \in [Items -> JobStatus]
      BY <1>9, <2>1 DEF Complete
    <2>3. QED
      BY <1>9, <2>2, <1>7, <1>8 DEF Complete
  <1>10. ASSUME NEW e \in Presented, NEW safe \in BOOLEAN, Fail(e, safe)
         PROVE  TypeOK'
    <2>1. e.item \in Items /\ e.fence \in Nat
      BY DEF Presented
    <2>2. AfterLoss(e.item, safe) \in ItemStatus
      BY <2>1, AfterLossIs
    <2>3. item' \in [Items -> Item]
      BY <1>10, <2>1, <2>2 DEF Fail
    <2>4. QED
      BY <1>10, <2>3, <1>7, <1>8 DEF Fail
  <1>11. CASE Recover
    <2>1. \A i \in Items : AfterLoss(i, TRUE) \in ItemStatus
      BY AfterLossIs
    <2>2. \A i \in Items : item[i] \in Item
      OBVIOUS
    <2>3. \A i \in Items : [item[i] EXCEPT !.status = AfterLoss(i, TRUE)] \in Item
      <3> SUFFICES ASSUME NEW i \in Items
                   PROVE  [item[i] EXCEPT !.status = AfterLoss(i, TRUE)] \in Item
        OBVIOUS
      <3> HIDE DEF Item, ItemStatus
      <3>1. QED
        BY <2>1, <2>2, StatusChange
    <2>4. item' \in [Items -> Item]
      BY <1>11, <2>2, <2>3 DEF Recover
    <2>5. QED
      BY <1>11, <2>4, <1>7, <1>8 DEF Recover
  <1>12. ASSUME NEW done \in SUBSET Items, Reconcile(done)
         PROVE  TypeOK'
    BY <1>12 DEF Reconcile
  <1>13. CASE Tick
    <2>1. \A l \in leases : Aged(l) \in Lease
      BY AgedIs
    <2>2. leases' \subseteq Lease
      BY <1>13, <2>1 DEF Tick
    <2>3. QED
      BY <1>13, <2>2 DEF Tick
  <1>14. CASE UNCHANGED vars
    BY <1>14 DEF vars
  <1>15. QED
    BY <1>1, <1>2, <1>3, <1>4, <1>5, <1>6, <1>9, <1>10, <1>11, <1>12, <1>13, <1>14 DEF Next

(* The type of the tables is an invariant of the queue.                    *)
THEOREM TypeCorrect == Spec => []TypeOK
  BY TypeCorrectInit, TypeCorrectNext, PTL DEF Spec

-----------------------------------------------------------------------------
(* The inductive invariant.  TablesAgree ties every lock to a lease, and   *)
(* NoConflictingExecution is kept by claim only because of it: claim looks *)
(* at the locks, not at the items.  AttemptsBounded needs the fence to be  *)
(* the attempt number, and a row that is still absent to be blank.         *)

FenceCountsAttempts ==
    \A i \in Items : item[i].fence = item[i].attempts

AbsentIsBlank ==
    \A i \in Items : item[i].status = "absent" => item[i] = Row("absent", FALSE)

IInv ==
    /\ TypeOK
    /\ TablesAgree
    /\ NoConflictingExecution
    /\ AttemptsBounded
    /\ FenceCountsAttempts
    /\ AbsentIsBlank

(***************************************************************************)
(* What complete, fail and recover have in common: the leases in gone are  *)
(* dropped with their locks, their items leave "leased" and nothing else   *)
(* about ownership changes.                                                *)
(***************************************************************************)
Releases(gone) ==
    /\ gone \subseteq leases
    /\ Drop(gone)
    /\ \A i \in Items :
         IF \E l \in gone : l.item = i
         THEN /\ item'[i].status \in Terminal \cup {"queued"}
              /\ item'[i].status = "queued" =>
                   i \in ReadOnly /\ item[i].attempts < MaxAttempts[i]
              /\ item'[i].fence = item[i].fence
              /\ item'[i].attempts = item[i].attempts
         ELSE item'[i] = item[i]

(* What heartbeat and the clock have in common: the leases keep who holds  *)
(* what, only the time they have left changes.                             *)
Renews ==
    /\ item' = item
    /\ locks' = locks
    /\ \A l \in leases' : \E m \in leases : IdOf(l) = IdOf(m)
    /\ \A m \in leases : \E l \in leases' : IdOf(l) = IdOf(m)
    /\ \A l, k \in leases' : l.item = k.item => l = k

(* Nothing about ownership changes except, perhaps, an effect binding.     *)
Untouched ==
    /\ leases' = leases
    /\ locks' = locks
    /\ \A i \in Items : /\ item'[i].status = item[i].status
                        /\ item'[i].fence = item[i].fence
                        /\ item'[i].attempts = item[i].attempts
                        /\ item[i].status = "absent" => item'[i] = item[i]

LEMMA CompleteReleases ==
    ASSUME IInv, NEW e \in Presented, Complete(e)
    PROVE  Releases(Held(e))
  <1>1. e.item \in Items
    BY DEF Presented
  <1>2. Held(e) \subseteq leases /\ \A l \in Held(e) : l.item = e.item
    BY HeldIs DEF IInv
  <1>3. Held(e) # {}
    BY DEF Complete
  <1>4. item \in [Items -> Item]
    BY DEF IInv, TypeOK
  <1>5. item' = [item EXCEPT ![e.item].status = "completed", ![e.item].result = e.fence]
    BY DEF Complete
  <1>6. /\ item'[e.item].status = "completed"
        /\ item'[e.item].fence = item[e.item].fence
        /\ item'[e.item].attempts = item[e.item].attempts
    BY <1>1, <1>4, <1>5 DEF Item
  <1>7. \A i \in Items : i # e.item => item'[i] = item[i]
    BY <1>1, <1>4, <1>5
  <1>8. Drop(Held(e))
    BY DEF Complete
  <1>9. QED
    BY <1>1, <1>2, <1>3, <1>6, <1>7, <1>8 DEF Releases, Terminal

LEMMA FailReleases ==
    ASSUME IInv, NEW e \in Presented, NEW safe \in BOOLEAN, Fail(e, safe)
    PROVE  Releases(Held(e))
  <1>1. e.item \in Items
    BY DEF Presented
  <1>2. Held(e) \subseteq leases /\ \A l \in Held(e) : l.item = e.item
    BY HeldIs DEF IInv
  <1>3. Held(e) # {}
    BY DEF Fail
  <1>4. item \in [Items -> Item]
    BY DEF IInv, TypeOK
  <1>5. item' = [item EXCEPT ![e.item].status = AfterLoss(e.item, safe), ![e.item].result = e.fence]
    BY DEF Fail
  <1>6. /\ item'[e.item].status = AfterLoss(e.item, safe)
        /\ item'[e.item].fence = item[e.item].fence
        /\ item'[e.item].attempts = item[e.item].attempts
    BY <1>1, <1>4, <1>5 DEF Item
  <1>7. \A i \in Items : i # e.item => item'[i] = item[i]
    BY <1>1, <1>4, <1>5
  <1>8. Drop(Held(e))
    BY DEF Fail
  <1>9. QED
    BY <1>1, <1>2, <1>3, <1>6, <1>7, <1>8, AfterLossIs DEF Releases, Terminal

LEMMA RecoverReleases ==
    ASSUME IInv, Recover
    PROVE  Releases(Expired)
  <1>1. item \in [Items -> Item]
    BY DEF IInv, TypeOK
  <1>2. ASSUME NEW i \in Items, \E l \in Expired : l.item = i
        PROVE  /\ item'[i].status = AfterLoss(i, TRUE)
               /\ item'[i].fence = item[i].fence
               /\ item'[i].attempts = item[i].attempts
    <2>1. item[i] \in Item
      BY <1>1
    <2>2. item'[i] = [item[i] EXCEPT !.status = AfterLoss(i, TRUE)]
      BY <1>2 DEF Recover
    <2>3. QED
      BY <2>1, <2>2 DEF Item
  <1>3. ASSUME NEW i \in Items, ~ \E l \in Expired : l.item = i
        PROVE  item'[i] = item[i]
    BY <1>3 DEF Recover
  <1>4. Expired \subseteq leases /\ Drop(Expired)
    BY DEF Recover, Expired
  <1>5. QED
    BY <1>2, <1>3, <1>4, AfterLossIs DEF Releases, Terminal

(* A lock is a lock of its lease.                                          *)
LEMMA LocksOfIs ==
    ASSUME NEW l, NEW k
    PROVE  k \in LocksOf(l) <=>
             \E r \in Uses[l.item] :
                k = [resource |-> r, item |-> l.item, owner |-> l.owner, fence |-> l.fence]
  BY DEF LocksOf

LEMMA LockKeepsId ==
    ASSUME NEW l, NEW k \in LocksOf(l)
    PROVE  IdOf(k) = IdOf(l)
  BY DEF LocksOf, IdOf

LEMMA SameIdSameLocks ==
    ASSUME NEW l, NEW m, IdOf(l) = IdOf(m)
    PROVE  /\ LocksOf(l) = LocksOf(m)
           /\ l.item = m.item
           /\ l.fence = m.fence
           /\ l.owner = m.owner
  <1>1. l.item = m.item /\ l.fence = m.fence /\ l.owner = m.owner
    BY DEF IdOf
  <1>2. QED
    BY <1>1 DEF LocksOf

LEMMA ReleasesKeepsTables ==
    ASSUME IInv, NEW gone, Releases(gone)
    PROVE  TablesAgree'
  <1> USE DEF IInv, TablesAgree, LeaseMatchesItem
  <1>1. leases' = leases \ gone /\ gone \subseteq leases
    BY DEF Releases, Drop
  <1>2. \A l \in leases : l.item \in Items
    BY DEF TypeOK, Lease
  <1>3. \A l \in leases \ gone : ~ \E m \in gone : m.item = l.item
    BY <1>1
  <1>4. \A l \in leases' : item'[l.item] = item[l.item]
    BY <1>1, <1>2, <1>3 DEF Releases
  <1>5. ASSUME NEW i \in Items
        PROVE  item'[i].status = "leased" <=> \E l \in leases' : l.item = i
    <2>1. CASE \E l \in gone : l.item = i
      <3>1. item'[i].status # "leased"
        BY <2>1 DEF Releases, Terminal
      <3>2. \A l \in leases' : l.item # i
        BY <1>1, <2>1
      <3>3. QED
        BY <3>1, <3>2
    <2>2. CASE ~ \E l \in gone : l.item = i
      <3>1. item'[i] = item[i]
        BY <2>2 DEF Releases
      <3>2. (\E l \in leases' : l.item = i) <=> \E l \in leases : l.item = i
        BY <1>1, <2>2
      <3>3. QED
        BY <3>1, <3>2
    <2>3. QED
      BY <2>1, <2>2
  <1>6. locks' = {k \in locks : IdOf(k) \notin {IdOf(l) : l \in gone}}
    BY DEF Releases, Drop
  <1>7. locks' = UNION {LocksOf(l) : l \in leases'}
    <2>1. ASSUME NEW l \in leases, NEW k \in LocksOf(l)
          PROVE  IdOf(k) \in {IdOf(m) : m \in gone} <=> l \in gone
      <3>1. IdOf(k) = IdOf(l)
        BY LockKeepsId
      <3>2. ASSUME NEW m \in gone, IdOf(l) = IdOf(m)
            PROVE  l = m
        BY <1>1, <3>2, SameIdSameLocks
      <3>3. QED
        BY <3>1, <3>2
    <2>2. QED
      BY <1>1, <1>6, <2>1
  <1>8. \A l \in leases' : l.fence = item'[l.item].fence
    BY <1>1, <1>4
  <1>9. \A l, m \in leases' : l.item = m.item => l = m
    BY <1>1
  <1>10. QED
    BY <1>5, <1>7, <1>8, <1>9 DEF LocksOf

LEMMA RenewsKeepsTables ==
    ASSUME IInv, Renews
    PROVE  TablesAgree'
  <1> USE DEF IInv, TablesAgree, LeaseMatchesItem
  <1>1. \A l \in leases' : \E m \in leases :
            l.item = m.item /\ l.fence = m.fence /\ LocksOf(l) = LocksOf(m)
    BY SameIdSameLocks DEF Renews
  <1>2. \A m \in leases : \E l \in leases' :
            l.item = m.item /\ l.fence = m.fence /\ LocksOf(l) = LocksOf(m)
    BY SameIdSameLocks DEF Renews
  <1>3. \A i \in Items : item'[i].status = "leased" <=> \E l \in leases' : l.item = i
    <2>1. \A i \in Items : (\E l \in leases' : l.item = i) <=> \E l \in leases : l.item = i
      BY ONLY <1>1, <1>2
    <2>2. \A i \in Items : item[i].status = "leased" <=> \E l \in leases : l.item = i
      OBVIOUS
    <2>3. item' = item
      BY DEF Renews
    <2>4. QED
      BY ONLY <2>1, <2>2, <2>3
  <1>4. \A l \in leases' : l.fence = item'[l.item].fence
    BY <1>1 DEF Renews
  <1>5. locks' = UNION {LocksOf(l) : l \in leases'}
    BY <1>1, <1>2 DEF Renews
  <1>6. QED
    BY <1>3, <1>4, <1>5 DEF Renews, LocksOf

LEMMA ClaimKeepsTables ==
    ASSUME IInv, NEW w \in Workers, NEW i \in Items, NEW s \in LeaseSeconds, Claim(w, i, s)
    PROVE  TablesAgree'
  <1> DEFINE mine == [item |-> i, owner |-> w, fence |-> item[i].fence + 1, left |-> s]
  <1> USE DEF IInv, TablesAgree, LeaseMatchesItem
  <1>1. leases' = leases \cup {mine}
    BY DEF Claim
  <1>2. locks' = locks \cup LocksOf(mine)
    BY DEF Claim, LocksOf
  <1>3. item[i].status = "queued" /\ \A l \in leases : l.item # i
    BY DEF Claim, Claimable
  <1>4. item \in [Items -> Item]
    BY DEF TypeOK
  <1>5. item'[i].status = "leased" /\ item'[i].fence = item[i].fence + 1
    BY <1>4 DEF Claim, Item
  <1>6. \A j \in Items : j # i => item'[j] = item[j]
    BY <1>4 DEF Claim
  <1>7. \A l \in leases : l.item \in Items
    BY DEF TypeOK, Lease
  <1> HIDE DEF mine
  <1>8. mine.item = i /\ mine.fence = item[i].fence + 1
    BY DEF mine
  <1>9. \A j \in Items : item'[j].status = "leased" <=> \E l \in leases' : l.item = j
    BY <1>1, <1>3, <1>5, <1>6, <1>8
  <1>10. \A l \in leases' : l.fence = item'[l.item].fence
    <2>1. \A l \in leases : l.fence = item[l.item].fence /\ item'[l.item] = item[l.item]
      BY <1>3, <1>6, <1>7
    <2>2. mine.fence = item'[mine.item].fence
      BY <1>5, <1>8
    <2>3. QED
      BY ONLY <1>1, <2>1, <2>2
  <1>11. \A l, m \in leases' : l.item = m.item => l = m
    BY <1>1, <1>3, <1>8
  <1>12. locks' = UNION {LocksOf(l) : l \in leases'}
    BY <1>1, <1>2
  <1>13. QED
    BY <1>9, <1>10, <1>11, <1>12 DEF LocksOf

(* The heart of the matter: because the locks are those of the leased      *)
(* items, an item whose resources overlap no lock clashes with no leased   *)
(* item.                                                                   *)
LEMMA ClaimClashesWithNothing ==
    ASSUME IInv, NEW w, NEW i \in Items, Claimable(w, i),
           NEW j \in Items, item[j].status = "leased"
    PROVE  <<i, j>> \notin Clashes /\ <<j, i>> \notin Clashes
  <1>1. PICK l \in leases : l.item = j
    BY DEF IInv, TablesAgree, LeaseMatchesItem
  <1>2. ASSUME NEW r \in Uses[i], NEW q \in Uses[j]
        PROVE  <<r, q>> \notin Conflict
    <2> DEFINE k == [resource |-> q, item |-> l.item, owner |-> l.owner, fence |-> l.fence]
    <2>1. k \in LocksOf(l)
      BY <1>1 DEF LocksOf
    <2>2. k \in locks
      BY <2>1 DEF IInv, TablesAgree
    <2>3. k.resource = q
      OBVIOUS
    <2>4. QED
      BY <2>2, <2>3 DEF Claimable, NoConflictingLock
  <1>3. \A r \in Uses[i], q \in Uses[j] : r \in Resources /\ q \in Resources
    BY ItemAssumption
  <1>4. \A r \in Uses[i], q \in Uses[j] : <<q, r>> \notin Conflict
    BY <1>2, <1>3, ConflictAssumption
  <1>5. QED
    BY <1>2, <1>4 DEF Clashes

-----------------------------------------------------------------------------
(* Every step is one of the kinds above, and each kind keeps the invariant.*)

LEMMA HeartbeatRenews ==
    ASSUME IInv, NEW e \in Presented, NEW s \in LeaseSeconds, Heartbeat(e, s)
    PROVE  Renews
  <1>1. PICK l \in Held(e) : leases' = (leases \ {l}) \cup {[l EXCEPT !.left = s]}
    BY DEF Heartbeat
  <1>2. l \in leases /\ l \in Lease
    BY HeldIs DEF IInv
  <1> DEFINE n == [l EXCEPT !.left = s]
  <1>3. IdOf(n) = IdOf(l) /\ n.item = l.item
    BY <1>2 DEF Lease, IdOf
  <1> HIDE DEF n
  <1>4. leases' = (leases \ {l}) \cup {n}
    BY <1>1 DEF n
  <1>5. \A x, y \in leases : x.item = y.item => x = y
    BY DEF IInv, TablesAgree, LeaseMatchesItem
  <1>6. \A x, y \in leases' : x.item = y.item => x = y
    BY <1>2, <1>3, <1>4, <1>5
  <1>7. \A x \in leases' : \E m \in leases : IdOf(x) = IdOf(m)
    BY <1>2, <1>3, <1>4
  <1>8. \A m \in leases : \E x \in leases' : IdOf(x) = IdOf(m)
    BY <1>2, <1>3, <1>4
  <1>9. QED
    BY <1>6, <1>7, <1>8 DEF Renews, Heartbeat

LEMMA TickRenews ==
    ASSUME IInv, Tick
    PROVE  Renews
  <1>1. \A l \in leases : IdOf(Aged(l)) = IdOf(l) /\ Aged(l).item = l.item
    BY AgedIs DEF IInv, TypeOK
  <1>2. leases' = {Aged(l) : l \in leases}
    BY DEF Tick
  <1>3. \A x, y \in leases : x.item = y.item => x = y
    BY DEF IInv, TablesAgree, LeaseMatchesItem
  <1>4. \A x, y \in leases' : x.item = y.item => x = y
    BY <1>1, <1>2, <1>3
  <1>5. \A x \in leases' : \E m \in leases : IdOf(x) = IdOf(m)
    BY <1>1, <1>2
  <1>6. \A m \in leases : \E x \in leases' : IdOf(x) = IdOf(m)
    BY <1>1, <1>2
  <1>7. QED
    BY <1>4, <1>5, <1>6 DEF Renews, Tick

LEMMA ReleasesKeepsInvariant ==
    ASSUME IInv, TypeOK', NEW gone, Releases(gone)
    PROVE  IInv'
  <1>1. TablesAgree'
    BY ReleasesKeepsTables
  <1>2. \A i \in Items : /\ item'[i].fence = item[i].fence
                         /\ item'[i].attempts = item[i].attempts
                         /\ item'[i].status = "leased" => item[i].status = "leased"
                         /\ item'[i].status = "absent" => item'[i] = item[i]
                         /\ item'[i].status = "queued" =>
                              \/ item[i].status = "queued"
                              \/ item[i].attempts < MaxAttempts[i]
    BY DEF Releases, Terminal
  <1>3. NoConflictingExecution'
    BY <1>2 DEF IInv, NoConflictingExecution, Clashes
  <1>4. AttemptsBounded'
    BY <1>2 DEF IInv, AttemptsBounded
  <1>5. FenceCountsAttempts'
    BY <1>2 DEF IInv, FenceCountsAttempts
  <1>6. AbsentIsBlank'
    BY <1>2 DEF IInv, AbsentIsBlank, Row
  <1>7. QED
    BY <1>1, <1>3, <1>4, <1>5, <1>6 DEF IInv

LEMMA RenewsKeepsInvariant ==
    ASSUME IInv, TypeOK', Renews
    PROVE  IInv'
  <1>1. TablesAgree'
    BY RenewsKeepsTables
  <1>2. item' = item
    BY DEF Renews
  <1>3. NoConflictingExecution' /\ AttemptsBounded' /\ FenceCountsAttempts' /\ AbsentIsBlank'
    BY <1>2 DEF IInv, NoConflictingExecution, Clashes, AttemptsBounded, FenceCountsAttempts,
                AbsentIsBlank, Row
  <1>4. QED
    BY <1>1, <1>3 DEF IInv

LEMMA UntouchedKeepsInvariant ==
    ASSUME IInv, TypeOK', Untouched
    PROVE  IInv'
  <1>1. \A i \in Items : /\ item'[i].status = item[i].status
                         /\ item'[i].fence = item[i].fence
                         /\ item'[i].attempts = item[i].attempts
                         /\ item[i].status = "absent" => item'[i] = item[i]
    BY DEF Untouched
  <1>2. LeaseMatchesItem'
    <2>1. \A l \in leases : l.item \in Items
      BY DEF IInv, TypeOK, Lease
    <2>2. QED
      BY <1>1, <2>1 DEF IInv, TablesAgree, LeaseMatchesItem, Untouched
  <1>3. TablesAgree'
    BY <1>2 DEF IInv, TablesAgree, Untouched, LocksOf
  <1>4. NoConflictingExecution'
    BY <1>1 DEF IInv, NoConflictingExecution, Clashes
  <1>5. AttemptsBounded' /\ FenceCountsAttempts'
    BY <1>1 DEF IInv, AttemptsBounded, FenceCountsAttempts
  <1>6. AbsentIsBlank'
    BY <1>1 DEF IInv, AbsentIsBlank, Row
  <1>7. QED
    BY <1>3, <1>4, <1>5, <1>6 DEF IInv

LEMMA ClaimKeepsInvariant ==
    ASSUME IInv, TypeOK', NEW w \in Workers, NEW i \in Items, NEW s \in LeaseSeconds,
           Claim(w, i, s)
    PROVE  IInv'
  <1>1. TablesAgree'
    BY ClaimKeepsTables
  <1>2. item \in [Items -> Item]
    BY DEF IInv, TypeOK
  <1>3. /\ item'[i].status = "leased"
        /\ item'[i].fence = item[i].fence + 1
        /\ item'[i].attempts = item[i].attempts + 1
    BY <1>2 DEF Claim, Item
  <1>4. \A j \in Items : j # i => item'[j] = item[j]
    BY <1>2 DEF Claim
  <1>5. Claimable(w, i)
    BY DEF Claim
  <1>6. NoConflictingExecution'
    <2>1. ASSUME NEW j \in Items, j # i, item[j].status = "leased"
          PROVE  <<i, j>> \notin Clashes /\ <<j, i>> \notin Clashes
      BY <1>5, <2>1, ClaimClashesWithNothing
    <2>2. QED
      BY <1>3, <1>4, <2>1 DEF IInv, NoConflictingExecution, Clashes
  <1>7. AttemptsBounded'
    <2>1. item[i].attempts < MaxAttempts[i]
      BY <1>5 DEF IInv, AttemptsBounded, Claimable
    <2>2. item[i].attempts \in Nat /\ MaxAttempts[i] \in Nat
      BY <1>2, PolicyAssumption DEF Item
    <2>3. QED
      BY <1>3, <1>4, <2>1, <2>2 DEF IInv, AttemptsBounded
  <1>8. FenceCountsAttempts'
    BY <1>3, <1>4 DEF IInv, FenceCountsAttempts
  <1>9. AbsentIsBlank'
    BY <1>3, <1>4 DEF IInv, AbsentIsBlank, Row
  <1>10. QED
    BY <1>1, <1>6, <1>7, <1>8, <1>9 DEF IInv

LEMMA EnqueueKeepsInvariant ==
    ASSUME IInv, TypeOK', NEW i \in Items, NEW gated \in BOOLEAN, Enqueue(i, gated)
    PROVE  IInv'
  <1>1. item \in [Items -> Item]
    BY DEF IInv, TypeOK
  <1>2. /\ item'[i].status = "queued" /\ item'[i].attempts = 0 /\ item'[i].fence = 0
        /\ item[i].status = "absent" /\ item[i].attempts = 0 /\ item[i].fence = 0
    BY <1>1 DEF Enqueue, Row, IInv, AbsentIsBlank
  <1>3. \A j \in Items : j # i => item'[j] = item[j]
    BY <1>1 DEF Enqueue
  <1>4. leases' = leases /\ locks' = locks
    BY DEF Enqueue
  <1>5. LeaseMatchesItem'
    <2>1. \A l \in leases : l.item \in Items /\ l.item # i
      BY <1>2 DEF IInv, TypeOK, Lease, TablesAgree, LeaseMatchesItem
    <2>2. QED
      BY <1>2, <1>3, <1>4, <2>1 DEF IInv, TablesAgree, LeaseMatchesItem
  <1>6. TablesAgree'
    BY <1>4, <1>5 DEF IInv, TablesAgree, LocksOf
  <1>7. NoConflictingExecution'
    BY <1>2, <1>3 DEF IInv, NoConflictingExecution, Clashes
  <1>8. AttemptsBounded'
    <2>1. MaxAttempts[i] \in Nat \ {0}
      BY PolicyAssumption
    <2>2. 0 <= MaxAttempts[i] /\ 0 < MaxAttempts[i]
      BY <2>1
    <2>3. \A j \in Items : /\ item[j].attempts <= MaxAttempts[j]
                           /\ item[j].status = "queued" => item[j].attempts < MaxAttempts[j]
      BY DEF IInv, AttemptsBounded
    <2>4. \A j \in Items : /\ item'[j].attempts <= MaxAttempts[j]
                           /\ item'[j].status = "queued" => item'[j].attempts < MaxAttempts[j]
      BY ONLY <1>2, <1>3, <2>2, <2>3
    <2>5. QED
      BY <2>4 DEF AttemptsBounded
  <1>9. FenceCountsAttempts' /\ AbsentIsBlank'
    BY <1>2, <1>3 DEF IInv, FenceCountsAttempts, AbsentIsBlank, Row
  <1>10. QED
    BY <1>6, <1>7, <1>8, <1>9 DEF IInv

LEMMA QuietIsUntouched ==
    ASSUME IInv, MigrateV2 \/ (\E done \in SUBSET Items : Reconcile(done)) \/ UNCHANGED vars
    PROVE  Untouched
  BY DEF MigrateV2, Reconcile, vars, Untouched

LEMMA BindIsUntouched ==
    ASSUME IInv, NEW e \in Presented, NEW c \in Claims,
           \/ BindEffectClaim(e, c)
           \/ \E r \in Receipts : BindEffectReceipt(e, c, r)
    PROVE  Untouched
  <1>1. e.item \in Items
    BY DEF Presented
  <1>2. item \in [Items -> Item]
    BY DEF IInv, TypeOK
  <1>3. item[e.item].status = "leased" /\ leases' = leases /\ locks' = locks
    BY DEF BindEffectClaim, BindEffectReceipt
  <1>4. CASE BindEffectClaim(e, c)
    <2>1. item' = [item EXCEPT ![e.item].claim = c]
      BY <1>4 DEF BindEffectClaim
    <2>2. \A i \in Items : i # e.item => item'[i] = item[i]
      BY <1>1, <1>2, <2>1
    <2>3. /\ item'[e.item].status = item[e.item].status
          /\ item'[e.item].fence = item[e.item].fence
          /\ item'[e.item].attempts = item[e.item].attempts
      BY <1>1, <1>2, <2>1 DEF Item
    <2>4. QED
      BY <1>3, <2>2, <2>3 DEF Untouched
  <1>5. ASSUME NEW r \in Receipts, BindEffectReceipt(e, c, r)
        PROVE  Untouched
    <2>1. item' = [item EXCEPT ![e.item].receipt = r]
      BY <1>5 DEF BindEffectReceipt
    <2>2. \A i \in Items : i # e.item => item'[i] = item[i]
      BY <1>1, <1>2, <2>1
    <2>3. /\ item'[e.item].status = item[e.item].status
          /\ item'[e.item].fence = item[e.item].fence
          /\ item'[e.item].attempts = item[e.item].attempts
      BY <1>1, <1>2, <2>1 DEF Item
    <2>4. QED
      BY <1>3, <2>2, <2>3 DEF Untouched
  <1>6. QED
    BY <1>4, <1>5

LEMMA InitInvariant == Init => IInv
  <1> SUFFICES ASSUME Init
               PROVE  IInv
    OBVIOUS
  <1>1. TypeOK
    BY TypeCorrectInit
  <1>2. \A i \in Items : /\ item[i].status \in {"absent", "queued"}
                         /\ item[i].attempts = 0 /\ item[i].fence = 0
                         /\ item[i].status = "absent" => item[i] = Row("absent", FALSE)
    <2>1. \A i \in Items : item[i] \in {Row("absent", FALSE), Row("queued", FALSE)}
      BY DEF Init
    <2>2. /\ Row("absent", FALSE).status = "absent" /\ Row("queued", FALSE).status = "queued"
          /\ \A st \in {"absent", "queued"} : Row(st, FALSE).attempts = 0 /\ Row(st, FALSE).fence = 0
      BY DEF Row
    <2>3. QED
      BY ONLY <2>1, <2>2
  <1>3. TablesAgree
    BY <1>2 DEF Init, TablesAgree, LeaseMatchesItem
  <1>4. AttemptsBounded
    <2>1. \A i \in Items : 0 <= MaxAttempts[i] /\ 0 < MaxAttempts[i]
      BY PolicyAssumption
    <2>2. QED
      BY ONLY <1>2, <2>1 DEF AttemptsBounded
  <1>5. NoConflictingExecution /\ FenceCountsAttempts /\ AbsentIsBlank
    BY <1>2 DEF NoConflictingExecution, FenceCountsAttempts, AbsentIsBlank
  <1>6. QED
    BY <1>1, <1>3, <1>4, <1>5 DEF IInv

LEMMA NextInvariant == IInv /\ TypeOK' /\ [Next]_vars => IInv'
  <1> SUFFICES ASSUME IInv, TypeOK', [Next]_vars
               PROVE  IInv'
    OBVIOUS
  <1>1. ASSUME NEW i \in Items, NEW gated \in BOOLEAN, Enqueue(i, gated)
        PROVE  IInv'
    BY <1>1, EnqueueKeepsInvariant
  <1>2. CASE MigrateV2 \/ (\E done \in SUBSET Items : Reconcile(done)) \/ UNCHANGED vars
    BY <1>2, QuietIsUntouched, UntouchedKeepsInvariant
  <1>3. ASSUME NEW w \in Workers, NEW i \in Items, NEW s \in LeaseSeconds, Claim(w, i, s)
        PROVE  IInv'
    BY <1>3, ClaimKeepsInvariant
  <1>4. ASSUME NEW e \in Presented, NEW s \in LeaseSeconds, Heartbeat(e, s)
        PROVE  IInv'
    BY <1>4, HeartbeatRenews, RenewsKeepsInvariant
  <1>5. ASSUME NEW e \in Presented, NEW c \in Claims, BindEffectClaim(e, c)
        PROVE  IInv'
    BY <1>5, BindIsUntouched, UntouchedKeepsInvariant
  <1>6. ASSUME NEW e \in Presented, NEW c \in Claims, NEW r \in Receipts,
               BindEffectReceipt(e, c, r)
        PROVE  IInv'
    BY <1>6, BindIsUntouched, UntouchedKeepsInvariant
  <1>7. ASSUME NEW e \in Presented, Complete(e)
        PROVE  IInv'
    BY <1>7, CompleteReleases, ReleasesKeepsInvariant
  <1>8. ASSUME NEW e \in Presented, NEW safe \in BOOLEAN, Fail(e, safe)
        PROVE  IInv'
    BY <1>8, FailReleases, ReleasesKeepsInvariant
  <1>9. CASE Recover
    BY <1>9, RecoverReleases, ReleasesKeepsInvariant
  <1>10. CASE Tick
    BY <1>10, TickRenews, RenewsKeepsInvariant
  <1>11. QED
    BY <1>1, <1>2, <1>3, <1>4, <1>5, <1>6, <1>7, <1>8, <1>9, <1>10 DEF Next

(* The inductive invariant holds of every behaviour.                       *)
THEOREM InductiveInvariant == Spec => []IInv
  BY InitInvariant, NextInvariant, TypeCorrect, PTL DEF Spec

(* Lease, item and lock tables agree, always: no lock outlives its lease.  *)
THEOREM TablesAlwaysAgree == Spec => []TablesAgree
  BY InductiveInvariant, PTL DEF IInv

(* Overlapping resources are never in use by two leased items.             *)
THEOREM ExclusiveExecution == Spec => []NoConflictingExecution
  BY InductiveInvariant, PTL DEF IInv

(* No item has more attempts than its limit.                               *)
THEOREM AttemptLimit == Spec => []AttemptsBounded
  BY InductiveInvariant, PTL DEF IInv

-----------------------------------------------------------------------------
(* A non-read step is never handed out twice.  The invariant alone is not  *)
(* inductive: an item that waits must not have an attempt yet.             *)

NoAttemptYet(i) == \A a \in attempt : a.item # i

OneAttempt(i) == \A a, b \in attempt : a.item = i /\ b.item = i => a = b

EInv == \A i \in Items \ ReadOnly :
          /\ item[i].status \in {"absent", "queued"} => NoAttemptYet(i)
          /\ OneAttempt(i)

LEMMA ClosedRowsKeepTheirItem ==
    ASSUME TypeOK, NEW gone, NEW status, CloseAttempts(gone, status), NEW i
    PROVE  /\ NoAttemptYet(i) => NoAttemptYet(i)'
           /\ OneAttempt(i) => OneAttempt(i)'
  <1> DEFINE closed(a) == IF \E l \in gone : l.item = a.item /\ l.fence = a.fence
                          THEN [a EXCEPT !.status = status] ELSE a
  <1>1. attempt' = {closed(a) : a \in attempt}
    BY DEF CloseAttempts
  <1>2. ASSUME NEW a \in attempt
        PROVE  closed(a).item = a.item
    <2>1. a \in Attempt
      BY DEF TypeOK
    <2>2. QED
      BY <2>1 DEF Attempt
  <1> HIDE DEF closed
  <1>3. NoAttemptYet(i) => NoAttemptYet(i)'
    BY <1>1, <1>2 DEF NoAttemptYet
  <1>4. OneAttempt(i) => OneAttempt(i)'
    BY <1>1, <1>2 DEF OneAttempt
  <1>5. QED
    BY <1>3, <1>4

LEMMA ClosingKeepsEInv ==
    ASSUME IInv, EInv, NEW gone, NEW status, Releases(gone), CloseAttempts(gone, status)
    PROVE  EInv'
  <1> SUFFICES ASSUME NEW i \in Items \ ReadOnly
               PROVE  /\ item'[i].status \in {"absent", "queued"} => NoAttemptYet(i)'
                      /\ OneAttempt(i)'
    BY DEF EInv
  <1>1. TypeOK
    BY DEF IInv
  <1>2. item'[i].status \in {"absent", "queued"} => item[i].status \in {"absent", "queued"}
    BY DEF Releases, Terminal
  <1>3. QED
    BY <1>1, <1>2, ClosedRowsKeepTheirItem DEF EInv

LEMMA ClaimKeepsEInv ==
    ASSUME IInv, EInv, NEW w \in Workers, NEW i \in Items, NEW s \in LeaseSeconds, Claim(w, i, s)
    PROVE  EInv'
  <1> DEFINE row == [item |-> i, number |-> item[i].attempts + 1,
                     fence |-> item[i].fence + 1, status |-> "executing"]
  <1>1. attempt' = attempt \cup {row} /\ row.item = i
    BY DEF Claim
  <1> HIDE DEF row
  <1>2. item \in [Items -> Item]
    BY DEF IInv, TypeOK
  <1>3. item[i].status = "queued" /\ item'[i].status = "leased"
    BY <1>2 DEF Claim, Claimable, Item
  <1>4. \A j \in Items : j # i => item'[j] = item[j]
    BY <1>2 DEF Claim
  <1>5. ASSUME NEW j \in Items \ ReadOnly
        PROVE  /\ item'[j].status \in {"absent", "queued"} => NoAttemptYet(j)'
               /\ OneAttempt(j)'
    <2>1. CASE j = i
      <3>1. NoAttemptYet(i)
        BY <1>3, <2>1 DEF EInv
      <3>2. OneAttempt(i)'
        BY <1>1, <3>1 DEF NoAttemptYet, OneAttempt
      <3>3. QED
        BY <1>3, <2>1, <3>2
    <2>2. CASE j # i
      <3>1. /\ NoAttemptYet(j) => NoAttemptYet(j)'
            /\ OneAttempt(j) => OneAttempt(j)'
        BY <1>1, <2>2 DEF NoAttemptYet, OneAttempt
      <3>2. QED
        BY <1>4, <2>2, <3>1 DEF EInv
    <2>3. QED
      BY <2>1, <2>2
  <1>6. QED
    BY <1>5 DEF EInv

(* A write, execute or network step gets one attempt, whatever happens.    *)
THEOREM EffectsAreNotReplayed == Spec => []EffectNeverReplayed
  <1>1. Init => EInv
    BY DEF Init, EInv, NoAttemptYet, OneAttempt
  <1>2. IInv /\ EInv /\ [Next]_vars => EInv'
    <2> SUFFICES ASSUME IInv, EInv, [Next]_vars
                 PROVE  EInv'
      OBVIOUS
    <2>1. ASSUME attempt' = attempt,
                 \A i \in Items : item'[i].status \in {"absent", "queued"} =>
                                  item[i].status \in {"absent", "queued"}
          PROVE  EInv'
      BY <2>1 DEF EInv, NoAttemptYet, OneAttempt
    <2>2. ASSUME NEW i \in Items, NEW gated \in BOOLEAN, Enqueue(i, gated)
          PROVE  EInv'
      <3>1. \A j \in Items : j # i => item'[j] = item[j]
        BY <2>2 DEF Enqueue, IInv, TypeOK
      <3>2. attempt' = attempt /\ item[i].status = "absent"
        BY <2>2 DEF Enqueue
      <3>3. QED
        BY <2>1, <3>1, <3>2
    <2>3. CASE MigrateV2 \/ (\E done \in SUBSET Items : Reconcile(done)) \/ UNCHANGED vars
      BY <2>1, <2>3 DEF MigrateV2, Reconcile, vars
    <2>4. ASSUME NEW w \in Workers, NEW i \in Items, NEW s \in LeaseSeconds, Claim(w, i, s)
          PROVE  EInv'
      BY <2>4, ClaimKeepsEInv
    <2>5. ASSUME NEW e \in Presented, NEW s \in LeaseSeconds, Heartbeat(e, s)
          PROVE  EInv'
      BY <2>1, <2>5 DEF Heartbeat
    <2>6. ASSUME NEW e \in Presented, NEW c \in Claims,
                 BindEffectClaim(e, c) \/ \E r \in Receipts : BindEffectReceipt(e, c, r)
          PROVE  EInv'
      <3>1. Untouched
        BY <2>6, BindIsUntouched
      <3>2. attempt' = attempt
        BY <2>6 DEF BindEffectClaim, BindEffectReceipt
      <3>3. QED
        BY <2>1, <3>1, <3>2 DEF Untouched
    <2>7. ASSUME NEW e \in Presented, Complete(e)
          PROVE  EInv'
      BY <2>7, CompleteReleases, ClosingKeepsEInv DEF Complete
    <2>8. ASSUME NEW e \in Presented, NEW safe \in BOOLEAN, Fail(e, safe)
          PROVE  EInv'
      BY <2>8, FailReleases, ClosingKeepsEInv DEF Fail
    <2>9. CASE Recover
      BY <2>9, RecoverReleases, ClosingKeepsEInv DEF Recover
    <2>10. CASE Tick
      BY <2>1, <2>10 DEF Tick
    <2>11. QED
      BY <2>2, <2>3, <2>4, <2>5, <2>6, <2>7, <2>8, <2>9, <2>10 DEF Next
  <1>3. EInv => EffectNeverReplayed
    BY DEF EInv, OneAttempt, EffectNeverReplayed
  <1>4. QED
    BY <1>1, <1>2, <1>3, InductiveInvariant, PTL DEF Spec

-----------------------------------------------------------------------------
(* A settled item stays as it is: only leased items are released or bound, *)
(* only queued ones claimed, only absent ones enqueued.                    *)

LEMMA LeasesAreOfLeasedItems ==
    ASSUME IInv, NEW l \in leases
    PROVE  l.item \in Items /\ item[l.item].status = "leased"
  BY DEF IInv, TypeOK, Lease, TablesAgree, LeaseMatchesItem

THEOREM SettledIsFinal == Spec => SettledStaysSettled
  <1>1. ASSUME IInv, [Next]_vars, NEW i \in Items, item[i].status \in Terminal
        PROVE  item'[i] = item[i]
    <2>1. item \in [Items -> Item]
      BY <1>1 DEF IInv, TypeOK
    <2>2. ASSUME NEW j \in Items, NEW gated \in BOOLEAN, Enqueue(j, gated)
          PROVE  item'[i] = item[i]
      BY <1>1, <2>1, <2>2 DEF Enqueue, Terminal
    <2>3. ASSUME NEW w \in Workers, NEW j \in Items, NEW s \in LeaseSeconds, Claim(w, j, s)
          PROVE  item'[i] = item[i]
      BY <1>1, <2>1, <2>3 DEF Claim, Claimable, Terminal
    <2>4. ASSUME NEW gone, Releases(gone)
          PROVE  item'[i] = item[i]
      <3>1. ~ \E l \in gone : l.item = i
        BY <1>1, <2>4, LeasesAreOfLeasedItems DEF Releases, Terminal
      <3>2. QED
        BY <2>4, <3>1 DEF Releases
    <2>5. ASSUME NEW e \in Presented, NEW c \in Claims, BindEffectClaim(e, c)
          PROVE  item'[i] = item[i]
      BY <1>1, <2>1, <2>5 DEF BindEffectClaim, Terminal
    <2>6. ASSUME NEW e \in Presented, NEW c \in Claims, NEW r \in Receipts,
                 BindEffectReceipt(e, c, r)
          PROVE  item'[i] = item[i]
      BY <1>1, <2>1, <2>6 DEF BindEffectReceipt, Terminal
    <2>7. ASSUME NEW e \in Presented, Complete(e)
          PROVE  item'[i] = item[i]
      BY <1>1, <2>4, <2>7, CompleteReleases
    <2>8. ASSUME NEW e \in Presented, NEW safe \in BOOLEAN, Fail(e, safe)
          PROVE  item'[i] = item[i]
      BY <1>1, <2>4, <2>8, FailReleases
    <2>9. CASE Recover
      BY <1>1, <2>4, <2>9, RecoverReleases
    <2>10. ASSUME NEW e \in Presented, NEW s \in LeaseSeconds, Heartbeat(e, s)
           PROVE  item'[i] = item[i]
      BY <2>10 DEF Heartbeat
    <2>11. CASE MigrateV2 \/ (\E done \in SUBSET Items : Reconcile(done)) \/ Tick \/ UNCHANGED vars
      BY <2>11 DEF MigrateV2, Reconcile, Tick, vars
    <2>12. QED
      BY <1>1, <2>2, <2>3, <2>5, <2>6, <2>7, <2>8, <2>9, <2>10, <2>11 DEF Next
  <1>2. IInv /\ [Next]_vars => [\A i \in Items : item[i].status \in Terminal => item'[i] = item[i]]_vars
    BY <1>1
  <1>3. QED
    BY <1>2, InductiveInvariant, PTL DEF Spec, SettledStaysSettled

(***************************************************************************)
(* What a step does to one row of queue_items.                             *)
(***************************************************************************)
KeepsBinding(i) ==
    /\ item'[i].claim = item[i].claim
    /\ item'[i].receipt = item[i].receipt

(* Recovery changes the status of a row and nothing else of it.            *)
LEMMA RecoveredRow ==
    ASSUME TypeOK, Recover, NEW i \in Items
    PROVE  /\ KeepsBinding(i)
           /\ item'[i].result = item[i].result
           /\ item'[i].ledgered = item[i].ledgered
  <1>1. item[i] \in Item
    BY DEF TypeOK
  <1>2. item'[i] = item[i] \/ item'[i] = [item[i] EXCEPT !.status = AfterLoss(i, TRUE)]
    BY DEF Recover
  <1>3. QED
    BY <1>1, <1>2 DEF Item, KeepsBinding

(* An effect claim and an effect receipt, once bound, stay bound: a bind   *)
(* action looks for a binding that is there, and enqueue, the only action  *)
(* that writes a whole row, finds the row blank.                           *)
THEOREM BindingsAreFinal == Spec => BindingIsFinal
  <1> DEFINE Kept(i) == /\ item[i].claim # None => item'[i].claim = item[i].claim
                        /\ item[i].receipt # None => item'[i].receipt = item[i].receipt
  <1>1. ASSUME IInv, [Next]_vars, NEW i \in Items
        PROVE  Kept(i)
    <2>1. item \in [Items -> Item] /\ item[i] \in Item
      BY <1>1 DEF IInv, TypeOK
    <2>2. ASSUME NEW j \in Items, NEW gated \in BOOLEAN, Enqueue(j, gated)
          PROVE  Kept(i)
      <3>1. CASE i = j
        BY <1>1, <2>2, <3>1 DEF Enqueue, IInv, AbsentIsBlank, Row
      <3>2. CASE i # j
        BY <2>1, <2>2, <3>2 DEF Enqueue
      <3>3. QED
        BY <3>1, <3>2
    <2>3. ASSUME NEW w \in Workers, NEW j \in Items, NEW s \in LeaseSeconds, Claim(w, j, s)
          PROVE  Kept(i)
      BY <2>1, <2>3 DEF Claim, Item
    <2>4. ASSUME NEW e \in Presented, NEW c \in Claims, BindEffectClaim(e, c)
          PROVE  Kept(i)
      BY <2>1, <2>4, NoneAssumption DEF BindEffectClaim, Item, Presented
    <2>5. ASSUME NEW e \in Presented, NEW c \in Claims, NEW r \in Receipts, BindEffectReceipt(e, c, r)
          PROVE  Kept(i)
      BY <2>1, <2>5, NoneAssumption DEF BindEffectReceipt, Item, Presented
    <2>6. ASSUME NEW e \in Presented, Complete(e)
          PROVE  Kept(i)
      BY <2>1, <2>6 DEF Complete, Item, Presented
    <2>7. ASSUME NEW e \in Presented, NEW safe \in BOOLEAN, Fail(e, safe)
          PROVE  Kept(i)
      BY <2>1, <2>7 DEF Fail, Item, Presented
    <2>8. CASE Recover
      BY <1>1, <2>8, RecoveredRow DEF IInv, KeepsBinding
    <2>9. CASE item' = item
      BY <2>9
    <2>10. QED
      BY <1>1, <2>2, <2>3, <2>4, <2>5, <2>6, <2>7, <2>8, <2>9
         DEF Next, vars, MigrateV2, Heartbeat, Reconcile, Tick
  <1>2. IInv /\ [Next]_vars => [\A i \in Items : Kept(i)]_vars
    BY <1>1
  <1>3. QED
    BY <1>2, InductiveInvariant, PTL DEF Spec, BindingIsFinal

(* A result is stored only while the lease it comes from is live and the   *)
(* newest: only complete and fail store one, both look the lease up, and   *)
(* TablesAgree says that a lease there is carries the newest fence.        *)
THEOREM OnlyTheLiveLeasePublishes == Spec => OnlyLiveLeasePublishes
  <1> DEFINE Live(i) == \E l \in leases : /\ l.item = i
                                          /\ l.left > 0
                                          /\ l.fence = item[i].fence
                                          /\ l.fence = item'[i].result
  <1>1. ASSUME IInv, [Next]_vars, NEW i \in Items, item'[i].result # item[i].result
        PROVE  Live(i)
    <2>1. item \in [Items -> Item] /\ item[i] \in Item
      BY <1>1 DEF IInv, TypeOK
    <2>2. ASSUME NEW e \in Presented, Held(e) # {},
                 \A j \in Items : j # e.item => item'[j].result = item[j].result,
                 item'[e.item].result = e.fence
          PROVE  Live(i)
      <3>1. i = e.item
        BY <1>1, <2>2
      <3>2. PICK l \in Held(e) : TRUE
        BY <2>2
      <3>3. /\ l \in leases
            /\ l.item = i
            /\ l.fence = e.fence
            /\ l.left > 0
        BY <1>1, <3>1, <3>2, HeldIs DEF IInv
      <3>4. l.fence = item[i].fence
        BY <1>1, <3>3 DEF IInv, TablesAgree, LeaseMatchesItem
      <3>5. QED
        BY <2>2, <3>1, <3>3, <3>4
    <2>3. ASSUME NEW e \in Presented, Complete(e)
          PROVE  Live(i)
      <3>1. e.item \in Items
        BY DEF Presented
      <3>2. /\ \A j \in Items : j # e.item => item'[j].result = item[j].result
            /\ item'[e.item].result = e.fence
            /\ Held(e) # {}
        BY <2>1, <2>3, <3>1 DEF Complete, Item
      <3>3. QED
        BY <2>2, <3>2
    <2>4. ASSUME NEW e \in Presented, NEW safe \in BOOLEAN, Fail(e, safe)
          PROVE  Live(i)
      <3>1. e.item \in Items
        BY DEF Presented
      <3>2. /\ \A j \in Items : j # e.item => item'[j].result = item[j].result
            /\ item'[e.item].result = e.fence
            /\ Held(e) # {}
        BY <2>1, <2>4, <3>1 DEF Fail, Item
      <3>3. QED
        BY <2>2, <3>2
    <2>5. ASSUME NEW j \in Items, NEW gated \in BOOLEAN, Enqueue(j, gated)
          PROVE  item'[i].result = item[i].result
      <3>1. CASE i = j
        BY <1>1, <2>5, <3>1 DEF Enqueue, IInv, TypeOK, AbsentIsBlank, Row
      <3>2. CASE i # j
        BY <2>1, <2>5, <3>2 DEF Enqueue
      <3>3. QED
        BY <3>1, <3>2
    <2>6. ASSUME NEW w \in Workers, NEW j \in Items, NEW s \in LeaseSeconds, Claim(w, j, s)
          PROVE  item'[i].result = item[i].result
      BY <2>1, <2>6 DEF Claim, Item
    <2>7. ASSUME NEW e \in Presented, NEW c \in Claims, BindEffectClaim(e, c)
          PROVE  item'[i].result = item[i].result
      BY <2>1, <2>7 DEF BindEffectClaim, Item, Presented
    <2>8. ASSUME NEW e \in Presented, NEW c \in Claims, NEW r \in Receipts, BindEffectReceipt(e, c, r)
          PROVE  item'[i].result = item[i].result
      BY <2>1, <2>8 DEF BindEffectReceipt, Item, Presented
    <2>9. CASE Recover
      BY <1>1, <2>9, RecoveredRow DEF IInv
    <2>10. CASE item' = item
      BY <1>1, <2>10
    <2>11. QED
      BY <1>1, <2>3, <2>4, <2>5, <2>6, <2>7, <2>8, <2>9, <2>10
         DEF Next, vars, MigrateV2, Heartbeat, Reconcile, Tick
  <1>2. IInv /\ [Next]_vars => [\A i \in Items : item'[i].result # item[i].result => Live(i)]_vars
    BY <1>1
  <1>3. QED
    BY <1>2, InductiveInvariant, PTL DEF Spec, OnlyLiveLeasePublishes

-----------------------------------------------------------------------------
(* A completed item is accounted for: no step breaks the accounts of a row *)
(* that has them.                                                          *)

Account(i) ==
    /\ item[i].status = "completed" /\ item[i].ledgered =>
         item[i].claim # None /\ item[i].receipt # None
    /\ item[i].receipt # None => item[i].claim # None
    /\ item[i].status = "completed" <=> job[i] # "none"

LEMMA AccountsStepwise ==
    ASSUME IInv, [Next]_vars, NEW i \in Items, Account(i)
    PROVE  Account(i)'
  <1>1. /\ item \in [Items -> Item] /\ item[i] \in Item
        /\ job \in [Items -> JobStatus]
    BY DEF IInv, TypeOK
  <1>2. ASSUME NEW j \in Items, NEW gated \in BOOLEAN, Enqueue(j, gated)
        PROVE  Account(i)'
    <2>1. CASE i = j
      BY <1>1, <1>2, <2>1 DEF Enqueue, Row, Account
    <2>2. CASE i # j
      BY <1>1, <1>2, <2>2 DEF Enqueue, Account
    <2>3. QED
      BY <2>1, <2>2
  <1>3. ASSUME NEW w \in Workers, NEW j \in Items, NEW s \in LeaseSeconds, Claim(w, j, s)
        PROVE  Account(i)'
    BY <1>1, <1>3 DEF Claim, Claimable, Item, Account
  <1>4. ASSUME NEW e \in Presented, NEW c \in Claims, BindEffectClaim(e, c)
        PROVE  Account(i)'
    BY <1>1, <1>4, NoneAssumption DEF BindEffectClaim, Item, Presented, Account
  <1>5. ASSUME NEW e \in Presented, NEW c \in Claims, NEW r \in Receipts, BindEffectReceipt(e, c, r)
        PROVE  Account(i)'
    BY <1>1, <1>5, NoneAssumption DEF BindEffectReceipt, Item, Presented, Account
  <1>6. ASSUME NEW e \in Presented, Complete(e)
        PROVE  Account(i)'
    <2>1. e.item \in Items
      BY DEF Presented
    <2>2. CASE i = e.item
      BY <1>1, <1>6, <2>1, <2>2 DEF Complete, LedgerSettled, Item, Account
    <2>3. CASE i # e.item
      BY <1>1, <1>6, <2>1, <2>3 DEF Complete, Account
    <2>4. QED
      BY <2>2, <2>3
  <1>7. ASSUME NEW e \in Presented, NEW safe \in BOOLEAN, Fail(e, safe)
        PROVE  Account(i)'
    <2>1. e.item \in Items
      BY DEF Presented
    <2>2. AfterLoss(e.item, safe) # "completed"
      BY <2>1, AfterLossIs
    <2>3. QED
      BY <1>1, <1>7, <2>1, <2>2 DEF Fail, Item, Account
  <1>8. CASE Recover
    <2>1. CASE \E l \in Expired : l.item = i
      <3>1. item[i].status = "leased"
        BY <2>1 DEF IInv, TablesAgree, LeaseMatchesItem, Expired
      <3>2. item'[i].status = AfterLoss(i, TRUE)
        BY <1>1, <1>8, <2>1 DEF Recover, Item
      <3>3. item'[i].status # "completed" /\ job'[i] = "none"
        BY <1>8, <3>1, <3>2, AfterLossIs DEF Recover, Account
      <3>4. QED
        BY <1>8, <3>3, RecoveredRow DEF IInv, KeepsBinding, Account
    <2>2. CASE ~ \E l \in Expired : l.item = i
      BY <1>8, <2>2 DEF Recover, Account
    <2>3. QED
      BY <2>1, <2>2
  <1>9. ASSUME NEW done \in SUBSET Items, Reconcile(done)
        PROVE  Account(i)'
    BY <1>1, <1>9 DEF Reconcile, OpenJobs, OpenJob, JobStatus, Account
  <1>10. CASE item' = item /\ job' = job
    BY <1>10 DEF Account
  <1>11. QED
    BY <1>2, <1>3, <1>4, <1>5, <1>6, <1>7, <1>8, <1>9, <1>10
       DEF Next, vars, MigrateV2, Heartbeat, Tick

(* A ledger-required item is completed only with its claim and receipt,    *)
(* and exactly the completed items have a projection job.                  *)
THEOREM CompletionsAreAccounted == Spec => []CompletionIsAccounted
  <1>1. CompletionIsAccounted <=> \A i \in Items : Account(i)
    BY DEF Account, CompletionIsAccounted
  <1>2. Init => CompletionIsAccounted
    <2> SUFFICES ASSUME Init, NEW i \in Items
                 PROVE  Account(i)
      BY <1>1
    <2>1. item[i] \in {Row("absent", FALSE), Row("queued", FALSE)} /\ job[i] = "none"
      BY DEF Init
    <2>2. QED
      BY <2>1 DEF Row, Account
  <1>3. IInv /\ CompletionIsAccounted /\ [Next]_vars => CompletionIsAccounted'
    <2> SUFFICES ASSUME IInv, CompletionIsAccounted, [Next]_vars
                 PROVE  CompletionIsAccounted'
      OBVIOUS
    <2>1. \A i \in Items : Account(i)'
      BY <1>1, AccountsStepwise
    <2>2. QED
      BY <2>1 DEF Account, CompletionIsAccounted
  <1>4. QED
    BY <1>2, <1>3, InductiveInvariant, PTL DEF Spec

-----------------------------------------------------------------------------
(* The attempts table is a history.  The invariant adds that an item that  *)
(* is leased has had an attempt, so that closing it has a row to close.    *)

RowFits(a) ==
    /\ a.fence \in 1 .. item[a.item].fence
    /\ a.number = a.fence
    /\ a.status = "executing" <=>
         (a.fence = item[a.item].fence /\ item[a.item].status = "leased")
    /\ a.status = "completed" =>
         /\ a.fence = item[a.item].fence
         /\ item[a.item].status = "completed"
         /\ item[a.item].result = a.fence

RowAt(i, n) == \E a \in attempt : a.item = i /\ a.fence = n

RowOfCompletion(i) == \E a \in attempt : a.item = i /\ a.status = "completed"

HInv ==
    /\ \A a \in attempt : RowFits(a)
    /\ \A a, b \in attempt : a.item = b.item /\ a.fence = b.fence => a = b
    /\ \A i \in Items : \A n \in 1 .. item[i].fence : RowAt(i, n)
    /\ \A i \in Items : item[i].status = "leased" => item[i].fence > 0
    /\ \A i \in Items : item[i].status = "completed" => RowOfCompletion(i)

LEMMA HInvIsHistory == TypeOK /\ HInv => AttemptHistory
  <1> SUFFICES ASSUME TypeOK, HInv, NEW i \in Items
               PROVE  LET rows == {a \in attempt : a.item = i} IN
                      /\ {a.fence : a \in rows} = 1 .. item[i].fence
                      /\ \A a, b \in rows : a.fence = b.fence => a = b
                      /\ \A a \in rows :
                           /\ a.number = a.fence
                           /\ a.status = "executing" <=>
                                (a.fence = item[i].fence /\ item[i].status = "leased")
                           /\ a.status = "completed" =>
                                /\ a.fence = item[i].fence
                                /\ item[i].status = "completed"
                                /\ item[i].result = a.fence
                      /\ item[i].status = "completed" => \E a \in rows : a.status = "completed"
    BY DEF AttemptHistory
  <1> DEFINE rows == {a \in attempt : a.item = i}
  <1>1. \A a \in rows : a \in attempt /\ a.item = i /\ RowFits(a)
    BY DEF HInv
  <1>2. {a.fence : a \in rows} = 1 .. item[i].fence
    <2>1. \A a \in rows : a.fence \in 1 .. item[i].fence
      BY <1>1 DEF RowFits
    <2>2. \A n \in 1 .. item[i].fence : \E a \in rows : a.fence = n
      BY DEF HInv, RowAt
    <2>3. QED
      BY <2>1, <2>2
  <1>3. \A a, b \in rows : a.fence = b.fence => a = b
    BY DEF HInv
  <1>4. item[i].status = "completed" => \E a \in rows : a.status = "completed"
    BY DEF HInv, RowOfCompletion
  <1>5. QED
    BY <1>1, <1>2, <1>3, <1>4 DEF RowFits

(* Closing the rows of the leases that go keeps the history, when the item *)
(* is completed exactly if its row is, and with the result of that row.    *)
LEMMA ClosingKeepsHInv ==
    ASSUME IInv, HInv, NEW gone, NEW status \in {"completed", "failed", "expired"},
           Releases(gone), CloseAttempts(gone, status),
           \A i \in Items : (\E l \in gone : l.item = i) =>
               /\ item'[i].status = "completed" <=> status = "completed"
               /\ status = "completed" => item'[i].result = item[i].fence
    PROVE  HInv'
  <1> DEFINE goes(i) == \E l \in gone : l.item = i
             closed(a) == IF \E l \in gone : l.item = a.item /\ l.fence = a.fence
                          THEN [a EXCEPT !.status = status] ELSE a
  <1>1. attempt' = {closed(a) : a \in attempt}
    BY DEF CloseAttempts
  <1>2. \A a \in attempt : a \in Attempt /\ a.item \in Items
    BY DEF IInv, TypeOK, Attempt
  <1>3. \A l \in gone : l.fence = item[l.item].fence /\ item[l.item].status = "leased"
    BY LeasesAreOfLeasedItems DEF IInv, TablesAgree, LeaseMatchesItem, Releases
  <1>4. ASSUME NEW a \in attempt
        PROVE  /\ closed(a).item = a.item
               /\ closed(a).fence = a.fence
               /\ closed(a).number = a.number
               /\ goes(a.item) /\ a.fence = item[a.item].fence => closed(a).status = status
               /\ ~ (goes(a.item) /\ a.fence = item[a.item].fence) => closed(a) = a
    <2>1. (\E l \in gone : l.item = a.item /\ l.fence = a.fence)
            <=> (goes(a.item) /\ a.fence = item[a.item].fence)
      BY <1>3
    <2>2. QED
      BY <1>2, <2>1 DEF Attempt
  <1> HIDE DEF closed
  <1>5. \A i \in Items : item'[i].fence = item[i].fence
    BY DEF Releases
  <1>6. \A i \in Items : ~ goes(i) => item'[i] = item[i]
    BY DEF Releases
  <1>7. ASSUME NEW i \in Items, goes(i)
        PROVE  item[i].status = "leased" /\ item'[i].status # "leased"
    <2>1. item[i].status = "leased"
      BY ONLY <1>3, <1>7
    <2>2. item'[i].status \in Terminal \cup {"queued"}
      BY ONLY <1>7, Releases(gone) DEF Releases
    <2>3. item'[i].status # "leased"
      BY ONLY <2>2 DEF Terminal
    <2>4. QED
      BY ONLY <2>1, <2>3
  <1> HIDE DEF goes
  <1>8. ASSUME NEW a \in attempt
        PROVE  RowFits(closed(a))'
    <2>1. RowFits(a)
      BY DEF HInv
    <2>2. CASE ~ goes(a.item)
      BY <1>2, <1>4, <1>6, <2>1, <2>2 DEF RowFits
    <2>3. CASE goes(a.item) /\ a.fence = item[a.item].fence
      <3>1. /\ item'[a.item].status = "completed" <=> status = "completed"
            /\ status = "completed" => item'[a.item].result = item[a.item].fence
        BY <1>2, <2>3 DEF goes
      <3>2. QED
        BY <1>2, <1>4, <1>5, <1>7, <2>1, <2>3, <3>1 DEF RowFits
    <2>4. CASE goes(a.item) /\ a.fence # item[a.item].fence
      BY <1>2, <1>4, <1>5, <2>1, <2>4 DEF RowFits
    <2>5. QED
      BY <2>2, <2>3, <2>4
  <1>9. \A a \in attempt' : RowFits(a)'
    BY <1>1, <1>8
  <1>10. ASSUME NEW a \in attempt', NEW b \in attempt', a.item = b.item, a.fence = b.fence
         PROVE  a = b
    <2>1. PICK c \in attempt : a = closed(c)
      BY <1>1
    <2>2. PICK d \in attempt : b = closed(d)
      BY <1>1
    <2>3. c.item = d.item /\ c.fence = d.fence
      BY <1>4, <1>10, <2>1, <2>2
    <2>4. QED
      BY <2>1, <2>2, <2>3 DEF HInv
  <1>11. ASSUME NEW i \in Items, NEW n \in 1 .. item'[i].fence
         PROVE  RowAt(i, n)'
    <2>1. n \in 1 .. item[i].fence
      BY <1>5, <1>11
    <2>2. PICK a \in attempt : a.item = i /\ a.fence = n
      BY <2>1 DEF HInv, RowAt
    <2>3. QED
      BY <1>1, <1>4, <2>2 DEF RowAt
  <1>12. ASSUME NEW i \in Items, item'[i].status = "leased"
         PROVE  item'[i].fence > 0
    BY <1>5, <1>6, <1>7, <1>12 DEF HInv
  <1>13. ASSUME NEW i \in Items, item'[i].status = "completed"
         PROVE  RowOfCompletion(i)'
    <2>1. CASE goes(i)
      <3>1. item[i].fence \in Nat /\ item[i].fence > 0
        BY <1>7, <2>1 DEF HInv, IInv, TypeOK, Item
      <3>2. RowAt(i, item[i].fence)
        <4>1. item[i].fence \in 1 .. item[i].fence
          BY <3>1
        <4>2. QED
          BY <4>1 DEF HInv
      <3>3. PICK a \in attempt : a.item = i /\ a.fence = item[i].fence
        BY <3>2 DEF RowAt
      <3>4. status = "completed"
        BY <1>13, <2>1 DEF goes
      <3>5. closed(a) \in attempt' /\ closed(a).item = i /\ closed(a).status = "completed"
        BY <1>1, <1>4, <2>1, <3>3, <3>4
      <3>6. QED
        BY <3>5 DEF RowOfCompletion
    <2>2. CASE ~ goes(i)
      <3>1. PICK a \in attempt : a.item = i /\ a.status = "completed"
        BY <1>6, <1>13, <2>2 DEF HInv, RowOfCompletion
      <3>2. closed(a) \in attempt' /\ closed(a) = a
        BY <1>1, <1>4, <2>2, <3>1
      <3>3. QED
        BY <3>1, <3>2 DEF RowOfCompletion
    <2>3. QED
      BY <2>1, <2>2
  <1>14. QED
    BY <1>9, <1>10, <1>11, <1>12, <1>13 DEF HInv

LEMMA ClaimKeepsHInv ==
    ASSUME IInv, HInv, NEW w \in Workers, NEW i \in Items, NEW s \in LeaseSeconds, Claim(w, i, s)
    PROVE  HInv'
  <1>1. PICK row : /\ attempt' = attempt \cup {row}
                   /\ row.item = i
                   /\ row.number = item[i].attempts + 1
                   /\ row.fence = item[i].fence + 1
                   /\ row.status = "executing"
    <2> DEFINE new == [item |-> i, number |-> item[i].attempts + 1,
                       fence |-> item[i].fence + 1, status |-> "executing"]
    <2> WITNESS new
    <2>1. QED
      BY DEF Claim
  <1>2. item \in [Items -> Item] /\ \A a \in attempt : a.item \in Items /\ a.fence \in Nat
    BY DEF IInv, TypeOK, Attempt
  <1>3. /\ item[i].status = "queued"
        /\ item'[i].status = "leased"
        /\ item[i].fence \in Nat
        /\ item'[i].fence = item[i].fence + 1
    BY <1>2 DEF Claim, Claimable, Item
  <1>4. \A j \in Items : j # i => item'[j] = item[j]
    BY <1>2 DEF Claim
  <1>5. item[i].attempts = item[i].fence
    BY DEF IInv, FenceCountsAttempts
  <1>6. RowFits(row)'
    BY <1>1, <1>3, <1>5 DEF RowFits
  <1>7. ASSUME NEW a \in attempt
        PROVE  RowFits(a)'
    <2>1. RowFits(a)
      BY DEF HInv
    <2>2. CASE a.item = i
      <3>1. a.fence \in 1 .. item[i].fence /\ a.status \notin {"executing", "completed"}
        BY <1>3, <2>1, <2>2 DEF RowFits
      <3>2. a.fence \in 1 .. item'[i].fence /\ a.fence # item'[i].fence
        BY <1>3, <3>1
      <3>3. QED
        BY <2>1, <2>2, <3>1, <3>2 DEF RowFits
    <2>3. CASE a.item # i
      BY <1>2, <1>4, <2>1, <2>3 DEF RowFits
    <2>4. QED
      BY <2>2, <2>3
  <1>8. \A a \in attempt : a.item = i => a.fence # row.fence
    BY <1>1, <1>3 DEF HInv, RowFits
  <1>9. \A a, b \in attempt' : a.item = b.item /\ a.fence = b.fence => a = b
    BY <1>1, <1>8 DEF HInv
  <1>10. ASSUME NEW j \in Items, NEW n \in 1 .. item'[j].fence
         PROVE  RowAt(j, n)'
    <2>1. CASE j = i /\ n = item[i].fence + 1
      BY <1>1, <2>1 DEF RowAt
    <2>2. CASE ~ (j = i /\ n = item[i].fence + 1)
      <3>1. n \in 1 .. item[j].fence
        BY <1>3, <1>4, <1>10, <2>2
      <3>2. QED
        BY <1>1, <3>1 DEF HInv, RowAt
    <2>3. QED
      BY <2>1, <2>2
  <1>11. ASSUME NEW j \in Items, item'[j].status = "leased"
         PROVE  item'[j].fence > 0
    <2>1. CASE j = i
      BY ONLY <1>3, <2>1
    <2>2. CASE j # i
      BY <1>4, <1>11, <2>2 DEF HInv
    <2>3. QED
      BY ONLY <2>1, <2>2
  <1>12. ASSUME NEW j \in Items, item'[j].status = "completed"
         PROVE  RowOfCompletion(j)'
    <2>1. j # i /\ item[j].status = "completed"
      BY <1>3, <1>4, <1>12
    <2>2. PICK a \in attempt : a.item = j /\ a.status = "completed"
      BY <2>1 DEF HInv, RowOfCompletion
    <2>3. QED
      BY <1>1, <2>2 DEF RowOfCompletion
  <1>13. QED
    BY <1>1, <1>6, <1>7, <1>9, <1>10, <1>11, <1>12 DEF HInv

(* One row per fence without gaps, open exactly while the item is leased,  *)
(* completed exactly when it is the newest row of a completed item.        *)
THEOREM AttemptsAreHistory == Spec => []AttemptHistory
  <1>1. Init => HInv
    <2>1. Row("absent", FALSE).fence = 0 /\ Row("queued", FALSE).fence = 0
          /\ Row("absent", FALSE).status = "absent" /\ Row("queued", FALSE).status = "queued"
      BY DEF Row
    <2>2. Init => \A i \in Items : item[i].fence = 0 /\ item[i].status \in {"absent", "queued"}
      <3> SUFFICES ASSUME Init, NEW i \in Items
                   PROVE  item[i].fence = 0 /\ item[i].status \in {"absent", "queued"}
        OBVIOUS
      <3>1. item[i] \in {Row("absent", FALSE), Row("queued", FALSE)}
        BY DEF Init
      <3>2. QED
        BY ONLY <2>1, <3>1
    <2>3. Init => attempt = {}
      BY DEF Init
    <2>4. QED
      BY <2>2, <2>3 DEF HInv
  <1>2. IInv /\ HInv /\ [Next]_vars => HInv'
    <2> SUFFICES ASSUME IInv, HInv, [Next]_vars
                 PROVE  HInv'
      OBVIOUS
    <2>1. ASSUME attempt' = attempt,
                 \A i \in Items : /\ item'[i].status = item[i].status
                                  /\ item'[i].fence = item[i].fence
                                  /\ item'[i].result = item[i].result
          PROVE  HInv'
      <3>1. \A a \in attempt : a.item \in Items
        BY DEF IInv, TypeOK, Attempt
      <3>2. \A a \in attempt : RowFits(a) => RowFits(a)'
        BY <2>1, <3>1 DEF RowFits
      <3>3. \A i \in Items : (RowOfCompletion(i) => RowOfCompletion(i)')
                             /\ \A n : RowAt(i, n) => RowAt(i, n)'
        BY <2>1 DEF RowOfCompletion, RowAt
      <3>4. QED
        BY <2>1, <3>2, <3>3 DEF HInv
    <2>2. ASSUME NEW i \in Items, NEW gated \in BOOLEAN, Enqueue(i, gated)
          PROVE  HInv'
      <3>1. item \in [Items -> Item]
        BY DEF IInv, TypeOK
      <3>2. \A j \in Items : j # i => item'[j] = item[j]
        BY <2>2, <3>1 DEF Enqueue
      <3>3. /\ item[i].fence = 0 /\ item'[i].fence = 0
            /\ item'[i].status = "queued"
            /\ attempt' = attempt
        BY <2>2, <3>1 DEF Enqueue, IInv, AbsentIsBlank, Row
      <3>4. \A a \in attempt : a.item \in Items /\ a.item # i
        BY <3>3 DEF HInv, RowFits, IInv, TypeOK, Attempt
      <3>5. \A a \in attempt : RowFits(a) => RowFits(a)'
        BY <3>2, <3>4 DEF RowFits
      <3>6. QED
        BY <3>2, <3>3, <3>5 DEF HInv, RowAt, RowOfCompletion
    <2>3. CASE MigrateV2 \/ (\E done \in SUBSET Items : Reconcile(done)) \/ Tick \/ UNCHANGED vars
      BY <2>1, <2>3 DEF MigrateV2, Reconcile, Tick, vars
    <2>4. ASSUME NEW w \in Workers, NEW i \in Items, NEW s \in LeaseSeconds, Claim(w, i, s)
          PROVE  HInv'
      BY <2>4, ClaimKeepsHInv
    <2>5. ASSUME NEW e \in Presented, NEW s \in LeaseSeconds, Heartbeat(e, s)
          PROVE  HInv'
      BY <2>1, <2>5 DEF Heartbeat
    <2>6. ASSUME NEW e \in Presented, NEW c \in Claims,
                 BindEffectClaim(e, c) \/ \E r \in Receipts : BindEffectReceipt(e, c, r)
          PROVE  HInv'
      <3>1. item \in [Items -> Item] /\ e.item \in Items
        BY DEF IInv, TypeOK, Presented
      <3>2. \A i \in Items : /\ item'[i].status = item[i].status
                             /\ item'[i].fence = item[i].fence
                             /\ item'[i].result = item[i].result
        <4>1. item' = [item EXCEPT ![e.item].claim = c]
              \/ \E r \in Receipts : item' = [item EXCEPT ![e.item].receipt = r]
          BY <2>6 DEF BindEffectClaim, BindEffectReceipt
        <4>2. CASE item' = [item EXCEPT ![e.item].claim = c]
          BY <3>1, <4>2 DEF Item
        <4>3. ASSUME NEW r \in Receipts, item' = [item EXCEPT ![e.item].receipt = r]
              PROVE  \A i \in Items : /\ item'[i].status = item[i].status
                                     /\ item'[i].fence = item[i].fence
                                     /\ item'[i].result = item[i].result
          BY <3>1, <4>3 DEF Item
        <4>4. QED
          BY <4>1, <4>2, <4>3
      <3>3. attempt' = attempt
        BY <2>6 DEF BindEffectClaim, BindEffectReceipt
      <3>4. QED
        BY <2>1, <3>2, <3>3
    <2>7. ASSUME NEW e \in Presented, Complete(e)
          PROVE  HInv'
      <3>1. item \in [Items -> Item] /\ e.item \in Items
        BY DEF IInv, TypeOK, Presented
      <3>2. \A l \in Held(e) : l.item = e.item /\ e.fence = item[e.item].fence
        BY HeldIs DEF IInv, TablesAgree, LeaseMatchesItem
      <3>3. item'[e.item].status = "completed" /\ item'[e.item].result = e.fence
        BY <2>7, <3>1 DEF Complete, Item
      <3>4. CloseAttempts(Held(e), "completed") /\ Releases(Held(e))
        BY <2>7, CompleteReleases DEF Complete
      <3>5. QED
        BY <3>2, <3>3, <3>4, ClosingKeepsHInv
    <2>8. ASSUME NEW e \in Presented, NEW safe \in BOOLEAN, Fail(e, safe)
          PROVE  HInv'
      <3>1. item \in [Items -> Item] /\ e.item \in Items
        BY DEF IInv, TypeOK, Presented
      <3>2. \A l \in Held(e) : l.item = e.item
        BY HeldIs DEF IInv
      <3>3. item'[e.item].status = AfterLoss(e.item, safe)
        BY <2>8, <3>1 DEF Fail, Item
      <3>4. item'[e.item].status # "completed"
        BY <3>1, <3>3, AfterLossIs
      <3>5. CloseAttempts(Held(e), "failed") /\ Releases(Held(e))
        BY <2>8, FailReleases DEF Fail
      <3>6. QED
        BY <3>2, <3>4, <3>5, ClosingKeepsHInv
    <2>9. CASE Recover
      <3>1. \A i \in Items : (\E l \in Expired : l.item = i) => item'[i].status # "completed"
        <4> SUFFICES ASSUME NEW i \in Items, \E l \in Expired : l.item = i
                     PROVE  item'[i].status # "completed"
          OBVIOUS
        <4>1. item[i] \in Item
          BY DEF IInv, TypeOK
        <4>2. item'[i].status = AfterLoss(i, TRUE)
          BY <2>9, <4>1 DEF Recover, Item
        <4>3. QED
          BY <4>2, AfterLossIs
      <3>2. CloseAttempts(Expired, "expired") /\ Releases(Expired)
        BY <2>9, RecoverReleases DEF Recover
      <3>3. QED
        BY <3>1, <3>2, ClosingKeepsHInv
    <2>10. QED
      BY <2>2, <2>3, <2>4, <2>5, <2>6, <2>7, <2>8, <2>9 DEF Next
  <1>3. QED
    BY <1>1, <1>2, HInvIsHistory, InductiveInvariant, PTL DEF Spec, IInv

-----------------------------------------------------------------------------
(* The queue keeps the promise of LeasedWork: the initial tables map to    *)
(* its initial states, and every step to one of its steps or to none.      *)

PhaseNow == [i \in Items |-> PhaseOf(item[i].status)]
RunsNow  == [i \in Items |-> item[i].fence]

LEMMA SamePhases ==
    ASSUME \A i \in Items : item'[i].status = item[i].status /\ item'[i].fence = item[i].fence
    PROVE  PhaseNow' = PhaseNow /\ RunsNow' = RunsNow
  BY DEF PhaseNow, RunsNow, PhaseOf

LEMMA UntouchedIsStutter ==
    ASSUME Untouched
    PROVE  UNCHANGED Promise!vars
  <1>1. PhaseNow' = PhaseNow /\ RunsNow' = RunsNow
    BY SamePhases DEF Untouched
  <1>2. QED
    BY <1>1 DEF Promise!vars, PhaseNow, RunsNow

LEMMA RenewsIsStutter ==
    ASSUME Renews
    PROVE  UNCHANGED Promise!vars
  <1>1. PhaseNow' = PhaseNow /\ RunsNow' = RunsNow
    BY SamePhases DEF Renews
  <1>2. QED
    BY <1>1 DEF Promise!vars, PhaseNow, RunsNow

LEMMA EnqueueAdmits ==
    ASSUME IInv, NEW i \in Items, NEW gated \in BOOLEAN, Enqueue(i, gated)
    PROVE  Promise!Admit(i)
  <1>1. item \in [Items -> Item]
    BY DEF IInv, TypeOK
  <1>2. item' = [item EXCEPT ![i] = Row("queued", gated)] /\ item[i].status = "absent"
    BY DEF Enqueue
  <1>3. item[i].fence = 0
    BY <1>2 DEF IInv, AbsentIsBlank, Row
  <1>4. item'[i].status = "queued" /\ item'[i].fence = 0
    BY <1>1, <1>2 DEF Row
  <1>5. \A j \in Items : j # i => item'[j] = item[j]
    BY <1>1, <1>2
  <1>6. PhaseNow[i] = "unknown" /\ PhaseNow' = [PhaseNow EXCEPT ![i] = "waiting"]
    BY <1>2, <1>4, <1>5 DEF PhaseNow, PhaseOf
  <1>7. RunsNow' = RunsNow
    BY <1>3, <1>4, <1>5 DEF RunsNow
  <1>8. QED
    BY <1>6, <1>7 DEF Promise!Admit, PhaseNow, RunsNow

LEMMA ClaimStarts ==
    ASSUME IInv, NEW w \in Workers, NEW i \in Items, NEW s \in LeaseSeconds, Claim(w, i, s)
    PROVE  Promise!Start(i)
  <1>1. item \in [Items -> Item]
    BY DEF IInv, TypeOK
  <1>2. /\ item[i].status = "queued"
        /\ item'[i].status = "leased"
        /\ item'[i].fence = item[i].fence + 1
    BY <1>1 DEF Claim, Claimable, Item
  <1>3. \A j \in Items : j # i => item'[j] = item[j]
    BY <1>1 DEF Claim
  <1>4. item[i].fence < MaxAttempts[i]
    BY <1>2 DEF IInv, AttemptsBounded, FenceCountsAttempts
  <1>5. \A j \in Items : PhaseNow[j] = "running" => <<i, j>> \notin Clashes
    <2>1. \A j \in Items : PhaseNow[j] = "running" => item[j].status = "leased"
      BY DEF PhaseNow, PhaseOf
    <2>2. QED
      BY <2>1, ClaimClashesWithNothing DEF Claim
  <1>6. PhaseNow[i] = "waiting" /\ PhaseNow' = [PhaseNow EXCEPT ![i] = "running"]
    BY <1>2, <1>3 DEF PhaseNow, PhaseOf
  <1>7. RunsNow[i] = item[i].fence /\ RunsNow' = [RunsNow EXCEPT ![i] = @ + 1]
    BY <1>2, <1>3 DEF RunsNow
  <1>8. QED
    BY <1>4, <1>5, <1>6, <1>7 DEF Promise!Start, PhaseNow, RunsNow

LEMMA CompleteFinishes ==
    ASSUME IInv, NEW e \in Presented, Complete(e)
    PROVE  Promise!Finish(e.item)
  <1>1. item \in [Items -> Item] /\ e.item \in Items
    BY DEF IInv, TypeOK, Presented
  <1>2. item' = [item EXCEPT ![e.item].status = "completed", ![e.item].result = e.fence]
    BY DEF Complete
  <1>3. /\ item[e.item].status = "leased"
        /\ item'[e.item].status = "completed"
        /\ item'[e.item].fence = item[e.item].fence
    BY <1>1, <1>2 DEF Complete, Item
  <1>4. \A j \in Items : j # e.item => item'[j] = item[j]
    BY <1>1, <1>2
  <1>5. PhaseNow[e.item] = "running" /\ PhaseNow' = [PhaseNow EXCEPT ![e.item] = "done"]
    BY <1>1, <1>3, <1>4 DEF PhaseNow, PhaseOf
  <1>6. RunsNow' = RunsNow
    BY <1>3, <1>4 DEF RunsNow
  <1>7. QED
    BY <1>5, <1>6 DEF Promise!Finish, PhaseNow, RunsNow

LEMMA ReleaseLoses ==
    ASSUME IInv, NEW gone, Releases(gone),
           \A l \in gone : item'[l.item].status # "completed"
    PROVE  \E lost \in SUBSET Items : Promise!Lose(lost)
  <1> DEFINE lost == {i \in Items : \E l \in gone : l.item = i}
             again == {i \in lost : item'[i].status = "queued"}
  <1>1. \A i \in lost : /\ item[i].status = "leased"
                        /\ item'[i].status \in {"queued", "blocked", "recovery-required"}
                        /\ item'[i].fence = item[i].fence
                        /\ item'[i].status = "queued" =>
                             i \in ReadOnly /\ item[i].attempts < MaxAttempts[i]
    BY LeasesAreOfLeasedItems DEF Releases, Terminal
  <1>2. \A i \in Items \ lost : item'[i] = item[i]
    BY DEF Releases
  <1>3. \A i \in again : i \in ReadOnly /\ RunsNow[i] < MaxAttempts[i]
    BY <1>1 DEF IInv, FenceCountsAttempts, RunsNow
  <1>4. \A i \in lost : PhaseNow[i] = "running"
    BY <1>1 DEF PhaseNow, PhaseOf
  <1>5. PhaseNow' = [i \in Items |-> IF i \in again THEN "waiting"
                                    ELSE IF i \in lost THEN "stopped"
                                    ELSE PhaseNow[i]]
    BY <1>1, <1>2 DEF PhaseNow, PhaseOf
  <1>6. RunsNow' = RunsNow
    BY <1>1, <1>2 DEF RunsNow
  <1> HIDE DEF again
  <1>7. again \in SUBSET {i \in lost : i \in ReadOnly /\ RunsNow[i] < MaxAttempts[i]}
    BY <1>3 DEF again
  <1>8. Promise!Lose(lost)
    BY <1>4, <1>5, <1>6, <1>7 DEF Promise!Lose, Promise!MayRepeat, PhaseNow, RunsNow
  <1>9. lost \in SUBSET Items
    OBVIOUS
  <1>10. QED
    BY <1>8, <1>9

LEMMA FailLoses ==
    ASSUME IInv, NEW e \in Presented, NEW safe \in BOOLEAN, Fail(e, safe)
    PROVE  \E lost \in SUBSET Items : Promise!Lose(lost)
  <1>1. item \in [Items -> Item] /\ e.item \in Items
    BY DEF IInv, TypeOK, Presented
  <1>2. item' = [item EXCEPT ![e.item].status = AfterLoss(e.item, safe), ![e.item].result = e.fence]
    BY DEF Fail
  <1>3. item'[e.item].status = AfterLoss(e.item, safe)
    BY <1>1, <1>2 DEF Item
  <1>4. \A l \in Held(e) : item'[l.item].status # "completed"
    BY <1>1, <1>3, AfterLossIs, HeldIs DEF IInv
  <1>5. QED
    BY <1>4, FailReleases, ReleaseLoses

LEMMA RecoverLoses ==
    ASSUME IInv, Recover
    PROVE  \E lost \in SUBSET Items : Promise!Lose(lost)
  <1>1. \A l \in Expired : l.item \in Items
    BY LeasesAreOfLeasedItems DEF Expired
  <1>2. \A i \in Items : item[i] \in Item
    BY DEF IInv, TypeOK
  <1>3. ASSUME NEW i \in Items, \E l \in Expired : l.item = i
        PROVE  item'[i].status = AfterLoss(i, TRUE)
    <2>1. item'[i] = [item[i] EXCEPT !.status = AfterLoss(i, TRUE)]
      BY <1>3 DEF Recover
    <2>2. QED
      BY <1>2, <2>1 DEF Item
  <1>4. \A l \in Expired : item'[l.item].status # "completed"
    BY <1>1, <1>3, AfterLossIs
  <1>5. QED
    BY <1>4, RecoverReleases, ReleaseLoses

(* Every step of the queue is a step of LeasedWork or leaves it alone.     *)
LEMMA StepsKeepThePromise == IInv /\ [Next]_vars => [Promise!Next]_(Promise!vars)
  <1> SUFFICES ASSUME IInv, [Next]_vars
               PROVE  Promise!Next \/ UNCHANGED Promise!vars
    OBVIOUS
  <1>1. ASSUME NEW i \in Items, NEW gated \in BOOLEAN, Enqueue(i, gated)
        PROVE  Promise!Next
    BY <1>1, EnqueueAdmits DEF Promise!Next
  <1>2. CASE MigrateV2 \/ (\E done \in SUBSET Items : Reconcile(done)) \/ UNCHANGED vars
    BY <1>2, QuietIsUntouched, UntouchedIsStutter
  <1>3. ASSUME NEW w \in Workers, NEW i \in Items, NEW s \in LeaseSeconds, Claim(w, i, s)
        PROVE  Promise!Next
    BY <1>3, ClaimStarts DEF Promise!Next
  <1>4. ASSUME NEW e \in Presented, NEW s \in LeaseSeconds, Heartbeat(e, s)
        PROVE  UNCHANGED Promise!vars
    BY <1>4, HeartbeatRenews, RenewsIsStutter
  <1>5. ASSUME NEW e \in Presented, NEW c \in Claims,
               BindEffectClaim(e, c) \/ \E r \in Receipts : BindEffectReceipt(e, c, r)
        PROVE  UNCHANGED Promise!vars
    BY <1>5, BindIsUntouched, UntouchedIsStutter
  <1>6. ASSUME NEW e \in Presented, Complete(e)
        PROVE  Promise!Next
    <2>1. e.item \in Items
      BY DEF Presented
    <2>2. QED
      BY <1>6, <2>1, CompleteFinishes DEF Promise!Next
  <1>7. ASSUME NEW e \in Presented, NEW safe \in BOOLEAN, Fail(e, safe)
        PROVE  Promise!Next
    BY <1>7, FailLoses DEF Promise!Next
  <1>8. CASE Recover
    BY <1>8, RecoverLoses DEF Promise!Next
  <1>9. CASE Tick
    BY <1>9, TickRenews, RenewsIsStutter
  <1>10. QED
    BY <1>1, <1>2, <1>3, <1>4, <1>5, <1>6, <1>7, <1>8, <1>9 DEF Next

(* The queue implements its abstract specification.                        *)
THEOREM QueueImplementsLeasedWork == Spec => ImplementsLeasedWork
  <1>1. Init => Promise!Init
    <2> SUFFICES ASSUME Init
                 PROVE  Promise!Init
      OBVIOUS
    <2>1. \A i \in Items : item[i] \in {Row("absent", FALSE), Row("queued", FALSE)}
      BY DEF Init
    <2>2. \A i \in Items : item[i].status \in {"absent", "queued"} /\ item[i].fence = 0
      <3>1. /\ Row("absent", FALSE).status = "absent" /\ Row("queued", FALSE).status = "queued"
            /\ Row("absent", FALSE).fence = 0 /\ Row("queued", FALSE).fence = 0
        BY DEF Row
      <3>2. QED
        BY ONLY <2>1, <3>1
    <2>3. \A i \in Items : PhaseOf(item[i].status) \in {"unknown", "waiting"}
      BY <2>2 DEF PhaseOf
    <2>4. QED
      BY <2>2, <2>3 DEF Promise!Init
  <1>2. QED
    BY <1>1, StepsKeepThePromise, InductiveInvariant, PTL DEF Spec, Promise!Spec, ImplementsLeasedWork
=============================================================================
