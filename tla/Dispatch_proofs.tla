--------------------------- MODULE Dispatch_proofs ---------------------------
(***************************************************************************)
(* Proofs about Orchestrator when its callers keep out of each other's     *)
(* way: requests that create a unit for one server do not overlap, the     *)
(* publisher keeps up with the status KV, and the faults are of those that *)
(* keep the two loops apart, restarts and failing recordings among them.   *)
(* Then the flow provides what the store relies on, dispatches the         *)
(* conditions of a unit in order and one at a time, and records one        *)
(* outcome of each.                                                        *)
(***************************************************************************)
EXTENDS Orchestrator_proofs

\* The faults after which a watcher delivers what it has delivered before, and
\* those after which an outcome is committed that its loop does not record.
Redelivering == {"refresh", "orchestrator_crash"}
Unrecording  == {"put_lost_ack", "history_error", "orchestrator_crash"}

\* The surroundings under which the theorems hold.
Orderly ==
    /\ PromptPublisher
    /\ Faults \cap {"controller_silent", "publish_error", "publish_lost_ack"} = {}
    /\ \/ Faults \cap Redelivering = {}
       \/ Faults \cap {"controller_dies", "get_error", "put_error"} = {}

\* Requests that create a unit for the same server do not overlap.
CreatesApart ==
    \A c, d \in Creators :
        create[c] # NoCreate /\ create[c].server = create[d].server => c = d

-----------------------------------------------------------------------------
(* The inductive invariant                                                 *)

\* The active conditions of the servers; those the reconciler would fail or
\* finish; those that are both.
Current   == {i \in Items : i \in ActiveItems(i.server)}
Abandoned == {i \in Items : NeedsReconciliation(i)}
Contested == Current \cap Abandoned

\* A condition has been published or taken; it is active or has been taken.
Handed  == {i \in Items : published[i] > 0 \/ job[i] # "none"}
Reached == {i \in Items : i \in Current \/ job[i] # "none"}

\* A loop has an event, is about to apply it, or has applied an outcome that it
\* is recording.
Busy(p)   == loop[p].pc \notin {"idle", "listing", "next"}
Before(p) == loop[p].pc \in {"merging", "updating"}
After(p)  == loop[p].pc \in {"history", "deleting"}

Outcome(evt) == evt.state \in {Failed, Succeeded}

\* Each call of the store is that of the request or event its caller is at, an
\* Update one of an active condition.
CallsInv ==
    /\ \A c \in Creators :
          /\ update[c] = NoUpdate
          /\ request[c].pc # "marking"
          /\ create[c] # NoCreate <=> request[c].pc = "creating"
          /\ create[c] # NoCreate => /\ request[c].item.server = create[c].server
                                     /\ request[c].item.id = create[c].rec.id
    /\ \A p \in Loops :
          /\ update[p] # NoUpdate <=> loop[p].pc = "updating"
          /\ loop[p].pc = "updating" => ItemOf(p) \in Current
          /\ update[p] # NoUpdate => /\ update[p].server = ItemOf(p).server
                                     /\ update[p].upd = UpdateOf(loop[p].evt)

\* What is executed is active and has a status entry; a final entry is of a
\* controller that is through.
JobInv == \A i \in Items :
    /\ job[i] # "silent"
    /\ job[i] = "none" => status[i] = NoStatus /\ history[i] = {}
    /\ job[i] = "running" => i \in Current /\ status[i] # NoStatus
    /\ status[i] # NoStatus => (Outcome(status[i]) <=> job[i] = "finished")

\* An event for the publisher: not of an active condition that the reconciler
\* takes as well, and an outcome only of a controller that is through.
ForPublisher(evt) ==
    /\ evt.item \notin Contested
    /\ job[evt.item] \in {"running", "finished"}
    /\ Outcome(evt) => job[evt.item] = "finished"

\* An event for the reconciler: an outcome of a condition whose controller will
\* not report any more; when it is active, its entry is stale.
ForReconciler(evt) ==
    /\ Outcome(evt)
    /\ job[evt.item] \in {"dead", "finished"}
    /\ evt.item \in Current => evt.item \in Abandoned

\* An outcome is the last event of its condition.
FeedInv == \A k \in Kinds : \A n \in DOMAIN feed[k] :
    LET evt == feed[k][n]
    IN /\ evt.item.kind = k
       /\ ForPublisher(evt)
       /\ Outcome(evt) => \A m \in DOMAIN feed[k] : feed[k][m].item = evt.item => m <= n

PublisherInv == Before(Publisher) => ForPublisher(loop[Publisher].evt)

\* Unless it is to be retried, the reconciler has left no active condition when
\* it is through with an event.
ReconcilerInv ==
    /\ Busy(Reconciler) => ForReconciler(loop[Reconciler].evt)
    /\ Busy(Reconciler) /\ ~Before(Reconciler) /\ ~LoopAt(Reconciler, "retry")
          => ItemOf(Reconciler) \notin Current

TodoInv == \A evt \in todo : ForReconciler(evt)

\* An outcome that is being recorded has been applied, by one of the loops.
AfterInv ==
    /\ \A p \in Loops : After(p) =>
          /\ Outcome(loop[p].evt)
          /\ job[ItemOf(p)] \in {"dead", "finished"}
          /\ ItemOf(p) \notin Current
    /\ After(Publisher) /\ After(Reconciler) => ItemOf(Publisher) # ItemOf(Reconciler)

\* The history has the outcome that was applied, and none before that.
HistoryInv ==
    /\ HistoryAgrees
    /\ \A i \in Current : history[i] = {}
    /\ \A p \in Loops :
          /\ LoopAt(p, "history") =>
                /\ history[ItemOf(p)] = {}
                /\ bucket[ItemOf(p).server].id = ItemOf(p).id
                      => StateIn(ItemOf(p).server, ItemOf(p)) = {loop[p].evt.state}
          /\ LoopAt(p, "deleting") => history[ItemOf(p)] # {}

\* What has been published, or is about to be, is active or has been taken;
\* its unit is not one yet to be stored.
PublishInv ==
    /\ \A i \in Items : published[i] > 0 => i \in Reached
    /\ \A i \in Handed : units[i.id] # NoWork /\ \A c \in Creators : create[c].rec.id # i.id
    /\ \A c \in Creators : RequestAt(c, "publishing") => request[c].item \in Reached
    /\ \A p \in Loops : LoopAt(p, "publishing") => loop[p].next \in Reached

\* The outcome of i is on its way to the publisher, or with it.
OnItsWay(i) ==
    \/ \E n \in DOMAIN feed[i.kind] : feed[i.kind][n].item = i /\ Outcome(feed[i.kind][n])
    \/ Before(Publisher) /\ ItemOf(Publisher) = i /\ Outcome(loop[Publisher].evt)

\* Where events are delivered again no outcome of an active condition is left
\* to the reconciler: each is on its way to the publisher.
RedeliveryInv ==
    Faults \cap Redelivering # {} =>
        \A i \in Items :
            /\ job[i] # "dead"
            /\ job[i] = "finished" /\ i \in Current =>
                  status[i] # NoStatus /\ ~status[i].stale /\ OnItsWay(i)

\* Where what is committed gets recorded, an entry whose outcome is neither to
\* be applied nor in the history is one that a loop is recording; what the
\* publisher is recording the reconciler leaves alone.
RecordedInv ==
    Faults \cap Unrecording = {} =>
        /\ \A i \in Items :
              status[i] # NoStatus /\ i \notin Current /\ history[i] = {}
                 => \E p \in Loops : LoopAt(p, "history") /\ ItemOf(p) = i
        /\ LoopAt(Publisher, "history") =>
              LET i == ItemOf(Publisher)
              IN /\ i \notin Abandoned
                 /\ \A evt \in todo : evt.item # i
                 /\ Busy(Reconciler) => ItemOf(Reconciler) # i

\* What is said of events, and of their conditions' entries, records and history.
EventsInv ==
    /\ JobInv
    /\ FeedInv
    /\ PublisherInv
    /\ ReconcilerInv
    /\ TodoInv
    /\ AfterInv
    /\ HistoryInv
    /\ RedeliveryInv
    /\ RecordedInv

OrderInv ==
    /\ CallsInv
    /\ EventsInv
    /\ PublishInv
    /\ DispatchedInOrder

DispatchInv == FlowInv /\ SerialInv /\ OrderInv

-----------------------------------------------------------------------------
(* The active condition of a record                                        *)

LEMMA TheLoops ==
    /\ Publisher \in Loops /\ Reconciler \in Loops /\ Publisher # Reconciler
    /\ \A p \in Loops : p = Publisher \/ p = Reconciler
    /\ \A p \in Loops : p \notin Creators /\ p \in Updaters
  BY CallersAssumption DEF Loops

\* An active condition is that of a record in progress of its unit.
LEMMA CurrentRecord ==
    ASSUME StoreTypeOK, NEW i \in Current
    PROVE  LET rec == bucket[i.server]
           IN /\ i \in Items /\ i.server \in Servers /\ i.id \in IDs /\ i.kind \in Kinds
              /\ i = Item(i.server, i.id, i.kind)
              /\ InProgress(rec) /\ rec \in RecordOf(IDs) /\ rec.id = i.id
              /\ \E n \in DOMAIN rec.conds : IsActiveCondition(rec, n) /\ rec.conds[n].kind = i.kind
<1> DEFINE rec == bucket[i.server]
<1>1. i \in Items /\ i \in ActiveItems(i.server)
  BY DEF Current
<1>2. i.server \in Servers /\ i.id \in IDs /\ i.kind \in Kinds /\ i = Item(i.server, i.id, i.kind)
  BY <1>1 DEF Items, Item
<1>3. PICK n \in DOMAIN rec.conds :
         IsActiveCondition(rec, n) /\ i = Item(i.server, rec.id, rec.conds[n].kind)
  BY <1>1 DEF ActiveItems
<1>4. InProgress(rec) /\ rec.id = i.id /\ rec.conds[n].kind = i.kind
  BY <1>3 DEF IsActiveCondition, Item
<1>5. rec \in RecordOf(IDs)
  BY <1>2, <1>4 DEF StoreTypeOK, InProgress
<1> QED
  BY <1>1, <1>2, <1>3, <1>4, <1>5

\* A record has one active condition at most.
LEMMA OneActive ==
    ASSUME NEW rec \in RecordOf(IDs), NEW n \in DOMAIN rec.conds, NEW m \in DOMAIN rec.conds,
           IsActiveCondition(rec, n), IsActiveCondition(rec, m)
    PROVE  n = m
<1>1. DOMAIN rec.conds = 1 .. Len(rec.conds) /\ Len(rec.conds) \in Nat
  BY LenProperties DEF RecordOf
<1>2. ~(n < m) /\ ~(m < n)
  BY <1>1 DEF IsActiveCondition
<1> QED
  BY <1>1, <1>2

LEMMA OneCurrent ==
    ASSUME StoreTypeOK, NEW i \in Current, NEW j \in Current, i.server = j.server
    PROVE  i = j
<1> DEFINE rec == bucket[i.server]
<1>1. PICK n \in DOMAIN rec.conds : IsActiveCondition(rec, n) /\ rec.conds[n].kind = i.kind
  BY CurrentRecord
<1>2. PICK m \in DOMAIN rec.conds : IsActiveCondition(rec, m) /\ rec.conds[m].kind = j.kind
  BY CurrentRecord
<1>3. n = m
  BY <1>1, <1>2, CurrentRecord, OneActive
<1> QED
  BY <1>1, <1>2, <1>3, CurrentRecord

\* The conditions of a record differ in their kinds.
LEMMA KindsDiffer ==
    ASSUME SerialInv, NEW s \in Servers, bucket[s] # NoRecord
    PROVE  /\ DistinctKinds(KindsOf(bucket[s]))
           /\ bucket[s] \in RecordOf(IDs)
           /\ DOMAIN bucket[s].conds = 1 .. Len(bucket[s].conds) /\ Len(bucket[s].conds) \in Nat
           /\ \A n \in DOMAIN bucket[s].conds :
                 Item(s, bucket[s].id, bucket[s].conds[n].kind) \in Items
<1>1. HasItsWork(bucket[s]) /\ bucket[s] \in RecordOf(IDs)
  BY DEF SerialInv, RecordInv, AllRecords, StoredRecords, StoreTypeOK
<1>2. DistinctKinds(KindsOf(bucket[s]))
  BY <1>1, WorksAssumption DEF HasItsWork, SerialInv, StoreTypeOK, RecordOf
<1>3. DOMAIN bucket[s].conds = 1 .. Len(bucket[s].conds) /\ Len(bucket[s].conds) \in Nat
  BY <1>1, LenProperties DEF RecordOf
<1>4. \A n \in DOMAIN bucket[s].conds : Item(s, bucket[s].id, bucket[s].conds[n].kind) \in Items
  <2> TAKE n \in DOMAIN bucket[s].conds
  <2>1. bucket[s].conds \in Seq(Condition) /\ bucket[s].id \in IDs
    BY <1>1 DEF RecordOf
  <2>2. bucket[s].conds[n] \in Condition
    BY <1>3, <2>1, ElementOfSeq
  <2> QED
    BY <2>1, <2>2 DEF Item, Items, Condition
<1> QED
  BY <1>1, <1>2, <1>3, <1>4

\* Those before the active condition have succeeded.
LEMMA PredecessorsSucceeded ==
    ASSUME SerialInv, NEW s \in Servers, bucket[s] # NoRecord,
           NEW m \in DOMAIN bucket[s].conds,
           Item(s, bucket[s].id, bucket[s].conds[m].kind) \in Current,
           NEW n \in DOMAIN bucket[s].conds, n < m
    PROVE  bucket[s].conds[n].state = Succeeded
<1> DEFINE rec == bucket[s]
           i == Item(s, rec.id, rec.conds[m].kind)
<1>1. i.server = s /\ i.kind = rec.conds[m].kind
  BY DEF Item
<1>2. PICK a \in DOMAIN rec.conds : IsActiveCondition(rec, a) /\ rec.conds[a].kind = i.kind
  BY <1>1, CurrentRecord DEF SerialInv
<1>3. a = m
  BY <1>1, <1>2, KindsDiffer DEF DistinctKinds, KindsOf
<1>4. n \in 1 .. (m - 1)
  BY KindsDiffer
<1>5. InProgress(rec) /\ StateIsComplete(rec.conds[n].state)
  BY <1>2, <1>3, <1>4 DEF IsActiveCondition
<1>6. rec.conds[n].state # Failed
  BY <1>5 DEF SerialInv, RecordInv, WellFormed, AllRecords, StoredRecords, InProgress, StateIsComplete
<1> QED
  BY <1>5, <1>6 DEF StateIsComplete

\* An outcome of the active condition merges.
LEMMA OutcomeMerges ==
    ASSUME StoreTypeOK, NEW i \in Current, NEW upd, upd.id = i.id, upd.kind = i.kind,
           upd.state \in {Failed, Succeeded}
    PROVE  MergeExisting(bucket[i.server], upd)
<1> DEFINE rec == bucket[i.server]
<1>1. PICK n \in DOMAIN rec.conds : IsActiveCondition(rec, n) /\ rec.conds[n].kind = i.kind
  BY CurrentRecord
<1>2. rec \in RecordOf(IDs) /\ rec.id = i.id
  BY CurrentRecord
<1>3. rec.conds[n] \in Condition
  BY <1>2, LenProperties, ElementOfSeq DEF RecordOf
<1>4. rec.conds[n].state \in {Pending, Active}
  BY <1>1, <1>3 DEF IsActiveCondition, StateIsComplete, Condition, States
<1>5. TransitionValid(rec.conds[n].state, upd.state)
  BY <1>4 DEF TransitionValid, States
<1> QED
  BY <1>1, <1>2, <1>5 DEF MergeExisting

\* The unit of an active condition has been started, and is not one about to
\* be stored.
LEMMA CurrentIsStored ==
    ASSUME SerialInv, NEW i \in Current
    PROVE  units[i.id] # NoWork /\ \A c \in Creators : create[c].rec.id # i.id
<1> DEFINE rec == bucket[i.server]
<1>1. i.server \in Servers /\ i.id \in IDs /\ InProgress(rec) /\ rec.id = i.id
  BY CurrentRecord DEF SerialInv
<1>2. HasItsWork(rec)
  BY <1>1 DEF SerialInv, RecordInv, AllRecords, StoredRecords, InProgress
<1>3. ASSUME NEW c \in Creators PROVE create[c].rec.id # i.id
  <2>1. CASE create[c] = NoCreate
    BY <1>1, <2>1, IDsAssumption DEF NoCreate
  <2>2. CASE create[c] # NoCreate
    BY <1>1, <2>2 DEF SerialInv, CreatesCurrent
  <2> QED
    BY <2>1, <2>2
<1> QED
  BY <1>1, <1>2, <1>3 DEF HasItsWork

\* An update that merges is one of the active condition.
LEMMA MergedIsCurrent ==
    ASSUME NEW i \in Items, NEW upd, upd.id = i.id, upd.kind = i.kind, MergeExisting(bucket[i.server], upd)
    PROVE  i \in Current
<1>1. PICK n \in DOMAIN bucket[i.server].conds :
         /\ IsActiveCondition(bucket[i.server], n)
         /\ bucket[i.server].id = i.id
         /\ bucket[i.server].conds[n].kind = i.kind
  BY DEF MergeExisting
<1> QED
  BY <1>1 DEF Current, ActiveItems, Item, Items

-----------------------------------------------------------------------------
(* What the Puts of the store do to the active conditions                  *)

\* The active conditions, in this state and in the next.
LEMMA CurrentMeans ==
    ASSUME NEW i \in Items
    PROVE  /\ i \in Current <=>
                 \E n \in DOMAIN bucket[i.server].conds :
                    /\ IsActiveCondition(bucket[i.server], n)
                    /\ bucket[i.server].id = i.id
                    /\ bucket[i.server].conds[n].kind = i.kind
           /\ i \in Current' <=>
                 \E n \in DOMAIN bucket'[i.server].conds :
                    /\ IsActiveCondition(bucket'[i.server], n)
                    /\ bucket'[i.server].id = i.id
                    /\ bucket'[i.server].conds[n].kind = i.kind
  BY DEF Current, ActiveItems, Item, Items

LEMMA SameBucket ==
    ASSUME UNCHANGED bucket
    PROVE  Current' = Current
  BY DEF Current, ActiveItems

\* A Create makes the first condition of a new unit active, on a server that
\* has no active one.
LEMMA CreateKeeps ==
    ASSUME SerialInv, PublishInv, NEW c \in Creators, CreatePut(c)
    PROVE  /\ \A i \in Current : i \in Current'
           /\ \A i \in Current' : i \in Current \/ i \notin Handed
           /\ \A i \in Handed : bucket'[i.server] = bucket[i.server] \/ bucket'[i.server].id # i.id
           /\ \A i \in Items : FirstOfUnit(i) /\ i.server = create[c].server /\ i.id = create[c].rec.id
                                  => i \in Current'
<1> DEFINE s   == create[c].server
           rec == create[c].rec
<1>1. s \in Servers /\ rec.id \in IDs /\ InProgress(rec) /\ bucket' = [bucket EXCEPT ![s] = rec]
      /\ ~InProgress(bucket[s])
  BY CreatePutEffect
<1>2. bucket'[s] = rec /\ \A t \in Servers : t # s => bucket'[t] = bucket[t]
  BY <1>1 DEF SerialInv, StoreTypeOK
<1>3. \A i \in Items : i.server \in Servers
  BY DEF Items
<1>4. \A i \in Items : i.server # s => (i \in Current' <=> i \in Current)
  BY <1>2, <1>3, CurrentMeans
<1>5. \A i \in Current : i \in Items /\ i.server # s
  BY <1>1, CurrentRecord DEF SerialInv
<1>6. \A i \in Handed : i \in Items /\ rec.id # i.id
  BY DEF PublishInv, Handed
<1>7. ASSUME NEW i \in Current' PROVE i \in Current \/ i \notin Handed
  <2>1. i \in Items
    BY <1>7 DEF Current
  <2>2. i.server = s => rec.id = i.id
    BY <1>2, <1>7, <2>1, CurrentMeans
  <2> QED
    BY <1>4, <1>6, <1>7, <2>1, <2>2
<1>8. ASSUME NEW i \in Items, FirstOfUnit(i), i.server = s, i.id = rec.id
      PROVE  i \in Current'
  <2>1. create[c] # NoCreate /\ rec \in AllRecords
    BY <1>1 DEF CreatePut, AllRecords, PendingPuts, InProgress
  <2>2. KindsOf(rec) = units[i.id] /\ units[i.id] \in Works
    BY <1>8, <2>1 DEF SerialInv, RecordInv, HasItsWork, StoreTypeOK, Items
  <2>3. 1 \in DOMAIN units[i.id]
    <3>1. units[i.id] # << >> /\ units[i.id] \in Seq(Kinds)
      BY <2>2, WorksAssumption DEF NoWork
    <3> QED
      BY <3>1, LenProperties, EmptySeq
  <2>4. 1 \in DOMAIN rec.conds /\ rec.conds[1].kind = i.kind
    BY <1>8, <2>2, <2>3 DEF KindsOf, FirstOfUnit
  <2>5. rec.conds[1].state = Pending
    BY <2>1, <2>4 DEF SerialInv, CreatesCurrent
  <2>6. IsActiveCondition(rec, 1)
    BY <1>1, <2>4, <2>5 DEF IsActiveCondition, StateIsComplete, Pending, Failed, Succeeded
  <2> QED
    BY <1>2, <1>8, <2>4, <2>6, CurrentMeans
<1> QED
  BY <1>1, <1>2, <1>3, <1>4, <1>5, <1>6, <1>7, <1>8

\* An Update by a loop advances its condition, which stays active unless the
\* update is an outcome; a condition that becomes active has not been handed out.
LEMMA UpdateKeeps ==
    ASSUME FlowInv, SerialInv, CallsInv, DispatchedInOrder, NEW p \in Loops, LoopAt(p, "updating"),
           UpdatePut(p), NEW evt \in Events, loop[p].evt = evt, evt.item \in Current
    PROVE  LET i == evt.item
           IN /\ i \in Current' <=> ~Outcome(evt)
              /\ \A j \in Current : j # i => j \in Current'
              /\ \A j \in Current' : j \in Current \/ j \notin Handed
              /\ \A s \in Servers : bucket'[s].id = bucket[s].id
              /\ StateIn(i.server, i)' = {evt.state}
              /\ \A j \in Items : j # i => StateIn(j.server, j)' = StateIn(j.server, j)
              /\ \A s \in Servers : \A n \in DOMAIN bucket'[s].conds :
                    /\ n \in DOMAIN bucket[s].conds
                    /\ bucket'[s].conds[n].kind = bucket[s].conds[n].kind
                    /\ bucket[s].conds[n].state = Succeeded => bucket'[s].conds[n].state = Succeeded
<1> DEFINE i   == evt.item
           s   == i.server
           upd == UpdateOf(evt)
           rec == bucket[s]
           new == ApplyUpdate(rec, upd)
<1>1. p \in Updaters /\ update[p] # NoUpdate /\ update[p].server = s /\ update[p].upd = upd
  BY TheLoops DEF CallsInv, LoopAt, ItemOf
<1>2. upd.id = i.id /\ upd.kind = i.kind /\ upd.state = evt.state /\ evt.state \in States
      /\ i \in Items /\ s \in Servers
  BY DEF UpdateOf, Events, Items
<1>3. rec \in RecordOf(IDs) /\ InProgress(rec) /\ rec # NoRecord
      /\ bucket' = [bucket EXCEPT ![s] = new] /\ new.id = rec.id /\ new \in RecordOf(IDs)
  BY <1>1, UpdatePutEffect DEF InProgress
<1>4. bucket'[s] = new /\ \A t \in Servers : t # s => bucket'[t] = bucket[t]
  BY <1>2, <1>3 DEF SerialInv, StoreTypeOK
<1>5. PICK q \in DOMAIN rec.conds :
         /\ IsActiveCondition(rec, q)
         /\ new.conds[q].state = evt.state
         /\ DOMAIN new.conds = DOMAIN rec.conds
         /\ \A n \in DOMAIN rec.conds : n # q => new.conds[n] = rec.conds[n]
  BY <1>1, <1>2, <1>4, UpdateOfActive
<1>6. PICK a \in DOMAIN rec.conds : IsActiveCondition(rec, a) /\ rec.conds[a].kind = i.kind
  BY CurrentRecord DEF SerialInv
<1>7. rec.conds[q].kind = i.kind /\ rec.id = i.id
  BY <1>3, <1>5, <1>6, OneActive, CurrentRecord DEF SerialInv
<1>8. DOMAIN rec.conds = 1 .. Len(rec.conds) /\ Len(rec.conds) \in Nat /\ DistinctKinds(KindsOf(rec))
  BY <1>2, <1>3, KindsDiffer
<1>9. \A n \in DOMAIN rec.conds : new.conds[n].kind = rec.conds[n].kind
  <2>1. upd \in Update
    BY <1>1, UpdatePutEffect
  <2>2. KindsOf(new) = KindsOf(rec)
    BY <1>3, <2>1, ApplyUpdateIsRecord
  <2> QED
    BY <1>5, <2>2 DEF KindsOf
<1>10. \A n \in DOMAIN rec.conds : rec.conds[n].kind = i.kind => n = q
  <2> TAKE n \in DOMAIN rec.conds
  <2> HAVE rec.conds[n].kind = i.kind
  <2>1. n \in DOMAIN KindsOf(rec) /\ q \in DOMAIN KindsOf(rec) /\ KindsOf(rec)[n] = KindsOf(rec)[q]
    BY <1>7 DEF KindsOf
  <2> QED
    BY <1>8, <2>1 DEF DistinctKinds
<1>11. \A j \in Items : j.server \in Servers
  BY DEF Items
<1>12. \A j \in Items : j.server # s => (j \in Current' <=> j \in Current)
  BY <1>4, <1>11, CurrentMeans
<1>13. i \in Current' <=> ~Outcome(evt)
  <2>1. ASSUME Outcome(evt), i \in Current' PROVE FALSE
    <3>1. PICK n \in DOMAIN new.conds : IsActiveCondition(new, n) /\ new.conds[n].kind = i.kind
      BY <1>2, <1>4, <2>1, CurrentMeans
    <3>2. n = q
      BY <1>5, <1>9, <1>10, <3>1
    <3> QED
      BY <1>5, <2>1, <3>1, <3>2 DEF IsActiveCondition, Outcome, StateIsComplete
  <2>2. ASSUME ~Outcome(evt) PROVE i \in Current'
    <3>1. ~StateIsComplete(new.state)
      BY <1>2, <1>3, <2>2 DEF ApplyUpdate, Outcome, InProgress, StateIsComplete
    <3>2. new # NoRecord
      BY <1>3, IDsAssumption DEF RecordOf
    <3>3. ~StateIsComplete(new.conds[q].state)
      BY <1>5, <2>2 DEF Outcome, StateIsComplete
    <3>4. \A n \in 1 .. (q - 1) : StateIsComplete(new.conds[n].state)
      BY <1>5, <1>8 DEF IsActiveCondition
    <3>5. IsActiveCondition(new, q)
      BY <1>5, <3>1, <3>2, <3>3, <3>4 DEF IsActiveCondition, InProgress
    <3>6. new.conds[q].kind = i.kind /\ new.id = i.id /\ q \in DOMAIN new.conds
      BY <1>3, <1>5, <1>7, <1>9
    <3> QED
      BY <1>2, <1>4, <3>5, <3>6, CurrentMeans
  <2> QED
    BY <2>1, <2>2
<1>14. \A j \in Current : j \in Items /\ (j # i => j.server # s)
  BY CurrentRecord, OneCurrent DEF SerialInv
<1>15. ASSUME NEW j \in Current' PROVE j \in Current \/ j \notin Handed
  <2>1. j \in Items
    BY <1>15 DEF Current
  <2>2. CASE j.server # s
    BY <1>12, <1>15, <2>1, <2>2
  <2>3. CASE j.server = s
    <3>1. PICK m \in DOMAIN new.conds :
             IsActiveCondition(new, m) /\ new.id = j.id /\ new.conds[m].kind = j.kind
      BY <1>4, <1>15, <2>1, <2>3, CurrentMeans
    <3>2. j = Item(s, rec.id, rec.conds[m].kind)
      BY <1>3, <1>5, <1>9, <2>1, <2>3, <3>1 DEF Items, Item
    <3>3. CASE m = q
      BY <1>2, <1>7, <2>1, <2>3, <3>2, <3>3 DEF Items, Item
    <3>4. CASE m < q
      <4>1. StateIsComplete(rec.conds[m].state)
        BY <1>5, <1>8, <3>1, <3>4 DEF IsActiveCondition
      <4> QED
        BY <1>5, <3>1, <3>4, <4>1 DEF IsActiveCondition
    <3>5. CASE q < m
      <4>1. rec.conds[q].state # Succeeded
        BY <1>5 DEF IsActiveCondition, StateIsComplete
      <4> QED
        BY <1>2, <1>5, <3>1, <3>2, <3>5, <4>1 DEF DispatchedInOrder, Handed
    <3> QED
      BY <1>5, <1>8, <3>1, <3>3, <3>4, <3>5
  <2> QED
    BY <2>2, <2>3
<1>16. StateIn(s, i)' = {evt.state}
  <2>1. {m \in DOMAIN new.conds : new.id = i.id /\ new.conds[m].kind = i.kind} = {q}
    <3>1. \A m \in DOMAIN new.conds : new.conds[m].kind = i.kind <=> m = q
      BY <1>5, <1>7, <1>9, <1>10
    <3>2. new.id = i.id /\ q \in DOMAIN new.conds
      BY <1>3, <1>5, <1>7
    <3> QED
      BY <3>1, <3>2
  <2> QED
    BY <1>4, <1>5, <2>1 DEF StateIn
<1>17. ASSUME NEW j \in Items, j # i PROVE StateIn(j.server, j)' = StateIn(j.server, j)
  <2>1. CASE j.server # s
    BY <1>4, <1>11, <2>1 DEF StateIn
  <2>2. CASE j.server = s
    <3>1. j.id # i.id \/ j.kind # i.kind
      BY <1>2, <1>17, <2>2 DEF Items
    <3>2. \A m \in DOMAIN rec.conds : rec.id = j.id /\ rec.conds[m].kind = j.kind => m # q
      BY <1>7, <3>1
    <3> DEFINE at == {m \in DOMAIN rec.conds : rec.id = j.id /\ rec.conds[m].kind = j.kind}
    <3>3. at = {m \in DOMAIN new.conds : new.id = j.id /\ new.conds[m].kind = j.kind}
      BY <1>3, <1>5, <1>9
    <3>4. \A m \in at : new.conds[m] = rec.conds[m]
      BY <1>5, <3>2
    <3>5. StateIn(s, j) = {rec.conds[m].state : m \in at}
      BY DEF StateIn
    <3>6. StateIn(s, j)' = {new.conds[m].state : m \in at}
      BY <1>4, <3>3 DEF StateIn
    <3> QED
      BY <2>2, <3>4, <3>5, <3>6
  <2> QED
    BY <2>1, <2>2
<1>18. \A t \in Servers : \A n \in DOMAIN bucket'[t].conds :
          /\ n \in DOMAIN bucket[t].conds
          /\ bucket'[t].conds[n].kind = bucket[t].conds[n].kind
          /\ bucket[t].conds[n].state = Succeeded => bucket'[t].conds[n].state = Succeeded
  <2>1. rec.conds[q].state # Succeeded
    BY <1>5 DEF IsActiveCondition, StateIsComplete
  <2> QED
    BY <1>4, <1>5, <1>9, <2>1
<1>19. \A t \in Servers : bucket'[t].id = bucket[t].id
  BY <1>3, <1>4
<1> QED
  BY <1>12, <1>13, <1>14, <1>15, <1>16, <1>17, <1>18, <1>19

-----------------------------------------------------------------------------
(* What the steps leave alone                                              *)

\* The sets the invariant is about depend on these variables only.
LEMMA SameSets ==
    ASSUME UNCHANGED bucket
    PROVE  /\ Current' = Current
           /\ UNCHANGED <<status, job>> => Abandoned' = Abandoned /\ Contested' = Contested
           /\ UNCHANGED job => Reached' = Reached
           /\ UNCHANGED <<published, job>> => Handed' = Handed
<1>1. Current' = Current
  BY SameBucket
<1>2. UNCHANGED <<status, job>> => Abandoned' = Abandoned
  BY DEF Abandoned, NeedsReconciliation
<1>3. UNCHANGED <<status, job>> => Contested' = Contested
  BY <1>1, <1>2 DEF Contested
<1>4. UNCHANGED job => Reached' = Reached
  BY <1>1 DEF Reached
<1>5. UNCHANGED <<published, job>> => Handed' = Handed
  BY DEF Handed
<1> QED
  BY <1>1, <1>2, <1>3, <1>4, <1>5

LEMMA HistoryKept ==
    ASSUME HistoryInv, UNCHANGED <<bucket, history>>,
           \A p \in Loops : After(p)' => After(p) /\ loop'[p] = loop[p]
    PROVE  HistoryInv'
<1>1. Current' = Current
  BY SameBucket
<1>2. HistoryAgrees'
  BY DEF HistoryInv, HistoryAgrees, StateIn
<1>3. \A i \in Current' : history'[i] = {}
  BY <1>1 DEF HistoryInv
<1>4. ASSUME NEW p \in Loops, LoopAt(p, "history")'
      PROVE  /\ history'[ItemOf(p)'] = {}
             /\ bucket'[ItemOf(p)'.server].id = ItemOf(p)'.id
                   => StateIn(ItemOf(p).server, ItemOf(p))' = {loop'[p].evt.state}
  <2>1. loop'[p] = loop[p] /\ LoopAt(p, "history") /\ ItemOf(p)' = ItemOf(p)
    BY <1>4 DEF LoopAt, After, ItemOf
  <2>2. StateIn(ItemOf(p).server, ItemOf(p))' = StateIn(ItemOf(p).server, ItemOf(p))
    BY <2>1 DEF StateIn, ItemOf
  <2> QED
    BY <2>1, <2>2 DEF HistoryInv
<1>5. ASSUME NEW p \in Loops, LoopAt(p, "deleting")'
      PROVE  history'[ItemOf(p)'] # {}
  <2>1. loop'[p] = loop[p] /\ LoopAt(p, "deleting") /\ ItemOf(p)' = ItemOf(p)
    BY <1>5 DEF LoopAt, After, ItemOf
  <2> QED
    BY <2>1 DEF HistoryInv
<1> QED
  BY <1>2, <1>3, <1>4, <1>5 DEF HistoryInv

\* A step that hands a reached condition out keeps the order of dispatch.
LEMMA HandOut ==
    ASSUME SerialInv, DispatchedInOrder, PublishInv, UNCHANGED <<bucket, units, create>>,
           NEW i \in Reached,
           \A j \in Items : j # i => published'[j] = published[j] /\ job'[j] = job[j],
           job[i] # "none" => job'[i] # "none"
    PROVE  /\ DispatchedInOrder'
           /\ \A j \in Reached : j \in Reached'
           /\ \A j \in Items : published'[j] > 0 => j \in Reached'
           /\ \A j \in Handed' : units'[j.id] # NoWork /\ \A c \in Creators : create'[c].rec.id # j.id
<1>1. Current' = Current
  BY SameBucket
<1>2. \A j \in Reached : j \in Reached'
  BY <1>1 DEF Reached
<1>3. \A j \in Items : published'[j] > 0 => j \in Reached'
  BY <1>2 DEF PublishInv
<1>4. i \in Items /\ (i \in Current \/ i \in Handed)
  BY DEF Reached, Handed
<1>5. units[i.id] # NoWork /\ \A c \in Creators : create[c].rec.id # i.id
  BY <1>4, CurrentIsStored DEF PublishInv
<1>6. \A j \in Handed' : j = i \/ j \in Handed
  BY DEF Handed
<1>7. \A j \in Handed' : units'[j.id] # NoWork /\ \A c \in Creators : create'[c].rec.id # j.id
  BY <1>5, <1>6 DEF PublishInv
<1>8. DispatchedInOrder'
  <2> SUFFICES ASSUME NEW s \in Servers, NEW n \in DOMAIN bucket[s].conds, NEW m \in DOMAIN bucket[s].conds,
                      n < m,
                      \/ published'[Item(s, bucket[s].id, bucket[s].conds[m].kind)] > 0
                      \/ job'[Item(s, bucket[s].id, bucket[s].conds[m].kind)] # "none"
               PROVE  bucket[s].conds[n].state = Succeeded
    BY DEF DispatchedInOrder
  <2> DEFINE j == Item(s, bucket[s].id, bucket[s].conds[m].kind)
  <2>1. bucket[s] # NoRecord
    BY DEF NoRecord
  <2>2. j \in Items
    BY <2>1, KindsDiffer
  <2>3. CASE j \in Handed
    BY <2>3 DEF Handed, DispatchedInOrder
  <2>4. CASE j \in Current
    BY <2>1, <2>4, PredecessorsSucceeded
  <2> QED
    BY <1>4, <2>2, <2>3, <2>4 DEF Handed
<1> QED
  BY <1>2, <1>3, <1>7, <1>8

\* A loop goes on to another point of eventUpdate.
LEMMA LoopGoes ==
    ASSUME FlowInv, NEW p \in Loops, NEW pc, LoopTo(p, pc)
    PROVE  /\ loop'[p].pc = pc /\ loop'[p].evt = loop[p].evt /\ loop'[p].next = loop[p].next
           /\ \A q \in Loops : q # p => loop'[q] = loop[q]
  BY DEF FlowInv, LoopInv, LoopTo

\* The event of a busy loop is one of an item.
LEMMA BusyEvent ==
    ASSUME FlowInv, NEW p \in Loops, Busy(p)
    PROVE  loop[p].evt \in Events /\ ItemOf(p) \in Items
  BY DEF FlowInv, LoopInv, Busy, ItemOf, Events

\* What is said of events and their conditions stays while records, jobs, feeds
\* and the history do, loops go on to a later point or rest, the reconciler takes
\* what it has found or finds more, and entries are deleted only of conditions
\* that are through.
LEMMA EventsKept ==
    ASSUME FlowInv, EventsInv,
           UNCHANGED <<bucket, job, feed, history>>,
           \A i \in Items : \/ status'[i] = status[i]
                            \/ status'[i] = NoStatus /\ i \notin Current /\ job[i] \in {"dead", "finished"},
           \A evt \in todo' : evt \in todo \/ (ForReconciler(evt) /\ evt.item \in Abandoned),
           Busy(Publisher)' => Busy(Publisher) /\ loop'[Publisher].evt = loop[Publisher].evt,
           Before(Publisher)' => Before(Publisher),
           Busy(Reconciler)' =>
              \/ Busy(Reconciler) /\ loop'[Reconciler].evt = loop[Reconciler].evt
              \/ loop'[Reconciler].evt \in todo /\ loop'[Reconciler].pc = "merging",
           Busy(Reconciler)' /\ ~Before(Reconciler)' /\ loop'[Reconciler].pc # "retry"
              => loop'[Reconciler].evt.item \notin Current,
           \A p \in Loops : After(p)' => After(p) /\ loop'[p] = loop[p],
           \A p \in Loops : LoopAt(p, "history") /\ Faults \cap Unrecording = {}
              => loop'[p] = loop[p],
           Faults \cap Redelivering # {} /\ Before(Publisher) /\ Outcome(loop[Publisher].evt)
              /\ ItemOf(Publisher) \in Current => Before(Publisher)'
    PROVE  EventsInv'
<1> USE DEF EventsInv
<1>1. Current' = Current
  BY SameBucket
<1>2. \A i \in Items : i \in Abandoned' => i \in Abandoned
  BY DEF Abandoned, NeedsReconciliation
<1>3. \A i \in Items : i \in Current => status'[i] = status[i]
  OBVIOUS
<1>4. \A i \in Current : i \in Items /\ (i \in Abandoned' <=> i \in Abandoned)
  <2>1. \A i \in Current : i \in Items
    BY DEF Current
  <2> QED
    BY <1>3, <2>1 DEF Abandoned, NeedsReconciliation
<1>5. Contested' = Contested
  BY <1>1, <1>4 DEF Contested
<1>6. \A evt : /\ ForPublisher(evt)' <=> ForPublisher(evt)
               /\ ForReconciler(evt) => ForReconciler(evt)'
  BY <1>1, <1>4, <1>5 DEF ForPublisher, ForReconciler, Outcome
<1>7. JobInv'
  BY <1>1 DEF JobInv, Outcome
<1>8. FeedInv'
  BY <1>6 DEF FeedInv, Outcome
<1>9. PublisherInv'
  <2> SUFFICES ASSUME Before(Publisher)'
               PROVE  ForPublisher(loop[Publisher].evt)' /\ loop'[Publisher].evt = loop[Publisher].evt
    BY DEF PublisherInv, ForPublisher, Outcome
  <2>1. Busy(Publisher)'
    BY DEF Before, Busy
  <2> QED
    BY <1>5, <2>1 DEF PublisherInv, ForPublisher, Outcome
<1>10. TodoInv'
  BY <1>6 DEF TodoInv
<1>11. ReconcilerInv'
  <2>1. Busy(Reconciler)' => ForReconciler(loop'[Reconciler].evt)
    BY DEF ReconcilerInv, TodoInv
  <2>2. Busy(Reconciler)' => ForReconciler(loop[Reconciler].evt)'
    BY <1>1, <1>4, <2>1 DEF ForReconciler, Outcome
  <2> QED
    BY <1>1, <2>2 DEF ReconcilerInv, LoopAt, ItemOf
<1>12. AfterInv'
  BY <1>1, TheLoops DEF AfterInv, ItemOf, Outcome
<1>13. HistoryInv'
  BY HistoryKept
<1>14. RedeliveryInv'
  <2> SUFFICES ASSUME Faults \cap Redelivering # {}, NEW i \in Items
               PROVE  /\ job[i] # "dead"
                      /\ job[i] = "finished" /\ i \in Current =>
                            status[i] # NoStatus /\ ~status[i].stale /\ OnItsWay(i)'
    BY <1>1, <1>3 DEF RedeliveryInv
  <2>1. OnItsWay(i) /\ i \in Current => OnItsWay(i)'
    <3>1. CASE \E n \in DOMAIN feed[i.kind] : feed[i.kind][n].item = i /\ Outcome(feed[i.kind][n])
      BY <3>1 DEF OnItsWay, Outcome
    <3>2. CASE Before(Publisher) /\ ItemOf(Publisher) = i /\ Outcome(loop[Publisher].evt) /\ i \in Current
      <4>1. Before(Publisher)' /\ loop'[Publisher].evt = loop[Publisher].evt
        BY <3>2 DEF Before, Busy
      <4> QED
        BY <3>2, <4>1 DEF OnItsWay, Outcome, ItemOf
    <3> QED
      BY <3>1, <3>2 DEF OnItsWay
  <2> QED
    BY <2>1 DEF RedeliveryInv
<1>15. RecordedInv'
  <2> SUFFICES ASSUME Faults \cap Unrecording = {}
               PROVE  /\ \A i \in Items :
                            status'[i] # NoStatus /\ i \notin Current /\ history[i] = {}
                               => \E p \in Loops : LoopAt(p, "history")' /\ ItemOf(p)' = i
                      /\ LoopAt(Publisher, "history")' =>
                            /\ ItemOf(Publisher)' \notin Abandoned'
                            /\ \A evt \in todo' : evt.item # ItemOf(Publisher)'
                            /\ Busy(Reconciler)' => ItemOf(Reconciler)' # ItemOf(Publisher)'
    BY <1>1 DEF RecordedInv
  <2>1. ASSUME NEW i \in Items, status'[i] # NoStatus, i \notin Current, history[i] = {}
        PROVE  \E p \in Loops : LoopAt(p, "history")' /\ ItemOf(p)' = i
    <3>1. PICK p \in Loops : LoopAt(p, "history") /\ ItemOf(p) = i
      BY <2>1 DEF RecordedInv
    <3>2. loop'[p] = loop[p]
      BY <3>1
    <3> QED
      BY <3>1, <3>2 DEF LoopAt, ItemOf
  <2>2. ASSUME LoopAt(Publisher, "history")'
        PROVE  /\ ItemOf(Publisher)' \notin Abandoned'
               /\ \A evt \in todo' : evt.item # ItemOf(Publisher)'
               /\ Busy(Reconciler)' => ItemOf(Reconciler)' # ItemOf(Publisher)'
    <3>1. loop'[Publisher] = loop[Publisher]
      BY <2>2, TheLoops DEF LoopAt, After
    <3>2. LoopAt(Publisher, "history") /\ ItemOf(Publisher)' = ItemOf(Publisher)
      BY <2>2, <3>1 DEF LoopAt, ItemOf
    <3>3. /\ ItemOf(Publisher) \notin Abandoned
          /\ \A evt \in todo : evt.item # ItemOf(Publisher)
          /\ Busy(Reconciler) => ItemOf(Reconciler) # ItemOf(Publisher)
      BY <3>2 DEF RecordedInv
    <3>4. \A evt \in todo' : evt.item # ItemOf(Publisher)
      BY <3>3
    <3>5. ItemOf(Publisher) \in Items
      BY <3>2, TheLoops, BusyEvent DEF LoopAt, Busy
    <3>6. Busy(Reconciler)' => ItemOf(Reconciler)' # ItemOf(Publisher)
      BY <3>3 DEF ItemOf
    <3> QED
      BY <1>2, <3>2, <3>3, <3>4, <3>5, <3>6
  <2> QED
    BY <2>1, <2>2
<1> QED
  BY <1>7, <1>8, <1>9, <1>10, <1>11, <1>12, <1>13, <1>14, <1>15

\* A loop moves on within eventUpdate, without an outcome to apply or to record.
LEMMA LoopMoves ==
    ASSUME FlowInv, EventsInv, NEW p \in Loops, NEW pc,
           UNCHANGED <<bucket, job, feed, todo, history>>,
           \A i \in Items : \/ status'[i] = status[i]
                            \/ status'[i] = NoStatus /\ i \notin Current /\ job[i] \in {"dead", "finished"},
           loop'[p].pc = pc, loop'[p].evt = loop[p].evt,
           \A q \in Loops : q # p => loop'[q] = loop[q],
           Busy(p), pc \in LoopStates \ {"idle", "listing", "next", "history", "deleting"},
           pc \in {"merging", "updating"} => Before(p),
           LoopAt(p, "history") => Faults \cap Unrecording # {},
           p = Reconciler /\ pc \in {"following", "publishing", "accepted", "rejected"}
              => ItemOf(p) \notin Current,
           p = Publisher /\ Faults \cap Redelivering # {} /\ Before(p) /\ Outcome(loop[p].evt)
              /\ ItemOf(p) \in Current => pc \in {"merging", "updating"}
    PROVE  EventsInv'
<1>1. /\ Busy(Publisher)' => Busy(Publisher) /\ loop'[Publisher].evt = loop[Publisher].evt
      /\ Before(Publisher)' => Before(Publisher)
      /\ Busy(Reconciler)' => Busy(Reconciler) /\ loop'[Reconciler].evt = loop[Reconciler].evt
  BY TheLoops DEF Busy, Before
<1>2. Busy(Reconciler)' /\ ~Before(Reconciler)' /\ loop'[Reconciler].pc # "retry"
         => loop'[Reconciler].evt.item \notin Current
  <2>1. CASE p = Reconciler
    BY <2>1 DEF Before, ItemOf, LoopStates
  <2>2. CASE p # Reconciler
    <3>1. loop'[Reconciler] = loop[Reconciler]
      BY <2>2, TheLoops
    <3> QED
      BY <3>1 DEF EventsInv, ReconcilerInv, Before, Busy, LoopAt, ItemOf
  <2> QED
    BY <2>1, <2>2
<1>3. \A q \in Loops : After(q)' => After(q) /\ loop'[q] = loop[q]
  BY DEF After
<1>4. \A q \in Loops : LoopAt(q, "history") /\ Faults \cap Unrecording = {} => loop'[q] = loop[q]
  OBVIOUS
<1>5. Faults \cap Redelivering # {} /\ Before(Publisher) /\ Outcome(loop[Publisher].evt)
         /\ ItemOf(Publisher) \in Current => Before(Publisher)'
  BY TheLoops DEF Before
<1> QED
  BY <1>1, <1>2, <1>3, <1>4, <1>5, EventsKept

LEMMA NothingHandedOut ==
    ASSUME OrderInv, UNCHANGED <<bucket, units, create, request, published, job>>,
           \A p \in Loops : LoopAt(p, "publishing")' => LoopAt(p, "publishing") /\ loop'[p].next = loop[p].next
    PROVE  PublishInv' /\ DispatchedInOrder'
<1>1. Reached' = Reached /\ Handed' = Handed
  BY SameSets
<1>2. PublishInv'
  BY <1>1 DEF OrderInv, PublishInv, LoopAt, RequestAt
<1>3. DispatchedInOrder'
  BY DEF OrderInv, DispatchedInOrder
<1> QED
  BY <1>2, <1>3

LEMMA CallsKept ==
    ASSUME CallsInv, UNCHANGED <<bucket, create, update, request>>,
           \A p \in Loops : /\ loop'[p].pc = "updating" <=> loop[p].pc = "updating"
                            /\ loop'[p].pc = "updating" => loop'[p].evt = loop[p].evt
    PROVE  CallsInv'
<1>1. Current' = Current
  BY SameBucket
<1> QED
  BY <1>1 DEF CallsInv, ItemOf

\* What is about to be applied, or is being recorded, is an event of its loop.
LEMMA OwnEvent ==
    ASSUME FlowInv, EventsInv, NEW p \in Loops, NEW evt \in Events, loop[p].evt = evt,
           Before(p) \/ After(p)
    PROVE  /\ evt.item \in Items /\ ItemOf(p) = evt.item
           /\ Before(p) => job[evt.item] \in {"running", "finished", "dead"}
           /\ Outcome(evt) => job[evt.item] \in {"dead", "finished"}
           /\ After(p) => Outcome(evt) /\ evt.item \notin Current
           /\ p = Publisher /\ Before(p) => ForPublisher(evt)
           /\ p = Reconciler => ForReconciler(evt)
<1>1. evt.item \in Items /\ ItemOf(p) = evt.item
  BY DEF ItemOf, Events
<1>2. p = Publisher /\ Before(p) => ForPublisher(evt)
  BY DEF EventsInv, PublisherInv
<1>3. p = Reconciler => ForReconciler(evt)
  BY DEF EventsInv, ReconcilerInv, Busy, Before, After
<1>4. After(p) => Outcome(evt) /\ job[evt.item] \in {"dead", "finished"} /\ evt.item \notin Current
  BY DEF EventsInv, AfterInv, ItemOf
<1> QED
  BY <1>1, <1>2, <1>3, <1>4, TheLoops DEF ForPublisher, ForReconciler

-----------------------------------------------------------------------------
(* The steps of eventUpdate                                                *)

\* An outcome of the active condition always merges.
LEMMA MergeEventOrder ==
    ASSUME Orderly, DispatchInv, NEW p \in Loops, MergeEvent(p)
    PROVE  OrderInv'
<1> USE DEF DispatchInv
<1>0. LoopAt(p, "merging") /\ Busy(p) /\ Before(p)
  BY DEF MergeEvent, LoopAt, Busy, Before
<1>1. loop[p].evt \in Events /\ ItemOf(p) \in Items
  BY <1>0, BusyEvent
<1>2. UNCHANGED <<bucket, units, create, request, published, job, status, feed, scan, todo, history>>
  BY DEF MergeEvent, MergeUpdate, storeVars
<1>3. PICK pc \in {"updating", "rejected", "retry"} :
         /\ LoopTo(p, pc)
         /\ pc = "updating" => MergeUpdate(p, ItemOf(p).server, UpdateOf(loop[p].evt))
         /\ pc # "updating" => UNCHANGED update
         /\ pc = "rejected" => ~MergeExisting(bucket[ItemOf(p).server], UpdateOf(loop[p].evt))
         /\ pc = "retry" => "get_error" \in Faults
  BY DEF MergeEvent, storeVars, Fault
<1>4. loop'[p].pc = pc /\ loop'[p].evt = loop[p].evt /\ \A q \in Loops : q # p => loop'[q] = loop[q]
  BY <1>3, LoopGoes
<1>5. UpdateOf(loop[p].evt).id = ItemOf(p).id /\ UpdateOf(loop[p].evt).kind = ItemOf(p).kind
      /\ UpdateOf(loop[p].evt).state = loop[p].evt.state
  BY DEF UpdateOf, ItemOf
<1>6. ASSUME Outcome(loop[p].evt), pc = "rejected" PROVE ItemOf(p) \notin Current
  BY <1>3, <1>5, <1>6, OutcomeMerges DEF FlowInv, Outcome
<1>7. p = Reconciler => Outcome(loop[p].evt)
  BY <1>0 DEF OrderInv, EventsInv, ReconcilerInv, ForReconciler
<1>8. pc = "retry" => Faults \cap Redelivering = {}
  BY <1>3 DEF Orderly
<1>9. EventsInv'
  <2>1. pc \in LoopStates \ {"idle", "listing", "next", "history", "deleting"}
    BY DEF LoopStates
  <2>2. ~LoopAt(p, "history")
    BY <1>0 DEF LoopAt
  <2>3. p = Reconciler /\ pc \in {"following", "publishing", "accepted", "rejected"} => ItemOf(p) \notin Current
    BY <1>6, <1>7
  <2>4. p = Publisher /\ Faults \cap Redelivering # {} /\ Before(p) /\ Outcome(loop[p].evt)
           /\ ItemOf(p) \in Current => pc \in {"merging", "updating"}
    BY <1>6, <1>8
  <2> QED
    BY <1>0, <1>2, <1>4, <2>1, <2>2, <2>3, <2>4, LoopMoves DEF OrderInv
<1>10. PublishInv' /\ DispatchedInOrder'
  BY <1>2, <1>4, NothingHandedOut DEF LoopAt
<1>11. CallsInv'
  <2>1. p \notin Creators /\ p \in Updaters /\ update[p] = NoUpdate
    BY <1>0, TheLoops DEF OrderInv, CallsInv, LoopAt
  <2>2. CASE pc = "updating"
    <3>1. update' = [update EXCEPT ![p] = Call("merged", ItemOf(p).server, UpdateOf(loop[p].evt), NoRecord)]
          /\ MergeExisting(bucket[ItemOf(p).server], UpdateOf(loop[p].evt))
      BY <1>3, <2>2 DEF MergeUpdate
    <3>2. /\ update'[p] # NoUpdate /\ update'[p].server = ItemOf(p).server
          /\ update'[p].upd = UpdateOf(loop[p].evt)
          /\ \A u \in Updaters : u # p => update'[u] = update[u]
      BY <2>1, <3>1 DEF FlowInv, StoreTypeOK, Call, NoUpdate
    <3>3. ItemOf(p) \in Current
      BY <1>1, <1>5, <3>1, MergedIsCurrent
    <3>4. Current' = Current
      BY <1>2, SameBucket
    <3> QED
      BY <1>2, <1>4, <2>1, <2>2, <3>2, <3>3, <3>4, CallersAssumption DEF OrderInv, CallsInv, ItemOf
  <2>3. CASE pc # "updating"
    BY <1>0, <1>2, <1>3, <1>4, <2>3, CallsKept DEF OrderInv, LoopAt
  <2> QED
    BY <2>2, <2>3
<1> QED
  BY <1>9, <1>10, <1>11 DEF OrderInv

\* A call of Update that is over, at the point it was called from.
LEMMA CallEnds ==
    ASSUME FlowInv, CallsInv, NEW p \in Loops, update' = [update EXCEPT ![p] = NoUpdate],
           loop'[p].pc # "updating", \A q \in Loops : q # p => loop'[q] = loop[q],
           \A q \in Loops : q # p /\ LoopAt(q, "updating") => ItemOf(q) \in Current',
           UNCHANGED <<create, request>>
    PROVE  CallsInv'
<1>1. p \notin Creators /\ p \in Updaters
  BY TheLoops
<1>2. update'[p] = NoUpdate /\ \A u \in Updaters : u # p => update'[u] = update[u]
  BY <1>1 DEF FlowInv, StoreTypeOK
<1> QED
  BY <1>1, <1>2, CallersAssumption DEF CallsInv, ItemOf, LoopAt

LEMMA CommitFailsOrder ==
    ASSUME DispatchInv, NEW p \in Loops, LoopAt(p, "updating"), LoopTo(p, "retry"), UpdateFails(p),
           Faults \cap Redelivering = {},
           UNCHANGED <<request, published, job, status, feed, scan, todo, history>>
    PROVE  OrderInv'
<1> USE DEF DispatchInv
<1>1. Busy(p) /\ ~LoopAt(p, "history")
  BY DEF LoopAt, Busy
<1>2. UNCHANGED <<bucket, units, create>> /\ update' = [update EXCEPT ![p] = NoUpdate]
  BY DEF UpdateFails
<1>3. loop'[p].pc = "retry" /\ loop'[p].evt = loop[p].evt /\ \A q \in Loops : q # p => loop'[q] = loop[q]
  BY LoopGoes
<1>4. EventsInv'
  BY <1>1, <1>2, <1>3, LoopMoves DEF LoopStates, OrderInv
<1>5. PublishInv' /\ DispatchedInOrder'
  BY <1>2, <1>3, NothingHandedOut DEF LoopAt
<1>6. CallsInv'
  <2>1. \A q \in Loops : LoopAt(q, "updating") => ItemOf(q) \in Current'
    BY <1>2, SameBucket DEF OrderInv, CallsInv, LoopAt
  <2> QED
    BY <1>2, <1>3, <2>1, CallEnds DEF OrderInv
<1> QED
  BY <1>4, <1>5, <1>6 DEF OrderInv

\* No merged update is refused.
LEMMA CommitGetOrder ==
    ASSUME Orderly, DispatchInv, NEW p \in Loops, CommitGet(p)
    PROVE  OrderInv'
<1> USE DEF DispatchInv
<1>1. LoopAt(p, "updating") /\ p \in Updaters /\ p \notin Creators
      /\ UNCHANGED <<request, published, job, status, feed, scan, todo, history>>
  BY TheLoops DEF CommitGet
<1>2. ~UpdateRefused(p)
  <2> SUFFICES ASSUME UpdateRefused(p) PROVE FALSE
    OBVIOUS
  <2>1. update[p] # NoUpdate
    BY DEF UpdateRefused, NoUpdate, Call
  <2>2. MergeExisting(bucket[update[p].server], update[p].upd)
    BY <1>1, <2>1 DEF SerialInv, UpdatesCurrent
  <2> QED
    BY <2>2, MergeNeedsProgress DEF UpdateRefused, UpdateAllowed
<1>3. CASE UpdateGet(p) /\ UNCHANGED loop
  <2>1. UNCHANGED <<bucket, units, create>>
    BY <1>3 DEF UpdateGet, ReadForUpdate
  <2>2. update[p] # NoUpdate
    BY <1>3 DEF UpdateGet, NoUpdate, Call
  <2>3. /\ update'[p] # NoUpdate /\ update'[p].server = update[p].server
        /\ update'[p].upd = update[p].upd
        /\ \A u \in Updaters : u # p => update'[u] = update[u]
    BY <1>1, <1>3 DEF FlowInv, StoreTypeOK, UpdateGet, ReadForUpdate, Call, NoUpdate
  <2>4. Current' = Current
    BY <2>1, SameBucket
  <2>5. CallsInv'
    BY <1>1, <1>3, <2>1, <2>2, <2>3, <2>4, CallersAssumption DEF OrderInv, CallsInv, ItemOf
  <2>6. EventsInv'
    BY <1>1, <1>3, <2>1, LoopMoves DEF OrderInv, LoopStates, LoopAt, Busy, Before
  <2>7. PublishInv' /\ DispatchedInOrder'
    BY <1>1, <1>3, <2>1, NothingHandedOut DEF LoopAt
  <2> QED
    BY <2>5, <2>6, <2>7 DEF OrderInv
<1>4. CASE UpdateFails(p) /\ LoopTo(p, "retry") /\ "get_error" \in Faults
  <2>1. Faults \cap Redelivering = {}
    BY <1>4 DEF Orderly
  <2> QED
    BY <1>1, <1>4, <2>1, CommitFailsOrder
<1> QED
  BY <1>2, <1>3, <1>4 DEF CommitGet, Fault

\* A Put into the bucket under which no condition that was handed out becomes
\* active leaves what is said of events, unless it is of a condition that loses
\* its controller's place.
LEMMA PutKeepsEvents ==
    ASSUME FlowInv, EventsInv, UNCHANGED <<published, job, status, feed, todo, history>>,
           \A j \in Current' : j \in Current \/ j \notin Handed,
           \A j \in Current : job[j] = "running" => j \in Current'
    PROVE  /\ \A evt : /\ ForPublisher(evt) => ForPublisher(evt)'
                       /\ ForReconciler(evt) => ForReconciler(evt)'
           /\ \A j \in Current' : j \in Items /\ history[j] = {}
           /\ \A j \in Items : job[j] # "none" /\ j \in Current' => j \in Current
           /\ JobInv' /\ FeedInv' /\ TodoInv'
<1> USE DEF EventsInv
<1>1. \A j \in Current' : j \in Items
  BY DEF Current
<1>2. \A j \in Items : job[j] # "none" /\ j \in Current' => j \in Current
  BY DEF Handed
<1>3. Abandoned' = Abandoned
  BY DEF Abandoned, NeedsReconciliation
<1>4. \A j \in Contested' : j \in Items /\ (job[j] # "none" => j \in Contested)
  BY <1>1, <1>2, <1>3 DEF Contested
<1>5. \A evt : ForPublisher(evt) => ForPublisher(evt)'
  BY <1>4 DEF ForPublisher, Outcome
<1>6. \A evt : ForReconciler(evt) => ForReconciler(evt)'
  BY <1>1, <1>2, <1>3 DEF ForReconciler, Outcome
<1>7. JobInv'
  BY DEF JobInv, Outcome
<1>8. FeedInv'
  BY <1>5 DEF FeedInv, Outcome
<1>9. TodoInv'
  BY <1>6 DEF TodoInv
<1>10. \A j \in Current' : history[j] = {}
  BY <1>1, <1>2 DEF JobInv, HistoryInv
<1> QED
  BY <1>1, <1>2, <1>5, <1>6, <1>7, <1>8, <1>9, <1>10

\* An applied event leaves its condition active, or with an outcome to record,
\* unless its loop does not learn that it was applied.
LEMMA AppliedOrder ==
    ASSUME DispatchInv, NEW p \in Loops, LoopAt(p, "updating"), UpdatePut(p),
           NEW pc \in {"history", "accepted", "retry"}, LoopTo(p, pc),
           pc = "history" => Outcome(loop[p].evt),
           Outcome(loop[p].evt) /\ pc # "history" => "put_lost_ack" \in Faults,
           UNCHANGED <<request, published, job, status, feed, scan, todo, history>>
    PROVE  OrderInv'
<1> USE DEF DispatchInv
<1>1. Busy(p) /\ Before(p) /\ ~After(p)
  BY DEF LoopAt, Busy, Before, After
<1>2. PICK evt \in Events : loop[p].evt = evt
  BY <1>1, BusyEvent
<1> DEFINE i == evt.item
<1>3. /\ i \in Items /\ ItemOf(p) = i
      /\ i \in Current
      /\ job[i] \in {"running", "finished", "dead"}
      /\ Outcome(evt) => job[i] \in {"dead", "finished"}
      /\ p = Publisher => ForPublisher(evt)
      /\ p = Reconciler => ForReconciler(evt)
  BY <1>1, <1>2, OwnEvent DEF OrderInv, CallsInv, LoopAt
<1>4. UNCHANGED <<units, create>> /\ update' = [update EXCEPT ![p] = NoUpdate]
  BY DEF UpdatePut
<1>5. /\ loop'[p].pc = pc /\ loop'[p].evt = evt
      /\ \A q \in Loops : q # p => loop'[q] = loop[q]
  BY <1>2, LoopGoes
<1>6. /\ i \in Current' <=> ~Outcome(evt)
      /\ \A j \in Current : j # i => j \in Current'
      /\ \A j \in Current' : j \in Current \/ j \notin Handed
      /\ \A s \in Servers : bucket'[s].id = bucket[s].id
      /\ StateIn(i.server, i)' = {evt.state}
      /\ \A j \in Items : j # i => StateIn(j.server, j)' = StateIn(j.server, j)
      /\ \A s \in Servers : \A n \in DOMAIN bucket'[s].conds :
            /\ n \in DOMAIN bucket[s].conds
            /\ bucket'[s].conds[n].kind = bucket[s].conds[n].kind
            /\ bucket[s].conds[n].state = Succeeded => bucket'[s].conds[n].state = Succeeded
  BY <1>2, <1>3, UpdateKeeps DEF OrderInv
<1>7. \A j \in Current : job[j] = "running" => j \in Current'
  BY <1>3, <1>6
<1>8. /\ \A e : /\ ForPublisher(e) => ForPublisher(e)'
                /\ ForReconciler(e) => ForReconciler(e)'
      /\ \A j \in Current' : j \in Items /\ history[j] = {}
      /\ \A j \in Items : job[j] # "none" /\ j \in Current' => j \in Current
      /\ JobInv' /\ FeedInv' /\ TodoInv'
  BY <1>6, <1>7, PutKeepsEvents DEF OrderInv
<1>9. Abandoned' = Abandoned /\ Handed' = Handed
  BY DEF Abandoned, NeedsReconciliation, Handed
\* What another loop is about to apply, or has applied, is another condition.
<1>10. \A q \in Loops : q # p /\ After(q) =>
          ItemOf(q) \in Items /\ ItemOf(q) # i /\ ItemOf(q) \notin Current'
  <2> SUFFICES ASSUME NEW q \in Loops, q # p, After(q)
               PROVE  ItemOf(q) \in Items /\ ItemOf(q) # i /\ ItemOf(q) \notin Current'
    OBVIOUS
  <2>1. Busy(q)
    BY DEF After, Busy
  <2>2. ItemOf(q) \in Items
    BY <2>1, BusyEvent
  <2>3. ItemOf(q) \notin Current /\ job[ItemOf(q)] \in {"dead", "finished"}
    BY DEF OrderInv, EventsInv, AfterInv
  <2> QED
    BY <1>3, <1>8, <2>2, <2>3
<1>11. \A q \in Loops : q # p /\ LoopAt(q, "updating") => ItemOf(q) \in Current' /\ ItemOf(q) # i
  <2> SUFFICES ASSUME NEW q \in Loops, q # p, LoopAt(q, "updating")
               PROVE  ItemOf(q) \in Current' /\ ItemOf(q) # i
    OBVIOUS
  <2>1. ItemOf(q) \in Current
    BY DEF OrderInv, CallsInv, LoopAt
  <2>2. /\ q = Publisher => ItemOf(q) \notin Contested
        /\ q = Reconciler => ItemOf(q) \in Abandoned
    BY <2>1 DEF OrderInv, EventsInv, PublisherInv, ReconcilerInv, ForPublisher, ForReconciler,
                LoopAt, Before, Busy, ItemOf
  <2>3. /\ p = Publisher => i \notin Contested
        /\ p = Reconciler => i \in Abandoned
    BY <1>3 DEF ForPublisher, ForReconciler
  <2> QED
    BY <1>3, <1>6, <2>1, <2>2, <2>3, TheLoops DEF Contested
<1>12. CallsInv'
  BY <1>4, <1>5, <1>11, CallEnds DEF OrderInv
<1>13. PublisherInv'
  <2>1. CASE p = Publisher
    BY <1>5, <2>1 DEF PublisherInv, Before
  <2>2. CASE p # Publisher
    <3>1. loop'[Publisher] = loop[Publisher]
      BY <1>5, <2>2, TheLoops
    <3>2. Before(Publisher) => ForPublisher(loop[Publisher].evt)'
      <4>1. Before(Publisher) => ForPublisher(loop[Publisher].evt)
        BY DEF OrderInv, EventsInv, PublisherInv
      <4> DEFINE e == loop[Publisher].evt
      <4>2. ASSUME ForPublisher(e) PROVE e.item \notin Contested' /\ job'[e.item] \in {"running", "finished"}
                                         /\ (Outcome(e) => job'[e.item] = "finished")
        BY <1>8, <4>2 DEF ForPublisher, Outcome
      <4> QED
        BY <3>1, <4>1, <4>2 DEF ForPublisher, Outcome
    <3> QED
      BY <3>1, <3>2 DEF PublisherInv, Before
  <2> QED
    BY <2>1, <2>2
<1>14. ReconcilerInv'
  <2>1. CASE p = Reconciler
    <3>1. ForReconciler(evt)' /\ ForReconciler(evt)
      BY <1>3, <1>8, <2>1
    <3>2. ForReconciler(loop[Reconciler].evt)'
      BY <1>5, <2>1, <3>1 DEF ForReconciler, Outcome
    <3>3. Outcome(evt)
      BY <3>1 DEF ForReconciler
    <3>4. ItemOf(Reconciler)' = i /\ i \notin Current'
      BY <1>5, <1>6, <2>1, <3>3 DEF ItemOf
    <3> QED
      BY <3>2, <3>4 DEF ReconcilerInv
  <2>2. CASE p # Reconciler
    <3>1. loop'[Reconciler] = loop[Reconciler]
      BY <1>5, <2>2, TheLoops
    <3> DEFINE e == loop[Reconciler].evt
    <3>2. Busy(Reconciler) => ForReconciler(e) /\ e.item \in Items
      BY TheLoops, BusyEvent DEF OrderInv, EventsInv, ReconcilerInv, ItemOf
    <3>3. Busy(Reconciler) => Outcome(e) /\ job[e.item] \in {"dead", "finished"}
                              /\ (e.item \in Current' => e.item \in Abandoned')
      BY <1>8, <1>9, <3>2 DEF ForReconciler
    <3>4. Busy(Reconciler)' => ForReconciler(loop[Reconciler].evt)'
      BY <3>1, <3>3 DEF ForReconciler, Busy, Outcome
    <3>5. Busy(Reconciler) /\ ~Before(Reconciler) /\ ~LoopAt(Reconciler, "retry") => e.item \notin Current'
      BY <1>8, <3>2, <3>3 DEF OrderInv, EventsInv, ReconcilerInv, ItemOf
    <3> QED
      BY <3>1, <3>4, <3>5 DEF ReconcilerInv, Busy, Before, LoopAt, ItemOf
  <2> QED
    BY <2>1, <2>2
<1>15. AfterInv'
  <2>1. ASSUME NEW q \in Loops, After(q)'
        PROVE  /\ Outcome(loop'[q].evt)
               /\ job[ItemOf(q)'] \in {"dead", "finished"}
               /\ ItemOf(q)' \notin Current'
    <3>1. CASE q = p
      <4>1. Outcome(evt)
        BY <1>2, <1>5, <2>1, <3>1 DEF After
      <4> QED
        BY <1>3, <1>5, <1>6, <3>1, <4>1 DEF ItemOf, Outcome
    <3>2. CASE q # p
      <4>1. loop'[q] = loop[q] /\ After(q) /\ ItemOf(q)' = ItemOf(q)
        BY <1>5, <2>1, <3>2 DEF After, ItemOf
      <4> QED
        BY <1>10, <3>2, <4>1 DEF OrderInv, EventsInv, AfterInv
    <3> QED
      BY <3>1, <3>2
  <2>2. ASSUME After(Publisher)', After(Reconciler)' PROVE ItemOf(Publisher)' # ItemOf(Reconciler)'
    <3>1. ASSUME NEW q \in Loops, q # p PROVE After(q)' => ItemOf(q)' # i
      BY <1>5, <1>10, <3>1 DEF After, ItemOf
    <3>2. ItemOf(p)' = i
      BY <1>5 DEF ItemOf
    <3> QED
      BY <2>2, <3>1, <3>2, TheLoops
  <2> QED
    BY <2>1, <2>2 DEF AfterInv, Outcome, ItemOf
<1>16. HistoryInv'
  <2>1. history[i] = {}
    BY <1>3 DEF OrderInv, EventsInv, HistoryInv
  <2>2. HistoryAgrees'
    <3> SUFFICES ASSUME NEW j \in Items
                 PROVE  /\ Cardinality(history[j]) <= 1
                        /\ history[j] # {} /\ bucket'[j.server].id = j.id
                              => history[j] = StateIn(j.server, j)'
      BY DEF HistoryAgrees
    <3>1. j.server \in Servers
      BY DEF Items
    <3> QED
      BY <1>6, <2>1, <3>1 DEF OrderInv, EventsInv, HistoryInv, HistoryAgrees
  <2>3. \A j \in Current' : history'[j] = {}
    BY <1>8
  <2>4. ASSUME NEW q \in Loops, LoopAt(q, "history")'
        PROVE  /\ history[ItemOf(q)'] = {}
               /\ bucket'[ItemOf(q)'.server].id = ItemOf(q)'.id
                     => StateIn(ItemOf(q).server, ItemOf(q))' = {loop'[q].evt.state}
    <3>1. CASE q = p
      <4>1. ItemOf(q)' = i
        BY <1>5, <3>1 DEF ItemOf
      <4>2. StateIn(ItemOf(q).server, ItemOf(q))' = {evt.state}
        BY <1>5, <1>6, <3>1 DEF ItemOf, StateIn
      <4> QED
        BY <1>5, <2>1, <3>1, <4>1, <4>2
    <3>2. CASE q # p
      <4>1. loop'[q] = loop[q] /\ LoopAt(q, "history") /\ After(q)
        BY <1>5, <2>4, <3>2 DEF LoopAt, After
      <4>2. PICK j \in Items : ItemOf(q) = j
        BY <1>10, <3>2, <4>1
      <4>3. j # i /\ j.server \in Servers
        BY <1>10, <3>2, <4>1, <4>2 DEF Items
      <4>4. StateIn(ItemOf(q).server, ItemOf(q))' = StateIn(j.server, j)
        <5>1. loop'[q].evt.item = j
          BY <4>1, <4>2 DEF ItemOf
        <5>2. StateIn(ItemOf(q).server, ItemOf(q))' = StateIn(j.server, j)'
          BY <5>1 DEF ItemOf, StateIn
        <5> QED
          BY <1>6, <4>3, <5>2
      <4>5. /\ history[j] = {}
            /\ bucket[j.server].id = j.id => StateIn(j.server, j) = {loop[q].evt.state}
        BY <4>1, <4>2 DEF OrderInv, EventsInv, HistoryInv
      <4>6. ItemOf(q)' = j
        BY <4>1, <4>2 DEF ItemOf
      <4> QED
        BY <1>6, <4>1, <4>3, <4>4, <4>5, <4>6
    <3> QED
      BY <3>1, <3>2
  <2>5. ASSUME NEW q \in Loops, LoopAt(q, "deleting")' PROVE history[ItemOf(q)'] # {}
    <3>1. loop'[q] = loop[q] /\ LoopAt(q, "deleting")
      BY <1>5, <2>5 DEF LoopAt
    <3> QED
      BY <3>1 DEF OrderInv, EventsInv, HistoryInv, ItemOf
  <2> QED
    BY <2>2, <2>3, <2>4, <2>5 DEF HistoryInv
<1>17. RedeliveryInv'
  <2> SUFFICES ASSUME Faults \cap Redelivering # {}, NEW j \in Items
               PROVE  /\ job[j] # "dead"
                      /\ job[j] = "finished" /\ j \in Current' =>
                            status[j] # NoStatus /\ ~status[j].stale /\ OnItsWay(j)'
    BY DEF RedeliveryInv
  <2>1. job[j] # "dead"
    BY DEF OrderInv, EventsInv, RedeliveryInv
  <2>2. ASSUME job[j] = "finished", j \in Current'
        PROVE  status[j] # NoStatus /\ ~status[j].stale /\ OnItsWay(j)'
    <3>1. j \in Current
      BY <1>8, <2>2
    <3>2. status[j] # NoStatus /\ ~status[j].stale /\ OnItsWay(j)
      BY <2>2, <3>1 DEF OrderInv, EventsInv, RedeliveryInv
    <3>3. CASE \E n \in DOMAIN feed[j.kind] : feed[j.kind][n].item = j /\ Outcome(feed[j.kind][n])
      BY <3>2, <3>3 DEF OnItsWay, Outcome
    <3>4. CASE Before(Publisher) /\ ItemOf(Publisher) = j /\ Outcome(loop[Publisher].evt)
      <4>1. p # Publisher
        BY <1>2, <1>3, <1>6, <2>2, <3>4
      <4>2. loop'[Publisher] = loop[Publisher]
        BY <1>5, <4>1, TheLoops
      <4> QED
        BY <3>2, <3>4, <4>2 DEF OnItsWay, Before, ItemOf, Outcome
    <3> QED
      BY <3>2, <3>3, <3>4 DEF OnItsWay
  <2> QED
    BY <2>1, <2>2
<1>18. RecordedInv'
  <2> SUFFICES ASSUME Faults \cap Unrecording = {}
               PROVE  /\ \A j \in Items :
                            status[j] # NoStatus /\ j \notin Current' /\ history[j] = {}
                               => \E q \in Loops : LoopAt(q, "history")' /\ ItemOf(q)' = j
                      /\ LoopAt(Publisher, "history")' =>
                            /\ ItemOf(Publisher)' \notin Abandoned
                            /\ \A e \in todo : e.item # ItemOf(Publisher)'
                            /\ Busy(Reconciler)' => ItemOf(Reconciler)' # ItemOf(Publisher)'
    BY <1>9 DEF RecordedInv
  <2>1. Outcome(evt) => pc = "history"
    BY <1>2 DEF Unrecording
  <2>2. ASSUME NEW j \in Items, status[j] # NoStatus, j \notin Current', history[j] = {}
        PROVE  \E q \in Loops : LoopAt(q, "history")' /\ ItemOf(q)' = j
    <3>1. CASE j \in Current
      <4>1. j = i /\ pc = "history"
        BY <1>6, <2>1, <2>2, <3>1
      <4> QED
        BY <1>5, <4>1 DEF LoopAt, ItemOf
    <3>2. CASE j \notin Current
      <4>1. PICK q \in Loops : LoopAt(q, "history") /\ ItemOf(q) = j
        BY <2>2, <3>2 DEF OrderInv, EventsInv, RecordedInv
      <4>2. loop'[q] = loop[q]
        BY <1>5, <4>1 DEF LoopAt
      <4> QED
        BY <4>1, <4>2 DEF LoopAt, ItemOf
    <3> QED
      BY <3>1, <3>2
  <2>3. ASSUME LoopAt(Publisher, "history")'
        PROVE  /\ ItemOf(Publisher)' \notin Abandoned
               /\ \A e \in todo : e.item # ItemOf(Publisher)'
               /\ Busy(Reconciler)' => ItemOf(Reconciler)' # ItemOf(Publisher)'
    <3>1. CASE p = Publisher
      <4>1. ItemOf(Publisher)' = i /\ i \notin Abandoned
        BY <1>3, <1>5, <3>1 DEF ItemOf, ForPublisher, Contested
      <4>2. \A e : ForReconciler(e) => e.item # i
        BY <1>3, <4>1 DEF ForReconciler
      <4>3. \A e \in todo : e.item # i
        BY <4>2 DEF OrderInv, EventsInv, TodoInv
      <4>4. loop'[Reconciler] = loop[Reconciler]
        BY <1>5, <3>1, TheLoops
      <4>5. Busy(Reconciler)' => ItemOf(Reconciler)' # i
        BY <4>2, <4>4 DEF OrderInv, EventsInv, ReconcilerInv, Busy, ItemOf
      <4> QED
        BY <4>1, <4>3, <4>5
    <3>2. CASE p # Publisher
      <4>1. p = Reconciler /\ loop'[Publisher] = loop[Publisher]
        BY <1>5, <3>2, TheLoops
      <4>2. LoopAt(Publisher, "history") /\ ItemOf(Publisher)' = ItemOf(Publisher)
        BY <2>3, <4>1 DEF LoopAt, ItemOf
      <4>3. ItemOf(Reconciler)' = ItemOf(Reconciler) /\ Busy(Reconciler)
        BY <1>1, <1>2, <1>5, <4>1 DEF ItemOf
      <4> QED
        BY <4>2, <4>3 DEF OrderInv, EventsInv, RecordedInv
    <3> QED
      BY <3>1, <3>2
  <2> QED
    BY <2>2, <2>3
<1>19. PublishInv'
  <2>1. \A j \in Reached : j \in Reached'
    BY <1>3, <1>6 DEF Reached
  <2>2. \A q \in Loops : LoopAt(q, "publishing")' => LoopAt(q, "publishing") /\ loop'[q] = loop[q]
    BY <1>5 DEF LoopAt
  <2> QED
    BY <1>4, <1>9, <2>1, <2>2 DEF OrderInv, PublishInv, RequestAt
<1>20. DispatchedInOrder'
  <2> SUFFICES ASSUME NEW s \in Servers,
                      NEW n \in DOMAIN bucket'[s].conds, NEW m \in DOMAIN bucket'[s].conds,
                      n < m,
                      \/ published[Item(s, bucket'[s].id, bucket'[s].conds[m].kind)] > 0
                      \/ job[Item(s, bucket'[s].id, bucket'[s].conds[m].kind)] # "none"
               PROVE  bucket'[s].conds[n].state = Succeeded
    BY DEF DispatchedInOrder
  <2>1. /\ n \in DOMAIN bucket[s].conds /\ m \in DOMAIN bucket[s].conds
        /\ bucket'[s].id = bucket[s].id /\ bucket'[s].conds[m].kind = bucket[s].conds[m].kind
        /\ bucket[s].conds[n].state = Succeeded => bucket'[s].conds[n].state = Succeeded
    BY <1>6
  <2>2. bucket[s].conds[n].state = Succeeded
    BY <2>1 DEF OrderInv, DispatchedInOrder
  <2> QED
    BY <2>1, <2>2
<1> QED
  BY <1>8, <1>12, <1>13, <1>14, <1>15, <1>16, <1>17, <1>18, <1>19, <1>20 DEF OrderInv, EventsInv

LEMMA CommitPutOrder ==
    ASSUME Orderly, DispatchInv, NEW p \in Loops, CommitPut(p)
    PROVE  OrderInv'
<1>1. LoopAt(p, "updating") /\ UNCHANGED <<request, published, job, status, feed, scan, todo, history>>
  BY DEF CommitPut
<1>2. CASE /\ UpdatePut(p)
           /\ LoopTo(p, IF StateIsComplete(loop[p].evt.state) THEN "history" ELSE "accepted")
  <2>1. CASE Outcome(loop[p].evt)
    <3>1. LoopTo(p, "history")
      BY <1>2, <2>1 DEF Outcome, StateIsComplete
    <3> QED
      BY <1>1, <1>2, <2>1, <3>1, AppliedOrder
  <2>2. CASE ~Outcome(loop[p].evt)
    <3>1. LoopTo(p, "accepted")
      BY <1>2, <2>2 DEF Outcome, StateIsComplete
    <3> QED
      BY <1>1, <1>2, <2>2, <3>1, AppliedOrder
  <2> QED
    BY <2>1, <2>2
<1>3. CASE UpdatePut(p) /\ LoopTo(p, "retry") /\ "put_lost_ack" \in Faults
  BY <1>1, <1>3, AppliedOrder
<1>4. CASE UpdateFails(p) /\ LoopTo(p, "retry") /\ "put_error" \in Faults
  <2>1. Faults \cap Redelivering = {}
    BY <1>4 DEF Orderly
  <2> QED
    BY <1>1, <1>4, <2>1, CommitFailsOrder
<1> QED
  BY <1>2, <1>3, <1>4 DEF CommitPut, Fault

\* A loop that goes on within eventUpdate leaves the calls, and what has been
\* handed out, as they are.
LEMMA MovesOn ==
    ASSUME DispatchInv, NEW p \in Loops, LoopAt(p, "history") \/ LoopAt(p, "deleting"),
           NEW pc \in {"deleting", "following", "rejected"}, LoopTo(p, pc),
           UNCHANGED <<storeVars, request, published, job>>
    PROVE  CallsInv' /\ PublishInv' /\ DispatchedInOrder'
<1> USE DEF DispatchInv
<1>1. /\ loop'[p].pc = pc /\ loop'[p].evt = loop[p].evt
      /\ \A q \in Loops : q # p => loop'[q] = loop[q]
  BY LoopGoes
<1>2. UNCHANGED <<bucket, units, create, update>>
  BY DEF storeVars
<1>3. CallsInv'
  BY <1>1, <1>2, CallsKept DEF OrderInv, LoopAt
<1>4. PublishInv' /\ DispatchedInOrder'
  BY <1>1, <1>2, NothingHandedOut DEF LoopAt
<1> QED
  BY <1>3, <1>4

\* The outcome that is written is the first of its condition.
LEMMA RecordOrder ==
    ASSUME DispatchInv, NEW p \in Loops, LoopAt(p, "history"), LoopTo(p, "deleting"),
           WriteEventHistory(ItemOf(p), loop[p].evt.state),
           UNCHANGED <<storeVars, request, published, job, status, feed, scan, todo>>
    PROVE  OrderInv'
<1> USE DEF DispatchInv
<1>1. Busy(p) /\ After(p) /\ ~Before(p)
  BY DEF LoopAt, Busy, Before, After
<1>2. PICK evt \in Events : loop[p].evt = evt
  BY <1>1, BusyEvent
<1> DEFINE i == evt.item
<1>3. /\ i \in Items /\ ItemOf(p) = i
      /\ job[i] \in {"dead", "finished"}
      /\ i \notin Current
      /\ Outcome(evt)
  BY <1>1, <1>2, OwnEvent DEF OrderInv
<1>4. history' = [history EXCEPT ![i] = @ \cup {evt.state}]
  BY <1>2, <1>3 DEF WriteEventHistory
<1>5. /\ loop'[p].pc = "deleting" /\ loop'[p].evt = evt
      /\ \A q \in Loops : q # p => loop'[q] = loop[q]
  BY <1>2, LoopGoes
<1>6. UNCHANGED <<bucket, units, create, update>>
  BY DEF storeVars
<1>7. Current' = Current /\ Abandoned' = Abandoned /\ Contested' = Contested
  BY <1>6, SameSets
<1>8. CallsInv' /\ PublishInv' /\ DispatchedInOrder'
  BY MovesOn
<1>9. history[i] = {}
      /\ (bucket[i.server].id = i.id => StateIn(i.server, i) = {evt.state})
  BY <1>2, <1>3 DEF OrderInv, EventsInv, HistoryInv
<1>10. history'[i] = {evt.state} /\ \A j \in Items : j # i => history'[j] = history[j]
  BY <1>3, <1>4, <1>9 DEF FlowInv, LoopInv
<1>11. \A q \in Loops : /\ After(q)' <=> After(q)
                        /\ Before(q)' <=> Before(q)
                        /\ Busy(q)' <=> Busy(q)
                        /\ LoopAt(q, "retry")' <=> LoopAt(q, "retry")
                        /\ ItemOf(q)' = ItemOf(q)
                        /\ loop'[q].evt = loop[q].evt
  BY <1>1, <1>2, <1>5 DEF After, Before, Busy, ItemOf, LoopAt
\* The other loop records another condition.
<1>12. \A q \in Loops : q # p /\ After(q) => ItemOf(q) \in Items /\ ItemOf(q) # i
  <2> SUFFICES ASSUME NEW q \in Loops, q # p, After(q)
               PROVE  ItemOf(q) \in Items /\ ItemOf(q) # i
    OBVIOUS
  <2>1. Busy(q)
    BY DEF After, Busy
  <2>2. ItemOf(q) \in Items
    BY <2>1, BusyEvent
  <2>3. After(Publisher) /\ After(Reconciler)
    BY <1>1, TheLoops
  <2>4. ItemOf(Publisher) # ItemOf(Reconciler)
    BY <2>3 DEF OrderInv, EventsInv, AfterInv
  <2> QED
    BY <1>3, <2>2, <2>4, TheLoops
<1>13. \A e : /\ ForPublisher(e)' <=> ForPublisher(e)
              /\ ForReconciler(e)' <=> ForReconciler(e)
  BY <1>7 DEF ForPublisher, ForReconciler, Outcome
<1>14. JobInv'
  BY <1>3, <1>7, <1>10 DEF OrderInv, EventsInv, JobInv, Outcome
<1>15. FeedInv' /\ TodoInv'
  BY <1>13 DEF OrderInv, EventsInv, FeedInv, TodoInv, Outcome
<1>16. PublisherInv' /\ ReconcilerInv'
  BY <1>7, <1>11, TheLoops DEF OrderInv, EventsInv, PublisherInv, ReconcilerInv, ForPublisher, ForReconciler, Outcome
<1>17. AfterInv'
  BY <1>7, <1>11, TheLoops DEF OrderInv, EventsInv, AfterInv, Outcome
<1>18. HistoryInv'
  <2>1. HistoryAgrees'
    <3> SUFFICES ASSUME NEW j \in Items
                 PROVE  /\ Cardinality(history'[j]) <= 1
                        /\ history'[j] # {} /\ bucket[j.server].id = j.id
                              => history'[j] = StateIn(j.server, j)
      BY <1>6 DEF HistoryAgrees, StateIn
    <3>1. CASE j = i
      <4>1. Cardinality({evt.state}) = 1
        BY FS_Singleton
      <4>2. Cardinality(history'[j]) = 1
        BY <1>10, <3>1, <4>1
      <4>3. Cardinality(history'[j]) <= 1
        BY <4>2
      <4> QED
        BY <1>9, <1>10, <3>1, <4>3
    <3>2. CASE j # i
      BY <1>10, <3>2 DEF OrderInv, EventsInv, HistoryInv, HistoryAgrees
    <3> QED
      BY <3>1, <3>2
  <2>2. \A j \in Current : history'[j] = {}
    BY <1>3, <1>10 DEF OrderInv, EventsInv, HistoryInv, Current
  <2>3. ASSUME NEW q \in Loops, LoopAt(q, "history")'
        PROVE  /\ history'[ItemOf(q)'] = {}
               /\ bucket'[ItemOf(q)'.server].id = ItemOf(q)'.id
                     => StateIn(ItemOf(q).server, ItemOf(q))' = {loop'[q].evt.state}
    <3>1. q # p
      BY <1>5, <2>3 DEF LoopAt
    <3>2. loop'[q] = loop[q] /\ LoopAt(q, "history") /\ After(q)
      BY <1>5, <2>3, <3>1 DEF LoopAt, After
    <3>3. PICK j \in Items : ItemOf(q) = j /\ j # i
      BY <1>12, <3>1, <3>2
    <3>4. loop'[q].evt.item = j
      BY <3>2, <3>3 DEF ItemOf
    <3>5. StateIn(ItemOf(q).server, ItemOf(q))' = StateIn(j.server, j)
      BY <1>6, <3>4 DEF ItemOf, StateIn
    <3>6. /\ history[j] = {}
          /\ bucket[j.server].id = j.id => StateIn(j.server, j) = {loop[q].evt.state}
      BY <3>2, <3>3 DEF OrderInv, EventsInv, HistoryInv
    <3>7. ItemOf(q)' = j
      BY <3>4 DEF ItemOf
    <3> QED
      BY <1>6, <1>10, <3>2, <3>3, <3>5, <3>6, <3>7
  <2>4. ASSUME NEW q \in Loops, LoopAt(q, "deleting")' PROVE history'[ItemOf(q)'] # {}
    <3>1. CASE q = p
      BY <1>3, <1>10, <1>11, <3>1
    <3>2. CASE q # p
      <4>1. LoopAt(q, "deleting") /\ After(q)
        BY <1>5, <2>4, <3>2 DEF LoopAt, After
      <4>2. history[ItemOf(q)] # {}
        BY <4>1 DEF OrderInv, EventsInv, HistoryInv
      <4> QED
        BY <1>10, <1>11, <1>12, <3>2, <4>1, <4>2
    <3> QED
      BY <3>1, <3>2
  <2> QED
    BY <1>7, <2>1, <2>2, <2>3, <2>4 DEF HistoryInv
<1>19. RedeliveryInv'
  <2>1. \A j \in Items : OnItsWay(j)' <=> OnItsWay(j)
    BY <1>11, TheLoops DEF OnItsWay, Outcome
  <2> QED
    BY <1>7, <2>1 DEF OrderInv, EventsInv, RedeliveryInv
<1>20. RecordedInv'
  <2> SUFFICES ASSUME Faults \cap Unrecording = {}
               PROVE  /\ \A j \in Items :
                            status[j] # NoStatus /\ j \notin Current /\ history'[j] = {}
                               => \E q \in Loops : LoopAt(q, "history")' /\ ItemOf(q)' = j
                      /\ LoopAt(Publisher, "history")' =>
                            /\ ItemOf(Publisher)' \notin Abandoned
                            /\ \A e \in todo : e.item # ItemOf(Publisher)'
                            /\ Busy(Reconciler)' => ItemOf(Reconciler)' # ItemOf(Publisher)'
    BY <1>7 DEF RecordedInv
  <2>1. ASSUME NEW j \in Items, status[j] # NoStatus, j \notin Current, history'[j] = {}
        PROVE  \E q \in Loops : LoopAt(q, "history")' /\ ItemOf(q)' = j
    <3>1. j # i /\ history[j] = {}
      BY <1>10, <2>1
    <3>2. PICK q \in Loops : LoopAt(q, "history") /\ ItemOf(q) = j
      BY <2>1, <3>1 DEF OrderInv, EventsInv, RecordedInv
    <3>3. loop'[q] = loop[q]
      BY <1>3, <1>5, <3>1, <3>2
    <3> QED
      BY <3>2, <3>3 DEF LoopAt, ItemOf
  <2>2. LoopAt(Publisher, "history")' => LoopAt(Publisher, "history")
    BY <1>5, TheLoops DEF LoopAt
  <2> QED
    BY <1>11, <2>1, <2>2, TheLoops DEF OrderInv, EventsInv, RecordedInv
<1> QED
  BY <1>8, <1>14, <1>15, <1>16, <1>17, <1>18, <1>19, <1>20 DEF OrderInv, EventsInv

LEMMA WriteHistoryOrder ==
    ASSUME DispatchInv, NEW p \in Loops, WriteHistory(p)
    PROVE  OrderInv'
<1> USE DEF DispatchInv
<1>1. LoopAt(p, "history") /\ Busy(p) /\ After(p) /\ ~Before(p)
      /\ UNCHANGED <<storeVars, request, published, job, status, feed, scan, todo>>
  BY DEF WriteHistory, LoopAt, Busy, Before, After
<1>2. CASE WriteEventHistory(ItemOf(p), loop[p].evt.state) /\ LoopTo(p, "deleting")
  BY <1>1, <1>2, RecordOrder
<1>3. CASE "history_error" \in Faults /\ LoopTo(p, "rejected") /\ UNCHANGED history
  <2>1. /\ loop'[p].pc = "rejected" /\ loop'[p].evt = loop[p].evt
        /\ \A q \in Loops : q # p => loop'[q] = loop[q]
    BY <1>3, LoopGoes
  <2>2. CallsInv' /\ PublishInv' /\ DispatchedInOrder'
    BY <1>1, <1>3, MovesOn
  <2>3. ItemOf(p) \notin Current /\ Faults \cap Unrecording # {}
    BY <1>1, <1>3 DEF OrderInv, EventsInv, AfterInv, Unrecording
  <2>4. UNCHANGED bucket
    BY <1>1 DEF storeVars
  <2>5. EventsInv'
    BY <1>1, <1>3, <2>1, <2>3, <2>4, LoopMoves DEF OrderInv, LoopStates
  <2> QED
    BY <2>2, <2>5 DEF OrderInv
<1> QED
  BY <1>2, <1>3 DEF WriteHistory, Fault

\* A status entry that is deleted is of a condition that is through.
LEMMA DeleteStatusOrder ==
    ASSUME DispatchInv, NEW p \in Loops, DeleteStatus(p)
    PROVE  OrderInv'
<1> USE DEF DispatchInv
<1>1. LoopAt(p, "deleting") /\ Busy(p) /\ After(p) /\ ~Before(p) /\ ~LoopAt(p, "history")
      /\ UNCHANGED <<storeVars, request, published, job, feed, scan, todo, history>>
  BY DEF DeleteStatus, LoopAt, Busy, Before, After
<1>2. PICK pc \in {"following", "rejected"} :
         /\ LoopTo(p, pc)
         /\ DeleteCondition(ItemOf(p)) \/ UNCHANGED status
  BY DEF DeleteStatus
<1>3. /\ loop'[p].pc = pc /\ loop'[p].evt = loop[p].evt
      /\ \A q \in Loops : q # p => loop'[q] = loop[q]
  BY <1>2, LoopGoes
<1>4. ItemOf(p) \in Items /\ ItemOf(p) \notin Current /\ job[ItemOf(p)] \in {"dead", "finished"}
  BY <1>1, BusyEvent DEF OrderInv, EventsInv, AfterInv
<1>5. \A i \in Items : \/ status'[i] = status[i]
                       \/ status'[i] = NoStatus /\ i \notin Current /\ job[i] \in {"dead", "finished"}
  BY <1>2, <1>4 DEF DeleteCondition, FlowInv, StatusInv
<1>6. UNCHANGED bucket
  BY <1>1 DEF storeVars
<1>7. EventsInv'
  BY <1>1, <1>3, <1>4, <1>5, <1>6, LoopMoves DEF OrderInv, LoopStates
<1>8. CallsInv' /\ PublishInv' /\ DispatchedInOrder'
  BY <1>1, <1>2, MovesOn
<1> QED
  BY <1>7, <1>8 DEF OrderInv

\* What follows an outcome is the active condition.
LEMMA QueueFollowingOrder ==
    ASSUME DispatchInv, NEW p \in Loops, QueueFollowing(p)
    PROVE  OrderInv'
<1> USE DEF DispatchInv
<1>1. LoopAt(p, "following") /\ Busy(p) /\ ~After(p) /\ ~Before(p) /\ ~LoopAt(p, "history")
      /\ UNCHANGED <<storeVars, request, published, job, status, feed, scan, todo, history>>
  BY DEF QueueFollowing, LoopAt, Busy, Before, After
<1>2. UNCHANGED <<bucket, units, create, update>>
  BY <1>1 DEF storeVars
<1>3. PICK pc \in {"publishing", "accepted", "rejected"} :
         /\ loop'[p].pc = pc /\ loop'[p].evt = loop[p].evt
         /\ \A q \in Loops : q # p => loop'[q] = loop[q]
         /\ pc = "publishing" => loop'[p].next \in Current
  <2>1. ASSUME NEW i \in Items, FollowOn(p, i),
               loop' = [loop EXCEPT ![p].pc = "publishing", ![p].next = i]
        PROVE  /\ loop'[p].pc = "publishing" /\ loop'[p].evt = loop[p].evt
               /\ \A q \in Loops : q # p => loop'[q] = loop[q]
               /\ loop'[p].next \in Current
    <3>1. loop'[p].next = i /\ loop'[p].pc = "publishing" /\ loop'[p].evt = loop[p].evt
          /\ \A q \in Loops : q # p => loop'[q] = loop[q]
      BY <2>1 DEF FlowInv, LoopInv
    <3>2. i \in ActiveItems(ItemOf(p).server)
      BY <2>1 DEF FollowOn
    <3>3. i.server = ItemOf(p).server
      BY <3>2 DEF ActiveItems, Item
    <3> QED
      BY <3>1, <3>2, <3>3 DEF Current
  <2>2. ASSUME NEW pc \in {"accepted", "rejected"}, LoopTo(p, pc)
        PROVE  /\ loop'[p].pc = pc /\ loop'[p].evt = loop[p].evt
               /\ \A q \in Loops : q # p => loop'[q] = loop[q]
    BY <2>2, LoopGoes
  <2> QED
    BY <2>1, <2>2 DEF QueueFollowing
<1>4. EventsInv'
  <2>1. p = Reconciler => ItemOf(p) \notin Current
    BY <1>1 DEF OrderInv, EventsInv, ReconcilerInv, LoopAt, Busy, Before
  <2> QED
    BY <1>1, <1>2, <1>3, <2>1, LoopMoves DEF OrderInv, LoopStates
<1>5. CallsInv'
  BY <1>1, <1>2, <1>3, CallsKept DEF OrderInv, LoopAt
<1>6. Reached' = Reached /\ Handed' = Handed
  BY <1>1, <1>2, SameSets
<1>7. \A q \in Loops : LoopAt(q, "publishing")' => loop'[q].next \in Reached
  BY <1>3 DEF OrderInv, PublishInv, LoopAt, Reached, Current
<1>8. PublishInv'
  BY <1>1, <1>2, <1>6, <1>7 DEF OrderInv, PublishInv, RequestAt
<1>9. DispatchedInOrder'
  BY <1>1, <1>2 DEF OrderInv, DispatchedInOrder
<1> QED
  BY <1>4, <1>5, <1>8, <1>9 DEF OrderInv

LEMMA PublishFollowingOrder ==
    ASSUME DispatchInv, NEW p \in Loops, PublishFollowing(p)
    PROVE  OrderInv'
<1> USE DEF DispatchInv
<1>1. LoopAt(p, "publishing") /\ Busy(p) /\ ~After(p) /\ ~Before(p) /\ ~LoopAt(p, "history")
      /\ UNCHANGED <<storeVars, request, job, status, feed, scan, todo, history>>
  BY DEF PublishFollowing, LoopAt, Busy, Before, After
<1>2. UNCHANGED <<bucket, units, create, update>>
  BY <1>1 DEF storeVars
<1>3. PICK pc \in {"accepted", "rejected"} : LoopTo(p, pc)
  BY DEF PublishFollowing
<1>4. /\ loop'[p].pc = pc /\ loop'[p].evt = loop[p].evt
      /\ \A q \in Loops : q # p => loop'[q] = loop[q]
  BY <1>3, LoopGoes
<1>5. EventsInv'
  <2>1. p = Reconciler => ItemOf(p) \notin Current
    BY <1>1 DEF OrderInv, EventsInv, ReconcilerInv, LoopAt, Busy, Before
  <2> QED
    BY <1>1, <1>2, <1>4, <2>1, LoopMoves DEF OrderInv, LoopStates
<1>6. CallsInv'
  BY <1>1, <1>2, <1>4, CallsKept DEF OrderInv, LoopAt
<1>7. PICK i \in Reached : loop[p].next = i
  BY <1>1 DEF OrderInv, PublishInv
<1>8. \A j \in Items : j # i => published'[j] = published[j]
  BY <1>7 DEF PublishFollowing, Publish, FlowInv, StatusInv
<1>9. /\ DispatchedInOrder'
      /\ \A j \in Reached : j \in Reached'
      /\ \A j \in Items : published'[j] > 0 => j \in Reached'
      /\ \A j \in Handed' : units'[j.id] # NoWork /\ \A c \in Creators : create'[c].rec.id # j.id
  BY <1>1, <1>2, <1>8, HandOut DEF OrderInv
<1>10. PublishInv'
  BY <1>1, <1>4, <1>9 DEF OrderInv, PublishInv, RequestAt, LoopAt
<1> QED
  BY <1>5, <1>6, <1>9, <1>10 DEF OrderInv

LEMMA EventStepOrder ==
    ASSUME Orderly, DispatchInv, NEW p \in Loops, EventStep(p)
    PROVE  OrderInv'
  BY MergeEventOrder, CommitGetOrder, CommitPutOrder, WriteHistoryOrder, DeleteStatusOrder,
     QueueFollowingOrder, PublishFollowingOrder DEF EventStep

-----------------------------------------------------------------------------
(* API requests                                                            *)

\* A step of a request that leaves the bucket alone.
LEMMA RequestKeeps ==
    ASSUME FlowInv, EventsInv, UNCHANGED <<bucket, job, status, feed, loop, todo, history>>
    PROVE  EventsInv'
<1>1. \A p \in Loops : Busy(p)' <=> Busy(p)
  BY DEF Busy
<1>2. \A p \in Loops : (Before(p)' <=> Before(p)) /\ (After(p)' <=> After(p))
  BY DEF Before, After
<1>3. Busy(Reconciler)' /\ ~Before(Reconciler)' /\ loop'[Reconciler].pc # "retry"
         => loop'[Reconciler].evt.item \notin Current
  BY <1>1, <1>2, TheLoops DEF EventsInv, ReconcilerInv, LoopAt, ItemOf
<1> QED
  BY <1>1, <1>2, <1>3, TheLoops, EventsKept

LEMMA SubmitOrder ==
    ASSUME DispatchInv, NEW c \in Creators, NEW s \in Servers, NEW work \in Works, Submit(c, s, work)
    PROVE  OrderInv'
<1> USE DEF DispatchInv
<1>1. PICK id \in IDs :
         /\ units[id] = NoWork
         /\ units' = [units EXCEPT ![id] = work]
         /\ create' = [create EXCEPT ![c] = [server |-> s, rec |-> NewRecord(id, work)]]
  BY DEF Submit, CreateGet
<1>2. /\ create[c] = NoCreate /\ request[c].pc = "idle"
      /\ UNCHANGED <<bucket, update, published, job, status, feed, loop, scan, todo, history>>
  BY DEF Submit, CreateGet, RequestAt
<1>3. /\ create'[c] = [server |-> s, rec |-> NewRecord(id, work)]
      /\ create'[c].server = s /\ create'[c].rec.id = id
      /\ \A d \in Creators : d # c => create'[d] = create[d]
  BY <1>1 DEF FlowInv, StoreTypeOK, NewRecord
<1>4. /\ request'[c] = [pc |-> "creating", item |-> Item(s, id, work[1])]
      /\ \A d \in Creators : d # c => request'[d] = request[d]
  BY <1>3 DEF Submit, FlowInv, RequestInv
<1>5. create'[c] # NoCreate
  BY <1>3, IDsAssumption DEF NoCreate
<1>6. EventsInv'
  BY <1>2, RequestKeeps DEF OrderInv
<1>7. Current' = Current /\ Reached' = Reached /\ Handed' = Handed
  BY <1>2, SameSets
<1>8. CallsInv'
  BY <1>2, <1>3, <1>4, <1>5, <1>7 DEF OrderInv, CallsInv, Item, ItemOf
<1>9. \A i \in Handed : i.id # id /\ i.id \in IDs
  BY <1>1 DEF OrderInv, PublishInv, Handed, Items
<1>10. \A i \in Handed : units'[i.id] # NoWork /\ \A d \in Creators : create'[d].rec.id # i.id
  BY <1>1, <1>3, <1>9 DEF OrderInv, PublishInv, FlowInv, StoreTypeOK
<1>11. PublishInv'
  BY <1>2, <1>4, <1>7, <1>10 DEF OrderInv, PublishInv, RequestAt, LoopAt
<1>12. DispatchedInOrder'
  BY <1>2 DEF OrderInv, DispatchedInOrder
<1> QED
  BY <1>6, <1>8, <1>11, <1>12 DEF OrderInv

\* A call of Create that is over, with its request gone on to another point.
LEMMA CreateEnds ==
    ASSUME FlowInv, CallsInv, NEW c \in Creators, create' = [create EXCEPT ![c] = NoCreate],
           request'[c].pc \notin {"creating", "marking"},
           \A d \in Creators : d # c => request'[d] = request[d],
           UNCHANGED <<update, loop>>, \A i \in Current : i \in Current'
    PROVE  /\ CallsInv'
           /\ \A d \in Creators : \A id \in IDs : create'[d].rec.id = id => create[d].rec.id = id
<1>1. create'[c] = NoCreate /\ \A d \in Creators : d # c => create'[d] = create[d]
  BY DEF FlowInv, StoreTypeOK
<1>2. CallsInv'
  BY <1>1 DEF CallsInv, ItemOf
<1> QED
  BY <1>1, <1>2, IDsAssumption DEF NoCreate

LEMMA StoreFailsOrder ==
    ASSUME DispatchInv, NEW c \in Creators, StoreFails(c)
    PROVE  OrderInv'
<1> USE DEF DispatchInv
<1>1. /\ create' = [create EXCEPT ![c] = NoCreate]
      /\ UNCHANGED <<bucket, units, update, published, job, status, feed, loop, scan, todo, history>>
  BY DEF StoreFails, CreateFails
<1>2. request'[c].pc = "idle" /\ \A d \in Creators : d # c => request'[d] = request[d]
  BY DEF StoreFails, RequestEnds, IdleRequest, FlowInv, RequestInv
<1>3. EventsInv'
  BY <1>1, RequestKeeps DEF OrderInv
<1>4. Current' = Current /\ Reached' = Reached /\ Handed' = Handed
  BY <1>1, SameSets
<1>5. /\ CallsInv'
      /\ \A d \in Creators : \A id \in IDs : create'[d].rec.id = id => create[d].rec.id = id
  BY <1>1, <1>2, <1>4, CreateEnds DEF OrderInv
<1>6. \A i \in Handed : i.id \in IDs
  BY DEF Handed, Items
<1>7. PublishInv'
  BY <1>1, <1>2, <1>4, <1>5, <1>6 DEF OrderInv, PublishInv, RequestAt, LoopAt
<1>8. DispatchedInOrder'
  BY <1>1 DEF OrderInv, DispatchedInOrder
<1> QED
  BY <1>3, <1>5, <1>7, <1>8 DEF OrderInv

\* A unit that has been stored has nothing handed out, and its first condition
\* is active.
LEMMA StoredOrder ==
    ASSUME DispatchInv, NEW c \in Creators, Stored(c)
    PROVE  OrderInv'
<1> USE DEF DispatchInv
<1>1. /\ create[c] # NoCreate /\ CreatePut(c) /\ create' = [create EXCEPT ![c] = NoCreate]
      /\ UNCHANGED <<units, update, published, job, status, feed, loop, scan, todo, history>>
  BY DEF Stored, CreatePut
<1>2. PICK r \in {"publishing", "idle"} :
         /\ request'[c].pc = r /\ (r = "publishing" => request'[c].item = request[c].item)
         /\ \A d \in Creators : d # c => request'[d] = request[d]
  <2>1. RequestTo(c, "publishing") \/ RequestEnds(c)
    BY DEF Stored
  <2>2. CASE RequestEnds(c)
    BY <2>2 DEF RequestEnds, IdleRequest, FlowInv, RequestInv
  <2>3. CASE RequestTo(c, "publishing")
    <3>1. /\ request'[c].pc = "publishing" /\ request'[c].item = request[c].item
          /\ \A d \in Creators : d # c => request'[d] = request[d]
      BY <2>3 DEF RequestTo, FlowInv, RequestInv
    <3> QED
      BY <3>1
  <2> QED
    BY <2>1, <2>2, <2>3
<1>3. /\ \A i \in Current : i \in Current'
      /\ \A i \in Current' : i \in Current \/ i \notin Handed
      /\ \A i \in Handed : bucket'[i.server] = bucket[i.server] \/ bucket'[i.server].id # i.id
      /\ \A i \in Items : FirstOfUnit(i) /\ i.server = create[c].server /\ i.id = create[c].rec.id
                             => i \in Current'
  BY <1>1, CreateKeeps DEF OrderInv
<1>4. /\ CallsInv'
      /\ \A d \in Creators : \A id \in IDs : create'[d].rec.id = id => create[d].rec.id = id
  BY <1>1, <1>2, <1>3, CreateEnds DEF OrderInv
<1>5. request[c].item \in Current'
  <2>1. FirstOfUnit(request[c].item) /\ request[c].item \in Items
    BY DEF Stored, RequestAt, FlowInv, RequestInv, IdleRequest, FirstOfUnit
  <2> QED
    BY <1>1, <1>3, <2>1 DEF OrderInv, CallsInv
<1>6. Abandoned' = Abandoned /\ Handed' = Handed
  BY <1>1 DEF Abandoned, NeedsReconciliation, Handed
<1>7. /\ \A e : /\ ForPublisher(e) => ForPublisher(e)'
                /\ ForReconciler(e) => ForReconciler(e)'
      /\ \A j \in Current' : j \in Items /\ history[j] = {}
      /\ \A j \in Items : job[j] # "none" /\ j \in Current' => j \in Current
      /\ JobInv' /\ FeedInv' /\ TodoInv'
  BY <1>1, <1>3, PutKeepsEvents DEF OrderInv
<1>8. \A p \in Loops : Busy(p) => ItemOf(p) \in Items
  BY BusyEvent
<1>9. PublisherInv'
  <2> DEFINE e == loop[Publisher].evt
  <2>1. ForPublisher(e) => e.item \notin Contested' /\ job'[e.item] \in {"running", "finished"}
                           /\ (Outcome(e) => job'[e.item] = "finished")
    BY <1>7 DEF ForPublisher, Outcome
  <2> QED
    BY <1>1, <2>1 DEF OrderInv, EventsInv, PublisherInv, ForPublisher, Outcome, Before
<1>10. ReconcilerInv'
  <2>1. Busy(Reconciler) => job[ItemOf(Reconciler)] # "none"
    BY DEF OrderInv, EventsInv, ReconcilerInv, ForReconciler, ItemOf
  <2>2. Busy(Reconciler) /\ ItemOf(Reconciler) \in Current' => ItemOf(Reconciler) \in Current
    BY <1>7, <1>8, <2>1, TheLoops
  <2> QED
    BY <1>1, <1>6, <2>2 DEF OrderInv, EventsInv, ReconcilerInv, ForReconciler, Outcome, Before, Busy,
                            LoopAt, ItemOf
<1>11. \A p \in Loops : After(p) => ItemOf(p) \in Items /\ job[ItemOf(p)] # "none" /\ ItemOf(p) \notin Current'
  <2> SUFFICES ASSUME NEW p \in Loops, After(p)
               PROVE  ItemOf(p) \in Items /\ job[ItemOf(p)] # "none" /\ ItemOf(p) \notin Current'
    OBVIOUS
  <2>1. Busy(p)
    BY DEF After, Busy
  <2>2. ItemOf(p) \notin Current /\ job[ItemOf(p)] # "none"
    BY DEF OrderInv, EventsInv, AfterInv
  <2> QED
    BY <1>7, <1>8, <2>1, <2>2
<1>12. AfterInv'
  BY <1>1, <1>11 DEF OrderInv, EventsInv, AfterInv, After, Outcome, ItemOf
<1>13. HistoryInv'
  <2>1. HistoryAgrees'
    <3> SUFFICES ASSUME NEW j \in Items
                 PROVE  /\ Cardinality(history[j]) <= 1
                        /\ history[j] # {} /\ bucket'[j.server].id = j.id
                              => history[j] = StateIn(j.server, j)'
      BY <1>1 DEF HistoryAgrees
    <3>1. history[j] # {} => j \in Handed
      BY DEF OrderInv, EventsInv, JobInv, Handed
    <3>2. ASSUME history[j] # {}, bucket'[j.server].id = j.id
          PROVE  history[j] = StateIn(j.server, j)'
      <4>1. bucket'[j.server] = bucket[j.server]
        BY <1>3, <3>1, <3>2
      <4>2. StateIn(j.server, j)' = StateIn(j.server, j)
        BY <4>1 DEF StateIn
      <4> QED
        BY <3>2, <4>1, <4>2 DEF OrderInv, EventsInv, HistoryInv, HistoryAgrees
    <3> QED
      BY <3>2 DEF OrderInv, EventsInv, HistoryInv, HistoryAgrees
  <2>2. ASSUME NEW q \in Loops, LoopAt(q, "history"),
               bucket'[ItemOf(q).server].id = ItemOf(q).id
        PROVE  StateIn(ItemOf(q).server, ItemOf(q))' = {loop[q].evt.state}
    <3>1. After(q)
      BY <2>2 DEF After, LoopAt
    <3>2. PICK j \in Items : ItemOf(q) = j /\ job[j] # "none"
      BY <1>11, <3>1
    <3>3. j \in Handed
      BY <3>2 DEF Handed
    <3>4. bucket'[j.server] = bucket[j.server]
      BY <1>3, <2>2, <3>2, <3>3
    <3>5. StateIn(ItemOf(q).server, ItemOf(q))' = StateIn(j.server, j)
      BY <1>1, <3>2, <3>4 DEF StateIn, ItemOf
    <3> QED
      BY <2>2, <3>2, <3>4, <3>5 DEF OrderInv, EventsInv, HistoryInv
  <2>3. \A q \in Loops : LoopAt(q, "history")' <=> LoopAt(q, "history")
    BY <1>1 DEF LoopAt
  <2> QED
    BY <1>1, <1>7, <2>1, <2>2, <2>3 DEF OrderInv, EventsInv, HistoryInv, LoopAt, ItemOf
<1>14. RedeliveryInv'
  <2>1. \A j \in Items : OnItsWay(j)' <=> OnItsWay(j)
    BY <1>1 DEF OnItsWay, Outcome, Before, ItemOf
  <2> QED
    BY <1>1, <1>7, <2>1 DEF OrderInv, EventsInv, RedeliveryInv
<1>15. RecordedInv'
  BY <1>1, <1>3, <1>6 DEF OrderInv, EventsInv, RecordedInv, LoopAt, ItemOf, Busy
<1>16. PublishInv'
  <2>1. \A i \in Reached : i \in Reached'
    BY <1>1, <1>3 DEF Reached
  <2>2. request[c].item \in Reached'
    BY <1>5 DEF Reached, Current
  <2>3. \A d \in Creators : RequestAt(d, "publishing")' => request'[d].item \in Reached'
    BY <1>2, <2>1, <2>2 DEF OrderInv, PublishInv, RequestAt
  <2>4. \A i \in Handed : i.id \in IDs
    BY DEF Handed, Items
  <2> QED
    BY <1>1, <1>4, <1>6, <2>1, <2>3, <2>4 DEF OrderInv, PublishInv, LoopAt
<1>17. DispatchedInOrder'
  <2> SUFFICES ASSUME NEW s \in Servers,
                      NEW n \in DOMAIN bucket'[s].conds, NEW m \in DOMAIN bucket'[s].conds,
                      n < m,
                      \/ published[Item(s, bucket'[s].id, bucket'[s].conds[m].kind)] > 0
                      \/ job[Item(s, bucket'[s].id, bucket'[s].conds[m].kind)] # "none"
               PROVE  bucket'[s].conds[n].state = Succeeded
    BY <1>1 DEF DispatchedInOrder
  <2> DEFINE j == Item(s, bucket'[s].id, bucket'[s].conds[m].kind)
  <2>1. CASE bucket'[s] = bucket[s]
    BY <2>1 DEF OrderInv, DispatchedInOrder
  <2>2. CASE bucket'[s] # bucket[s]
    <3> DEFINE rec == create[c].rec
    <3>1. bucket'[s] = rec
      BY <1>1, <2>2, CreatePutEffect DEF FlowInv, StoreTypeOK
    <3>2. rec \in RecordOf(IDs)
      BY <1>1 DEF FlowInv, StoreTypeOK
    <3>3. rec.conds[m] \in Condition /\ rec.id \in IDs
      BY <3>1, <3>2, RecordDomain DEF RecordOf
    <3>4. j \in Items
      BY <3>1, <3>3 DEF Items, Item, Condition
    <3>5. j \in Handed /\ j.server = s /\ j.id = bucket'[s].id
      BY <3>4 DEF Handed, Item
    <3> QED
      BY <1>3, <2>2, <3>5
  <2> QED
    BY <2>1, <2>2
<1> QED
  BY <1>4, <1>7, <1>9, <1>10, <1>12, <1>13, <1>14, <1>15, <1>16, <1>17 DEF OrderInv, EventsInv

LEMMA PublishFirstOrder ==
    ASSUME Orderly, DispatchInv, NEW c \in Creators, PublishFirst(c)
    PROVE  OrderInv'
<1> USE DEF DispatchInv
<1>1. /\ RequestAt(c, "publishing") /\ Publish(request[c].item) /\ RequestEnds(c)
      /\ UNCHANGED <<storeVars, job, status, feed, loop, scan, todo, history>>
  BY DEF PublishFirst, Orderly, Fault
<1>2. UNCHANGED <<bucket, units, create, update>>
  BY <1>1 DEF storeVars
<1>3. request'[c].pc = "idle" /\ \A d \in Creators : d # c => request'[d] = request[d]
  BY <1>1 DEF RequestEnds, IdleRequest, FlowInv, RequestInv
<1>4. EventsInv'
  BY <1>1, <1>2, RequestKeeps DEF OrderInv
<1>5. CallsInv'
  <2>1. Current' = Current
    BY <1>2, SameBucket
  <2> QED
    BY <1>1, <1>2, <1>3, <2>1 DEF OrderInv, CallsInv, RequestAt, ItemOf
<1>6. PICK i \in Reached : request[c].item = i
  BY <1>1 DEF OrderInv, PublishInv
<1>7. \A j \in Items : j # i => published'[j] = published[j]
  BY <1>1, <1>6 DEF Publish, FlowInv, StatusInv
<1>8. /\ DispatchedInOrder'
      /\ \A j \in Reached : j \in Reached'
      /\ \A j \in Items : published'[j] > 0 => j \in Reached'
      /\ \A j \in Handed' : units'[j.id] # NoWork /\ \A d \in Creators : create'[d].rec.id # j.id
  BY <1>1, <1>2, <1>7, HandOut DEF OrderInv
<1>9. PublishInv'
  BY <1>1, <1>3, <1>8 DEF OrderInv, PublishInv, RequestAt, LoopAt
<1> QED
  BY <1>4, <1>5, <1>8, <1>9 DEF OrderInv

LEMMA RequestStepOrder ==
    ASSUME Orderly, DispatchInv, NEW c \in Creators, RequestStep(c)
    PROVE  OrderInv'
<1>1. ~MarkGet(c) /\ ~MarkPut(c)
  BY DEF DispatchInv, OrderInv, CallsInv, MarkGet, MarkPut, RequestAt
<1> QED
  BY <1>1, SubmitOrder, StoredOrder, StoreFailsOrder, PublishFirstOrder DEF RequestStep

LEMMA ApiCrashOrder ==
    ASSUME DispatchInv, ApiCrash
    PROVE  OrderInv'
<1> USE DEF DispatchInv
<1>1. /\ \A c \in Creators : request'[c] = IdleRequest /\ create'[c] = NoCreate
      /\ \A p \in Updaters : update'[p] = IF p \in Creators THEN NoUpdate ELSE update[p]
      /\ UNCHANGED <<bucket, units, published, job, status, feed, loop, scan, todo, history>>
  BY DEF ApiCrash, CallersDie
<1>2. EventsInv'
  BY <1>1, RequestKeeps DEF OrderInv
<1>3. Current' = Current /\ Reached' = Reached /\ Handed' = Handed
  BY <1>1, SameSets
<1>4. CallsInv'
  BY <1>1, <1>3, TheLoops, CallersAssumption DEF OrderInv, CallsInv, IdleRequest, ItemOf
<1>5. \A i \in Handed : i.id \in IDs
  BY DEF Handed, Items
<1>6. PublishInv'
  BY <1>1, <1>3, <1>5, IDsAssumption DEF OrderInv, PublishInv, RequestAt, LoopAt, IdleRequest, NoCreate
<1>7. DispatchedInOrder'
  BY <1>1 DEF OrderInv, DispatchedInOrder
<1> QED
  BY <1>2, <1>4, <1>6, <1>7 DEF OrderInv


-----------------------------------------------------------------------------
(* Controllers, time and watchers                                          *)

\* What a feed holds are events.
LEMMA FeedEvents ==
    ASSUME FlowInv, NEW k \in Kinds, NEW n \in DOMAIN feed[k]
    PROVE  feed[k][n] \in Events /\ feed[k][n].item \in Items /\ n \in Nat
<1>1. feed[k] \in Seq(Events)
  BY DEF FlowInv, StatusInv
<1>2. n \in 1 .. Len(feed[k]) /\ Len(feed[k]) \in Nat
  BY <1>1, LenProperties
<1>3. feed[k][n] \in Events
  BY <1>1, <1>2, ElementOfSeq
<1> QED
  BY <1>2, <1>3 DEF Events

\* A report is the last event of the feed of its kind.
LEMMA ReportIsLast ==
    ASSUME FlowInv, NEW i \in Items, NEW st \in States, NEW stale \in BOOLEAN, PutStatus(i, st, stale)
    PROVE  /\ status'[i] = [state |-> st, stale |-> stale]
           /\ \A j \in Items : j # i => status'[j] = status[j]
           /\ \A k \in Kinds : \A n \in DOMAIN feed'[k] :
                 \/ n \in DOMAIN feed[k] /\ feed'[k][n] = feed[k][n]
                 \/ k = i.kind /\ feed'[k][n] = Event(i, st) /\ \A m \in DOMAIN feed'[k] : m <= n
           /\ \A k \in Kinds : \A n \in DOMAIN feed[k] : n \in DOMAIN feed'[k] /\ feed'[k][n] = feed[k][n]
           /\ \E n \in DOMAIN feed'[i.kind] : feed'[i.kind][n] = Event(i, st)
<1>1. i.kind \in Kinds /\ Event(i, st) \in Events /\ Event(i, st).item = i
  BY DEF Items, Event, Events
<1>2. feed[i.kind] \in Seq(Events)
  BY <1>1 DEF FlowInv, StatusInv
<1> DEFINE q == feed[i.kind]
<1>3. feed'[i.kind] = Append(q, Event(i, st)) /\ \A k \in Kinds : k # i.kind => feed'[k] = feed[k]
  BY <1>1 DEF PutStatus, FlowInv, StatusInv
<1>4. /\ DOMAIN q = 1 .. Len(q) /\ Len(q) \in Nat
      /\ DOMAIN Append(q, Event(i, st)) = 1 .. Len(q) + 1
      /\ \A n \in 1 .. Len(q) : Append(q, Event(i, st))[n] = q[n]
      /\ Append(q, Event(i, st))[Len(q) + 1] = Event(i, st)
  BY <1>1, <1>2, AppendProperties, LenProperties
<1>5. ASSUME NEW k \in Kinds, NEW n \in DOMAIN feed'[k]
      PROVE  \/ n \in DOMAIN feed[k] /\ feed'[k][n] = feed[k][n]
             \/ k = i.kind /\ feed'[k][n] = Event(i, st) /\ \A m \in DOMAIN feed'[k] : m <= n
  <2>1. CASE k # i.kind
    BY <1>3, <1>5, <2>1
  <2>2. CASE k = i.kind /\ n = Len(q) + 1
    BY <1>3, <1>4, <2>2
  <2>3. CASE k = i.kind /\ n # Len(q) + 1
    <3>1. n \in 1 .. Len(q)
      BY <1>3, <1>4, <1>5, <2>3
    <3> QED
      BY <1>3, <1>4, <2>3, <3>1
  <2> QED
    BY <2>1, <2>2, <2>3
<1>6. ASSUME NEW k \in Kinds, NEW n \in DOMAIN feed[k]
      PROVE  n \in DOMAIN feed'[k] /\ feed'[k][n] = feed[k][n]
  <2>1. CASE k # i.kind
    BY <1>3, <1>6, <2>1
  <2>2. CASE k = i.kind
    <3>1. n \in 1 .. Len(q) /\ n \in 1 .. Len(q) + 1
      BY <1>4, <1>6, <2>2
    <3> QED
      BY <1>3, <1>4, <2>2, <3>1
  <2> QED
    BY <2>1, <2>2
<1>7. \E n \in DOMAIN feed'[i.kind] : feed'[i.kind][n] = Event(i, st)
  <2>1. Len(q) + 1 \in 1 .. Len(q) + 1
    BY <1>4
  <2> QED
    BY <1>3, <1>4, <2>1
<1> QED
  BY <1>5, <1>6, <1>7 DEF PutStatus, FlowInv, StatusInv

\* A controller reports on an active condition that it takes or executes.
LEMMA ReportOrder ==
    ASSUME DispatchInv, NEW i \in Current, NEW st \in States, NEW stale \in BOOLEAN,
           PutStatus(i, st, stale), job[i] \in {"none", "running"},
           NEW j \in {"running", "finished"}, job' = [job EXCEPT ![i] = j],
           st \in {Failed, Succeeded} <=> j = "finished",
           st \in {Failed, Succeeded} => ~stale,
           UNCHANGED <<storeVars, request, published, loop, scan, todo, history>>
    PROVE  OrderInv'
<1> USE DEF DispatchInv
<1>1. i \in Items /\ i.kind \in Kinds
  BY DEF Current, Items
<1>2. /\ status'[i] = [state |-> st, stale |-> stale]
      /\ \A x \in Items : x # i => status'[x] = status[x]
      /\ \A k \in Kinds : \A n \in DOMAIN feed'[k] :
            \/ n \in DOMAIN feed[k] /\ feed'[k][n] = feed[k][n]
            \/ k = i.kind /\ feed'[k][n] = Event(i, st) /\ \A m \in DOMAIN feed'[k] : m <= n
      /\ \A k \in Kinds : \A n \in DOMAIN feed[k] : n \in DOMAIN feed'[k] /\ feed'[k][n] = feed[k][n]
      /\ \E n \in DOMAIN feed'[i.kind] : feed'[i.kind][n] = Event(i, st)
  BY <1>1, ReportIsLast
<1>3. job'[i] = j /\ \A x \in Items : x # i => job'[x] = job[x]
  BY <1>1 DEF FlowInv, StatusInv
<1>4. UNCHANGED <<bucket, units, create, update, request, published, loop, scan, todo, history>>
  BY DEF storeVars
<1>5. Current' = Current
  BY <1>4, SameBucket
<1>6. status'[i] # NoStatus
  BY <1>2 DEF NoStatus, States, Pending, Active, Failed, Succeeded
<1>7. i \notin Abandoned /\ i \notin Abandoned'
  <2>1. i \notin Abandoned
    BY <1>1 DEF Abandoned, NeedsReconciliation, StateIsComplete, OrderInv, EventsInv, JobInv, Outcome
  <2>2. i \notin Abandoned'
    BY <1>2, <1>3 DEF Abandoned, NeedsReconciliation, StateIsComplete
  <2> QED
    BY <2>1, <2>2
<1>8. Abandoned' = Abandoned /\ Contested' = Contested
  <2>1. Abandoned' = Abandoned
    BY <1>2, <1>3, <1>7 DEF Abandoned, NeedsReconciliation
  <2> QED
    BY <1>5, <2>1 DEF Contested
<1>9. CallsInv'
  BY <1>4, CallsKept DEF OrderInv
<1>10. JobInv'
  <2>1. \A x \in Items : x # i =>
          /\ job'[x] # "silent"
          /\ job'[x] = "none" => status'[x] = NoStatus /\ history'[x] = {}
          /\ job'[x] = "running" => x \in Current /\ status'[x] # NoStatus
          /\ status'[x] # NoStatus => (Outcome(status'[x]) <=> job'[x] = "finished")
    BY <1>2, <1>3 DEF OrderInv, EventsInv, JobInv
  <2>2. Outcome(status'[i]) <=> job'[i] = "finished"
    BY <1>2, <1>3 DEF Outcome
  <2> QED
    BY <1>3, <1>5, <1>6, <2>1, <2>2 DEF JobInv, Outcome
\* No event of i is an outcome before this one.
<1>11. ASSUME NEW evt \in Events, ForPublisher(evt)
       PROVE  /\ ForPublisher(evt)'
              /\ Outcome(evt) => evt.item # i
  <2>1. evt.item \in Items
    BY DEF Events
  <2> QED
    BY <1>3, <1>8, <1>11, <2>1 DEF ForPublisher, Outcome
<1>12. ASSUME NEW evt \in Events, ForReconciler(evt)
       PROVE  ForReconciler(evt)'
  <2>1. evt.item \in Items /\ evt.item # i
    BY <1>12 DEF Events, ForReconciler
  <2>2. job'[evt.item] = job[evt.item]
    BY <1>3, <2>1
  <2> QED
    BY <1>5, <1>8, <1>12, <2>2 DEF ForReconciler, Outcome
<1>13. FeedInv'
  <2> SUFFICES ASSUME NEW k \in Kinds, NEW n \in DOMAIN feed'[k], NEW evt, evt = feed'[k][n]
               PROVE  /\ evt.item.kind = k
                      /\ ForPublisher(evt)'
                      /\ Outcome(evt) => \A m \in DOMAIN feed'[k] : feed'[k][m].item = evt.item => m <= n
    BY DEF FeedInv, ForPublisher, Outcome
  <2>1. CASE k = i.kind /\ evt = Event(i, st) /\ \A m \in DOMAIN feed'[k] : m <= n
    <3>1. evt.item = i /\ evt.state = st
      BY <2>1 DEF Event
    <3>2. ForPublisher(evt)'
      BY <1>3, <1>7, <3>1 DEF ForPublisher, Contested, Outcome
    <3> QED
      BY <2>1, <3>1, <3>2
  <2>2. CASE n \in DOMAIN feed[k] /\ evt = feed[k][n]
    <3>1. /\ evt \in Events /\ evt.item.kind = k /\ ForPublisher(evt)
          /\ Outcome(evt) => \A m \in DOMAIN feed[k] : feed[k][m].item = evt.item => m <= n
      BY <2>2, FeedEvents DEF OrderInv, EventsInv, FeedInv
    <3>2. ForPublisher(evt)' /\ (Outcome(evt) => evt.item # i)
      BY <1>11, <3>1
    <3>3. ASSUME Outcome(evt), NEW m \in DOMAIN feed'[k], feed'[k][m].item = evt.item
          PROVE  m <= n
      <4>1. Event(i, st).item = i
        BY DEF Event
      <4>2. m \in DOMAIN feed[k] /\ feed'[k][m] = feed[k][m]
        BY <1>2, <3>2, <3>3, <4>1
      <4> QED
        BY <3>1, <3>3, <4>2
    <3> QED
      BY <3>1, <3>2, <3>3
  <2> QED
    BY <1>2, <2>1, <2>2
<1>14. PublisherInv'
  <2> SUFFICES ASSUME Before(Publisher) PROVE ForPublisher(loop[Publisher].evt)'
    BY <1>4 DEF PublisherInv, Before
  <2>1. PICK evt \in Events : loop[Publisher].evt = evt
    BY TheLoops, BusyEvent DEF Before, Busy
  <2>2. ForPublisher(evt)'
    <3>1. ForPublisher(evt)
      BY <2>1 DEF OrderInv, EventsInv, PublisherInv
    <3> QED
      BY <1>11, <3>1
  <2> QED
    BY <1>4, <2>1, <2>2 DEF ForPublisher, Outcome
<1>15. ReconcilerInv'
  <2>1. ASSUME Busy(Reconciler) PROVE ForReconciler(loop[Reconciler].evt)'
    <3>1. PICK evt \in Events : loop[Reconciler].evt = evt
      BY <2>1, TheLoops, BusyEvent
    <3>2. ForReconciler(evt)'
      <4>1. ForReconciler(evt)
        BY <2>1, <3>1 DEF OrderInv, EventsInv, ReconcilerInv
      <4> QED
        BY <1>12, <4>1
    <3> QED
      BY <1>4, <3>1, <3>2 DEF ForReconciler, Outcome
  <2> QED
    BY <1>4, <1>5, <2>1 DEF OrderInv, EventsInv, ReconcilerInv, Before, Busy, LoopAt, ItemOf
<1>16. TodoInv'
  <2>1. \A evt \in todo : evt \in Events /\ ForReconciler(evt)
    BY DEF OrderInv, EventsInv, TodoInv, FlowInv, LoopInv
  <2> QED
    BY <1>4, <1>12, <2>1 DEF TodoInv
<1>17. AfterInv'
  <2>1. \A p \in Loops : After(p) => ItemOf(p) \in Items /\ ItemOf(p) # i
    BY BusyEvent DEF OrderInv, EventsInv, AfterInv, After, Busy
  <2>2. \A p \in Loops : After(p) => job'[ItemOf(p)] = job[ItemOf(p)]
    BY <1>3, <2>1
  <2> QED
    BY <1>4, <1>5, <2>2 DEF OrderInv, EventsInv, AfterInv, After, ItemOf, Outcome
<1>18. HistoryInv'
  BY <1>4, HistoryKept DEF OrderInv, EventsInv, After
<1>19. RedeliveryInv'
  <2> SUFFICES ASSUME Faults \cap Redelivering # {}, NEW x \in Items
               PROVE  /\ job'[x] # "dead"
                      /\ job'[x] = "finished" /\ x \in Current =>
                            status'[x] # NoStatus /\ ~status'[x].stale /\ OnItsWay(x)'
    BY <1>5 DEF RedeliveryInv
  <2>1. CASE x = i
    <3>1. ASSUME j = "finished" PROVE ~status'[i].stale /\ OnItsWay(i)'
      <4>1. Event(i, st).item = i /\ Event(i, st).state = st
        BY DEF Event
      <4>2. \E n \in DOMAIN feed'[i.kind] : feed'[i.kind][n].item = i /\ feed'[i.kind][n].state \in {Failed, Succeeded}
        BY <1>2, <3>1, <4>1
      <4>3. OnItsWay(i)'
        BY <4>2 DEF OnItsWay, Outcome
      <4> QED
        BY <1>2, <3>1, <4>3
    <3> QED
      BY <1>3, <1>6, <2>1, <3>1
  <2>2. CASE x # i
    <3>1. job'[x] = job[x] /\ status'[x] = status[x] /\ x.kind \in Kinds
      BY <1>2, <1>3, <2>2 DEF Items
    <3>2. OnItsWay(x) => OnItsWay(x)'
      <4>1. ASSUME NEW n \in DOMAIN feed[x.kind], feed[x.kind][n].item = x, Outcome(feed[x.kind][n])
            PROVE  OnItsWay(x)'
        <5>1. n \in DOMAIN feed'[x.kind] /\ feed'[x.kind][n] = feed[x.kind][n]
          BY <1>2, <3>1, <4>1
        <5> QED
          BY <4>1, <5>1 DEF OnItsWay, Outcome
      <4>2. ASSUME Before(Publisher), ItemOf(Publisher) = x, Outcome(loop[Publisher].evt)
            PROVE  OnItsWay(x)'
        BY <1>4, <4>2 DEF OnItsWay, Before, ItemOf, Outcome
      <4> QED
        BY <4>1, <4>2 DEF OnItsWay
    <3>3. /\ job[x] # "dead"
          /\ job[x] = "finished" /\ x \in Current => status[x] # NoStatus /\ ~status[x].stale /\ OnItsWay(x)
      BY DEF OrderInv, EventsInv, RedeliveryInv
    <3> QED
      BY <3>1, <3>2, <3>3
  <2> QED
    BY <2>1, <2>2
<1>20. RecordedInv'
  <2> SUFFICES ASSUME Faults \cap Unrecording = {} PROVE RecordedInv'
    BY DEF RecordedInv
  <2>1. ASSUME NEW x \in Items, status'[x] # NoStatus, x \notin Current, history[x] = {}
        PROVE  \E p \in Loops : LoopAt(p, "history") /\ ItemOf(p) = x
    <3>1. x # i /\ status[x] # NoStatus
      BY <1>2, <2>1
    <3> QED
      BY <2>1, <3>1 DEF OrderInv, EventsInv, RecordedInv
  <2>2. LoopAt(Publisher, "history") =>
              LET y == ItemOf(Publisher)
              IN /\ y \notin Abandoned
                 /\ \A evt \in todo : evt.item # y
                 /\ Busy(Reconciler) => ItemOf(Reconciler) # y
    BY DEF OrderInv, EventsInv, RecordedInv
  <2> QED
    BY <1>4, <1>5, <1>8, <2>1, <2>2 DEF RecordedInv, LoopAt, ItemOf, Busy
<1>21. i \in Reached
  BY <1>1 DEF Reached
<1>22. /\ DispatchedInOrder'
       /\ \A x \in Reached : x \in Reached'
       /\ \A x \in Items : published'[x] > 0 => x \in Reached'
       /\ \A x \in Handed' : units'[x.id] # NoWork /\ \A c \in Creators : create'[c].rec.id # x.id
  BY <1>3, <1>4, <1>21, HandOut DEF OrderInv
<1>23. PublishInv'
  BY <1>4, <1>22 DEF OrderInv, PublishInv, RequestAt, LoopAt
<1> QED
  BY <1>9, <1>10, <1>13, <1>14, <1>15, <1>16, <1>17, <1>18, <1>19, <1>20, <1>22, <1>23
     DEF OrderInv, EventsInv

LEMMA JobStepOrder ==
    ASSUME DispatchInv, NEW i \in Items, JobStep(i)
    PROVE  OrderInv'
<1> USE DEF DispatchInv
<1>1. CASE StartJob(i)
  <2>1. job[i] = "none" /\ job' = [job EXCEPT ![i] = "running"]
        /\ UNCHANGED <<storeVars, request, published, loop, scan, todo, history>>
    BY <1>1 DEF StartJob
  <2>2. i \in Current
    BY <1>1, <2>1 DEF StartJob, OrderInv, PublishInv, Reached, Current
  <2>3. PICK stale \in BOOLEAN : PutStatus(i, Active, stale)
    BY <1>1 DEF StartJob
  <2>4. Active \in States /\ Active \notin {Failed, Succeeded}
    BY DEF States, Active, Failed, Succeeded
  <2> QED
    BY <2>1, <2>2, <2>3, <2>4, ReportOrder
<1>2. ASSUME NEW st \in {Failed, Succeeded}, FinishJob(i, st)
      PROVE  OrderInv'
  <2>1. job[i] = "running" /\ i \in Current /\ status[i] # NoStatus
    BY <1>2 DEF FinishJob, OrderInv, EventsInv, JobInv
  <2>2. i \in ActiveItems(i.server)
    BY <2>1 DEF Current
  <2>3. PutStatus(i, st, FALSE) /\ job' = [job EXCEPT ![i] = "finished"]
        /\ UNCHANGED <<storeVars, request, published, loop, scan, todo, history>>
    BY <1>2, <2>1, <2>2 DEF FinishJob
  <2>4. st \in States
    BY DEF States
  <2> QED
    BY <2>1, <2>3, <2>4, ReportOrder
<1> QED
  BY <1>1, <1>2 DEF JobStep

\* A change of the surroundings that leaves the flow alone, while the publisher
\* has nothing to do, may only give the reconciler more to do; where events are
\* delivered again no controller is lost.
LEMMA QuietOrder ==
    ASSUME DispatchInv, Orderly, CaughtUp,
           UNCHANGED <<storeVars, request, published, feed, loop, scan, todo, history>>,
           Faults \cap Redelivering # {} => UNCHANGED job,
           \A j \in Items : /\ job'[j] = job[j] \/ (job[j] = "running" /\ job'[j] = "dead")
                            /\ status'[j].state = status[j].state
                            /\ status'[j] = NoStatus <=> status[j] = NoStatus
                            /\ status[j].stale => status'[j].stale
    PROVE  OrderInv'
<1> USE DEF DispatchInv
<1>1. loop[Publisher] = IdleLoop /\ \A k \in Kinds : feed[k] = << >>
  BY DEF CaughtUp, Orderly
<1>2. UNCHANGED <<bucket, units, create, update, request, published, feed, loop, scan, todo, history>>
  BY DEF storeVars
<1>3. Current' = Current
  BY <1>2, SameBucket
<1>4. Abandoned \subseteq Abandoned'
  BY DEF Abandoned, NeedsReconciliation
<1>5. ~Before(Publisher) /\ ~After(Publisher) /\ ~LoopAt(Publisher, "history")
  BY <1>1 DEF IdleLoop, Before, After, LoopAt
<1>6. CallsInv'
  BY <1>2, CallsKept DEF OrderInv
<1>7. JobInv'
  <2>1. ASSUME NEW j \in Items
        PROVE  /\ job'[j] # "silent"
               /\ job'[j] = "none" => status'[j] = NoStatus /\ history'[j] = {}
               /\ job'[j] = "running" => j \in Current /\ status'[j] # NoStatus
               /\ status'[j] # NoStatus => (Outcome(status'[j]) <=> job'[j] = "finished")
    <3>1. Outcome(status'[j]) <=> Outcome(status[j])
      BY DEF Outcome
    <3> QED
      BY <1>2, <3>1 DEF OrderInv, EventsInv, JobInv
  <2> QED
    BY <1>3, <2>1 DEF JobInv, Outcome
<1>8. FeedInv'
  <2>1. \A k \in Kinds : DOMAIN feed'[k] = {}
    BY <1>1, <1>2
  <2> QED
    BY <2>1 DEF FeedInv
<1>9. PublisherInv'
  BY <1>2, <1>5 DEF PublisherInv, Before
\* Events for the reconciler stay so.
<1>10. ASSUME NEW evt \in Events, ForReconciler(evt)
       PROVE  ForReconciler(evt)'
  <2>1. evt.item \in Items
    BY DEF Events
  <2>2. job'[evt.item] \in {"dead", "finished"}
    BY <1>10, <2>1 DEF ForReconciler
  <2> QED
    BY <1>3, <1>4, <1>10, <2>2 DEF ForReconciler, Outcome
<1>11. ReconcilerInv'
  <2>1. ASSUME Busy(Reconciler) PROVE ForReconciler(loop[Reconciler].evt)'
    <3>1. PICK evt \in Events : loop[Reconciler].evt = evt
      BY <2>1, TheLoops, BusyEvent
    <3>2. ForReconciler(evt)'
      <4>1. ForReconciler(evt)
        BY <2>1, <3>1 DEF OrderInv, EventsInv, ReconcilerInv
      <4> QED
        BY <1>10, <4>1
    <3> QED
      BY <1>2, <3>1, <3>2 DEF ForReconciler, Outcome
  <2> QED
    BY <1>2, <1>3, <2>1 DEF OrderInv, EventsInv, ReconcilerInv, Before, Busy, LoopAt, ItemOf
<1>12. TodoInv'
  <2>1. \A evt \in todo : evt \in Events /\ ForReconciler(evt)
    BY DEF OrderInv, EventsInv, TodoInv, FlowInv, LoopInv
  <2> QED
    BY <1>2, <1>10, <2>1 DEF TodoInv
<1>13. AfterInv'
  <2>1. \A p \in Loops : After(p) => ItemOf(p) \in Items /\ job'[ItemOf(p)] \in {"dead", "finished"}
    BY BusyEvent DEF OrderInv, EventsInv, AfterInv, After, Busy
  <2> QED
    BY <1>2, <1>3, <2>1 DEF OrderInv, EventsInv, AfterInv, After, ItemOf, Outcome
<1>14. HistoryInv'
  BY <1>2, HistoryKept DEF OrderInv, EventsInv, After
<1>15. RedeliveryInv'
  <2> SUFFICES ASSUME Faults \cap Redelivering # {}, NEW x \in Items
               PROVE  job[x] # "dead" /\ ~(job[x] = "finished" /\ x \in Current)
    BY <1>3 DEF RedeliveryInv
  <2>1. x.kind \in Kinds
    BY DEF Items
  <2>2. ~OnItsWay(x)
    BY <1>1, <1>5, <2>1 DEF OnItsWay
  <2> QED
    BY <2>2 DEF OrderInv, EventsInv, RedeliveryInv
<1>16. RecordedInv'
  <2> SUFFICES ASSUME Faults \cap Unrecording = {} PROVE RecordedInv'
    BY DEF RecordedInv
  <2>1. ASSUME NEW x \in Items, status'[x] # NoStatus, x \notin Current, history[x] = {}
        PROVE  \E p \in Loops : LoopAt(p, "history") /\ ItemOf(p) = x
    BY <2>1 DEF OrderInv, EventsInv, RecordedInv
  <2> QED
    BY <1>2, <1>3, <1>5, <2>1 DEF RecordedInv, LoopAt, ItemOf
<1>17. \A j \in Items : job'[j] # "none" <=> job[j] # "none"
  OBVIOUS
<1>18. Reached' = Reached /\ Handed' = Handed
  BY <1>2, <1>3, <1>17 DEF Reached, Handed
<1>19. PublishInv'
  BY <1>2, <1>18 DEF OrderInv, PublishInv, RequestAt, LoopAt
<1>20. DispatchedInOrder'
  <2> SUFFICES ASSUME NEW s \in Servers,
                      NEW n \in DOMAIN bucket[s].conds, NEW m \in DOMAIN bucket[s].conds,
                      n < m,
                      \/ published[Item(s, bucket[s].id, bucket[s].conds[m].kind)] > 0
                      \/ job'[Item(s, bucket[s].id, bucket[s].conds[m].kind)] # "none"
               PROVE  bucket[s].conds[n].state = Succeeded
    BY <1>2 DEF DispatchedInOrder
  <2>1. bucket[s] # NoRecord
    BY DEF NoRecord
  <2>2. Item(s, bucket[s].id, bucket[s].conds[m].kind) \in Items
    BY <2>1, KindsDiffer
  <2> QED
    BY <1>17, <2>2 DEF OrderInv, DispatchedInOrder
<1> QED
  BY <1>6, <1>7, <1>8, <1>9, <1>11, <1>12, <1>13, <1>14, <1>15, <1>16, <1>19, <1>20
     DEF OrderInv, EventsInv

LEMMA TimeOrder ==
    ASSUME Orderly, DispatchInv, NEW i \in Items, LoseController(i) \/ GrowStale(i)
    PROVE  OrderInv'
<1> USE DEF DispatchInv
<1>1. CASE LoseController(i)
  <2>1. /\ job[i] = "running" /\ CaughtUp /\ job' = [job EXCEPT ![i] = "dead"]
        /\ Faults \cap Redelivering = {}
        /\ UNCHANGED <<storeVars, request, published, status, feed, loop, scan, todo, history>>
    BY <1>1 DEF LoseController, Orderly, Fault
  <2>2. \A j \in Items : job'[j] = job[j] \/ (job[j] = "running" /\ job'[j] = "dead")
    BY <2>1 DEF FlowInv, StatusInv
  <2> QED
    BY <2>1, <2>2, QuietOrder
<1>2. CASE GrowStale(i)
  <2>1. /\ status[i] # NoStatus /\ CaughtUp /\ status' = [status EXCEPT ![i].stale = TRUE]
        /\ UNCHANGED <<storeVars, request, published, job, feed, loop, scan, todo, history>>
    BY <1>2 DEF GrowStale
  <2>2. status[i] \in [state : States, stale : BOOLEAN]
    BY <2>1 DEF FlowInv, StatusInv
  <2>3. /\ status'[i].state = status[i].state /\ status'[i].stale
        /\ \A j \in Items : j # i => status'[j] = status[j]
    BY <2>1, <2>2 DEF FlowInv, StatusInv
  <2>4. status'[i] # NoStatus
    BY <2>3 DEF NoStatus
  <2>5. \A j \in Items : /\ status'[j].state = status[j].state
                         /\ status'[j] = NoStatus <=> status[j] = NoStatus
                         /\ status[j].stale => status'[j].stale
    BY <2>1, <2>3, <2>4
  <2> QED
    BY <2>1, <2>5, QuietOrder
<1> QED
  BY <1>1, <1>2

\* What a watcher has to deliver changes, and no outcome is lost.
LEMMA FeedOnly ==
    ASSUME DispatchInv, UNCHANGED <<storeVars, request, published, job, status, loop, scan, todo, history>>,
           FeedInv',
           Faults \cap Redelivering # {} =>
              \A i \in Items : job[i] = "finished" /\ i \in Current => OnItsWay(i)'
    PROVE  OrderInv'
<1> USE DEF DispatchInv
<1>1. UNCHANGED <<bucket, units, create, update, request, published, job, status, loop, scan, todo, history>>
  BY DEF storeVars
<1>2. Current' = Current /\ Abandoned' = Abandoned /\ Contested' = Contested
  BY <1>1, SameSets
<1>3. CallsInv'
  BY <1>1, CallsKept DEF OrderInv
<1>4. JobInv' /\ TodoInv' /\ AfterInv'
  BY <1>1, <1>2 DEF OrderInv, EventsInv, JobInv, TodoInv, AfterInv, ForReconciler, Outcome, After, ItemOf
<1>5. PublisherInv' /\ ReconcilerInv'
  BY <1>1, <1>2 DEF OrderInv, EventsInv, PublisherInv, ReconcilerInv, ForPublisher, ForReconciler, Outcome,
                    Before, Busy, LoopAt, ItemOf
<1>6. HistoryInv'
  BY <1>1, HistoryKept DEF OrderInv, EventsInv, After
<1>7. RedeliveryInv'
  BY <1>1, <1>2 DEF OrderInv, EventsInv, RedeliveryInv
<1>8. RecordedInv'
  BY <1>1, <1>2 DEF OrderInv, EventsInv, RecordedInv, LoopAt, ItemOf, Busy
<1>9. PublishInv' /\ DispatchedInOrder'
  BY <1>1, NothingHandedOut DEF LoopAt
<1> QED
  BY <1>3, <1>4, <1>5, <1>6, <1>7, <1>8, <1>9 DEF OrderInv, EventsInv

\* What is left of a sequence keeps its order, and only the one element is left out.
LEMMA RemoveAtElements ==
    ASSUME NEW S, NEW q \in Seq(S), NEW n \in DOMAIN q
    PROVE  /\ \A x \in DOMAIN RemoveAt(q, n) :
                 /\ x \in Nat
                 /\ (IF x < n THEN x ELSE x + 1) \in DOMAIN q
                 /\ RemoveAt(q, n)[x] = q[IF x < n THEN x ELSE x + 1]
           /\ \A y \in DOMAIN q : y # n =>
                 \E x \in DOMAIN RemoveAt(q, n) : RemoveAt(q, n)[x] = q[y]
<1> DEFINE front == SubSeq(q, 1, n - 1)
           back  == SubSeq(q, n + 1, Len(q))
<1>1. Len(q) \in Nat /\ DOMAIN q = 1 .. Len(q) /\ n \in 1 .. Len(q) /\ \A x \in 1 .. Len(q) : q[x] \in S
  BY LenProperties, ElementOfSeq
<1>2. front \in Seq(S) /\ Len(front) = n - 1 /\ \A x \in 1 .. n - 1 : front[x] = q[x]
  BY <1>1, SubSeqProperties
<1>3. back \in Seq(S) /\ Len(back) = Len(q) - n /\ \A x \in 1 .. Len(q) - n : back[x] = q[x + n]
  BY <1>1, SubSeqProperties
<1>4. RemoveAt(q, n) = front \o back
  BY DEF RemoveAt
<1> HIDE DEF front, back
<1>5. /\ front \o back \in Seq(S)
      /\ Len(front \o back) = Len(front) + Len(back)
      /\ \A x \in 1 .. Len(front) + Len(back) :
            (front \o back)[x] = IF x <= Len(front) THEN front[x] ELSE back[x - Len(front)]
  BY <1>2, <1>3, ConcatProperties
<1>6. DOMAIN RemoveAt(q, n) = 1 .. Len(q) - 1
  <2>1. Len(front \o back) = Len(q) - 1
    BY <1>1, <1>2, <1>3, <1>5
  <2>2. DOMAIN (front \o back) = 1 .. Len(front \o back)
    BY <1>5, LenProperties
  <2> QED
    BY <1>4, <2>1, <2>2
<1>7. ASSUME NEW x \in 1 .. Len(q) - 1
      PROVE  /\ x \in Nat
             /\ (IF x < n THEN x ELSE x + 1) \in DOMAIN q
             /\ RemoveAt(q, n)[x] = q[IF x < n THEN x ELSE x + 1]
  <2>1. CASE x < n
    <3>1. (front \o back)[x] = front[x] /\ front[x] = q[x]
      BY <1>1, <1>2, <1>3, <1>5, <1>7, <2>1
    <3> QED
      BY <1>1, <1>4, <1>7, <2>1, <3>1
  <2>2. CASE ~(x < n)
    <3>1. (front \o back)[x] = back[x - (n - 1)]
      BY <1>1, <1>2, <1>3, <1>5, <1>7, <2>2
    <3>2. x - (n - 1) \in 1 .. Len(q) - n /\ (x - (n - 1)) + n = x + 1
      BY <1>1, <1>7, <2>2
    <3>3. back[x - (n - 1)] = q[x + 1]
      BY <1>3, <3>2
    <3> QED
      BY <1>1, <1>4, <1>7, <2>2, <3>1, <3>3
  <2> QED
    BY <2>1, <2>2
<1>8. ASSUME NEW y \in DOMAIN q, y # n
      PROVE  \E x \in DOMAIN RemoveAt(q, n) : RemoveAt(q, n)[x] = q[y]
  <2>1. CASE y < n
    <3>1. y \in 1 .. Len(q) - 1
      BY <1>1, <1>8, <2>1
    <3> QED
      BY <1>6, <1>7, <2>1, <3>1
  <2>2. CASE ~(y < n)
    <3>1. y - 1 \in 1 .. Len(q) - 1 /\ ~(y - 1 < n) /\ (y - 1) + 1 = y
      BY <1>1, <1>8, <2>2
    <3>2. RemoveAt(q, n)[y - 1] = q[y]
      BY <1>7, <3>1
    <3> QED
      BY <1>6, <3>1, <3>2
  <2> QED
    BY <2>1, <2>2
<1> QED
  BY <1>6, <1>7, <1>8

\* An entry that is overwritten is not the outcome of its condition.
LEMMA CoalesceOrder ==
    ASSUME DispatchInv, NEW k \in Kinds, Coalesce(k)
    PROVE  OrderInv'
<1> USE DEF DispatchInv
<1>1. PICK n \in DOMAIN feed[k], later \in DOMAIN feed[k] :
         /\ n < later
         /\ feed[k][n].item = feed[k][later].item
         /\ feed' = [feed EXCEPT ![k] = RemoveAt(@, n)]
  BY DEF Coalesce
<1>2. UNCHANGED <<storeVars, request, published, job, status, loop, scan, todo, history>>
  BY DEF Coalesce
<1>3. Current' = Current /\ Abandoned' = Abandoned /\ Contested' = Contested
  BY <1>2, SameSets DEF storeVars
<1>4. feed[k] \in Seq(Events) /\ feed'[k] = RemoveAt(feed[k], n)
      /\ \A l \in Kinds : l # k => feed'[l] = feed[l]
  BY <1>1 DEF FlowInv, StatusInv
<1> DEFINE at(x) == IF x < n THEN x ELSE x + 1
<1>5. n \in Nat /\ later \in Nat
  BY FeedEvents
<1>6. /\ \A x \in DOMAIN feed'[k] : x \in Nat /\ at(x) \in DOMAIN feed[k] /\ feed'[k][x] = feed[k][at(x)]
      /\ \A y \in DOMAIN feed[k] : y # n => \E x \in DOMAIN feed'[k] : feed'[k][x] = feed[k][y]
  BY <1>4, RemoveAtElements
<1>7. ~Outcome(feed[k][n])
  BY <1>1, <1>5 DEF OrderInv, EventsInv, FeedInv
<1>8. FeedInv'
  <2> SUFFICES ASSUME NEW l \in Kinds, NEW x \in DOMAIN feed'[l], NEW evt, evt = feed'[l][x]
               PROVE  /\ evt.item.kind = l
                      /\ ForPublisher(evt)
                      /\ Outcome(evt) => \A m \in DOMAIN feed'[l] : feed'[l][m].item = evt.item => m <= x
    BY <1>2, <1>3 DEF FeedInv, ForPublisher, Outcome
  <2>1. CASE l # k
    BY <1>4, <2>1 DEF OrderInv, EventsInv, FeedInv
  <2>2. CASE l = k
    <3>1. at(x) \in DOMAIN feed[k] /\ feed[k][at(x)] = evt /\ x \in Nat
      BY <1>6, <2>2
    <3>2. /\ evt.item.kind = k
          /\ ForPublisher(evt)
          /\ Outcome(evt) => \A m \in DOMAIN feed[k] : feed[k][m].item = evt.item => m <= at(x)
      BY <3>1 DEF OrderInv, EventsInv, FeedInv
    <3>3. ASSUME Outcome(evt), NEW m \in DOMAIN feed'[k], feed'[k][m].item = evt.item
          PROVE  m <= x
      <4>1. m \in Nat /\ at(m) \in DOMAIN feed[k] /\ feed[k][at(m)].item = evt.item
        BY <1>6, <3>3
      <4>2. at(m) <= at(x)
        BY <3>2, <3>3, <4>1
      <4> QED
        BY <1>5, <3>1, <4>1, <4>2
    <3> QED
      BY <2>2, <3>2, <3>3
  <2> QED
    BY <2>1, <2>2
<1>9. ASSUME Faults \cap Redelivering # {}, NEW i \in Items, job[i] = "finished", i \in Current
      PROVE  OnItsWay(i)'
  <2>1. OnItsWay(i) /\ i.kind \in Kinds
    BY <1>9 DEF OrderInv, EventsInv, RedeliveryInv, Items
  <2>2. ASSUME NEW y \in DOMAIN feed[i.kind], feed[i.kind][y].item = i, Outcome(feed[i.kind][y])
        PROVE  OnItsWay(i)'
    <3>1. \E x \in DOMAIN feed'[i.kind] : feed'[i.kind][x] = feed[i.kind][y]
      BY <1>4, <1>6, <1>7, <2>1, <2>2
    <3> QED
      BY <2>2, <3>1 DEF OnItsWay, Outcome
  <2>3. CASE Before(Publisher) /\ ItemOf(Publisher) = i /\ Outcome(loop[Publisher].evt)
    BY <1>2, <2>3 DEF OnItsWay, Before, ItemOf, Outcome
  <2> QED
    BY <2>1, <2>2, <2>3 DEF OnItsWay
<1> QED
  BY <1>2, <1>8, <1>9, FeedOnly

\* A finite set in a sequence: each of its elements once.
LEMMA SetToSeqElements ==
    ASSUME NEW S, IsFiniteSet(S)
    PROVE  LET q == SetToSeq(S)
           IN /\ \A n \in DOMAIN q : n \in Nat /\ q[n] \in S
              /\ \A n, m \in DOMAIN q : q[n] = q[m] => n = m
              /\ \A x \in S : \E n \in DOMAIN q : q[n] = x
<1> DEFINE C == Cardinality(S)
           q == SetToSeq(S)
<1>1. C \in Nat /\ ExistsBijection(1 .. C, S)
  BY FS_CardinalityType
<1>2. \E f \in [1 .. C -> S] : IsInjective(f)
  BY <1>1 DEF ExistsBijection, Bijection, Injection
<1>3. q \in [1 .. C -> S] /\ IsInjective(q)
  BY <1>2 DEF SetToSeq
<1> HIDE DEF q
<1>4. q \in Injection(1 .. C, S)
  BY <1>3 DEF Injection
<1>5. IsFiniteSet(1 .. C) /\ Cardinality(1 .. C) = C
  BY <1>1, FS_Interval
<1>6. q \in Surjection(1 .. C, S)
  BY <1>4, <1>5, FS_Injection
<1>7. \A n \in DOMAIN q : n \in Nat /\ q[n] \in S
  BY <1>1, <1>3
<1>8. \A n, m \in DOMAIN q : q[n] = q[m] => n = m
  BY <1>3 DEF IsInjective
<1>9. \A x \in S : \E n \in DOMAIN q : q[n] = x
  BY <1>3, <1>6 DEF Surjection
<1> QED
  BY <1>7, <1>8, <1>9 DEF q

\* What a new watcher delivers: each entry of its bucket once.
LEMMA SnapshotElements ==
    ASSUME FlowInv, NEW k \in Kinds
    PROVE  LET q == SetToSeq(Entries(k))
           IN /\ \A n \in DOMAIN q : /\ n \in Nat
                                     /\ \E i \in GetAllConditions(k) : q[n] = Event(i, status[i].state)
              /\ \A n, m \in DOMAIN q : q[n].item = q[m].item => n = m
              /\ \A i \in GetAllConditions(k) : \E n \in DOMAIN q : q[n] = Event(i, status[i].state)
<1> DEFINE q == SetToSeq(Entries(k))
<1>1. IsFiniteSet(GetAllConditions(k))
  BY ItemsFinite, FS_Subset DEF GetAllConditions
<1>2. IsFiniteSet(Entries(k))
  <2> DEFINE f == [i \in GetAllConditions(k) |-> Event(i, status[i].state)]
  <2>1. f \in Surjection(GetAllConditions(k), Entries(k))
    BY DEF Surjection, Entries
  <2> QED
    BY <1>1, <2>1, FS_Surjection
<1>3. /\ \A n \in DOMAIN q : n \in Nat /\ q[n] \in Entries(k)
      /\ \A n, m \in DOMAIN q : q[n] = q[m] => n = m
      /\ \A x \in Entries(k) : \E n \in DOMAIN q : q[n] = x
  BY <1>2, SetToSeqElements
<1> HIDE DEF q
<1>4. \A x, y \in Entries(k) : x.item = y.item => x = y
  BY DEF Entries, Event
<1>5. \A n, m \in DOMAIN q : q[n].item = q[m].item => n = m
  BY <1>3, <1>4
<1>6. \A n \in DOMAIN q : \E i \in GetAllConditions(k) : q[n] = Event(i, status[i].state)
  BY <1>3 DEF Entries
<1>7. \A i \in GetAllConditions(k) : \E n \in DOMAIN q : q[n] = Event(i, status[i].state)
  BY <1>3 DEF Entries
<1> QED
  BY <1>3, <1>5, <1>6, <1>7 DEF q

\* Where events are delivered again, what a new watcher delivers is for the
\* publisher, and has the outcomes that are to be applied.
LEMMA SnapshotEvents ==
    ASSUME DispatchInv, Faults \cap Redelivering # {}
    PROVE  /\ \A k \in Kinds : \A n \in DOMAIN SetToSeq(Entries(k)) :
                 LET evt == SetToSeq(Entries(k))[n]
                 IN /\ evt.item.kind = k
                    /\ ForPublisher(evt)
                    /\ Outcome(evt) => \A m \in DOMAIN SetToSeq(Entries(k)) :
                                          SetToSeq(Entries(k))[m].item = evt.item => m <= n
           /\ \A i \in Items : job[i] = "finished" /\ i \in Current =>
                 \E n \in DOMAIN SetToSeq(Entries(i.kind)) :
                    /\ SetToSeq(Entries(i.kind))[n].item = i
                    /\ Outcome(SetToSeq(Entries(i.kind))[n])
<1> USE DEF DispatchInv
<1>1. ASSUME NEW i \in Items, status[i] # NoStatus
      PROVE  /\ ForPublisher(Event(i, status[i].state))
             /\ Outcome(Event(i, status[i].state)) <=> job[i] = "finished"
             /\ Event(i, status[i].state).item = i
  <2>1. Event(i, status[i].state).item = i /\ Event(i, status[i].state).state = status[i].state
    BY DEF Event
  <2>2. /\ job[i] \notin {"none", "silent"}
        /\ Outcome(status[i]) <=> job[i] = "finished"
    BY <1>1 DEF OrderInv, EventsInv, JobInv
  <2>3. job[i] # "dead" /\ (job[i] = "finished" /\ i \in Current => ~status[i].stale)
    BY DEF OrderInv, EventsInv, RedeliveryInv
  <2>4. job[i] \in {"none", "running", "silent", "dead", "finished"}
    BY DEF FlowInv, StatusInv
  <2>5. i \notin Contested
    BY <2>2, <2>3 DEF Contested, Abandoned, NeedsReconciliation, StateIsComplete, Outcome
  <2> QED
    BY <2>1, <2>2, <2>3, <2>4, <2>5 DEF ForPublisher, Outcome
<1>2. ASSUME NEW k \in Kinds, NEW n \in DOMAIN SetToSeq(Entries(k))
      PROVE  LET evt == SetToSeq(Entries(k))[n]
             IN /\ evt.item.kind = k
                /\ ForPublisher(evt)
                /\ \A m \in DOMAIN SetToSeq(Entries(k)) :
                      SetToSeq(Entries(k))[m].item = evt.item => m <= n
  <2> DEFINE q == SetToSeq(Entries(k))
  <2>1. /\ n \in Nat
        /\ \E i \in GetAllConditions(k) : q[n] = Event(i, status[i].state)
        /\ \A m \in DOMAIN q : q[m].item = q[n].item => m = n
    BY <1>2, SnapshotElements
  <2> HIDE DEF q
  <2>2. PICK i \in GetAllConditions(k) : q[n] = Event(i, status[i].state)
    BY <2>1
  <2>3. i \in Items /\ i.kind = k /\ status[i] # NoStatus
    BY DEF GetAllConditions
  <2>4. q[n].item.kind = k /\ ForPublisher(q[n])
    BY <1>1, <2>2, <2>3
  <2>5. \A m \in DOMAIN q : q[m].item = q[n].item => m <= n
    BY <2>1
  <2> QED
    BY <2>4, <2>5 DEF q
<1>3. ASSUME NEW i \in Items, job[i] = "finished", i \in Current
      PROVE  \E n \in DOMAIN SetToSeq(Entries(i.kind)) :
                /\ SetToSeq(Entries(i.kind))[n].item = i
                /\ Outcome(SetToSeq(Entries(i.kind))[n])
  <2>1. status[i] # NoStatus
    BY <1>3 DEF OrderInv, EventsInv, RedeliveryInv
  <2>2. i.kind \in Kinds /\ i \in GetAllConditions(i.kind)
    BY <2>1 DEF Items, GetAllConditions
  <2>3. \E n \in DOMAIN SetToSeq(Entries(i.kind)) : SetToSeq(Entries(i.kind))[n] = Event(i, status[i].state)
    BY <2>2, SnapshotElements
  <2> QED
    BY <1>1, <1>3, <2>1, <2>3
<1> QED
  BY <1>2, <1>3

LEMMA RefreshOrder ==
    ASSUME DispatchInv, NEW k \in Kinds, RefreshWatcher(k)
    PROVE  OrderInv'
<1> USE DEF DispatchInv
<1>1. /\ feed' = [feed EXCEPT ![k] = SetToSeq(Entries(k))]
      /\ UNCHANGED <<storeVars, request, published, job, status, loop, scan, todo, history>>
      /\ Faults \cap Redelivering # {}
  BY DEF RefreshWatcher, Fault, Redelivering
<1>2. feed'[k] = SetToSeq(Entries(k)) /\ \A l \in Kinds : l # k => feed'[l] = feed[l]
  BY <1>1 DEF FlowInv, StatusInv
<1>3. Current' = Current /\ Contested' = Contested
  BY <1>1, SameSets DEF storeVars
<1>4. FeedInv'
  <2> SUFFICES ASSUME NEW l \in Kinds, NEW n \in DOMAIN feed'[l], NEW evt, evt = feed'[l][n]
               PROVE  /\ evt.item.kind = l
                      /\ ForPublisher(evt)
                      /\ Outcome(evt) => \A m \in DOMAIN feed'[l] : feed'[l][m].item = evt.item => m <= n
    BY <1>1, <1>3 DEF FeedInv, ForPublisher, Outcome
  <2>1. CASE l # k
    BY <1>2, <2>1 DEF OrderInv, EventsInv, FeedInv
  <2>2. CASE l = k
    BY <1>1, <1>2, <2>2, SnapshotEvents
  <2> QED
    BY <2>1, <2>2
<1>5. ASSUME NEW i \in Items, job[i] = "finished", i \in Current
      PROVE  OnItsWay(i)'
  <2>1. i.kind \in Kinds
    BY DEF Items
  <2>2. CASE i.kind = k
    BY <1>1, <1>2, <1>5, <2>2, SnapshotEvents DEF OnItsWay, Outcome
  <2>3. CASE i.kind # k
    <3>1. OnItsWay(i)
      BY <1>1, <1>5 DEF OrderInv, EventsInv, RedeliveryInv
    <3> QED
      BY <1>1, <1>2, <2>1, <2>3, <3>1 DEF OnItsWay, Before, ItemOf, Outcome
  <2> QED
    BY <2>2, <2>3
<1> QED
  BY <1>1, <1>4, <1>5, FeedOnly

\* After a restart the loops have nothing, and the watchers deliver what the
\* status KV has.
LEMMA CrashOrder ==
    ASSUME DispatchInv, OrchestratorCrash
    PROVE  OrderInv'
<1> USE DEF DispatchInv
<1>1. /\ loop' = [p \in Loops |-> IdleLoop]
      /\ feed' = [k \in Kinds |-> SetToSeq(Entries(k))]
      /\ todo' = {}
      /\ create' = [c \in Creators |-> create[c]]
      /\ update' = [u \in Updaters |-> IF u \in Loops THEN NoUpdate ELSE update[u]]
      /\ UNCHANGED <<bucket, units, request, published, job, status, history>>
      /\ Faults \cap Redelivering # {} /\ Faults \cap Unrecording # {}
  BY DEF OrchestratorCrash, OrchestratorRestarts, CallersDie, Fault, Redelivering, Unrecording
<1>2. UNCHANGED create
  BY <1>1 DEF FlowInv, StoreTypeOK
<1>3. \A p \in Loops : loop'[p] = IdleLoop /\ update'[p] = NoUpdate
  BY <1>1, TheLoops
<1>4. IdleLoop.pc = "idle"
  BY DEF IdleLoop
<1>5. Current' = Current /\ Abandoned' = Abandoned /\ Contested' = Contested
  BY <1>1, SameSets
<1>6. CallsInv'
  <2>1. \A c \in Creators : update'[c] = NoUpdate
    BY <1>1, CallersAssumption DEF OrderInv, CallsInv
  <2> QED
    BY <1>1, <1>2, <1>3, <1>4, <2>1 DEF OrderInv, CallsInv
<1>7. JobInv'
  BY <1>1, <1>5 DEF OrderInv, EventsInv, JobInv, Outcome
<1>8. FeedInv'
  <2> SUFFICES ASSUME NEW k \in Kinds, NEW n \in DOMAIN feed'[k], NEW evt, evt = feed'[k][n]
               PROVE  /\ evt.item.kind = k
                      /\ ForPublisher(evt)
                      /\ Outcome(evt) => \A m \in DOMAIN feed'[k] : feed'[k][m].item = evt.item => m <= n
    BY <1>1, <1>5 DEF FeedInv, ForPublisher, Outcome
  <2>1. feed'[k] = SetToSeq(Entries(k))
    BY <1>1
  <2> QED
    BY <1>1, <2>1, SnapshotEvents
<1>9. \A p \in Loops : ~Busy(p)' /\ ~Before(p)' /\ ~After(p)' /\ ~LoopAt(p, "history")'
                       /\ ~LoopAt(p, "publishing")'
  BY <1>3, <1>4 DEF Busy, Before, After, LoopAt
<1>10. PublisherInv' /\ ReconcilerInv' /\ TodoInv' /\ AfterInv'
  BY <1>1, <1>9, TheLoops DEF PublisherInv, ReconcilerInv, TodoInv, AfterInv
<1>11. HistoryInv'
  BY <1>1, <1>9, HistoryKept DEF OrderInv, EventsInv
<1>12. RedeliveryInv'
  <2>1. \A i \in Items : job[i] = "finished" /\ i \in Current => OnItsWay(i)'
    <3> TAKE i \in Items
    <3> HAVE job[i] = "finished" /\ i \in Current
    <3>1. i.kind \in Kinds
      BY DEF Items
    <3>2. feed'[i.kind] = SetToSeq(Entries(i.kind))
      BY <1>1, <3>1
    <3> QED
      BY <1>1, <3>2, SnapshotEvents DEF OnItsWay, Outcome
  <2> QED
    BY <1>1, <1>5, <2>1 DEF OrderInv, EventsInv, RedeliveryInv
<1>13. RecordedInv'
  BY <1>1 DEF RecordedInv
<1>14. PublishInv' /\ DispatchedInOrder'
  BY <1>1, <1>2, <1>9, NothingHandedOut
<1> QED
  BY <1>6, <1>7, <1>8, <1>10, <1>11, <1>12, <1>13, <1>14 DEF OrderInv, EventsInv

-----------------------------------------------------------------------------
(* Taking events                                                           *)

\* A loop that has no event any more; an entry may be deleted with that, and
\* the reconciler may have found more to do.
LEMMA LoopRests ==
    ASSUME DispatchInv, NEW p \in Loops,
           UNCHANGED <<storeVars, request, published, job, feed, history>>,
           \A i \in Items : \/ status'[i] = status[i]
                            \/ status'[i] = NoStatus /\ i \notin Current /\ job[i] \in {"dead", "finished"},
           \A evt \in todo' : evt \in todo \/ (ForReconciler(evt) /\ evt.item \in Abandoned),
           loop'[p].pc \in {"idle", "listing", "next"},
           loop[p].pc \notin {"merging", "updating", "history", "deleting"},
           \A q \in Loops : q # p => loop'[q] = loop[q]
    PROVE  OrderInv'
<1> USE DEF DispatchInv
<1>1. UNCHANGED <<bucket, units, create, update, request, published, job, feed, history>>
  BY DEF storeVars
<1>2. \A q \in Loops : /\ Busy(q)' => Busy(q) /\ loop'[q] = loop[q]
                       /\ Before(q)' => Before(q) /\ loop'[q] = loop[q]
                       /\ Before(q) => Before(q)'
                       /\ After(q)' => After(q) /\ loop'[q] = loop[q]
                       /\ LoopAt(q, "history") => loop'[q] = loop[q]
  BY DEF Busy, Before, After, LoopAt
<1>3. Busy(Reconciler)' /\ ~Before(Reconciler)' /\ loop'[Reconciler].pc # "retry"
         => loop'[Reconciler].evt.item \notin Current
  <2> SUFFICES ASSUME Busy(Reconciler)', ~Before(Reconciler)', loop'[Reconciler].pc # "retry"
               PROVE  loop'[Reconciler].evt.item \notin Current
    OBVIOUS
  <2>1. Busy(Reconciler) /\ loop'[Reconciler] = loop[Reconciler]
    BY <1>2, TheLoops
  <2>2. ~Before(Reconciler) /\ ~LoopAt(Reconciler, "retry")
    BY <2>1 DEF Before, LoopAt
  <2>3. ItemOf(Reconciler) \notin Current
    BY <2>1, <2>2 DEF OrderInv, EventsInv, ReconcilerInv
  <2> QED
    BY <2>1, <2>3 DEF ItemOf
<1>4. /\ Busy(Publisher)' => Busy(Publisher) /\ loop'[Publisher].evt = loop[Publisher].evt
      /\ Before(Publisher)' => Before(Publisher)
      /\ Before(Publisher) => Before(Publisher)'
      /\ Busy(Reconciler)' => Busy(Reconciler) /\ loop'[Reconciler].evt = loop[Reconciler].evt
  BY <1>2, TheLoops
<1>5. EventsInv'
  BY <1>1, <1>2, <1>3, <1>4, EventsKept DEF OrderInv
<1>6. CallsInv'
  BY <1>1, CallsKept DEF OrderInv
<1>7. PublishInv' /\ DispatchedInOrder'
  BY <1>1, NothingHandedOut DEF LoopAt
<1> QED
  BY <1>5, <1>6, <1>7 DEF OrderInv

LEMMA PublisherDoneOrder ==
    ASSUME DispatchInv, PublisherDone
    PROVE  OrderInv'
<1>1. loop'[Publisher] = IdleLoop /\ \A q \in Loops : q # Publisher => loop'[q] = loop[q]
  BY TheLoops DEF PublisherDone, DispatchInv, FlowInv, LoopInv
<1>2. loop[Publisher].pc \notin {"merging", "updating", "history", "deleting"}
      /\ UNCHANGED <<storeVars, request, published, job, status, feed, scan, todo, history>>
  BY DEF PublisherDone
<1>3. loop'[Publisher].pc = "idle"
  BY <1>1 DEF IdleLoop
<1> QED
  BY <1>1, <1>2, <1>3, TheLoops, LoopRests

LEMMA StartRoundOrder ==
    ASSUME DispatchInv, StartRound
    PROVE  OrderInv'
<1>1. /\ loop[Reconciler].pc = "idle" /\ LoopTo(Reconciler, "listing")
      /\ UNCHANGED <<storeVars, request, published, job, status, feed, todo, history>>
  BY DEF StartRound, LoopAt
<1>2. loop'[Reconciler].pc = "listing" /\ \A q \in Loops : q # Reconciler => loop'[q] = loop[q]
  BY <1>1, TheLoops, LoopGoes DEF DispatchInv
<1> QED
  BY <1>1, <1>2, TheLoops, LoopRests

\* An entry that the reconciler would take is of a condition whose controller
\* will not report any more.
LEMMA ListBucketOrder ==
    ASSUME DispatchInv, NEW k \in Kinds, ListBucket(k)
    PROVE  OrderInv'
<1> USE DEF DispatchInv
<1>1. /\ loop[Reconciler].pc = "listing"
      /\ todo' = todo \cup ToReconcile(k)
      /\ UNCHANGED <<storeVars, request, published, job, status, feed, history>>
  BY DEF ListBucket, LoopAt
<1>2. loop'[Reconciler].pc \in {"listing", "next"} /\ \A q \in Loops : q # Reconciler => loop'[q] = loop[q]
  BY TheLoops, LoopGoes DEF ListBucket
<1>3. \A i \in Abandoned : i \in Items /\ job[i] \in {"dead", "finished"}
  BY DEF Abandoned, NeedsReconciliation, StateIsComplete, OrderInv, EventsInv, JobInv, Outcome
<1>4. ASSUME NEW evt \in ToReconcile(k)
      PROVE  ForReconciler(evt) /\ evt.item \in Abandoned
  <2>1. Outcome(evt) /\ evt.item \in Abandoned
    BY <1>4 DEF ToReconcile, GetAllConditions, Event, Outcome, StateIsComplete, Abandoned
  <2> QED
    BY <1>3, <2>1 DEF ForReconciler
<1> QED
  BY <1>1, <1>2, <1>4, TheLoops, LoopRests

\* What the reconciler is through with is not active, unless it is to be retried.
LEMMA ReconcilerDoneOrder ==
    ASSUME DispatchInv, ReconcilerDone
    PROVE  OrderInv'
<1> USE DEF DispatchInv
<1>1. /\ loop[Reconciler].pc \in {"retry", "accepted", "rejected"} /\ LoopTo(Reconciler, "next")
      /\ UNCHANGED <<storeVars, request, published, job, feed, scan, todo, history>>
  BY DEF ReconcilerDone, LoopAt
<1>2. loop'[Reconciler].pc = "next" /\ \A q \in Loops : q # Reconciler => loop'[q] = loop[q]
  BY <1>1, TheLoops, LoopGoes
<1>3. ItemOf(Reconciler) \in Items
  BY <1>1, TheLoops, BusyEvent DEF Busy
<1>4. \A i \in Items : \/ status'[i] = status[i]
                       \/ status'[i] = NoStatus /\ i \notin Current /\ job[i] \in {"dead", "finished"}
  <2>1. CASE UNCHANGED status
    BY <2>1
  <2>2. CASE loop[Reconciler].pc \in {"accepted", "rejected"}
             /\ status' = [status EXCEPT ![ItemOf(Reconciler)] = NoStatus]
    <3>1. Busy(Reconciler) /\ ~Before(Reconciler) /\ ~LoopAt(Reconciler, "retry")
      BY <2>2 DEF Busy, Before, LoopAt
    <3>2. ItemOf(Reconciler) \notin Current /\ job[ItemOf(Reconciler)] \in {"dead", "finished"}
      BY <3>1 DEF OrderInv, EventsInv, ReconcilerInv, ForReconciler, ItemOf
    <3>3. \A i \in Items : status'[i] = IF i = ItemOf(Reconciler) THEN NoStatus ELSE status[i]
      BY <1>3, <2>2 DEF FlowInv, StatusInv
    <3> QED
      BY <3>2, <3>3
  <2> QED
    BY <2>1, <2>2 DEF ReconcilerDone, DeleteCondition, LoopAt
<1> QED
  BY <1>1, <1>2, <1>4, TheLoops, LoopRests

LEMMA NextEventOrder ==
    ASSUME DispatchInv, NextEvent
    PROVE  OrderInv'
<1> USE DEF DispatchInv
<1>1. /\ loop[Reconciler].pc = "next"
      /\ UNCHANGED <<storeVars, request, published, job, status, feed, scan, history>>
  BY DEF NextEvent, LoopAt
<1>2. CASE loop' = [loop EXCEPT ![Reconciler] = IdleLoop] /\ UNCHANGED todo
  <2>1. loop'[Reconciler].pc = "idle" /\ \A q \in Loops : q # Reconciler => loop'[q] = loop[q]
    BY <1>2, TheLoops DEF FlowInv, LoopInv, IdleLoop
  <2> QED
    BY <1>1, <1>2, <2>1, TheLoops, LoopRests
<1>3. ASSUME NEW evt \in todo, todo' = todo \ {evt},
             loop' = [loop EXCEPT ![Reconciler] = [IdleLoop EXCEPT !.pc = "merging", !.evt = evt]]
      PROVE  OrderInv'
  <2>1. /\ loop'[Reconciler].pc = "merging" /\ loop'[Reconciler].evt = evt
        /\ \A q \in Loops : q # Reconciler => loop'[q] = loop[q]
    BY <1>3, TheLoops DEF FlowInv, LoopInv, IdleLoop
  <2>2. UNCHANGED <<bucket, units, create, update, request, published, job, status, feed, history>>
    BY <1>1 DEF storeVars
  <2>3. loop'[Publisher] = loop[Publisher]
    BY <2>1, TheLoops
  <2>4. \A q \in Loops : /\ After(q)' => After(q) /\ loop'[q] = loop[q]
                         /\ LoopAt(q, "history") => loop'[q] = loop[q]
    BY <1>1, <2>1 DEF After, LoopAt
  <2>5. EventsInv'
    <3>1. /\ Busy(Publisher)' => Busy(Publisher) /\ loop'[Publisher].evt = loop[Publisher].evt
          /\ Before(Publisher)' <=> Before(Publisher)
      BY <2>3 DEF Busy, Before
    <3>2. Before(Reconciler)'
      BY <2>1 DEF Before
    <3>3. \A e \in todo' : e \in todo
      BY <1>3
    <3> QED
      BY <2>1, <2>2, <2>4, <3>1, <3>2, <3>3, EventsKept DEF OrderInv
  <2>6. CallsInv'
    BY <1>1, <2>1, <2>2, CallsKept DEF OrderInv
  <2>7. PublishInv' /\ DispatchedInOrder'
    BY <2>1, <2>2, NothingHandedOut DEF LoopAt
  <2> QED
    BY <2>5, <2>6, <2>7 DEF OrderInv
<1> QED
  BY <1>2, <1>3 DEF NextEvent

\* The publisher takes the first event of a feed.
LEMMA TakeUpdateOrder ==
    ASSUME DispatchInv, NEW k \in Kinds, TakeUpdate(k)
    PROVE  OrderInv'
<1> USE DEF DispatchInv
<1> DEFINE evt == Head(feed[k])
<1>1. /\ LoopAt(Publisher, "idle") /\ feed[k] # << >>
      /\ loop' = [loop EXCEPT ![Publisher] = [IdleLoop EXCEPT !.pc = "merging", !.evt = evt]]
      /\ feed' = [feed EXCEPT ![k] = Tail(@)]
      /\ UNCHANGED <<storeVars, request, published, job, status, scan, todo, history>>
  BY DEF TakeUpdate
<1>2. UNCHANGED <<bucket, units, create, update, request, published, job, status, todo, history>>
  BY <1>1 DEF storeVars
<1>3. Current' = Current /\ Abandoned' = Abandoned /\ Contested' = Contested
  BY <1>2, SameSets
<1>4. /\ loop'[Publisher].pc = "merging" /\ loop'[Publisher].evt = evt
      /\ \A q \in Loops : q # Publisher => loop'[q] = loop[q]
  BY <1>1, TheLoops DEF FlowInv, LoopInv, IdleLoop
<1>5. feed[k] \in Seq(Events) /\ feed'[k] = Tail(feed[k]) /\ \A l \in Kinds : l # k => feed'[l] = feed[l]
  BY <1>1 DEF FlowInv, StatusInv
<1>6. 1 \in DOMAIN feed[k] /\ evt = feed[k][1]
  BY <1>1, <1>5, LenProperties, EmptySeq
<1>7. /\ \A n \in DOMAIN feed'[k] : n \in Nat \ {0} /\ n + 1 \in DOMAIN feed[k] /\ feed'[k][n] = feed[k][n + 1]
      /\ \A n \in DOMAIN feed[k] : n # 1 => n - 1 \in DOMAIN feed'[k] /\ feed'[k][n - 1] = feed[k][n]
  <2>1. Tail(feed[k]) \in Seq(Events) /\ Len(Tail(feed[k])) = Len(feed[k]) - 1
        /\ \A n \in 1 .. Len(Tail(feed[k])) : Tail(feed[k])[n] = feed[k][n + 1]
    BY <1>1, <1>5, HeadTailProperties
  <2>2. /\ DOMAIN Tail(feed[k]) = 1 .. Len(Tail(feed[k])) /\ Len(Tail(feed[k])) \in Nat
        /\ DOMAIN feed[k] = 1 .. Len(feed[k]) /\ Len(feed[k]) \in Nat
    BY <1>5, <2>1, LenProperties
  <2>3. \A n \in DOMAIN feed'[k] : n \in Nat \ {0} /\ n + 1 \in DOMAIN feed[k] /\ feed'[k][n] = feed[k][n + 1]
    BY <1>5, <2>1, <2>2
  <2>4. ASSUME NEW n \in DOMAIN feed[k], n # 1
        PROVE  n - 1 \in DOMAIN feed'[k] /\ feed'[k][n - 1] = feed[k][n]
    <3>1. n - 1 \in 1 .. Len(Tail(feed[k])) /\ (n - 1) + 1 = n
      BY <2>1, <2>2, <2>4
    <3>2. Tail(feed[k])[n - 1] = feed[k][n]
      BY <2>1, <3>1
    <3> QED
      BY <1>5, <2>2, <3>1, <3>2
  <2> QED
    BY <2>3, <2>4
<1> HIDE DEF evt
<1>8. /\ evt \in Events /\ evt.item.kind = k
      /\ ForPublisher(evt)
  BY <1>6, FeedEvents DEF OrderInv, EventsInv, FeedInv
<1>9. FeedInv'
  <2> SUFFICES ASSUME NEW l \in Kinds, NEW n \in DOMAIN feed'[l], NEW e, e = feed'[l][n]
               PROVE  /\ e.item.kind = l
                      /\ ForPublisher(e)
                      /\ Outcome(e) => \A m \in DOMAIN feed'[l] : feed'[l][m].item = e.item => m <= n
    BY <1>2, <1>3 DEF FeedInv, ForPublisher, Outcome
  <2>1. CASE l # k
    BY <1>5, <2>1 DEF OrderInv, EventsInv, FeedInv
  <2>2. CASE l = k
    <3>1. n \in Nat /\ n + 1 \in DOMAIN feed[k] /\ feed[k][n + 1] = e
      BY <1>7, <2>2
    <3>2. /\ e.item.kind = k
          /\ ForPublisher(e)
          /\ Outcome(e) => \A m \in DOMAIN feed[k] : feed[k][m].item = e.item => m <= n + 1
      BY <3>1 DEF OrderInv, EventsInv, FeedInv
    <3>3. ASSUME Outcome(e), NEW m \in DOMAIN feed'[k], feed'[k][m].item = e.item
          PROVE  m <= n
      <4>1. m \in Nat /\ m + 1 <= n + 1
        BY <1>7, <3>2, <3>3
      <4> QED
        BY <3>1, <4>1
    <3> QED
      BY <2>2, <3>2, <3>3
  <2> QED
    BY <2>1, <2>2
<1>10. loop'[Reconciler] = loop[Reconciler]
  BY <1>4, TheLoops
<1>11. ~Before(Publisher) /\ ~After(Publisher) /\ ~LoopAt(Publisher, "history")
       /\ Before(Publisher)' /\ ~After(Publisher)' /\ ~LoopAt(Publisher, "history")'
  BY <1>1, <1>4 DEF Before, After, LoopAt
<1>12. CallsInv'
  BY <1>1, <1>2, <1>4, CallsKept DEF OrderInv, LoopAt
<1>13. JobInv' /\ TodoInv'
  BY <1>2, <1>3 DEF OrderInv, EventsInv, JobInv, TodoInv, ForReconciler, Outcome
<1>14. PublisherInv'
  BY <1>2, <1>3, <1>4, <1>8 DEF PublisherInv, ForPublisher, Outcome
<1>15. ReconcilerInv'
  BY <1>2, <1>3, <1>10 DEF OrderInv, EventsInv, ReconcilerInv, ForReconciler, Outcome, Before, Busy, LoopAt, ItemOf
<1>16. AfterInv'
  <2>1. After(Reconciler) => /\ Outcome(loop[Reconciler].evt)
                             /\ job[ItemOf(Reconciler)] \in {"dead", "finished"}
                             /\ ItemOf(Reconciler) \notin Current
    BY TheLoops DEF OrderInv, EventsInv, AfterInv
  <2>2. After(Reconciler)' => /\ Outcome(loop[Reconciler].evt)'
                              /\ job'[ItemOf(Reconciler)'] \in {"dead", "finished"}
                              /\ ItemOf(Reconciler)' \notin Current'
    BY <1>2, <1>3, <1>10, <2>1 DEF After, Outcome, ItemOf
  <2> QED
    BY <1>11, <2>2, TheLoops DEF AfterInv
<1>17. HistoryInv'
  <2>1. \A q \in Loops : After(q)' => After(q) /\ loop'[q] = loop[q]
    BY <1>4, <1>11 DEF After
  <2> QED
    BY <1>2, <2>1, HistoryKept DEF OrderInv, EventsInv
<1>18. RedeliveryInv'
  <2>1. ASSUME NEW i \in Items, OnItsWay(i) PROVE OnItsWay(i)'
    <3>1. PICK n \in DOMAIN feed[i.kind] : feed[i.kind][n].item = i /\ Outcome(feed[i.kind][n])
      BY <1>11, <2>1 DEF OnItsWay
    <3>2. i.kind \in Kinds
      BY DEF Items
    <3>3. CASE i.kind # k
      <4>1. n \in DOMAIN feed'[i.kind] /\ feed'[i.kind][n] = feed[i.kind][n]
        BY <1>5, <3>2, <3>3
      <4> QED
        BY <3>1, <4>1 DEF OnItsWay, Outcome
    <3>4. CASE i.kind = k /\ n # 1
      <4>1. n - 1 \in DOMAIN feed'[i.kind] /\ feed'[i.kind][n - 1] = feed[i.kind][n]
        BY <1>7, <3>4
      <4> QED
        BY <3>1, <4>1 DEF OnItsWay, Outcome
    <3>5. CASE i.kind = k /\ n = 1
      <4>1. evt.item = i /\ Outcome(evt)
        BY <1>6, <3>1, <3>5
      <4> QED
        BY <1>4, <1>11, <4>1 DEF OnItsWay, ItemOf, Outcome
    <3> QED
      BY <3>3, <3>4, <3>5
  <2> QED
    BY <1>2, <1>3, <2>1 DEF OrderInv, EventsInv, RedeliveryInv
<1>19. RecordedInv'
  <2> SUFFICES ASSUME Faults \cap Unrecording = {}, NEW i \in Items,
                      status[i] # NoStatus, i \notin Current, history[i] = {}
               PROVE  \E p \in Loops : LoopAt(p, "history")' /\ ItemOf(p)' = i
    BY <1>2, <1>3, <1>11 DEF RecordedInv
  <2>1. PICK p \in Loops : LoopAt(p, "history") /\ ItemOf(p) = i
    BY DEF OrderInv, EventsInv, RecordedInv
  <2>2. loop'[p] = loop[p]
    BY <1>4, <1>11, <2>1
  <2> QED
    BY <2>1, <2>2 DEF LoopAt, ItemOf
<1>20. PublishInv' /\ DispatchedInOrder'
  BY <1>2, <1>4, NothingHandedOut DEF LoopAt
<1> QED
  BY <1>9, <1>12, <1>13, <1>14, <1>15, <1>16, <1>17, <1>18, <1>19, <1>20 DEF OrderInv, EventsInv

-----------------------------------------------------------------------------
(* The invariant is inductive                                              *)

LEMMA OrderInit == Init => OrderInv
<1> SUFFICES ASSUME Init PROVE OrderInv
  OBVIOUS
<1>1. /\ \A s \in Servers : bucket[s] = NoRecord
      /\ \A c \in Creators : create[c] = NoCreate /\ request[c] = IdleRequest
      /\ \A p \in Updaters : update[p] = NoUpdate
      /\ \A p \in Loops : loop[p] = IdleLoop
      /\ \A i \in Items : /\ published[i] = 0 /\ job[i] = "none" /\ status[i] = NoStatus
                          /\ history[i] = {}
      /\ \A k \in Kinds : feed[k] = << >>
      /\ todo = {}
  BY DEF Init, StoreInit
<1>2. Current = {}
  <2> SUFFICES ASSUME NEW i \in Current PROVE FALSE
    OBVIOUS
  <2>1. i.server \in Servers /\ i \in ActiveItems(i.server)
    BY DEF Current, Items
  <2> QED
    BY <1>1, <2>1 DEF ActiveItems, IsActiveCondition, InProgress
<1>3. Handed = {}
  BY <1>1 DEF Handed
<1>4. \A p \in Loops : loop[p].pc = "idle"
  BY <1>1 DEF IdleLoop
<1>5. \A p \in Loops : ~Busy(p) /\ ~Before(p) /\ ~After(p) /\ ~LoopAt(p, "history") /\ ~LoopAt(p, "deleting")
                       /\ ~LoopAt(p, "publishing")
  BY <1>4 DEF Busy, Before, After, LoopAt
<1>6. CallsInv
  <2>1. \A c \in Creators : request[c].pc = "idle" /\ create[c] = NoCreate /\ update[c] = NoUpdate
    BY <1>1, CallersAssumption DEF IdleRequest
  <2>2. \A p \in Loops : loop[p].pc = "idle" /\ update[p] = NoUpdate
    BY <1>1, <1>4, TheLoops
  <2> QED
    BY <2>1, <2>2 DEF CallsInv
<1>7. JobInv
  BY <1>1 DEF JobInv
<1>8. FeedInv
  BY <1>1 DEF FeedInv
<1>9. PublisherInv /\ ReconcilerInv /\ TodoInv /\ AfterInv
  BY <1>1, <1>5, TheLoops DEF PublisherInv, ReconcilerInv, TodoInv, AfterInv
<1>10. HistoryInv
  <2>1. HistoryAgrees
    <3>1. Cardinality({}) = 0
      BY FS_EmptySet
    <3>2. \A i \in Items : Cardinality(history[i]) = 0
      BY <1>1, <3>1
    <3> QED
      BY <1>1, <3>2 DEF HistoryAgrees
  <2> QED
    BY <1>2, <1>5, <2>1 DEF HistoryInv
<1>11. RedeliveryInv /\ RecordedInv
  BY <1>1, <1>2, <1>5, TheLoops DEF RedeliveryInv, RecordedInv
<1>12. PublishInv
  BY <1>1, <1>3, <1>5 DEF PublishInv, RequestAt, IdleRequest
<1>13. DispatchedInOrder
  BY <1>1 DEF DispatchedInOrder, NoRecord
<1> QED
  BY <1>6, <1>7, <1>8, <1>9, <1>10, <1>11, <1>12, <1>13 DEF OrderInv, EventsInv

\* Nothing happens.
LEMMA StutterOrder ==
    ASSUME DispatchInv, UNCHANGED vars
    PROVE  OrderInv'
<1> USE DEF DispatchInv
<1>1. UNCHANGED <<bucket, units, create, update, request, published, job, status, feed, loop,
                  scan, todo, history>>
  BY DEF vars, storeVars, flowVars
<1>2. EventsInv'
  BY <1>1, RequestKeeps DEF OrderInv
<1>3. CallsInv'
  BY <1>1, CallsKept DEF OrderInv
<1>4. PublishInv' /\ DispatchedInOrder'
  BY <1>1, NothingHandedOut DEF LoopAt
<1> QED
  BY <1>2, <1>3, <1>4 DEF OrderInv

LEMMA OrderStep ==
    ASSUME Orderly, DispatchInv, [Next]_vars
    PROVE  OrderInv'
<1>1. CASE UNCHANGED vars
  BY <1>1, StutterOrder
<1>2. CASE \E c \in Creators : RequestStep(c)
  BY <1>2, RequestStepOrder
<1>3. CASE ApiCrash
  BY <1>3, ApiCrashOrder
<1>4. CASE \E i \in Items : JobStep(i) \/ LoseController(i) \/ GrowStale(i)
  BY <1>4, JobStepOrder, TimeOrder
<1>5. CASE \E k \in Kinds : Coalesce(k) \/ RefreshWatcher(k)
  BY <1>5, CoalesceOrder, RefreshOrder
<1>6. CASE PublisherStep
  BY <1>6, TheLoops, EventStepOrder, PublisherDoneOrder, TakeUpdateOrder DEF PublisherStep
<1>7. CASE ReconcilerStep
  BY <1>7, TheLoops, EventStepOrder, StartRoundOrder, NextEventOrder, ReconcilerDoneOrder, ListBucketOrder
     DEF ReconcilerStep
<1>8. CASE OrchestratorCrash
  BY <1>8, CrashOrder
<1> QED
  BY <1>1, <1>2, <1>3, <1>4, <1>5, <1>6, <1>7, <1>8 DEF Next

\* The callers of the store keep out of each other's way: requests by
\* assumption, and the loops because they update different active conditions,
\* which are those of different servers.
LEMMA CallersApart ==
    ASSUME FlowInv, OrderInv, CreatesApart
    PROVE  Serialised
<1>1. ASSUME NEW u \in Updaters, NEW v \in Updaters, update[u] # NoUpdate,
             update[u].server = update[v].server
      PROVE  u = v
  <2>1. \A p \in Updaters : update[p] # NoUpdate =>
           /\ p \in Loops /\ LoopAt(p, "updating") /\ ItemOf(p) \in Current
           /\ update[p].server = ItemOf(p).server /\ update[p].server \in Servers
    BY CallersAssumption DEF OrderInv, CallsInv, LoopAt, FlowInv, StoreTypeOK
  <2>2. update[v] # NoUpdate
    BY <1>1, <2>1, ServersAssumption DEF NoUpdate, Call
  <2>3. ASSUME u # v PROVE FALSE
    <3>1. /\ u \in Loops /\ v \in Loops /\ LoopAt(u, "updating") /\ LoopAt(v, "updating")
          /\ ItemOf(u) \in Current /\ ItemOf(v) \in Current
          /\ ItemOf(u).server = ItemOf(v).server
      BY <1>1, <2>1, <2>2
    <3>2. ItemOf(u) = ItemOf(v)
      BY <3>1, OneCurrent DEF FlowInv
    <3>3. /\ LoopAt(Publisher, "updating") /\ LoopAt(Reconciler, "updating")
          /\ ItemOf(Publisher) = ItemOf(Reconciler) /\ ItemOf(Publisher) \in Current
      BY <2>3, <3>1, <3>2, TheLoops
    <3>4. ItemOf(Publisher) \notin Contested
      BY <3>3 DEF OrderInv, EventsInv, PublisherInv, ForPublisher, LoopAt, Before, ItemOf
    <3>5. ItemOf(Reconciler) \in Abandoned
      BY <3>3 DEF OrderInv, EventsInv, ReconcilerInv, ForReconciler, LoopAt, Busy, ItemOf
    <3> QED
      BY <3>3, <3>4, <3>5 DEF Contested
  <2> QED
    BY <2>3
<1> QED
  BY <1>1 DEF Serialised, CreatesApart

\* No update skips the merge that makes it one of the active condition: no
\* request marks its condition when Publish cannot fail.
LEMMA NothingMarked ==
    ASSUME DispatchInv, OrderInv', NEW u \in Updaters, NEW s \in Servers, NEW id \in IDs,
           MarkUnpublished(u, s, id)
    PROVE  MergeExisting(bucket[s], Unpublished(id))
<1> USE DEF DispatchInv
<1>1. /\ update[u] = NoUpdate
      /\ update' = [update EXCEPT ![u] = Call("put", s, Unpublished(id), ApplyUpdate(bucket[s], Unpublished(id)))]
      /\ UNCHANGED <<bucket, units, create>>
  BY DEF MarkUnpublished, ReadForUpdate
<1>2. update'[u] # NoUpdate /\ update'[u].server = s /\ update'[u].upd = Unpublished(id)
  BY <1>1 DEF FlowInv, StoreTypeOK, Call, NoUpdate
<1>3. u \in Loops
  BY <1>2, CallersAssumption DEF OrderInv, CallsInv
<1>4. /\ loop'[u].evt.item \in Current'
      /\ s = loop'[u].evt.item.server /\ Unpublished(id) = UpdateOf(loop'[u].evt)
  BY <1>2, <1>3 DEF OrderInv, CallsInv, ItemOf
<1>5. loop'[u].evt.item \in Current
  BY <1>1, <1>4, SameBucket
<1>6. /\ Unpublished(id).id = loop'[u].evt.item.id
      /\ Unpublished(id).kind = loop'[u].evt.item.kind
  BY <1>4 DEF UpdateOf
<1>7. Unpublished(id).state \in {Failed, Succeeded}
  BY DEF Unpublished
<1> QED
  BY <1>4, <1>5, <1>6, <1>7, OutcomeMerges DEF FlowInv

LEMMA DispatchStep ==
    ASSUME Orderly, DispatchInv, CreatesApart', [Next]_vars
    PROVE  DispatchInv' /\ [SerialNext]_storeVars
<1> USE DEF DispatchInv
<1>1. FlowInv'
  BY FlowInvStep
<1>2. OrderInv'
  BY OrderStep
<1>3. Serialised'
  BY <1>1, <1>2, CallersApart, PTL
<1>4. [StoreNext]_storeVars
  BY NextImplementsStore
<1>5. MarkedIsActive
  BY <1>2, NothingMarked DEF MarkedIsActive
<1>6. [SerialNext]_storeVars
  BY <1>3, <1>4, <1>5 DEF SerialNext
<1> QED
  BY <1>1, <1>2, <1>6, SerialInvStep

LEMMA DispatchInvariant ==
    ASSUME Orderly
    PROVE  Spec /\ []CreatesApart => []DispatchInv
<1>1. Init => DispatchInv
  BY FlowInvInit, SerialInvInit, OrderInit DEF DispatchInv, Init
<1>2. DispatchInv /\ CreatesApart' /\ [Next]_vars => DispatchInv'
  BY DispatchStep
<1> QED
  BY <1>1, <1>2, PTL DEF Spec

-----------------------------------------------------------------------------
(* Theorems                                                                *)

\* When requests that create units for one server do not overlap, publisher and
\* reconciler use the store as it relies on: at most one Update of a server is
\* under way, for the active condition, because they never update the same one.
THEOREM FlowIsSerial ==
    ASSUME Orderly
    PROVE  Spec /\ []CreatesApart => SerialSpec
<1>1. Init => StoreInit
  BY DEF Init
<1>2. DispatchInv /\ CreatesApart' /\ [Next]_vars => [SerialNext]_storeVars
  BY DispatchStep
<1> QED
  BY <1>1, <1>2, DispatchInvariant, PTL DEF Spec, SerialSpec

\* A condition is published, or taken by a controller, only when those before it
\* in its unit have succeeded.
THEOREM DispatchIsInOrder ==
    ASSUME Orderly
    PROVE  Spec /\ []CreatesApart => []DispatchedInOrder
<1>1. DispatchInv => DispatchedInOrder
  BY DEF DispatchInv, OrderInv
<1> QED
  BY <1>1, DispatchInvariant, PTL

\* Controllers execute one condition of a server at a time.
THEOREM OneConditionAtATime ==
    ASSUME Orderly
    PROVE  Spec /\ []CreatesApart => []OneJobPerServer
<1>1. DispatchInv => OneJobPerServer
  <2> SUFFICES ASSUME DispatchInv, NEW i \in Items, NEW j \in Items,
                      i.server = j.server, Executing(i), Executing(j)
               PROVE  i = j
    BY DEF OneJobPerServer
  <2>1. i \in Current /\ j \in Current
    BY DEF DispatchInv, OrderInv, EventsInv, JobInv, Executing
  <2> QED
    BY <2>1, OneCurrent DEF DispatchInv, FlowInv
<1> QED
  BY <1>1, DispatchInvariant, PTL

\* The event history has one outcome of a condition at most, that of the
\* server's record, restarts and failing recordings included.
THEOREM HistoryIsConsistent ==
    ASSUME Orderly
    PROVE  Spec /\ []CreatesApart => []HistoryAgrees
<1>1. DispatchInv => HistoryAgrees
  BY DEF DispatchInv, OrderInv, EventsInv, HistoryInv
<1> QED
  BY <1>1, DispatchInvariant, PTL

\* An entry leaves the status KV once its outcome has been recorded: when
\* finalizeCondition deletes it, or when the reconciler drops one that no update
\* is due of and that nobody is recording.
LEMMA ForgottenStep ==
    ASSUME Orderly, Faults \cap Unrecording = {}, DispatchInv, [Next]_vars, NEW i \in Items,
           status[i] # NoStatus, status'[i] = NoStatus
    PROVE  history[i] # {}
<1> USE DEF DispatchInv
<1>1. ~OrchestratorCrash
  BY DEF Unrecording, OrchestratorCrash, Fault
<1>2. status' # status
  OBVIOUS
<1>3. ASSUME NEW j \in Items, NEW st \in States, NEW stale \in BOOLEAN, PutStatus(j, st, stale)
      PROVE  FALSE
  <2>1. [state |-> st, stale |-> stale] # NoStatus
    BY DEF NoStatus, States, Pending, Active, Failed, Succeeded
  <2>2. /\ status'[j] = [state |-> st, stale |-> stale]
        /\ \A x \in Items : x # j => status'[x] = status[x]
    BY <1>3, ReportIsLast
  <2> QED
    BY <2>1, <2>2
<1>4. ASSUME NEW j \in Items, JobStep(j) \/ LoseController(j) \/ GrowStale(j)
      PROVE  FALSE
  <2>1. CASE JobStep(j)
    <3>1. \E st \in States, stale \in BOOLEAN : PutStatus(j, st, stale)
      BY <1>2, <2>1 DEF JobStep, StartJob, FinishJob, States
    <3> QED
      BY <1>3, <3>1
  <2>2. CASE LoseController(j)
    BY <1>2, <2>2 DEF LoseController
  <2>3. CASE GrowStale(j)
    <3>1. status' = [status EXCEPT ![j].stale = TRUE] /\ status[j] # NoStatus
      BY <2>3 DEF GrowStale
    <3>2. i = j /\ status'[j].stale
      BY <3>1 DEF FlowInv, StatusInv
    <3> QED
      BY <3>2 DEF NoStatus
  <2> QED
    BY <1>4, <2>1, <2>2, <2>3
<1>5. ASSUME NEW p \in Loops, EventStep(p)
      PROVE  history[i] # {}
  <2>1. DeleteStatus(p)
    BY <1>2, <1>5 DEF EventStep, MergeEvent, CommitGet, CommitPut, WriteHistory, QueueFollowing, PublishFollowing
  <2>2. LoopAt(p, "deleting") /\ ItemOf(p) \in Items
    BY <2>1, BusyEvent DEF DeleteStatus, LoopAt, Busy
  <2>3. status' = [status EXCEPT ![ItemOf(p)] = NoStatus]
    BY <1>2, <2>1 DEF DeleteStatus, DeleteCondition
  <2>4. ItemOf(p) = i
    BY <2>2, <2>3 DEF FlowInv, StatusInv
  <2> QED
    BY <2>2, <2>4 DEF OrderInv, EventsInv, HistoryInv
<1>6. CASE ReconcilerDone
  <2>1. loop[Reconciler].pc \in {"accepted", "rejected"} /\ status' = [status EXCEPT ![ItemOf(Reconciler)] = NoStatus]
    BY <1>2, <1>6 DEF ReconcilerDone, DeleteCondition, LoopAt
  <2>2. Busy(Reconciler) /\ ~Before(Reconciler) /\ ~LoopAt(Reconciler, "retry") /\ ~LoopAt(Reconciler, "history")
    BY <2>1 DEF Busy, Before, LoopAt
  <2>3. ItemOf(Reconciler) \in Items
    BY <2>2, TheLoops, BusyEvent
  <2>4. ItemOf(Reconciler) = i
    BY <2>1, <2>3 DEF FlowInv, StatusInv
  <2>5. i \notin Current
    BY <2>2, <2>4 DEF OrderInv, EventsInv, ReconcilerInv
  <2>6. ASSUME history[i] = {} PROVE FALSE
    <3>1. PICK p \in Loops : LoopAt(p, "history") /\ ItemOf(p) = i
      BY <2>5, <2>6 DEF OrderInv, EventsInv, RecordedInv
    <3>2. LoopAt(Publisher, "history") /\ ItemOf(Publisher) = i
      BY <2>2, <3>1, TheLoops
    <3> QED
      BY <2>2, <2>4, <3>2 DEF OrderInv, EventsInv, RecordedInv
  <2> QED
    BY <2>6
<1>7. ASSUME NEW c \in Creators PROVE ~RequestStep(c)
  BY <1>2 DEF RequestStep, Submit, Stored, StoreFails, PublishFirst, MarkGet, MarkPut
<1>8. ~ApiCrash /\ ~PublisherDone /\ ~StartRound /\ ~NextEvent /\ ~UNCHANGED vars
  BY <1>2 DEF ApiCrash, PublisherDone, StartRound, NextEvent, vars, flowVars
<1>9. \A k \in Kinds : ~Coalesce(k) /\ ~RefreshWatcher(k) /\ ~TakeUpdate(k) /\ ~ListBucket(k)
  BY <1>2 DEF Coalesce, RefreshWatcher, TakeUpdate, ListBucket
<1> QED
  BY <1>1, <1>4, <1>5, <1>6, <1>7, <1>8, <1>9, TheLoops DEF Next, PublisherStep, ReconcilerStep

\* Where an outcome that is committed gets recorded, the status of a condition is
\* deleted only when its outcome is in the history.
THEOREM NothingForgottenUnrecorded ==
    ASSUME Orderly, Faults \cap Unrecording = {}
    PROVE  Spec /\ []CreatesApart => ForgottenOnlyWhenRecorded
<1> DEFINE Kept == \A i \in Items : status[i] # NoStatus /\ status'[i] = NoStatus => history[i] # {}
<1>1. DispatchInv /\ [Next]_vars => [Kept]_vars
  BY ForgottenStep
<1> HIDE DEF Kept
<1>2. Spec /\ []CreatesApart => [][Kept]_vars
  BY <1>1, DispatchInvariant, PTL DEF Spec
<1> QED
  BY <1>2 DEF ForgottenOnlyWhenRecorded, Kept

\* What the store promises to serialised callers holds in the whole flow.  The
\* work of a server in progress is never replaced by another unit's.
THEOREM FlowReplacesNoUnit ==
    ASSUME Orderly
    PROVE  Spec /\ []CreatesApart => WorkNotReplaced
  BY FlowIsSerial, NoUnitReplaced, PTL

\* Those before a condition that has left the pending state have succeeded.
THEOREM FlowRunsConditionsInOrder ==
    ASSUME Orderly
    PROVE  Spec /\ []CreatesApart => []ConditionsInOrder
  BY FlowIsSerial, InOrderExecution, PTL

\* Every Put moves a condition along a valid transition or leaves it alone.
THEOREM FlowRegressesNoCondition ==
    ASSUME Orderly
    PROVE  Spec /\ []CreatesApart => ConditionsAdvance
  BY FlowIsSerial, NoConditionRegresses, PTL

\* The records are a lock on the servers: a unit takes a free server, once, and
\* holds it until it is finished.
THEOREM FlowIsLock ==
    ASSUME Orderly
    PROVE  Spec /\ []CreatesApart => LockSpec
  BY FlowIsSerial, StoreIsLock, PTL
=============================================================================
