------------------------- MODULE Orchestrator_proofs -------------------------
(***************************************************************************)
(* Theorems about the whole flow, for any number of servers, units and     *)
(* requests, and whatever faults happen: its types, and that each of its   *)
(* steps is a step of the active-conditions store or leaves it alone.      *)
(***************************************************************************)
EXTENDS Orchestrator, ConditionStore_proofs, FiniteSetTheorems

-----------------------------------------------------------------------------
(* The inductive invariant: the type invariant, and what the program       *)
(* counters of requests and loops say of the conditions they work on.      *)

\* The condition of a request that is under way is the first of its unit.
FirstOfUnit(i) == i \in Items /\ units[i.id] # NoWork /\ i.kind = units[i.id][1]

RequestInv ==
    /\ request \in [Creators -> [pc : {"creating", "publishing", "marking"}, item : Items]
                                   \cup {IdleRequest}]
    /\ \A c \in Creators : request[c] # IdleRequest => FirstOfUnit(request[c].item)

StatusInv ==
    /\ published \in [Items -> Nat]
    /\ job \in [Items -> {"none", "running", "silent", "dead", "finished"}]
    /\ status \in [Items -> [state : States, stale : BOOLEAN] \cup {NoStatus}]
    /\ feed \in [Kinds -> Seq(Events)]

LoopStates == {"idle", "listing", "next", "merging", "updating", "history", "deleting",
               "following", "publishing", "accepted", "rejected", "retry"}

\* A loop that works on an event has one, and writes only outcomes to the history.
LoopInv ==
    /\ loop \in [Loops -> [pc : LoopStates, evt : Events \cup {NoEvent}, next : Items \cup {NoItem}]]
    /\ \A p \in Loops :
          /\ loop[p].pc \notin {"idle", "listing", "next"} => loop[p].evt \in Events
          /\ loop[p].pc = "history" => loop[p].evt.state \in {Failed, Succeeded}
    /\ scan \subseteq Kinds
    /\ todo \subseteq Events
    /\ history \in [Items -> SUBSET {Failed, Succeeded}]

FlowInv ==
    /\ StoreTypeOK
    /\ RequestInv
    /\ StatusInv
    /\ LoopInv
    /\ faults \in 0 .. MaxFaults

\* The invariant contains the type invariant.
LEMMA FlowInvTypes == FlowInv => TypeOK
  BY DEF FlowInv, RequestInv, StatusInv, LoopInv, LoopStates, TypeOK

-----------------------------------------------------------------------------
(* The sequences of events in the feeds                                    *)

LEMMA ItemsFinite == IsFiniteSet(Items)
<1> DEFINE keys == (Servers \X IDs) \X Kinds
           f == [t \in keys |-> Item(t[1][1], t[1][2], t[2])]
<1>1. IsFiniteSet(keys)
  BY FiniteAssumption, FS_Product
<1>2. f \in [keys -> Items]
  BY DEF Items, Item
<1>3. \A i \in Items : \E t \in keys : f[t] = i
  <2> TAKE i \in Items
  <2>1. <<<<i.server, i.id>>, i.kind>> \in keys
    BY DEF Items
  <2>2. f[<<<<i.server, i.id>>, i.kind>>] = i
    BY <2>1 DEF Items, Item
  <2> QED
    BY <2>1, <2>2
<1>4. f \in Surjection(keys, Items)
  BY <1>2, <1>3 DEF Surjection
<1> QED
  BY <1>1, <1>4, FS_Surjection

\* A finite set can be put in a sequence.
LEMMA SetToSeqIsSeq ==
    ASSUME NEW S, IsFiniteSet(S)
    PROVE  SetToSeq(S) \in Seq(S)
<1>1. Cardinality(S) \in Nat /\ ExistsBijection(1 .. Cardinality(S), S)
  BY FS_CardinalityType
<1>2. \E f \in [1 .. Cardinality(S) -> S] : IsInjective(f)
  BY <1>1 DEF ExistsBijection, Bijection, Injection
<1>3. SetToSeq(S) \in [1 .. Cardinality(S) -> S]
  BY <1>2 DEF SetToSeq
<1> QED
  BY <1>1, <1>3, SeqDef

\* What a new watcher delivers are events.
LEMMA EntriesAreEvents ==
    ASSUME StatusInv, NEW k \in Kinds
    PROVE  SetToSeq(Entries(k)) \in Seq(Events)
<1>1. IsFiniteSet(GetAllConditions(k))
  BY ItemsFinite, FS_Subset DEF GetAllConditions
<1>2. Entries(k) \subseteq Events
  BY DEF Entries, GetAllConditions, Event, Events, StatusInv
<1>3. IsFiniteSet(Entries(k))
  <2> DEFINE f == [i \in GetAllConditions(k) |-> Event(i, status[i].state)]
  <2>1. f \in Surjection(GetAllConditions(k), Entries(k))
    BY DEF Surjection, Entries
  <2> QED
    BY <1>1, <2>1, FS_Surjection
<1>4. SetToSeq(Entries(k)) \in Seq(Entries(k))
  BY <1>3, SetToSeqIsSeq
<1> QED
  BY <1>2, <1>4, SeqMonotonic

\* Leaving out an element of a sequence gives a sequence.
LEMMA RemoveAtIsSeq ==
    ASSUME NEW S, NEW q \in Seq(S), NEW n \in DOMAIN q
    PROVE  RemoveAt(q, n) \in Seq(S)
<1>1. Len(q) \in Nat /\ n \in 1 .. Len(q) /\ \A i \in 1 .. Len(q) : q[i] \in S
  BY LenProperties, ElementOfSeq
<1>2. SubSeq(q, 1, n - 1) \in Seq(S)
  BY <1>1, SubSeqProperties
<1>3. SubSeq(q, n + 1, Len(q)) \in Seq(S)
  BY <1>1, SubSeqProperties
<1> QED
  BY <1>2, <1>3, ConcatProperties DEF RemoveAt
-----------------------------------------------------------------------------
(* Every step is one of the store's, or leaves the store alone             *)

\* A request calls Create and, when it marks its condition, Update.
LEMMA RequestStepsStore ==
    ASSUME FlowInv, NEW c \in Creators, RequestStep(c)
    PROVE  [StoreNext]_storeVars
<1>0. c \in Updaters
  BY CallersAssumption
<1>1. ASSUME NEW s \in Servers, NEW work \in Works, Submit(c, s, work)
      PROVE  StoreNext
  BY <1>1 DEF Submit, StoreNext
<1>2. CASE Stored(c)
  BY <1>2 DEF Stored, StoreNext
<1>3. CASE StoreFails(c)
  BY <1>3 DEF StoreFails, StoreNext
<1>4. CASE PublishFirst(c)
  BY <1>4 DEF PublishFirst
<1>5. CASE MarkGet(c)
  <2> DEFINE i == request[c].item
             upd == UpdateOf(Event(i, Failed))
  <2>1. FirstOfUnit(i)
    BY <1>5 DEF MarkGet, RequestAt, FlowInv, RequestInv, IdleRequest
  <2>2. i.server \in Servers /\ i.id \in IDs /\ upd = Unpublished(i.id)
    BY <2>1 DEF FirstOfUnit, Items, UpdateOf, Event, Unpublished
  <2>3. ReadForUpdate(c, i.server, upd) \/ UNCHANGED storeVars
    BY <1>5 DEF MarkGet
  <2>4. ReadForUpdate(c, i.server, upd) => MarkUnpublished(c, i.server, i.id)
    BY <1>5, <2>1, <2>2 DEF MarkGet, MarkUnpublished, FirstOfUnit
  <2> QED
    BY <1>0, <2>2, <2>3, <2>4 DEF StoreNext
<1>6. CASE MarkPut(c)
  BY <1>0, <1>6 DEF MarkPut, StoreNext
<1> QED
  BY <1>1, <1>2, <1>3, <1>4, <1>5, <1>6 DEF RequestStep

\* Publisher and reconciler call Update.
LEMMA EventStepsStore ==
    ASSUME FlowInv, NEW p \in Loops, EventStep(p)
    PROVE  [StoreNext]_storeVars
<1>0. p \in Updaters
  BY CallersAssumption
<1>1. CASE MergeEvent(p)
  <2> DEFINE upd == UpdateOf(loop[p].evt)
             s   == ItemOf(p).server
  <2>1. loop[p].evt \in Events
    BY <1>1 DEF MergeEvent, LoopAt, FlowInv, LoopInv
  <2>2. s \in Servers /\ upd \in Update
    BY <2>1 DEF ItemOf, UpdateOf, Events, Items, Update
  <2>3. MergeUpdate(p, s, upd) \/ UNCHANGED storeVars
    BY <1>1 DEF MergeEvent
  <2> QED
    BY <1>0, <2>2, <2>3 DEF StoreNext
<1>2. CASE CommitGet(p)
  BY <1>0, <1>2 DEF CommitGet, StoreNext
<1>3. CASE CommitPut(p)
  BY <1>0, <1>3 DEF CommitPut, StoreNext
<1>4. CASE WriteHistory(p) \/ DeleteStatus(p) \/ QueueFollowing(p) \/ PublishFollowing(p)
  BY <1>4 DEF WriteHistory, WriteEventHistory, DeleteStatus, DeleteCondition, QueueFollowing, PublishFollowing
<1> QED
  BY <1>1, <1>2, <1>3, <1>4 DEF EventStep

LEMMA NextImplementsStore ==
    ASSUME FlowInv, [Next]_vars
    PROVE  [StoreNext]_storeVars
<1>1. CASE UNCHANGED vars
  BY <1>1 DEF vars
<1>2. ASSUME NEW c \in Creators, RequestStep(c)
      PROVE  [StoreNext]_storeVars
  BY <1>2, RequestStepsStore
<1>3. CASE ApiCrash
  <2>1. Creators \in SUBSET Creators /\ Creators \in SUBSET Updaters
    BY CallersAssumption
  <2> QED
    BY <1>3, <2>1 DEF ApiCrash, StoreNext
<1>4. ASSUME NEW i \in Items, JobStep(i) \/ LoseController(i) \/ GrowStale(i)
      PROVE  [StoreNext]_storeVars
  BY <1>4 DEF JobStep, StartJob, FinishJob, LoseController, GrowStale
<1>5. ASSUME NEW k \in Kinds, Coalesce(k) \/ RefreshWatcher(k)
      PROVE  [StoreNext]_storeVars
  BY <1>5 DEF Coalesce, RefreshWatcher
<1>6. ASSUME NEW p \in Loops, EventStep(p)
      PROVE  [StoreNext]_storeVars
  BY <1>6, EventStepsStore
<1>7. CASE PublisherDone \/ StartRound \/ NextEvent \/ ReconcilerDone
  BY <1>7 DEF PublisherDone, StartRound, NextEvent, ReconcilerDone
<1>8. ASSUME NEW k \in Kinds, TakeUpdate(k) \/ ListBucket(k)
      PROVE  [StoreNext]_storeVars
  BY <1>8 DEF TakeUpdate, ListBucket
<1>9. CASE OrchestratorCrash
  <2>1. {} \in SUBSET Creators /\ Loops \in SUBSET Updaters
    BY CallersAssumption
  <2> QED
    BY <1>9, <2>1 DEF OrchestratorCrash, OrchestratorRestarts, StoreNext
<1>10. Publisher \in Loops /\ Reconciler \in Loops
  BY DEF Loops
<1> QED
  BY <1>1, <1>2, <1>3, <1>4, <1>5, <1>6, <1>7, <1>8, <1>9, <1>10
     DEF Next, PublisherStep, ReconcilerStep

-----------------------------------------------------------------------------
(* The invariant is inductive                                              *)

\* What a step must leave alone for a part of the invariant to be kept.
LEMMA RequestInvKept == RequestInv /\ UNCHANGED <<request, units>> => RequestInv'
  BY DEF RequestInv, FirstOfUnit

LEMMA StatusInvKept == StatusInv /\ UNCHANGED <<published, job, status, feed>> => StatusInv'
  BY DEF StatusInv

LEMMA LoopInvKept == LoopInv /\ UNCHANGED <<loop, scan, todo, history>> => LoopInv'
  BY DEF LoopInv

\* Faults are counted up to their bound.
LEMMA FaultsBounded ==
    ASSUME faults \in 0 .. MaxFaults, NEW f, Fault(f) \/ NoFault
    PROVE  faults' \in 0 .. MaxFaults
  BY MaxFaultsAssumption DEF Fault, NoFault

LEMMA FlowInvInit == Init => FlowInv
<1> SUFFICES ASSUME Init PROVE FlowInv
  OBVIOUS
<1>1. StoreTypeOK
  BY StoreTypeInit DEF Init
<1>2. RequestInv
  BY DEF Init, RequestInv
<1>3. StatusInv
  BY EmptySeq DEF Init, StatusInv
<1>4. LoopInv
  BY DEF Init, LoopInv, LoopStates, IdleLoop, NoEvent
<1>5. faults \in 0 .. MaxFaults
  BY MaxFaultsAssumption DEF Init
<1> QED
  BY <1>1, <1>2, <1>3, <1>4, <1>5 DEF FlowInv

\* The request of a creator keeps the parts of the invariant.
LEMMA RequestStepInv ==
    ASSUME FlowInv, NEW c \in Creators, RequestStep(c)
    PROVE  RequestInv' /\ StatusInv' /\ LoopInv' /\ faults' \in 0 .. MaxFaults
<1> USE DEF FlowInv
<1>0. LoopInv' /\ UNCHANGED <<job, status, feed>>
  BY LoopInvKept
     DEF RequestStep, Submit, Stored, StoreFails, PublishFirst, MarkGet, MarkPut
<1>1. ASSUME NEW s \in Servers, NEW work \in Works, Submit(c, s, work)
      PROVE  RequestInv'
  <2>1. PICK id \in IDs :
           /\ units[id] = NoWork
           /\ units' = [units EXCEPT ![id] = work]
           /\ create' = [create EXCEPT ![c] = [server |-> s, rec |-> NewRecord(id, work)]]
    BY <1>1 DEF Submit, CreateGet
  <2>2. create'[c].rec.id = id
    BY <2>1, NewRecordIsRecord DEF StoreTypeOK
  <2>3. work # NoWork /\ work[1] \in Kinds
    BY WorksAssumption, EmptySeq, LenProperties, ElementOfSeq DEF NoWork
  <2>4. request' = [request EXCEPT ![c] = [pc |-> "creating", item |-> Item(s, id, work[1])]]
    BY <1>1, <2>2 DEF Submit
  <2>5. Item(s, id, work[1]) \in Items
    BY <2>3 DEF Item, Items
  <2>6. FirstOfUnit(Item(s, id, work[1]))'
    BY <2>1, <2>3, <2>5 DEF FirstOfUnit, Item, StoreTypeOK
  <2>7. \A i \in Items : FirstOfUnit(i) => FirstOfUnit(i)'
    BY <2>1 DEF FirstOfUnit, Items, StoreTypeOK
  <2>8. ASSUME NEW d \in Creators, request'[d] # IdleRequest
        PROVE  FirstOfUnit(request[d].item)'
    <3>1. CASE d = c
      BY <2>4, <2>6, <3>1 DEF RequestInv
    <3>2. CASE d # c
      <4>1. request'[d] = request[d]
        BY <2>4, <3>2 DEF RequestInv
      <4>2. FirstOfUnit(request[d].item)
        BY <2>8, <4>1 DEF RequestInv
      <4> QED
        BY <2>7, <4>1, <4>2 DEF FirstOfUnit
    <3> QED
      BY <3>1, <3>2
  <2>9. request' \in [Creators -> [pc : {"creating", "publishing", "marking"}, item : Items]
                                     \cup {IdleRequest}]
    BY <2>4, <2>5 DEF RequestInv
  <2> QED
    BY <1>1, <2>8, <2>9 DEF Submit, RequestInv
<1>3. ASSUME ~\E s \in Servers, work \in Works : Submit(c, s, work)
      PROVE  RequestInv'
  <2>1. UNCHANGED units
    BY <1>3 DEF RequestStep, Stored, CreatePut, StoreFails, CreateFails, PublishFirst, storeVars,
                MarkGet, ReadForUpdate, MarkPut, UpdatePut, UpdateFails
  <2>2. \/ UNCHANGED request
        \/ RequestEnds(c)
        \/ /\ request[c] # IdleRequest
           /\ RequestTo(c, "publishing") \/ RequestTo(c, "marking")
    BY <1>3 DEF RequestStep, Stored, StoreFails, PublishFirst, MarkGet, MarkPut, RequestAt, IdleRequest
  <2> QED
    BY <2>1, <2>2 DEF RequestInv, FirstOfUnit, RequestEnds, RequestTo, IdleRequest
<1>4. StatusInv'
  <2>1. UNCHANGED published \/ (request[c] # IdleRequest /\ Publish(request[c].item))
    BY DEF RequestStep, Submit, Stored, StoreFails, PublishFirst, MarkGet, MarkPut, RequestAt, IdleRequest
  <2>2. published' \in [Items -> Nat]
    BY <2>1 DEF StatusInv, Publish
  <2> QED
    BY <1>0, <2>2 DEF StatusInv
<1>5. faults' \in 0 .. MaxFaults
  BY FaultsBounded
     DEF RequestStep, Submit, Stored, StoreFails, PublishFirst, MarkGet, MarkPut
<1>6. RequestInv'
  BY <1>1, <1>3
<1> QED
  BY <1>0, <1>4, <1>5, <1>6

\* A report is an event of its bucket.
LEMMA PutStatusInv ==
    ASSUME StatusInv, NEW i \in Items, NEW st \in States, NEW stale \in BOOLEAN,
           PutStatus(i, st, stale)
    PROVE  /\ status' \in [Items -> [state : States, stale : BOOLEAN] \cup {NoStatus}]
           /\ feed' \in [Kinds -> Seq(Events)]
<1>1. i.kind \in Kinds /\ Event(i, st) \in Events
  BY DEF Items, Event, Events
<1>2. Append(feed[i.kind], Event(i, st)) \in Seq(Events)
  BY <1>1, AppendProperties DEF StatusInv
<1> QED
  BY <1>1, <1>2 DEF PutStatus, StatusInv

\* Controllers, time and watchers keep the invariant.
LEMMA SurroundingsInv ==
    ASSUME FlowInv,
           \/ \E i \in Items : JobStep(i) \/ LoseController(i) \/ GrowStale(i)
           \/ \E k \in Kinds : Coalesce(k) \/ RefreshWatcher(k)
    PROVE  RequestInv' /\ StatusInv' /\ LoopInv' /\ faults' \in 0 .. MaxFaults
<1> USE DEF FlowInv
<1>1. UNCHANGED <<storeVars, request, published, loop, scan, todo, history>>
  BY DEF JobStep, StartJob, FinishJob, LoseController, GrowStale, Coalesce, RefreshWatcher
<1>2. RequestInv' /\ LoopInv'
  BY <1>1, RequestInvKept, LoopInvKept DEF storeVars
<1>3. faults' \in 0 .. MaxFaults
  BY FaultsBounded
     DEF JobStep, StartJob, FinishJob, LoseController, GrowStale, Coalesce, RefreshWatcher
<1>4. ASSUME NEW i \in Items, StartJob(i)
      PROVE  StatusInv'
  <2>1. job' = [job EXCEPT ![i] = "running"]
        /\ (PutStatus(i, Active, FALSE) \/ PutStatus(i, Active, TRUE))
    BY <1>4 DEF StartJob
  <2> QED
    BY <1>1, <2>1, PutStatusInv DEF StatusInv, States
<1>5. ASSUME NEW i \in Items, NEW st \in {Failed, Succeeded}, FinishJob(i, st)
      PROVE  StatusInv'
  <2>1. job' = [job EXCEPT ![i] = "finished"]
        /\ (PutStatus(i, st, FALSE) \/ UNCHANGED <<status, feed>>)
    BY <1>5 DEF FinishJob
  <2> QED
    BY <1>1, <2>1, PutStatusInv DEF StatusInv, States
<1>6. ASSUME NEW i \in Items, LoseController(i)
      PROVE  StatusInv'
  BY <1>6 DEF LoseController, StatusInv
<1>7. ASSUME NEW i \in Items, GrowStale(i)
      PROVE  StatusInv'
  BY <1>7 DEF GrowStale, StatusInv
<1>8. ASSUME NEW k \in Kinds, Coalesce(k)
      PROVE  StatusInv'
  <2>1. PICK n \in DOMAIN feed[k] : feed' = [feed EXCEPT ![k] = RemoveAt(@, n)]
    BY <1>8 DEF Coalesce
  <2>2. RemoveAt(feed[k], n) \in Seq(Events)
    BY RemoveAtIsSeq DEF StatusInv
  <2> QED
    BY <1>8, <2>1, <2>2 DEF Coalesce, StatusInv
<1>9. ASSUME NEW k \in Kinds, RefreshWatcher(k)
      PROVE  StatusInv'
  BY <1>9, EntriesAreEvents DEF RefreshWatcher, StatusInv
<1>10. StatusInv'
  BY <1>4, <1>5, <1>6, <1>7, <1>8, <1>9 DEF JobStep
<1> QED
  BY <1>2, <1>3, <1>10

\* A step of eventUpdate keeps the invariant.
LEMMA EventStepInv ==
    ASSUME FlowInv, NEW p \in Loops, EventStep(p)
    PROVE  RequestInv' /\ StatusInv' /\ LoopInv' /\ faults' \in 0 .. MaxFaults
<1> USE DEF FlowInv
<1>1. UNCHANGED <<request, units, job, feed, scan, todo>>
  BY DEF EventStep, MergeEvent, MergeUpdate, CommitGet, UpdateGet, ReadForUpdate, UpdateRefused,
         UpdateFails, CommitPut, UpdatePut, WriteHistory, WriteEventHistory, DeleteStatus, DeleteCondition, QueueFollowing,
         PublishFollowing, storeVars
<1>2. RequestInv'
  BY <1>1, RequestInvKept
<1>3. faults' \in 0 .. MaxFaults
  BY FaultsBounded
     DEF EventStep, MergeEvent, CommitGet, CommitPut, WriteHistory, WriteEventHistory, DeleteStatus, DeleteCondition, QueueFollowing,
         PublishFollowing
<1>4. StatusInv'
  <2>1. \/ UNCHANGED <<published, status>>
        \/ Publish(loop[p].next) /\ UNCHANGED status
        \/ status' = [status EXCEPT ![ItemOf(p)] = NoStatus] /\ UNCHANGED published
    BY DEF EventStep, MergeEvent, CommitGet, CommitPut, WriteHistory, WriteEventHistory, DeleteStatus, DeleteCondition, QueueFollowing,
           PublishFollowing
  <2>2. published' \in [Items -> Nat]
    BY <2>1 DEF StatusInv, Publish
  <2>3. status' \in [Items -> [state : States, stale : BOOLEAN] \cup {NoStatus}]
    BY <2>1 DEF StatusInv
  <2> QED
    BY <1>1, <2>2, <2>3 DEF StatusInv
<1>5. LoopInv'
  <2>1. loop[p].evt \in Events /\ loop[p].evt.state \in States
    BY DEF LoopInv, EventStep, MergeEvent, CommitGet, CommitPut, WriteHistory, WriteEventHistory, DeleteStatus, DeleteCondition,
           QueueFollowing, PublishFollowing, LoopAt, Events
  <2>2. \/ \E pc \in LoopStates \ {"history"} : LoopTo(p, pc)
        \/ LoopTo(p, "history") /\ loop[p].evt.state \in {Failed, Succeeded}
        \/ \E i \in Items : loop' = [loop EXCEPT ![p].pc = "publishing", ![p].next = i]
        \/ UNCHANGED loop
    BY DEF EventStep, MergeEvent, CommitGet, CommitPut, WriteHistory, WriteEventHistory, DeleteStatus, DeleteCondition, QueueFollowing,
           PublishFollowing, LoopStates, StateIsComplete
  <2>3. loop' \in [Loops -> [pc : LoopStates, evt : Events \cup {NoEvent}, next : Items \cup {NoItem}]]
    BY <2>2 DEF LoopInv, LoopTo, LoopStates
  <2>4. \A q \in Loops :
          /\ loop'[q].pc \notin {"idle", "listing", "next"} => loop'[q].evt \in Events
          /\ loop'[q].pc = "history" => loop'[q].evt.state \in {Failed, Succeeded}
    BY <2>1, <2>2 DEF LoopInv, LoopTo, LoopStates
  <2>5. history' \in [Items -> SUBSET {Failed, Succeeded}]
    BY DEF LoopInv, EventStep, MergeEvent, CommitGet, CommitPut, WriteHistory, WriteEventHistory, DeleteStatus, DeleteCondition,
           QueueFollowing, PublishFollowing, LoopAt
  <2> QED
    BY <1>1, <2>3, <2>4, <2>5 DEF LoopInv
<1> QED
  BY <1>2, <1>3, <1>4, <1>5

\* Taking events, and rounds of the reconciler, keep the invariant.
LEMMA LoopStepInv ==
    ASSUME FlowInv,
           \/ PublisherDone \/ StartRound \/ NextEvent \/ ReconcilerDone
           \/ \E k \in Kinds : TakeUpdate(k) \/ ListBucket(k)
    PROVE  RequestInv' /\ StatusInv' /\ LoopInv' /\ faults' \in 0 .. MaxFaults
<1> USE DEF FlowInv
<1>0. Publisher \in Loops /\ Reconciler \in Loops /\ Publisher # Reconciler
  BY CallersAssumption DEF Loops
<1>1. UNCHANGED <<storeVars, request, published, job, history>>
  BY DEF PublisherDone, StartRound, NextEvent, ReconcilerDone, DeleteCondition, TakeUpdate, ListBucket
<1>2. RequestInv'
  BY <1>1, RequestInvKept DEF storeVars
<1>3. faults' \in 0 .. MaxFaults
  BY FaultsBounded DEF PublisherDone, StartRound, NextEvent, ReconcilerDone, DeleteCondition, TakeUpdate, ListBucket
<1>4. CASE PublisherDone
  BY <1>0, <1>1, <1>2, <1>3, <1>4, StatusInvKept
     DEF PublisherDone, LoopInv, LoopStates, IdleLoop
<1>5. CASE StartRound
  BY <1>0, <1>1, <1>2, <1>3, <1>5, StatusInvKept
     DEF StartRound, LoopAt, LoopTo, LoopInv, LoopStates
<1>6. CASE NextEvent
  <2>1. StatusInv'
    BY <1>1, <1>6, StatusInvKept DEF NextEvent
  <2>2. CASE todo = {} /\ UNCHANGED todo /\ loop' = [loop EXCEPT ![Reconciler] = IdleLoop]
    BY <1>0, <1>1, <1>2, <1>3, <1>6, <2>1, <2>2 DEF NextEvent, LoopInv, LoopStates, IdleLoop
  <2>3. ASSUME NEW evt \in todo, todo' = todo \ {evt},
               loop' = [loop EXCEPT ![Reconciler] = [IdleLoop EXCEPT !.pc = "merging", !.evt = evt]]
        PROVE  LoopInv'
    BY <1>0, <1>1, <1>6, <2>3 DEF NextEvent, LoopInv, LoopStates, IdleLoop
  <2> QED
    BY <1>2, <1>3, <1>6, <2>1, <2>2, <2>3 DEF NextEvent
<1>7. CASE ReconcilerDone
  <2>1. status' \in [Items -> [state : States, stale : BOOLEAN] \cup {NoStatus}]
    BY <1>7 DEF ReconcilerDone, DeleteCondition, StatusInv
  <2>2. StatusInv'
    BY <1>1, <1>7, <2>1 DEF ReconcilerDone, StatusInv
  <2>3. LoopInv'
    BY <1>0, <1>1, <1>7 DEF ReconcilerDone, LoopTo, LoopInv, LoopStates
  <2> QED
    BY <1>2, <1>3, <2>2, <2>3
<1>8. ASSUME NEW k \in Kinds, TakeUpdate(k)
      PROVE  StatusInv' /\ LoopInv'
  <2>1. Head(feed[k]) \in Events /\ Tail(feed[k]) \in Seq(Events)
    BY <1>8, HeadTailProperties DEF TakeUpdate, StatusInv
  <2>2. StatusInv'
    BY <1>1, <1>8, <2>1 DEF TakeUpdate, StatusInv
  <2>3. LoopInv'
    BY <1>0, <1>1, <1>8, <2>1 DEF TakeUpdate, LoopInv, LoopStates, IdleLoop
  <2> QED
    BY <2>2, <2>3
<1>9. ASSUME NEW k \in Kinds, ListBucket(k)
      PROVE  StatusInv' /\ LoopInv'
  <2>1. ToReconcile(k) \subseteq Events
    BY DEF ToReconcile, GetAllConditions, NeedsReconciliation, Event, Events, StatusInv, States
  <2>2. StatusInv'
    BY <1>1, <1>9, StatusInvKept DEF ListBucket
  <2>3. \E pc \in {"next", "listing"} : LoopTo(Reconciler, pc)
    BY <1>9 DEF ListBucket
  <2>4. LoopInv'
    BY <1>0, <1>1, <1>9, <2>1, <2>3 DEF ListBucket, LoopTo, LoopInv, LoopStates
  <2> QED
    BY <2>2, <2>4
<1> QED
  BY <1>2, <1>3, <1>4, <1>5, <1>6, <1>7, <1>8, <1>9

\* A restart of the orchestrator keeps the invariant, counted as a fault or not.
LEMMA RestartInv ==
    ASSUME FlowInv, OrchestratorRestarts
    PROVE  RequestInv' /\ StatusInv' /\ LoopInv'
<1> USE DEF FlowInv
<1>1. RequestInv'
  BY RequestInvKept DEF OrchestratorRestarts, CallersDie
<1>2. StatusInv'
  BY EntriesAreEvents DEF OrchestratorRestarts, StatusInv
<1>3. LoopInv'
  BY DEF OrchestratorRestarts, LoopInv, LoopStates, IdleLoop
<1> QED
  BY <1>1, <1>2, <1>3

\* Crashes keep the invariant.
LEMMA CrashInv ==
    ASSUME FlowInv, ApiCrash \/ OrchestratorCrash
    PROVE  RequestInv' /\ StatusInv' /\ LoopInv' /\ faults' \in 0 .. MaxFaults
<1>1. faults' \in 0 .. MaxFaults
  BY FaultsBounded DEF FlowInv, ApiCrash, OrchestratorCrash, OrchestratorRestarts
<1>2. CASE ApiCrash
  BY <1>1, <1>2, StatusInvKept, LoopInvKept DEF FlowInv, ApiCrash, RequestInv
<1>3. CASE OrchestratorCrash
  BY <1>1, <1>3, RestartInv DEF OrchestratorCrash
<1> QED
  BY <1>2, <1>3

LEMMA FlowInvStep == FlowInv /\ [Next]_vars => FlowInv'
<1> SUFFICES ASSUME FlowInv, [Next]_vars
             PROVE  FlowInv'
  OBVIOUS
<1>1. StoreTypeOK'
  BY NextImplementsStore, StoreTypeStep DEF FlowInv
<1>2. CASE UNCHANGED vars
  BY <1>1, <1>2, RequestInvKept, StatusInvKept, LoopInvKept DEF FlowInv, vars, flowVars, storeVars
<1>3. CASE Next
  <2>1. Publisher \in Loops /\ Reconciler \in Loops
    BY DEF Loops
  <2>2. RequestInv' /\ StatusInv' /\ LoopInv' /\ faults' \in 0 .. MaxFaults
    BY <1>3, <2>1, RequestStepInv, SurroundingsInv, EventStepInv, LoopStepInv, CrashInv
       DEF Next, PublisherStep, ReconcilerStep
  <2> QED
    BY <1>1, <2>2 DEF FlowInv
<1> QED
  BY <1>2, <1>3

LEMMA FlowInvariant == Spec => []FlowInv
  BY FlowInvInit, FlowInvStep, PTL DEF Spec

-----------------------------------------------------------------------------
(* Theorems                                                                *)

\* Every variable of the flow always holds a value of its kind.
THEOREM FlowTypeCorrect == Spec => []TypeOK
  BY FlowInvariant, FlowInvTypes, PTL

\* Whatever happens, requests, publisher and reconciler use the store as its
\* specification says: every call of theirs is a Create or an Update of nats.go,
\* step by step.
THEOREM FlowImplementsStore == Spec => StoreSpec
<1>1. Init => StoreInit
  BY DEF Init
<1>2. FlowInv /\ [Next]_vars => [StoreNext]_storeVars
  BY NextImplementsStore
<1> QED
  BY <1>1, <1>2, FlowInvariant, PTL DEF Spec, StoreSpec

\* In the whole flow a record keeps the work its request asked for.
THEOREM FlowPreservesWork == Spec => []WorkPreserved
  BY FlowImplementsStore, WorkIsPreserved, PTL

\* In the whole flow a record is failed exactly when one of its conditions is.
THEOREM FlowSharesFailure == Spec => []FailedIffConditionFailed
  BY FlowImplementsStore, FailureIsShared, PTL

\* In the whole flow a server is locked only while there is work left.
THEOREM FlowNoIdleLock == Spec => []LockedForSomething
  BY FlowImplementsStore, NoIdleLock, PTL

=============================================================================
