------------------------ MODULE ConditionStore_proofs ------------------------
(***************************************************************************)
(* Theorems about the active-conditions store, for any number of servers,  *)
(* units of work and callers.                                              *)
(***************************************************************************)
EXTENDS ConditionStore, SequenceTheorems, TLAPS

-----------------------------------------------------------------------------
(* Lemmas about the operators of Conditions *)

\* A new record is a record, with every condition pending and the kinds of
\* its work in their order.
LEMMA NewRecordIsRecord ==
    ASSUME NEW id \in IDs, NEW work \in Works
    PROVE  /\ NewRecord(id, work) \in RecordOf(IDs)
           /\ NewRecord(id, work).id = id
           /\ NewRecord(id, work).state = Pending
           /\ KindsOf(NewRecord(id, work)) = work
           /\ Len(NewRecord(id, work).conds) = Len(work)
           /\ DOMAIN NewRecord(id, work).conds = DOMAIN work
           /\ \A i \in DOMAIN work : NewRecord(id, work).conds[i].state = Pending
<1> DEFINE conds == [i \in DOMAIN work |-> [kind |-> work[i], state |-> Pending]]
<1>1. work \in Seq(Kinds) /\ Len(work) \in Nat /\ DOMAIN work = 1 .. Len(work)
  BY WorksAssumption, LenProperties
<1>2. conds \in [1 .. Len(work) -> Condition]
  BY <1>1, ElementOfSeq DEF Condition, States
<1>3. conds \in Seq(Condition)
  BY <1>1, <1>2, SeqDef
<1>4. Len(conds) = Len(work)
  BY <1>1, <1>3, LenProperties
<1>5. KindsOf(NewRecord(id, work)) = work
  BY <1>1 DEF KindsOf, NewRecord
<1> QED
  BY <1>1, <1>3, <1>4, <1>5 DEF NewRecord, RecordOf, States

\* What the domain of a record's conditions looks like.
LEMMA RecordDomain ==
    ASSUME NEW rec \in RecordOf(IDs)
    PROVE  /\ Len(rec.conds) \in Nat
           /\ DOMAIN rec.conds = 1 .. Len(rec.conds)
           /\ \A i \in DOMAIN rec.conds : rec.conds[i] \in Condition
  BY LenProperties, ElementOfSeq DEF RecordOf

\* An update leaves a record a record, with the same ID and the same kinds.
LEMMA ApplyUpdateIsRecord ==
    ASSUME NEW rec \in RecordOf(IDs), NEW upd \in Update
    PROVE  /\ ApplyUpdate(rec, upd) \in RecordOf(IDs)
           /\ ApplyUpdate(rec, upd).id = rec.id
           /\ DOMAIN ApplyUpdate(rec, upd).conds = DOMAIN rec.conds
           /\ Len(ApplyUpdate(rec, upd).conds) = Len(rec.conds)
           /\ KindsOf(ApplyUpdate(rec, upd)) = KindsOf(rec)
<1> DEFINE conds == ApplyUpdate(rec, upd).conds
<1>1. conds = [i \in DOMAIN rec.conds |->
                   IF Replaced(rec, upd, i)
                   THEN [kind |-> upd.kind, state |-> upd.state]
                   ELSE rec.conds[i]]
  BY DEF ApplyUpdate
<1>2. [kind |-> upd.kind, state |-> upd.state] \in Condition
  BY DEF Condition, Update
<1>3. conds \in [1 .. Len(rec.conds) -> Condition]
  BY <1>1, <1>2, RecordDomain
<1>4. conds \in Seq(Condition)
  BY <1>3, RecordDomain, SeqDef
<1>5. Len(conds) = Len(rec.conds)
  BY <1>3, <1>4, RecordDomain, LenProperties
<1>6. KindsOf(ApplyUpdate(rec, upd)) = KindsOf(rec)
  <2>1. \A i \in DOMAIN rec.conds : conds[i].kind = rec.conds[i].kind
    BY <1>1 DEF Replaced
  <2> QED
    BY <1>1, <2>1 DEF KindsOf
<1>7. ApplyUpdate(rec, upd).id = rec.id /\ ApplyUpdate(rec, upd).state \in States
  BY DEF ApplyUpdate, RecordOf, Update
<1>8. ApplyUpdate(rec, upd) = [id |-> rec.id, state |-> ApplyUpdate(rec, upd).state, conds |-> conds]
  BY DEF ApplyUpdate
<1> QED
  BY <1>1, <1>4, <1>5, <1>6, <1>7, <1>8 DEF RecordOf

-----------------------------------------------------------------------------
(* Type correctness *)

\* Marking a condition unpublished is an update of the store.
LEMMA UnpublishedIsUpdate ==
    ASSUME StoreTypeOK, NEW id \in IDs, units[id] # NoWork
    PROVE  /\ units[id] \in Works
           /\ 1 \in DOMAIN units[id]
           /\ Unpublished(id) \in Update
<1>1. units[id] \in Works
  BY DEF StoreTypeOK
<1>2. units[id] \in Seq(Kinds) /\ 1 \in DOMAIN units[id]
  BY <1>1, WorksAssumption, LenProperties, EmptySeq DEF NoWork
<1>3. units[id][1] \in Kinds
  BY <1>2, ElementOfSeq, LenProperties
<1> QED
  BY <1>1, <1>2, <1>3 DEF Unpublished, Update, States

\* The step all updates share keeps the types.
LEMMA ReadTypeStep ==
    ASSUME StoreTypeOK, NEW u \in Updaters, NEW s \in Servers, NEW upd \in Update,
           ReadForUpdate(u, s, upd)
    PROVE  StoreTypeOK'
<1> USE DEF StoreTypeOK
<1>1. bucket[s] \in RecordOf(IDs)
  BY DEF ReadForUpdate, UpdateAllowed, InProgress
<1>2. ApplyUpdate(bucket[s], upd) \in RecordOf(IDs)
  BY <1>1, ApplyUpdateIsRecord
<1> QED
  BY <1>2 DEF ReadForUpdate, Call

LEMMA StoreTypeInit == StoreInit => StoreTypeOK
  BY DEF StoreInit, StoreTypeOK

LEMMA StoreTypeStep == StoreTypeOK /\ [StoreNext]_storeVars => StoreTypeOK'
<1> SUFFICES ASSUME StoreTypeOK, [StoreNext]_storeVars
             PROVE  StoreTypeOK'
  OBVIOUS
<1> USE DEF StoreTypeOK
<1>1. CASE UNCHANGED storeVars
  BY <1>1 DEF storeVars
<1>2. ASSUME NEW c \in Creators, NEW s \in Servers, NEW work \in Works, CreateGet(c, s, work)
      PROVE  StoreTypeOK'
  <2>1. PICK id \in IDs :
           /\ units' = [units EXCEPT ![id] = work]
           /\ create' = [create EXCEPT ![c] = [server |-> s, rec |-> NewRecord(id, work)]]
    BY <1>2 DEF CreateGet
  <2>2. NewRecord(id, work) \in RecordOf(IDs)
    BY NewRecordIsRecord
  <2> QED
    BY <1>2, <2>1, <2>2 DEF CreateGet
<1>3. ASSUME NEW c \in Creators, CreatePut(c)
      PROVE  StoreTypeOK'
  BY <1>3 DEF CreatePut
<1>4. ASSUME NEW c \in Creators, CreateFails(c)
      PROVE  StoreTypeOK'
  BY <1>4 DEF CreateFails
<1>5. ASSUME NEW u \in Updaters, NEW s \in Servers, NEW upd \in Update, MergeUpdate(u, s, upd)
      PROVE  StoreTypeOK'
  BY <1>5 DEF MergeUpdate, Call
<1>6. ASSUME NEW u \in Updaters, UpdateGet(u)
      PROVE  StoreTypeOK'
  <2>1. update[u].server \in Servers /\ update[u].upd \in Update
    BY <1>6 DEF UpdateGet, NoUpdate, Call
  <2> QED
    BY <1>6, <2>1, ReadTypeStep DEF UpdateGet
<1>7. ASSUME NEW u \in Updaters, UpdateRefused(u)
      PROVE  StoreTypeOK'
  BY <1>7 DEF UpdateRefused
<1>8. ASSUME NEW u \in Updaters, UpdatePut(u)
      PROVE  StoreTypeOK'
  BY <1>8 DEF UpdatePut, NoUpdate, Call
<1>9. ASSUME NEW u \in Updaters, UpdateFails(u)
      PROVE  StoreTypeOK'
  BY <1>9 DEF UpdateFails
<1>10. ASSUME NEW s \in Servers, Expire(s)
       PROVE  StoreTypeOK'
  BY <1>10 DEF Expire
<1>11. ASSUME NEW u \in Updaters, NEW s \in Servers, NEW id \in IDs, MarkUnpublished(u, s, id)
       PROVE  StoreTypeOK'
  BY <1>11, UnpublishedIsUpdate, ReadTypeStep DEF MarkUnpublished
<1>12. ASSUME NEW cs \in SUBSET Creators, NEW us \in SUBSET Updaters, CallersDie(cs, us)
       PROVE  StoreTypeOK'
  BY <1>12 DEF CallersDie
<1> QED
  BY <1>1, <1>2, <1>3, <1>4, <1>5, <1>6, <1>7, <1>8, <1>9, <1>10, <1>11, <1>12 DEF StoreNext

\* Every variable of the store always holds a value of its kind.
THEOREM StoreTypeCorrect == StoreSpec => []StoreTypeOK
  BY StoreTypeInit, StoreTypeStep, PTL DEF StoreSpec

-----------------------------------------------------------------------------
(* What every record has, whoever calls the store                          *)

\* The shape of one record: failed exactly when a condition is, and with an
\* incomplete last condition as long as it is in progress.
WellFormed(rec) ==
    /\ rec.state = Failed <=> \E i \in DOMAIN rec.conds : rec.conds[i].state = Failed
    /\ InProgress(rec) => ~StateIsComplete(rec.conds[Len(rec.conds)].state)

\* The record is of a unit some Create was started for, and has its work.
HasItsWork(rec) == units[rec.id] # NoWork /\ KindsOf(rec) = units[rec.id]

\* The update is of a condition of its unit.
HasItsKind(upd) ==
    /\ units[upd.id] # NoWork
    /\ \E i \in DOMAIN units[upd.id] : units[upd.id][i] = upd.kind

RecordInv ==
    /\ \A rec \in AllRecords : WellFormed(rec) /\ HasItsWork(rec)
    /\ \A u \in Updaters : update[u] # NoUpdate => HasItsKind(update[u].upd)

LEMMA NewRecordWellFormed ==
    ASSUME NEW id \in IDs, NEW work \in Works
    PROVE  WellFormed(NewRecord(id, work))
<1> DEFINE rec == NewRecord(id, work)
<1>1. Len(work) \in Nat /\ DOMAIN work = 1 .. Len(work) /\ Len(work) # 0
  BY WorksAssumption, LenProperties, EmptySeq DEF NoWork
<1>2. rec.state = Pending /\ \A i \in DOMAIN rec.conds : rec.conds[i].state = Pending
  BY NewRecordIsRecord
<1>3. Len(rec.conds) \in DOMAIN rec.conds
  BY <1>1, NewRecordIsRecord
<1> QED
  BY <1>2, <1>3 DEF WellFormed, InProgress, StateIsComplete, Pending, Failed, Succeeded

\* An update of one of its conditions keeps a record in progress well formed.
LEMMA ApplyUpdateWellFormed ==
    ASSUME NEW rec \in RecordOf(IDs), NEW upd \in Update,
           WellFormed(rec), InProgress(rec), DistinctKinds(KindsOf(rec)),
           NEW p \in DOMAIN rec.conds, rec.conds[p].kind = upd.kind
    PROVE  WellFormed(ApplyUpdate(rec, upd))
<1> DEFINE new  == ApplyUpdate(rec, upd)
           last == Len(rec.conds)
<1>1. last \in Nat /\ DOMAIN rec.conds = 1 .. last /\ last \in DOMAIN rec.conds
  BY RecordDomain
<1>2. \A i \in DOMAIN rec.conds : Replaced(rec, upd, i) <=> i = p
  <2>1. \A i \in DOMAIN rec.conds : rec.conds[i].kind = upd.kind => i = p
    BY DEF DistinctKinds, KindsOf
  <2> QED
    BY <1>1, <2>1 DEF Replaced
<1>3. new.conds[p].state = upd.state
  BY <1>2 DEF ApplyUpdate
<1>4. \A i \in DOMAIN rec.conds : i # p => new.conds[i] = rec.conds[i]
  BY <1>2 DEF ApplyUpdate
<1>5. DOMAIN new.conds = DOMAIN rec.conds /\ Len(new.conds) = last
  BY ApplyUpdateIsRecord
<1>6. \A i \in DOMAIN rec.conds : rec.conds[i].state # Failed
  BY DEF WellFormed, InProgress, StateIsComplete
<1>7. ~StateIsComplete(rec.conds[last].state) /\ rec.state # Failed
  BY DEF WellFormed, InProgress, StateIsComplete
<1>8. new.state = IF rec.state = Pending \/ upd.state = Failed \/ last = p
                  THEN upd.state ELSE rec.state
  BY <1>1, <1>2 DEF ApplyUpdate, RecordAdopts
<1>9. (\E i \in DOMAIN new.conds : new.conds[i].state = Failed) <=> upd.state = Failed
  BY <1>3, <1>4, <1>5, <1>6
<1>10. new.state = Failed <=> upd.state = Failed
  BY <1>7, <1>8 DEF Pending, Failed
<1>11. InProgress(new) => ~StateIsComplete(new.conds[last].state)
  <2>1. CASE last = p
    BY <1>3, <1>8, <2>1 DEF InProgress
  <2>2. CASE last # p
    BY <1>1, <1>4, <1>7, <2>2
  <2> QED
    BY <2>1, <2>2
<1> QED
  BY <1>5, <1>9, <1>10, <1>11 DEF WellFormed

\* The kind of an update that merges is one of its record's unit.
LEMMA MergedHasItsKind ==
    ASSUME StoreTypeOK, RecordInv, NEW s \in Servers, NEW upd \in Update,
           MergeExisting(bucket[s], upd)
    PROVE  HasItsKind(upd)
<1> DEFINE rec == bucket[s]
<1>1. PICK i \in DOMAIN rec.conds :
         IsActiveCondition(rec, i) /\ rec.id = upd.id /\ rec.conds[i].kind = upd.kind
  BY DEF MergeExisting
<1>2. rec \in AllRecords
  BY <1>1 DEF IsActiveCondition, InProgress, AllRecords, StoredRecords
<1>3. HasItsWork(rec)
  BY <1>2 DEF RecordInv
<1> QED
  BY <1>1, <1>3 DEF HasItsWork, HasItsKind, KindsOf

LEMMA RecordInvInit == StoreInit => RecordInv
<1> SUFFICES ASSUME StoreInit PROVE RecordInv
  OBVIOUS
<1>1. AllRecords = {}
  BY DEF StoreInit, AllRecords, StoredRecords, PendingPuts, NoCreate, NoUpdate, Call
<1> QED
  BY <1>1 DEF StoreInit, RecordInv

\* A step that puts no new record on its way, starts no unit and leaves each
\* call of Update idle or with the update it had keeps the invariant.
LEMMA RecordInvNoNewRecord ==
    ASSUME RecordInv, AllRecords' \subseteq AllRecords, UNCHANGED units,
           \A u \in Updaters : update'[u] = NoUpdate \/ update'[u] = update[u]
    PROVE  RecordInv'
  BY DEF RecordInv, WellFormed, HasItsWork, HasItsKind, InProgress

\* The step all updates share puts a well-formed record of its unit on its way.
LEMMA RecordInvRead ==
    ASSUME StoreTypeOK, RecordInv, NEW u \in Updaters, NEW s \in Servers, NEW upd \in Update,
           HasItsKind(upd), ReadForUpdate(u, s, upd)
    PROVE  RecordInv'
<1> DEFINE rec == bucket[s]
           new == ApplyUpdate(rec, upd)
<1>1. InProgress(rec) /\ rec.id = upd.id /\ rec \in RecordOf(IDs) /\ rec \in AllRecords
  BY DEF ReadForUpdate, UpdateAllowed, InProgress, StoreTypeOK, AllRecords, StoredRecords
<1>2. WellFormed(rec) /\ HasItsWork(rec)
  BY <1>1 DEF RecordInv
<1>3. units[rec.id] \in Works
  BY <1>1, <1>2 DEF HasItsWork, StoreTypeOK, RecordOf
<1>4. DistinctKinds(KindsOf(rec))
  BY <1>2, <1>3, WorksAssumption DEF HasItsWork
<1>5. PICK p \in DOMAIN rec.conds : rec.conds[p].kind = upd.kind
  BY <1>1, <1>2 DEF HasItsWork, HasItsKind, KindsOf
<1>6. WellFormed(new)
  BY <1>1, <1>2, <1>4, <1>5, ApplyUpdateWellFormed
<1>7. HasItsWork(new)
  BY <1>1, <1>2, ApplyUpdateIsRecord DEF HasItsWork
<1>8. update' = [update EXCEPT ![u] = Call("put", s, upd, new)]
      /\ UNCHANGED <<bucket, units, create>>
  BY DEF ReadForUpdate
<1>9. AllRecords' \subseteq AllRecords \cup {new}
  BY <1>8 DEF StoreTypeOK, Call, AllRecords, StoredRecords, PendingPuts
<1>10. \A v \in Updaters : update'[v] # NoUpdate => HasItsKind(update'[v].upd)
  BY <1>8 DEF RecordInv, StoreTypeOK, Call
<1> QED
  BY <1>6, <1>7, <1>8, <1>9, <1>10 DEF RecordInv, WellFormed, HasItsWork, HasItsKind, InProgress

LEMMA RecordInvStep ==
    StoreTypeOK /\ StoreTypeOK' /\ RecordInv /\ [StoreNext]_storeVars => RecordInv'
<1> SUFFICES ASSUME StoreTypeOK, StoreTypeOK', RecordInv, [StoreNext]_storeVars
             PROVE  RecordInv'
  OBVIOUS
<1> USE DEF AllRecords, StoredRecords, PendingPuts
<1>1. CASE UNCHANGED storeVars
  BY <1>1, RecordInvNoNewRecord DEF storeVars
<1>2. ASSUME NEW c \in Creators, NEW s \in Servers, NEW work \in Works, CreateGet(c, s, work)
      PROVE  RecordInv'
  <2>1. PICK id \in IDs :
           /\ units[id] = NoWork
           /\ units' = [units EXCEPT ![id] = work]
           /\ create' = [create EXCEPT ![c] = [server |-> s, rec |-> NewRecord(id, work)]]
    BY <1>2 DEF CreateGet
  <2> DEFINE new == NewRecord(id, work)
  <2>2. AllRecords' \subseteq AllRecords \cup {new}
    BY <1>2, <2>1 DEF CreateGet, StoreTypeOK
  <2>3. WellFormed(new) /\ new.id = id /\ KindsOf(new) = work /\ work # NoWork
    BY NewRecordWellFormed, NewRecordIsRecord, WorksAssumption
  <2>4. units'[id] = work /\ \A x \in IDs : units[x] # NoWork => units'[x] = units[x]
    BY <2>1 DEF StoreTypeOK
  <2>5. \A rec \in AllRecords : rec.id \in IDs
    BY DEF StoreTypeOK, RecordOf, NoCreate, NoUpdate, Call
  <2>6. ASSUME NEW rec \in AllRecords' PROVE WellFormed(rec) /\ HasItsWork(rec)'
    <3>1. CASE rec = new
      BY <2>3, <2>4, <3>1 DEF HasItsWork
    <3>2. CASE rec \in AllRecords
      BY <2>4, <2>5, <3>2 DEF RecordInv, HasItsWork
    <3> QED
      BY <2>2, <3>1, <3>2
  <2>7. ASSUME NEW u \in Updaters, update'[u] # NoUpdate PROVE HasItsKind(update[u].upd)'
    <3>1. update'[u] = update[u]
      BY <1>2 DEF CreateGet
    <3>2. update[u].upd.id \in IDs /\ HasItsKind(update[u].upd)
      BY <2>7, <3>1 DEF RecordInv, StoreTypeOK, Update
    <3> QED
      BY <2>4, <3>1, <3>2 DEF HasItsKind
  <2> QED
    BY <2>6, <2>7 DEF RecordInv, WellFormed, InProgress
<1>3. ASSUME NEW c \in Creators, CreatePut(c)
      PROVE  RecordInv'
  <2>1. AllRecords' \subseteq AllRecords
    BY <1>3 DEF CreatePut, StoreTypeOK, NoCreate
  <2> QED
    BY <1>3, <2>1, RecordInvNoNewRecord DEF CreatePut
<1>4. ASSUME NEW c \in Creators, CreateFails(c)
      PROVE  RecordInv'
  <2>1. AllRecords' \subseteq AllRecords
    BY <1>4 DEF CreateFails, StoreTypeOK, NoCreate
  <2> QED
    BY <1>4, <2>1, RecordInvNoNewRecord DEF CreateFails
<1>5. ASSUME NEW u \in Updaters, NEW s \in Servers, NEW upd \in Update, MergeUpdate(u, s, upd)
      PROVE  RecordInv'
  <2>1. AllRecords' \subseteq AllRecords
    BY <1>5 DEF MergeUpdate, StoreTypeOK, Call
  <2>2. HasItsKind(upd)
    BY <1>5, MergedHasItsKind DEF MergeUpdate
  <2>3. update' = [update EXCEPT ![u] = Call("merged", s, upd, NoRecord)] /\ UNCHANGED units
    BY <1>5 DEF MergeUpdate
  <2>4. \A v \in Updaters : update'[v] # NoUpdate => HasItsKind(update'[v].upd)
    BY <2>2, <2>3 DEF RecordInv, StoreTypeOK, Call
  <2> QED
    BY <2>1, <2>3, <2>4 DEF RecordInv, WellFormed, HasItsWork, HasItsKind, InProgress
<1>6. ASSUME NEW u \in Updaters, UpdateGet(u)
      PROVE  RecordInv'
  <2>1. update[u] # NoUpdate /\ update[u].server \in Servers /\ update[u].upd \in Update
    BY <1>6 DEF UpdateGet, StoreTypeOK, NoUpdate, Call
  <2>2. HasItsKind(update[u].upd)
    BY <2>1 DEF RecordInv
  <2> QED
    BY <1>6, <2>1, <2>2, RecordInvRead DEF UpdateGet
<1>7. ASSUME NEW u \in Updaters, UpdateRefused(u)
      PROVE  RecordInv'
  <2>1. AllRecords' \subseteq AllRecords
    BY <1>7 DEF UpdateRefused, StoreTypeOK, NoUpdate, Call
  <2> QED
    BY <1>7, <2>1, RecordInvNoNewRecord DEF UpdateRefused, StoreTypeOK
<1>8. ASSUME NEW u \in Updaters, UpdatePut(u)
      PROVE  RecordInv'
  <2>1. AllRecords' \subseteq AllRecords
    BY <1>8 DEF UpdatePut, StoreTypeOK, NoUpdate, Call
  <2> QED
    BY <1>8, <2>1, RecordInvNoNewRecord DEF UpdatePut, StoreTypeOK
<1>9. ASSUME NEW u \in Updaters, UpdateFails(u)
      PROVE  RecordInv'
  <2>1. AllRecords' \subseteq AllRecords
    BY <1>9 DEF UpdateFails, StoreTypeOK, NoUpdate, Call
  <2> QED
    BY <1>9, <2>1, RecordInvNoNewRecord DEF UpdateFails, StoreTypeOK
<1>10. ASSUME NEW s \in Servers, Expire(s)
       PROVE  RecordInv'
  <2>1. AllRecords' \subseteq AllRecords
    BY <1>10 DEF Expire, StoreTypeOK
  <2> QED
    BY <1>10, <2>1, RecordInvNoNewRecord DEF Expire
<1>11. ASSUME NEW u \in Updaters, NEW s \in Servers, NEW id \in IDs, MarkUnpublished(u, s, id)
       PROVE  RecordInv'
  <2>1. units[id] # NoWork /\ 1 \in DOMAIN units[id] /\ Unpublished(id) \in Update
    BY <1>11, UnpublishedIsUpdate DEF MarkUnpublished
  <2>2. HasItsKind(Unpublished(id))
    BY <2>1 DEF HasItsKind, Unpublished
  <2> QED
    BY <1>11, <2>1, <2>2, RecordInvRead DEF MarkUnpublished
<1>12. ASSUME NEW cs \in SUBSET Creators, NEW us \in SUBSET Updaters, CallersDie(cs, us)
       PROVE  RecordInv'
  <2>1. AllRecords' \subseteq AllRecords
    BY <1>12 DEF CallersDie, NoCreate, NoUpdate, Call
  <2> QED
    BY <1>12, <2>1, RecordInvNoNewRecord DEF CallersDie
<1> QED
  BY <1>1, <1>2, <1>3, <1>4, <1>5, <1>6, <1>7, <1>8, <1>9, <1>10, <1>11, <1>12 DEF StoreNext

LEMMA RecordInvariant == StoreSpec => [](StoreTypeOK /\ RecordInv)
<1>1. StoreInit => StoreTypeOK /\ RecordInv
  BY StoreTypeInit, RecordInvInit
<1>2. StoreTypeOK /\ RecordInv /\ [StoreNext]_storeVars => (StoreTypeOK /\ RecordInv)'
  BY StoreTypeStep, RecordInvStep
<1> QED
  BY <1>1, <1>2, PTL DEF StoreSpec

\* However many callers race, an update never changes which conditions a unit
\* is made of.
THEOREM WorkIsPreserved == StoreSpec => []WorkPreserved
<1>1. RecordInv => WorkPreserved
  BY DEF RecordInv, HasItsWork, WorkPreserved
<1> QED
  BY <1>1, RecordInvariant, PTL

\* However many callers race, a record fails with its conditions and only then.
THEOREM FailureIsShared == StoreSpec => []FailedIffConditionFailed
<1>1. RecordInv => FailedIffConditionFailed
  BY DEF RecordInv, WellFormed, FailedIffConditionFailed
<1> QED
  BY <1>1, RecordInvariant, PTL

\* However many callers race, a server is never locked without work to do.
THEOREM NoIdleLock == StoreSpec => []LockedForSomething
<1>1. RecordInv => LockedForSomething
  BY DEF RecordInv, WellFormed, LockedForSomething
<1> QED
  BY <1>1, RecordInvariant, PTL

-----------------------------------------------------------------------------
(* What serialised callers have: the record a call has read is still there *)

\* A Create is about to put a fresh unit on a server without work.
CreatesCurrent ==
    \A c \in Creators : create[c] # NoCreate =>
        /\ ~InProgress(bucket[create[c].server])
        /\ create[c].rec.state = Pending
        /\ \A i \in DOMAIN create[c].rec.conds : create[c].rec.conds[i].state = Pending
        /\ \A s \in Servers : bucket[s].id # create[c].rec.id
        /\ \A d \in Creators : create[d].rec.id = create[c].rec.id => d = c

\* An Update still merges with the record in the bucket, and is about to put
\* that record with the update applied.
UpdatesCurrent ==
    \A u \in Updaters : update[u] # NoUpdate =>
        /\ MergeExisting(bucket[update[u].server], update[u].upd)
        /\ update[u].phase = "put" =>
              update[u].rec = ApplyUpdate(bucket[update[u].server], update[u].upd)

SerialInv ==
    /\ StoreTypeOK
    /\ RecordInv
    /\ Serialised
    /\ CreatesCurrent
    /\ UpdatesCurrent

LEMMA MergeNeedsProgress ==
    ASSUME NEW rec, NEW upd, MergeExisting(rec, upd)
    PROVE  InProgress(rec) /\ rec.id = upd.id
  BY DEF MergeExisting, IsActiveCondition

\* No unit in the bucket or on its way has the ID of a unit yet to start.
LEMMA StartedUnits ==
    ASSUME StoreTypeOK, RecordInv, NEW id \in IDs, units[id] = NoWork
    PROVE  /\ \A s \in Servers : bucket[s].id # id
           /\ \A c \in Creators : create[c].rec.id # id
           /\ \A u \in Updaters : update[u].rec.id # id
<1>1. \A rec \in AllRecords : rec.id # id
  BY DEF RecordInv, HasItsWork
<1>2. NoRecord.id # id
  BY IDsAssumption
<1> QED
  BY <1>1, <1>2 DEF AllRecords, StoredRecords, PendingPuts

LEMMA SerialInvInit == StoreInit => SerialInv
<1> SUFFICES ASSUME StoreInit PROVE SerialInv
  OBVIOUS
<1>1. Serialised /\ CreatesCurrent /\ UpdatesCurrent
  BY DEF StoreInit, Serialised, CreatesCurrent, UpdatesCurrent
<1> QED
  BY <1>1, StoreTypeInit, RecordInvInit DEF SerialInv

LEMMA CreatesCurrentStep ==
    ASSUME SerialInv, StoreTypeOK', Serialised', [StoreNext]_storeVars
    PROVE  CreatesCurrent'
<1> USE DEF SerialInv, StoreTypeOK, CreatesCurrent
<1>1. CASE UNCHANGED storeVars
  BY <1>1 DEF storeVars
<1>2. ASSUME NEW c \in Creators, NEW s \in Servers, NEW work \in Works, CreateGet(c, s, work)
      PROVE  CreatesCurrent'
  <2>1. PICK id \in IDs :
           /\ units[id] = NoWork
           /\ create' = [create EXCEPT ![c] = [server |-> s, rec |-> NewRecord(id, work)]]
    BY <1>2 DEF CreateGet
  <2>2. ~InProgress(bucket[s]) /\ UNCHANGED bucket
    BY <1>2 DEF CreateGet
  <2>3. /\ NewRecord(id, work).id = id /\ NewRecord(id, work).state = Pending
        /\ \A i \in DOMAIN NewRecord(id, work).conds : NewRecord(id, work).conds[i].state = Pending
    BY NewRecordIsRecord
  <2>4. /\ \A t \in Servers : bucket[t].id # id
        /\ \A d \in Creators : create[d].rec.id # id
    BY <2>1, StartedUnits
  <2> QED
    BY <2>1, <2>2, <2>3, <2>4
<1>3. ASSUME NEW c \in Creators, CreatePut(c)
      PROVE  CreatesCurrent'
  <2>1. create[c] # NoCreate /\ create[c].server \in Servers /\ create[c].rec.id # NoRecord.id
    BY <1>3, IDsAssumption DEF CreatePut, RecordOf
  <2>2. \A d \in Creators : create'[d] # NoCreate =>
           d # c /\ create'[d] = create[d] /\ create[d].server # create[c].server
    BY <1>3, <2>1 DEF CreatePut, Serialised
  <2>3. NoCreate.rec.id = NoRecord.id
    BY DEF NoCreate
  <2>4. \A d \in Creators : create[d] # NoCreate => create[d].rec.id # NoRecord.id
    BY IDsAssumption DEF RecordOf
  <2> QED
    BY <1>3, <2>1, <2>2, <2>3, <2>4 DEF CreatePut
<1>4. ASSUME NEW c \in Creators, CreateFails(c)
      PROVE  CreatesCurrent'
  <2>1. NoCreate.rec.id = NoRecord.id
    BY DEF NoCreate
  <2>2. \A d \in Creators : create[d] # NoCreate => create[d].rec.id # NoRecord.id
    BY IDsAssumption DEF RecordOf
  <2> QED
    BY <1>4, <2>1, <2>2 DEF CreateFails
<1>5. ASSUME NEW u \in Updaters, NEW s \in Servers, NEW upd \in Update, MergeUpdate(u, s, upd)
      PROVE  CreatesCurrent'
  BY <1>5 DEF MergeUpdate
<1>6. ASSUME NEW u \in Updaters, UpdateGet(u)
      PROVE  CreatesCurrent'
  BY <1>6 DEF UpdateGet, ReadForUpdate
<1>7. ASSUME NEW u \in Updaters, UpdateRefused(u)
      PROVE  CreatesCurrent'
  BY <1>7 DEF UpdateRefused
<1>8. ASSUME NEW u \in Updaters, UpdatePut(u)
      PROVE  CreatesCurrent'
  <2> DEFINE s == update[u].server
  <2>1. update[u] # NoUpdate /\ s \in Servers /\ update[u].upd \in Update
    BY <1>8 DEF UpdatePut, NoUpdate, Call
  <2>2. bucket[s] \in RecordOf(IDs) /\ InProgress(bucket[s])
    BY <2>1, MergeNeedsProgress DEF UpdatesCurrent, InProgress
  <2>3. update[u].rec.id = bucket[s].id
    BY <1>8, <2>1, <2>2, ApplyUpdateIsRecord DEF UpdatesCurrent, UpdatePut
  <2>4. \A d \in Creators : create[d] # NoCreate => create[d].server # s
    BY <2>2
  <2>5. bucket' = [bucket EXCEPT ![s] = update[u].rec] /\ UNCHANGED create
    BY <1>8 DEF UpdatePut
  <2>6. \A t \in Servers : bucket'[t].id = bucket[t].id
    BY <2>1, <2>3, <2>5
  <2>7. \A d \in Creators : create[d] # NoCreate => bucket'[create[d].server] = bucket[create[d].server]
    BY <2>4, <2>5
  <2> QED
    BY <2>5, <2>6, <2>7
<1>9. ASSUME NEW u \in Updaters, UpdateFails(u)
      PROVE  CreatesCurrent'
  BY <1>9 DEF UpdateFails
<1>10. ASSUME NEW s \in Servers, Expire(s)
       PROVE  CreatesCurrent'
  <2>1. \A d \in Creators : create[d] # NoCreate => create[d].rec.id # NoRecord.id
    BY IDsAssumption DEF RecordOf
  <2> QED
    BY <1>10, <2>1 DEF Expire, InProgress
<1>11. ASSUME NEW u \in Updaters, NEW s \in Servers, NEW id \in IDs, MarkUnpublished(u, s, id)
       PROVE  CreatesCurrent'
  BY <1>11 DEF MarkUnpublished, ReadForUpdate
<1>12. ASSUME NEW cs \in SUBSET Creators, NEW us \in SUBSET Updaters, CallersDie(cs, us)
       PROVE  CreatesCurrent'
  <2>1. NoCreate.rec.id = NoRecord.id
    BY DEF NoCreate
  <2>2. \A d \in Creators : create[d] # NoCreate => create[d].rec.id # NoRecord.id
    BY IDsAssumption DEF RecordOf
  <2>3. \A d \in Creators : create'[d] \in {NoCreate, create[d]}
    BY <1>12 DEF CallersDie
  <2> QED
    BY <1>12, <2>1, <2>2, <2>3 DEF CallersDie
<1> QED
  BY <1>1, <1>2, <1>3, <1>4, <1>5, <1>6, <1>7, <1>8, <1>9, <1>10, <1>11, <1>12 DEF StoreNext

LEMMA UpdatesCurrentStep ==
    ASSUME SerialInv, StoreTypeOK', [SerialNext]_storeVars
    PROVE  UpdatesCurrent'
<1> USE DEF SerialInv, StoreTypeOK, UpdatesCurrent
<1>1. CASE UNCHANGED storeVars
  BY <1>1 DEF storeVars
<1>2. ASSUME NEW c \in Creators, NEW s \in Servers, NEW work \in Works, CreateGet(c, s, work)
      PROVE  UpdatesCurrent'
  BY <1>2 DEF CreateGet
<1>3. ASSUME NEW c \in Creators, CreatePut(c)
      PROVE  UpdatesCurrent'
  <2>1. ~InProgress(bucket[create[c].server])
    BY <1>3 DEF CreatePut, CreatesCurrent
  <2>2. \A u \in Updaters : update[u] # NoUpdate =>
           update[u].server # create[c].server
    BY <2>1, MergeNeedsProgress
  <2> QED
    BY <1>3, <2>2 DEF CreatePut
<1>4. ASSUME NEW c \in Creators, CreateFails(c)
      PROVE  UpdatesCurrent'
  BY <1>4 DEF CreateFails
<1>5. ASSUME NEW u \in Updaters, NEW s \in Servers, NEW upd \in Update, MergeUpdate(u, s, upd)
      PROVE  UpdatesCurrent'
  BY <1>5 DEF MergeUpdate, Call
<1>6. ASSUME NEW u \in Updaters, UpdateGet(u)
      PROVE  UpdatesCurrent'
  <2>1. update[u] # NoUpdate
    BY <1>6 DEF UpdateGet, ReadForUpdate, NoUpdate, Call
  <2>2. MergeExisting(bucket[update[u].server], update[u].upd)
    BY <2>1
  <2>3. /\ update' = [update EXCEPT ![u] =
                        Call("put", update[u].server, update[u].upd,
                             ApplyUpdate(bucket[update[u].server], update[u].upd))]
        /\ UNCHANGED bucket
    BY <1>6 DEF UpdateGet, ReadForUpdate
  <2> QED
    BY <2>2, <2>3 DEF Call
<1>7. ASSUME NEW u \in Updaters, UpdateRefused(u)
      PROVE  UpdatesCurrent'
  BY <1>7 DEF UpdateRefused
<1>8. ASSUME NEW u \in Updaters, UpdatePut(u)
      PROVE  UpdatesCurrent'
  <2>1. update[u] # NoUpdate
    BY <1>8 DEF UpdatePut, NoUpdate, Call
  <2>2. \A v \in Updaters : update'[v] # NoUpdate =>
           v # u /\ update'[v] = update[v] /\ update[v].server # update[u].server
    BY <1>8, <2>1 DEF UpdatePut, Serialised
  <2> QED
    BY <1>8, <2>2 DEF UpdatePut
<1>9. ASSUME NEW u \in Updaters, UpdateFails(u)
      PROVE  UpdatesCurrent'
  BY <1>9 DEF UpdateFails
<1>10. ASSUME NEW s \in Servers, Expire(s)
       PROVE  UpdatesCurrent'
  BY <1>10 DEF Expire
<1>11. ASSUME NEW u \in Updaters, NEW s \in Servers, NEW id \in IDs, MarkUnpublished(u, s, id),
              MergeExisting(bucket[s], Unpublished(id))
       PROVE  UpdatesCurrent'
  <2>1. /\ update' = [update EXCEPT ![u] =
                        Call("put", s, Unpublished(id), ApplyUpdate(bucket[s], Unpublished(id)))]
        /\ UNCHANGED bucket
    BY <1>11 DEF MarkUnpublished, ReadForUpdate
  <2> QED
    BY <1>11, <2>1 DEF Call
<1>12. ASSUME NEW cs \in SUBSET Creators, NEW us \in SUBSET Updaters, CallersDie(cs, us)
       PROVE  UpdatesCurrent'
  <2>1. \A u \in Updaters : update'[u] \in {NoUpdate, update[u]}
    BY <1>12 DEF CallersDie
  <2> QED
    BY <1>12, <2>1 DEF CallersDie
<1> QED
  BY <1>1, <1>2, <1>3, <1>4, <1>5, <1>6, <1>7, <1>8, <1>9, <1>10, <1>11, <1>12
     DEF StoreNext, SerialNext, MarkedIsActive

LEMMA SerialInvStep == SerialInv /\ [SerialNext]_storeVars => SerialInv'
<1> SUFFICES ASSUME SerialInv, [SerialNext]_storeVars PROVE SerialInv'
  OBVIOUS
<1>1. [StoreNext]_storeVars
  BY DEF SerialNext
<1>2. Serialised'
  BY DEF SerialNext, SerialInv, Serialised, storeVars
<1>3. StoreTypeOK'
  BY <1>1, StoreTypeStep DEF SerialInv
<1>4. RecordInv'
  BY <1>1, <1>3, RecordInvStep DEF SerialInv
<1>5. CreatesCurrent' /\ UpdatesCurrent'
  BY <1>1, <1>2, <1>3, CreatesCurrentStep, UpdatesCurrentStep
<1> QED
  BY <1>2, <1>3, <1>4, <1>5 DEF SerialInv

LEMMA SerialInvariant == SerialSpec => []SerialInv
  BY SerialInvInit, SerialInvStep, PTL DEF SerialSpec

-----------------------------------------------------------------------------
(* What the Puts of serialised callers do to the record of their server    *)

\* A Create overwrites a server without work with a fresh unit.
LEMMA CreatePutEffect ==
    ASSUME SerialInv, NEW c \in Creators, CreatePut(c)
    PROVE  /\ create[c].server \in Servers
           /\ create[c].rec.id \in IDs
           /\ InProgress(create[c].rec)
           /\ bucket' = [bucket EXCEPT ![create[c].server] = create[c].rec]
           /\ ~InProgress(bucket[create[c].server])
           /\ bucket[create[c].server].id # create[c].rec.id
<1>1. create[c] # NoCreate
  BY DEF CreatePut
<1>2. create[c].server \in Servers /\ create[c].rec \in RecordOf(IDs) /\ create[c].rec.id \in IDs
  BY <1>1 DEF SerialInv, StoreTypeOK, RecordOf
<1>3. create[c].rec.state = Pending
  BY <1>1 DEF SerialInv, CreatesCurrent
<1>4. InProgress(create[c].rec)
  BY <1>2, <1>3, IDsAssumption
     DEF InProgress, StateIsComplete, Pending, Failed, Succeeded
<1> QED
  BY <1>1, <1>2, <1>4 DEF SerialInv, CreatesCurrent, CreatePut

\* An Update applies a change that merges to the record in the bucket.
LEMMA UpdatePutEffect ==
    ASSUME SerialInv, NEW u \in Updaters, UpdatePut(u)
    PROVE  LET s == update[u].server
           IN  /\ s \in Servers
               /\ update[u].upd \in Update
               /\ bucket[s] \in RecordOf(IDs)
               /\ bucket[s] \in StoredRecords
               /\ InProgress(bucket[s])
               /\ MergeExisting(bucket[s], update[u].upd)
               /\ bucket' = [bucket EXCEPT ![s] = ApplyUpdate(bucket[s], update[u].upd)]
               /\ ApplyUpdate(bucket[s], update[u].upd).id = bucket[s].id
               /\ ApplyUpdate(bucket[s], update[u].upd) \in RecordOf(IDs)
<1> DEFINE s == update[u].server
<1>1. update[u] # NoUpdate /\ s \in Servers /\ update[u].upd \in Update
  BY DEF UpdatePut, SerialInv, StoreTypeOK, NoUpdate, Call
<1>2. MergeExisting(bucket[s], update[u].upd)
  BY <1>1 DEF SerialInv, UpdatesCurrent
<1>3. InProgress(bucket[s])
  BY <1>2, MergeNeedsProgress
<1>4. bucket[s] \in RecordOf(IDs) /\ bucket[s] \in StoredRecords
  BY <1>1, <1>3 DEF InProgress, SerialInv, StoreTypeOK, StoredRecords
<1>5. bucket' = [bucket EXCEPT ![s] = ApplyUpdate(bucket[s], update[u].upd)]
  BY <1>1 DEF UpdatePut, SerialInv, UpdatesCurrent
<1> QED
  BY <1>1, <1>2, <1>3, <1>4, <1>5, ApplyUpdateIsRecord

\* The other steps of the store leave the bucket alone, but for expiry.
LEMMA BucketSteps ==
    ASSUME [StoreNext]_storeVars
    PROVE  \/ UNCHANGED bucket
           \/ \E c \in Creators : CreatePut(c)
           \/ \E u \in Updaters : UpdatePut(u)
           \/ \E s \in Servers : Expire(s)
  BY DEF StoreNext, storeVars, CreateGet, CreateFails, MergeUpdate, MarkUnpublished, UpdateGet,
         ReadForUpdate, UpdateRefused, UpdateFails, CallersDie

-----------------------------------------------------------------------------
(* Theorems about serialised callers                                       *)

LEMMA RecordsProtected ==
    SerialInv /\ [SerialNext]_storeVars =>
       \A s \in Servers :
          /\ InProgress(bucket[s]) /\ bucket'[s] # NoRecord => bucket'[s].id = bucket[s].id
          /\ StateIsComplete(bucket[s].state) /\ bucket'[s].id = bucket[s].id
                => bucket'[s] = bucket[s]
<1> SUFFICES ASSUME SerialInv, [StoreNext]_storeVars, NEW s \in Servers
             PROVE  /\ InProgress(bucket[s]) /\ bucket'[s] # NoRecord => bucket'[s].id = bucket[s].id
                    /\ StateIsComplete(bucket[s].state) /\ bucket'[s].id = bucket[s].id
                          => bucket'[s] = bucket[s]
  BY DEF SerialNext
<1>1. bucket \in [Servers -> RecordOf(IDs) \cup {NoRecord}]
  BY DEF SerialInv, StoreTypeOK
<1>2. CASE UNCHANGED bucket
  BY <1>2
<1>3. ASSUME NEW c \in Creators, CreatePut(c)
      PROVE  /\ InProgress(bucket[s]) => bucket'[s] = bucket[s]
             /\ bucket'[s].id = bucket[s].id => bucket'[s] = bucket[s]
  BY <1>1, <1>3, CreatePutEffect
<1>4. ASSUME NEW u \in Updaters, UpdatePut(u)
      PROVE  /\ bucket'[s].id = bucket[s].id
             /\ StateIsComplete(bucket[s].state) => bucket'[s] = bucket[s]
  BY <1>1, <1>4, UpdatePutEffect DEF InProgress
<1>5. ASSUME NEW t \in Servers, Expire(t)
      PROVE  bucket'[s] = bucket[s] \/ (bucket'[s] = NoRecord /\ bucket[s].id \in IDs)
  BY <1>1, <1>5 DEF Expire, RecordOf
<1> QED
  BY <1>2, <1>3, <1>4, <1>5, BucketSteps, IDsAssumption

\* With serialised callers, work in progress is never replaced by other work.
THEOREM NoUnitReplaced == SerialSpec => WorkNotReplaced
<1>1. SerialInv /\ [SerialNext]_storeVars =>
         [\A s \in Servers : InProgress(bucket[s]) /\ bucket'[s] # NoRecord
                                => bucket'[s].id = bucket[s].id]_storeVars
  BY RecordsProtected
<1> QED
  BY <1>1, SerialInvariant, PTL DEF SerialSpec, WorkNotReplaced

\* With serialised callers, a finished record does not change any more.
THEOREM NoFinishedRecordChanged == SerialSpec => FinishedStaysFinished
<1>1. SerialInv /\ [SerialNext]_storeVars =>
         [\A s \in Servers : StateIsComplete(bucket[s].state) /\ bucket'[s].id = bucket[s].id
                                => bucket'[s] = bucket[s]]_storeVars
  BY RecordsProtected
<1> QED
  BY <1>1, SerialInvariant, PTL DEF SerialSpec, FinishedStaysFinished

\* Where an update that merges lands: on the active condition, along a valid
\* transition, with everything else as it was.
LEMMA UpdateOfActive ==
    ASSUME SerialInv, NEW u \in Updaters, UpdatePut(u)
    PROVE  LET s == update[u].server
               upd == update[u].upd
           IN \E p \in DOMAIN bucket[s].conds :
                 /\ IsActiveCondition(bucket[s], p)
                 /\ TransitionValid(bucket[s].conds[p].state, upd.state)
                 /\ bucket'[s].conds[p].state = upd.state
                 /\ DOMAIN bucket'[s].conds = DOMAIN bucket[s].conds
                 /\ \A i \in DOMAIN bucket[s].conds :
                       i # p => bucket'[s].conds[i] = bucket[s].conds[i]
<1> DEFINE s   == update[u].server
           upd == update[u].upd
           rec == bucket[s]
           new == ApplyUpdate(rec, upd)
<1>1. /\ s \in Servers /\ upd \in Update /\ rec \in RecordOf(IDs) /\ rec \in StoredRecords
      /\ MergeExisting(rec, upd) /\ bucket' = [bucket EXCEPT ![s] = new]
  BY UpdatePutEffect
<1>2. bucket'[s] = new
  BY <1>1 DEF SerialInv, StoreTypeOK
<1>3. PICK p \in DOMAIN rec.conds :
         /\ IsActiveCondition(rec, p)
         /\ rec.conds[p].kind = upd.kind
         /\ TransitionValid(rec.conds[p].state, upd.state)
  BY <1>1 DEF MergeExisting
<1>4. HasItsWork(rec)
  BY <1>1 DEF SerialInv, RecordInv, AllRecords
<1>5. units[rec.id] \in Works
  BY <1>1, <1>4 DEF HasItsWork, SerialInv, StoreTypeOK, RecordOf
<1>6. DistinctKinds(KindsOf(rec))
  BY <1>4, <1>5, WorksAssumption DEF HasItsWork
<1>7. \A i \in DOMAIN rec.conds : rec.conds[i].kind = upd.kind => i = p
  BY <1>3, <1>6 DEF DistinctKinds, KindsOf
<1>8. DOMAIN rec.conds = 1 .. Len(rec.conds) /\ Len(rec.conds) \in Nat
  BY <1>1, RecordDomain
<1>9. \A i \in DOMAIN rec.conds : Replaced(rec, upd, i) <=> i = p
  BY <1>3, <1>7, <1>8 DEF Replaced
<1>10. new.conds = [i \in DOMAIN rec.conds |->
                       IF Replaced(rec, upd, i) THEN [kind |-> upd.kind, state |-> upd.state]
                       ELSE rec.conds[i]]
  BY DEF ApplyUpdate
<1>11. /\ bucket'[s].conds[p].state = upd.state
       /\ DOMAIN bucket'[s].conds = DOMAIN rec.conds
       /\ \A i \in DOMAIN rec.conds : i # p => bucket'[s].conds[i] = rec.conds[i]
  BY <1>2, <1>9, <1>10
<1> QED
  BY <1>3, <1>11

LEMMA AdvanceStep ==
    SerialInv /\ [SerialNext]_storeVars =>
       [\A s \in Servers :
          bucket[s] # NoRecord /\ bucket'[s].id = bucket[s].id =>
             \A i \in DOMAIN bucket[s].conds :
                LET from == bucket[s].conds[i].state
                    to   == bucket'[s].conds[i].state
                IN to = from \/ TransitionValid(from, to)]_storeVars
<1> SUFFICES ASSUME SerialInv, [StoreNext]_storeVars, NEW s \in Servers,
                    bucket[s] # NoRecord, bucket'[s].id = bucket[s].id,
                    NEW i \in DOMAIN bucket[s].conds
             PROVE  \/ bucket'[s].conds[i].state = bucket[s].conds[i].state
                    \/ TransitionValid(bucket[s].conds[i].state, bucket'[s].conds[i].state)
  BY DEF SerialNext
<1>1. bucket \in [Servers -> RecordOf(IDs) \cup {NoRecord}]
  BY DEF SerialInv, StoreTypeOK
<1>2. CASE UNCHANGED bucket
  BY <1>2
<1>3. ASSUME NEW c \in Creators, CreatePut(c)
      PROVE  bucket'[s] = bucket[s]
  BY <1>1, <1>3, CreatePutEffect
<1>4. ASSUME NEW u \in Updaters, UpdatePut(u), s # update[u].server
      PROVE  bucket'[s] = bucket[s]
  BY <1>1, <1>4, UpdatePutEffect
<1>5. ASSUME NEW u \in Updaters, UpdatePut(u), s = update[u].server
      PROVE  \/ bucket'[s].conds[i].state = bucket[s].conds[i].state
             \/ TransitionValid(bucket[s].conds[i].state, bucket'[s].conds[i].state)
  BY <1>5, UpdateOfActive
<1>6. ASSUME NEW t \in Servers, Expire(t)
      PROVE  bucket'[s] = bucket[s]
  BY <1>1, <1>6, IDsAssumption DEF Expire, RecordOf
<1> QED
  BY <1>2, <1>3, <1>4, <1>5, <1>6, BucketSteps

\* With serialised callers, no condition of a unit ever goes back.
THEOREM NoConditionRegresses == SerialSpec => ConditionsAdvance
  BY AdvanceStep, SerialInvariant, PTL DEF SerialSpec, ConditionsAdvance

\* With serialised callers, the conditions of a unit run in their order.
THEOREM InOrderExecution == SerialSpec => []ConditionsInOrder
<1>1. StoreInit => ConditionsInOrder
  BY DEF StoreInit, ConditionsInOrder, StoredRecords
<1>2. SerialInv /\ SerialInv' /\ ConditionsInOrder /\ [SerialNext]_storeVars => ConditionsInOrder'
  <2> SUFFICES ASSUME SerialInv, SerialInv', ConditionsInOrder, [StoreNext]_storeVars,
                      NEW s \in Servers, bucket'[s] # NoRecord,
                      NEW i \in DOMAIN bucket'[s].conds, NEW j \in DOMAIN bucket'[s].conds,
                      i < j, bucket'[s].conds[j].state # Pending
               PROVE  bucket'[s].conds[i].state = Succeeded
    BY DEF ConditionsInOrder, StoredRecords, SerialNext
  <2>1. bucket \in [Servers -> RecordOf(IDs) \cup {NoRecord}]
    BY DEF SerialInv, StoreTypeOK
  <2>2. CASE bucket'[s] = bucket[s]
    BY <2>2 DEF ConditionsInOrder, StoredRecords
  <2>3. CASE UNCHANGED bucket
    BY <2>2, <2>3
  <2>4. ASSUME NEW c \in Creators, CreatePut(c), bucket'[s] # bucket[s]
        PROVE  FALSE
    <3> DEFINE rec == create[c].rec
    <3>1. create[c] # NoCreate /\ rec \in AllRecords /\ bucket'[s] = rec
      BY <2>1, <2>4, CreatePutEffect DEF CreatePut, AllRecords, PendingPuts, InProgress
    <3>2. \A k \in DOMAIN rec.conds : rec.conds[k].state = Pending
      BY <3>1 DEF SerialInv, CreatesCurrent
    <3> QED
      BY <3>1, <3>2
  <2>5. ASSUME NEW u \in Updaters, UpdatePut(u), s = update[u].server
        PROVE  bucket'[s].conds[i].state = Succeeded
    <3>1. PICK p \in DOMAIN bucket[s].conds :
             /\ IsActiveCondition(bucket[s], p)
             /\ DOMAIN bucket'[s].conds = DOMAIN bucket[s].conds
             /\ \A k \in DOMAIN bucket[s].conds :
                   k # p => bucket'[s].conds[k] = bucket[s].conds[k]
      BY <2>5, UpdateOfActive
    <3>2. bucket[s] \in RecordOf(IDs) /\ bucket[s] \in StoredRecords /\ InProgress(bucket[s])
      BY <2>5, UpdatePutEffect
    <3>3. DOMAIN bucket[s].conds = 1 .. Len(bucket[s].conds) /\ Len(bucket[s].conds) \in Nat
      BY <3>2, RecordDomain
    <3>4. \A k \in DOMAIN bucket[s].conds : bucket[s].conds[k].state # Failed
      BY <3>2 DEF SerialInv, RecordInv, WellFormed, AllRecords, InProgress, StateIsComplete
    <3>5. \A k \in DOMAIN bucket[s].conds : k < p => bucket[s].conds[k].state = Succeeded
      BY <3>1, <3>3, <3>4 DEF IsActiveCondition, StateIsComplete
    <3>6. \A k \in DOMAIN bucket[s].conds : p < k => bucket[s].conds[k].state = Pending
      BY <3>1, <3>2 DEF ConditionsInOrder, IsActiveCondition, StateIsComplete
    <3> QED
      BY <3>1, <3>3, <3>5, <3>6
  <2>6. ASSUME NEW u \in Updaters, UpdatePut(u), s # update[u].server
        PROVE  bucket'[s] = bucket[s]
    BY <2>1, <2>6, UpdatePutEffect
  <2>7. ASSUME NEW t \in Servers, Expire(t)
        PROVE  bucket'[s] = bucket[s]
    BY <2>1, <2>7 DEF Expire
  <2> QED
    BY <2>2, <2>3, <2>4, <2>5, <2>6, <2>7, BucketSteps
<1> QED
  BY <1>1, <1>2, SerialInvariant, PTL DEF SerialSpec

-----------------------------------------------------------------------------
(* With serialised callers the store is a lock per server                  *)

\* A step that leaves the bucket, the units and the calls of Create alone is
\* a stutter of the lock.
LEMMA LockStutters ==
    ASSUME UNCHANGED <<bucket, units, create>>
    PROVE  UNCHANGED Lock!lockVars
  BY DEF Lock!lockVars, HolderOf, Spent

LEMMA LockStep == SerialInv /\ SerialInv' /\ [SerialNext]_storeVars => [Lock!Next]_(Lock!lockVars)
<1> SUFFICES ASSUME SerialInv, SerialInv', [StoreNext]_storeVars
             PROVE  Lock!Next \/ UNCHANGED Lock!lockVars
  BY DEF SerialNext
<1> DEFINE holder == [s \in Servers |-> HolderOf(s)]
<1> USE DEF SerialInv
<1>0. /\ bucket \in [Servers -> RecordOf(IDs) \cup {NoRecord}]
      /\ create \in [Creators -> [server : Servers, rec : RecordOf(IDs)] \cup {NoCreate}]
      /\ units \in [IDs -> Works \cup {NoWork}]
  BY DEF StoreTypeOK
<1>1. CASE UNCHANGED storeVars
  BY <1>1, LockStutters DEF storeVars
<1>2. ASSUME NEW c \in Creators, NEW s \in Servers, NEW work \in Works, CreateGet(c, s, work)
      PROVE  UNCHANGED Lock!lockVars
  <2>1. PICK id \in IDs :
           /\ units[id] = NoWork
           /\ units' = [units EXCEPT ![id] = work]
           /\ create' = [create EXCEPT ![c] = [server |-> s, rec |-> NewRecord(id, work)]]
    BY <1>2 DEF CreateGet
  <2>2. create[c].rec.id = NoRecord.id
    BY <1>2 DEF CreateGet, NoCreate
  <2>3. create'[c].rec.id = id /\ \A d \in Creators : d # c => create'[d] = create[d]
    BY <1>0, <2>1 DEF NewRecord
  <2>4. \A x \in IDs : x # id => units'[x] = units[x]
    BY <1>0, <2>1
  <2>5. Spent' = Spent
    <3>1. id \notin Spent /\ id \notin Spent'
      BY <2>1, <2>3 DEF Spent
    <3>2. ASSUME NEW x \in IDs, x # id PROVE x \in Spent <=> x \in Spent'
      BY <2>2, <2>3, <2>4, <3>2, IDsAssumption DEF Spent
    <3> QED
      BY <3>1, <3>2 DEF Spent
  <2>6. UNCHANGED holder
    BY <1>2 DEF CreateGet, HolderOf
  <2> QED
    BY <2>5, <2>6 DEF Lock!lockVars
<1>3. ASSUME NEW c \in Creators, CreatePut(c)
      PROVE  Lock!Next
  <2>1. PICK s \in Servers, id \in IDs :
           /\ s = create[c].server /\ id = create[c].rec.id
           /\ InProgress(create[c].rec) /\ ~InProgress(bucket[s])
           /\ bucket' = [bucket EXCEPT ![s] = create[c].rec]
    BY <1>3, CreatePutEffect
  <2>2. create[c] # NoCreate /\ create' = [create EXCEPT ![c] = NoCreate] /\ UNCHANGED units
    BY <1>3 DEF CreatePut
  <2>3. units[id] # NoWork
    BY <2>1, <2>2 DEF RecordInv, AllRecords, PendingPuts, HasItsWork, InProgress
  <2>4. \A d \in Creators : create[d].rec.id = id => d = c
    BY <2>1, <2>2 DEF CreatesCurrent
  <2>5. id \notin Spent /\ Spent' = Spent \cup {id}
    BY <1>0, <2>1, <2>2, <2>3, <2>4, IDsAssumption DEF Spent, NoCreate
  <2>6. holder[s] = NoRecord.id
    BY <2>1 DEF HolderOf
  <2>7. HolderOf(s)' = id /\ \A t \in Servers : t # s => HolderOf(t)' = HolderOf(t)
    BY <1>0, <2>1 DEF HolderOf
  <2>8. holder' = [holder EXCEPT ![s] = id]
    BY <2>1, <2>7
  <2>9. Lock!Acquire(s, id)
    BY <2>5, <2>6, <2>8 DEF Lock!Acquire
  <2> QED
    BY <2>1, <2>9 DEF Lock!Next
<1>4. ASSUME UNCHANGED <<bucket, units>>, \A c \in Creators : create'[c] \in {NoCreate, create[c]}
      PROVE  Lock!Next
  <2>1. \A c \in Creators, id \in IDs : create'[c].rec.id = id => create[c].rec.id = id
    BY <1>4, IDsAssumption DEF NoCreate
  <2>2. Spent \subseteq Spent' /\ Spent' \subseteq IDs
    BY <1>4, <2>1 DEF Spent
  <2>3. UNCHANGED holder
    BY <1>4 DEF HolderOf
  <2>4. Lock!Discard(Spent')
    BY <2>2, <2>3 DEF Lock!Discard
  <2> QED
    BY <2>2, <2>4 DEF Lock!Next
<1>5. ASSUME NEW u \in Updaters, UpdatePut(u)
      PROVE  Lock!Next \/ UNCHANGED Lock!lockVars
  <2>1. PICK s \in Servers, new \in RecordOf(IDs) :
           /\ InProgress(bucket[s]) /\ bucket' = [bucket EXCEPT ![s] = new]
           /\ new.id = bucket[s].id
    BY <1>5, UpdatePutEffect
  <2>2. UNCHANGED <<units, create>>
    BY <1>5 DEF UpdatePut
  <2>3. UNCHANGED Spent
    BY <2>2 DEF Spent
  <2>4. bucket'[s] = new /\ \A t \in Servers : t # s => bucket'[t] = bucket[t]
    BY <1>0, <2>1
  <2>5. CASE InProgress(new)
    BY <2>1, <2>3, <2>4, <2>5 DEF HolderOf, Lock!lockVars
  <2>6. CASE ~InProgress(new)
    <3>1. HolderOf(s)' = NoRecord.id /\ \A t \in Servers : t # s => HolderOf(t)' = HolderOf(t)
      BY <2>4, <2>6 DEF HolderOf
    <3>2. holder' = [holder EXCEPT ![s] = NoRecord.id]
      BY <2>1, <3>1
    <3> QED
      BY <2>1, <2>3, <3>2 DEF Lock!Next, Lock!Release
  <2> QED
    BY <2>5, <2>6
<1>6. ASSUME NEW s \in Servers, Expire(s)
      PROVE  Lock!Next
  <2>1. bucket' = [bucket EXCEPT ![s] = NoRecord] /\ UNCHANGED <<units, create>>
    BY <1>6 DEF Expire
  <2>2. holder' = [holder EXCEPT ![s] = NoRecord.id]
    BY <1>0, <2>1 DEF HolderOf, InProgress
  <2>3. UNCHANGED Spent
    BY <2>1 DEF Spent
  <2> QED
    BY <2>2, <2>3 DEF Lock!Next, Lock!Release
<1>7. ASSUME NEW u \in Updaters,
             \/ \E s \in Servers, upd \in Update : MergeUpdate(u, s, upd)
             \/ \E s \in Servers, id \in IDs : MarkUnpublished(u, s, id)
             \/ UpdateGet(u) \/ UpdateRefused(u) \/ UpdateFails(u)
      PROVE  UNCHANGED Lock!lockVars
  <2>1. UNCHANGED <<bucket, units, create>>
    BY <1>7 DEF MergeUpdate, MarkUnpublished, UpdateGet, ReadForUpdate, UpdateRefused, UpdateFails
  <2> QED
    BY <2>1, LockStutters
<1>8. ASSUME NEW c \in Creators, CreateFails(c)
      PROVE  Lock!Next
  BY <1>0, <1>4, <1>8 DEF CreateFails
<1>9. ASSUME NEW cs \in SUBSET Creators, NEW us \in SUBSET Updaters, CallersDie(cs, us)
      PROVE  Lock!Next
  BY <1>4, <1>9 DEF CallersDie
<1> QED
  BY <1>1, <1>2, <1>3, <1>5, <1>6, <1>7, <1>8, <1>9 DEF StoreNext

LEMMA LockInit == StoreInit => Lock!Init
<1> SUFFICES ASSUME StoreInit PROVE Lock!Init
  OBVIOUS
<1>1. Spent = {}
  BY DEF Spent, StoreInit
<1>2. \A s \in Servers : HolderOf(s) = NoRecord.id
  BY DEF HolderOf, StoreInit, InProgress
<1> QED
  BY <1>1, <1>2 DEF Lock!Init

\* With serialised callers, however many they are, the active-conditions
\* bucket is the lock its comment says it is: one unit of work per server at a
\* time, none takes over from another, and none that is over comes back.
THEOREM StoreIsLock == SerialSpec => LockSpec
  BY LockInit, LockStep, SerialInvariant, PTL
     DEF SerialSpec, LockSpec, Lock!Spec

=============================================================================
