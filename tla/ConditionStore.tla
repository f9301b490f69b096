--------------------------- MODULE ConditionStore ---------------------------
(***************************************************************************)
(* internal/store/nats.go: the active-conditions KV bucket, one record per *)
(* server, and the callers of its operations.                              *)
(*                                                                         *)
(* Create and Update read the bucket with Get and write it back with an    *)
(* unconditional Put; anything another caller does in between is           *)
(* overwritten.  Each is therefore two actions here, and a caller keeps    *)
(* the record it is about to put in between.  Creators are the calls of    *)
(* Create (API requests), updaters the calls of Update (the orchestrator's *)
(* publisher and reconciler, and API requests marking a condition failed). *)
(* An updater of the orchestrator merges first (mergeUpdate), which is     *)
(* one more read of the bucket; an API request does not.                   *)
(***************************************************************************)
EXTENDS Conditions

CONSTANTS
    Servers,   \* server IDs, the keys of the bucket
    IDs,       \* the unit-of-work IDs uuid.New can give
    Works,     \* the units of work the API composes: sequences of kinds
    Creators,  \* concurrent calls of Create
    Updaters   \* concurrent calls of Update

NoWork == << >>

ASSUME IDsAssumption == NoRecord.id \notin IDs

ASSUME ServersAssumption == "none" \notin Servers

ASSUME WorksAssumption ==
    /\ Works \subseteq Seq(Kinds)
    /\ \A w \in Works : w # NoWork /\ DistinctKinds(w)

VARIABLES
    bucket,  \* bucket[s]: the record last put for server s, or NoRecord
    units,   \* units[id]: the work a Create was started for under id, or NoWork
    create,  \* create[c]: what creator c is about to put, or NoCreate
    update   \* update[u]: what updater u is doing, or NoUpdate

storeVars == <<bucket, units, create, update>>

Update   == [id : IDs, kind : Kinds, state : States]
NoUpd    == [id |-> NoRecord.id, kind |-> "none", state |-> Pending]

NoCreate == [server |-> "none", rec |-> NoRecord]

\* A call of Update for upd on server s, and what it is about to put.
Call(phase, s, upd, rec) == [phase |-> phase, server |-> s, upd |-> upd, rec |-> rec]
NoUpdate == Call("idle", "none", NoUpd, NoRecord)

StoreInit ==
    /\ bucket = [s \in Servers |-> NoRecord]
    /\ units = [id \in IDs |-> NoWork]
    /\ create = [c \in Creators |-> NoCreate]
    /\ update = [u \in Updaters |-> NoUpdate]

-----------------------------------------------------------------------------
(* Create                                                                  *)

\* Variant for mutation: work in progress is not looked for.
CreateGetUnchecked(c, s, work) ==
    /\ create[c] = NoCreate
    /\ \E id \in IDs :
          /\ units[id] = NoWork
          /\ units' = [units EXCEPT ![id] = work]
          /\ create' = [create EXCEPT ![c] = [server |-> s, rec |-> NewRecord(id, work)]]
    /\ UNCHANGED <<bucket, update>>

\* The call finds no work in progress and builds the record it will put.
\* When it does find some it returns ErrActiveCondition and changes nothing.
CreateGet(c, s, work) ==
    /\ create[c] = NoCreate
    /\ ~InProgress(bucket[s])
    /\ \E id \in IDs :
          /\ units[id] = NoWork
          /\ units' = [units EXCEPT ![id] = work]
          /\ create' = [create EXCEPT ![c] = [server |-> s, rec |-> NewRecord(id, work)]]
    /\ UNCHANGED <<bucket, update>>

CreatePut(c) ==
    /\ create[c] # NoCreate
    /\ bucket' = [bucket EXCEPT ![create[c].server] = create[c].rec]
    /\ create' = [create EXCEPT ![c] = NoCreate]
    /\ UNCHANGED <<units, update>>

\* The Put fails without effect.
CreateFails(c) ==
    /\ create[c] # NoCreate
    /\ create' = [create EXCEPT ![c] = NoCreate]
    /\ UNCHANGED <<bucket, units, update>>

-----------------------------------------------------------------------------
(* Update                                                                  *)

\* mergeUpdate: GetActiveCondition, then MergeExisting.  An update that does
\* not merge is an error for its caller and changes nothing.
MergeUpdate(u, s, upd) ==
    /\ update[u] = NoUpdate
    /\ MergeExisting(bucket[s], upd)
    /\ update' = [update EXCEPT ![u] = Call("merged", s, upd, NoRecord)]
    /\ UNCHANGED <<bucket, units, create>>

\* The checks Update makes on the record it gets.
UpdateAllowed(rec, upd) ==
    /\ InProgress(rec)      \* else ErrConditionNotFound or ErrConditionComplete
    /\ rec.id = upd.id      \* else ErrActiveCondition

ReadForUpdate(u, s, upd) ==
    /\ UpdateAllowed(bucket[s], upd)
    /\ update' = [update EXCEPT ![u] = Call("put", s, upd, ApplyUpdate(bucket[s], upd))]
    /\ UNCHANGED <<bucket, units, create>>

UpdateGet(u) ==
    /\ update[u].phase = "merged"
    /\ ReadForUpdate(u, update[u].server, update[u].upd)

UpdateRefused(u) ==
    /\ update[u].phase = "merged"
    /\ ~UpdateAllowed(bucket[update[u].server], update[u].upd)
    /\ update' = [update EXCEPT ![u] = NoUpdate]
    /\ UNCHANGED <<bucket, units, create>>

\* An API request that could not publish the first condition of the unit it
\* created marks it failed: Update without a merge.
Unpublished(id) == [id |-> id, kind |-> units[id][1], state |-> Failed]

MarkUnpublished(u, s, id) ==
    /\ update[u] = NoUpdate
    /\ units[id] # NoWork
    /\ ReadForUpdate(u, s, Unpublished(id))

UpdatePut(u) ==
    /\ update[u].phase = "put"
    /\ bucket' = [bucket EXCEPT ![update[u].server] = update[u].rec]
    /\ update' = [update EXCEPT ![u] = NoUpdate]
    /\ UNCHANGED <<units, create>>

\* A Get or a Put fails without effect.
UpdateFails(u) ==
    /\ update[u] # NoUpdate
    /\ update' = [update EXCEPT ![u] = NoUpdate]
    /\ UNCHANGED <<bucket, units, create>>

-----------------------------------------------------------------------------
\* A process dies and its calls with it.
CallersDie(cs, us) ==
    /\ create' = [c \in Creators |-> IF c \in cs THEN NoCreate ELSE create[c]]
    /\ update' = [u \in Updaters |-> IF u \in us THEN NoUpdate ELSE update[u]]
    /\ UNCHANGED <<bucket, units>>

\* The bucket drops a record ten days after its last Put.  No call takes that
\* long, so none on the server is under way.
Expire(s) ==
    /\ bucket[s] # NoRecord
    /\ \A c \in Creators : create[c].server # s
    /\ \A u \in Updaters : update[u].server # s
    /\ bucket' = [bucket EXCEPT ![s] = NoRecord]
    /\ UNCHANGED <<units, create, update>>

StoreNext ==
    \/ \E c \in Creators :
          \/ \E s \in Servers, work \in Works : CreateGet(c, s, work)
          \/ CreatePut(c)
          \/ CreateFails(c)
    \/ \E u \in Updaters :
          \/ \E s \in Servers, upd \in Update : MergeUpdate(u, s, upd)
          \/ \E s \in Servers, id \in IDs : MarkUnpublished(u, s, id)
          \/ UpdateGet(u)
          \/ UpdateRefused(u)
          \/ UpdatePut(u)
          \/ UpdateFails(u)
    \/ \E cs \in SUBSET Creators, us \in SUBSET Updaters : CallersDie(cs, us)
    \/ \E s \in Servers : Expire(s)

StoreSpec == StoreInit /\ [][StoreNext]_storeVars

\* The callers do not overlap on a server: at most one Create and at most one
\* Update of it are under way.  Nothing in the store enforces this; it is what
\* a single orchestrator and one request at a time per server give.
Serialised ==
    /\ \A c, d \in Creators :
          create[c] # NoCreate /\ create[c].server = create[d].server => c = d
    /\ \A u, v \in Updaters :
          update[u] # NoUpdate /\ update[u].server = update[v].server => u = v

\* A condition is marked failed for want of publishing only while it is the
\* active one.  A Publish that fails after the message got through, or that
\* the publisher's follow-on work gets ahead of, breaks this.
MarkedIsActive ==
    \A u \in Updaters, s \in Servers, id \in IDs :
        MarkUnpublished(u, s, id) => MergeExisting(bucket[s], Unpublished(id))

SerialNext == StoreNext /\ Serialised' /\ MarkedIsActive

SerialSpec == StoreInit /\ [][SerialNext]_storeVars

-----------------------------------------------------------------------------
(* Type invariant *)

\* Every variable holds a value of its kind.
StoreTypeOK ==
    /\ bucket \in [Servers -> RecordOf(IDs) \cup {NoRecord}]
    /\ units \in [IDs -> Works \cup {NoWork}]
    /\ create \in [Creators -> [server : Servers, rec : RecordOf(IDs)] \cup {NoCreate}]
    /\ update \in [Updaters ->
                      [phase : {"merged"}, server : Servers, upd : Update, rec : {NoRecord}]
                      \cup [phase : {"put"}, server : Servers, upd : Update, rec : RecordOf(IDs)]
                      \cup {NoUpdate}]

-----------------------------------------------------------------------------
(* Properties of every record, whoever calls the store *)

KindsOf(rec) == [i \in DOMAIN rec.conds |-> rec.conds[i].kind]

\* The records in the bucket and those on their way into it.
StoredRecords == {bucket[s] : s \in Servers} \ {NoRecord}
PendingPuts   == {create[c].rec : c \in Creators} \cup {update[u].rec : u \in Updaters}
AllRecords    == StoredRecords \cup (PendingPuts \ {NoRecord})

\* An update swaps the state of a condition and never the unit's work: every
\* record still lists the kinds its unit was created with, in their order.
WorkPreserved == \A rec \in AllRecords : KindsOf(rec) = units[rec.id]

\* A record is failed exactly when one of its conditions is.
FailedIffConditionFailed ==
    \A rec \in AllRecords :
        rec.state = Failed <=> \E i \in DOMAIN rec.conds : rec.conds[i].state = Failed

\* A server is locked only for work that is left to do: the last condition of
\* a record in progress is not complete.  GetActiveCondition therefore finds a
\* condition in it and never meets its "expected an active condition" error.
LockedForSomething ==
    \A rec \in AllRecords :
        InProgress(rec) => ~StateIsComplete(rec.conds[Len(rec.conds)].state)

-----------------------------------------------------------------------------
(* Properties that depend on who may call at the same time *)

\* The work of a server in progress is never replaced by another unit's.
WorkNotReplaced ==
    [][\A s \in Servers :
          InProgress(bucket[s]) /\ bucket'[s] # NoRecord => bucket'[s].id = bucket[s].id
      ]_storeVars

\* A finished record is history: until the server gets new work or the record
\* expires, it does not change.
FinishedStaysFinished ==
    [][\A s \in Servers :
          StateIsComplete(bucket[s].state) /\ bucket'[s].id = bucket[s].id
             => bucket'[s] = bucket[s]
      ]_storeVars

\* No condition of a unit goes back: each Put moves it along a transition
\* MergeExisting accepts, or leaves it as it was.
ConditionsAdvance ==
    [][\A s \in Servers :
          bucket[s] # NoRecord /\ bucket'[s].id = bucket[s].id =>
             \A i \in DOMAIN bucket[s].conds :
                LET from == bucket[s].conds[i].state
                    to   == bucket'[s].conds[i].state
                IN to = from \/ TransitionValid(from, to)
      ]_storeVars

\* Conditions run in order: those before a condition that has left the
\* pending state have succeeded.
ConditionsInOrder ==
    \A rec \in StoredRecords : \A i, j \in DOMAIN rec.conds :
        i < j /\ rec.conds[j].state # Pending => rec.conds[i].state = Succeeded

\* As Update's comment has it, a unit of work is successful when its last
\* condition has been completed successfully.
SuccessMeansAllDone ==
    \A rec \in StoredRecords :
        rec.state = Succeeded => rec.conds[Len(rec.conds)].state = Succeeded

-----------------------------------------------------------------------------
(* The lock the store is meant to be *)

HolderOf(s) == IF InProgress(bucket[s]) THEN bucket[s].id ELSE NoRecord.id

Spent == {id \in IDs : units[id] # NoWork /\ \A c \in Creators : create[c].rec.id # id}

Lock == INSTANCE WorkLock WITH Free   <- NoRecord.id,
                               holder <- [s \in Servers |-> HolderOf(s)],
                               spent  <- Spent

LockSpec == Lock!Spec

=============================================================================
