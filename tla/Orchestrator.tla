---------------------------- MODULE Orchestrator ----------------------------
(***************************************************************************)
(* The life of a unit of work: the API handlers that create and publish it *)
(* (pkg/api/v1/conditions/routes), the controllers that execute its        *)
(* conditions and report in the status KV, and the orchestrator's two      *)
(* goroutines that turn reports into updates of the active-conditions      *)
(* store, event history and follow-on work (internal/orchestrator): the    *)
(* publisher, fed by the KV watchers, and the reconciler.                  *)
(*                                                                         *)
(* NATS (JetStream, KV buckets, registry), fleetdb and the controllers are *)
(* external: modelled by what the code in src/ relies on.  What can go     *)
(* wrong is an action that spends one of MaxFaults faults, and only the    *)
(* kinds of fault in Faults happen.                                        *)
(***************************************************************************)
EXTENDS ConditionStore, FiniteSets, SequencesExt

CONSTANTS
    Publisher, Reconciler,  \* the orchestrator's callers of Update
    Faults,                 \* the kinds of fault that may happen
    MaxFaults,              \* how many may happen in a behaviour
    PromptPublisher         \* TRUE: the publisher keeps up with the status KV
                            \* within the staleness thresholds

Loops == {Publisher, Reconciler}

ASSUME CallersAssumption ==
    /\ Publisher # Reconciler
    /\ Creators \cap Loops = {}
    /\ Updaters = Creators \cup Loops

ASSUME FiniteAssumption == IsFiniteSet(Servers) /\ IsFiniteSet(IDs) /\ IsFiniteSet(Kinds)

ASSUME MaxFaultsAssumption == MaxFaults \in Nat

\* A condition of a unit on a server: a message on the stream, a status entry.
Items == [server : Servers, id : IDs, kind : Kinds]
NoItem == [server |-> "none", id |-> NoRecord.id, kind |-> "none"]
Item(s, id, kind) == [server |-> s, id |-> id, kind |-> kind]

\* A ConditionUpdateEvent.
Events == [item : Items, state : States]
NoEvent == [item |-> NoItem, state |-> Pending]
Event(i, st) == [item |-> i, state |-> st]
UpdateOf(evt) == [id |-> evt.item.id, kind |-> evt.item.kind, state |-> evt.state]

VARIABLES
    request,    \* request[c]: where API request c is, and for which condition
    published,  \* published[i]: how often i was published on the stream
    job,        \* job[i]: the controller that has taken i
    status,     \* status[i]: the entry of i in its kind's status bucket
    feed,       \* feed[k]: the entries of bucket k the watcher has to deliver
    loop,       \* loop[p]: where the publisher or reconciler is, its event
    scan,       \* the buckets the reconciler's round has yet to list
    todo,       \* the events that the round has found
    history,    \* history[i]: the final states written to fleetdb's event history
    faults      \* the number of faults so far

flowVars == <<request, published, job, status, feed, loop, scan, todo, history>>
vars == <<storeVars, flowVars, faults>>

IdleRequest == [pc |-> "idle", item |-> NoItem]
NoStatus    == [state |-> "none", stale |-> FALSE]
IdleLoop    == [pc |-> "idle", evt |-> NoEvent, next |-> NoItem]

Init ==
    /\ StoreInit
    /\ request = [c \in Creators |-> IdleRequest]
    /\ published = [i \in Items |-> 0]
    /\ job = [i \in Items |-> "none"]
    /\ status = [i \in Items |-> NoStatus]
    /\ feed = [k \in Kinds |-> << >>]
    /\ loop = [p \in Loops |-> IdleLoop]
    /\ scan = {}
    /\ todo = {}
    /\ history = [i \in Items |-> {}]
    /\ faults = 0

NoFault == UNCHANGED faults
Fault(f) ==
    /\ f \in Faults
    /\ faults < MaxFaults
    /\ faults' = faults + 1

\* The condition GetActiveCondition returns for server s, if any.
ActiveItems(s) ==
    {Item(s, bucket[s].id, bucket[s].conds[n].kind) :
        n \in {m \in DOMAIN bucket[s].conds : IsActiveCondition(bucket[s], m)}}

StateIn(s, i) ==
    {bucket[s].conds[n].state :
        n \in {m \in DOMAIN bucket[s].conds : bucket[s].id = i.id /\ bucket[s].conds[m].kind = i.kind}}

Publish(i) == published' = [published EXCEPT ![i] = @ + 1]

-----------------------------------------------------------------------------
(* API requests: conditionCreate and firmwareInstall                       *)

RequestAt(c, pc) == request[c].pc = pc
RequestTo(c, pc) == request' = [request EXCEPT ![c].pc = pc]
RequestEnds(c)   == request' = [request EXCEPT ![c] = IdleRequest]

Submit(c, s, work) ==
    /\ RequestAt(c, "idle")
    /\ CreateGet(c, s, work)
    /\ request' = [request EXCEPT
          ![c] = [pc |-> "creating", item |-> Item(s, create'[c].rec.id, work[1])]]
    /\ NoFault
    /\ UNCHANGED <<published, job, status, feed, loop, scan, todo, history>>

Stored(c) ==
    /\ RequestAt(c, "creating")
    /\ CreatePut(c)
    /\ \/ /\ StreamPublishRequired(request[c].item.kind)
          /\ RequestTo(c, "publishing")
          /\ NoFault
       \/ /\ ~StreamPublishRequired(request[c].item.kind)
          /\ RequestEnds(c)
          /\ NoFault
       \/ /\ Fault("put_lost_ack")       \* stored, but the request fails
          /\ RequestEnds(c)
    /\ UNCHANGED <<published, job, status, feed, loop, scan, todo, history>>

StoreFails(c) ==
    /\ RequestAt(c, "creating")
    /\ Fault("put_error")
    /\ CreateFails(c)
    /\ RequestEnds(c)
    /\ UNCHANGED <<published, job, status, feed, loop, scan, todo, history>>

PublishFirst(c) ==
    /\ RequestAt(c, "publishing")
    /\ \/ /\ Publish(request[c].item)
          /\ RequestEnds(c)
          /\ NoFault
       \/ /\ Fault("publish_lost_ack")   \* published, but the call fails
          /\ Publish(request[c].item)
          /\ RequestTo(c, "marking")
       \/ /\ Fault("publish_error")
          /\ RequestTo(c, "marking")
          /\ UNCHANGED published
    /\ UNCHANGED <<storeVars, job, status, feed, loop, scan, todo, history>>

\* The unpublished condition is marked failed, with Update but without the
\* merge the orchestrator does.
MarkGet(c) ==
    /\ RequestAt(c, "marking")
    /\ update[c] = NoUpdate
    /\ LET upd == UpdateOf(Event(request[c].item, Failed))
           s   == request[c].item.server
       IN \/ ReadForUpdate(c, s, upd) /\ NoFault /\ UNCHANGED request
          \/ ~UpdateAllowed(bucket[s], upd) /\ RequestEnds(c) /\ NoFault /\ UNCHANGED storeVars
          \/ Fault("get_error") /\ RequestEnds(c) /\ UNCHANGED storeVars
    /\ UNCHANGED <<published, job, status, feed, loop, scan, todo, history>>

MarkPut(c) ==
    /\ RequestAt(c, "marking")
    /\ \/ UpdatePut(c) /\ NoFault
       \/ UpdateFails(c) /\ Fault("put_error")
    /\ RequestEnds(c)
    /\ UNCHANGED <<published, job, status, feed, loop, scan, todo, history>>

\* The API server dies with its requests.
ApiCrash ==
    /\ Fault("api_crash")
    /\ \E c \in Creators : request[c] # IdleRequest
    /\ request' = [c \in Creators |-> IdleRequest]
    /\ CallersDie(Creators, Creators)
    /\ UNCHANGED <<published, job, status, feed, loop, scan, todo, history>>

-----------------------------------------------------------------------------
(* Controllers and the status KV                                           *)

PutStatus(i, st, stale) ==
    /\ status' = [status EXCEPT ![i] = [state |-> st, stale |-> stale]]
    /\ feed' = [feed EXCEPT ![i.kind] = Append(@, Event(i, st))]

\* Variant for mutation: an in-band controller may have any pending condition
\* of the unit in progress.
StartJobInactive(i) ==
    /\ job[i] = "none"
    /\ IF StreamPublishRequired(i.kind) THEN published[i] > 0
                                       ELSE Pending \in StateIn(i.server, i)
    /\ job' = [job EXCEPT ![i] = "running"]
    /\ PutStatus(i, Active, FALSE)
    /\ NoFault
    /\ UNCHANGED <<storeVars, request, published, loop, scan, todo, history>>

\* A controller takes the condition from the stream or, in band, asks the
\* orchestrator API for it, and reports it active.  Messages for a condition
\* that has been taken before are dropped.  The API does not set the UpdatedAt
\* of an entry it creates: unless the controller did, the entry is stale.
StartJob(i) ==
    /\ job[i] = "none"
    /\ IF StreamPublishRequired(i.kind) THEN published[i] > 0 ELSE i \in ActiveItems(i.server)
    /\ job' = [job EXCEPT ![i] = "running"]
    /\ \/ PutStatus(i, Active, FALSE)
       \/ i.kind \in InbandKinds /\ PutStatus(i, Active, TRUE)
    /\ NoFault
    /\ UNCHANGED <<storeVars, request, published, loop, scan, todo, history>>

\* The final report.  It may be refused when the entry it updates is gone; the
\* orchestrator API refuses it when the condition is not the active one.
FinishJob(i, st) ==
    /\ job[i] \in {"running", "silent"}
    /\ job' = [job EXCEPT ![i] = "finished"]
    /\ \/ /\ StreamPublishRequired(i.kind) \/ i \in ActiveItems(i.server)
          /\ PutStatus(i, st, FALSE)
       \/ /\ status[i] = NoStatus \/ (i.kind \in InbandKinds /\ i \notin ActiveItems(i.server))
          /\ UNCHANGED <<status, feed>>
    /\ NoFault
    /\ UNCHANGED <<storeVars, request, published, loop, scan, todo, history>>

\* The publisher is not behind when a staleness threshold runs out.
CaughtUp == PromptPublisher => loop[Publisher] = IdleLoop /\ \A k \in Kinds : feed[k] = << >>

\* The check-in of a controller times out: it died, or its check-ins do not
\* reach the registry.
LoseController(i) ==
    /\ job[i] = "running"
    /\ CaughtUp
    /\ \/ Fault("controller_dies") /\ job' = [job EXCEPT ![i] = "dead"]
       \/ Fault("controller_silent") /\ job' = [job EXCEPT ![i] = "silent"]
    /\ UNCHANGED <<storeVars, request, published, status, feed, loop, scan, todo, history>>

\* A status entry is not updated for the staleness threshold.
GrowStale(i) ==
    /\ status[i] # NoStatus
    /\ ~status[i].stale
    /\ CaughtUp
    /\ status' = [status EXCEPT ![i].stale = TRUE]
    /\ NoFault
    /\ UNCHANGED <<storeVars, request, published, job, feed, loop, scan, todo, history>>

\* The entry of bucket k that is at position n is overwritten before the
\* watcher gets it: a watcher sees the last value of a key.
Coalesce(k) ==
    /\ Fault("coalesce")
    /\ \E n, m \in DOMAIN feed[k] :
          /\ n < m
          /\ feed[k][n].item = feed[k][m].item
          /\ feed' = [feed EXCEPT ![k] = RemoveAt(@, n)]
    /\ UNCHANGED <<storeVars, request, published, job, status, loop, scan, todo, history>>

\* The entries of bucket k, in whatever state they are.
GetAllConditions(k) == {i \in Items : i.kind = k /\ status[i] # NoStatus}

\* What a new watcher of bucket k delivers first: every entry in it.
Entries(k) == {Event(i, status[i].state) : i \in GetAllConditions(k)}

\* The watcher of bucket k is refreshed.
RefreshWatcher(k) ==
    /\ Fault("refresh")
    /\ Entries(k) # {}
    /\ feed' = [feed EXCEPT ![k] = SetToSeq(Entries(k))]
    /\ UNCHANGED <<storeVars, request, published, job, status, loop, scan, todo, history>>

-----------------------------------------------------------------------------
(* eventUpdate, as publisher and reconciler run it                         *)

LoopAt(p, pc) == loop[p].pc = pc
LoopTo(p, pc) == loop' = [loop EXCEPT ![p].pc = pc]
ItemOf(p)     == loop[p].evt.item

MergeEvent(p) ==
    /\ LoopAt(p, "merging")
    /\ LET upd == UpdateOf(loop[p].evt)
           s   == ItemOf(p).server
       IN \/ MergeUpdate(p, s, upd) /\ LoopTo(p, "updating") /\ NoFault
          \/ ~MergeExisting(bucket[s], upd) /\ LoopTo(p, "rejected") /\ NoFault /\ UNCHANGED storeVars
          \/ Fault("get_error") /\ LoopTo(p, "retry") /\ UNCHANGED storeVars
    /\ UNCHANGED <<request, published, job, status, feed, scan, todo, history>>

\* Only ErrConditionComplete is passed on as it is; any other error of Update
\* becomes errRetryThis.
CommitGet(p) ==
    /\ LoopAt(p, "updating")
    /\ \/ UpdateGet(p) /\ NoFault /\ UNCHANGED loop
       \/ /\ UpdateRefused(p)
          /\ LET rec == bucket[ItemOf(p).server]
             IN LoopTo(p, IF rec # NoRecord /\ ~InProgress(rec) THEN "rejected" ELSE "retry")
          /\ NoFault
       \/ UpdateFails(p) /\ update[p].phase = "merged" /\ Fault("get_error") /\ LoopTo(p, "retry")
    /\ UNCHANGED <<request, published, job, status, feed, scan, todo, history>>

\* Variants for mutation: an error of Update is ignored; the status entry is
\* deleted before the history is written; only success is taken as final.
CommitPutIgnoringErrors(p) ==
    /\ LoopAt(p, "updating")
    /\ \/ UpdatePut(p) /\ NoFault
       \/ UpdateFails(p) /\ Fault("put_error")
    /\ LoopTo(p, IF StateIsComplete(loop[p].evt.state) THEN "history" ELSE "accepted")
    /\ UNCHANGED <<request, published, job, status, feed, scan, todo, history>>

CommitPutDeletesFirst(p) ==
    /\ LoopAt(p, "updating")
    /\ UpdatePut(p)
    /\ LoopTo(p, IF StateIsComplete(loop[p].evt.state) THEN "deleting" ELSE "accepted")
    /\ NoFault
    /\ UNCHANGED <<request, published, job, status, feed, scan, todo, history>>

CommitPutSuccessFinal(p) ==
    /\ LoopAt(p, "updating")
    /\ UpdatePut(p)
    /\ LoopTo(p, IF loop[p].evt.state = Succeeded THEN "history" ELSE "accepted")
    /\ NoFault
    /\ UNCHANGED <<request, published, job, status, feed, scan, todo, history>>

CommitPut(p) ==
    /\ LoopAt(p, "updating")
    /\ \/ /\ UpdatePut(p)
          /\ LoopTo(p, IF StateIsComplete(loop[p].evt.state) THEN "history" ELSE "accepted")
          /\ NoFault
       \/ UpdatePut(p) /\ Fault("put_lost_ack") /\ LoopTo(p, "retry")
       \/ UpdateFails(p) /\ Fault("put_error") /\ LoopTo(p, "retry")
    /\ UNCHANGED <<request, published, job, status, feed, scan, todo, history>>

\* The row of a condition can be written again; only a final state may be.
WriteEventHistory(i, st) ==
    /\ StateIsComplete(st)
    /\ history' = [history EXCEPT ![i] = @ \cup {st}]

\* finalizeCondition, one call after the other; the first error ends it.
WriteHistory(p) ==
    /\ LoopAt(p, "history")
    /\ \/ /\ WriteEventHistory(ItemOf(p), loop[p].evt.state)
          /\ LoopTo(p, "deleting")
          /\ NoFault
       \/ Fault("history_error") /\ LoopTo(p, "rejected") /\ UNCHANGED history
    /\ UNCHANGED <<storeVars, request, published, job, status, feed, scan, todo>>

DeleteCondition(i) == status' = [status EXCEPT ![i] = NoStatus]

\* Variant for mutation: nothing follows a condition that is complete.
DeleteStatusLast(p) ==
    /\ LoopAt(p, "deleting")
    /\ DeleteCondition(ItemOf(p))
    /\ LoopTo(p, "accepted")
    /\ NoFault
    /\ UNCHANGED <<storeVars, request, published, job, feed, scan, todo, history>>

DeleteStatus(p) ==
    /\ LoopAt(p, "deleting")
    /\ \/ /\ DeleteCondition(ItemOf(p))
          /\ LoopTo(p, "following")
          /\ NoFault
       \/ Fault("delete_error") /\ LoopTo(p, "rejected") /\ UNCHANGED status
    /\ UNCHANGED <<storeVars, request, published, job, feed, scan, todo, history>>

\* queueFollowingCondition: what is active now is published if it is pending
\* and not in band.
FollowOn(p, i) ==
    /\ i \in ActiveItems(ItemOf(p).server)
    /\ StreamPublishRequired(i.kind)
    /\ Pending \in StateIn(i.server, i)

QueueFollowing(p) ==
    /\ LoopAt(p, "following")
    /\ \/ \E i \in Items :
             /\ FollowOn(p, i)
             /\ loop' = [loop EXCEPT ![p].pc = "publishing", ![p].next = i]
             /\ NoFault
       \/ (\A i \in Items : ~FollowOn(p, i)) /\ LoopTo(p, "accepted") /\ NoFault
       \/ Fault("get_error") /\ LoopTo(p, "rejected")
    /\ UNCHANGED <<storeVars, request, published, job, status, feed, scan, todo, history>>

PublishFollowing(p) ==
    /\ LoopAt(p, "publishing")
    /\ \/ Publish(loop[p].next) /\ LoopTo(p, "accepted") /\ NoFault
       \/ Fault("following_error") /\ LoopTo(p, "rejected") /\ UNCHANGED published
    /\ UNCHANGED <<storeVars, request, job, status, feed, scan, todo, history>>

-----------------------------------------------------------------------------
(* kvStatusPublisher                                                       *)

TakeUpdate(k) ==
    /\ LoopAt(Publisher, "idle")
    /\ feed[k] # << >>
    /\ loop' = [loop EXCEPT ![Publisher] = [IdleLoop EXCEPT !.pc = "merging", !.evt = Head(feed[k])]]
    /\ feed' = [feed EXCEPT ![k] = Tail(@)]
    /\ NoFault
    /\ UNCHANGED <<storeVars, request, published, job, status, scan, todo, history>>

\* Whatever became of the update, the publisher goes on with the next.
PublisherDone ==
    /\ loop[Publisher].pc \in {"accepted", "rejected", "retry"}
    /\ loop' = [loop EXCEPT ![Publisher] = IdleLoop]
    /\ NoFault
    /\ UNCHANGED <<storeVars, request, published, job, status, feed, scan, todo, history>>

-----------------------------------------------------------------------------
(* reconcileStatusKVEntries                                                *)

\* Variants for mutation: the registry is not asked; fresh entries are taken
\* too; only final entries are taken.
NeedsReconciliationUnasked(i) == status[i] # NoStatus /\ status[i].stale
NeedsReconciliationFresh(i) ==
    /\ status[i] # NoStatus
    /\ StateIsComplete(status[i].state) \/ job[i] \in {"dead", "silent"}
NeedsReconciliationOnlyFinal(i) ==
    /\ status[i] # NoStatus
    /\ status[i].stale
    /\ StateIsComplete(status[i].state)

\* eventNeedsReconciliation
NeedsReconciliation(i) ==
    /\ status[i] # NoStatus
    /\ status[i].stale
    /\ StateIsComplete(status[i].state) \/ job[i] \in {"dead", "silent"}

\* What getEventsToReconcile makes of bucket k: an unfinished entry is failed.
ToReconcile(k) ==
    {Event(i, IF StateIsComplete(status[i].state) THEN status[i].state ELSE Failed) :
        i \in {j \in GetAllConditions(k) : NeedsReconciliation(j)}}

\* A round that finds nothing is not modelled.
StartRound ==
    /\ LoopAt(Reconciler, "idle")
    /\ \E i \in Items : NeedsReconciliation(i)
    /\ LoopTo(Reconciler, "listing")
    /\ scan' = Kinds
    /\ NoFault
    /\ UNCHANGED <<storeVars, request, published, job, status, feed, todo, history>>

ListBucket(k) ==
    /\ LoopAt(Reconciler, "listing")
    /\ k \in scan
    /\ scan' = scan \ {k}
    /\ todo' = todo \cup ToReconcile(k)
    /\ LoopTo(Reconciler, IF scan' = {} THEN "next" ELSE "listing")
    /\ NoFault
    /\ UNCHANGED <<storeVars, request, published, job, status, feed, history>>

NextEvent ==
    /\ LoopAt(Reconciler, "next")
    /\ \/ \E evt \in todo :
             /\ todo' = todo \ {evt}
             /\ loop' = [loop EXCEPT ![Reconciler] = [IdleLoop EXCEPT !.pc = "merging", !.evt = evt]]
       \/ /\ todo = {}
          /\ loop' = [loop EXCEPT ![Reconciler] = IdleLoop]
          /\ UNCHANGED todo
    /\ NoFault
    /\ UNCHANGED <<storeVars, request, published, job, status, feed, scan, history>>

\* An event that is to be retried stays in its bucket for the next round; any
\* other is deleted, applied or not.
ReconcilerDone ==
    /\ \/ /\ LoopAt(Reconciler, "retry")
          /\ NoFault
          /\ UNCHANGED status
       \/ /\ loop[Reconciler].pc \in {"accepted", "rejected"}
          /\ \/ DeleteCondition(ItemOf(Reconciler)) /\ NoFault
             \/ Fault("delete_error") /\ UNCHANGED status
    /\ LoopTo(Reconciler, "next")
    /\ UNCHANGED <<storeVars, request, published, job, feed, scan, todo, history>>

-----------------------------------------------------------------------------
\* The orchestrator dies and restarts: its calls are lost, and its new
\* watchers deliver what the status KV holds.
OrchestratorRestarts ==
    /\ CallersDie({}, Loops)
    /\ loop' = [p \in Loops |-> IdleLoop]
    /\ feed' = [k \in Kinds |-> SetToSeq(Entries(k))]
    /\ scan' = {}
    /\ todo' = {}
    /\ UNCHANGED <<request, published, job, status, history>>

OrchestratorCrash == Fault("orchestrator_crash") /\ OrchestratorRestarts

RequestStep(c) ==
    \/ \E s \in Servers, work \in Works : Submit(c, s, work)
    \/ Stored(c) \/ StoreFails(c) \/ PublishFirst(c) \/ MarkGet(c) \/ MarkPut(c)

JobStep(i) ==
    StartJob(i) \/ \E st \in {Failed, Succeeded} : FinishJob(i, st)

EventStep(p) ==
    \/ MergeEvent(p) \/ CommitGet(p) \/ CommitPut(p) \/ WriteHistory(p)
    \/ DeleteStatus(p) \/ QueueFollowing(p) \/ PublishFollowing(p)

PublisherStep ==
    EventStep(Publisher) \/ PublisherDone \/ \E k \in Kinds : TakeUpdate(k)

ReconcilerStep ==
    EventStep(Reconciler) \/ StartRound \/ NextEvent \/ ReconcilerDone
       \/ \E k \in Kinds : ListBucket(k)

Next ==
    \/ \E c \in Creators : RequestStep(c)
    \/ ApiCrash
    \/ \E i \in Items : JobStep(i) \/ LoseController(i) \/ GrowStale(i)
    \/ \E k \in Kinds : Coalesce(k) \/ RefreshWatcher(k)
    \/ PublisherStep
    \/ ReconcilerStep
    \/ OrchestratorCrash

Spec == Init /\ [][Next]_vars

\* Handlers run to their end, and both goroutines go on; controllers take and
\* finish what they can; time passes.
Fairness ==
    /\ \A c \in Creators : WF_vars(RequestStep(c) /\ ~RequestAt(c, "idle"))
    /\ \A i \in Items : WF_vars(JobStep(i)) /\ WF_vars(GrowStale(i))
    /\ WF_vars(PublisherStep)
    /\ WF_vars(ReconcilerStep)

FairSpec == Spec /\ Fairness

-----------------------------------------------------------------------------
(* Type invariant *)

\* Every variable holds a value of its kind.
TypeOK ==
    /\ StoreTypeOK
    /\ request \in [Creators -> [pc : {"creating", "publishing", "marking"}, item : Items]
                                   \cup {IdleRequest}]
    /\ published \in [Items -> Nat]
    /\ job \in [Items -> {"none", "running", "silent", "dead", "finished"}]
    /\ status \in [Items -> [state : States, stale : BOOLEAN] \cup {NoStatus}]
    /\ feed \in [Kinds -> Seq(Events)]
    /\ loop \in [Loops ->
          [pc : {"idle", "listing", "next", "merging", "updating", "history", "deleting",
                 "following", "publishing", "accepted", "rejected", "retry"},
           evt : Events \cup {NoEvent}, next : Items \cup {NoItem}]]
    /\ scan \subseteq Kinds
    /\ todo \subseteq Events
    /\ history \in [Items -> SUBSET {Failed, Succeeded}]
    /\ faults \in 0 .. MaxFaults

-----------------------------------------------------------------------------
(* Safety *)

Executing(i) == job[i] \in {"running", "silent"}

\* The conditions of a unit are handed out in order: a condition is published
\* or taken by a controller only after those before it have succeeded.
DispatchedInOrder ==
    \A s \in Servers : \A n, m \in DOMAIN bucket[s].conds :
        LET i == Item(s, bucket[s].id, bucket[s].conds[m].kind)
        IN n < m /\ (published[i] > 0 \/ job[i] # "none")
              => bucket[s].conds[n].state = Succeeded

\* Controllers execute at most one condition of a server at a time.
OneJobPerServer ==
    \A i, j \in Items :
        i.server = j.server /\ Executing(i) /\ Executing(j) => i = j

\* The event history of fleetdb has one outcome for a condition, the one that
\* the server's record shows.
HistoryAgrees ==
    \A i \in Items :
        /\ Cardinality(history[i]) <= 1
        /\ history[i] # {} /\ bucket[i.server].id = i.id => history[i] = StateIn(i.server, i)

\* The status of a condition is deleted only when its outcome is in the event
\* history.
ForgottenOnlyWhenRecorded ==
    [][\A i \in Items :
          status[i] # NoStatus /\ status'[i] = NoStatus => history[i] # {}]_vars

-----------------------------------------------------------------------------
(* Liveness *)

\* A server that is locked for a unit of work gets unlocked.
UnitsTerminate == \A s \in Servers : InProgress(bucket[s]) ~> ~InProgress(bucket[s])

\* The outcome of a condition that was taken by a controller gets recorded in
\* the event history.
OutcomesRecorded ==
    \A i \in Items :
        job[i] # "none" /\ StateIn(i.server, i) \cap {Failed, Succeeded} # {} ~> history[i] # {}

\* No status entry stays in the status KV for good.
StatusCleared == \A i \in Items : status[i] # NoStatus ~> status[i] = NoStatus

=============================================================================
