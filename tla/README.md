# Verification of conditionorc

conditionorc schedules units of work ("conditions": inventory, firmware install, BIOS and power
control) on servers. An API creates a unit and publishes its first condition on a NATS JetStream;
controllers take conditions from the stream, or poll an API for them when they run on the server
itself (in band), and report their state in NATS key-value buckets; the orchestrator turns reports
into updates of the active-conditions bucket, writes outcomes to the event history of fleetdb and
publishes what follows. This directory holds TLA+ models of that, TLC configurations and TLAPS proofs.

## 1. Inventory

| Component | State | Operations | Talks to |
|---|---|---|---|
| Active-conditions store (`internal/store/nats.go`) | one `ConditionRecord` per server, TTL ten days | `Get`, `GetActiveCondition`, `Create`, `Update`, `List` | called by both APIs, publisher, reconciler |
| Condition values (`pkg/api/v1/conditions/types`) | none | `NewCondition`, `MergeExisting`, validation | used everywhere |
| Conditions API (`pkg/api/v1/conditions/routes`) | none of its own | create a condition, firmware install and validation, enrol, delete, status | store, JetStream, fleetdb |
| Orchestrator API (`pkg/api/v1/orchestrator/routes`) | none of its own; writes status and task buckets | condition query, status update, task query and publication | store, status KV, task KV |
| Status KV (`internal/status/kv.go`) | one bucket per kind, one entry per condition | watch, list, delete | written by controllers, read by the orchestrator |
| Publisher (`updates.go`: `startConditionWatchers`, `kvStatusPublisher`) | one watcher goroutine per bucket, an unbuffered channel | parse, `eventUpdate`, notify | status KV, store, fleetdb, JetStream |
| Reconciler (`updates.go`: `startReconciler`) | the events of its round | list stale events, `eventUpdate`, delete | the same, and the controller registry |
| Enrolment (`internal/fleetdb`) | server, credential and attributes in fleetdb | `AddServer` and its rollback, `DeleteServer` | fleetdb |
| Notifier (`internal/orchestrator/notify`) | map of messages sent | `Send` | Slack; called by publisher and reconciler |
| Liveness (`internal/orchestrator/liveness.go`) | the orchestrator's registration | check in, register again, give up | registry |
| Process (`cmd/orchestrator.go`, `orchestrator.go`) | connections, goroutines, a wait group | start, `Run`, termination, fatal errors | NATS, and all of the above |

What is hard about it:

* `Create` and `Update` are a Get followed by an unconditional Put. Nothing but the way they are
  called keeps two of them apart.
* Two goroutines of the orchestrator, and the API, update the same records; a staleness threshold
  and the controller registry decide which goroutine handles an event.
* `finalizeCondition` does three things after the commit (history, deletion, follow-on work), each
  of which may fail or be cut off by a crash, in a place no event leads back to.
* Watchers coalesce, are refreshed and restarted: reports are lost and delivered again.
* A record's state is a summary of its conditions' states, computed from one update at a time.
* Publisher and reconciler share the map of the notifier, with a call of Slack between its reads and writes.
* Whether a controller is dead is read off a registry whose entries expire, and which an outage of NATS empties.

What makes the components correct:

* store: a lock per server; records keep their work, agree with their conditions, and are history once finished;
* flow: conditions are dispatched in order, at most one is executed on a server at a time, the event
  history has one outcome per condition and it is the record's, and a status entry goes only once its outcome is recorded;
* liveness: servers are unlocked again, outcomes get recorded, the status KV is emptied;
* reports of in-band controllers: neither a timestamp nor another condition's task overwrites what is final
  or alive, and what was accepted takes effect;
* goroutines: entries reach the publisher in order and the latest one reaches it, nothing is used after it is closed,
  and the process stops when told to;
* requests: a failed enrolment undoes what it made and nothing else, a successful one is complete, and a request answered with an error leaves
  its server locked only by work a controller knows of;
* notifications: an outcome that is announced is the recorded one, and its message stands;
* process: an outage costs no live controller its work unless it outlasts the threshold, a dead controller's work is failed
  in the end, and the orchestrator's registry entry neither expires under its check-ins nor stays away.

`PROJECT.json` lists each hazard at its line, with the properties that would catch it.

## 2. Modules

    Conditions            values: conditions, records, MergeExisting, ApplyUpdate
      ConditionStore      the store and its callers, Get and Put apart   --implements-->  WorkLock
        ConditionStore_proofs   its theorems
        MCConditionStore        instances for TLC
        Orchestrator      API requests, controllers, publisher, reconciler  --implements-->  ConditionStore
          Orchestrator_proofs     its theorems, whatever fails
          Dispatch_proofs         its theorems when its callers keep apart, restarts included: order, one job per server, history
          MCOrchestrator          instances for TLC
          Notifications     the Slack messages of publisher and reconciler, beside the whole flow
            Notifications_proofs    its theorems
            MCNotifications
        ServersAPI        enrolment, deletion and every request that creates a unit  --implements-->  ConditionStore
          ServersAPI_proofs       its theorems
          MCServersAPI
      ControllerAPI       in-band controllers: status and task KV through the orchestrator API
        ControllerAPI_proofs      its theorems
        MCControllerAPI
    EventPump             watchers, publisher, reconciler and Run as goroutines
      EventPump_proofs        its theorems
      MCEventPump
    Service               the orchestrator process, its registry entry, outages of NATS
      Service_proofs          its theorems
      MCService

The flow of a unit is modelled four times, each time with other parts in detail: `Orchestrator` has what is done with an
event, `EventPump` how events get there, `ControllerAPI` how they are made in band, `ServersAPI` where units come from.

**Conditions** has no state. A condition is its kind and state; a record an id, a state and a
sequence of conditions. `IsActiveCondition` is `GetActiveCondition`, `MergeExisting` the method of
that name, `ApplyUpdate` what `Update` does to a record in memory. The transition table and the kinds
whose conditions are not published are defined in the rivets module and taken as external.

**ConditionStore** is `nats.go` with its callers. `CreateGet`/`CreatePut` and
`UpdateGet`/`UpdatePut` are the two halves of `Create` and `Update`; the record a caller is about to
put is kept in `create[c]` and `update[u]`. `MergeUpdate` is the orchestrator's `mergeUpdate` in
front of an `Update`; `MarkUnpublished` is the API's `Update` without one. Calls fail
(`CreateFails`, `UpdateFails`), are refused (`UpdateRefused`), or die with their process
(`CallersDie`), and the bucket drops a record after its TTL (`Expire`; no call takes ten days).
`units` is a history variable: the work each id was created for.

`StoreSpec` lets all callers overlap. `SerialSpec` is the store as it is meant to be used:
`Serialised` (at most one Create and one Update of a server under way) and `MarkedIsActive` (a
condition is marked unpublished only while it is the active one). Neither is enforced by the store;
`Orchestrator` shows when the system provides them.

**WorkLock** is what the store is for: a lock per server, acquired by a unit only when free and
never twice by the same unit. `LockSpec` maps the holder to the id of a record in progress.

**Orchestrator** extends the store with all of its callers. A request goes through
`Submit`, `Stored`, `PublishFirst` and, when that fails, `MarkGet`, `MarkPut`. A controller's
`StartJob` and `FinishJob` write the status bucket, which feeds the watcher. `TakeUpdate`
hands an event to the publisher, `StartRound`, `ListBucket`, `NextEvent` to the reconciler; both then
run `eventUpdate` one call at a time: `MergeEvent`, `CommitGet`, `CommitPut`, `WriteHistory`,
`DeleteStatus`, `QueueFollowing`, `PublishFollowing`. `PublisherDone` and `ReconcilerDone` are what
each makes of the result. The program counters are those of the code between two calls to
another system; code between two such calls is one step.

What can go wrong is named by a string in `Faults` and counted against `MaxFaults`: failures of
a Get, of a Put, or of the answer to a Put (`get_error`, `put_error`, `put_lost_ack`), of Publish or its answer
(`publish_error`, `publish_lost_ack`), of the follow-on Publish (`following_error`), of the history and of the deletion of a status
(`history_error`, `delete_error`), crashes of the API and of the orchestrator (`api_crash`,
`orchestrator_crash`), a controller that dies or whose check-ins get lost (`controller_dies`,
`controller_silent`), and a watcher that skips an overwritten value or starts over (`coalesce`,
`refresh`).

Assumptions about the surroundings:

* One orchestrator per facility, as the note at `types.go:106-118` has it: one publisher and one reconciler.
* `PromptPublisher`: the publisher has handled what the watchers delivered before a staleness
  threshold (minutes) runs out. Without it publisher and reconciler may process one event at
  the same time. Only the theorems of `Dispatch_proofs` need the assumption.
* The stream delivers a published condition; a controller drops a message of a condition it
  has taken before. A redelivery to a controller is therefore no step of its own.

**ControllerAPI** has the in-band conditions of one server, done one after the other. A controller's
reporter and its ticker make requests (`Report`, `Tick`) which pass the check of the active
condition in the store (`Accepts`) and then run `publish` of `statusValueKV.go` or `taskKV.go` one KV call at a time:
`Get`, `Clear` (delete what an earlier condition left), `Create`, or `Update` with the revision that was read. `Commit`,
`Reconcile` and `Forget` are the orchestrator's share. A controller that has restarted (`RestartController`) knows nothing and
asks for its task (`TaskQuery`, with `GetTask` for `taskKVImpl.get`): it goes on where the task says it was (`Resume`), and starts
anew only when there is none. Faults: a KV call fails (`kv_error`), an answer is lost (`lost_answer`; the reporter repeats
its report), a controller dies or restarts. `reported` is a history variable: the conditions whose final report the task KV has had. Assumptions: a controller's reporter waits for its
answer before it sends more, publishes its task before its first status, and the ticker runs between the first and the last report.
Thresholds are longer than requests: an entry gets stale only when the requests for completed conditions are over.

**EventPump** has one watcher per status bucket, the unbuffered channel, the publisher, the reconciler, `Run` and the
NATS side of a watch: a snapshot first, a nil, then changes; a nil again when the subscription is lost
(`Disconnect`). `NilUpdate`, `FirstNil` and `Refresh` are the three things a nil can lead to.
The context is cancelled at any time (`Cancel`). A select whose cases are both ready takes either.

**ServersAPI** has every request that changes something: `Start` says which handler runs, and each call to fleetdb,
the store or the stream is an action. `maker[s][row]` is who made a row of fleetdb, which the rollback is judged by.
`GetServer`, `FirmwareSetByID` and `DeleteServer` are the calls of fleetdb in front of and instead of a unit.
`UnitsFor` are the units that the handlers compose. A Put or a Publish that fails may have been done with only its answer lost
(`put_lost_ack`, `publish_lost_ack`): after the one the request fails and neither publishes its unit nor marks it, after the other it marks failed
what a controller may be executing. `Work` is the orchestrator, reduced to its updates (`UpdateCondition`) and, after one that completes a
condition, the search for follow-on work (`QueueFollowingCondition`, `EndFollowing`), which may find and publish the unit of a request that
has yet to publish it. A new update may begin before that search has ended, for publisher and reconciler are two loops. `Known` says that a
controller may know of a unit. `unsettled` is a history variable: the requests whose Put was not acknowledged or whose marking failed.
Assumptions: enrolments and deletions of one server do not overlap each other (`ServerOpsDone`; requests that create
units overlap with everything), and a call of fleetdb, unlike those of NATS, that failed has changed nothing.

**Notifications** extends `Orchestrator`, whose steps it takes along, with `Send`: `PublisherAnnounces` is
`PublisherDone` followed by `Send` if the update was accepted, `ReconcilerAnnounces` is `ReconcilerDone` followed by `Send`
unless the update is to be retried. `Send` reads the map (`Duplicate`, or which of `PostMessage` and `UpdateMessage` it calls),
calls Slack, and writes the map (`Record`, which deletes the entry with an outcome). The other loop goes on between the
two, and may be in `Send` itself; when it is there while the map is written, `MapRace` may end the process.
`notice_error` is a call of Slack that fails, `notice_timeout` one that succeeds but answers too late. `messages` is
the Slack channel as it reads. `doubtful` (events the reconciler announced although their update was refused) and
`raced` (units for which both loops were in `Send` at once) are history variables, for what the properties except.

**Service** is the process. `StartUp` is `cmdOrchestrator` and `Run` up to the goroutines, one call of NATS per
action, whose failure is fatal but for the registry's. `CheckinRoutine` is `checkinRoutine` and
`refreshWorkerToken`. `watchers` are the watchers of status entries, all in one: `WatchConditionStatus` is the first watch and the
one after a lost subscription (`LoseSubscription`), whose failure ends the process, when NATS is out of reach or the context is cancelled
meanwhile; `EventPump` has them one by one. `ListStale`, `AskRegistry` and `Reconcile` are a round of the reconciler, reduced to what it
asks of time and the registry. Time is counted in check-in periods: in each, whoever is up tries to check in once, and
the ages of registry entries (`entry`) and status entries (`work`) grow. NATS may be lost and come back; the supervisor
starts a process that has ended.

## 3. Runs

| Run | Instance | Shows |
|---|---|---|
| StoreSerial | 2 servers, 3 units of up to 2 of 2 kinds, 2 creators, 2 updaters, `SerialSpec` | types; the lock, order, monotony and finality of records when calls on a server do not overlap |
| StoreTwoCreators (violation) | 2 overlapping creators | a unit in progress is replaced |
| StoreEarlySuccess (violation) | 1 unit of 2 | a unit succeeds with work left |
| FlowSafety | 2 units of 3 conditions, the second in band; up to 2 of controller_dies, coalesce, put_error, get_error, api_crash | types; order, exclusion, `SerialSpec`; a status entry goes only once its outcome is recorded |
| FlowRestart | 2 units of 2; up to 2 of orchestrator_crash, refresh, history_error, delete_error, put_lost_ack | one outcome in the history and the record's, `SerialSpec`, and what holds of every record (its work is kept, failed iff a condition is, locked for something) through crashes and redelivery |
| Notices | 1 unit of 2, Slack enabled; up to 2 of all 16 faults of the flow and of Slack | announced outcomes are recorded ones and stand |
| FlowLiveness | 1 unit of any shape (one condition, one in band, three with the middle one in band); any one of controller_dies, coalesce, refresh, put_error, publish_error | termination, recording, cleaning up |
| FlowLostHistory (violation) | 1 unit, history_error | an outcome is never recorded |
| InbandReports | 2 in-band conditions, reporter and ticker each; any one of lost_answer, kv_error, controller_dies, controller_restarts | final reports and live tasks stand, finished work is not done again, accepted outcomes reach the store, tasks get published |
| Pump | 2 buckets, 3 entries and 1; a lost subscription, a shutdown at any time | order, no stale and no lost latest entry, closing after the last use, `Run` returns |
| Service | 1 controller; registry entries live 4 periods, stale after 2; 2 outages, 1 termination, any number of lost subscriptions | who is taken for dead, that the process's own entry is kept or made anew, that dead work is reconciled |
| Requests | 1 server, 3 overlapping requests, enrolments and deletions but for one of any kind; up to 2 failing calls or lost answers | types; rollback, completeness, no lock by work of failed requests that nobody knows of |

Bounds. Two units per server are the least with which one can be replaced, be taken for another or
be published by the wrong party; a third brings nothing new, since a finished record is only ever looked at
through `InProgress`. Three conditions give a first, a middle and a last one; the middle one of the
flow is in band, between two that are published. Servers share nothing in the store, which
`StoreSerial` checks with two; the flow has one. `FlowLiveness` has one unit of each shape: a unit whose end is certain leaves
the server as it found it, and two units did not fit into the time of a run together with the faults. One API request at a time is what `Serialised` needs
(`StoreTwoCreators` shows what two do). `MaxFaults` of two lets a fault hit the recovery from another.
In `InbandReports` the conditions have the outcome succeeded and one fault happens. The theorems of `ControllerAPI_proofs` are for
any outcomes and faults, and their invariant was checked with both outcomes and two faults (2,738,977 states) before it was proved. `Requests` needs three requests: a server enrolled, one more that
fails or deletes it, and one that creates a unit meanwhile. Its constraint `OneOtherRequest` leaves two requests that both create units of the
other kinds to the theorems; an enrolment creates a unit too, so units of two requests do meet. One failure makes a request
fail, the second one hits its recovery. The chain that the in-band flag adds is left out (`InbandFlag`): a request does with it what it
does with the shorter ones; a unit that is not published comes from `serverConditionCreate`.
`Notices` has one unit, for the map has one entry for each and messages of two units never meet; two faults allow the repeated
or refused event that brings both loops to one entry, and a failing call of Slack. `Service` has one controller, for the
reconciler decides on each by itself; with an expiry of 4 periods an entry is fresh, stale while still registered, and gone in turn; a second outage can hit the
recovery from the first, at the start or in `refreshWorkerToken`.
`StoreSerial`, `FlowSafety` and `Requests` take symmetry, in callers and ids, which are only ever compared; the runs with a restarted watcher
do not, for the order of its snapshot comes from a CHOOSE, nor those with liveness.
`CHECK_DEADLOCK FALSE` everywhere: the ids, conditions or requests are used up and the system comes to rest.

What the qualifications of properties leave out. `NothingLeftOver` is about rollbacks that succeed: the first deletion
that fails ends one. `NoWorkOfFailedRequests` leaves out the `unsettled` requests. A Put that was done but not acknowledged (`nats.go:226`) is a single fault
after which the request fails and nobody publishes the unit: the server is locked, with no work for a controller, until the record's TTL.
When publishing and the marking after it both fail, the unit stays in progress as well, as the comment in the code says ("an operator is going to
have to sort this out"). It says nothing of locks by a unit that was published although its request failed: a controller knows of it. `AnnouncedAsRecorded` leaves out `doubtful`
events: the reconciler announces whatever it is done with, refused or not (`updates.go:619`), so that a message may say of a
condition what it never was. `OutcomeStands` leaves out `raced` units, where a loop that has read the map edits the message in
which the other has announced the outcome since. `TaskDoneOnce` takes three faults in sequence to break, and no fewer (`TaskIsDoneOnce`): when the answer of a
final task is lost, the repeat deletes the task and its `Create` fails, and the controller then restarts, no task tells it that
the work was done, and it starts anew. `LiveTaskKept` holds of two conditions, and of any number when no controller dies
(`LiveTasksAreKept`); with three, a late timestamp of the first one's ticker refreshes the task of the second,
whose controller died before its task was fresh, while the third one's report is about to clear it (found by TLC). `DeadReconciled` leaves out a process that could not initialise the
registry: it never tries again, and clears or fails nobody.

Why the fault lists are split. Each fault was run alone against the safety properties of FlowSafety.
`coalesce`, `put_error`, `api_crash` and `delete_error` break none. `put_lost_ack`, `history_error` and `orchestrator_crash`
break `ForgottenOnlyWhenRecorded` and nothing else: the commit is done, and the second attempt is
refused by the merge and clears the entry. That is the finding of FlowLostHistory, so FlowRestart
does without the property. What breaks more, and is therefore only in Notices and in the proofs, whose properties survive any fault:

* `controller_silent`: the reconciler fails a job that is running, and a second one starts
  (`OneJobPerServer`).
* `refresh` together with `controller_dies` or with an event the publisher gave up: publisher and
  reconciler process the same entry at once, and a late Put of the publisher revives a condition the
  reconciler has failed (`SerialSpec`). That is why FlowRestart, which has `refresh`, has no dying controllers.
* `publish_lost_ack`: the request marks failed what a controller is executing, and the next unit is executed beside it
  (`OneJobPerServer`, found by TLC with two units of one condition). `publish_error` has the same effect when
  the follow-on step of the previous unit has published the condition, which takes two units.
* `delete_error` and `following_error` (for liveness): the follow-on condition is never published and the server
  stays locked until the record expires.

Fairness. Requests run to their end once started and both goroutines go on: goroutines without a blocking wait other than
their calls. Weak fairness of `JobStep`: the stream redelivers until a controller has taken a
condition, and a controller that lives finishes. Weak fairness of `GrowStale`: time passes. No fairness of new requests or of faults.
FlowLiveness has the faults that do not break it: a failure of the history, the deletion or the follow-on publication,
a crash before these, a request that dies before it publishes, and a lost answer each leave a unit that only the
TTL unlocks, or an outcome that is not recorded; see the hazards. In `EventPump` goroutines are weakly fair, and strongly fair are the choices of a
`select` that is offered the same case again and again, because Go chooses at random among the ready cases. In
`ControllerAPI` requests, the orchestrator and living controllers are weakly fair. In `Service` the goroutines, the supervisor, the end
of an outage and time are weakly fair, outages, deaths and the termination are not.

## 4. Proofs

`ConditionStore_proofs`, for any number of servers, units, kinds and callers:

* Under `StoreSpec`, from the invariant `RecordInv`, which says of every record, stored or on its way,
  that it keeps its unit's kinds, is failed exactly when a condition is, and while in progress has an incomplete last
  condition: `StoreTypeCorrect`, `WorkIsPreserved`, `FailureIsShared`, `NoIdleLock`. It
  has to speak of the records that callers hold, for these are what the next Put stores, however old.
* Under `SerialSpec`, from `SerialInv`, which adds what a caller may rely on between its Get and its Put (nobody else
  wrote the server's record: the record to be put is the update applied to what is stored) and that ids
  are used once: `InOrderExecution`, `NoUnitReplaced`, `NoFinishedRecordChanged`,
  `NoConditionRegresses`, and the refinement `StoreIsLock`.

`Orchestrator_proofs`, for any servers, units, kinds and faults, without `PromptPublisher`:

* `FlowInv` (lemma `FlowInvariant`) is the store's type invariant, `RequestInv` (a request works on the first
  condition of the unit it was given), `StatusInv` (status entries, feeds and jobs hold what they can), `LoopInv`
  (a loop that is past its pick has an event, and one that is about to write the history has an outcome to write) and the
  bound on faults. `TypeOK` follows from it (`FlowTypeCorrect`), but is not inductive without: the value
  written to `history` and the event merged are those of the program counter's past.
* `FlowImplementsStore`: every step of the flow is a step of `StoreSpec` or leaves the store alone. `FlowInv` supplies
  that the update a loop makes is one the store knows (`Update`), and that a mark is of the request's own unit.
* `FlowPreservesWork`, `FlowSharesFailure`, `FlowNoIdleLock`: what `ConditionStore_proofs` has for `StoreSpec` holds
  of the whole flow.

`Dispatch_proofs`, for any servers, units of any length, kinds, requests and number of faults, under two hypotheses. Where they
are left out, one or the other theorem is false.

* `CreatesApart`, of the behaviour: calls of `Create` for one server do not overlap (`StoreTwoCreators` shows what two do). Requests
  overlap otherwise, on one server too.
* `Orderly`, of the constants: the publisher keeps up (`PromptPublisher`), and the faults leave publisher and reconciler apart: not
  `controller_silent`, `publish_error` or `publish_lost_ack`; and when events may be delivered again (`refresh`,
  `orchestrator_crash`), no controller dies and no event is given up (`get_error`, `put_error`). Section 3 says what these
  break. The faults of `FlowSafety` and of `FlowRestart` are both `Orderly`, and so are `following_error` and
  `delete_error` with either. `NothingForgottenUnrecorded` also excludes the three faults that `FlowLostHistory` is about
  (`Unrecording`).

`DispatchInv` is `FlowInv`, the store's `SerialInv` and `OrderInv`, whose parts say:

* `CallsInv`: what a caller of the store is about to put is of the event or request it is at, and an Update is of an active condition;
* `JobInv`: what is executed is the active condition of its server and has a status entry, and a final entry is of a controller that is through;
* `FeedInv`, `PublisherInv` (`ForPublisher`): no event for the publisher is of an active condition that the reconciler would take too, and
  an outcome is the last event of its condition; `ReconcilerInv`, `TodoInv` (`ForReconciler`): the reconciler's events are outcomes of conditions whose
  controller will not report any more, and stale when active. So the two loops never apply events of one server at once, which is what `SerialSpec` asks:
  nothing in the code enforces it, the staleness thresholds do;
* `AfterInv`, `HistoryInv`: an outcome that is being recorded has been applied, by one of the loops, and none is in the history before;
  that is why a redelivered event, which the merge refuses once its outcome is applied, cannot record a second one;
* `RedeliveryInv`: where events may be delivered again, the outcome of a condition that is still active is in a feed or with the publisher and its entry is fresh, so
  that a snapshot repeats to the publisher only what the reconciler will not take;
* `RecordedInv`: without `Unrecording`, an entry whose outcome is applied but not in the history is at a loop that is about to write it, and what the
  publisher records the reconciler leaves alone;
* `PublishInv`: what is published, or is about to be, is active or was, which makes `DispatchedInOrder` inductive.

TLC checked the invariant first, in both regimes of faults: with any one of them on units of three conditions, one in band (246,907 and 192,808 states), and
with two on units of two published ones (153,482 and 154,320).

From it `FlowIsSerial` (the flow implements `SerialSpec`), `DispatchIsInOrder`, `OneConditionAtATime`, `HistoryIsConsistent` and
`NothingForgottenUnrecorded`; from `FlowIsSerial` and the theorems about the store `FlowReplacesNoUnit`, `FlowRunsConditionsInOrder`,
`FlowRegressesNoCondition` and `FlowIsLock`.

`EventPump_proofs`, for any buckets and any number of writes: `PumpInv` is `TypeOK`, `ShutdownInv` and `OrderInv`.
`ShutdownInv` has what ends for good: once the channel is closed no watcher is left,
and when `Run` has returned the reconciler has stopped. From it `ChannelClosedLast` and
`BrokerClosedLast`. `OrderInv` says of each bucket that what the publisher and the watcher hold is not newer than what the
subscription has yet to deliver, which is in order; it is what makes `ReceivedInOrder` inductive, also across
a refresh, whose snapshot is the current value. From it `EventsInOrder`. `PumpTypeCorrect` comes first.

`Service_proofs`, for any controllers, expiry, thresholds, outages and terminations: `ServiceInv` is `TypeOK`, `ContactInv`, `TokenInv` and
`RoutineInv`. `ContactInv` bounds the age of a living controller's registry entry by the check-ins that outages have cost it since its
last one, and the one it has yet to make in this period. `LiveSpared` speaks of the
ages at the moment the reconciler asks, which no state before shows; the bound relates them to the outages. From it
`LiveControllersSpared`. `TokenInv` bounds the age of the orchestrator's own entry while its routine ticks: it is of this period, or of the
last one with the check-in still to come, unless there never was one. `RoutineInv` adds that there is neither a routine before the registry
is initialised nor an entry before the first registration. From them `EntryKept`, which needs every way into the ticking state.

`ControllerAPI_proofs`, for any number of in-band conditions, outcomes and faults: `ApiInv` has `SaidInv`, by which
what the status KV and the task KV have of a condition agrees with where its controller is (a final entry is one its controller reported, and
is kept in the task as long as the condition is incomplete), `CallInv`, by which a request carries the report its controller is at, and
`ReadInv`, by which a request whose revision is still current has read the entry that is there: that is what makes a late `Update`
harmless. From it `FinalReportsStand`. `KeptInv` adds what becomes of tasks: `TickInv`, by which the task entry is of an incomplete condition, or gone, once its ticker has started;
`ClearInv`, by which a report is about to delete the task only, and of its own condition a final one only; `LeftInv`, by which an unfinished task that nobody
works on is left by a controller that died; `StaleInv`, by which a report is about to delete another condition's unfinished task only while it is stale; and
`OnceInv`, which counts: of a condition whose final report was accepted the task KV lacks the final task only after the lost answer and the failed call that
were spent on it (`Forgotten`). From it `TaskIsDoneOnce` (any number of conditions and outcomes; two faults, or any number of faults
without one of the three kinds), `LiveTasksAreKept`, and `TaskUnderWayKept`: the task of a condition under way is never deleted or replaced, whatever fails.

`ServersAPI_proofs`, for any servers, overlapping requests and faults:

* `RequestInv` (types, and what each request knows at its step) gives the refinement `ApiImplementsStore`.
* `RowsInv` says that one enrolment or deletion of a server is under way at a time, that the rows a request
  has flagged as made are its own and are the rows there are (`MadeInv`, `OwnInv`), and that a server whose enrolment succeeded is
  whole or gone (`CompleteInv`). From it `RollbackLeavesNothing`, `SuccessIsComplete` and `RollbackSparesOthers`. The
  rollback decides by the flags alone, so the invariant has to tie them to the rows at each of its steps.
* `RecordInv`, `UnitsInv` (`OwnUnit`, `UnitInv`, `WorkInv`): a unit is its request's alone and nowhere before its Put; the orchestrator updates
  only units a controller knows of, and finds for publication only units that were created; a request marks its own unit only, with a failed
  record. So whatever Put of the orchestrator follows, or comes before, the mark, the unit of a failed request that is not `unsettled` is
  over, replaced or known. From it `FailureUnlocks`, for any number of faults.

`Notifications_proofs`, for any servers, units and faults of the flow and of Slack, without `PromptPublisher`: `NoticeInv` adds to `FlowInv`
that an outcome a loop has got past is in the history (`OutcomeInv`), that a loop in `Send` carries an event that may be announced and
stands still meanwhile (`SenderInv`), that what the channel shows was such an event (`MessagesInv`), that the map's message of a unit shows no
outcome unless a loop is about to delete the entry (`TrackedInv`), and that two loops in `Send` for a unit are a recorded race
(`AloneInv`, `EntryInv`). From it `AnnouncementsRecorded` and `OutcomesStand`. `TrackedInv` is what the code relies on without saying so:
the entry is deleted in a step after the one in which the message changes.

The assumptions are those the modules state of their constants: `KindsAssumption`, `IDsAssumption`, `ServersAssumption`, `WorksAssumption`
(kinds, ids and units are what they are), `CallersAssumption`, `RequestersAssumption`, `NobodyAssumption`, `MembersAssumption`
(callers are told apart), `FiniteAssumption`, `PumpAssumption`, `OutcomesAssumption`, `UnitsAssumption` (units of requests
are units of the store), `PeriodsAssumption` (an entry gets stale before it expires) and the bounds
`MaxFaultsAssumption`, `BoundsAssumption`, `BoundAssumption`, which are any numbers. TLC evaluates all of them in the runs.

Only model-checked: everything about liveness (`UnitsTerminate`, `OutcomesRecorded`, `StatusCleared`, `OutcomeReachesStore`, `TaskGetsPublished`,
`LatestReceived`, `RunComesToAnEnd`, `DeadReconciled`, `StaysRegistered`), for fairness is out of the prover's reach. The invariants and action properties of the passing runs all have their
theorems, those of the flow under `Orderly`.

## 5. Not modelled

Parameters, status texts, timestamps other than the thresholds, traces, metrics and generated code; reading the
configuration; routing, parsing, authentication; the conditions client, which only wraps requests; `List` and the read-only
handlers (`conditionStatus`, `firmwareset`); answers of fleetdb that get lost, and overlapping enrolments of one server
(rows carry no owner, so nothing could keep such requests apart); requests that the server goes on with after the client has given up.

## 6. Plan

1. Done: `Conditions`, `ConditionStore`, `WorkLock`, `Orchestrator`, `EventPump`, `ControllerAPI`, `ServersAPI`, `Notifications`, `Service`, each
   composed, checked and with its main safety properties as theorems.
2. Done: an invariant of `Orchestrator` strong enough for `DispatchedInOrder`, `HistoryAgrees` and the refinement of `SerialSpec` as
   theorems, through restarts and with overlapping requests.
3. To do: overlapping enrolments and lost answers of fleetdb in `ServersAPI`.
