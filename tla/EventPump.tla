----------------------------- MODULE EventPump -----------------------------
(***************************************************************************)
(* The goroutines of the orchestrator (internal/orchestrator/updates.go    *)
(* and orchestrator.go): a watcher per status bucket, which hands events   *)
(* over an unbuffered channel to kvStatusPublisher; the reconciler; and    *)
(* Run, which waits for the context to be done and then for the            *)
(* reconciler, closes the stream broker and returns.                       *)
(*                                                                         *)
(* Orchestrator takes from this module that the values of a status entry   *)
(* reach the publisher in the order they were written, each or a later     *)
(* one, also when a watcher is refreshed.  A bucket has one entry here,    *)
(* whose values are 1, 2, ...; what an event is and what is done with it   *)
(* is Orchestrator's concern.                                              *)
(***************************************************************************)
EXTENDS Naturals, Sequences

CONSTANTS
    Buckets,        \* the status KV buckets, one per condition kind
    Malformed,      \* the values parseEventUpdateFromKV rejects
    MaxWrites,      \* MaxWrites[b]: how often the entry of bucket b is written
    MaxDisconnects  \* how often a subscription is lost

ASSUME PumpAssumption == MaxWrites \in [Buckets -> Nat] /\ MaxDisconnects \in Nat

\* What a watcher's channel yields for "no more entries now".
Nil == 0

Values == Nat \ {Nil}
Parsed == Values \ Malformed

VARIABLES
    value,      \* value[b]: the entry of bucket b, Nil before the first write
    feed,       \* feed[b]: what the subscription has yet to deliver
    open,       \* the buckets whose subscription is open
    lost,       \* the number of subscriptions lost
    watcher,    \* watcher[b]: where the watcher of b is, and its event
    publisher,  \* where kvStatusPublisher is
    received,   \* received[b]: the last value of b the publisher received
    closed,     \* is the event channel closed?
    reconciler, \* where the reconciler is
    run,        \* where Run is
    done,       \* is the context done?
    exited      \* has the process ended?

natsVars == <<value, feed, open, lost>>
vars == <<natsVars, watcher, publisher, received, closed, reconciler, run, done, exited>>

Idle == [pc |-> "none", sawNil |-> FALSE, evt |-> Nil]

Init ==
    /\ value = [b \in Buckets |-> Nil]
    /\ feed = [b \in Buckets |-> << >>]
    /\ open = {}
    /\ lost = 0
    /\ watcher = [b \in Buckets |-> Idle]
    /\ publisher = "starting"
    /\ received = [b \in Buckets |-> Nil]
    /\ closed = FALSE
    /\ reconciler = "select"
    /\ run = "running"
    /\ done = FALSE
    /\ exited = FALSE

-----------------------------------------------------------------------------
(* NATS and the surroundings                                               *)

Write(b) ==
    /\ value[b] < MaxWrites[b]
    /\ value' = [value EXCEPT ![b] = @ + 1]
    /\ feed' = IF b \in open THEN [feed EXCEPT ![b] = Append(@, value'[b])] ELSE feed
    /\ UNCHANGED <<open, lost, watcher, publisher, received, closed, reconciler, run, done, exited>>

\* The subscription ends: its channel yields what it holds and then nils.
Disconnect(b) ==
    /\ b \in open
    /\ lost < MaxDisconnects
    /\ open' = open \ {b}
    /\ lost' = lost + 1
    /\ UNCHANGED <<value, feed, watcher, publisher, received, closed, reconciler, run, done, exited>>

Cancel ==
    /\ ~done
    /\ done' = TRUE
    /\ UNCHANGED <<natsVars, watcher, publisher, received, closed, reconciler, run, exited>>

\* logger.Fatal
Fatal ==
    /\ exited' = TRUE
    /\ UNCHANGED <<natsVars, watcher, publisher, received, closed, reconciler, run, done>>

-----------------------------------------------------------------------------
(* The watchers                                                            *)

\* Variant for mutation: a watch with its history replays old values.
SnapshotWithHistory(b) == [n \in 1 .. value[b] + 1 |-> IF n <= value[b] THEN n ELSE Nil]

\* What a new watch delivers first: the entry, if there is one, and a nil.
Snapshot(b) == IF value[b] = Nil THEN <<Nil>> ELSE <<value[b], Nil>>

Watch(b) ==
    /\ feed' = [feed EXCEPT ![b] = Snapshot(b)]
    /\ open' = open \cup {b}
    /\ UNCHANGED <<value, lost>>

\* startConditionWatchers; a watch that fails ends the process.
StartWatcher(b) ==
    /\ publisher = "starting"
    /\ watcher[b].pc = "none"
    /\ \/ /\ run # "returned"
          /\ Watch(b)
          /\ watcher' = [watcher EXCEPT ![b].pc = "select"]
          /\ publisher' = IF \A c \in Buckets \ {b} : watcher[c].pc # "none" THEN "select"
                                                                            ELSE "starting"
          /\ UNCHANGED <<received, closed, reconciler, run, done, exited>>
       \/ Fatal

\* The watcher receives an entry; it skips what does not parse.
ReceiveEntry(b) ==
    /\ watcher[b].pc = "select"
    /\ feed[b] # << >>
    /\ Head(feed[b]) # Nil
    /\ feed' = [feed EXCEPT ![b] = Tail(@)]
    /\ watcher' = IF Head(feed[b]) \in Malformed THEN watcher
                  ELSE [watcher EXCEPT ![b].pc = "sending", ![b].evt = Head(feed[b])]
    /\ UNCHANGED <<value, open, lost, publisher, received, closed, reconciler, run, done, exited>>

NilUpdate(b) ==
    /\ watcher[b].pc = "select"
    /\ IF feed[b] = << >> THEN b \notin open ELSE Head(feed[b]) = Nil

\* The first nil is expected.
FirstNil(b) ==
    /\ NilUpdate(b)
    /\ ~watcher[b].sawNil
    /\ feed' = [feed EXCEPT ![b] = IF @ = << >> THEN @ ELSE Tail(@)]
    /\ watcher' = [watcher EXCEPT ![b].sawNil = TRUE]
    /\ UNCHANGED <<value, open, lost, publisher, received, closed, reconciler, run, done, exited>>

\* Variant for mutation: no nil starts a new watch.
RefreshNever(b) ==
    /\ NilUpdate(b)
    /\ watcher[b].sawNil
    /\ UNCHANGED vars

\* Another one starts a new watch; if this fails the process ends.
Refresh(b) ==
    /\ NilUpdate(b)
    /\ watcher[b].sawNil
    /\ \/ /\ run # "returned"
          /\ Watch(b)
          /\ watcher' = [watcher EXCEPT ![b].sawNil = FALSE]
          /\ UNCHANGED <<publisher, received, closed, reconciler, run, done, exited>>
       \/ Fatal

StopWatcher(b) ==
    /\ watcher[b].pc = "select"
    /\ done
    /\ watcher' = [watcher EXCEPT ![b].pc = "stopped"]
    /\ open' = open \ {b}
    /\ UNCHANGED <<value, feed, lost, publisher, received, closed, reconciler, run, done, exited>>

-----------------------------------------------------------------------------
(* kvStatusPublisher                                                       *)

\* The channel is unbuffered: send and receive are one step.
HandOver(b) ==
    /\ watcher[b].pc = "sending"
    /\ publisher = "select"
    /\ received' = [received EXCEPT ![b] = watcher[b].evt]
    /\ watcher' = [watcher EXCEPT ![b].pc = "select", ![b].evt = Nil]
    /\ publisher' = "handling"
    /\ UNCHANGED <<natsVars, closed, reconciler, run, done, exited>>

\* eventUpdate and the notification end, with an error or without.
Handled ==
    /\ publisher = "handling"
    /\ publisher' = "select"
    /\ UNCHANGED <<natsVars, watcher, received, closed, reconciler, run, done, exited>>

StopPublisher ==
    /\ publisher = "select"
    /\ done
    /\ publisher' = "waiting"
    /\ UNCHANGED <<natsVars, watcher, received, closed, reconciler, run, done, exited>>

\* Variant for mutation: the channel is closed without waiting.
CloseChannelAtOnce ==
    /\ publisher = "waiting"
    /\ closed' = TRUE
    /\ publisher' = "stopped"
    /\ UNCHANGED <<natsVars, watcher, received, reconciler, run, done, exited>>

\* wg.Wait for the watchers, then close.
CloseChannel ==
    /\ publisher = "waiting"
    /\ \A b \in Buckets : watcher[b].pc = "stopped"
    /\ closed' = TRUE
    /\ publisher' = "stopped"
    /\ UNCHANGED <<natsVars, watcher, received, reconciler, run, done, exited>>

-----------------------------------------------------------------------------
(* The reconciler, and Run                                                 *)

StartRound ==
    /\ reconciler = "select"
    /\ reconciler' = "round"
    /\ UNCHANGED <<natsVars, watcher, publisher, received, closed, run, done, exited>>

EndRound ==
    /\ reconciler = "round"
    /\ reconciler' = "select"
    /\ UNCHANGED <<natsVars, watcher, publisher, received, closed, run, done, exited>>

StopReconciler ==
    /\ reconciler = "select"
    /\ done
    /\ reconciler' = "stopped"
    /\ UNCHANGED <<natsVars, watcher, publisher, received, closed, run, done, exited>>

RunWaits ==
    /\ run = "running"
    /\ done
    /\ run' = "waiting"
    /\ UNCHANGED <<natsVars, watcher, publisher, received, closed, reconciler, done, exited>>

\* Variants for mutation: the wait group counts the publisher, or nobody.
RunReturnsAfterAll ==
    /\ run = "waiting"
    /\ reconciler = "stopped" /\ publisher = "stopped"
    /\ run' = "returned"
    /\ open' = {}
    /\ UNCHANGED <<value, feed, lost, watcher, publisher, received, closed, reconciler, done, exited>>
RunReturnsAtOnce ==
    /\ run = "waiting"
    /\ run' = "returned"
    /\ open' = {}
    /\ UNCHANGED <<value, feed, lost, watcher, publisher, received, closed, reconciler, done, exited>>

\* The wait group counts the reconciler only.  Closing the stream broker ends
\* the subscriptions.
RunReturns ==
    /\ run = "waiting"
    /\ reconciler = "stopped"
    /\ run' = "returned"
    /\ open' = {}
    /\ UNCHANGED <<value, feed, lost, watcher, publisher, received, closed, reconciler, done, exited>>

\* The command shuts the API server down and the process ends.
Exit ==
    /\ run = "returned"
    /\ Fatal

-----------------------------------------------------------------------------
WatcherStep(b) == ReceiveEntry(b) \/ FirstNil(b) \/ Refresh(b) \/ StopWatcher(b)

PublisherStep ==
    \/ \E b \in Buckets : StartWatcher(b) \/ HandOver(b)
    \/ Handled \/ StopPublisher \/ CloseChannel

ReconcilerStep == StartRound \/ EndRound \/ StopReconciler

RunStep == RunWaits \/ RunReturns \/ Exit

Next ==
    /\ ~exited
    /\ \/ \E b \in Buckets : Write(b) \/ Disconnect(b) \/ WatcherStep(b)
       \/ PublisherStep \/ ReconcilerStep \/ RunStep \/ Cancel

Spec == Init /\ [][Next]_vars

\* The goroutines go on.  select chooses at random among what is ready: a
\* reconciler that is often at its select once the context is done stops.
Fairness ==
    /\ \A b \in Buckets : WF_vars(~exited /\ WatcherStep(b)) /\ SF_vars(~exited /\ HandOver(b))
    /\ WF_vars(~exited /\ PublisherStep)
    /\ WF_vars(~exited /\ ReconcilerStep)
    /\ SF_vars(~exited /\ StopReconciler)
    /\ WF_vars(~exited /\ (RunWaits \/ RunReturns))

FairSpec == Spec /\ Fairness

-----------------------------------------------------------------------------
(* Properties *)

\* Every variable holds a value of its kind; only what was parsed is handed over.
TypeOK ==
    /\ value \in [Buckets -> Values \cup {Nil}]
    /\ feed \in [Buckets -> Seq(Values \cup {Nil})]
    /\ open \subseteq Buckets
    /\ lost \in 0 .. MaxDisconnects
    /\ watcher \in [Buckets -> [pc : {"none", "select", "sending", "stopped"},
                                sawNil : BOOLEAN, evt : Parsed \cup {Nil}]]
    /\ publisher \in {"starting", "select", "handling", "waiting", "stopped"}
    /\ received \in [Buckets -> Parsed \cup {Nil}]
    /\ closed \in BOOLEAN
    /\ reconciler \in {"select", "round", "stopped"}
    /\ run \in {"running", "waiting", "returned"}
    /\ done \in BOOLEAN
    /\ exited \in BOOLEAN

\* No watcher sends on the channel when it is closed, which would be a panic,
\* and none is left that could.
NoSendOnClosedChannel == closed => \A b \in Buckets : watcher[b].pc = "stopped"

\* The reconciler does not use the stream broker once it is closed.
BrokerOpenInRounds == reconciler = "round" => run # "returned"

\* The values of an entry reach the publisher in the order they were written,
\* across refreshed watchers: none comes after a later one.
ReceivedInOrder == [][\A b \in Buckets : received'[b] >= received[b]]_vars

\* A value, or one that was written later, reaches the publisher, whatever
\* subscriptions are lost, unless the process is shut down or ends.
LatestReceived ==
    \A b \in Buckets : \A v \in (1 .. MaxWrites[b]) \ Malformed :
        value[b] = v ~> received[b] >= v \/ value[b] > v \/ done \/ exited

\* When the context is done, Run returns, so that the API server is shut down.
RunComesToAnEnd == done ~> run = "returned" \/ exited

=============================================================================
