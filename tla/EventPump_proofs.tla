-------------------------- MODULE EventPump_proofs --------------------------
(***************************************************************************)
(* Proofs about EventPump, for any number of buckets, writes and lost      *)
(* subscriptions: the channel is closed after its last sender, the broker  *)
(* after the last round of the reconciler, and a status entry's values     *)
(* reach the publisher in the order they were written.                     *)
(***************************************************************************)
EXTENDS EventPump, TLAPS

\* When Run has returned, or the channel is closed, nobody is left who could
\* use the broker in a round, or the channel.
ShutdownInv ==
    /\ run = "returned" => reconciler = "stopped"
    /\ NoSendOnClosedChannel

Entry(b, i) == feed[b][i]
At(b)       == 1 .. Len(feed[b])

\* What the publisher and the watcher of b hold is not newer than what the
\* subscription has yet to deliver, which is in order.
Behind(b) ==
    /\ received[b] <= value[b]
    /\ watcher[b].evt <= value[b]
    /\ watcher[b].pc = "sending" => received[b] <= watcher[b].evt
    /\ \A i \in At(b) : Entry(b, i) # Nil =>
          received[b] <= Entry(b, i) /\ watcher[b].evt <= Entry(b, i) /\ Entry(b, i) <= value[b]
    /\ \A i, j \in At(b) : i < j /\ Entry(b, i) # Nil /\ Entry(b, j) # Nil =>
          Entry(b, i) <= Entry(b, j)

OrderInv == \A b \in Buckets : Behind(b)

PumpInv == TypeOK /\ ShutdownInv /\ OrderInv

-----------------------------------------------------------------------------
(* Types                                                                   *)

\* The variables that no watcher, feed or value changes.
processVars == <<publisher, received, closed, reconciler, run, done, exited>>

LEMMA PumpInit == Init => PumpInv
<1> SUFFICES ASSUME Init PROVE PumpInv
  OBVIOUS
<1>1. TypeOK
  <2>1. feed \in [Buckets -> Seq(Values \cup {Nil})]
    BY DEF Init
  <2>2. watcher \in [Buckets -> [pc : {"none", "select", "sending", "stopped"},
                                 sawNil : BOOLEAN, evt : Parsed \cup {Nil}]]
    BY DEF Init, Idle
  <2>3. lost \in 0 .. MaxDisconnects
    BY PumpAssumption DEF Init
  <2> QED
    BY <2>1, <2>2, <2>3 DEF Init, TypeOK
<1>2. ShutdownInv
  BY DEF Init, ShutdownInv, NoSendOnClosedChannel
<1>3. OrderInv
  <2> SUFFICES ASSUME NEW b \in Buckets PROVE Behind(b)
    BY DEF OrderInv
  <2>1. Len(feed[b]) = 0 /\ received[b] = 0 /\ value[b] = 0 /\ watcher[b] = Idle
    BY DEF Init, Nil
  <2> QED
    BY <2>1 DEF Behind, At, Entry, Idle, Nil
<1> QED
  BY <1>1, <1>2, <1>3 DEF PumpInv

\* A new watch delivers the value of its entry and a nil.
LEMMA WatchFeed ==
  ASSUME TypeOK, NEW b \in Buckets, Watch(b)
  PROVE  /\ feed' \in [Buckets -> Seq(Values \cup {Nil})]
         /\ open' \subseteq Buckets
         /\ UNCHANGED <<value, lost>>
         /\ \A c \in Buckets \ {b} : feed'[c] = feed[c]
         /\ \A i \in 1 .. Len(feed'[b]) : feed'[b][i] \in {value[b], Nil}
<1>1. value[b] \in Values \cup {Nil}
  BY DEF TypeOK
<1>2. CASE value[b] = Nil
  <2>1. Snapshot(b) = <<Nil>>
    BY <1>2 DEF Snapshot
  <2> QED
    BY <2>1 DEF Watch, TypeOK
<1>3. CASE value[b] # Nil
  <2>1. Snapshot(b) = <<value[b], Nil>>
    BY <1>3 DEF Snapshot
  <2> QED
    BY <1>1, <2>1 DEF Watch, TypeOK
<1> QED
  BY <1>2, <1>3

LEMMA TypeStep == TypeOK /\ [Next]_vars => TypeOK'
<1> SUFFICES ASSUME TypeOK, [Next]_vars PROVE TypeOK'
  OBVIOUS
<1> USE DEF TypeOK, natsVars
<1>1. CASE UNCHANGED vars
  BY <1>1 DEF vars
<1>2. ASSUME NEW b \in Buckets, Write(b) PROVE TypeOK'
  BY <1>2 DEF Write, Values, Nil
<1>3. ASSUME NEW b \in Buckets, Disconnect(b) PROVE TypeOK'
  BY <1>3, PumpAssumption DEF Disconnect
<1>4. CASE Cancel
  BY <1>4 DEF Cancel
<1>5. CASE Fatal
  BY <1>5 DEF Fatal
<1>6. ASSUME NEW b \in Buckets, StartWatcher(b) PROVE TypeOK'
  <2>1. CASE Fatal
    BY <2>1, <1>5
  <2>2. CASE ~Fatal
    <3>1. Watch(b) /\ run # "returned"
      BY <2>2, <1>6 DEF StartWatcher
    <3>2. watcher' \in [Buckets -> [pc : {"none", "select", "sending", "stopped"},
                                    sawNil : BOOLEAN, evt : Parsed \cup {Nil}]]
      <4>1. watcher' = [watcher EXCEPT ![b].pc = "select"]
        BY <2>2, <1>6 DEF StartWatcher
      <4> QED
        BY <4>1
    <3>3. publisher' \in {"starting", "select", "handling", "waiting", "stopped"}
      BY <2>2, <1>6 DEF StartWatcher
    <3>4. UNCHANGED <<received, closed, reconciler, run, done, exited>>
      BY <2>2, <1>6 DEF StartWatcher
    <3>5. /\ feed' \in [Buckets -> Seq(Values \cup {Nil})]
          /\ open' \subseteq Buckets
          /\ UNCHANGED <<value, lost>>
      BY <3>1, WatchFeed
    <3> QED
      BY <3>2, <3>3, <3>4, <3>5
  <2> QED
    BY <2>1, <2>2
<1>7. ASSUME NEW b \in Buckets, ReceiveEntry(b) PROVE TypeOK'
  <2>1. Head(feed[b]) \in Values /\ Tail(feed[b]) \in Seq(Values \cup {Nil})
    BY <1>7 DEF ReceiveEntry
  <2> QED
    BY <2>1, <1>7 DEF ReceiveEntry, Parsed
<1>8. ASSUME NEW b \in Buckets, FirstNil(b) PROVE TypeOK'
  <2>1. feed[b] # << >> => Tail(feed[b]) \in Seq(Values \cup {Nil})
    OBVIOUS
  <2> QED
    BY <1>8, <2>1 DEF FirstNil
<1>9. ASSUME NEW b \in Buckets, Refresh(b) PROVE TypeOK'
  <2>1. CASE Fatal
    BY <2>1, <1>5
  <2>2. CASE ~Fatal
    <3>1. Watch(b) /\ run # "returned"
      BY <2>2, <1>9 DEF Refresh
    <3>2. watcher' \in [Buckets -> [pc : {"none", "select", "sending", "stopped"},
                                    sawNil : BOOLEAN, evt : Parsed \cup {Nil}]]
      <4>1. watcher' = [watcher EXCEPT ![b].sawNil = FALSE]
        BY <2>2, <1>9 DEF Refresh
      <4> QED
        BY <4>1
    <3>3. publisher' \in {"starting", "select", "handling", "waiting", "stopped"}
      BY <2>2, <1>9 DEF Refresh
    <3>4. UNCHANGED <<received, closed, reconciler, run, done, exited>>
      BY <2>2, <1>9 DEF Refresh
    <3>5. /\ feed' \in [Buckets -> Seq(Values \cup {Nil})]
          /\ open' \subseteq Buckets
          /\ UNCHANGED <<value, lost>>
      BY <3>1, WatchFeed
    <3> QED
      BY <3>2, <3>3, <3>4, <3>5
  <2> QED
    BY <2>1, <2>2
<1>10. ASSUME NEW b \in Buckets, StopWatcher(b) PROVE TypeOK'
  BY <1>10 DEF StopWatcher
<1>11. ASSUME NEW b \in Buckets, HandOver(b) PROVE TypeOK'
  BY <1>11 DEF HandOver
<1>12. CASE Handled \/ StopPublisher \/ CloseChannel
  BY <1>12 DEF Handled, StopPublisher, CloseChannel
<1>13. CASE ReconcilerStep
  BY <1>13 DEF ReconcilerStep, StartRound, EndRound, StopReconciler
<1>14. CASE RunWaits \/ RunReturns
  BY <1>14 DEF RunWaits, RunReturns
<1>15. CASE Exit
  BY <1>15, <1>5 DEF Exit
<1> QED
  BY <1>1, <1>2, <1>3, <1>4, <1>6, <1>7, <1>8, <1>9, <1>10, <1>11, <1>12, <1>13, <1>14, <1>15
  DEF Next, WatcherStep, PublisherStep, RunStep

-----------------------------------------------------------------------------
(* Shutdown                                                                *)

LEMMA ShutdownStep == TypeOK /\ ShutdownInv /\ [Next]_vars => ShutdownInv'
<1> SUFFICES ASSUME TypeOK, ShutdownInv, [Next]_vars PROVE ShutdownInv'
  OBVIOUS
<1> USE DEF ShutdownInv, NoSendOnClosedChannel, natsVars
<1>1. CASE UNCHANGED <<watcher, closed, reconciler, run>>
  BY <1>1
<1>2. ASSUME NEW b \in Buckets, UNCHANGED <<closed, reconciler, run>>,
             watcher[b].pc # "stopped", \A c \in Buckets \ {b} : watcher'[c] = watcher[c]
      PROVE  ShutdownInv'
  \* A watcher that has not stopped: the channel is open.
  BY <1>2
<1>3. ASSUME NEW b \in Buckets, WatcherStep(b) \/ StartWatcher(b) \/ HandOver(b)
      PROVE  ShutdownInv'
  <2>1. CASE Fatal
    BY <2>1, <1>1 DEF Fatal
  <2>2. CASE ~Fatal
    BY <2>2, <1>3, <1>2
    DEF WatcherStep, StartWatcher, HandOver, ReceiveEntry, FirstNil, Refresh, StopWatcher,
        NilUpdate, TypeOK
  <2> QED
    BY <2>1, <2>2
<1>4. CASE CloseChannel
  \* The last sender has stopped before.
  BY <1>4 DEF CloseChannel
<1>5. CASE ReconcilerStep
  BY <1>5 DEF ReconcilerStep, StartRound, EndRound, StopReconciler
<1>6. CASE RunWaits \/ RunReturns
  BY <1>6 DEF RunWaits, RunReturns
<1>7. CASE \/ Cancel \/ Exit \/ Handled \/ StopPublisher
           \/ \E b \in Buckets : Write(b) \/ Disconnect(b)
  BY <1>7, <1>1 DEF Cancel, Exit, Fatal, Handled, StopPublisher, Write, Disconnect
<1>8. CASE UNCHANGED vars
  BY <1>8, <1>1 DEF vars
<1> QED
  BY <1>3, <1>4, <1>5, <1>6, <1>7, <1>8 DEF Next, PublisherStep, RunStep

-----------------------------------------------------------------------------
(* Order                                                                   *)

\* A bucket of which nothing changes stays behind.
LEMMA BehindUnchanged ==
  ASSUME NEW c \in Buckets, Behind(c),
         value'[c] = value[c], feed'[c] = feed[c], received'[c] = received[c],
         watcher'[c].evt = watcher[c].evt,
         watcher'[c].pc = "sending" => watcher[c].pc = "sending"
  PROVE  Behind(c)'
  BY DEF Behind, At, Entry

\* Dropping what came first keeps a bucket behind.
LEMMA BehindTail ==
  ASSUME TypeOK, NEW b \in Buckets, Behind(b), feed[b] # << >>,
         feed'[b] = Tail(feed[b]), UNCHANGED <<value, received>>,
         \/ watcher'[b].evt = watcher[b].evt /\ watcher'[b].pc = watcher[b].pc
         \/ watcher'[b].evt = Head(feed[b]) /\ Head(feed[b]) # Nil
  PROVE  Behind(b)'
<1>1. feed[b] \in Seq(Values \cup {Nil})
  BY DEF TypeOK
<1>2. /\ Len(Tail(feed[b])) = Len(feed[b]) - 1
      /\ \A i \in 1 .. Len(Tail(feed[b])) : Tail(feed[b])[i] = feed[b][i + 1]
      /\ Len(feed[b]) \in Nat \ {0}
  BY <1>1
<1>3. 1 \in At(b) /\ Entry(b, 1) = Head(feed[b])
  BY <1>1, <1>2 DEF At, Entry
<1>4. ASSUME NEW i \in At(b)' PROVE i + 1 \in At(b) /\ i + 1 > 1 /\ Entry(b, i)' = Entry(b, i + 1)
  BY <1>2, <1>4 DEF At, Entry
<1>5. \A i, j \in At(b)' : i < j => i + 1 < j + 1
  BY DEF At
<1> QED
  BY <1>3, <1>4, <1>5 DEF Behind

\* A new watch keeps a bucket behind: it delivers the value of the entry.
LEMMA BehindWatch ==
  ASSUME TypeOK, NEW b \in Buckets, Behind(b), Watch(b), UNCHANGED received,
         watcher'[b].evt = watcher[b].evt,
         watcher'[b].pc = "sending" => watcher[b].pc = "sending"
  PROVE  Behind(b)'
<1>1. /\ UNCHANGED value
      /\ \A i \in At(b)' : Entry(b, i)' \in {value[b], Nil}
  BY WatchFeed DEF At, Entry
<1>2. value[b] \in Nat
  BY DEF TypeOK, Values, Nil
<1> QED
  BY <1>1, <1>2 DEF Behind

LEMMA OrderStep == TypeOK /\ OrderInv /\ [Next]_vars => OrderInv'
<1> SUFFICES ASSUME TypeOK, OrderInv, [Next]_vars PROVE OrderInv'
  OBVIOUS
<1>0. \A c \in Buckets : Behind(c)
  BY DEF OrderInv
<1>1. CASE UNCHANGED <<value, feed, watcher, received>>
  BY <1>0, <1>1, BehindUnchanged DEF OrderInv
\* What an action of bucket b leaves to be shown.
<1>2. ASSUME NEW b \in Buckets, Behind(b)',
             \A c \in Buckets \ {b} : /\ value'[c] = value[c] /\ feed'[c] = feed[c]
                                     /\ received'[c] = received[c] /\ watcher'[c] = watcher[c]
      PROVE  OrderInv'
  <2>1. ASSUME NEW c \in Buckets \ {b} PROVE Behind(c)'
    BY <1>0, <1>2, <2>1, BehindUnchanged
  <2> QED
    BY <1>2, <2>1 DEF OrderInv
<1>3. ASSUME NEW b \in Buckets, Write(b) PROVE OrderInv'
  <2>1. value[b] \in Nat /\ value'[b] = value[b] + 1 /\ value' = [value EXCEPT ![b] = @ + 1]
    BY <1>3 DEF Write, TypeOK, Values, Nil
  <2>2. feed[b] \in Seq(Nat) /\ received[b] \in Nat /\ watcher[b].evt \in Nat
    BY DEF TypeOK, Parsed, Values, Nil
  <2>3. /\ UNCHANGED <<received, watcher>>
        /\ feed' = IF b \in open THEN [feed EXCEPT ![b] = Append(@, value'[b])] ELSE feed
    BY <1>3 DEF Write
  <2>4. feed'[b] = feed[b] \/ feed'[b] = Append(feed[b], value'[b])
    BY <2>3 DEF TypeOK
  <2>5. Behind(b)'
    <3>1. ASSUME NEW i \in At(b)'
          PROVE  \/ i \in At(b) /\ Entry(b, i)' = Entry(b, i)
                 \/ (\A j \in At(b)' : j <= i) /\ Entry(b, i)' = value'[b]
      <4>1. CASE feed'[b] = feed[b]
        BY <3>1, <4>1 DEF At, Entry
      <4>2. CASE feed'[b] = Append(feed[b], value'[b])
        <5>1. /\ Len(feed[b]) \in Nat /\ Len(feed'[b]) = Len(feed[b]) + 1
              /\ \A j \in 1 .. Len(feed[b]) : feed'[b][j] = feed[b][j]
              /\ feed'[b][Len(feed[b]) + 1] = value'[b]
          BY <2>1, <2>2, <4>2
        <5>2. CASE i \in 1 .. Len(feed[b])
          BY <5>1, <5>2 DEF At, Entry
        <5>3. CASE i = Len(feed[b]) + 1
          BY <5>1, <5>3 DEF At, Entry
        <5> QED
          BY <3>1, <5>1, <5>2, <5>3 DEF At
      <4> QED
        BY <2>4, <4>1, <4>2
    <3>2. \A i \in At(b) : Entry(b, i) \in Nat
      BY <2>2 DEF At, Entry
    <3>3. At(b)' \subseteq Nat
      BY DEF At
    <3> QED
      BY <1>0, <2>1, <2>2, <2>3, <3>1, <3>2, <3>3 DEF Behind
  <2>6. \A c \in Buckets \ {b} : value'[c] = value[c] /\ feed'[c] = feed[c]
    BY <2>1, <2>3 DEF TypeOK
  <2> QED
    BY <1>2, <2>3, <2>5, <2>6
<1>4. CASE \/ Cancel \/ Fatal \/ Exit \/ Handled \/ StopPublisher \/ CloseChannel
           \/ ReconcilerStep \/ RunWaits \/ RunReturns
           \/ \E b \in Buckets : Disconnect(b)
  BY <1>4, <1>1
  DEF Cancel, Fatal, Exit, Handled, StopPublisher, CloseChannel, ReconcilerStep, StartRound,
      EndRound, StopReconciler, RunWaits, RunReturns, Disconnect, natsVars
<1>5. ASSUME NEW b \in Buckets, StartWatcher(b) \/ Refresh(b) PROVE OrderInv'
  <2>1. CASE Fatal
    BY <2>1, <1>4
  <2>2. CASE ~Fatal
    <3>1. Watch(b) /\ UNCHANGED received
      BY <2>2, <1>5 DEF StartWatcher, Refresh
    <3>2. \/ watcher' = [watcher EXCEPT ![b].pc = "select"]
          \/ watcher' = [watcher EXCEPT ![b].sawNil = FALSE]
      BY <2>2, <1>5 DEF StartWatcher, Refresh
    <3>3. /\ watcher'[b].evt = watcher[b].evt
          /\ watcher'[b].pc = "sending" => watcher[b].pc = "sending"
          /\ \A c \in Buckets \ {b} : watcher'[c] = watcher[c]
      BY <3>2 DEF TypeOK
    <3>4. Behind(b)'
      BY <1>0, <3>1, <3>3, BehindWatch
    <3>5. UNCHANGED value /\ \A c \in Buckets \ {b} : feed'[c] = feed[c]
      BY <3>1, WatchFeed
    <3> QED
      BY <1>2, <3>1, <3>3, <3>4, <3>5
  <2> QED
    BY <2>1, <2>2
<1>6. ASSUME NEW b \in Buckets, ReceiveEntry(b) PROVE OrderInv'
  <2>1. /\ feed[b] # << >> /\ Head(feed[b]) # Nil /\ UNCHANGED <<value, received>>
        /\ feed' = [feed EXCEPT ![b] = Tail(@)]
        /\ \/ watcher' = watcher
           \/ watcher' = [watcher EXCEPT ![b].pc = "sending", ![b].evt = Head(feed[b])]
    BY <1>6 DEF ReceiveEntry
  <2>2. Behind(b)'
    BY <1>0, <2>1, BehindTail DEF TypeOK
  <2> QED
    BY <1>2, <2>1, <2>2 DEF TypeOK
<1>7. ASSUME NEW b \in Buckets, FirstNil(b) PROVE OrderInv'
  <2>1. /\ UNCHANGED <<value, received>>
        /\ feed' = [feed EXCEPT ![b] = IF @ = << >> THEN @ ELSE Tail(@)]
        /\ watcher' = [watcher EXCEPT ![b].sawNil = TRUE]
    BY <1>7 DEF FirstNil
  <2>2. watcher'[b].evt = watcher[b].evt /\ watcher'[b].pc = watcher[b].pc
    BY <2>1 DEF TypeOK
  <2>3. CASE feed[b] = << >>
    BY <1>0, <1>2, <2>1, <2>2, <2>3, BehindUnchanged DEF TypeOK
  <2>4. CASE feed[b] # << >>
    <3>1. feed'[b] = Tail(feed[b])
      BY <2>1, <2>4 DEF TypeOK
    <3>2. Behind(b)'
      BY <1>0, <2>1, <2>2, <2>4, <3>1, BehindTail
    <3> QED
      BY <1>2, <2>1, <3>2 DEF TypeOK
  <2> QED
    BY <2>3, <2>4
<1>8. ASSUME NEW b \in Buckets, StopWatcher(b) PROVE OrderInv'
  <2>1. /\ UNCHANGED <<value, feed, received>>
        /\ watcher' = [watcher EXCEPT ![b].pc = "stopped"]
    BY <1>8 DEF StopWatcher
  <2> QED
    BY <1>0, <1>2, <2>1, BehindUnchanged DEF TypeOK
<1>9. ASSUME NEW b \in Buckets, HandOver(b) PROVE OrderInv'
  <2>1. /\ watcher[b].pc = "sending" /\ UNCHANGED <<value, feed>>
        /\ received' = [received EXCEPT ![b] = watcher[b].evt]
        /\ watcher' = [watcher EXCEPT ![b].pc = "select", ![b].evt = Nil]
    BY <1>9 DEF HandOver, natsVars
  <2>2. received'[b] = watcher[b].evt /\ watcher'[b].evt = 0 /\ watcher'[b].pc = "select"
    BY <2>1 DEF TypeOK, Nil
  <2>3. value[b] \in Nat /\ \A i \in At(b) : Entry(b, i) \in Nat
    BY DEF TypeOK, At, Entry, Values, Nil
  <2>4. At(b)' = At(b) /\ \A i \in At(b) : Entry(b, i)' = Entry(b, i)
    BY <2>1 DEF At, Entry
  <2>5. Behind(b)'
    <3>0. /\ watcher[b].evt <= value[b]
          /\ \A i \in At(b) : Entry(b, i) # Nil =>
                watcher[b].evt <= Entry(b, i) /\ Entry(b, i) <= value[b]
      BY <1>0 DEF Behind
    <3>1. /\ received'[b] <= value[b] /\ watcher'[b].evt <= value[b]
          /\ \A i \in At(b) : Entry(b, i) # Nil =>
                received'[b] <= Entry(b, i) /\ watcher'[b].evt <= Entry(b, i)
      BY <2>2, <2>3, <3>0
    <3>2. watcher'[b].pc # "sending" /\ value'[b] = value[b]
      BY <2>1, <2>2
    <3> QED
      BY <1>0, <2>4, <3>1, <3>2 DEF Behind
  <2> QED
    BY <1>2, <2>1, <2>5 DEF TypeOK
<1>10. CASE UNCHANGED vars
  BY <1>10, <1>1 DEF vars, natsVars
<1> QED
  BY <1>3, <1>4, <1>5, <1>6, <1>7, <1>8, <1>9, <1>10
  DEF Next, WatcherStep, PublisherStep, RunStep

-----------------------------------------------------------------------------
(* Theorems                                                                *)

LEMMA PumpInvariant == Spec => []PumpInv
<1>1. PumpInv /\ [Next]_vars => PumpInv'
  BY TypeStep, ShutdownStep, OrderStep DEF PumpInv
<1> QED
  BY <1>1, PumpInit, PTL DEF Spec

\* The goroutines of the orchestrator keep their types, and only what was
\* parsed is handed to the publisher.
THEOREM PumpTypeCorrect == Spec => []TypeOK
<1>1. PumpInv => TypeOK
  BY DEF PumpInv
<1> QED
  BY <1>1, PumpInvariant, PTL

\* However the goroutines stop, nobody sends on the event channel once
\* kvStatusPublisher has closed it.
THEOREM ChannelClosedLast == Spec => []NoSendOnClosedChannel
<1>1. PumpInv => NoSendOnClosedChannel
  BY DEF PumpInv, ShutdownInv
<1> QED
  BY <1>1, PumpInvariant, PTL

\* Run closes the stream broker after the last round of the reconciler.
THEOREM BrokerClosedLast == Spec => []BrokerOpenInRounds
<1>1. PumpInv => BrokerOpenInRounds
  BY DEF PumpInv, ShutdownInv, BrokerOpenInRounds
<1> QED
  BY <1>1, PumpInvariant, PTL

\* However often watchers are refreshed, no value of an entry reaches the
\* publisher after a later one.
THEOREM EventsInOrder == Spec => ReceivedInOrder
<1>1. ASSUME PumpInv, Next PROVE \A b \in Buckets : received'[b] >= received[b]
  <2>1. \A b \in Buckets : received[b] \in Nat
    BY <1>1 DEF PumpInv, TypeOK, Parsed, Values, Nil
  <2>2. ASSUME NEW b \in Buckets, HandOver(b) PROVE \A c \in Buckets : received'[c] >= received[c]
    <3>1. received' = [received EXCEPT ![b] = watcher[b].evt] /\ watcher[b].pc = "sending"
      BY <2>2 DEF HandOver
    <3>2. received[b] <= watcher[b].evt /\ watcher[b].evt \in Nat
      BY <1>1, <3>1 DEF PumpInv, OrderInv, Behind, TypeOK, Parsed, Values, Nil
    <3> QED
      BY <1>1, <2>1, <3>1, <3>2 DEF PumpInv, TypeOK
  <2>3. CASE UNCHANGED received
    BY <2>1, <2>3
  <2>4. UNCHANGED received \/ \E b \in Buckets : HandOver(b)
    BY <1>1
    DEF Next, WatcherStep, PublisherStep, RunStep, ReconcilerStep, Write, Disconnect, Cancel, Fatal,
        StartWatcher, ReceiveEntry, FirstNil, Refresh, StopWatcher, Handled, StopPublisher,
        CloseChannel, StartRound, EndRound, StopReconciler, RunWaits, RunReturns, Exit
  <2> QED
    BY <2>2, <2>3, <2>4
<1>2. PumpInv /\ [Next]_vars => [\A b \in Buckets : received'[b] >= received[b]]_vars
  BY <1>1
<1> QED
  BY <1>2, PumpInvariant, PTL DEF Spec, ReceivedInOrder

=============================================================================
