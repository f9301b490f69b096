---------------------------- MODULE Notifications ----------------------------
(***************************************************************************)
(* The orchestrator's Slack messages (internal/orchestrator/notify) beside *)
(* the flow of Orchestrator.  The publisher announces an event whose       *)
(* update was accepted, the reconciler every event it has done with.  Both *)
(* use one Sender, whose map remembers for a unit of work the state last   *)
(* announced and the message it was announced in, until an outcome is      *)
(* announced; the map is in memory, and the loops use it without a lock.   *)
(*                                                                         *)
(* Send reads the map, calls Slack, and writes the map: two steps here,    *)
(* between which the other loop may go on; where the two accesses overlap, *)
(* the process may end.                                                    *)
(***************************************************************************)
EXTENDS Orchestrator

CONSTANT SlackEnabled   \* is a notifier of type "slack" configured and enabled?

VARIABLES
    trk,       \* trk[id]: the state last announced for unit id, and its message
    messages,  \* the messages in the Slack channel, as they now read
    sender,    \* sender[p]: where p's call of Send is, its event and entry
    doubtful,  \* the events the reconciler announced though their update failed
    raced      \* the units for which both loops were in Send at a time

\* doubtful and raced are not in the code: the properties refer to them.
noticeVars == <<trk, messages, sender, doubtful, raced>>
allVars == <<vars, noticeVars>>

\* msg is the MsgTimestamp, here the number of the message; 0 if there is none.
NoEntry == [state |-> "none", msg |-> 0]
Entry(st, msg) == [state |-> st, msg |-> msg]
Quiet == [pc |-> "idle", evt |-> NoEvent, entry |-> NoEntry]

newSlackSender == trk = [id \in IDs |-> NoEntry]

NoticeInit ==
    /\ Init
    /\ newSlackSender
    /\ messages = << >>
    /\ sender = [p \in Loops |-> Quiet]
    /\ doubtful = {}
    /\ raced = {}

SenderAt(p, pc) == sender[p].pc = pc
SenderTo(p, pc, entry) ==
    sender' = [sender EXCEPT ![p].pc = pc, ![p].entry = entry]
SenderEnds(p) == sender' = [sender EXCEPT ![p] = Quiet]
UnitOf(p) == sender[p].evt.item.id

Nothing == UNCHANGED <<sender, raced>>

-----------------------------------------------------------------------------
(* The calls of Send                                                       *)

\* The no-op notifier keeps nothing and says nothing.
Send(p, evt) ==
    IF SlackEnabled
    THEN /\ sender' = [sender EXCEPT ![p] = [Quiet EXCEPT !.pc = "sending", !.evt = evt]]
         /\ raced' = raced \cup {evt.item.id :
               q \in {r \in Loops \ {p} : ~SenderAt(r, "idle") /\ UnitOf(r) = evt.item.id}}
    ELSE Nothing

\* Variant for mutation: the publisher also announces what was not updated.
PublisherAnnouncesAll ==
    /\ PublisherDone
    /\ Send(Publisher, loop[Publisher].evt)
    /\ UNCHANGED <<trk, messages, doubtful>>

\* An update that failed is not announced.
PublisherAnnounces ==
    /\ PublisherDone
    /\ IF LoopAt(Publisher, "accepted") THEN Send(Publisher, loop[Publisher].evt)
                                        ELSE Nothing
    /\ UNCHANGED <<trk, messages, doubtful>>

\* An update that is not to be retried is announced, done or refused, once its
\* status entry has been deleted or not.
ReconcilerAnnounces ==
    /\ ReconcilerDone
    /\ IF LoopAt(Reconciler, "retry") THEN Nothing
                                      ELSE Send(Reconciler, loop[Reconciler].evt)
    /\ doubtful' = IF LoopAt(Reconciler, "rejected") THEN doubtful \cup {loop[Reconciler].evt}
                                                    ELSE doubtful
    /\ UNCHANGED <<trk, messages>>

-----------------------------------------------------------------------------
(* slackSender.Send                                                        *)

\* The blocks of a message name the condition and its state.
Message(evt) == [item |-> evt.item, state |-> evt.state]

\* Same state and status.  Reports of one state have one status here, unless
\* they are of two conditions of the unit, which may have the same.
Duplicate(p) ==
    /\ SenderAt(p, "sending")
    /\ trk[UnitOf(p)].state = sender[p].evt.state
    /\ SenderEnds(p)
    /\ NoFault
    /\ UNCHANGED <<storeVars, flowVars, trk, messages, doubtful, raced>>

\* PostMessage: its error leaves the entry without a message, also when Slack
\* has posted it but answers after the timeout.
PostMessage(p) ==
    /\ SenderAt(p, "sending")
    /\ trk[UnitOf(p)].msg = 0
    /\ \/ /\ messages' = Append(messages, Message(sender[p].evt))
          /\ \/ SenderTo(p, "recording", Entry(sender[p].evt.state, Len(messages'))) /\ NoFault
             \/ SenderTo(p, "recording", Entry(sender[p].evt.state, 0)) /\ Fault("notice_timeout")
       \/ /\ SenderTo(p, "recording", Entry(sender[p].evt.state, 0))
          /\ Fault("notice_error")
          /\ UNCHANGED messages
    /\ UNCHANGED <<storeVars, flowVars, trk, doubtful, raced>>

\* UpdateMessage: the message of the entry is edited, whatever its condition.
UpdateMessage(p) ==
    LET n == trk[UnitOf(p)].msg
    IN /\ SenderAt(p, "sending")
       /\ n # 0
       /\ \/ messages' = [messages EXCEPT ![n] = Message(sender[p].evt)] /\ NoFault
          \/ UNCHANGED messages /\ Fault("notice_error")
       /\ SenderTo(p, "recording", Entry(sender[p].evt.state, n))
       /\ UNCHANGED <<storeVars, flowVars, trk, doubtful, raced>>

\* Variant for mutation: an outcome is kept like any other state.
RecordKeepsOutcome(p) ==
    /\ SenderAt(p, "recording")
    /\ trk' = [trk EXCEPT ![UnitOf(p)] = sender[p].entry]
    /\ SenderEnds(p)
    /\ NoFault
    /\ UNCHANGED <<storeVars, flowVars, messages, doubtful, raced>>

\* The last update of a condition: the entry is deleted, posted or not.
Record(p) ==
    /\ SenderAt(p, "recording")
    /\ trk' = [trk EXCEPT ![UnitOf(p)] =
          IF StateIsComplete(sender[p].evt.state) THEN NoEntry ELSE sender[p].entry]
    /\ SenderEnds(p)
    /\ NoFault
    /\ UNCHANGED <<storeVars, flowVars, messages, doubtful, raced>>

-----------------------------------------------------------------------------
(* The flow, whose loops wait for Send to return                           *)

Silently(A) == A /\ UNCHANGED noticeVars

\* The map is lost with the process.
SenderRestarts ==
    /\ trk' = [id \in IDs |-> NoEntry]
    /\ sender' = [p \in Loops |-> Quiet]
    /\ UNCHANGED <<messages, doubtful, raced>>

NoticeCrash == OrchestratorCrash /\ SenderRestarts

\* The Go runtime ends a process that it sees write a map while another
\* goroutine reads or writes it.
MapRace ==
    /\ SenderAt(Publisher, "recording") \/ SenderAt(Reconciler, "recording")
    /\ \A p \in Loops : ~SenderAt(p, "idle")
    /\ OrchestratorRestarts
    /\ SenderRestarts
    /\ NoFault

\* Send takes less than a second, a threshold minutes.
TimePasses(i) ==
    /\ PromptPublisher => SenderAt(Publisher, "idle")
    /\ LoseController(i) \/ GrowStale(i)

PublisherGoesOn ==
    \/ Silently(EventStep(Publisher))
    \/ PublisherAnnounces
    \/ /\ SenderAt(Publisher, "idle")
       /\ \E k \in Kinds : Silently(TakeUpdate(k))

ReconcilerGoesOn ==
    \/ Silently(EventStep(Reconciler))
    \/ ReconcilerAnnounces
    \/ Silently(StartRound)
    \/ \E k \in Kinds : Silently(ListBucket(k))
    \/ SenderAt(Reconciler, "idle") /\ Silently(NextEvent)

NoticeNext ==
    \/ \E c \in Creators : Silently(RequestStep(c))
    \/ Silently(ApiCrash)
    \/ \E i \in Items : Silently(JobStep(i)) \/ Silently(TimePasses(i))
    \/ \E k \in Kinds : Silently(Coalesce(k)) \/ Silently(RefreshWatcher(k))
    \/ PublisherGoesOn
    \/ ReconcilerGoesOn
    \/ \E p \in Loops : Duplicate(p) \/ PostMessage(p) \/ UpdateMessage(p) \/ Record(p)
    \/ NoticeCrash
    \/ MapRace

NoticeSpec == NoticeInit /\ [][NoticeNext]_allVars

-----------------------------------------------------------------------------
(* Properties *)

\* Every variable holds a value of its kind.
NoticeTypeOK ==
    /\ TypeOK
    /\ trk \in [IDs -> [state : States, msg : Nat] \cup {NoEntry}]
    /\ messages \in Seq([item : Items, state : States])
    /\ sender \in [Loops ->
          [pc : {"idle", "sending", "recording"}, evt : Events \cup {NoEvent},
           entry : [state : States \cup {"none"}, msg : Nat]]]
    /\ doubtful \subseteq Events
    /\ raced \subseteq IDs

\* An outcome that a message announces is in the event history, whatever became
\* of its status entry, unless the reconciler announced the event though its
\* update had failed.
AnnouncedAsRecorded ==
    \A n \in DOMAIN messages :
        LET m == messages[n]
        IN StateIsComplete(m.state) /\ Event(m.item, m.state) \notin doubtful
              => m.state \in history[m.item]

\* A message that announces an outcome stands: no later event of the unit is
\* announced by editing it, unless both loops were in Send for the unit at once.
OutcomeStands ==
    [][\A n \in DOMAIN messages :
          StateIsComplete(messages[n].state) /\ messages[n].item.id \notin raced
              => messages'[n] = messages[n]]_allVars

=============================================================================
