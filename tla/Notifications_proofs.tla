------------------------ MODULE Notifications_proofs ------------------------
(***************************************************************************)
(* Proofs about Notifications, for any number of servers, units and        *)
(* faults of the flow and of Slack: what is announced has been recorded,   *)
(* and a message that announces an outcome is not edited, but for the      *)
(* exceptions the properties name.                                         *)
(***************************************************************************)
EXTENDS Notifications, Orchestrator_proofs

-----------------------------------------------------------------------------
(* The inductive invariant                                                 *)

\* An outcome that a loop has got past is in the history.
OutcomeInv ==
    \A p \in Loops :
        /\ loop[p].pc \in {"deleting", "following", "publishing"}
              => loop[p].evt.state \in history[loop[p].evt.item]
        /\ loop[p].pc = "accepted" /\ StateIsComplete(loop[p].evt.state)
              => loop[p].evt.state \in history[loop[p].evt.item]

\* What may be announced of an event: an outcome only when it is recorded.
Recorded(evt) ==
    StateIsComplete(evt.state) /\ evt \notin doubtful => evt.state \in history[evt.item]

\* Where a loop is while its call of Send is under way.
Resting(p) == loop[p].pc = IF p = Publisher THEN "idle" ELSE "next"

Sending(p) == sender[p].pc # "idle"
Final(n)   == StateIsComplete(messages[n].state)

\* A loop is in Send for an event it is done with, and waits for it.
SenderInv ==
    /\ sender \in [Loops ->
          [pc : {"idle", "sending", "recording"}, evt : Events \cup {NoEvent},
           entry : [state : States \cup {"none"}, msg : Nat]]]
    /\ \A p \in Loops : Sending(p) =>
          /\ Resting(p)
          /\ sender[p].evt \in Events
          /\ Recorded(sender[p].evt)
          /\ sender[p].pc = "recording" => sender[p].entry.state \in States

MessagesInv ==
    /\ messages \in Seq(Events)
    /\ \A n \in DOMAIN messages : Recorded(messages[n])

\* There is a message n, and it is of unit id.
MessageOf(id, n) == n \in DOMAIN messages /\ messages[n].item.id = id

\* The map's message of a unit announces no outcome, unless the loop that has
\* made it do so is about to delete the entry.
TrackedInv ==
    /\ trk \in [IDs -> [state : States, msg : Nat] \cup {NoEntry}]
    /\ \A id \in IDs : trk[id].msg # 0 =>
          /\ MessageOf(id, trk[id].msg)
          /\ id \notin raced /\ Final(trk[id].msg)
                => \E p \in Loops : /\ sender[p].pc = "recording" /\ UnitOf(p) = id
                                    /\ StateIsComplete(sender[p].evt.state)

\* Two loops in Send for one unit are in a race.
AloneInv ==
    \A p, q \in Loops : p # q /\ Sending(p) /\ Sending(q) /\ UnitOf(p) = UnitOf(q)
        => UnitOf(p) \in raced

\* The entry a loop is about to keep is of a message that announces no outcome.
EntryInv ==
    \A p \in Loops : sender[p].pc = "recording" /\ sender[p].entry.msg # 0 =>
        /\ MessageOf(UnitOf(p), sender[p].entry.msg)
        /\ UnitOf(p) \notin raced /\ ~StateIsComplete(sender[p].evt.state)
              => ~Final(sender[p].entry.msg)

NoticeInv ==
    /\ FlowInv
    /\ OutcomeInv
    /\ SenderInv
    /\ MessagesInv
    /\ TrackedInv
    /\ AloneInv
    /\ EntryInv
    /\ doubtful \subseteq Events
    /\ raced \subseteq IDs

LEMMA LoopsAre == Publisher \in Loops /\ Reconciler \in Loops /\ Publisher # Reconciler
BY CallersAssumption DEF Loops

-----------------------------------------------------------------------------
(* What the steps of the flow do to loops and history                      *)

HistoryGrows == \A i \in Items : history[i] \subseteq history'[i]

\* The flow goes on, and with no loop that is in Send.
FlowGoesOn ==
    /\ OutcomeInv'
    /\ HistoryGrows
    /\ \A p \in Loops : Sending(p) => loop'[p] = loop[p]

LEMMA SurroundingsGoOn ==
  ASSUME FlowInv, OutcomeInv,
         \/ \E c \in Creators : RequestStep(c)
         \/ ApiCrash
         \/ \E i \in Items : JobStep(i) \/ TimePasses(i)
         \/ \E k \in Kinds : Coalesce(k) \/ RefreshWatcher(k)
  PROVE  FlowGoesOn
<1>1. UNCHANGED <<loop, history>>
  BY DEF RequestStep, Submit, Stored, StoreFails, PublishFirst, MarkGet, MarkPut, ApiCrash,
         JobStep, StartJob, FinishJob, TimePasses, LoseController, GrowStale, Coalesce, RefreshWatcher
<1> QED
  BY <1>1 DEF FlowGoesOn, OutcomeInv, HistoryGrows

LEMMA EventStepGoesOn ==
  ASSUME FlowInv, OutcomeInv, SenderInv, NEW p \in Loops, EventStep(p)
  PROVE  FlowGoesOn
<1>1. /\ loop[p] \in [pc : LoopStates, evt : Events \cup {NoEvent}, next : Items \cup {NoItem}]
      /\ loop[p].evt \in Events /\ ItemOf(p) \in Items
      /\ loop[p].pc \in {"merging", "updating", "history", "deleting", "following", "publishing"}
  BY DEF FlowInv, LoopInv, EventStep, MergeEvent, CommitGet, CommitPut, WriteHistory, DeleteStatus,
         QueueFollowing, PublishFollowing, LoopAt, ItemOf, Events
<1>2. ~Sending(p)
  BY <1>1 DEF SenderInv, Resting
<1>3. /\ \A q \in Loops : q # p => loop'[q] = loop[q]
      /\ loop'[p].evt = loop[p].evt
      /\ \/ loop'[p].pc \in {"updating", "rejected", "retry", "history"} /\ UNCHANGED history
         \/ /\ loop'[p].pc = "accepted" /\ ~StateIsComplete(loop[p].evt.state) /\ UNCHANGED history
         \/ /\ loop[p].pc = "history" /\ loop'[p].pc = "deleting"
            /\ WriteEventHistory(ItemOf(p), loop[p].evt.state)
         \/ /\ loop[p].pc \in {"deleting", "following", "publishing"}
            /\ loop'[p].pc \in {"following", "publishing", "accepted"} /\ UNCHANGED history
         \/ loop'[p].pc = "merging" /\ UNCHANGED history
  <2>1. loop \in [Loops -> [pc : LoopStates, evt : Events \cup {NoEvent}, next : Items \cup {NoItem}]]
    BY DEF FlowInv, LoopInv
  <2>2. ASSUME NEW x, LoopTo(p, x)
        PROVE  /\ \A q \in Loops : q # p => loop'[q] = loop[q]
               /\ loop'[p].evt = loop[p].evt /\ loop'[p].pc = x
    BY <2>1, <2>2 DEF LoopTo
  <2>3. CASE MergeEvent(p)
    BY <2>2, <2>3 DEF MergeEvent
  <2>4. CASE CommitGet(p)
    BY <1>1, <2>2, <2>4 DEF CommitGet, LoopAt
  <2>5. CASE CommitPut(p)
    BY <2>2, <2>5 DEF CommitPut
  <2>6. CASE WriteHistory(p)
    BY <2>2, <2>6 DEF WriteHistory, LoopAt
  <2>7. CASE DeleteStatus(p)
    BY <2>2, <2>7 DEF DeleteStatus, LoopAt
  <2>8. CASE QueueFollowing(p)
    <3>1. ASSUME NEW i \in Items, loop' = [loop EXCEPT ![p].pc = "publishing", ![p].next = i]
          PROVE  /\ \A q \in Loops : q # p => loop'[q] = loop[q]
                 /\ loop'[p].evt = loop[p].evt /\ loop'[p].pc = "publishing"
      BY <2>1, <3>1
    <3> QED
      BY <2>2, <2>8, <3>1 DEF QueueFollowing, LoopAt
  <2>9. CASE PublishFollowing(p)
    BY <2>2, <2>9 DEF PublishFollowing, LoopAt
  <2> QED
    BY <2>3, <2>4, <2>5, <2>6, <2>7, <2>8, <2>9 DEF EventStep
<1>4. HistoryGrows /\ (loop'[p].pc = "deleting" => loop[p].evt.state \in history'[ItemOf(p)])
  <2>1. CASE WriteEventHistory(ItemOf(p), loop[p].evt.state)
    BY <1>1, <2>1 DEF WriteEventHistory, HistoryGrows, FlowInv, LoopInv
  <2>2. CASE UNCHANGED history /\ loop'[p].pc # "deleting"
    BY <2>2 DEF HistoryGrows
  <2>3. \/ WriteEventHistory(ItemOf(p), loop[p].evt.state)
        \/ UNCHANGED history /\ loop'[p].pc # "deleting"
    BY <1>3
  <2> QED
    BY <2>1, <2>2, <2>3
<1>5. OutcomeInv'
  <2>1. ASSUME NEW q \in Loops, q # p, loop[q].pc \in {"deleting", "following", "publishing", "accepted"}
        PROVE  loop[q].evt.item \in Items
    BY <2>1 DEF FlowInv, LoopInv, Events
  <2> QED
    BY <1>1, <1>3, <1>4, <2>1 DEF OutcomeInv, HistoryGrows, ItemOf
<1> QED
  BY <1>2, <1>3, <1>4, <1>5 DEF FlowGoesOn

LEMMA TakingGoesOn ==
  ASSUME FlowInv, OutcomeInv, SenderInv,
         \/ SenderAt(Publisher, "idle") /\ \E k \in Kinds : TakeUpdate(k)
         \/ StartRound
         \/ \E k \in Kinds : ListBucket(k)
         \/ SenderAt(Reconciler, "idle") /\ NextEvent
  PROVE  FlowGoesOn
<1>1. PICK p \in Loops :
         /\ ~Sending(p)
         /\ UNCHANGED history
         /\ \A q \in Loops : q # p => loop'[q] = loop[q]
         /\ loop'[p].pc \in {"merging", "listing", "next", "idle"}
  <2>1. /\ loop \in [Loops -> [pc : LoopStates, evt : Events \cup {NoEvent}, next : Items \cup {NoItem}]]
        /\ Publisher \in Loops /\ Reconciler \in Loops /\ Publisher # Reconciler
    BY LoopsAre DEF FlowInv, LoopInv
  <2>2. loop[Reconciler].pc # "next" => ~Sending(Reconciler)
    BY <2>1 DEF SenderInv, Resting
  <2>3. ASSUME NEW k \in Kinds, SenderAt(Publisher, "idle"), TakeUpdate(k)
        PROVE  /\ ~Sending(Publisher) /\ UNCHANGED history
               /\ \A q \in Loops : q # Publisher => loop'[q] = loop[q]
               /\ loop'[Publisher].pc = "merging"
    BY <2>1, <2>3 DEF TakeUpdate, Sending, SenderAt, IdleLoop
  <2>4. CASE StartRound
    BY <2>1, <2>2, <2>4 DEF StartRound, LoopAt, LoopTo
  <2>5. ASSUME NEW k \in Kinds, ListBucket(k)
        PROVE  /\ ~Sending(Reconciler) /\ UNCHANGED history
               /\ \A q \in Loops : q # Reconciler => loop'[q] = loop[q]
               /\ loop'[Reconciler].pc \in {"next", "listing"}
    BY <2>1, <2>2, <2>5 DEF ListBucket, LoopAt, LoopTo
  <2>6. CASE SenderAt(Reconciler, "idle") /\ NextEvent
    <3>1. ~Sending(Reconciler) /\ UNCHANGED history
      BY <2>6 DEF NextEvent, Sending, SenderAt
    <3>2. ASSUME NEW x, loop' = [loop EXCEPT ![Reconciler] = x], x.pc \in {"merging", "idle"}
          PROVE  /\ \A q \in Loops : q # Reconciler => loop'[q] = loop[q]
                 /\ loop'[Reconciler].pc \in {"merging", "idle"}
      BY <2>1, <3>2
    <3>3. CASE loop' = [loop EXCEPT ![Reconciler] = IdleLoop]
      BY <2>1, <3>1, <3>2, <3>3 DEF IdleLoop
    <3>4. ASSUME NEW evt,
                 loop' = [loop EXCEPT ![Reconciler] = [IdleLoop EXCEPT !.pc = "merging", !.evt = evt]]
          PROVE  \E q \in Loops : /\ ~Sending(q)
                                  /\ UNCHANGED history
                                  /\ \A r \in Loops : r # q => loop'[r] = loop[r]
                                  /\ loop'[q].pc \in {"merging", "listing", "next", "idle"}
      BY <2>1, <3>1, <3>2, <3>4 DEF IdleLoop
    <3> QED
      BY <2>6, <3>3, <3>4 DEF NextEvent
  <2>7. CASE SenderAt(Publisher, "idle") /\ \E k \in Kinds : TakeUpdate(k)
    BY <2>1, <2>3, <2>7
  <2>8. CASE \E k \in Kinds : ListBucket(k)
    BY <2>1, <2>5, <2>8
  <2> QED
    BY <2>4, <2>6, <2>7, <2>8
<1> QED
  BY <1>1 DEF FlowGoesOn, OutcomeInv, HistoryGrows

-----------------------------------------------------------------------------
(* Beside the messages, the flow keeps its own invariant                   *)

\* What a step of Send leaves alone.
LEMMA SendStepsKeepFlow ==
  ASSUME NEW p \in Loops, Duplicate(p) \/ PostMessage(p) \/ UpdateMessage(p) \/ Record(p)
  PROVE  UNCHANGED <<storeVars, flowVars, doubtful, raced>>
  BY DEF Duplicate, PostMessage, UpdateMessage, Record

LEMMA FlowKept ==
  ASSUME FlowInv, [NoticeNext]_allVars
  PROVE  FlowInv'
<1>1. CASE [Next]_vars
  BY <1>1, FlowInvStep
<1>2. CASE \E p \in Loops : Duplicate(p) \/ PostMessage(p) \/ UpdateMessage(p) \/ Record(p)
  <2>1. UNCHANGED <<storeVars, flowVars>>
    BY <1>2, SendStepsKeepFlow
  <2>2. faults' \in 0 .. MaxFaults
    BY <1>2, FaultsBounded DEF FlowInv, Duplicate, PostMessage, UpdateMessage, Record
  <2>3. StoreTypeOK'
    BY <2>1, StoreTypeStep DEF FlowInv
  <2> QED
    BY <2>1, <2>2, <2>3, RequestInvKept, StatusInvKept, LoopInvKept DEF FlowInv, flowVars, storeVars
<1>3. CASE MapRace
  <2>1. {} \in SUBSET Creators /\ Loops \in SUBSET Updaters
    BY CallersAssumption
  <2>2. StoreTypeOK'
    BY <1>3, <2>1, StoreTypeStep DEF FlowInv, MapRace, OrchestratorRestarts, StoreNext
  <2> QED
    BY <1>3, <2>2, RestartInv DEF FlowInv, MapRace, NoFault
<1> QED
  BY <1>1, <1>2, <1>3
     DEF NoticeNext, Next, Silently, PublisherGoesOn, ReconcilerGoesOn, PublisherStep, ReconcilerStep,
         PublisherAnnounces, ReconcilerAnnounces, TimePasses, NoticeCrash, allVars

-----------------------------------------------------------------------------
(* Every step keeps the invariant                                          *)

\* The steps of the flow that say nothing.
LEMMA SilentInv ==
  ASSUME NoticeInv, FlowInv', FlowGoesOn, UNCHANGED noticeVars
  PROVE  NoticeInv'
<1> USE DEF NoticeInv, noticeVars, UnitOf, Sending
<1>1. \A evt \in Events : Recorded(evt) => Recorded(evt)'
  BY DEF Recorded, FlowGoesOn, HistoryGrows, Events
<1>2. SenderInv'
  BY <1>1 DEF SenderInv, FlowGoesOn, Resting
<1>3. MessagesInv'
  <2>1. \A n \in DOMAIN messages : messages[n] \in Events
    BY DEF MessagesInv
  <2> QED
    BY <1>1, <2>1 DEF MessagesInv
<1>4. TrackedInv' /\ AloneInv' /\ EntryInv'
  BY DEF TrackedInv, AloneInv, EntryInv, MessageOf, Final
<1> QED
  BY <1>2, <1>3, <1>4 DEF FlowGoesOn

\* A loop that has done with an event calls Send for it, or does not.
LEMMA AnnounceInv ==
  ASSUME NoticeInv, FlowInv', OutcomeInv', NEW p \in Loops, NEW evt \in Events,
         ~Sending(p), Resting(p)', \A q \in Loops : q # p => loop'[q] = loop[q],
         Recorded(evt)', Send(p, evt) \/ Nothing,
         doubtful \subseteq doubtful', doubtful' \subseteq Events,
         UNCHANGED <<history, trk, messages>>
  PROVE  NoticeInv'
<1> USE DEF NoticeInv
<1>1. \A e \in Events : Recorded(e) => Recorded(e)'
  BY DEF Recorded
<1>2. MessagesInv'
  <2>1. \A n \in DOMAIN messages : messages[n] \in Events
    BY DEF MessagesInv
  <2> QED
    BY <1>1, <2>1 DEF MessagesInv
<1>3. sender \in [Loops ->
          [pc : {"idle", "sending", "recording"}, evt : Events \cup {NoEvent},
           entry : [state : States \cup {"none"}, msg : Nat]]]
  BY DEF SenderInv
<1>4. \A q \in Loops : q # p /\ Sending(q) => Resting(q)'
  BY DEF SenderInv, Resting
<1>5. CASE Nothing
  <2>1. UNCHANGED <<sender, raced>>
    BY <1>5 DEF Nothing
  <2>2. SenderInv'
    BY <1>1, <1>4, <2>1 DEF SenderInv, Sending
  <2>3. TrackedInv' /\ AloneInv' /\ EntryInv'
    BY <2>1 DEF TrackedInv, AloneInv, EntryInv, MessageOf, Final, UnitOf, Sending
  <2> QED
    BY <1>2, <2>1, <2>2, <2>3
<1>6. CASE Send(p, evt) /\ SlackEnabled
  <2>1. /\ sender' = [sender EXCEPT ![p] = [pc |-> "sending", evt |-> evt, entry |-> NoEntry]]
        /\ raced' = raced \cup {evt.item.id :
                 q \in {r \in Loops \ {p} : ~SenderAt(r, "idle") /\ UnitOf(r) = evt.item.id}}
    BY <1>6 DEF Send, Quiet
  <2>2. /\ sender'[p] = [pc |-> "sending", evt |-> evt, entry |-> NoEntry]
        /\ \A q \in Loops : q # p => sender'[q] = sender[q]
    BY <1>3, <2>1
  <2>3. NoEntry \in [state : States \cup {"none"}, msg : Nat]
    BY DEF NoEntry
  <2>4. SenderInv'
    <3>1. sender' \in [Loops ->
            [pc : {"idle", "sending", "recording"}, evt : Events \cup {NoEvent},
             entry : [state : States \cup {"none"}, msg : Nat]]]
      BY <1>3, <2>1, <2>3
    <3>2. ASSUME NEW q \in Loops, Sending(q)'
          PROVE  /\ Resting(q)'
                 /\ sender'[q].evt \in Events
                 /\ Recorded(sender[q].evt)'
                 /\ sender'[q].pc = "recording" => sender'[q].entry.state \in States
      <4>1. CASE q = p
        BY <2>2, <4>1 DEF Recorded
      <4>2. CASE q # p
        BY <1>1, <1>4, <2>2, <3>2, <4>2 DEF SenderInv, Sending, Recorded
      <4> QED
        BY <4>1, <4>2
    <3> QED
      BY <3>1, <3>2 DEF SenderInv
  <2>5. raced \subseteq raced' /\ raced' \subseteq IDs
    BY <2>1 DEF Events, Items
  <2>6. TrackedInv'
    <3>1. ASSUME NEW q \in Loops, sender[q].pc = "recording"
          PROVE  sender'[q] = sender[q]
      BY <2>2, <3>1 DEF Sending
    <3> QED
      BY <2>5, <3>1 DEF TrackedInv, MessageOf, Final, UnitOf
  <2>7. AloneInv'
    <3>1. ASSUME NEW q \in Loops, q # p, Sending(q)', UnitOf(q)' = evt.item.id
          PROVE  evt.item.id \in raced'
      BY <2>1, <2>2, <3>1 DEF Sending, SenderAt, UnitOf
    <3> QED
      BY <2>2, <2>5, <3>1 DEF AloneInv, UnitOf, Sending
  <2>8. EntryInv'
    BY <2>2, <2>5 DEF EntryInv, MessageOf, Final, UnitOf
  <2> QED
    BY <1>2, <2>4, <2>5, <2>6, <2>7, <2>8
<1> QED
  BY <1>5, <1>6 DEF Send

LEMMA AnnouncementsInv ==
  ASSUME NoticeInv, FlowInv', PublisherAnnounces \/ ReconcilerAnnounces
  PROVE  NoticeInv'
<1>1. /\ loop \in [Loops -> [pc : LoopStates, evt : Events \cup {NoEvent}, next : Items \cup {NoItem}]]
      /\ \A q \in Loops : loop[q].pc \notin {"idle", "listing", "next"} => loop[q].evt \in Events
      /\ Publisher \in Loops /\ Reconciler \in Loops /\ Publisher # Reconciler
  BY LoopsAre DEF NoticeInv, FlowInv, LoopInv
<1>2. \A q \in Loops : loop[q].pc \in {"accepted", "rejected", "retry"} => ~Sending(q)
  BY DEF NoticeInv, SenderInv, Resting
<1>3. CASE PublisherAnnounces
  <2>1. /\ loop[Publisher].evt \in Events /\ ~Sending(Publisher)
        /\ UNCHANGED <<history, trk, messages, doubtful>>
    BY <1>1, <1>2, <1>3 DEF PublisherAnnounces, PublisherDone
  <2>2. loop'[Publisher] = IdleLoop /\ \A q \in Loops : q # Publisher => loop'[q] = loop[q]
    BY <1>1, <1>3 DEF PublisherAnnounces, PublisherDone
  <2>3. OutcomeInv' /\ Resting(Publisher)'
    BY <2>1, <2>2 DEF NoticeInv, OutcomeInv, Resting, IdleLoop
  <2>4. doubtful' \subseteq Events
    BY <2>1 DEF NoticeInv
  <2>5. CASE LoopAt(Publisher, "accepted")
    <3>1. Recorded(loop[Publisher].evt)
      BY <1>1, <2>5 DEF NoticeInv, OutcomeInv, LoopAt, Recorded
    <3> DEFINE evt == loop[Publisher].evt
    <3>2. StateIsComplete(evt.state) /\ evt \notin doubtful' => evt.state \in history'[evt.item]
      BY <2>1, <3>1 DEF Recorded
    <3>3. Send(Publisher, evt)
      BY <1>3, <2>5 DEF PublisherAnnounces
    <3> HIDE DEF evt
    <3>4. evt \in Events
      BY <2>1 DEF evt
    <3> QED
      BY <1>1, <2>1, <2>2, <2>3, <2>4, <3>2, <3>3, <3>4, AnnounceInv DEF Recorded
  <2>6. CASE ~LoopAt(Publisher, "accepted")
    <3>1. UNCHANGED noticeVars
      BY <1>3, <2>6 DEF PublisherAnnounces, Nothing, noticeVars
    <3>2. FlowGoesOn
      BY <2>1, <2>2, <2>3 DEF FlowGoesOn, HistoryGrows
    <3> QED
      BY <3>1, <3>2, SilentInv
  <2> QED
    BY <2>5, <2>6
<1>4. CASE ReconcilerAnnounces
  <2>1. /\ loop[Reconciler].pc \in {"accepted", "rejected", "retry"}
        /\ loop[Reconciler].evt \in Events /\ ~Sending(Reconciler)
        /\ UNCHANGED <<history, trk, messages>>
    BY <1>1, <1>2, <1>4 DEF ReconcilerAnnounces, ReconcilerDone, LoopAt
  <2>2. loop'[Reconciler].pc = "next" /\ \A q \in Loops : q # Reconciler => loop'[q] = loop[q]
    BY <1>1, <1>4 DEF ReconcilerAnnounces, ReconcilerDone, LoopTo
  <2>3. OutcomeInv' /\ Resting(Reconciler)'
    BY <1>1, <2>1, <2>2 DEF NoticeInv, OutcomeInv, Resting
  <2>4. doubtful \subseteq doubtful' /\ doubtful' \subseteq Events
    BY <1>4, <2>1 DEF NoticeInv, ReconcilerAnnounces
  <2>5. CASE ~LoopAt(Reconciler, "retry")
    <3> DEFINE evt == loop[Reconciler].evt
    <3>1. StateIsComplete(evt.state) /\ evt \notin doubtful' => evt.state \in history'[evt.item]
      <4>1. CASE LoopAt(Reconciler, "rejected")
        BY <1>4, <4>1 DEF ReconcilerAnnounces
      <4>2. CASE LoopAt(Reconciler, "accepted")
        BY <1>1, <2>1, <4>2 DEF NoticeInv, OutcomeInv, LoopAt
      <4> QED
        BY <2>1, <2>5, <4>1, <4>2 DEF LoopAt
    <3>2. Send(Reconciler, evt)
      BY <1>4, <2>5 DEF ReconcilerAnnounces
    <3> HIDE DEF evt
    <3>3. evt \in Events
      BY <2>1 DEF evt
    <3> QED
      BY <1>1, <2>1, <2>2, <2>3, <2>4, <3>1, <3>2, <3>3, AnnounceInv DEF Recorded
  <2>6. CASE LoopAt(Reconciler, "retry")
    <3>1. UNCHANGED noticeVars
      BY <1>4, <2>6 DEF ReconcilerAnnounces, Nothing, noticeVars, LoopAt
    <3>2. FlowGoesOn
      BY <2>1, <2>2, <2>3 DEF FlowGoesOn, HistoryGrows
    <3> QED
      BY <3>1, <3>2, SilentInv
  <2> QED
    BY <2>5, <2>6
<1> QED
  BY <1>3, <1>4

\* The sender's map is lost.
LEMMA LostMapInv ==
  ASSUME NoticeInv, FlowInv', OrchestratorRestarts, SenderRestarts
  PROVE  NoticeInv'
<1>1. /\ \A p \in Loops : loop'[p] = IdleLoop /\ sender'[p] = Quiet
      /\ sender' = [p \in Loops |-> Quiet]
      /\ trk' = [id \in IDs |-> NoEntry]
      /\ UNCHANGED <<history, messages, doubtful, raced>>
  BY DEF OrchestratorRestarts, SenderRestarts
<1>2. OutcomeInv'
  BY <1>1 DEF OutcomeInv, IdleLoop
<1>3. SenderInv' /\ AloneInv' /\ EntryInv'
  BY <1>1 DEF SenderInv, AloneInv, EntryInv, Sending, Quiet, NoEntry
<1>4. TrackedInv'
  BY <1>1 DEF TrackedInv, NoEntry
<1>5. MessagesInv'
  BY <1>1 DEF NoticeInv, MessagesInv, Recorded
<1> QED
  BY <1>1, <1>2, <1>3, <1>4, <1>5 DEF NoticeInv

\* What a step of loop p in Send does not disturb: it leaves alone the flow, and
\* the other loop's call.
LEMMA SendStepParts ==
  ASSUME NoticeInv, FlowInv', NEW p \in Loops, Sending(p),
         UNCHANGED <<storeVars, flowVars, doubtful, raced>>,
         NEW x \in [pc : {"idle", "sending", "recording"}, evt : Events \cup {NoEvent},
                    entry : [state : States \cup {"none"}, msg : Nat]],
         sender' = [sender EXCEPT ![p] = x],
         x.pc # "idle" => x.evt = sender[p].evt,
         x.pc = "recording" => x.entry.state \in States
  PROVE  /\ OutcomeInv' /\ SenderInv' /\ AloneInv'
         /\ \A evt \in Events : Recorded(evt) <=> Recorded(evt)'
         /\ sender'[p] = x
         /\ \A q \in Loops : q # p => sender'[q] = sender[q]
<1> USE DEF NoticeInv
<1>1. /\ sender \in [Loops ->
              [pc : {"idle", "sending", "recording"}, evt : Events \cup {NoEvent},
               entry : [state : States \cup {"none"}, msg : Nat]]]
      /\ UNCHANGED <<loop, history>>
  BY DEF SenderInv, flowVars
<1>2. sender'[p] = x /\ \A q \in Loops : q # p => sender'[q] = sender[q]
  BY <1>1
<1>3. OutcomeInv' /\ \A evt \in Events : Recorded(evt) <=> Recorded(evt)'
  BY <1>1 DEF OutcomeInv, Recorded
<1>4. SenderInv'
  <2>1. sender' \in [Loops ->
              [pc : {"idle", "sending", "recording"}, evt : Events \cup {NoEvent},
               entry : [state : States \cup {"none"}, msg : Nat]]]
    BY <1>1
  <2>2. ASSUME NEW q \in Loops, Sending(q)'
        PROVE  /\ Resting(q)'
               /\ sender'[q].evt \in Events
               /\ Recorded(sender[q].evt)'
               /\ sender'[q].pc = "recording" => sender'[q].entry.state \in States
    <3>1. Sending(q) /\ sender'[q].evt = sender[q].evt
      BY <1>2, <2>2 DEF Sending
    <3>2. Resting(q) /\ sender[q].evt \in Events /\ Recorded(sender[q].evt)
      BY <3>1 DEF SenderInv
    <3>3. sender'[q].pc = "recording" => sender'[q].entry.state \in States
      BY <1>2, <3>1 DEF SenderInv
    <3> QED
      BY <1>1, <1>3, <3>1, <3>2, <3>3 DEF Resting, Recorded
  <2> QED
    BY <2>1, <2>2 DEF SenderInv
<1>5. AloneInv'
  <2>1. \A q \in Loops : Sending(q)' => Sending(q) /\ UnitOf(q)' = UnitOf(q)
    BY <1>2 DEF Sending, UnitOf
  <2> QED
    BY <2>1 DEF AloneInv
<1> QED
  BY <1>2, <1>3, <1>4, <1>5

LEMMA DuplicateInv ==
  ASSUME NoticeInv, FlowInv', NEW p \in Loops, Duplicate(p)
  PROVE  NoticeInv'
<1>1. /\ sender[p].pc = "sending" /\ Sending(p)
      /\ sender' = [sender EXCEPT ![p] = Quiet]
      /\ UNCHANGED <<storeVars, flowVars, doubtful, raced>>
      /\ UNCHANGED <<trk, messages>>
  BY DEF Duplicate, SenderAt, SenderEnds, Sending
<1>2. /\ Quiet \in [pc : {"idle", "sending", "recording"}, evt : Events \cup {NoEvent},
                    entry : [state : States \cup {"none"}, msg : Nat]]
      /\ Quiet.pc = "idle"
  BY DEF Quiet, NoEntry
<1>3. /\ OutcomeInv' /\ SenderInv' /\ AloneInv'
      /\ \A evt \in Events : Recorded(evt) <=> Recorded(evt)'
      /\ sender'[p] = Quiet
      /\ \A q \in Loops : q # p => sender'[q] = sender[q]
  BY <1>1, <1>2, SendStepParts
<1>4. MessagesInv'
  <2>1. messages \in Seq(Events) /\ \A n \in DOMAIN messages : messages[n] \in Events
    BY DEF NoticeInv, MessagesInv
  <2> QED
    BY <1>1, <1>3, <2>1 DEF NoticeInv, MessagesInv
<1>5. TrackedInv'
  BY <1>1, <1>3 DEF NoticeInv, TrackedInv, MessageOf, Final, UnitOf
<1>6. EntryInv'
  BY <1>1, <1>2, <1>3 DEF NoticeInv, EntryInv, MessageOf, Final, UnitOf
<1> QED
  BY <1>1, <1>3, <1>4, <1>5, <1>6 DEF NoticeInv

LEMMA RecordStepInv ==
  ASSUME NoticeInv, FlowInv', NEW p \in Loops, Record(p)
  PROVE  NoticeInv'
<1>1. /\ sender[p].pc = "recording" /\ Sending(p)
      /\ sender' = [sender EXCEPT ![p] = Quiet]
      /\ trk' = [trk EXCEPT ![UnitOf(p)] =
               IF StateIsComplete(sender[p].evt.state) THEN NoEntry ELSE sender[p].entry]
      /\ UNCHANGED <<storeVars, flowVars, doubtful, raced>>
      /\ UNCHANGED messages
  BY DEF Record, SenderAt, SenderEnds, Sending
<1>2. /\ Quiet \in [pc : {"idle", "sending", "recording"}, evt : Events \cup {NoEvent},
                    entry : [state : States \cup {"none"}, msg : Nat]]
      /\ Quiet.pc = "idle"
  BY DEF Quiet, NoEntry
<1>3. /\ OutcomeInv' /\ SenderInv' /\ AloneInv'
      /\ \A evt \in Events : Recorded(evt) <=> Recorded(evt)'
      /\ sender'[p] = Quiet
      /\ \A q \in Loops : q # p => sender'[q] = sender[q]
  BY <1>1, <1>2, SendStepParts
<1>4. MessagesInv'
  <2>1. messages \in Seq(Events) /\ \A n \in DOMAIN messages : messages[n] \in Events
    BY DEF NoticeInv, MessagesInv
  <2> QED
    BY <1>1, <1>3, <2>1 DEF NoticeInv, MessagesInv
<1>5. TrackedInv'
  <2>0. PICK u, e : /\ u = UnitOf(p)
                    /\ e = IF StateIsComplete(sender[p].evt.state) THEN NoEntry ELSE sender[p].entry
    OBVIOUS
  <2>1. trk \in [IDs -> [state : States, msg : Nat] \cup {NoEntry}] /\ u \in IDs
    BY <1>1, <2>0 DEF NoticeInv, TrackedInv, SenderInv, UnitOf, Events, Items
  <2>2. e \in [state : States, msg : Nat] \cup {NoEntry}
    <3>1. /\ sender[p].entry \in [state : States \cup {"none"}, msg : Nat]
          /\ sender[p].entry.state \in States
      BY <1>1 DEF NoticeInv, SenderInv
    <3> QED
      BY <2>0, <3>1
  <2>3. trk'[u] = e /\ \A id \in IDs : id # u => trk'[id] = trk[id]
    BY <1>1, <2>0, <2>1
  <2>4. trk' \in [IDs -> [state : States, msg : Nat] \cup {NoEntry}]
    BY <1>1, <2>0, <2>1, <2>2
  <2>5. CASE e.msg # 0
    <3>1. e = sender[p].entry /\ ~StateIsComplete(sender[p].evt.state)
      BY <2>0, <2>5 DEF NoEntry
    <3>2. MessageOf(u, e.msg) /\ (u \notin raced => ~Final(e.msg))
      BY <1>1, <2>0, <2>5, <3>1 DEF NoticeInv, EntryInv
    <3>3. ASSUME NEW id \in IDs, trk'[id].msg # 0, id # u
          PROVE  /\ MessageOf(id, trk[id].msg)'
                 /\ id \notin raced' /\ Final(trk[id].msg)'
                       => \E q \in Loops : /\ sender'[q].pc = "recording" /\ UnitOf(q)' = id
                                           /\ StateIsComplete(sender'[q].evt.state)
      BY <1>1, <1>3, <2>0, <2>3, <3>3 DEF NoticeInv, TrackedInv, MessageOf, Final, UnitOf
    <3>4. MessageOf(u, trk[u].msg)' /\ (u \notin raced' => ~Final(trk[u].msg)')
      BY <1>1, <2>3, <3>2 DEF MessageOf, Final
    <3> QED
      BY <2>4, <3>3, <3>4 DEF TrackedInv
  <2>6. CASE e.msg = 0
    BY <1>1, <1>3, <2>0, <2>3, <2>4, <2>6 DEF NoticeInv, TrackedInv, MessageOf, Final, UnitOf
  <2> QED
    BY <2>5, <2>6
<1>6. EntryInv'
  BY <1>1, <1>2, <1>3 DEF NoticeInv, EntryInv, MessageOf, Final, UnitOf
<1> QED
  BY <1>1, <1>3, <1>4, <1>5, <1>6 DEF NoticeInv

\* SenderTo as one replacement.
LEMMA SenderToIs ==
  ASSUME SenderInv, NEW p \in Loops, NEW pc, NEW entry, SenderTo(p, pc, entry)
  PROVE  sender' = [sender EXCEPT ![p] = [pc |-> pc, evt |-> sender[p].evt, entry |-> entry]]
<1>1. /\ sender \in [Loops ->
              [pc : {"idle", "sending", "recording"}, evt : Events \cup {NoEvent},
               entry : [state : States \cup {"none"}, msg : Nat]]]
      /\ sender' = [sender EXCEPT ![p].pc = pc, ![p].entry = entry]
  BY DEF SenderInv, SenderTo
<1>2. sender[p] \in [pc : {"idle", "sending", "recording"}, evt : Events \cup {NoEvent},
                    entry : [state : States \cup {"none"}, msg : Nat]]
  BY <1>1
<1>3. sender'[p] = [[sender[p] EXCEPT !.pc = pc] EXCEPT !.entry = entry]
  BY <1>1
<1>4. sender'[p] = [pc |-> pc, evt |-> sender[p].evt, entry |-> entry]
  BY <1>2, <1>3
<1>5. sender' = [sender EXCEPT ![p] = sender'[p]]
  BY <1>1
<1> QED
  BY <1>4, <1>5

\* An entry is made for a message n that now announces the event of p's call,
\* or still does not announce an outcome.
LEMMA RecordingInv ==
  ASSUME NoticeInv, FlowInv', NEW p \in Loops, sender[p].pc = "sending",
         UNCHANGED <<storeVars, flowVars, doubtful, raced, trk>>,
         NEW n \in Nat,
         SenderTo(p, "recording", Entry(sender[p].evt.state, n)),
         messages' \in Seq(Events),
         DOMAIN messages \subseteq DOMAIN messages',
         \A m \in DOMAIN messages' : messages'[m] = sender[p].evt
                                       \/ (m \in DOMAIN messages /\ messages'[m] = messages[m]),
         \A m \in DOMAIN messages : m # trk[UnitOf(p)].msg => messages'[m] = messages[m],
         n # 0 => /\ n \in DOMAIN messages'
                  /\ \/ messages'[n] = sender[p].evt
                     \/ n = trk[UnitOf(p)].msg
  PROVE  NoticeInv'
<1> USE DEF NoticeInv
<1>1. /\ Sending(p) /\ sender[p].evt \in Events /\ Recorded(sender[p].evt)
      /\ sender[p] \in [pc : {"idle", "sending", "recording"}, evt : Events \cup {NoEvent},
                       entry : [state : States \cup {"none"}, msg : Nat]]
      /\ sender[p].evt.state \in States /\ UnitOf(p) \in IDs
  BY DEF SenderInv, Sending, UnitOf, Events, Items
<1>2. PICK x : x = [pc |-> "recording", evt |-> sender[p].evt,
                    entry |-> [state |-> sender[p].evt.state, msg |-> n]]
  OBVIOUS
<1>3. /\ x \in [pc : {"idle", "sending", "recording"}, evt : Events \cup {NoEvent},
                entry : [state : States \cup {"none"}, msg : Nat]]
      /\ sender' = [sender EXCEPT ![p] = x]
      /\ x.pc = "recording" /\ x.evt = sender[p].evt
      /\ x.entry.state \in States /\ x.entry.msg = n
  <2>1. sender' = [sender EXCEPT ![p] = x]
    BY <1>2, SenderToIs DEF Entry
  <2> QED
    BY <1>1, <1>2, <2>1
<1>4. /\ OutcomeInv' /\ SenderInv' /\ AloneInv'
      /\ \A evt \in Events : Recorded(evt) <=> Recorded(evt)'
      /\ sender'[p] = x
      /\ \A q \in Loops : q # p => sender'[q] = sender[q]
  BY <1>1, <1>3, SendStepParts
<1>5. \A m \in DOMAIN messages : messages[m] \in Events /\ Recorded(messages[m])
  BY DEF MessagesInv
<1>6. MessagesInv'
  <2>1. ASSUME NEW m \in DOMAIN messages'
        PROVE  messages'[m] \in Events /\ Recorded(messages'[m])
    BY <1>1, <1>5, <2>1
  <2>2. \A m \in DOMAIN messages' : messages'[m] \in Events /\ Recorded(messages[m])'
    BY <1>4, <2>1 DEF Recorded
  <2> QED
    BY <2>2 DEF MessagesInv
<1>7. PICK u \in IDs : u = UnitOf(p) /\ u = sender[p].evt.item.id
  BY <1>1 DEF UnitOf
<1>8. ASSUME NEW q \in Loops
      PROVE  UnitOf(q)' = UnitOf(q)
  <2>1. CASE q = p
    BY <1>3, <1>4, <2>1 DEF UnitOf
  <2>2. CASE q # p
    BY <1>4, <2>2 DEF UnitOf
  <2> QED
    BY <2>1, <2>2
\* An edited message stays one of its unit.
<1>9. \A id \in IDs : \A m : MessageOf(id, m) /\ (m = trk[u].msg => id = u) => MessageOf(id, m)'
  BY <1>7 DEF MessageOf
<1>10. \A id \in IDs : \A m : MessageOf(id, m) /\ m = trk[u].msg /\ m # 0 => id = u
  BY DEF TrackedInv, MessageOf
<1>11. ASSUME NEW q \in Loops, q # p, sender[q].pc = "recording", UnitOf(q) = u
       PROVE  u \in raced
  BY <1>1, <1>7, <1>11 DEF AloneInv, Sending
<1>12. u \notin raced /\ trk[u].msg # 0 => ~Final(trk[u].msg)
  BY <1>7, <1>11 DEF TrackedInv
<1>13. ASSUME NEW m \in DOMAIN messages', m # 0, messages'[m] = sender[p].evt \/ m = trk[u].msg,
              u \notin raced, ~StateIsComplete(sender[p].evt.state)
       PROVE  ~Final(m)'
  <2>1. CASE messages'[m] = sender[p].evt
    BY <1>13, <2>1 DEF Final
  <2>2. CASE m = trk[u].msg /\ messages'[m] # sender[p].evt
    BY <1>12, <1>13, <2>2 DEF Final
  <2> QED
    BY <1>13, <2>1, <2>2
<1>14. TrackedInv'
  <2>1. ASSUME NEW id \in IDs, trk[id].msg # 0
        PROVE  MessageOf(id, trk[id].msg)'
    BY <1>9, <1>10, <2>1 DEF TrackedInv
  <2>2. ASSUME NEW id \in IDs, trk[id].msg # 0, id \notin raced, Final(trk[id].msg)'
        PROVE  \E q \in Loops : /\ sender'[q].pc = "recording" /\ UnitOf(q)' = id
                                /\ StateIsComplete(sender'[q].evt.state)
    <3>1. CASE id = u
      <4>1. trk[u].msg \in DOMAIN messages'
        BY <2>1, <2>2, <3>1 DEF MessageOf
      <4>2. StateIsComplete(sender[p].evt.state)
        BY <1>13, <2>2, <3>1, <4>1
      <4> QED
        BY <1>3, <1>4, <1>7, <1>8, <3>1, <4>2
    <3>2. CASE id # u
      <4>1. trk[id].msg # trk[u].msg /\ trk[id].msg \in DOMAIN messages
        BY <1>10, <2>2, <3>2 DEF TrackedInv, MessageOf
      <4>2. Final(trk[id].msg)
        BY <1>7, <2>2, <4>1 DEF Final
      <4>3. PICK q \in Loops : /\ sender[q].pc = "recording" /\ UnitOf(q) = id
                               /\ StateIsComplete(sender[q].evt.state)
        BY <2>2, <4>2 DEF TrackedInv
      <4>4. q # p
        BY <4>3
      <4> QED
        BY <1>4, <1>8, <4>3, <4>4
    <3> QED
      BY <3>1, <3>2
  <2> QED
    BY <2>1, <2>2 DEF TrackedInv
<1>15. EntryInv'
  <2>1. ASSUME NEW q \in Loops, sender'[q].pc = "recording", sender'[q].entry.msg # 0
        PROVE  /\ MessageOf(UnitOf(q), sender[q].entry.msg)'
               /\ UnitOf(q)' \notin raced /\ ~StateIsComplete(sender'[q].evt.state)
                     => ~Final(sender[q].entry.msg)'
    <3>1. CASE q = p
      <4>1. sender'[q].entry.msg = n /\ sender'[q].evt = sender[p].evt /\ n # 0
        BY <1>3, <1>4, <2>1, <3>1
      <4>2. MessageOf(u, n)'
        <5>1. CASE messages'[n] = sender[p].evt
          BY <1>7, <4>1, <5>1 DEF MessageOf
        <5>2. CASE n = trk[u].msg
          BY <1>9, <4>1, <5>2 DEF TrackedInv
        <5> QED
          BY <1>7, <4>1, <5>1, <5>2
      <4>3. u \notin raced /\ ~StateIsComplete(sender[p].evt.state) => ~Final(n)'
        BY <1>7, <1>13, <4>1
      <4> QED
        BY <1>7, <1>8, <3>1, <4>1, <4>2, <4>3 DEF MessageOf, Final
    <3>2. CASE q # p
      <4>1. sender'[q] = sender[q] /\ UnitOf(q)' = UnitOf(q) /\ UnitOf(q) \in IDs
        BY <1>4, <1>8, <2>1, <3>2 DEF SenderInv, Sending, UnitOf, Events, Items
      <4>2. PICK m : m = sender[q].entry.msg
        OBVIOUS
      <4>3. /\ MessageOf(UnitOf(q), m)
            /\ UnitOf(q) \notin raced /\ ~StateIsComplete(sender[q].evt.state) => ~Final(m)
        BY <2>1, <4>1, <4>2 DEF EntryInv
      <4>4. PICK id \in IDs : id = UnitOf(q)
        BY <4>1
      <4>5. MessageOf(id, m)'
        BY <1>9, <1>10, <2>1, <4>1, <4>2, <4>3, <4>4
      <4>6. id \notin raced => m # trk[u].msg
        BY <1>7, <1>10, <1>11, <2>1, <4>1, <4>2, <4>3, <4>4
      <4>7. id \notin raced /\ ~StateIsComplete(sender[q].evt.state) => ~Final(m)'
        BY <1>7, <4>3, <4>4, <4>6 DEF MessageOf, Final
      <4> QED
        BY <4>1, <4>2, <4>4, <4>5, <4>7 DEF MessageOf, Final
    <3> QED
      BY <3>1, <3>2
  <2> QED
    BY <2>1 DEF EntryInv
<1> QED
  BY <1>4, <1>6, <1>14, <1>15

LEMMA PostMessageInv ==
  ASSUME NoticeInv, FlowInv', NEW p \in Loops, PostMessage(p)
  PROVE  NoticeInv'
<1>1. /\ sender[p].pc = "sending" /\ trk[UnitOf(p)].msg = 0
      /\ UNCHANGED <<storeVars, flowVars, doubtful, raced, trk>>
  BY DEF PostMessage, SenderAt
<1>2. /\ messages \in Seq(Events) /\ sender[p].evt \in Events
      /\ Message(sender[p].evt) = sender[p].evt
  BY <1>1 DEF NoticeInv, MessagesInv, SenderInv, Sending, Message, Events
<1>3. CASE /\ messages' = Append(messages, Message(sender[p].evt))
           /\ \/ SenderTo(p, "recording", Entry(sender[p].evt.state, Len(messages')))
              \/ SenderTo(p, "recording", Entry(sender[p].evt.state, 0))
  <2>1. PICK e : e = sender[p].evt
    OBVIOUS
  <2>2. /\ messages' = Append(messages, e) /\ e \in Events
        /\ DOMAIN messages = 1 .. Len(messages) /\ Len(messages) \in Nat
    BY <1>2, <1>3, <2>1
  <2>3. /\ messages' \in Seq(Events)
        /\ Len(messages') = Len(messages) + 1
        /\ DOMAIN messages' = 1 .. Len(messages) + 1
        /\ messages'[Len(messages) + 1] = e
        /\ \A m \in 1 .. Len(messages) : messages'[m] = messages[m]
    BY <1>2, <2>2
  <2>4. /\ DOMAIN messages \subseteq DOMAIN messages'
        /\ \A m \in DOMAIN messages' :
              messages'[m] = sender[p].evt \/ (m \in DOMAIN messages /\ messages'[m] = messages[m])
        /\ \A m \in DOMAIN messages : m # trk[UnitOf(p)].msg => messages'[m] = messages[m]
    <3>1. ASSUME NEW m \in DOMAIN messages'
          PROVE  messages'[m] = sender[p].evt \/ (m \in DOMAIN messages /\ messages'[m] = messages[m])
      <4>1. m = Len(messages) + 1 \/ m \in 1 .. Len(messages)
        BY <2>2, <2>3
      <4> QED
        BY <2>1, <2>2, <2>3, <4>1
    <3>2. 1 .. Len(messages) \subseteq 1 .. Len(messages) + 1
      BY <2>2
    <3>3. DOMAIN messages \subseteq DOMAIN messages'
      BY <2>2, <2>3, <3>2
    <3>4. \A m \in DOMAIN messages : messages'[m] = messages[m]
      BY <2>2, <2>3
    <3> QED
      BY <3>1, <3>3, <3>4
  <2>5. Len(messages') \in Nat /\ Len(messages') \in DOMAIN messages'
        /\ messages'[Len(messages')] = sender[p].evt
    BY <2>1, <2>2, <2>3
  <2>6. CASE SenderTo(p, "recording", Entry(sender[p].evt.state, Len(messages')))
    <3>1. PICK n \in Nat : n = Len(messages')
      BY <2>5
    <3>2. /\ SenderTo(p, "recording", Entry(sender[p].evt.state, n))
          /\ n \in DOMAIN messages' /\ messages'[n] = sender[p].evt
      BY <2>5, <2>6, <3>1
    <3> QED
      BY <1>1, <2>3, <2>4, <3>2, RecordingInv
  <2>7. CASE SenderTo(p, "recording", Entry(sender[p].evt.state, 0))
    <3>1. PICK n \in Nat : n = 0
      OBVIOUS
    <3>2. SenderTo(p, "recording", Entry(sender[p].evt.state, n))
      BY <2>7, <3>1
    <3> QED
      BY <1>1, <2>3, <2>4, <3>1, <3>2, RecordingInv
  <2> QED
    BY <1>3, <2>6, <2>7
<1>4. CASE UNCHANGED messages /\ SenderTo(p, "recording", Entry(sender[p].evt.state, 0))
  <2>1. PICK n \in Nat : n = 0
    OBVIOUS
  <2>2. /\ messages' \in Seq(Events) /\ DOMAIN messages' = DOMAIN messages
        /\ \A m \in DOMAIN messages : messages'[m] = messages[m]
        /\ SenderTo(p, "recording", Entry(sender[p].evt.state, n))
    BY <1>2, <1>4, <2>1
  <2> QED
    BY <1>1, <2>1, <2>2, RecordingInv
<1> QED
  BY <1>3, <1>4 DEF PostMessage

LEMMA UpdateMessageInv ==
  ASSUME NoticeInv, FlowInv', NEW p \in Loops, UpdateMessage(p)
  PROVE  NoticeInv'
<1>1. PICK n : n = trk[UnitOf(p)].msg
  OBVIOUS
<1>2. /\ sender[p].pc = "sending" /\ n # 0
      /\ \/ messages' = [messages EXCEPT ![n] = Message(sender[p].evt)]
         \/ UNCHANGED messages
      /\ SenderTo(p, "recording", Entry(sender[p].evt.state, n))
      /\ UNCHANGED <<storeVars, flowVars, doubtful, raced, trk>>
  BY <1>1 DEF UpdateMessage, SenderAt
<1>3. /\ messages \in Seq(Events) /\ sender[p].evt \in Events /\ UnitOf(p) \in IDs
      /\ Message(sender[p].evt) = sender[p].evt
  BY <1>2 DEF NoticeInv, MessagesInv, SenderInv, Sending, Message, UnitOf, Events, Items
<1>4. n \in DOMAIN messages /\ n \in Nat
  BY <1>1, <1>2, <1>3 DEF NoticeInv, TrackedInv, MessageOf
<1>5. /\ messages' \in Seq(Events) /\ DOMAIN messages' = DOMAIN messages
      /\ \A m \in DOMAIN messages : m # n => messages'[m] = messages[m]
      /\ messages'[n] = sender[p].evt \/ messages'[n] = messages[n]
  BY <1>2, <1>3, <1>4
<1>6. \A m \in DOMAIN messages' :
         messages'[m] = sender[p].evt \/ (m \in DOMAIN messages /\ messages'[m] = messages[m])
  <2>1. ASSUME NEW m \in DOMAIN messages'
        PROVE  messages'[m] = sender[p].evt \/ (m \in DOMAIN messages /\ messages'[m] = messages[m])
    <3>1. m \in DOMAIN messages
      BY <1>5
    <3>2. CASE m = n
      BY <1>5, <3>1, <3>2
    <3>3. CASE m # n
      BY <1>5, <3>1, <3>3
    <3> QED
      BY <3>2, <3>3
  <2> QED
    BY <2>1
<1> QED
  BY <1>1, <1>2, <1>4, <1>5, <1>6, RecordingInv

LEMMA NoticeInvStep == NoticeInv /\ [NoticeNext]_allVars => NoticeInv'
<1> SUFFICES ASSUME NoticeInv, [NoticeNext]_allVars PROVE NoticeInv'
  OBVIOUS
<1>1. FlowInv'
  BY FlowKept DEF NoticeInv
<1>2. FlowInv /\ OutcomeInv /\ SenderInv
  BY DEF NoticeInv
<1>3. CASE UNCHANGED allVars
  <2>1. UNCHANGED <<loop, history, noticeVars>>
    BY <1>3 DEF allVars, vars, flowVars
  <2>2. FlowGoesOn
    BY <1>2, <2>1 DEF FlowGoesOn, OutcomeInv, HistoryGrows
  <2> QED
    BY <1>1, <2>1, <2>2, SilentInv
<1>4. CASE UNCHANGED noticeVars
           /\ \/ \E c \in Creators : RequestStep(c)
              \/ ApiCrash
              \/ \E i \in Items : JobStep(i) \/ TimePasses(i)
              \/ \E k \in Kinds : Coalesce(k) \/ RefreshWatcher(k)
  BY <1>1, <1>2, <1>4, SurroundingsGoOn, SilentInv
<1>5. ASSUME NEW p \in Loops, EventStep(p), UNCHANGED noticeVars
      PROVE  NoticeInv'
  BY <1>1, <1>2, <1>5, EventStepGoesOn, SilentInv
<1>6. CASE UNCHANGED noticeVars
           /\ \/ SenderAt(Publisher, "idle") /\ \E k \in Kinds : TakeUpdate(k)
              \/ StartRound
              \/ \E k \in Kinds : ListBucket(k)
              \/ SenderAt(Reconciler, "idle") /\ NextEvent
  BY <1>1, <1>2, <1>6, TakingGoesOn, SilentInv
<1>7. CASE PublisherAnnounces \/ ReconcilerAnnounces
  BY <1>1, <1>7, AnnouncementsInv
<1>8. ASSUME NEW p \in Loops, Duplicate(p) \/ PostMessage(p) \/ UpdateMessage(p) \/ Record(p)
      PROVE  NoticeInv'
  BY <1>1, <1>8, DuplicateInv, PostMessageInv, UpdateMessageInv, RecordStepInv
<1>9. CASE NoticeCrash \/ MapRace
  BY <1>1, <1>9, LostMapInv DEF NoticeCrash, OrchestratorCrash, MapRace
<1> QED
  BY <1>3, <1>4, <1>5, <1>6, <1>7, <1>8, <1>9, LoopsAre
     DEF NoticeNext, Silently, PublisherGoesOn, ReconcilerGoesOn

LEMMA NoticeInvInit == NoticeInit => NoticeInv
<1> SUFFICES ASSUME NoticeInit PROVE NoticeInv
  OBVIOUS
<1>1. FlowInv /\ \A p \in Loops : loop[p] = IdleLoop
  BY FlowInvInit DEF NoticeInit, Init
<1>2. OutcomeInv
  BY <1>1 DEF OutcomeInv, IdleLoop
<1>3. SenderInv /\ AloneInv /\ EntryInv
  BY DEF NoticeInit, SenderInv, AloneInv, EntryInv, Sending, Quiet, NoEntry
<1>4. TrackedInv
  BY DEF NoticeInit, newSlackSender, TrackedInv, NoEntry
<1>5. MessagesInv
  BY DEF NoticeInit, MessagesInv
<1> QED
  BY <1>1, <1>2, <1>3, <1>4, <1>5 DEF NoticeInv, NoticeInit

LEMMA NoticeInvariant == NoticeSpec => []NoticeInv
  BY NoticeInvInit, NoticeInvStep, PTL DEF NoticeSpec

-----------------------------------------------------------------------------
(* Theorems                                                                *)

\* Every variable of the flow and of the sender always holds a value of its kind.
THEOREM NoticeTypeCorrect == NoticeSpec => []NoticeTypeOK
<1>1. NoticeInv => NoticeTypeOK
  BY FlowInvTypes DEF NoticeInv, SenderInv, MessagesInv, TrackedInv, NoticeTypeOK, Events
<1> QED
  BY <1>1, NoticeInvariant, PTL

\* An outcome that Slack shows is in the event history, but for an event the
\* reconciler announced though its update had failed.
THEOREM AnnouncementsRecorded == NoticeSpec => []AnnouncedAsRecorded
<1>1. NoticeInv => AnnouncedAsRecorded
  <2> SUFFICES ASSUME NoticeInv, NEW n \in DOMAIN messages,
                      StateIsComplete(messages[n].state),
                      Event(messages[n].item, messages[n].state) \notin doubtful
               PROVE  messages[n].state \in history[messages[n].item]
    BY DEF AnnouncedAsRecorded
  <2>1. messages[n] \in Events /\ Recorded(messages[n])
    BY DEF NoticeInv, MessagesInv
  <2>2. Event(messages[n].item, messages[n].state) = messages[n]
    BY <2>1 DEF Events, Event
  <2> QED
    BY <2>1, <2>2 DEF Recorded
<1> QED
  BY <1>1, NoticeInvariant, PTL

\* A message that shows an outcome is not edited for a later event of its unit,
\* unless publisher and reconciler were in Send for the unit at once.
THEOREM OutcomesStand == NoticeSpec => OutcomeStands
<1> DEFINE Stands == \A n \in DOMAIN messages :
                        StateIsComplete(messages[n].state) /\ messages[n].item.id \notin raced
                            => messages'[n] = messages[n]
<1>1. ASSUME NoticeInv, [NoticeNext]_allVars
      PROVE  [Stands]_allVars
  <2>1. ASSUME UNCHANGED messages
        PROVE  Stands
    BY <2>1
  <2>2. messages \in Seq(Events) /\ \A n \in DOMAIN messages : messages[n] \in Events
    BY <1>1 DEF NoticeInv, MessagesInv
  <2>3. ASSUME NEW p \in Loops, PostMessage(p)
        PROVE  Stands
    <3>1. sender[p].evt \in Events /\ Message(sender[p].evt) = sender[p].evt
      BY <1>1, <2>3 DEF NoticeInv, SenderInv, PostMessage, SenderAt, Sending, Message, Events
    <3>2. PICK e \in Events : e = Message(sender[p].evt)
      BY <3>1
    <3>3. messages' = Append(messages, e) \/ UNCHANGED messages
      BY <2>3, <3>2 DEF PostMessage
    <3>4. \A n \in DOMAIN messages : Append(messages, e)[n] = messages[n]
      BY <2>2, <3>2
    <3> QED
      BY <3>3, <3>4
  <2>4. ASSUME NEW p \in Loops, UpdateMessage(p)
        PROVE  Stands
    <3>1. PICK m : m = trk[UnitOf(p)].msg
      OBVIOUS
    <3>2. /\ Sending(p) /\ sender[p].pc = "sending" /\ m # 0 /\ UnitOf(p) \in IDs
          /\ messages' = [messages EXCEPT ![m] = Message(sender[p].evt)] \/ UNCHANGED messages
      BY <1>1, <2>4, <3>1 DEF UpdateMessage, SenderAt, Sending, UnitOf, NoticeInv, SenderInv, Events, Items
    <3>3. \A n \in DOMAIN messages : n # m => messages'[n] = messages[n]
      BY <2>2, <3>2
    <3>4. m \in DOMAIN messages /\ messages[m].item.id = UnitOf(p)
      BY <1>1, <3>1, <3>2 DEF NoticeInv, TrackedInv, MessageOf
    <3>5. Final(m) => UnitOf(p) \in raced
      <4>1. SUFFICES ASSUME Final(m), UnitOf(p) \notin raced PROVE FALSE
        OBVIOUS
      <4>2. PICK q \in Loops : sender[q].pc = "recording" /\ UnitOf(q) = UnitOf(p)
        BY <1>1, <3>1, <3>2, <4>1 DEF NoticeInv, TrackedInv
      <4> QED
        BY <1>1, <3>2, <4>1, <4>2 DEF NoticeInv, AloneInv, Sending
    <3> QED
      BY <3>3, <3>4, <3>5 DEF Final
  <2>5. (\E p \in Loops : PostMessage(p) \/ UpdateMessage(p)) \/ UNCHANGED messages
    BY <1>1 DEF NoticeNext, Silently, PublisherGoesOn, ReconcilerGoesOn, PublisherAnnounces,
           ReconcilerAnnounces, Duplicate, Record, NoticeCrash, MapRace, SenderRestarts,
           noticeVars, allVars
  <2> QED
    BY <2>1, <2>3, <2>4, <2>5
<1> QED
  BY <1>1, NoticeInvariant, PTL DEF NoticeSpec, OutcomeStands

=============================================================================
