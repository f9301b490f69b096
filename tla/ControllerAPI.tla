--------------------------- MODULE ControllerAPI ---------------------------
(***************************************************************************)
(* pkg/api/v1/orchestrator/routes: what the orchestrator API does for the  *)
(* controller that executes a condition on the server itself.  Such a      *)
(* controller queries its condition, publishes its task and its status,    *)
(* and has a ticker that renews the timestamps of both (ts_update) while   *)
(* it works.  Each request is a check of the active condition, a Get of a  *)
(* KV entry and a Create, an Update that names the revision it read, or a  *)
(* Delete and a Create; other requests and the orchestrator come between.  *)
(*                                                                         *)
(* One server, whose conditions 1, 2, ... Last of one kind come one after  *)
(* the other.  They have a status entry each and share the task entry,     *)
(* whose key is the kind and the server.                                   *)
(***************************************************************************)
EXTENDS Conditions

CONSTANTS
    Last,       \* the number of conditions
    Outcomes,   \* the final states controllers report
    Faults,     \* the kinds of fault that may happen
    MaxFaults   \* how many may happen in a behaviour

ASSUME OutcomesAssumption == Outcomes \subseteq {Failed, Succeeded}
ASSUME BoundsAssumption == Last \in Nat /\ MaxFaults \in Nat

Conds   == 1 .. Last
Threads == {"reporter", "ticker"}

\* The step of a controller that has restarted.
Restarted == 6

\* The keys of the KV entries: a condition's for its status, TaskKey for the task.
TaskKey == 0
Keys    == {TaskKey} \cup Conds

\* A status value or a task.  Stale: UpdatedAt is older than the threshold.
Entry(c, st, stale) == [id |-> c, state |-> st, stale |-> stale]
NoEntry    == Entry(0, "none", FALSE)
EmptyEntry == Entry(0, "", TRUE)

\* A request: the key; the report, or NoEntry if it is only for the timestamp;
\* in this case what it read, to be written back with a new timestamp; whether
\* the entry still has the revision read.
Idle == [pc |-> "idle", key |-> TaskKey, new |-> NoEntry, read |-> NoEntry, current |-> FALSE]

VARIABLES
    cond,     \* cond[c]: the state of c in the active-conditions store
    kv,       \* kv[k]: the entry under key k, or NoEntry
    call,     \* call[c][t]: the request of thread t of c's controller
    step,     \* step[c]: which report c's controller is at; 0 before, 5 after
              \* all, 6 when it has restarted
    outcome,  \* outcome[c]: the final state c's controller reports, or Active
    gone,     \* the conditions whose controllers have died or given up
    faults,   \* the number of faults so far
    reported  \* the conditions whose final report the task KV has had; it is
              \* not in the code, TaskDoneOnce refers to it

apiVars == <<cond, kv, call, step, outcome, gone, faults>>
vars == <<apiVars, reported>>

Init ==
    /\ cond = [c \in Conds |-> "none"]
    /\ kv = [k \in Keys |-> NoEntry]
    /\ call = [c \in Conds |-> [t \in Threads |-> Idle]]
    /\ step = [c \in Conds |-> 0]
    /\ outcome = [c \in Conds |-> Active]
    /\ gone = {}
    /\ faults = 0
    /\ reported = {}

NoFault == UNCHANGED faults
Fault(f) ==
    /\ f \in Faults
    /\ faults < MaxFaults
    /\ faults' = faults + 1

Incomplete(c) == cond[c] \in {Pending, Active}

-----------------------------------------------------------------------------
(* The active-conditions store: one condition of the server at a time      *)

CreateCondition(c) ==
    /\ cond[c] = "none"
    /\ \A d \in Conds : d < c => StateIsComplete(cond[d])
    /\ cond' = [cond EXCEPT ![c] = Pending]
    /\ NoFault
    /\ UNCHANGED <<kv, call, step, outcome, gone>>

\* conditionGet hands the active condition to its controller.
ConditionGet(c) ==
    /\ step[c] = 0
    /\ Incomplete(c)
    /\ step' = [step EXCEPT ![c] = 1]
    /\ NoFault
    /\ UNCHANGED <<cond, kv, call, outcome, gone>>

-----------------------------------------------------------------------------
(* Requests                                                                *)

\* A controller reports the task and then the status, first active and then
\* final: a task is refused once the condition is complete.
ReportKey(c) == IF step[c] \in {1, 3} THEN TaskKey ELSE c
Reported(c)  == Entry(c, outcome[c], FALSE)

FinishWork(c, st) ==
    /\ step[c] = 3
    /\ outcome[c] = Active
    /\ c \notin gone
    /\ outcome' = [outcome EXCEPT ![c] = st]
    /\ NoFault
    /\ UNCHANGED <<cond, kv, call, step, gone>>

\* The entry of another call is no longer at the revision it read.
Outdated(req) == [req EXCEPT !.current = FALSE]

Write(k, e, c, t, next) ==
    /\ kv' = [kv EXCEPT ![k] = e]
    /\ call' = [d \in Conds |-> [u \in Threads |->
          IF d = c /\ u = t THEN next
          ELSE IF call[d][u].key = k THEN Outdated(call[d][u])
          ELSE call[d][u]]]

\* The reporter goes on when it gets its answer, and repeats the request when
\* it does not.
Answered(c, t) ==
    \/ t = "ticker" /\ NoFault /\ UNCHANGED step
    \/ t = "reporter" /\ NoFault /\ step' = [step EXCEPT ![c] = @ + 1]
    \/ t = "reporter" /\ Fault("lost_answer") /\ UNCHANGED step

\* conditionStatusUpdate and taskPublish look up the server's active condition.
\* A report has to be for this one; a timestamp of a task has not.
Accepts(c, k, new) ==
    IF k = TaskKey /\ new = NoEntry THEN \E d \in Conds : Incomplete(d) ELSE Incomplete(c)

Request(c, t, k, new) ==
    /\ c \notin gone
    /\ call[c][t] = Idle
    /\ Accepts(c, k, new)
    /\ call' = [call EXCEPT ![c][t] = [Idle EXCEPT !.pc = "checked", !.key = k, !.new = new]]
    /\ NoFault
    /\ UNCHANGED <<cond, kv, step, outcome, gone>>

Report(c) ==
    /\ step[c] \in 1 .. 4
    /\ step[c] >= 3 => outcome[c] # Active
    /\ Request(c, "reporter", ReportKey(c), Reported(c))

\* The ticker runs from the first report to the last.
Tick(c, k) ==
    /\ step[c] \in 2 .. 4
    /\ k \in {TaskKey, c}
    /\ Request(c, "ticker", k, NoEntry)

\* A controller whose report is not accepted has lost its condition.
GiveUp(c) ==
    /\ step[c] \in 1 .. 4
    /\ c \notin gone
    /\ call[c]["reporter"] = Idle
    /\ ~Accepts(c, ReportKey(c), Reported(c))
    /\ gone' = gone \cup {c}
    /\ NoFault
    /\ UNCHANGED <<cond, kv, call, step, outcome>>

\* taskKV.get: the task of a condition is in the KV, or none is, or a stale one,
\* which may also be the empty entry that a timestamp has created.
GetTask(c) ==
    IF kv[TaskKey] = NoEntry THEN "none" ELSE IF kv[TaskKey].id = c THEN "found" ELSE "stale"

\* A controller that has restarted knows no more than the API tells it: it goes
\* on where its task is, and starts anew if there is none.
Resume(c, at, st) ==
    /\ step' = [step EXCEPT ![c] = at]
    /\ outcome' = [outcome EXCEPT ![c] = st]
    /\ UNCHANGED gone

\* Variant for mutation: the state of the task is not looked at.
TaskQueryAnew(c) ==
    /\ step[c] = Restarted
    /\ IF Incomplete(c) THEN Resume(c, 1, Active) ELSE gone' = gone \cup {c} /\ UNCHANGED <<step, outcome>>
    /\ NoFault
    /\ UNCHANGED <<cond, kv, call>>

\* taskQuery: an operator has to remove a stale task; without a condition that is
\* incomplete there is nothing to go on with.
TaskQuery(c) ==
    /\ step[c] = Restarted
    /\ c \notin gone
    /\ \/ Incomplete(c) /\ GetTask(c) = "none" /\ Resume(c, 1, Active)
       \/ /\ Incomplete(c) /\ GetTask(c) = "found"
          /\ IF StateIsComplete(kv[TaskKey].state) THEN Resume(c, 4, kv[TaskKey].state)
                                                   ELSE Resume(c, 2, Active)
       \/ /\ ~Incomplete(c) \/ GetTask(c) = "stale"
          /\ gone' = gone \cup {c}
          /\ UNCHANGED <<step, outcome>>
    /\ NoFault
    /\ UNCHANGED <<cond, kv, call>>

\* Variants for mutation: any other condition's task is cleared; a task that is
\* stale is not.
ClearsTaskOfOther(e, new) == StateIsComplete(e.state) \/ e.id # new.id
ClearsFinishedTask(e, new) == StateIsComplete(e.state)

\* A new task takes the place of one that is finished, or stale and another's.
ClearsTask(e, new) == StateIsComplete(e.state) \/ (e.stale /\ e.id # new.id)

\* Only a report to the task KV may have to clear the entry, or be refused by
\* Task.Update because the task is another condition's.
Clears(k, e, new) == k = TaskKey /\ new # NoEntry /\ ClearsTask(e, new)
Merges(k, e, new) == ~Clears(k, e, new) /\ (k = TaskKey /\ new # NoEntry => e.id = new.id)

\* Get, and what follows from it.
Get(c, t) ==
    /\ call[c][t].pc = "checked"
    /\ LET k   == call[c][t].key
           new == call[c][t].new
           e   == kv[k]
           Then(req) == call' = [call EXCEPT ![c][t] = req]
       IN \/ e = NoEntry /\ Then([call[c][t] EXCEPT !.pc = "creating"])
          \/ e # NoEntry /\ Clears(k, e, new) /\ Then([call[c][t] EXCEPT !.pc = "clearing"])
          \/ e # NoEntry /\ Merges(k, e, new)
             /\ Then([call[c][t] EXCEPT !.pc = "updating", !.current = TRUE,
                          !.read = IF new = NoEntry THEN [e EXCEPT !.stale = FALSE] ELSE NoEntry])
          \/ e # NoEntry /\ ~Clears(k, e, new) /\ ~Merges(k, e, new) /\ Then(Idle)
    /\ NoFault
    /\ UNCHANGED <<cond, kv, step, outcome, gone>>

\* Delete does not name the revision.
Clear(c, t) ==
    /\ call[c][t].pc = "clearing"
    /\ Write(call[c][t].key, NoEntry, c, t, [call[c][t] EXCEPT !.pc = "creating"])
    /\ NoFault
    /\ UNCHANGED <<cond, step, outcome, gone>>

\* Variants for mutation: the state of the report is dropped; Put for Create.
CreateStateless(c, t) ==
    /\ call[c][t].pc = "creating"
    /\ kv[call[c][t].key] = NoEntry
    /\ Write(call[c][t].key, Entry(c, "", FALSE), c, t, Idle)
    /\ Answered(c, t)
    /\ UNCHANGED <<cond, outcome, gone>>

CreatePut(c, t) ==
    /\ call[c][t].pc = "creating"
    /\ LET new == call[c][t].new
       IN Write(call[c][t].key, IF new = NoEntry THEN EmptyEntry ELSE new, c, t, Idle)
    /\ Answered(c, t)
    /\ UNCHANGED <<cond, outcome, gone>>

\* Create sets CreatedAt: UpdatedAt is what the controller sent, and a request
\* that was only for the timestamp creates an entry without contents.
Create(c, t) ==
    /\ call[c][t].pc = "creating"
    /\ LET k   == call[c][t].key
           new == call[c][t].new
       IN \/ /\ kv[k] = NoEntry
             /\ \E stale \in BOOLEAN :
                   Write(k, IF new = NoEntry THEN EmptyEntry ELSE [new EXCEPT !.stale = stale],
                         c, t, Idle)
             /\ Answered(c, t)
          \/ /\ kv[k] # NoEntry
             /\ call' = [call EXCEPT ![c][t] = Idle]
             /\ NoFault
             /\ UNCHANGED <<kv, step>>
    /\ UNCHANGED <<cond, outcome, gone>>

\* Variant for mutation: Put for Update.
UpdateAnyRevision(c, t) ==
    /\ call[c][t].pc = "updating"
    /\ LET new == call[c][t].new
       IN Write(call[c][t].key,
                IF new = NoEntry THEN call[c][t].read ELSE new, c, t, Idle)
    /\ Answered(c, t)
    /\ UNCHANGED <<cond, outcome, gone>>

\* Update is refused when the entry has another revision than the one read.
Update(c, t) ==
    /\ call[c][t].pc = "updating"
    /\ LET k   == call[c][t].key
           new == call[c][t].new
       IN \/ /\ call[c][t].current
             /\ Write(k, IF new = NoEntry THEN call[c][t].read ELSE new, c, t, Idle)
             /\ Answered(c, t)
          \/ /\ ~call[c][t].current
             /\ call' = [call EXCEPT ![c][t] = Idle]
             /\ NoFault
             /\ UNCHANGED <<kv, step>>
    /\ UNCHANGED <<cond, outcome, gone>>

\* A call to the KV fails, and the request with it; also between Delete and
\* Create.
CallFails(c, t) ==
    /\ call[c][t].pc # "idle"
    /\ Fault("kv_error")
    /\ call' = [call EXCEPT ![c][t] = Idle]
    /\ UNCHANGED <<cond, kv, step, outcome, gone>>

-----------------------------------------------------------------------------
(* The orchestrator, as far as the status KV and the store show it         *)

Parses(e) == e.state \in States

\* The update of an entry's state is committed.
Commit(c) ==
    /\ Incomplete(c)
    /\ Parses(kv[c])
    /\ kv[c].state # cond[c]
    /\ TransitionValid(cond[c], kv[c].state)
    /\ cond' = [cond EXCEPT ![c] = kv[c].state]
    /\ NoFault
    /\ UNCHANGED <<kv, call, step, outcome, gone>>

\* The reconciler fails a condition whose controller is gone.
Reconcile(c) ==
    /\ Incomplete(c)
    /\ c \in gone /\ Parses(kv[c]) /\ kv[c].stale /\ ~StateIsComplete(kv[c].state)
    /\ cond' = [cond EXCEPT ![c] = Failed]
    /\ NoFault
    /\ UNCHANGED <<kv, call, step, outcome, gone>>

\* The status entry of a complete condition is deleted, by the publisher after
\* the final report or by the reconciler.
Forget(c) ==
    /\ StateIsComplete(cond[c])
    /\ Parses(kv[c])
    /\ StateIsComplete(kv[c].state) \/ (c \in gone /\ kv[c].stale)
    /\ kv' = [kv EXCEPT ![c] = NoEntry]
    /\ call' = [d \in Conds |-> [u \in Threads |->
          IF call[d][u].key = c THEN Outdated(call[d][u]) ELSE call[d][u]]]
    /\ NoFault
    /\ UNCHANGED <<cond, step, outcome, gone>>

\* The thresholds are minutes: the requests for a condition that was completed
\* before are over.
GrowStale(k) ==
    /\ kv[k] # NoEntry
    /\ ~kv[k].stale
    /\ \A c \in Conds, t \in Threads : StateIsComplete(cond[c]) => call[c][t] = Idle
    /\ kv' = [kv EXCEPT ![k].stale = TRUE]
    /\ NoFault
    /\ UNCHANGED <<cond, call, step, outcome, gone>>

\* The controller dies and its check-in times out.
LoseController(c) ==
    /\ step[c] \in 1 .. 4
    /\ c \notin gone
    /\ \A t \in Threads : call[c][t] = Idle
    /\ Fault("controller_dies")
    /\ gone' = gone \cup {c}
    /\ UNCHANGED <<cond, kv, call, step, outcome>>

\* The controller restarts, as it does when it has updated the server it runs
\* on.  The report it was at has been answered or has failed.
RestartController(c) ==
    /\ step[c] \in 1 .. 4
    /\ c \notin gone
    /\ call[c]["reporter"] = Idle
    /\ Fault("controller_restarts")
    /\ step' = [step EXCEPT ![c] = Restarted]
    /\ outcome' = [outcome EXCEPT ![c] = Active]
    /\ UNCHANGED <<cond, kv, call, gone>>

ThreadStep(c, t) ==
    \/ t = "reporter" /\ (Report(c) \/ GiveUp(c) \/ TaskQuery(c) \/ \E st \in Outcomes : FinishWork(c, st))
    \/ Get(c, t) \/ Clear(c, t) \/ Create(c, t) \/ Update(c, t)

TaskDone(c) == kv[TaskKey].id = c /\ StateIsComplete(kv[TaskKey].state)

Next ==
    /\ \/ \E c \in Conds :
             \/ CreateCondition(c) \/ Commit(c) \/ Reconcile(c) \/ Forget(c)
             \/ LoseController(c) \/ RestartController(c) \/ ConditionGet(c)
             \/ \E k \in Keys : Tick(c, k)
             \/ \E t \in Threads : ThreadStep(c, t) \/ CallFails(c, t)
       \/ \E k \in Keys : GrowStale(k)
    /\ reported' = reported \cup {c \in Conds : TaskDone(c)'}

Spec == Init /\ [][Next]_vars

\* Requests run to their end, a controller repeats what was not answered, the
\* orchestrator goes on, and time passes.
Fairness ==
    /\ \A c \in Conds :
          /\ WF_apiVars(Commit(c)) /\ WF_apiVars(Reconcile(c)) /\ WF_apiVars(Forget(c))
          /\ \A t \in Threads : WF_apiVars(ThreadStep(c, t))
    /\ \A k \in Keys : WF_apiVars(GrowStale(k))

FairSpec == Spec /\ Fairness

-----------------------------------------------------------------------------
(* Properties *)

Entries  == [id : Conds, state : States, stale : BOOLEAN]
Blanks   == [id : {0}, state : {NoEntry.state, EmptyEntry.state}, stale : BOOLEAN]
Contents == Entries \cup Blanks

\* Every variable holds a value of its kind.
TypeOK ==
    /\ cond \in [Conds -> States \cup {"none"}]
    /\ kv \in [Keys -> Contents]
    /\ call \in [Conds -> [Threads ->
          [pc : {"idle", "checked", "creating", "clearing", "updating"}, key : Keys,
           new : Entries \cup {NoEntry}, current : BOOLEAN, read : Contents]]]
    /\ step \in [Conds -> 0 .. 6]
    /\ outcome \in [Conds -> Outcomes \cup {Active}]
    /\ gone \subseteq Conds
    /\ reported \subseteq Conds
    /\ faults \in 0 .. MaxFaults

\* A final report stands, in the status KV and in the task KV, until the entry
\* is deleted: no request in flight puts back what it read before.
FinalReportStands ==
    [][\A k \in Keys :
          StateIsComplete(kv[k].state) /\ kv'[k] # NoEntry =>
             kv'[k].id = kv[k].id /\ kv'[k].state = kv[k].state]_vars

\* An unfinished task that is kept up to date is neither deleted nor replaced,
\* by its controller, that of the next condition, or a late request.
LiveTaskKept ==
    [][kv[TaskKey].id \in Conds /\ ~StateIsComplete(kv[TaskKey].state) /\ ~kv[TaskKey].stale
             => kv'[TaskKey].id = kv[TaskKey].id]_vars

\* Once the task KV has had the final report of a condition it never has an
\* unfinished task of it again: a controller that restarts does not start the
\* work anew, and no late request does.
TaskDoneOnce == \A c \in reported : kv[TaskKey].id = c => TaskDone(c)

\* The outcome a controller got accepted becomes the condition's.
OutcomeReachesStore == \A c \in Conds : step[c] = 5 ~> cond[c] = outcome[c]

\* What an earlier condition left in the task KV does not keep the controller
\* of the next one from publishing its task.
TaskGetsPublished == \A c \in Conds : step[c] = 1 ~> step[c] > 1 \/ c \in gone

=============================================================================
