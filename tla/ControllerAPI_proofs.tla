------------------------ MODULE ControllerAPI_proofs ------------------------
(***************************************************************************)
(* Proofs about ControllerAPI, for any number of conditions and faults:    *)
(* what the status KV and the task KV have of a condition agrees with      *)
(* where its controller is, so that no request in flight, no repeated one  *)
(* and no restart of a controller undoes a final report, starts a finished *)
(* task anew, or takes the task of a condition that is under way.          *)
(***************************************************************************)
EXTENDS ControllerAPI, TLAPS

Final(k)    == StateIsComplete(kv[k].state)
Reporter(c) == call[c]["reporter"]
Ticker(c)   == call[c]["ticker"]

\* What controllers say, and where: a condition's status entry is its own.
EntryInv ==
    /\ \A k \in Keys : kv[k].id \in Conds => kv[k].state \in Outcomes \cup {Active}
    /\ \A c \in Conds : kv[c].id \in {0, c}

\* Conditions come one after the other.
OneAfterOther ==
    \A c, d \in Conds : d < c /\ cond[c] # "none" => StateIsComplete(cond[d])

\* A controller has an outcome from its third report on, unless it restarted.
StepInv(c) ==
    /\ step[c] \in {0, 1, 2, Restarted} => outcome[c] = Active
    /\ step[c] \in {4, 5} => outcome[c] # Active
    /\ cond[c] = "none" => step[c] = 0

\* A request is for the report its controller is at, and one for the task is
\* only under way while the condition is incomplete.
CallInv(c) ==
    /\ Reporter(c).pc # "idle" =>
          /\ step[c] \in 1 .. 4
          /\ c \notin gone
          /\ Reporter(c).key = ReportKey(c)
          /\ Reporter(c).new = Reported(c)
          /\ step[c] >= 3 => outcome[c] # Active
          /\ Reporter(c).key = TaskKey => Incomplete(c)
    /\ Ticker(c).pc # "clearing"
    /\ Ticker(c).new = NoEntry
    /\ Ticker(c).key \in {TaskKey, c}

\* As long as an entry has the revision that a request read, the request puts
\* back no other state of it.
ReadInv(req) ==
    req.pc = "updating" /\ req.current =>
        /\ kv[req.key] # NoEntry
        /\ req.new = NoEntry => req.read.id = kv[req.key].id /\ req.read.state = kv[req.key].state
        /\ req.key = TaskKey /\ req.new # NoEntry => kv[TaskKey].id = req.new.id

\* A final status is what the controller reported, or would before it restarted.
StatusInv(c) ==
    Final(c) => /\ kv[c].id = c
                /\ step[c] \in {4, 5, Restarted}
                /\ step[c] # Restarted => kv[c].state = outcome[c]

\* So is a final task.
TaskInv(c) ==
    Final(TaskKey) /\ kv[TaskKey].id = c =>
        /\ step[c] \in {3, 4, 5, Restarted}
        /\ step[c] # Restarted => kv[TaskKey].state = outcome[c]

\* While the condition is incomplete its final task stays, for the status and
\* for a controller that restarts.
DoneInv(c) ==
    Incomplete(c) =>
        /\ step[c] = 4 => kv[TaskKey].id = c /\ Final(TaskKey)
        /\ Final(c) => kv[TaskKey].id = c /\ kv[TaskKey].state = kv[c].state

\* What the two KVs say of the conditions agrees with their controllers.
SaidInv ==
    /\ EntryInv
    /\ OneAfterOther
    /\ \A c \in Conds : StepInv(c) /\ StatusInv(c) /\ TaskInv(c) /\ DoneInv(c)

ApiInv ==
    /\ TypeOK
    /\ SaidInv
    /\ \A c \in Conds : CallInv(c)
    /\ \A c \in Conds, t \in Threads : ReadInv(call[c][t])

-----------------------------------------------------------------------------
(* Types                                                                   *)

Requests == [pc : {"idle", "checked", "creating", "clearing", "updating"}, key : Keys,
             new : Entries \cup {NoEntry}, current : BOOLEAN, read : Contents]

LEMMA Values ==
  /\ Active \notin Outcomes
  /\ Outcomes \cup {Active} \subseteq States
  /\ 0 \notin Conds /\ TaskKey \notin Conds /\ TaskKey \in Keys /\ Conds \subseteq Keys
  /\ \A k \in Keys : k = TaskKey \/ k \in Conds
  /\ Idle \in Requests /\ NoEntry \in Contents /\ EmptyEntry \in Contents
  /\ NoEntry.id = 0 /\ EmptyEntry.id = 0
  /\ ~StateIsComplete(NoEntry.state) /\ ~StateIsComplete(EmptyEntry.state)
BY OutcomesAssumption, BoundsAssumption
DEF States, Active, Pending, Failed, Succeeded, Conds, Keys, TaskKey, Idle, Requests, Contents,
    Blanks, NoEntry, EmptyEntry, Entry, StateIsComplete

\* An entry without contents has no id, and is not final.
LEMMA Blank ==
  ASSUME NEW e \in Contents
  PROVE  /\ e.id = 0 \/ e.id \in Conds
         /\ e.id = 0 => ~StateIsComplete(e.state)
         /\ \A b \in BOOLEAN : /\ [e EXCEPT !.stale = b] \in Contents
                              /\ [e EXCEPT !.stale = b].id = e.id
                              /\ [e EXCEPT !.stale = b].state = e.state
<1>1. CASE e \in Entries
  BY <1>1, Values DEF Entries, Contents
<1>2. CASE e \in Blanks
  BY <1>2, Values DEF Blanks, Contents
<1> QED
  BY <1>1, <1>2 DEF Contents

\* A report is an entry of its condition.
LEMMA ReportedType ==
  ASSUME TypeOK, NEW c \in Conds
  PROVE  /\ Reported(c) \in Entries /\ Reported(c) # NoEntry /\ Reported(c).id = c
         /\ Reported(c).state = outcome[c]
         /\ ReportKey(c) \in {TaskKey, c}
         /\ \A stale \in BOOLEAN : /\ [Reported(c) EXCEPT !.stale = stale] \in Entries
                                   /\ [Reported(c) EXCEPT !.stale = stale].id = c
                                   /\ [Reported(c) EXCEPT !.stale = stale].state = outcome[c]
BY Values DEF TypeOK, Reported, Entries, Entry, NoEntry, ReportKey

-----------------------------------------------------------------------------
(* What a write of an entry leaves of the other requests                   *)

\* The request is the same, but not current if it has read entry k.
Outdates(k, d, u) ==
    /\ call'[d][u].pc = call[d][u].pc
    /\ call'[d][u].key = call[d][u].key
    /\ call'[d][u].new = call[d][u].new
    /\ call'[d][u].read = call[d][u].read
    /\ call'[d][u].current => call[d][u].current /\ call[d][u].key # k

LEMMA WriteEffect ==
  ASSUME TypeOK, NEW c \in Conds, NEW t \in Threads, NEW k \in Keys, NEW e, NEW next \in Requests,
         Write(k, e, c, t, next)
  PROVE  /\ kv' = [kv EXCEPT ![k] = e]
         /\ call' \in [Conds -> [Threads -> Requests]]
         /\ call'[c][t] = next
         /\ \A d \in Conds, u \in Threads : ~(d = c /\ u = t) => Outdates(k, d, u)
<1>1. \A d \in Conds, u \in Threads : call[d][u] \in Requests
  BY DEF TypeOK, Requests
<1>2. \A r \in Requests : /\ Outdated(r) \in Requests
                          /\ Outdated(r).pc = r.pc /\ Outdated(r).key = r.key
                          /\ Outdated(r).new = r.new /\ Outdated(r).read = r.read
                          /\ ~Outdated(r).current
  BY DEF Requests, Outdated
<1> QED
  BY <1>1, <1>2 DEF Write, Outdates

LEMMA ReadKept ==
  ASSUME TypeOK, NEW k \in Keys, NEW d \in Conds, NEW u \in Threads, Outdates(k, d, u),
         \A j \in Keys : j # k => kv'[j] = kv[j],
         ReadInv(call[d][u])
  PROVE  ReadInv(call[d][u])'
<1>1. call[d][u].key \in Keys
  BY DEF TypeOK
<1> QED
  BY <1>1, Values DEF Outdates, ReadInv

\* A condition's requests keep their invariant while they, and what the
\* controller knows, stay.
LEMMA CallKept ==
  ASSUME NEW d \in Conds, CallInv(d),
         \A u \in Threads : /\ call'[d][u].pc = call[d][u].pc
                            /\ call'[d][u].key = call[d][u].key
                            /\ call'[d][u].new = call[d][u].new,
         step'[d] = step[d], outcome'[d] = outcome[d], d \in gone' => d \in gone,
         cond'[d] = cond[d]
  PROVE  CallInv(d)'
BY DEF CallInv, Threads, Reporter, Ticker, ReportKey, Reported, Incomplete

-----------------------------------------------------------------------------
(* What a write says of the conditions                                     *)

LEMMA Exclusive ==
  ASSUME TypeOK, OneAfterOther, NEW c \in Conds, NEW d \in Conds, Incomplete(c), Incomplete(d)
  PROVE  c = d
BY BoundsAssumption
DEF OneAfterOther, Incomplete, StateIsComplete, Conds, Pending, Active, Failed, Succeeded

\* Entries that keep what they say, or say nothing after, unless they were
\* final, or status entries of complete conditions.
LEMMA Unsaid ==
  ASSUME TypeOK, SaidInv, UNCHANGED <<cond, step, outcome>>,
         \A j \in Keys : \/ kv'[j].id = kv[j].id /\ kv'[j].state = kv[j].state
                         \/ /\ kv'[j].id = 0
                            /\ ~Final(j)'
                            /\ Final(j) => j \in Conds /\ StateIsComplete(cond[j])
  PROVE  SaidInv'
<1>1. EntryInv'
  BY Values DEF SaidInv, EntryInv
<1>2. OneAfterOther'
  BY DEF SaidInv, OneAfterOther
<1>3. ASSUME NEW c \in Conds PROVE StepInv(c)' /\ StatusInv(c)' /\ TaskInv(c)'
  BY <1>3, Values DEF SaidInv, StepInv, StatusInv, TaskInv, Final
<1>4. ASSUME NEW c \in Conds PROVE DoneInv(c)'
  <2> SUFFICES ASSUME Incomplete(c)
               PROVE  /\ step[c] = 4 => kv'[TaskKey].id = c /\ Final(TaskKey)'
                      /\ Final(c)' => kv'[TaskKey].id = c /\ kv'[TaskKey].state = kv'[c].state
    BY DEF DoneInv, Incomplete
  <2>1. ~StateIsComplete(cond[c])
    BY DEF Incomplete, StateIsComplete, Pending, Active, Failed, Succeeded
  <2>2. Final(c)' => Final(c) /\ kv'[c].state = kv[c].state
    BY <2>1, Values DEF Final
  <2>3. step[c] = 4 \/ Final(c) => kv[TaskKey].id = c /\ Final(TaskKey)
    BY DEF SaidInv, DoneInv, Final
  <2>4. Final(TaskKey) => kv'[TaskKey].id = kv[TaskKey].id /\ kv'[TaskKey].state = kv[TaskKey].state
    BY Values DEF TaskKey
  <2> QED
    BY <2>2, <2>3, <2>4 DEF SaidInv, DoneInv, Final
<1> QED
  BY <1>1, <1>2, <1>3, <1>4 DEF SaidInv

\* A report that is written, with or without an answer.
LEMMA ReportSaid ==
  ASSUME TypeOK, SaidInv, NEW c \in Conds, CallInv(c), Reporter(c).pc # "idle",
         NEW e, e.id = c, e.state = outcome[c],
         kv' = [kv EXCEPT ![ReportKey(c)] = e],
         UNCHANGED <<cond, outcome>>,
         step' = step \/ step' = [step EXCEPT ![c] = @ + 1]
  PROVE  SaidInv'
<1>1. /\ step[c] \in 1 .. 4 /\ (step[c] >= 3 => outcome[c] # Active)
      /\ step'[c] \in {step[c], step[c] + 1}
      /\ \A d \in Conds : d # c => step'[d] = step[c] \/ step'[d] = step[d]
      /\ \A d \in Conds : d # c => step'[d] = step[d]
      /\ outcome[c] \in Outcomes \cup {Active}
  BY DEF CallInv, TypeOK
<1>2. /\ step[c] \in {1, 2} => outcome[c] = Active
      /\ ~StateIsComplete(Active)
      /\ cond[c] # "none"
  BY <1>1 DEF SaidInv, StepInv, StateIsComplete, Active, Failed, Succeeded
<1>3. /\ ReportKey(c) \in {TaskKey, c} /\ ReportKey(c) \in Keys
      /\ kv'[ReportKey(c)] = e
      /\ \A j \in Keys : j # ReportKey(c) => kv'[j] = kv[j]
  BY Values DEF ReportKey, TypeOK
<1>4. EntryInv'
  BY <1>1, <1>3, Values DEF SaidInv, EntryInv
<1>5. OneAfterOther'
  BY DEF SaidInv, OneAfterOther
<1>6. ASSUME NEW d \in Conds, d # c
      PROVE  StepInv(d)' /\ StatusInv(d)' /\ TaskInv(d)' /\ DoneInv(d)'
  <2>1. kv'[d] = kv[d] /\ step'[d] = step[d]
    BY <1>1, <1>3, <1>6, Values
  <2>2. StepInv(d)' /\ StatusInv(d)'
    BY <2>1 DEF SaidInv, StepInv, StatusInv, Final
  <2>3. CASE ReportKey(c) = TaskKey
    <3>1. ~Incomplete(d)
      BY <1>6, <2>3, Exclusive DEF SaidInv, CallInv
    <3>2. kv'[TaskKey].id = c
      BY <1>3, <2>3
    <3> QED
      BY <1>6, <2>2, <3>1, <3>2 DEF TaskInv, DoneInv, Incomplete
  <2>4. CASE ReportKey(c) # TaskKey
    <3>1. kv'[TaskKey] = kv[TaskKey]
      BY <1>3, <2>4, Values
    <3> QED
      BY <2>1, <2>2, <3>1 DEF SaidInv, TaskInv, DoneInv, Final, Incomplete
  <2> QED
    BY <2>3, <2>4
<1>7. StepInv(c)'
  BY <1>1, <1>2 DEF SaidInv, StepInv, Restarted
<1>8. CASE ReportKey(c) = TaskKey
  <2>1. step[c] \in {1, 3} /\ kv'[TaskKey] = e /\ kv'[c] = kv[c]
    BY <1>1, <1>3, <1>8, Values DEF ReportKey
  <2>2. ~Final(c) /\ ~Final(c)'
    BY <2>1 DEF SaidInv, StatusInv, Final, Restarted
  <2>3. step[c] = 1 => ~Final(TaskKey)'
    BY <1>2, <2>1 DEF Final
  <2>4. StatusInv(c)' /\ TaskInv(c)'
    BY <1>1, <2>1, <2>2, <2>3 DEF StatusInv, TaskInv, Final, Restarted
  <2>5. step[c] = 3 => Final(TaskKey)'
    BY <1>1, <2>1, OutcomesAssumption DEF Final, StateIsComplete
  <2>6. DoneInv(c)'
    BY <1>1, <2>1, <2>2, <2>5 DEF DoneInv
  <2> QED
    BY <1>4, <1>5, <1>6, <1>7, <2>4, <2>6 DEF SaidInv
<1>9. CASE ReportKey(c) = c
  <2>1. step[c] \in {2, 4} /\ kv'[c] = e /\ kv'[TaskKey] = kv[TaskKey]
    BY <1>1, <1>3, <1>9, Values DEF ReportKey, TaskKey
  <2>2. step[c] = 2 => ~Final(c)' /\ step'[c] # 4
    BY <1>1, <1>2, <2>1 DEF Final
  <2>3. StatusInv(c)'
    BY <1>1, <2>1, <2>2 DEF StatusInv, Final, Restarted
  <2>4. TaskInv(c)'
    BY <1>1, <2>1 DEF SaidInv, TaskInv, Final, Restarted
  <2>5. DoneInv(c)'
    BY <1>1, <2>1, <2>2 DEF SaidInv, DoneInv, TaskInv, Final, Incomplete, Restarted
  <2> QED
    BY <1>4, <1>5, <1>6, <1>7, <2>3, <2>4, <2>5 DEF SaidInv
<1> QED
  BY <1>3, <1>8, <1>9

\* A task that a report clears away is not the final one of an incomplete
\* condition that waits for it.
LEMMA ClearSaid ==
  ASSUME TypeOK, SaidInv, NEW c \in Conds, CallInv(c), Reporter(c).pc # "idle",
         kv' = [kv EXCEPT ![ReportKey(c)] = NoEntry],
         UNCHANGED <<cond, outcome, step>>
  PROVE  SaidInv'
<1>1. step[c] \in 1 .. 4 /\ ReportKey(c) \in {TaskKey, c} /\ ReportKey(c) \in Keys
  BY Values DEF CallInv, ReportKey
<1>2. /\ kv'[ReportKey(c)] = NoEntry
      /\ \A j \in Keys : j # ReportKey(c) => kv'[j] = kv[j]
  BY <1>1 DEF TypeOK
<1>3. EntryInv'
  BY <1>1, <1>2, Values DEF SaidInv, EntryInv
<1>4. OneAfterOther'
  BY DEF SaidInv, OneAfterOther
<1>5. ASSUME NEW d \in Conds PROVE StepInv(d)' /\ StatusInv(d)' /\ TaskInv(d)'
  BY <1>1, <1>2, Values DEF SaidInv, StepInv, StatusInv, TaskInv, Final
<1>6. ASSUME NEW d \in Conds PROVE DoneInv(d)'
  <2>1. CASE ReportKey(c) = TaskKey
    <3>1. step[c] \in {1, 3}
      BY <1>1, <2>1, Values DEF ReportKey
    <3>2. ~Final(c)
      BY <3>1 DEF SaidInv, StatusInv, Restarted
    <3>3. Incomplete(d) => d = c
      BY <2>1, Exclusive DEF SaidInv, CallInv
    <3>4. kv'[c] = kv[c]
      BY <1>2, <2>1, Values
    <3> QED
      BY <3>1, <3>2, <3>3, <3>4 DEF DoneInv, Incomplete, Final
  <2>2. CASE ReportKey(c) # TaskKey
    <3>1. kv'[TaskKey] = kv[TaskKey] /\ (kv'[d] = kv[d] \/ ~Final(d)')
      BY <1>2, <2>2, Values DEF Final
    <3> QED
      BY <3>1 DEF SaidInv, DoneInv, Incomplete, Final
  <2> QED
    BY <2>1, <2>2
<1> QED
  BY <1>3, <1>4, <1>5, <1>6 DEF SaidInv

-----------------------------------------------------------------------------
(* Steps                                                                   *)

LEMMA ApiInit == Init => ApiInv
<1> SUFFICES ASSUME Init PROVE ApiInv
  OBVIOUS
<1> USE Values
<1>1. TypeOK
  <2>1. cond \in [Conds -> States \cup {"none"}]
    BY DEF Init
  <2>2. kv \in [Keys -> Contents]
    BY DEF Init
  <2>3. call \in [Conds -> [Threads -> Requests]]
    BY DEF Init
  <2>4. faults \in 0 .. MaxFaults
    BY BoundsAssumption DEF Init
  <2> QED
    BY <2>1, <2>2, <2>3, <2>4 DEF Init, TypeOK, Requests
<1>2. \A k \in Keys : kv[k] = NoEntry
  BY DEF Init
<1>3. \A c \in Conds, t \in Threads : call[c][t] = Idle
  BY DEF Init
<1>4. SaidInv
  BY <1>2 DEF Init, SaidInv, EntryInv, OneAfterOther, StepInv, StatusInv, TaskInv, DoneInv, Final
<1>5. \A c \in Conds : CallInv(c)
  BY <1>3 DEF CallInv, Reporter, Ticker, Threads, Idle
<1>6. \A c \in Conds, t \in Threads : ReadInv(call[c][t])
  BY <1>3 DEF ReadInv, Idle
<1> QED
  BY <1>1, <1>4, <1>5, <1>6 DEF ApiInv

\* The store: a condition is created, updated or failed.
LEMMA CondStep ==
  ASSUME ApiInv, reported' \subseteq Conds, NEW c \in Conds,
         CreateCondition(c) \/ Commit(c) \/ Reconcile(c)
  PROVE  ApiInv'
<1> DEFINE st == cond'[c]
<1>1. /\ UNCHANGED <<kv, call, step, outcome, gone, faults>>
      /\ cond' = [cond EXCEPT ![c] = st] /\ st \in States
      /\ \A d \in Conds : d # c => cond'[d] = cond[d]
  BY DEF ApiInv, TypeOK, CreateCondition, Commit, Reconcile, Parses, NoFault, States
<1>2. \/ /\ cond[c] = "none" /\ st = Pending
         /\ \A d \in Conds : d < c => StateIsComplete(cond[d])
      \/ Incomplete(c) /\ st = kv[c].state
      \/ Incomplete(c) /\ c \in gone /\ StateIsComplete(st)
  BY DEF ApiInv, TypeOK, CreateCondition, Commit, Reconcile, StateIsComplete
<1>3. TypeOK'
  BY <1>1 DEF ApiInv, TypeOK
<1>4. st # "none" /\ (~StateIsComplete(st) <=> Incomplete(c)')
  BY <1>1 DEF States, StateIsComplete, Incomplete, Pending, Active, Failed, Succeeded
<1>5. ~StateIsComplete(cond[c])
  BY <1>2 DEF StateIsComplete, Incomplete, Pending, Active, Failed, Succeeded
<1>6. OneAfterOther'
  <2> SUFFICES ASSUME NEW a \in Conds, NEW b \in Conds, a < b, cond'[b] # "none"
               PROVE  StateIsComplete(cond'[a])
    BY DEF OneAfterOther
  <2>1. a # b
    BY DEF Conds
  <2>2. a # c \/ cond[b] = "none"
    BY <1>5 DEF ApiInv, SaidInv, OneAfterOther
  <2>3. CASE b # c
    BY <1>1, <2>2, <2>3 DEF ApiInv, SaidInv, OneAfterOther
  <2>4. CASE b = c /\ cond[c] # "none"
    BY <1>1, <2>1, <2>4 DEF ApiInv, SaidInv, OneAfterOther
  <2>5. CASE b = c /\ cond[c] = "none"
    BY <1>1, <1>2, <2>1, <2>5 DEF Incomplete, Pending, Active
  <2> QED
    BY <2>3, <2>4, <2>5
<1>7. cond[c] = "none" => step[c] = 0
  BY DEF ApiInv, SaidInv, StepInv
<1>8. Final(c) => step[c] \in {4, 5, Restarted}
  BY DEF ApiInv, SaidInv, StatusInv
<1>9. SaidInv'
  <2>1. EntryInv'
    BY <1>1 DEF ApiInv, SaidInv, EntryInv
  <2>2. ASSUME NEW d \in Conds PROVE StepInv(d)' /\ StatusInv(d)' /\ TaskInv(d)'
    BY <1>1, <1>4 DEF ApiInv, SaidInv, StepInv, StatusInv, TaskInv, Final
  <2>3. ASSUME NEW d \in Conds, d # c PROVE DoneInv(d)'
    BY <1>1, <2>3 DEF ApiInv, SaidInv, DoneInv, Final, Incomplete
  <2>4. DoneInv(c)'
    <3>1. CASE Incomplete(c)
      BY <1>1, <3>1 DEF ApiInv, SaidInv, DoneInv, Final
    <3>2. CASE cond[c] = "none"
      BY <1>1, <1>7, <1>8, <3>2 DEF DoneInv, Final, Restarted
    <3> QED
      BY <1>2, <3>1, <3>2
  <2> QED
    BY <1>6, <2>1, <2>2, <2>3, <2>4 DEF SaidInv
<1>10. ASSUME NEW d \in Conds PROVE CallInv(d)'
  <2>1. CASE d # c
    BY <1>1, <2>1, CallKept DEF ApiInv
  <2>2. CASE d = c
    <3> SUFFICES ASSUME Reporter(c).pc # "idle", Reporter(c).key = TaskKey PROVE Incomplete(c)'
      BY <1>1, <2>2 DEF ApiInv, CallInv, Reporter, Ticker, ReportKey, Reported
    <3>1. step[c] \in {1, 3} /\ c \notin gone
      BY Values DEF ApiInv, CallInv, ReportKey
    <3> QED
      BY <1>2, <1>4, <1>7, <1>8, <3>1 DEF Final, Restarted
  <2> QED
    BY <2>1, <2>2
<1>11. ASSUME NEW d \in Conds, NEW u \in Threads PROVE ReadInv(call[d][u])'
  BY <1>1 DEF ApiInv, ReadInv
<1> QED
  BY <1>3, <1>9, <1>10, <1>11 DEF ApiInv

\* A controller goes on, gives up, dies or restarts, between two requests of its
\* reporter.
ControllerStep(c) ==
    \/ ConditionGet(c) \/ GiveUp(c) \/ TaskQuery(c) \/ LoseController(c) \/ RestartController(c)
    \/ \E st \in Outcomes : FinishWork(c, st)

LEMMA ControllerStepInv ==
  ASSUME ApiInv, reported' \subseteq Conds, NEW c \in Conds, ControllerStep(c)
  PROVE  ApiInv'
<1>1. /\ UNCHANGED <<cond, kv, call>>
      /\ step' = [step EXCEPT ![c] = step'[c]]
      /\ outcome' = [outcome EXCEPT ![c] = outcome'[c]]
      /\ gone' \in {gone, gone \cup {c}}
      /\ faults' \in 0 .. MaxFaults
  BY BoundsAssumption
  DEF ControllerStep, ConditionGet, GiveUp, TaskQuery, Resume, LoseController, RestartController,
      FinishWork, NoFault, Fault, ApiInv, TypeOK
<1>2. Reporter(c).pc = "idle"
  <2>1. CASE \E st \in Outcomes : FinishWork(c, st)
    BY <2>1 DEF FinishWork, ApiInv, CallInv
  <2>2. CASE ConditionGet(c) \/ TaskQuery(c)
    BY <2>2 DEF ConditionGet, TaskQuery, Restarted, ApiInv, CallInv
  <2>3. CASE GiveUp(c) \/ LoseController(c) \/ RestartController(c)
    BY <2>3 DEF GiveUp, LoseController, RestartController, Idle, Threads, Reporter
  <2> QED
    BY <2>1, <2>2, <2>3 DEF ControllerStep
<1>3. \/ step'[c] = step[c] /\ outcome'[c] = outcome[c]
      \/ step[c] = 0 /\ Incomplete(c) /\ step'[c] = 1 /\ outcome'[c] = outcome[c]
      \/ step[c] = 3 /\ outcome[c] = Active /\ step'[c] = 3 /\ outcome'[c] \in Outcomes
      \/ step[c] \in 1 .. 4 /\ step'[c] = Restarted /\ outcome'[c] = Active
      \/ /\ step[c] = Restarted /\ Incomplete(c)
         /\ \/ GetTask(c) = "none" /\ step'[c] = 1 /\ outcome'[c] = Active
            \/ /\ GetTask(c) = "found" /\ StateIsComplete(kv[TaskKey].state)
               /\ step'[c] = 4 /\ outcome'[c] = kv[TaskKey].state
            \/ /\ GetTask(c) = "found" /\ ~StateIsComplete(kv[TaskKey].state)
               /\ step'[c] = 2 /\ outcome'[c] = Active
  BY DEF ControllerStep, ConditionGet, GiveUp, TaskQuery, Resume, LoseController,
         RestartController, FinishWork, ApiInv, TypeOK
<1>4. GetTask(c) = "found" => kv[TaskKey].id = c
  BY DEF GetTask
<1>5. GetTask(c) = "none" => ~Final(TaskKey)
  BY Values DEF GetTask, Final
<1>6. GetTask(c) = "found" /\ Final(TaskKey) => kv[TaskKey].state \in Outcomes
  <2>1. kv[TaskKey].id = c => kv[TaskKey].state \in Outcomes \cup {Active}
    BY Values DEF ApiInv, SaidInv, EntryInv
  <2> QED
    BY <1>4, <2>1 DEF Final, StateIsComplete, Active, Failed, Succeeded
<1>7. \A d \in Conds : d # c => step'[d] = step[d] /\ outcome'[d] = outcome[d]
  BY <1>1 DEF ApiInv, TypeOK
<1>8. /\ step[c] \in {0, 1, 2, Restarted} => outcome[c] = Active
      /\ step[c] \in {4, 5} => outcome[c] # Active
      /\ step[c] \in 0 .. 6 /\ outcome[c] \in Outcomes \cup {Active}
      /\ cond[c] = "none" => step[c] = 0
      /\ Final(c) => /\ step[c] \in {4, 5, Restarted}
                     /\ step[c] # Restarted => kv[c].state = outcome[c]
      /\ Final(TaskKey) /\ kv[TaskKey].id = c =>
            /\ step[c] \in {3, 4, 5, Restarted}
            /\ step[c] # Restarted => kv[TaskKey].state = outcome[c]
      /\ Incomplete(c) /\ Final(c) => kv[TaskKey].id = c /\ kv[TaskKey].state = kv[c].state
  BY DEF ApiInv, SaidInv, StepInv, StatusInv, TaskInv, DoneInv, TypeOK
<1>9. TypeOK'
  <2>1. step'[c] \in 0 .. 6 /\ outcome'[c] \in Outcomes \cup {Active}
    BY <1>3, <1>6, <1>8 DEF Restarted, Final
  <2>2. step' \in [Conds -> 0 .. 6] /\ outcome' \in [Conds -> Outcomes \cup {Active}]
    BY <1>1, <2>1 DEF ApiInv, TypeOK
  <2> QED
    BY <1>1, <2>2 DEF ApiInv, TypeOK
<1>10. StepInv(c)' /\ StatusInv(c)' /\ TaskInv(c)' /\ DoneInv(c)'
  <2>1. StepInv(c)'
    BY <1>1, <1>3, <1>6, <1>8, Values
    DEF StepInv, Restarted, Final, Incomplete, Pending, Active
  <2>2. StatusInv(c)'
    <3>1. Final(c) => kv[c].id = c
      BY DEF ApiInv, SaidInv, StatusInv
    <3> QED
      BY <1>1, <1>3, <1>4, <1>5, <1>8, <3>1 DEF StatusInv, Restarted, Final
  <2>3. TaskInv(c)'
    BY <1>1, <1>3, <1>5, <1>8, Values DEF TaskInv, Restarted, Final, StateIsComplete, Active, Failed, Succeeded
  <2>4. DoneInv(c)'
    <3>1. Incomplete(c) /\ step[c] = 4 => kv[TaskKey].id = c /\ Final(TaskKey)
      BY DEF ApiInv, SaidInv, DoneInv
    <3> QED
      BY <1>1, <1>3, <1>4, <1>8, <3>1 DEF DoneInv, Final, Incomplete, Restarted
  <2> QED
    BY <2>1, <2>2, <2>3, <2>4
<1>11. ASSUME NEW d \in Conds, d # c
       PROVE  StepInv(d)' /\ StatusInv(d)' /\ TaskInv(d)' /\ DoneInv(d)'
  BY <1>1, <1>7, <1>11
  DEF ApiInv, SaidInv, StepInv, StatusInv, TaskInv, DoneInv, Final, Incomplete
<1>12. SaidInv'
  BY <1>1, <1>10, <1>11 DEF ApiInv, SaidInv, EntryInv, OneAfterOther
<1>13. ASSUME NEW d \in Conds PROVE CallInv(d)'
  <2>1. CASE d # c
    BY <1>1, <1>7, <2>1, CallKept DEF ApiInv
  <2>2. CASE d = c
    BY <1>1, <1>2, <2>2 DEF ApiInv, CallInv, Reporter, Ticker
  <2> QED
    BY <2>1, <2>2
<1>14. ASSUME NEW d \in Conds, NEW u \in Threads PROVE ReadInv(call[d][u])'
  BY <1>1 DEF ApiInv, ReadInv
<1> QED
  BY <1>9, <1>12, <1>13, <1>14 DEF ApiInv

\* A call of a request that changes nothing but the request.
LEMMA CallStepInv ==
  ASSUME ApiInv, reported' \subseteq Conds, NEW c \in Conds, NEW t \in Threads,
         NEW req \in Requests,
         UNCHANGED <<cond, kv, step, outcome, gone>>,
         faults' \in 0 .. MaxFaults,
         call' = [call EXCEPT ![c][t] = req],
         req.pc # "idle" =>
            \/ req.key = call[c][t].key /\ req.new = call[c][t].new /\ call[c][t].pc # "idle"
            \/ /\ t = "reporter" /\ step[c] \in 1 .. 4 /\ c \notin gone
               /\ req.key = ReportKey(c) /\ req.new = Reported(c)
               /\ step[c] >= 3 => outcome[c] # Active
               /\ Incomplete(c)
            \/ t = "ticker" /\ req.key \in {TaskKey, c} /\ req.new = NoEntry,
         t = "ticker" => req.pc # "clearing" /\ req.new = NoEntry /\ req.key \in {TaskKey, c},
         ReadInv(req)
  PROVE  ApiInv'
<1>1. /\ call'[c][t] = req
      /\ \A d \in Conds, u \in Threads : ~(d = c /\ u = t) => call'[d][u] = call[d][u]
      /\ call' \in [Conds -> [Threads -> Requests]]
  BY DEF ApiInv, TypeOK, Requests
<1>2. TypeOK'
  BY <1>1 DEF ApiInv, TypeOK, Requests
<1>3. SaidInv'
  BY DEF ApiInv, SaidInv, EntryInv, OneAfterOther, StepInv, StatusInv, TaskInv, DoneInv, Final,
         Incomplete
<1>4. ASSUME NEW d \in Conds PROVE CallInv(d)'
  <2>1. CASE d # c
    BY <1>1, <2>1, CallKept DEF ApiInv
  <2>2. CASE d = c /\ t = "ticker"
    <3>1. Reporter(c)' = Reporter(c) /\ Ticker(c)' = req
      BY <1>1, <2>2 DEF Reporter, Ticker, Threads
    <3>2. ReportKey(c)' = ReportKey(c) /\ Reported(c)' = Reported(c) /\ Incomplete(c)' = Incomplete(c)
      BY DEF ReportKey, Reported, Incomplete
    <3> QED
      BY <2>2, <3>1, <3>2 DEF ApiInv, CallInv
  <2>3. CASE d = c /\ t = "reporter"
    <3>1. Reporter(c)' = req /\ Ticker(c)' = Ticker(c) /\ Reporter(c) = call[c][t]
      BY <1>1, <2>3 DEF Reporter, Ticker, Threads
    <3>2. ReportKey(c)' = ReportKey(c) /\ Reported(c)' = Reported(c) /\ Incomplete(c)' = Incomplete(c)
      BY DEF ReportKey, Reported, Incomplete
    <3> QED
      BY <2>3, <3>1, <3>2 DEF ApiInv, CallInv
  <2> QED
    BY <2>1, <2>2, <2>3 DEF Threads
<1>5. ASSUME NEW d \in Conds, NEW u \in Threads PROVE ReadInv(call[d][u])'
  BY <1>1 DEF ApiInv, ReadInv
<1> QED
  BY <1>2, <1>3, <1>4, <1>5 DEF ApiInv

LEMMA RequestStepInv ==
  ASSUME ApiInv, reported' \subseteq Conds, NEW c \in Conds,
         Report(c) \/ \E k \in Keys : Tick(c, k)
  PROVE  ApiInv'
<1>1. faults \in 0 .. MaxFaults
  BY DEF ApiInv, TypeOK
<1>2. CASE Report(c)
  <2> DEFINE req == [Idle EXCEPT !.pc = "checked", !.key = ReportKey(c), !.new = Reported(c)]
  <2>1. req \in Requests /\ req.pc = "checked" /\ req.key = ReportKey(c) /\ req.new = Reported(c)
    BY Values, ReportedType DEF ApiInv, Idle, Requests
  <2>2. Incomplete(c)
    BY <1>2, ReportedType DEF ApiInv, Report, Request, Accepts
  <2>3. ReadInv(req)
    BY <2>1 DEF ReadInv
  <2>4. /\ UNCHANGED <<cond, kv, step, outcome, gone, faults>> /\ c \notin gone
        /\ call' = [call EXCEPT ![c]["reporter"] = req]
        /\ step[c] \in 1 .. 4 /\ (step[c] >= 3 => outcome[c] # Active)
    BY <1>2 DEF Report, Request, NoFault
  <2> HIDE DEF req
  <2> QED
    BY <1>1, <2>1, <2>2, <2>3, <2>4, CallStepInv DEF Threads
<1>3. ASSUME NEW k \in Keys, Tick(c, k) PROVE ApiInv'
  <2> DEFINE req == [Idle EXCEPT !.pc = "checked", !.key = k, !.new = NoEntry]
  <2>1. req \in Requests /\ req.pc = "checked" /\ req.key = k /\ req.new = NoEntry
    BY Values DEF Idle, Requests
  <2>2. k \in {TaskKey, c}
    BY <1>3 DEF Tick
  <2>3. ReadInv(req)
    BY <2>1 DEF ReadInv
  <2>4. /\ UNCHANGED <<cond, kv, step, outcome, gone, faults>>
        /\ call' = [call EXCEPT ![c]["ticker"] = req]
    BY <1>3 DEF Tick, Request, NoFault
  <2> HIDE DEF req
  <2> QED
    BY <1>1, <2>1, <2>2, <2>3, <2>4, CallStepInv DEF Threads
<1> QED
  BY <1>2, <1>3

\* Facts about a request under way.
LEMMA UnderWay ==
  ASSUME ApiInv, NEW c \in Conds, NEW t \in Threads
  PROVE  /\ call[c][t] \in Requests
         /\ t = "ticker" => /\ call[c][t].pc # "clearing" /\ call[c][t].new = NoEntry
                            /\ call[c][t].key \in {TaskKey, c}
         /\ t = "reporter" /\ call[c][t].pc # "idle" =>
               /\ call[c][t].key = ReportKey(c) /\ call[c][t].new = Reported(c)
               /\ call[c][t].new # NoEntry
               /\ step[c] \in 1 .. 4
         /\ t \in {"reporter", "ticker"}
         /\ Idle.pc = "idle" /\ Idle.new = NoEntry /\ Idle.key = TaskKey
         /\ ReadInv(Idle)
<1>1. call[c][t] \in Requests /\ t \in {"reporter", "ticker"}
  BY DEF ApiInv, TypeOK, Requests, Threads
<1>2. t = "ticker" => call[c][t] = Ticker(c)
  BY DEF Ticker
<1>3. t = "reporter" => call[c][t] = Reporter(c)
  BY DEF Reporter
<1>4. Reported(c) # NoEntry
  BY ReportedType DEF ApiInv
<1>5. Idle.pc = "idle" /\ Idle.new = NoEntry /\ Idle.key = TaskKey
  BY DEF Idle
<1> QED
  BY <1>1, <1>2, <1>3, <1>4, <1>5 DEF ApiInv, CallInv, ReadInv

\* A request ends without having written anything.
LEMMA RequestEndsInv ==
  ASSUME ApiInv, reported' \subseteq Conds, NEW c \in Conds, NEW t \in Threads,
         UNCHANGED <<cond, kv, step, outcome, gone>>,
         faults' \in 0 .. MaxFaults,
         call' = [call EXCEPT ![c][t] = Idle]
  PROVE  ApiInv'
BY UnderWay, Values, CallStepInv

LEMMA GetStepInv ==
  ASSUME ApiInv, reported' \subseteq Conds, NEW c \in Conds, NEW t \in Threads, Get(c, t)
  PROVE  ApiInv'
<1> DEFINE k == call[c][t].key
           new == call[c][t].new
           req == call'[c][t]
<1>1. /\ UNCHANGED <<cond, kv, step, outcome, gone, faults>>
      /\ faults \in 0 .. MaxFaults
      /\ call[c][t].pc = "checked"
      /\ call[c][t] \in Requests /\ k \in Keys /\ kv[k] \in Contents
  BY UnderWay DEF Get, NoFault, ApiInv, TypeOK, Requests
<1>2. \/ req = Idle
      \/ req = [call[c][t] EXCEPT !.pc = "creating"]
      \/ Clears(k, kv[k], new) /\ req = [call[c][t] EXCEPT !.pc = "clearing"]
      \/ /\ kv[k] # NoEntry /\ Merges(k, kv[k], new)
         /\ req = [call[c][t] EXCEPT !.pc = "updating", !.current = TRUE,
                       !.read = IF new = NoEntry THEN [kv[k] EXCEPT !.stale = FALSE] ELSE NoEntry]
  <2> DEFINE upd == [call[c][t] EXCEPT !.pc = "updating", !.current = TRUE,
                        !.read = IF new = NoEntry THEN [kv[k] EXCEPT !.stale = FALSE] ELSE NoEntry]
  <2>1. \A r : call' = [call EXCEPT ![c][t] = r] => req = r
    BY DEF ApiInv, TypeOK
  <2>2. \/ call' = [call EXCEPT ![c][t] = Idle]
        \/ call' = [call EXCEPT ![c][t] = [call[c][t] EXCEPT !.pc = "creating"]]
        \/ /\ Clears(k, kv[k], new)
           /\ call' = [call EXCEPT ![c][t] = [call[c][t] EXCEPT !.pc = "clearing"]]
        \/ kv[k] # NoEntry /\ Merges(k, kv[k], new) /\ call' = [call EXCEPT ![c][t] = upd]
    BY DEF Get
  <2> HIDE DEF upd
  <2>3. \/ req = Idle
        \/ req = [call[c][t] EXCEPT !.pc = "creating"]
        \/ Clears(k, kv[k], new) /\ req = [call[c][t] EXCEPT !.pc = "clearing"]
        \/ kv[k] # NoEntry /\ Merges(k, kv[k], new) /\ req = upd
    <3> HIDE DEF req, k, new
    <3> QED
      BY <2>1, <2>2
  <2> QED
    BY <2>3 DEF upd
<1>3. call' = [call EXCEPT ![c][t] = req]
  BY DEF Get, ApiInv, TypeOK
<1>4. CASE req = Idle
  BY <1>1, <1>3, <1>4, RequestEndsInv
<1>5. CASE req = [call[c][t] EXCEPT !.pc = "creating"]
  <2>1. req \in Requests /\ req.key = k /\ req.new = new /\ req.pc = "creating"
    BY <1>1, <1>5 DEF Requests
  <2>2. ReadInv(req)
    BY <2>1 DEF ReadInv
  <2> QED
    BY <1>1, <1>3, <2>1, <2>2, UnderWay, CallStepInv
<1>6. CASE Clears(k, kv[k], new) /\ req = [call[c][t] EXCEPT !.pc = "clearing"]
  <2>1. req \in Requests /\ req.key = k /\ req.new = new /\ req.pc = "clearing"
    BY <1>1, <1>6 DEF Requests
  <2>2. ReadInv(req) /\ new # NoEntry
    BY <1>6, <2>1 DEF ReadInv, Clears
  <2> QED
    BY <1>1, <1>3, <2>1, <2>2, UnderWay, CallStepInv
<1>7. CASE /\ kv[k] # NoEntry /\ Merges(k, kv[k], new)
           /\ req = [call[c][t] EXCEPT !.pc = "updating", !.current = TRUE,
                         !.read = IF new = NoEntry THEN [kv[k] EXCEPT !.stale = FALSE] ELSE NoEntry]
  <2>1. \/ new = NoEntry /\ req.read = [kv[k] EXCEPT !.stale = FALSE]
        \/ new # NoEntry /\ req.read = NoEntry
    BY <1>1, <1>7 DEF Requests
  <2>2. req.read \in Contents
    BY <1>1, <2>1, Blank, Values
  <2>3. req \in Requests /\ req.key = k /\ req.new = new /\ req.pc = "updating"
    BY <1>1, <1>7, <2>1, <2>2 DEF Requests
  <2>4. ReadInv(req)
    BY <1>1, <1>7, <2>1, <2>3, Blank DEF ReadInv, Merges
  <2> QED
    BY <1>1, <1>3, <2>3, <2>4, UnderWay, CallStepInv
<1> QED
  BY <1>2, <1>4, <1>5, <1>6, <1>7

\* A call that writes an entry, after which its request ends or is to create
\* the entry it has cleared.
LEMMA WriteStepInv ==
  ASSUME ApiInv, reported' \subseteq Conds, NEW c \in Conds, NEW t \in Threads,
         NEW e \in Contents, NEW next,
         call[c][t].pc # "idle",
         Write(call[c][t].key, e, c, t, next),
         \/ next = Idle
         \/ t = "reporter" /\ next = [call[c][t] EXCEPT !.pc = "creating"],
         UNCHANGED <<cond, outcome, gone>>,
         \/ step' = step
         \/ t = "reporter" /\ next = Idle /\ step' = [step EXCEPT ![c] = @ + 1],
         faults' \in 0 .. MaxFaults,
         SaidInv'
  PROVE  ApiInv'
<1> DEFINE k == call[c][t].key
<1>1. /\ call[c][t] \in Requests /\ k \in Keys
      /\ next \in Requests /\ next.pc \in {"idle", "creating"}
      /\ next.pc = "creating" => next.key = k /\ next.new = call[c][t].new
  BY UnderWay, Values DEF Requests
<1>2. /\ kv' = [kv EXCEPT ![k] = e]
      /\ call' \in [Conds -> [Threads -> Requests]]
      /\ call'[c][t] = next
      /\ \A d \in Conds, u \in Threads : ~(d = c /\ u = t) => Outdates(k, d, u)
  BY <1>1, WriteEffect DEF ApiInv
<1> HIDE DEF k
<1>3. TypeOK'
  <2>1. kv' \in [Keys -> Contents]
    BY <1>1, <1>2 DEF ApiInv, TypeOK
  <2>2. step' \in [Conds -> 0 .. 6]
    <3>1. step \in [Conds -> 0 .. 6]
      BY DEF ApiInv, TypeOK
    <3>2. t = "reporter" => step[c] + 1 \in 0 .. 6
      BY UnderWay
    <3> QED
      BY <3>1, <3>2
  <2> QED
    BY <1>2, <2>1, <2>2 DEF ApiInv, TypeOK, Requests
<1>4. ASSUME NEW d \in Conds PROVE CallInv(d)'
  <2>1. CASE d # c
    <3>1. step'[d] = step[d]
      BY <2>1 DEF ApiInv, TypeOK
    <3> QED
      BY <1>2, <2>1, <3>1, CallKept DEF ApiInv, Outdates
  <2>2. CASE d = c /\ t = "reporter"
    <3>1. /\ Ticker(c)'.pc = Ticker(c).pc /\ Ticker(c)'.key = Ticker(c).key
          /\ Ticker(c)'.new = Ticker(c).new
      BY <1>2, <2>2 DEF Outdates, Ticker, Threads
    <3>2. Reporter(c)' = next
      BY <1>2, <2>2 DEF Reporter
    <3>3. CASE next.pc = "idle"
      BY <2>2, <3>1, <3>2, <3>3 DEF ApiInv, CallInv
    <3>4. CASE next.pc = "creating"
      <4>1. step' = step
        BY <3>4, UnderWay
      <4>2. Reporter(c) = call[c][t] /\ next.key = Reporter(c).key /\ next.new = Reporter(c).new
        BY <1>1, <2>2, <3>4 DEF Reporter, k
      <4>3. ReportKey(c)' = ReportKey(c) /\ Reported(c)' = Reported(c) /\ Incomplete(c)' = Incomplete(c)
        BY <4>1 DEF ReportKey, Reported, Incomplete
      <4> QED
        BY <2>2, <3>1, <3>2, <4>1, <4>2, <4>3 DEF ApiInv, CallInv
    <3> QED
      BY <1>1, <3>3, <3>4
  <2>3. CASE d = c /\ t = "ticker"
    <3>1. /\ Reporter(c)'.pc = Reporter(c).pc /\ Reporter(c)'.key = Reporter(c).key
          /\ Reporter(c)'.new = Reporter(c).new
      BY <1>2, <2>3 DEF Outdates, Reporter, Threads
    <3>2. Ticker(c)' = Idle /\ step' = step
      BY <1>2, <2>3 DEF Ticker
    <3>3. ReportKey(c)' = ReportKey(c) /\ Reported(c)' = Reported(c) /\ Incomplete(c)' = Incomplete(c)
      BY <3>2 DEF ReportKey, Reported, Incomplete
    <3> QED
      BY <2>3, <3>1, <3>2, <3>3, UnderWay DEF ApiInv, CallInv
  <2> QED
    BY <2>1, <2>2, <2>3 DEF Threads
<1>5. ASSUME NEW d \in Conds, NEW u \in Threads PROVE ReadInv(call[d][u])'
  <2>1. CASE d = c /\ u = t
    BY <1>1, <1>2, <2>1 DEF ReadInv
  <2>2. CASE ~(d = c /\ u = t)
    <3>1. \A j \in Keys : j # k => kv'[j] = kv[j]
      BY <1>1, <1>2 DEF ApiInv, TypeOK
    <3> QED
      BY <1>1, <1>2, <2>2, <3>1, ReadKept DEF ApiInv, k
  <2> QED
    BY <2>1, <2>2
<1> QED
  BY <1>3, <1>4, <1>5 DEF ApiInv

\* What an accepted write of a report or a timestamp says.
LEMMA AcceptedInv ==
  ASSUME ApiInv, reported' \subseteq Conds, NEW c \in Conds, NEW t \in Threads,
         NEW e \in Contents,
         call[c][t].pc # "idle",
         Write(call[c][t].key, e, c, t, Idle), Answered(c, t),
         UNCHANGED <<cond, outcome, gone>>,
         t = "reporter" => e.id = c /\ e.state = outcome[c],
         t = "ticker" => \/ kv[call[c][t].key] = NoEntry /\ e = EmptyEntry
                         \/ /\ e.id = kv[call[c][t].key].id
                            /\ e.state = kv[call[c][t].key].state
  PROVE  ApiInv'
<1> DEFINE k == call[c][t].key
<1>1. k \in Keys
  BY UnderWay DEF Requests
<1>2. kv' = [kv EXCEPT ![k] = e]
  BY DEF Write
<1>3. /\ step' = step \/ (t = "reporter" /\ step' = [step EXCEPT ![c] = @ + 1])
      /\ faults' \in 0 .. MaxFaults
  BY BoundsAssumption DEF Answered, NoFault, Fault, ApiInv, TypeOK
<1>4. SaidInv'
  <2>1. CASE t = "reporter"
    <3>1. Reporter(c) = call[c][t] /\ k = ReportKey(c)
      BY <2>1, UnderWay DEF Reporter
    <3>2. kv' = [kv EXCEPT ![ReportKey(c)] = e]
      BY <1>2, <3>1
    <3> QED
      BY <1>3, <2>1, <3>1, <3>2, ReportSaid DEF ApiInv
  <2>2. CASE t = "ticker"
    <3>1. \A j \in Keys : \/ kv'[j].id = kv[j].id /\ kv'[j].state = kv[j].state
                          \/ kv'[j].id = 0 /\ ~Final(j)' /\ ~Final(j)
      BY <1>1, <1>2, <2>2, Values DEF ApiInv, TypeOK, Final
    <3> QED
      BY <1>3, <2>2, <3>1, Unsaid DEF ApiInv
  <2> QED
    BY <2>1, <2>2, UnderWay
<1> HIDE DEF k
<1> QED
  BY <1>3, <1>4, WriteStepInv

LEMMA ClearStepInv ==
  ASSUME ApiInv, reported' \subseteq Conds, NEW c \in Conds, NEW t \in Threads, Clear(c, t)
  PROVE  ApiInv'
<1> DEFINE next == [call[c][t] EXCEPT !.pc = "creating"]
<1>1. /\ call[c][t].pc = "clearing" /\ UNCHANGED <<cond, step, outcome, gone, faults>>
      /\ Write(call[c][t].key, NoEntry, c, t, next)
  BY DEF Clear, NoFault
<1>2. t = "reporter" /\ Reporter(c) = call[c][t] /\ call[c][t].key = ReportKey(c)
  BY <1>1, UnderWay DEF Reporter
<1>3. kv' = [kv EXCEPT ![ReportKey(c)] = NoEntry]
  BY <1>1, <1>2 DEF Write
<1>4. SaidInv'
  BY <1>1, <1>2, <1>3, ClearSaid DEF ApiInv
<1>5. faults' \in 0 .. MaxFaults /\ NoEntry \in Contents
  BY <1>1, Values DEF ApiInv, TypeOK
<1> QED
  BY <1>1, <1>2, <1>4, <1>5, WriteStepInv

LEMMA CreateStepInv ==
  ASSUME ApiInv, reported' \subseteq Conds, NEW c \in Conds, NEW t \in Threads, Create(c, t)
  PROVE  ApiInv'
<1>1. call[c][t].pc = "creating" /\ UNCHANGED <<cond, outcome, gone>>
  BY DEF Create
<1>2. CASE call' = [call EXCEPT ![c][t] = Idle] /\ NoFault /\ UNCHANGED <<kv, step>>
  BY <1>1, <1>2, RequestEndsInv DEF NoFault, ApiInv, TypeOK
<1>3. ASSUME kv[call[c][t].key] = NoEntry, NEW stale \in BOOLEAN,
             Write(call[c][t].key,
                   IF call[c][t].new = NoEntry THEN EmptyEntry
                                               ELSE [call[c][t].new EXCEPT !.stale = stale],
                   c, t, Idle),
             Answered(c, t)
      PROVE  ApiInv'
  <2>1. CASE t = "ticker"
    <3>1. Write(call[c][t].key, EmptyEntry, c, t, Idle)
      BY <1>3, <2>1, UnderWay
    <3> QED
      BY <1>1, <1>3, <2>1, <3>1, Values, AcceptedInv
  <2>2. CASE t = "reporter"
    <3> DEFINE e == [Reported(c) EXCEPT !.stale = stale]
    <3>1. Write(call[c][t].key, e, c, t, Idle)
      BY <1>1, <1>3, <2>2, UnderWay
    <3>2. e \in Contents /\ e.id = c /\ e.state = outcome[c]
      BY ReportedType DEF ApiInv, Contents
    <3> HIDE DEF e
    <3> QED
      BY <1>1, <1>3, <2>2, <3>1, <3>2, AcceptedInv
  <2> QED
    BY <2>1, <2>2, UnderWay
<1> QED
  BY <1>2, <1>3 DEF Create

LEMMA UpdateStepInv ==
  ASSUME ApiInv, reported' \subseteq Conds, NEW c \in Conds, NEW t \in Threads, Update(c, t)
  PROVE  ApiInv'
<1>1. call[c][t].pc = "updating" /\ UNCHANGED <<cond, outcome, gone>>
  BY DEF Update
<1>2. CASE call' = [call EXCEPT ![c][t] = Idle] /\ NoFault /\ UNCHANGED <<kv, step>>
  BY <1>1, <1>2, RequestEndsInv DEF NoFault, ApiInv, TypeOK
<1>3. ASSUME call[c][t].current,
             Write(call[c][t].key,
                   IF call[c][t].new = NoEntry THEN call[c][t].read ELSE call[c][t].new,
                   c, t, Idle),
             Answered(c, t)
      PROVE  ApiInv'
  <2>1. CASE t = "ticker"
    <3>1. Write(call[c][t].key, call[c][t].read, c, t, Idle)
      BY <1>3, <2>1, UnderWay
    <3>2. /\ call[c][t].read \in Contents
          /\ call[c][t].read.id = kv[call[c][t].key].id
          /\ call[c][t].read.state = kv[call[c][t].key].state
      BY <1>1, <1>3, <2>1, UnderWay DEF ApiInv, ReadInv, Requests
    <3> QED
      BY <1>1, <1>3, <2>1, <3>1, <3>2, AcceptedInv
  <2>2. CASE t = "reporter"
    <3>1. Write(call[c][t].key, Reported(c), c, t, Idle)
      BY <1>1, <1>3, <2>2, UnderWay
    <3>2. Reported(c) \in Contents /\ Reported(c).id = c /\ Reported(c).state = outcome[c]
      BY ReportedType DEF ApiInv, Contents
    <3> QED
      BY <1>1, <1>3, <2>2, <3>1, <3>2, AcceptedInv
  <2> QED
    BY <2>1, <2>2, UnderWay
<1> QED
  BY <1>2, <1>3 DEF Update

LEMMA CallFailsInv ==
  ASSUME ApiInv, reported' \subseteq Conds, NEW c \in Conds, NEW t \in Threads, CallFails(c, t)
  PROVE  ApiInv'
<1>1. faults' \in 0 .. MaxFaults
  BY BoundsAssumption DEF CallFails, Fault, ApiInv, TypeOK
<1> QED
  BY <1>1, RequestEndsInv DEF CallFails

\* The orchestrator deletes the status entry of a complete condition.
LEMMA ForgetStepInv ==
  ASSUME ApiInv, reported' \subseteq Conds, NEW c \in Conds, Forget(c)
  PROVE  ApiInv'
<1>1. /\ StateIsComplete(cond[c]) /\ kv' = [kv EXCEPT ![c] = NoEntry]
      /\ UNCHANGED <<cond, step, outcome, gone, faults>>
  BY DEF Forget, NoFault
<1>2. \A d \in Conds, u \in Threads : call[d][u] \in Requests /\ Outdates(c, d, u)
  <2>1. \A d \in Conds, u \in Threads : call[d][u] \in Requests
    BY DEF ApiInv, TypeOK, Requests
  <2>2. \A r \in Requests : /\ Outdated(r).pc = r.pc /\ Outdated(r).key = r.key
                            /\ Outdated(r).new = r.new /\ Outdated(r).read = r.read
                            /\ ~Outdated(r).current
    BY DEF Requests, Outdated
  <2> QED
    BY <2>1, <2>2 DEF Forget, Outdates
<1>3. call' \in [Conds -> [Threads -> Requests]]
  <2>1. \A r \in Requests : Outdated(r) \in Requests
    BY DEF Requests, Outdated
  <2> QED
    BY <1>2, <2>1 DEF Forget
<1>4. c \in Keys /\ \A j \in Keys : j # c => kv'[j] = kv[j]
  BY <1>1, Values DEF ApiInv, TypeOK
<1>5. TypeOK'
  BY <1>1, <1>3, <1>4, Values DEF ApiInv, TypeOK, Requests
<1>6. SaidInv'
  <2>1. \A j \in Keys : \/ kv'[j].id = kv[j].id /\ kv'[j].state = kv[j].state
                        \/ kv'[j].id = 0 /\ ~Final(j)' /\ j = c
    BY <1>1, <1>4, Values DEF Final, ApiInv, TypeOK
  <2> QED
    BY <1>1, <2>1, Unsaid DEF ApiInv
<1>7. ASSUME NEW d \in Conds PROVE CallInv(d)'
  BY <1>1, <1>2, CallKept DEF ApiInv, Outdates
<1>8. ASSUME NEW d \in Conds, NEW u \in Threads PROVE ReadInv(call[d][u])'
  BY <1>2, <1>4, ReadKept DEF ApiInv
<1> QED
  BY <1>5, <1>6, <1>7, <1>8 DEF ApiInv

LEMMA GrowStaleInv ==
  ASSUME ApiInv, reported' \subseteq Conds, NEW k \in Keys, GrowStale(k)
  PROVE  ApiInv'
<1>1. /\ kv[k] # NoEntry /\ kv' = [kv EXCEPT ![k].stale = TRUE]
      /\ UNCHANGED <<cond, call, step, outcome, gone, faults>>
  BY DEF GrowStale, NoFault
<1> DEFINE e == [kv[k] EXCEPT !.stale = TRUE]
<1>2. e \in Contents /\ e.id = kv[k].id /\ e.state = kv[k].state /\ e.stale = TRUE
  <2>1. kv[k] \in Contents
    BY DEF ApiInv, TypeOK
  <2> QED
    BY <2>1, Blank DEF Contents, Entries, Blanks
<1>3. kv' = [kv EXCEPT ![k] = e]
  BY <1>1 DEF ApiInv, TypeOK
<1>4. e # NoEntry
  BY <1>2 DEF NoEntry, Entry
<1> HIDE DEF e
<1>5. \A j \in Keys : /\ kv'[j].id = kv[j].id /\ kv'[j].state = kv[j].state
                      /\ kv[j] # NoEntry => kv'[j] # NoEntry
  BY <1>2, <1>3, <1>4 DEF ApiInv, TypeOK
<1>6. TypeOK'
  BY <1>1, <1>2, <1>3 DEF ApiInv, TypeOK
<1>7. SaidInv'
  BY <1>1, <1>5, Unsaid DEF ApiInv
<1>8. ASSUME NEW d \in Conds PROVE CallInv(d)'
  BY <1>1, CallKept DEF ApiInv
<1>9. ASSUME NEW d \in Conds, NEW u \in Threads PROVE ReadInv(call[d][u])'
  <2>1. call[d][u].key \in Keys
    BY UnderWay DEF Requests
  <2> QED
    BY <1>1, <1>5, <2>1, Values DEF ApiInv, ReadInv
<1> QED
  BY <1>6, <1>7, <1>8, <1>9 DEF ApiInv

-----------------------------------------------------------------------------
(* Theorems                                                                *)

LEMMA ApiStep == ApiInv /\ [Next]_vars => ApiInv'
<1> SUFFICES ASSUME ApiInv, [Next]_vars PROVE ApiInv'
  OBVIOUS
<1>1. CASE UNCHANGED vars
  <2>1. UNCHANGED <<cond, kv, call, step, outcome, gone, faults, reported>>
    BY <1>1 DEF vars, apiVars
  <2>2. TypeOK'
    BY <2>1 DEF ApiInv, TypeOK
  <2>3. SaidInv'
    BY <2>1, Unsaid DEF ApiInv
  <2>4. ASSUME NEW d \in Conds PROVE CallInv(d)'
    BY <2>1, CallKept DEF ApiInv
  <2>5. ASSUME NEW d \in Conds, NEW u \in Threads PROVE ReadInv(call[d][u])'
    BY <2>1 DEF ApiInv, ReadInv
  <2> QED
    BY <2>2, <2>3, <2>4, <2>5 DEF ApiInv
<1>2. CASE Next
  <2>1. reported' \subseteq Conds
    BY <1>2 DEF Next, ApiInv, TypeOK
  <2>2. ASSUME NEW c \in Conds, CreateCondition(c) \/ Commit(c) \/ Reconcile(c) PROVE ApiInv'
    BY <2>1, <2>2, CondStep
  <2>3. ASSUME NEW c \in Conds, ControllerStep(c) PROVE ApiInv'
    BY <2>1, <2>3, ControllerStepInv
  <2>4. ASSUME NEW c \in Conds, Report(c) \/ \E k \in Keys : Tick(c, k) PROVE ApiInv'
    BY <2>1, <2>4, RequestStepInv
  <2>5. ASSUME NEW c \in Conds, NEW t \in Threads,
               Get(c, t) \/ Clear(c, t) \/ Create(c, t) \/ Update(c, t) \/ CallFails(c, t)
        PROVE  ApiInv'
    BY <2>1, <2>5, GetStepInv, ClearStepInv, CreateStepInv, UpdateStepInv, CallFailsInv
  <2>6. ASSUME NEW c \in Conds, Forget(c) PROVE ApiInv'
    BY <2>1, <2>6, ForgetStepInv
  <2>7. ASSUME NEW k \in Keys, GrowStale(k) PROVE ApiInv'
    BY <2>1, <2>7, GrowStaleInv
  <2> QED
    BY <1>2, <2>2, <2>3, <2>4, <2>5, <2>6, <2>7 DEF Next, ThreadStep, ControllerStep
<1> QED
  BY <1>1, <1>2

LEMMA ApiInvariant == Spec => []ApiInv
<1> QED
  BY ApiInit, ApiStep, PTL DEF Spec

\* Entries, requests and controllers hold what they can: no entry with the id of
\* a condition lacks a state, whatever is written in which order.
THEOREM ApiTypeCorrect == Spec => []TypeOK
<1>1. ApiInv => TypeOK
  BY DEF ApiInv
<1> QED
  BY <1>1, ApiInvariant, PTL

\* With any number of conditions and faults, in either KV, a final report is
\* never overwritten by another state or another condition's entry.
THEOREM FinalReportsStand == Spec => FinalReportStands
<1> DEFINE Stands(k) == Final(k) /\ kv'[k] # NoEntry =>
                           kv'[k].id = kv[k].id /\ kv'[k].state = kv[k].state
<1>1. ASSUME ApiInv, Next, NEW k \in Keys PROVE Stands(k)
  <2>1. CASE kv'[k] = kv[k]
    BY <2>1
  <2>2. ASSUME NEW c \in Conds, Forget(c) PROVE Stands(k)
    BY <1>1, <2>2 DEF Forget, ApiInv, TypeOK
  <2>3. ASSUME NEW j \in Keys, GrowStale(j) PROVE Stands(k)
    <3>1. kv[k] \in Contents
      BY <1>1 DEF ApiInv, TypeOK
    <3>2. kv'[k] = kv[k] \/ kv'[k] = [kv[k] EXCEPT !.stale = TRUE]
      BY <1>1, <2>3 DEF GrowStale, ApiInv, TypeOK
    <3> QED
      BY <3>1, <3>2, Blank
  <2>4. ASSUME NEW c \in Conds, NEW t \in Threads, Clear(c, t) \/ Create(c, t) PROVE Stands(k)
    <3>1. call[c][t].key \in Keys
      BY <1>1, UnderWay DEF Requests
    <3>2. kv' = kv \/ kv[call[c][t].key] = NoEntry \/ kv' = [kv EXCEPT ![call[c][t].key] = NoEntry]
      BY <2>4 DEF Clear, Create, Write
    <3>3. \A j \in Keys : j # call[c][t].key => kv'[j] = kv[j]
      BY <1>1, <2>4 DEF Clear, Create, Write, ApiInv, TypeOK
    <3> QED
      BY <1>1, <3>1, <3>2, <3>3, Values DEF Final, ApiInv, TypeOK
  <2>5. ASSUME NEW c \in Conds, NEW t \in Threads, Update(c, t), call[c][t].current,
               k = call[c][t].key, Final(k)
        PROVE  kv'[k].id = kv[k].id /\ kv'[k].state = kv[k].state
    <3>1. /\ call[c][t].pc = "updating"
          /\ kv'[k] = IF call[c][t].new = NoEntry THEN call[c][t].read ELSE call[c][t].new
      BY <1>1, <2>5 DEF Update, Write, ApiInv, TypeOK
    <3>2. CASE call[c][t].new = NoEntry
      BY <1>1, <2>5, <3>1, <3>2 DEF ApiInv, ReadInv
    <3>3. CASE call[c][t].new # NoEntry
      <4>1. /\ t = "reporter" /\ k = ReportKey(c) /\ call[c][t].new = Reported(c)
            /\ step[c] \in 1 .. 4 /\ kv'[k] = Reported(c)
        BY <1>1, <2>5, <3>1, <3>3, UnderWay
      <4>2. Reported(c).id = c /\ Reported(c).state = outcome[c]
        BY <1>1, ReportedType DEF ApiInv
      <4>3. CASE step[c] \in {1, 3}
        <5>1. k = TaskKey /\ kv[TaskKey].id = c
          BY <1>1, <2>5, <3>1, <3>3, <4>1, <4>2, <4>3 DEF ReportKey, ApiInv, ReadInv
        <5> QED
          BY <1>1, <2>5, <4>1, <4>2, <4>3, <5>1 DEF ApiInv, SaidInv, TaskInv, Restarted
      <4>4. CASE step[c] \in {2, 4}
        <5>1. k = c
          BY <4>1, <4>4 DEF ReportKey
        <5> QED
          BY <1>1, <2>5, <4>1, <4>2, <4>4, <5>1 DEF ApiInv, SaidInv, StatusInv, Restarted
      <4> QED
        BY <4>1, <4>3, <4>4
    <3> QED
      BY <3>2, <3>3
  <2>6. ASSUME NEW c \in Conds, NEW t \in Threads, Update(c, t) PROVE Stands(k)
    <3>1. call[c][t].key \in Keys
      BY <1>1, UnderWay DEF Requests
    <3>2. kv' = kv \/ (call[c][t].current /\ \A j \in Keys : j # call[c][t].key => kv'[j] = kv[j])
      BY <1>1, <2>6 DEF Update, Write, ApiInv, TypeOK
    <3> QED
      BY <2>5, <2>6, <3>1, <3>2
  <2>7. ASSUME NEW c \in Conds,
               \/ CreateCondition(c) \/ Commit(c) \/ Reconcile(c) \/ LoseController(c)
               \/ RestartController(c) \/ ConditionGet(c) \/ GiveUp(c) \/ TaskQuery(c)
               \/ \E st \in Outcomes : FinishWork(c, st)
        PROVE  kv' = kv
    BY <2>7
    DEF CreateCondition, Commit, Reconcile, LoseController, RestartController, ConditionGet,
        GiveUp, TaskQuery, FinishWork
  <2>8. ASSUME NEW c \in Conds, Report(c) \/ \E j \in Keys : Tick(c, j) PROVE kv' = kv
    BY <2>8, Zenon DEF Report, Tick, Request
  <2>9. ASSUME NEW c \in Conds, NEW t \in Threads, Get(c, t) \/ CallFails(c, t) PROVE kv' = kv
    BY <2>9 DEF Get, CallFails
  <2> HIDE DEF Stands
  <2> QED
    BY <1>1, <2>1, <2>2, <2>3, <2>4, <2>6, <2>7, <2>8, <2>9 DEF Next, ThreadStep
<1>2. ApiInv /\ [Next]_vars => [\A k \in Keys : Stands(k)]_vars
  BY <1>1
<1>3. [\A k \in Keys : Stands(k)]_vars =>
        [\A k \in Keys : StateIsComplete(kv[k].state) /\ kv'[k] # NoEntry =>
             kv'[k].id = kv[k].id /\ kv'[k].state = kv[k].state]_vars
  BY DEF Final
<1> QED
  BY <1>2, <1>3, ApiInvariant, PTL DEF Spec, FinalReportStands

-----------------------------------------------------------------------------
(* The task entry: what a controller has said there is not started anew,   *)
(* and what it is working on is not cleared away                           *)

Task == kv[TaskKey]

\* What it takes to forget that a task is done: the answer to its final report
\* is lost, the repeated report has cleared the entry when its Create fails,
\* and then the controller restarts.
Forgetting == {"lost_answer", "kv_error", "controller_restarts"}
Forgotten  == Forgetting \subseteq Faults /\ faults >= 3

\* Of a condition whose final report the task KV has had it has no other one,
\* and the controller is past its work; when the entry is gone, the controller
\* is about to create it again.
OnceInv(c) ==
    \/ Forgotten
    \/ /\ Task.id = c => Final(TaskKey)
       /\ step[c] \in {3, 4, 5, Restarted}
       /\ Incomplete(c) => Task.id \in {0, c}
       /\ step[c] = 3 => outcome[c] # Active /\ "lost_answer" \in Faults /\ faults >= 1
       /\ step[c] = 3 /\ Incomplete(c) /\ Task = NoEntry /\ Reporter(c).pc # "creating" =>
             "kv_error" \in Faults /\ faults >= 2
       /\ step[c] = Restarted /\ Incomplete(c) => Task # NoEntry

\* The ticker starts after the first report of the task, whose entry is from
\* then on this condition's, or blank.
TickInv(c) ==
    /\ step[c] = 0 => Ticker(c).pc = "idle"
    /\ Incomplete(c) /\ (step[c] \in 2 .. 5 \/ Ticker(c).pc # "idle") => Task.id \in {0, c}

\* A report clears the task entry only, and no unfinished task of its own.
ClearInv(c) ==
    Reporter(c).pc = "clearing" =>
        Reporter(c).key = TaskKey /\ (Task.id = c => Final(TaskKey))

Dead(c) ==
    "controller_dies" \in Faults /\ c \in gone /\ \A t \in Threads : call[c][t].pc = "idle"

\* An unfinished task that nobody works on is left by a controller that died.
LeftInv(c) ==
    Task.id = c =>
        /\ cond[c] # "none"
        /\ ~Final(TaskKey) /\ (Incomplete(c) => c \in gone) => Dead(c)

\* Without deaths, or with two conditions, no late timestamp is for the task of
\* a controller that died.
NoLateTicks == "controller_dies" \notin Faults \/ Last <= 2

\* A report clears another condition's unfinished task only while it is stale.
StaleInv(c) ==
    Reporter(c).pc = "clearing" /\ Task.id \in Conds /\ ~Final(TaskKey) => Task.stale

KeptInv ==
    /\ Task.state = NoEntry.state => Task = NoEntry
    /\ \A c \in Conds :
          /\ TaskDone(c) => c \in reported
          /\ c \in reported => OnceInv(c)
          /\ TickInv(c) /\ ClearInv(c) /\ LeftInv(c)
          /\ NoLateTicks => StaleInv(c)

LEMMA KeptInit == Init => KeptInv
<1> SUFFICES ASSUME Init PROVE KeptInv
  OBVIOUS
<1>1. Task = NoEntry /\ reported = {} /\ \A c \in Conds : step[c] = 0
  BY Values DEF Init, Task
<1>2. \A c \in Conds : Reporter(c).pc = "idle" /\ Ticker(c).pc = "idle"
  BY DEF Init, Idle, Reporter, Ticker, Threads
<1> QED
  BY <1>1, <1>2, Values DEF KeptInv, TickInv, ClearInv, LeftInv, StaleInv, TaskDone, Task, Final

\* What the KV had of a final report is known when a step leaves the entry.
LEMMA ReportedSame ==
  ASSUME KeptInv, Task'.id = Task.id \/ Task'.id = 0, Task'.state = Task.state \/ Task'.id = 0,
         reported' = reported \cup {c \in Conds : TaskDone(c)'}
  PROVE  /\ reported' = reported
         /\ \A c \in Conds : TaskDone(c)' => c \in reported
<1>1. \A c \in Conds : TaskDone(c)' => TaskDone(c)
  BY Values DEF TaskDone, Task
<1> QED
  BY <1>1 DEF KeptInv

\* The store: a condition is created, updated or failed.
LEMMA StoreKept ==
  ASSUME ApiInv, KeptInv, reported' = reported \cup {d \in Conds : TaskDone(d)'},
         NEW c \in Conds, CreateCondition(c) \/ Commit(c) \/ Reconcile(c)
  PROVE  KeptInv'
<1>1. /\ UNCHANGED <<kv, call, step, outcome, gone, faults>>
      /\ \A d \in Conds : d # c => cond'[d] = cond[d]
      /\ cond'[c] # "none"
  BY DEF ApiInv, TypeOK, CreateCondition, Commit, Reconcile, NoFault, Parses, States, Pending,
         Active, Failed, Succeeded
<1>2. \/ cond[c] = "none"
      \/ Incomplete(c) /\ cond'[c] = kv[c].state
      \/ Incomplete(c) /\ c \in gone
  BY DEF CreateCondition, Commit, Reconcile, ApiInv, TypeOK
<1>3. Task' = Task /\ UNCHANGED <<reported, Final(TaskKey)>>
      /\ \A d \in Conds : TaskDone(d)' => d \in reported
  BY <1>1, ReportedSame DEF Task, Final
<1>4. cond[c] = "none" => step[c] = 0 /\ Task.id # c
  BY DEF ApiInv, SaidInv, StepInv, KeptInv, LeftInv
<1>5. \A d \in Conds : d # c => Incomplete(d)' = Incomplete(d)
  BY <1>1 DEF Incomplete
<1>6. cond[c] # "none" => (Incomplete(c)' => Incomplete(c))
  BY <1>2
<1>7. \A d \in Conds : Reporter(d)' = Reporter(d) /\ Ticker(d)' = Ticker(d) /\ Dead(d)' = Dead(d)
  BY <1>1 DEF Reporter, Ticker, Dead
<1>8. ASSUME NEW d \in Conds, d \in reported PROVE OnceInv(d)'
  <2>1. OnceInv(d)
    BY <1>8 DEF KeptInv
  <2>2. step[d] # 0 \/ Forgotten
    BY <2>1 DEF OnceInv, Restarted
  <2>3. Forgotten \/ (Incomplete(d)' => Incomplete(d))
    BY <1>4, <1>5, <1>6, <2>2
  <2> QED
    BY <1>1, <1>3, <1>7, <2>1, <2>3 DEF OnceInv, Forgotten
<1>9. ASSUME NEW d \in Conds PROVE TickInv(d)'
  BY <1>1, <1>3, <1>4, <1>5, <1>6, <1>7 DEF KeptInv, TickInv
<1>10. ASSUME NEW d \in Conds PROVE ClearInv(d)' /\ (NoLateTicks => StaleInv(d)')
  BY <1>3, <1>7 DEF KeptInv, ClearInv, StaleInv
<1>11. ASSUME NEW d \in Conds PROVE LeftInv(d)'
  <2>1. CASE d # c
    BY <1>1, <1>3, <1>5, <1>7, <2>1 DEF KeptInv, LeftInv
  <2>2. CASE d = c
    <3> SUFFICES ASSUME Task.id = c, ~Final(TaskKey), Incomplete(c)' => c \in gone PROVE Dead(c)
      BY <1>1, <1>3, <1>7, <2>2 DEF LeftInv
    <3>1. Incomplete(c) => c \in gone \/ cond'[c] = kv[c].state
      BY <1>2, <1>4
    <3>2. Incomplete(c) /\ cond'[c] = kv[c].state /\ ~Incomplete(c)' => Final(c)
      BY DEF Incomplete, Final, StateIsComplete, Pending, Active, Failed, Succeeded, ApiInv, TypeOK,
             Commit, Reconcile, CreateCondition, Parses, States
    <3>3. Incomplete(c) => ~Final(c)
      BY DEF ApiInv, SaidInv, DoneInv, Final
    <3> QED
      BY <3>1, <3>2, <3>3 DEF KeptInv, LeftInv
  <2> QED
    BY <2>1, <2>2
<1> QED
  BY <1>3, <1>8, <1>9, <1>10, <1>11 DEF KeptInv, NoLateTicks

\* A controller goes on, gives up, dies or restarts.
LEMMA ControllerKept ==
  ASSUME ApiInv, KeptInv, reported' = reported \cup {d \in Conds : TaskDone(d)'},
         NEW c \in Conds, ControllerStep(c)
  PROVE  KeptInv'
<1>1. /\ UNCHANGED <<cond, kv, call>>
      /\ \A d \in Conds : d # c => /\ step'[d] = step[d] /\ outcome'[d] = outcome[d]
                                   /\ d \in gone' <=> d \in gone
      /\ gone' \in {gone, gone \cup {c}}
      /\ faults' >= faults
  BY DEF ControllerStep, ConditionGet, GiveUp, TaskQuery, Resume, LoseController,
         RestartController, FinishWork, NoFault, Fault, ApiInv, TypeOK
<1>2. Task' = Task /\ UNCHANGED <<reported, Final(TaskKey)>>
      /\ \A d \in Conds : TaskDone(d)' => d \in reported
  BY <1>1, ReportedSame DEF Task, Final
<1>3. \A d \in Conds : /\ Incomplete(d)' = Incomplete(d)
                       /\ Reporter(d)' = Reporter(d) /\ Ticker(d)' = Ticker(d)
  BY <1>1 DEF Incomplete, Reporter, Ticker
<1>4. faults \in Nat /\ faults' \in Nat /\ (Forgotten => Forgotten')
  <2>1. faults \in Nat
    BY BoundsAssumption DEF ApiInv, TypeOK
  <2>2. faults' \in {faults, faults + 1}
    BY DEF ControllerStep, ConditionGet, GiveUp, TaskQuery, LoseController, RestartController,
           FinishWork, NoFault, Fault
  <2> QED
    BY <1>1, <2>1, <2>2 DEF Forgotten
<1>5. \/ step'[c] = step[c] /\ outcome'[c] = outcome[c]
      \/ step[c] = 0 /\ step'[c] = 1 /\ outcome'[c] = outcome[c]
      \/ step[c] = 3 /\ outcome[c] = Active /\ step'[c] = 3
      \/ /\ step[c] \in 1 .. 4 /\ step'[c] = Restarted /\ Reporter(c).pc = "idle"
         /\ "controller_restarts" \in Faults /\ faults' = faults + 1
      \/ step[c] = Restarted /\ Incomplete(c) /\ Task = NoEntry /\ step'[c] = 1
      \/ step[c] = Restarted /\ Task.id = c /\ Final(TaskKey) /\ step'[c] = 4
      \/ step[c] = Restarted /\ Task.id = c /\ ~Final(TaskKey) /\ step'[c] = 2
  <2>1. RestartController(c) => Reporter(c).pc = "idle"
    BY DEF RestartController, Reporter, Idle
  <2> QED
    BY <2>1 DEF ControllerStep, ConditionGet, GiveUp, TaskQuery, GetTask, Resume, LoseController,
         RestartController, FinishWork, Fault, ApiInv, TypeOK, Task, Final
<1>6. ASSUME NEW d \in Conds, d \in reported PROVE OnceInv(d)'
  <2>1. OnceInv(d)
    BY <1>6 DEF KeptInv
  <2>2. CASE Forgotten
    BY <1>4, <2>2 DEF OnceInv
  <2>3. CASE ~Forgotten /\ step'[d] = step[d] /\ outcome'[d] = outcome[d]
    BY <1>1, <1>2, <1>3, <1>4, <2>1, <2>3 DEF OnceInv, Task
  <2>4. CASE /\ ~Forgotten /\ d = c
             /\ step[c] \in 1 .. 4 /\ step'[c] = Restarted /\ Reporter(c).pc = "idle"
             /\ "controller_restarts" \in Faults /\ faults' = faults + 1
    <3>1. CASE step[c] = 3 /\ Incomplete(c) /\ Task = NoEntry
      BY <1>4, <2>1, <2>4, <3>1 DEF OnceInv, Forgetting, Forgotten
    <3>2. CASE step[c] = 4 \/ ~Incomplete(c) \/ Task # NoEntry
      <4>1. step[c] = 4 /\ Incomplete(c) => Task # NoEntry
        BY Values DEF ApiInv, SaidInv, DoneInv, Task
      <4> QED
        BY <1>2, <1>3, <2>1, <2>4, <3>2, <4>1 DEF OnceInv, Restarted
    <3> QED
      BY <2>1, <2>4, <3>1, <3>2 DEF OnceInv
  <2>5. CASE ~Forgotten /\ d = c /\ step[c] = Restarted
             /\ (\/ Incomplete(c) /\ Task = NoEntry /\ step'[c] = 1
                 \/ Task.id = c /\ Final(TaskKey) /\ step'[c] = 4
                 \/ Task.id = c /\ ~Final(TaskKey) /\ step'[c] = 2)
    BY <1>2, <1>3, <2>1, <2>5 DEF OnceInv, Restarted
  <2>6. step[c] # 0 \/ Forgotten \/ d # c
    BY <2>1 DEF OnceInv, Restarted
  <2>7. ~(step[c] = 3 /\ outcome[c] = Active) \/ Forgotten \/ d # c
    BY <2>1 DEF OnceInv
  <2> QED
    BY <1>1, <1>5, <2>2, <2>3, <2>4, <2>5, <2>6, <2>7
<1>7. ASSUME NEW d \in Conds PROVE TickInv(d)'
  <2>1. TickInv(d) /\ step[d] \in 0 .. 6
    BY DEF KeptInv, ApiInv, TypeOK
  <2>2. CASE step'[d] = step[d]
    BY <1>2, <1>3, <2>1, <2>2 DEF TickInv
  <2>3. CASE d = c /\ step'[c] # step[c]
    <3>1. step'[c] # 0
      BY <1>5, <2>1, <2>3 DEF Restarted
    <3>2. step'[c] \in 2 .. 5 => Task.id = c
      BY <1>5, <2>1, <2>3 DEF Restarted
    <3> QED
      BY <1>2, <1>3, <2>1, <2>3, <3>1, <3>2 DEF TickInv
  <2> QED
    BY <1>1, <2>2, <2>3
<1>8. ASSUME NEW d \in Conds PROVE ClearInv(d)' /\ (NoLateTicks => StaleInv(d)')
  BY <1>2, <1>3 DEF KeptInv, ClearInv, StaleInv
<1>9. ASSUME NEW d \in Conds PROVE LeftInv(d)'
  <2>1. LeftInv(d)
    BY DEF KeptInv
  <2>2. CASE d \in gone' => d \in gone
    BY <1>1, <1>2, <1>3, <2>1, <2>2 DEF LeftInv, Dead
  <2>3. CASE d = c /\ c \in gone' /\ c \notin gone
    <3>1. CASE LoseController(c)
      <4>1. \A t \in Threads : call'[c][t].pc = "idle"
        BY <1>1, <3>1 DEF LoseController, Idle
      <4>2. Dead(c)'
        BY <2>3, <3>1, <4>1 DEF LoseController, Fault, Dead
      <4> QED
        BY <1>1, <1>2, <2>1, <2>3, <4>2 DEF LeftInv
    <3>2. CASE GiveUp(c) \/ TaskQuery(c)
      <4>1. ~Incomplete(c) \/ Task.id # c
        BY <2>3, <3>2, ReportedType DEF GiveUp, TaskQuery, Resume, GetTask, Accepts, Task, ApiInv
      <4> QED
        BY <1>1, <1>2, <1>3, <2>1, <2>3, <4>1 DEF LeftInv, Dead
    <3>3. CASE ConditionGet(c) \/ RestartController(c) \/ \E st \in Outcomes : FinishWork(c, st)
      BY <2>3, <3>3 DEF ConditionGet, RestartController, FinishWork
    <3> QED
      BY <3>1, <3>2, <3>3 DEF ControllerStep
  <2> QED
    BY <1>1, <2>2, <2>3
<1> QED
  BY <1>2, <1>6, <1>7, <1>8, <1>9 DEF KeptInv, NoLateTicks

\* A call of a request that changes nothing but the request.
LEMMA CallKeptInv ==
  ASSUME ApiInv, KeptInv, reported' = reported \cup {d \in Conds : TaskDone(d)'},
         NEW c \in Conds, NEW t \in Threads, NEW req,
         UNCHANGED <<cond, kv, step, outcome, gone>>,
         faults' \in {faults, faults + 1},
         call' = [call EXCEPT ![c][t] = req],
         req.pc # "idle" =>
            call[c][t].pc # "idle" \/ (c \notin gone /\ (t = "ticker" => step[c] \in 2 .. 4)),
         req.pc = "clearing" => Clears(req.key, kv[req.key], Reported(c)),
         t = "reporter" /\ call[c][t].pc = "creating" /\ req.pc # "creating" =>
            kv[call[c][t].key] # NoEntry \/ Fault("kv_error")
  PROVE  KeptInv'
<1>1. /\ call'[c][t] = req
      /\ \A d \in Conds, u \in Threads : ~(d = c /\ u = t) => call'[d][u] = call[d][u]
  BY DEF ApiInv, TypeOK
<1>2. Task' = Task /\ UNCHANGED <<reported, Final(TaskKey)>>
      /\ \A d \in Conds : TaskDone(d)' => d \in reported
  BY ReportedSame DEF Task, Final
<1>3. \A d \in Conds : Incomplete(d)' = Incomplete(d)
  BY DEF Incomplete
<1>4. faults \in Nat /\ faults' >= faults /\ faults' \in Nat /\ (Forgotten => Forgotten')
  BY BoundsAssumption DEF ApiInv, TypeOK, Forgotten
<1>5. \A d \in Conds : /\ Reporter(d)' = IF d = c /\ t = "reporter" THEN req ELSE Reporter(d)
                       /\ Ticker(d)' = IF d = c /\ t = "ticker" THEN req ELSE Ticker(d)
  BY <1>1 DEF Reporter, Ticker, Threads
<1>6. ASSUME NEW d \in Conds, d \in reported PROVE OnceInv(d)'
  <2>1. OnceInv(d)
    BY <1>6 DEF KeptInv
  <2>2. CASE Forgotten
    BY <1>4, <2>2 DEF OnceInv
  <2>3. CASE ~Forgotten
    <3>1. ASSUME step[d] = 3, Incomplete(d), Task = NoEntry, Reporter(d)'.pc # "creating"
          PROVE  "kv_error" \in Faults /\ faults' >= 2
      <4>1. CASE Reporter(d).pc # "creating"
        BY <1>4, <2>1, <2>3, <3>1, <4>1 DEF OnceInv
      <4>2. CASE Reporter(d).pc = "creating"
        <5>1. d = c /\ t = "reporter"
          BY <1>5, <3>1, <4>2
        <5>2. Reporter(c).key = TaskKey
          BY <3>1, <4>2, <5>1 DEF ApiInv, CallInv, ReportKey
        <5>3. Fault("kv_error")
          BY <1>1, <1>5, <3>1, <4>2, <5>1, <5>2 DEF Reporter, Task
        <5> QED
          BY <1>4, <2>1, <2>3, <3>1, <5>3 DEF OnceInv, Fault
      <4> QED
        BY <4>1, <4>2
    <3>2. /\ Task.id = d => Final(TaskKey)
          /\ step[d] \in {3, 4, 5, Restarted}
          /\ Incomplete(d) => Task.id \in {0, d}
          /\ step[d] = 3 => outcome[d] # Active /\ "lost_answer" \in Faults /\ faults' >= 1
          /\ step[d] = Restarted /\ Incomplete(d) => Task # NoEntry
      BY <1>4, <2>1, <2>3 DEF OnceInv
    <3> QED
      BY <1>2, <1>3, <3>1, <3>2 DEF OnceInv
  <2> QED
    BY <2>2, <2>3
<1>7. ASSUME NEW d \in Conds PROVE TickInv(d)'
  <2>1. TickInv(d) /\ step[d] \in 0 .. 6
    BY DEF KeptInv, ApiInv, TypeOK
  <2>2. d = c /\ t = "ticker" /\ req.pc # "idle" => Ticker(c).pc # "idle" \/ step[c] \in 2 .. 4
    BY DEF Ticker
  <2> QED
    BY <1>2, <1>3, <1>5, <2>1, <2>2 DEF TickInv
<1>8. ASSUME NEW d \in Conds PROVE ClearInv(d)' /\ (NoLateTicks => StaleInv(d)')
  <2>1. CASE d = c /\ t = "reporter" /\ req.pc = "clearing"
    <3>1. req.key = TaskKey /\ (Final(TaskKey) \/ (Task.stale /\ Task.id # c))
      BY <2>1, ReportedType DEF Clears, ClearsTask, Final, Task, ApiInv
    <3> QED
      BY <1>2, <1>5, <2>1, <3>1 DEF ClearInv, StaleInv
  <2>2. CASE ~(d = c /\ t = "reporter") \/ req.pc # "clearing"
    BY <1>2, <1>5, <2>2 DEF KeptInv, ClearInv, StaleInv
  <2> QED
    BY <2>1, <2>2
<1>9. ASSUME NEW d \in Conds PROVE LeftInv(d)'
  <2>1. Dead(d) => Dead(d)'
    BY <1>1 DEF Dead
  <2> QED
    BY <1>2, <1>3, <2>1 DEF KeptInv, LeftInv
<1> QED
  BY <1>2, <1>6, <1>7, <1>8, <1>9 DEF KeptInv, NoLateTicks

\* A step that leaves what the task entry says, or writes a blank one where none
\* is: it may write a status entry or the timestamp of the task, and requests
\* may end.
LEMMA SayingKept ==
  ASSUME ApiInv, KeptInv, reported' = reported \cup {d \in Conds : TaskDone(d)'},
         UNCHANGED <<cond, outcome, gone>>,
         faults' \in {faults, faults + 1},
         \A d \in Conds, u \in Threads : call'[d][u].pc \in {call[d][u].pc, "idle"}
                                         /\ (call'[d][u].pc # "idle" => call'[d][u].key = call[d][u].key),
         \A d \in Conds : \/ step'[d] = step[d]
                          \/ step[d] \in {2, 4} /\ step'[d] = step[d] + 1,
         \A d \in Conds : step[d] = 3 => Reporter(d)'.pc = Reporter(d).pc \/ Reporter(d).pc # "creating",
         \/ Task' = Task
         \/ Task # NoEntry /\ Task'.id = Task.id /\ Task'.state = Task.state
         \/ Task = NoEntry /\ Task' = EmptyEntry,
         \/ Task.stale => Task'.stale
         \/ Task.id \notin Conds
         \/ \E d \in Conds : Ticker(d).pc # "idle"
  PROVE  KeptInv'
<1>1. /\ Task'.id = Task.id
      /\ Task'.state = Task.state \/ (Task = NoEntry /\ Task' = EmptyEntry)
      /\ Final(TaskKey)' <=> Final(TaskKey)
      /\ Task # NoEntry => Task' # NoEntry
      /\ Task'.state = NoEntry.state => Task' = NoEntry
      /\ Task' = NoEntry => Task = NoEntry
  <2>1. CASE Task' = Task
    BY <2>1 DEF KeptInv, Task, Final
  <2>2. CASE Task # NoEntry /\ Task'.id = Task.id /\ Task'.state = Task.state
    <3>1. Task'.state # NoEntry.state
      BY <2>2 DEF KeptInv
    <3> QED
      BY <2>2, <3>1 DEF Task, Final
  <2>3. CASE Task = NoEntry /\ Task' = EmptyEntry
    <3>1. EmptyEntry.state # NoEntry.state /\ EmptyEntry # NoEntry
      BY Zenon DEF NoEntry, EmptyEntry, Entry
    <3>2. Task'.id = Task.id
      BY <2>3, Values
    <3>3. ~Final(TaskKey) /\ ~Final(TaskKey)'
      BY <2>3, Values DEF Task, Final
    <3> QED
      BY <2>3, <3>1, <3>2, <3>3
  <2> QED
    BY <2>1, <2>2, <2>3
<1>2. UNCHANGED reported /\ \A d \in Conds : TaskDone(d)' => d \in reported
  BY <1>1, ReportedSame, Values
<1>3. \A d \in Conds : Incomplete(d)' = Incomplete(d) /\ (Dead(d) => Dead(d)')
  BY DEF Incomplete, Dead
<1>4. faults \in Nat /\ faults' >= faults /\ faults' \in Nat /\ (Forgotten => Forgotten')
  BY BoundsAssumption DEF ApiInv, TypeOK, Forgotten
<1>5. \A d \in Conds : /\ Reporter(d)'.pc \in {Reporter(d).pc, "idle"}
                       /\ Ticker(d)'.pc \in {Ticker(d).pc, "idle"}
                       /\ Reporter(d)'.pc # "idle" => Reporter(d)'.key = Reporter(d).key
  BY DEF Reporter, Ticker, Threads
<1>6. ASSUME NEW d \in Conds, d \in reported PROVE OnceInv(d)'
  <2>1. OnceInv(d)
    BY <1>6 DEF KeptInv
  <2>2. CASE Forgotten
    BY <1>4, <2>2 DEF OnceInv
  <2>3. CASE ~Forgotten /\ step'[d] # step[d]
    <3>1. step[d] = 4 /\ step'[d] = 5
      BY <2>1, <2>3 DEF OnceInv, Restarted
    <3> QED
      BY <1>1, <1>3, <2>1, <2>3, <3>1 DEF OnceInv, Restarted
  <2>4. CASE ~Forgotten /\ step'[d] = step[d]
    <3>1. ASSUME step[d] = 3, Incomplete(d), Task' = NoEntry, Reporter(d)'.pc # "creating"
          PROVE  "kv_error" \in Faults /\ faults' >= 2
      BY <1>1, <1>4, <2>1, <2>4, <3>1 DEF OnceInv
    <3>2. /\ Task.id = d => Final(TaskKey)
          /\ step[d] \in {3, 4, 5, Restarted}
          /\ Incomplete(d) => Task.id \in {0, d}
          /\ step[d] = 3 => outcome[d] # Active /\ "lost_answer" \in Faults /\ faults' >= 1
          /\ step[d] = Restarted /\ Incomplete(d) => Task # NoEntry
      BY <1>4, <2>1, <2>4 DEF OnceInv
    <3> QED
      BY <1>1, <1>3, <2>4, <3>1, <3>2 DEF OnceInv
  <2> QED
    BY <2>2, <2>3, <2>4
<1>7. ASSUME NEW d \in Conds PROVE TickInv(d)'
  <2>1. TickInv(d)
    BY DEF KeptInv
  <2>2. (step'[d] = 0 => step[d] = 0) /\ (step'[d] \in 2 .. 5 => step[d] \in 2 .. 5)
    OBVIOUS
  <2> QED
    BY <1>1, <1>3, <1>5, <2>1, <2>2 DEF TickInv
<1>8. ASSUME NEW d \in Conds PROVE ClearInv(d)'
  BY <1>1, <1>5 DEF KeptInv, ClearInv
<1>9. ASSUME NEW d \in Conds PROVE LeftInv(d)'
  BY <1>1, <1>3 DEF KeptInv, LeftInv
<1>10. ASSUME NEW d \in Conds, NoLateTicks PROVE StaleInv(d)'
  <2> SUFFICES ASSUME Reporter(d).pc = "clearing", Task.id \in Conds, ~Final(TaskKey) PROVE Task'.stale
    BY <1>1, <1>5 DEF StaleInv
  <2> DEFINE x == Task.id
  <2>1. Task.stale
    BY <1>10 DEF KeptInv, StaleInv
  <2>2. x # d /\ step[d] \in {1, 3} /\ Incomplete(d)
    BY Values DEF KeptInv, ClearInv, ApiInv, CallInv, ReportKey
  <2>3. ~Incomplete(x) /\ cond[x] # "none"
    BY <2>2, Exclusive DEF KeptInv, LeftInv, ApiInv, SaidInv
  <2>4. Dead(x)
    BY <2>3 DEF KeptInv, LeftInv
  <2>5. Last <= 2
    BY <1>10, <2>4 DEF NoLateTicks, Dead
  <2>6. \A c \in Conds : c = x \/ c = d
    BY <2>2, <2>5, BoundsAssumption DEF Conds
  <2>7. Ticker(x).pc = "idle"
    BY <2>4 DEF Dead, Ticker, Threads
  <2>8. Ticker(d).pc = "idle"
    BY <2>2, Values DEF KeptInv, TickInv
  <2> QED
    BY <2>1, <2>6, <2>7, <2>8
<1> QED
  BY <1>1, <1>2, <1>6, <1>7, <1>8, <1>9, <1>10 DEF KeptInv, NoLateTicks

\* A report of the task is written, with or without an answer.
LEMMA TaskReportKept ==
  ASSUME ApiInv, ApiInv', KeptInv, reported' = reported \cup {d \in Conds : TaskDone(d)'},
         NEW c \in Conds, Reporter(c).pc \in {"creating", "updating"}, step[c] \in {1, 3},
         Task = NoEntry \/ Task.id = c,
         Task'.id = c, Task'.state = outcome[c],
         UNCHANGED <<cond, outcome, gone>>,
         \/ faults' = faults /\ step' = [step EXCEPT ![c] = @ + 1]
         \/ Fault("lost_answer") /\ UNCHANGED step,
         Reporter(c)'.pc = "idle",
         \A d \in Conds, u \in Threads :
            ~(d = c /\ u = "reporter") => call'[d][u].pc = call[d][u].pc /\ call'[d][u].key = call[d][u].key
  PROVE  KeptInv'
<1>1. /\ Incomplete(c) /\ c \notin gone
      /\ step[c] = 1 => outcome[c] = Active
      /\ step[c] = 3 => outcome[c] # Active
      /\ outcome[c] \in Outcomes \cup {Active}
  <2>1. ReportKey(c) = TaskKey /\ CallInv(c) /\ StepInv(c) /\ outcome[c] \in Outcomes \cup {Active}
    BY DEF ReportKey, ApiInv, SaidInv, TypeOK
  <2> QED
    BY <2>1 DEF CallInv, StepInv
<1>2. /\ Final(TaskKey)' <=> step[c] = 3
      /\ Task' # NoEntry /\ Task'.state # NoEntry.state
  BY <1>1, OutcomesAssumption, Values
  DEF Final, Task, StateIsComplete, Active, Failed, Succeeded, NoEntry, Entry, Conds
<1>3. /\ \A d \in Conds : d # c => step'[d] = step[d] /\ ~Incomplete(d) /\ d # Task'.id
      /\ step'[c] \in {step[c], step[c] + 1}
      /\ step'[c] = 3 => step[c] = 3 /\ "lost_answer" \in Faults /\ faults' = faults + 1
  BY <1>1, Exclusive DEF ApiInv, TypeOK, SaidInv, Fault
<1>4. \A d \in Conds : Incomplete(d)' = Incomplete(d)
  BY DEF Incomplete
<1>5. faults \in Nat /\ faults' >= faults /\ faults' \in Nat /\ (Forgotten => Forgotten')
  BY BoundsAssumption DEF ApiInv, TypeOK, Forgotten, Fault
<1>6. \A d \in Conds : /\ d # c => Reporter(d)'.pc = Reporter(d).pc /\ Reporter(d)'.key = Reporter(d).key
                       /\ Ticker(d)'.pc = Ticker(d).pc
  BY DEF Reporter, Ticker, Threads
<1>7. ASSUME NEW d \in Conds PROVE /\ TaskDone(d)' => d = c /\ step[c] = 3
                                   /\ d \in reported' => d \in reported \/ (d = c /\ step[c] = 3)
  <2>1. TaskDone(d)' => d = c /\ step[c] = 3
    BY <1>2 DEF TaskDone, Task, Final
  <2>2. d \in reported' => d \in reported \/ TaskDone(d)'
    OBVIOUS
  <2> QED
    BY <2>1, <2>2
<1>8. ASSUME NEW d \in Conds, d \in reported' PROVE OnceInv(d)'
  <2>1. CASE d = c /\ step[c] = 3
    BY <1>1, <1>2, <1>3, <1>5, <2>1 DEF OnceInv, Restarted
  <2>2. CASE d = c /\ step[c] # 3
    <3>1. Forgotten
      BY <1>7, <1>8, <2>2 DEF KeptInv, OnceInv, Restarted
    <3> QED
      BY <1>5, <3>1 DEF OnceInv
  <2>3. CASE d # c
    <3>1. OnceInv(d)
      BY <1>7, <1>8, <2>3 DEF KeptInv
    <3>2. step'[d] = step[d] /\ ~Incomplete(d)' /\ d # Task'.id /\ outcome'[d] = outcome[d]
      BY <1>3, <1>4, <2>3
    <3> QED
      BY <1>5, <3>1, <3>2 DEF OnceInv
  <2> QED
    BY <2>1, <2>2, <2>3
<1>9. ASSUME NEW d \in Conds PROVE TickInv(d)'
  <2>1. step'[d] = 0 => step[d] = 0
    BY <1>3
  <2>2. Incomplete(d) => Task'.id = d
    BY <1>3
  <2> QED
    BY <1>4, <1>6, <2>1, <2>2 DEF KeptInv, TickInv
<1>10. ASSUME NEW d \in Conds PROVE ClearInv(d)' /\ StaleInv(d)'
  <2>1. CASE d = c
    BY <2>1 DEF ClearInv, StaleInv
  <2>2. CASE d # c
    <3>1. Reporter(d).pc # "clearing"
      BY <1>3, <2>2 DEF KeptInv, ClearInv, ApiInv, CallInv
    <3> QED
      BY <1>6, <2>2, <3>1 DEF ClearInv, StaleInv
  <2> QED
    BY <2>1, <2>2
<1>11. ASSUME NEW d \in Conds PROVE LeftInv(d)'
  BY <1>1, <1>3, <1>4 DEF LeftInv, Incomplete, Pending, Active
<1> QED
  BY <1>2, <1>7, <1>8, <1>9, <1>10, <1>11 DEF KeptInv

\* A report clears the task entry, and is to create it.
LEMMA TaskClearKept ==
  ASSUME ApiInv, KeptInv, reported' = reported \cup {d \in Conds : TaskDone(d)'},
         NEW c \in Conds, Clear(c, "reporter")
  PROVE  KeptInv'
<1>1. /\ Reporter(c).pc = "clearing" /\ Reporter(c).key = TaskKey /\ Incomplete(c)
      /\ step[c] \in {1, 3}
      /\ UNCHANGED <<cond, outcome, gone, step, faults>>
      /\ Write(TaskKey, NoEntry, c, "reporter", [Reporter(c) EXCEPT !.pc = "creating"])
  <2>1. /\ Reporter(c).pc = "clearing" /\ UNCHANGED <<cond, outcome, gone, step, faults>>
        /\ Write(Reporter(c).key, NoEntry, c, "reporter", [Reporter(c) EXCEPT !.pc = "creating"])
    BY DEF Clear, NoFault, Reporter
  <2>2. Reporter(c).key = TaskKey
    BY <2>1 DEF KeptInv, ClearInv
  <2>3. CallInv(c)
    BY DEF ApiInv
  <2>4. Incomplete(c) /\ step[c] \in {1, 3}
    BY <2>1, <2>2, <2>3, Values DEF CallInv, ReportKey
  <2> QED
    BY <2>1, <2>2, <2>4
<1>2. [Reporter(c) EXCEPT !.pc = "creating"] \in Requests /\ "reporter" \in Threads
  <2>1. Reporter(c) \in Requests /\ "reporter" \in Threads
    BY DEF ApiInv, TypeOK, Requests, Reporter, Threads
  <2> QED
    BY <2>1 DEF Requests
<1>3. /\ kv' = [kv EXCEPT ![TaskKey] = NoEntry]
      /\ call'[c]["reporter"] = [Reporter(c) EXCEPT !.pc = "creating"]
      /\ \A d \in Conds, u \in Threads : ~(d = c /\ u = "reporter") => Outdates(TaskKey, d, u)
  BY <1>1, <1>2, WriteEffect, Values DEF ApiInv
<1>4. Task' = NoEntry /\ Task'.id = 0 /\ ~Final(TaskKey)'
  BY <1>3, Values DEF ApiInv, TypeOK, Task, Final
<1>5. UNCHANGED reported /\ \A d \in Conds : TaskDone(d)' => d \in reported
  BY <1>4, ReportedSame, Values
<1>6. /\ Reporter(c)'.pc = "creating"
      /\ \A d \in Conds : d # c => Reporter(d)'.pc = Reporter(d).pc
      /\ \A d \in Conds : Ticker(d)'.pc = Ticker(d).pc
  BY <1>2, <1>3 DEF Reporter, Ticker, Threads, Outdates, Requests
<1>7. \A d \in Conds : d # c => ~Incomplete(d) /\ Reporter(d).pc # "clearing"
  BY <1>1, Exclusive DEF KeptInv, ClearInv, ApiInv, SaidInv, CallInv
<1>8. \A d \in Conds : Incomplete(d)' = Incomplete(d)
  BY <1>1 DEF Incomplete
<1>9. Forgotten => Forgotten'
  BY <1>1 DEF Forgotten
<1>10. ASSUME NEW d \in Conds, d \in reported PROVE OnceInv(d)'
  <2>1. OnceInv(d)
    BY <1>10 DEF KeptInv
  <2>2. CASE d # c
    BY <1>1, <1>4, <1>7, <1>8, <1>9, <2>1, <2>2, Values DEF OnceInv
  <2>3. CASE d = c
    BY <1>1, <1>4, <1>6, <1>9, <2>1, <2>3, Values DEF OnceInv, Restarted
  <2> QED
    BY <2>2, <2>3
<1>11. ASSUME NEW d \in Conds PROVE TickInv(d)' /\ ClearInv(d)' /\ LeftInv(d)' /\ StaleInv(d)'
  BY <1>1, <1>4, <1>6, <1>7, <1>8, Values DEF KeptInv, TickInv, ClearInv, LeftInv, StaleInv
<1> QED
  BY <1>4, <1>5, <1>10, <1>11 DEF KeptInv

\* A request for a report or a timestamp, its Get, and its failure.
LEMMA RequestKept ==
  ASSUME ApiInv, KeptInv, reported' = reported \cup {d \in Conds : TaskDone(d)'},
         NEW c \in Conds, NEW t \in Threads,
         \/ t = "reporter" /\ Report(c)
         \/ t = "ticker" /\ \E k \in Keys : Tick(c, k)
         \/ Get(c, t)
         \/ CallFails(c, t)
  PROVE  KeptInv'
<1>1. call[c][t] \in Requests
  BY UnderWay
<1>2. CASE t = "reporter" /\ Report(c)
  <2> DEFINE req == [Idle EXCEPT !.pc = "checked", !.key = ReportKey(c), !.new = Reported(c)]
  <2>1. req.pc = "checked"
    BY DEF Idle
  <2>2. /\ UNCHANGED <<cond, kv, step, outcome, gone, faults>> /\ c \notin gone
        /\ call' = [call EXCEPT ![c][t] = req] /\ call[c][t].pc = "idle"
    BY <1>2 DEF Report, Request, NoFault, Idle
  <2> HIDE DEF req
  <2> QED
    BY <1>2, <2>1, <2>2, CallKeptInv
<1>3. ASSUME t = "ticker", NEW k \in Keys, Tick(c, k) PROVE KeptInv'
  <2> DEFINE req == [Idle EXCEPT !.pc = "checked", !.key = k, !.new = NoEntry]
  <2>1. req.pc = "checked"
    BY DEF Idle
  <2>2. /\ UNCHANGED <<cond, kv, step, outcome, gone, faults>> /\ c \notin gone
        /\ step[c] \in 2 .. 4
        /\ call' = [call EXCEPT ![c]["ticker"] = req]
    BY <1>3 DEF Tick, Request, NoFault
  <2> HIDE DEF req
  <2> QED
    BY <1>3, <2>1, <2>2, CallKeptInv
<1>4. CASE Get(c, t)
  <2>1. /\ UNCHANGED <<cond, kv, step, outcome, gone, faults>> /\ call[c][t].pc = "checked"
    BY <1>4 DEF Get, NoFault
  <2>2. PICK req : /\ call' = [call EXCEPT ![c][t] = req]
                   /\ req.pc = "clearing" => /\ Clears(call[c][t].key, kv[call[c][t].key], call[c][t].new)
                                             /\ req.key = call[c][t].key
    <3> DEFINE r == call[c][t]
               upd == [r EXCEPT !.pc = "updating", !.current = TRUE,
                          !.read = IF r.new = NoEntry THEN [kv[r.key] EXCEPT !.stale = FALSE]
                                                      ELSE NoEntry]
    <3>1. /\ Idle.pc = "idle" /\ [r EXCEPT !.pc = "creating"].pc = "creating"
          /\ [r EXCEPT !.pc = "clearing"].key = r.key
          /\ upd.pc = "updating"
      BY <1>1 DEF Requests, Idle
    <3>2. \/ call' = [call EXCEPT ![c][t] = Idle]
          \/ call' = [call EXCEPT ![c][t] = [r EXCEPT !.pc = "creating"]]
          \/ /\ Clears(r.key, kv[r.key], r.new)
             /\ call' = [call EXCEPT ![c][t] = [r EXCEPT !.pc = "clearing"]]
          \/ call' = [call EXCEPT ![c][t] = upd]
      BY <1>4 DEF Get
    <3> HIDE DEF r, upd
    <3> QED
      BY <3>1, <3>2 DEF r
  <2>3. req.pc = "clearing" => Clears(req.key, kv[req.key], Reported(c))
    <3>1. Clears(call[c][t].key, kv[call[c][t].key], call[c][t].new) => call[c][t].new # NoEntry
      BY DEF Clears
    <3> QED
      BY <2>1, <2>2, <3>1, UnderWay
  <2> QED
    BY <2>1, <2>2, <2>3, CallKeptInv
<1>5. CASE CallFails(c, t)
  <2>1. /\ UNCHANGED <<cond, kv, step, outcome, gone>> /\ Fault("kv_error")
        /\ call' = [call EXCEPT ![c][t] = Idle] /\ Idle.pc = "idle"
    BY <1>5 DEF CallFails, Idle
  <2>2. faults' \in {faults, faults + 1}
    BY <2>1 DEF Fault
  <2> QED
    BY <2>1, <2>2, CallKeptInv
<1> QED
  BY <1>2, <1>3, <1>4, <1>5

\* A call that writes a report or a timestamp and gets its answer, or not.
LEMMA AcceptedKept ==
  ASSUME ApiInv, ApiInv', KeptInv, reported' = reported \cup {d \in Conds : TaskDone(d)'},
         NEW c \in Conds, NEW t \in Threads, NEW e \in Contents,
         call[c][t].pc \in {"creating", "updating"},
         Write(call[c][t].key, e, c, t, Idle), Answered(c, t),
         UNCHANGED <<cond, outcome, gone>>,
         t = "reporter" => /\ e.id = c /\ e.state = outcome[c]
                           /\ \/ call[c][t].key # TaskKey
                              \/ Task = NoEntry \/ Task.id = c,
         t = "ticker" => \/ kv[call[c][t].key] = NoEntry /\ e = EmptyEntry
                         \/ /\ kv[call[c][t].key] # NoEntry
                            /\ e.id = kv[call[c][t].key].id
                            /\ e.state = kv[call[c][t].key].state
  PROVE  KeptInv'
<1> DEFINE k == call[c][t].key
<1>1. call[c][t] \in Requests /\ k \in Keys /\ Idle \in Requests /\ Idle.pc = "idle"
  BY UnderWay, Values DEF Requests, Idle
<1>2. /\ kv' = [kv EXCEPT ![k] = e]
      /\ call'[c][t] = Idle
      /\ \A d \in Conds, u \in Threads : ~(d = c /\ u = t) => Outdates(k, d, u)
  BY <1>1, WriteEffect DEF ApiInv
<1>3. Task' = IF k = TaskKey THEN e ELSE Task
  BY <1>1, <1>2, Values DEF ApiInv, TypeOK, Task
<1>4. \A d \in Conds, u \in Threads :
         ~(d = c /\ u = t) => call'[d][u].pc = call[d][u].pc /\ call'[d][u].key = call[d][u].key
  BY <1>2 DEF Outdates
<1>5. /\ faults' \in {faults, faults + 1}
      /\ \/ step' = step
         \/ t = "reporter" /\ faults' = faults /\ step' = [step EXCEPT ![c] = @ + 1]
      /\ t = "reporter" => \/ Fault("lost_answer") /\ UNCHANGED step
                           \/ faults' = faults /\ step' = [step EXCEPT ![c] = @ + 1]
  BY DEF Answered, NoFault, Fault
<1>6. CASE t = "reporter" /\ k = TaskKey
  <2>1. step[c] \in {1, 3}
    BY <1>6, UnderWay, Values DEF ReportKey
  <2>2. Reporter(c) = call[c][t] /\ Reporter(c)' = Idle
    BY <1>2, <1>6 DEF Reporter
  <2> QED
    BY <1>1, <1>3, <1>4, <1>5, <1>6, <2>1, <2>2, TaskReportKept
<1>7. CASE t = "ticker" \/ k # TaskKey
  <2>1. \A d \in Conds, u \in Threads :
           /\ call'[d][u].pc \in {call[d][u].pc, "idle"}
           /\ call'[d][u].pc # "idle" => call'[d][u].key = call[d][u].key
    BY <1>1, <1>2, <1>4
  <2>2. t = "reporter" => step[c] \in {2, 4}
    BY <1>7, UnderWay DEF ReportKey
  <2>3. \A d \in Conds : step'[d] = step[d] \/ (step[d] \in {2, 4} /\ step'[d] = step[d] + 1)
    BY <1>5, <2>2 DEF ApiInv, TypeOK
  <2>4. \A d \in Conds : step[d] = 3 => Reporter(d)'.pc = Reporter(d).pc
    BY <1>4, <2>2, UnderWay DEF Reporter, Threads
  <2>5. \/ Task' = Task
        \/ Task # NoEntry /\ Task'.id = Task.id /\ Task'.state = Task.state
        \/ Task = NoEntry /\ Task' = EmptyEntry
    BY <1>3, <1>7 DEF Task
  <2>6. Task' = Task \/ \E d \in Conds : Ticker(d).pc # "idle"
    <3>1. t = "ticker" => Ticker(c).pc # "idle"
      BY DEF Ticker
    <3> QED
      BY <1>3, <1>7, <3>1
  <2> QED
    BY <1>5, <2>1, <2>3, <2>4, <2>5, <2>6, SayingKept
<1> QED
  BY <1>6, <1>7, UnderWay

\* The request ends without having written anything.
LEMMA RefusedKept ==
  ASSUME ApiInv, KeptInv, reported' = reported \cup {d \in Conds : TaskDone(d)'},
         NEW c \in Conds, NEW t \in Threads,
         UNCHANGED <<cond, kv, step, outcome, gone, faults>>,
         call' = [call EXCEPT ![c][t] = Idle],
         call[c][t].pc = "creating" => kv[call[c][t].key] # NoEntry
  PROVE  KeptInv'
<1>1. Idle.pc = "idle"
  BY DEF Idle
<1> QED
  BY <1>1, CallKeptInv

LEMMA WritingKept ==
  ASSUME ApiInv, ApiInv', KeptInv, reported' = reported \cup {d \in Conds : TaskDone(d)'},
         NEW c \in Conds, NEW t \in Threads, Clear(c, t) \/ Create(c, t) \/ Update(c, t)
  PROVE  KeptInv'
<1> DEFINE k == call[c][t].key
<1>1. CASE Clear(c, t)
  <2>1. t = "reporter"
    BY <1>1, UnderWay DEF Clear
  <2> QED
    BY <1>1, <2>1, TaskClearKept
<1>2. CASE Create(c, t)
  <2>1. call[c][t].pc = "creating" /\ UNCHANGED <<cond, outcome, gone>>
    BY <1>2 DEF Create
  <2>2. CASE kv[k] # NoEntry /\ call' = [call EXCEPT ![c][t] = Idle] /\ NoFault
             /\ UNCHANGED <<kv, step>>
    BY <2>1, <2>2, RefusedKept DEF NoFault
  <2>3. ASSUME kv[k] = NoEntry, NEW stale \in BOOLEAN,
               Write(k, IF call[c][t].new = NoEntry THEN EmptyEntry
                                                    ELSE [call[c][t].new EXCEPT !.stale = stale],
                     c, t, Idle),
               Answered(c, t)
        PROVE  KeptInv'
    <3>1. CASE t = "ticker"
      <4>1. Write(k, EmptyEntry, c, t, Idle)
        BY <2>3, <3>1, UnderWay
      <4> QED
        BY <2>1, <2>3, <3>1, <4>1, Values, AcceptedKept
    <3>2. CASE t = "reporter"
      <4> DEFINE e == [Reported(c) EXCEPT !.stale = stale]
      <4>1. Write(k, e, c, t, Idle)
        BY <2>1, <2>3, <3>2, UnderWay
      <4>2. e \in Contents /\ e.id = c /\ e.state = outcome[c]
        BY ReportedType DEF ApiInv, Contents
      <4>3. k = TaskKey => Task = NoEntry
        BY <2>3 DEF Task
      <4> HIDE DEF e
      <4> QED
        BY <2>1, <2>3, <3>2, <4>1, <4>2, <4>3, AcceptedKept
    <3> QED
      BY <3>1, <3>2, UnderWay
  <2> QED
    BY <1>2, <2>2, <2>3 DEF Create
<1>3. CASE Update(c, t)
  <2>1. call[c][t].pc = "updating" /\ UNCHANGED <<cond, outcome, gone>>
    BY <1>3 DEF Update
  <2>2. CASE call' = [call EXCEPT ![c][t] = Idle] /\ NoFault /\ UNCHANGED <<kv, step>>
    BY <2>1, <2>2, RefusedKept DEF NoFault
  <2>3. ASSUME call[c][t].current,
               Write(k, IF call[c][t].new = NoEntry THEN call[c][t].read ELSE call[c][t].new,
                     c, t, Idle),
               Answered(c, t)
        PROVE  KeptInv'
    <3>1. ReadInv(call[c][t])
      BY DEF ApiInv
    <3>2. CASE t = "ticker"
      <4>1. Write(k, call[c][t].read, c, t, Idle) /\ call[c][t].new = NoEntry
        BY <2>3, <3>2, UnderWay
      <4>2. /\ call[c][t].read \in Contents /\ kv[k] # NoEntry
            /\ call[c][t].read.id = kv[k].id
            /\ call[c][t].read.state = kv[k].state
        BY <2>1, <2>3, <3>1, <4>1, UnderWay DEF ReadInv, Requests
      <4> QED
        BY <2>1, <2>3, <3>2, <4>1, <4>2, AcceptedKept
    <3>3. CASE t = "reporter"
      <4>1. Write(k, Reported(c), c, t, Idle) /\ call[c][t].new = Reported(c)
            /\ Reported(c) # NoEntry
        BY <2>1, <2>3, <3>3, UnderWay
      <4>2. Reported(c) \in Contents /\ Reported(c).id = c /\ Reported(c).state = outcome[c]
        BY ReportedType DEF ApiInv, Contents
      <4>3. k = TaskKey => Task.id = c
        BY <2>1, <2>3, <3>1, <4>1, <4>2 DEF ReadInv, Task
      <4> QED
        BY <2>1, <2>3, <3>3, <4>1, <4>2, <4>3, AcceptedKept
    <3> QED
      BY <3>2, <3>3, UnderWay
  <2> QED
    BY <1>3, <2>2, <2>3 DEF Update
<1> QED
  BY <1>1, <1>2, <1>3

\* The orchestrator deletes a status entry; an entry grows stale.
LEMMA OthersKept ==
  ASSUME ApiInv, KeptInv, reported' = reported \cup {d \in Conds : TaskDone(d)'},
         (\E c \in Conds : Forget(c)) \/ \E k \in Keys : GrowStale(k)
  PROVE  KeptInv'
<1>1. ASSUME NEW c \in Conds, Forget(c) PROVE KeptInv'
  <2>1. UNCHANGED <<cond, step, outcome, gone, faults>> /\ kv' = [kv EXCEPT ![c] = NoEntry]
    BY <1>1 DEF Forget, NoFault
  <2>2. Task' = Task
    BY <2>1, Values DEF Task, ApiInv, TypeOK
  <2>3. \A d \in Conds, u \in Threads : call'[d][u].pc = call[d][u].pc /\ call'[d][u].key = call[d][u].key
    <3>1. \A d \in Conds, u \in Threads : call[d][u] \in Requests
      BY DEF ApiInv, TypeOK, Requests
    <3>2. \A r \in Requests : Outdated(r).pc = r.pc /\ Outdated(r).key = r.key
      BY DEF Requests, Outdated
    <3> QED
      BY <1>1, <3>1, <3>2 DEF Forget
  <2>4. \A d \in Conds : Reporter(d)'.pc = Reporter(d).pc
    BY <2>3 DEF Reporter, Threads
  <2> QED
    BY <2>1, <2>2, <2>3, <2>4, SayingKept
<1>2. ASSUME NEW k \in Keys, GrowStale(k) PROVE KeptInv'
  <2>1. /\ UNCHANGED <<cond, call, step, outcome, gone, faults>>
        /\ kv[k] # NoEntry /\ kv' = [kv EXCEPT ![k].stale = TRUE]
    BY <1>2 DEF GrowStale, NoFault
  <2>2. CASE k # TaskKey
    <3>1. Task' = Task
      BY <2>1, <2>2, Values DEF Task, ApiInv, TypeOK
    <3>2. \A d \in Conds : Reporter(d)' = Reporter(d)
      BY <2>1 DEF Reporter
    <3> QED
      BY <2>1, <3>1, <3>2, SayingKept
  <2>3. CASE k = TaskKey
    <3>1. kv[k] \in Contents
      BY DEF ApiInv, TypeOK
    <3>2. Task' = [Task EXCEPT !.stale = TRUE] /\ Task # NoEntry
      BY <2>1, <2>3 DEF Task, ApiInv, TypeOK
    <3>3. Task'.id = Task.id /\ Task'.state = Task.state /\ Task'.stale
      BY <2>3, <3>1, <3>2 DEF Task, Contents, Entries, Blanks
    <3>4. \A d \in Conds : Reporter(d)' = Reporter(d)
      BY <2>1 DEF Reporter
    <3> QED
      BY <2>1, <3>2, <3>3, <3>4, SayingKept
  <2> QED
    BY <2>2, <2>3
<1> QED
  BY <1>1, <1>2

LEMMA KeptStep == ApiInv /\ ApiInv' /\ KeptInv /\ [Next]_vars => KeptInv'
<1> SUFFICES ASSUME ApiInv, ApiInv', KeptInv, [Next]_vars PROVE KeptInv'
  OBVIOUS
<1>1. CASE UNCHANGED vars
  <2>1. UNCHANGED <<cond, kv, call, step, outcome, gone, faults, reported>>
    BY <1>1 DEF vars, apiVars
  <2>2. \A c \in Conds : /\ OnceInv(c)' <=> OnceInv(c)
                         /\ TickInv(c)' <=> TickInv(c)
                         /\ ClearInv(c)' <=> ClearInv(c)
                         /\ LeftInv(c)' <=> LeftInv(c)
                         /\ StaleInv(c)' <=> StaleInv(c)
                         /\ TaskDone(c)' <=> TaskDone(c)
    BY <2>1 DEF OnceInv, TickInv, ClearInv, LeftInv, StaleInv, TaskDone, Task, Final, Reporter,
                Ticker, Dead, Incomplete, Forgotten
  <2>3. UNCHANGED Task
    BY <2>1 DEF Task
  <2> QED
    BY <2>1, <2>2, <2>3 DEF KeptInv, NoLateTicks
<1>2. CASE Next
  <2>1. reported' = reported \cup {c \in Conds : TaskDone(c)'}
    BY <1>2 DEF Next
  <2>2. ASSUME NEW c \in Conds, CreateCondition(c) \/ Commit(c) \/ Reconcile(c) PROVE KeptInv'
    BY <2>1, <2>2, StoreKept
  <2>3. ASSUME NEW c \in Conds, ControllerStep(c) PROVE KeptInv'
    BY <2>1, <2>3, ControllerKept
  <2>4. ASSUME NEW c \in Conds, Report(c) \/ \E k \in Keys : Tick(c, k) PROVE KeptInv'
    BY <2>1, <2>4, RequestKept DEF Threads
  <2>5. ASSUME NEW c \in Conds, NEW t \in Threads, Get(c, t) \/ CallFails(c, t) PROVE KeptInv'
    BY <2>1, <2>5, RequestKept
  <2>6. ASSUME NEW c \in Conds, NEW t \in Threads, Clear(c, t) \/ Create(c, t) \/ Update(c, t)
        PROVE  KeptInv'
    BY <2>1, <2>6, WritingKept
  <2>7. ASSUME (\E c \in Conds : Forget(c)) \/ \E k \in Keys : GrowStale(k) PROVE KeptInv'
    BY <2>1, <2>7, OthersKept
  <2> QED
    BY <1>2, <2>2, <2>3, <2>4, <2>5, <2>6, <2>7 DEF Next, ThreadStep, ControllerStep
<1> QED
  BY <1>1, <1>2

LEMMA KeptInvariant == Spec => [](ApiInv /\ KeptInv)
BY ApiInit, ApiStep, KeptInit, KeptStep, PTL DEF Spec

\* A task entry is replaced only by a report that found it finished or stale.
LEMMA TaskReplaced ==
  ASSUME ApiInv, KeptInv, Next, Task.id \in Conds, Task'.id # Task.id
  PROVE  \E c \in Conds : Reporter(c).pc = "clearing" /\ Incomplete(c)
<1>1. ASSUME NEW c \in Conds, Forget(c) PROVE FALSE
  BY <1>1, Values DEF Forget, Task, ApiInv, TypeOK
<1>2. ASSUME NEW k \in Keys, GrowStale(k) PROVE FALSE
  <2>1. kv[TaskKey] \in Contents
    BY Values DEF ApiInv, TypeOK
  <2>2. kv'[TaskKey] = kv[TaskKey] \/ kv'[TaskKey] = [kv[TaskKey] EXCEPT !.stale = TRUE]
    BY <1>2, Values DEF GrowStale, ApiInv, TypeOK
  <2> QED
    BY <2>1, <2>2, Blank DEF Task
<1>3. ASSUME NEW c \in Conds, NEW t \in Threads, Clear(c, t)
      PROVE  Reporter(c).pc = "clearing" /\ Incomplete(c)
  <2>1. t = "reporter" /\ Reporter(c).pc = "clearing"
    BY <1>3, UnderWay DEF Clear, Reporter
  <2>2. Reporter(c).key = TaskKey
    BY <2>1 DEF KeptInv, ClearInv
  <2> QED
    BY <2>1, <2>2 DEF ApiInv, CallInv
<1>4. ASSUME NEW c \in Conds, NEW t \in Threads, Create(c, t) PROVE FALSE
  <2>1. call[c][t].key \in Keys
    BY UnderWay DEF Requests
  <2>2. kv' = kv \/ kv[call[c][t].key] = NoEntry
    BY <1>4 DEF Create, Write
  <2>3. \A j \in Keys : j # call[c][t].key => kv'[j] = kv[j]
    BY <1>4 DEF Create, Write, ApiInv, TypeOK
  <2> QED
    BY <2>1, <2>2, <2>3, Values DEF Task
<1>5. ASSUME NEW c \in Conds, NEW t \in Threads, Update(c, t) PROVE FALSE
  <2>1. call[c][t].key \in Keys /\ ReadInv(call[c][t])
    BY UnderWay DEF Requests, ApiInv
  <2>2. /\ call[c][t].pc = "updating"
        /\ \/ kv' = kv
           \/ /\ call[c][t].current
              /\ kv' = [kv EXCEPT ![call[c][t].key] =
                          IF call[c][t].new = NoEntry THEN call[c][t].read ELSE call[c][t].new]
    BY <1>5 DEF Update, Write
  <2>3. CASE kv' = kv
    BY <2>3 DEF Task
  <2>4. CASE kv' # kv /\ call[c][t].key # TaskKey
    BY <2>1, <2>2, <2>4, Values DEF Task, ApiInv, TypeOK
  <2>5. CASE kv' # kv /\ call[c][t].key = TaskKey
    <3>1. Task' = IF call[c][t].new = NoEntry THEN call[c][t].read ELSE call[c][t].new
      BY <2>2, <2>5, Values DEF Task, ApiInv, TypeOK
    <3>2. call[c][t].new = NoEntry => call[c][t].read.id = Task.id
      BY <2>1, <2>2, <2>5 DEF ReadInv, Task
    <3>3. call[c][t].new # NoEntry => call[c][t].new.id = Task.id
      BY <2>1, <2>2, <2>5 DEF ReadInv, Task
    <3> QED
      BY <3>1, <3>2, <3>3
  <2> QED
    BY <2>3, <2>4, <2>5
<1>6. kv' # kv
  BY DEF Task
<1>7. ASSUME NEW c \in Conds,
             \/ CreateCondition(c) \/ Commit(c) \/ Reconcile(c) \/ LoseController(c)
             \/ RestartController(c) \/ ConditionGet(c) \/ GiveUp(c) \/ TaskQuery(c)
             \/ \E st \in Outcomes : FinishWork(c, st)
      PROVE  FALSE
  BY <1>6, <1>7
  DEF CreateCondition, Commit, Reconcile, LoseController, RestartController, ConditionGet,
      GiveUp, TaskQuery, FinishWork
<1>8. ASSUME NEW c \in Conds, Report(c) \/ \E k \in Keys : Tick(c, k) PROVE FALSE
  <2>1. kv' = kv
    BY <1>8, Zenon DEF Report, Tick, Request
  <2> QED
    BY <1>6, <2>1
<1>9. ASSUME NEW c \in Conds, NEW t \in Threads, Get(c, t) \/ CallFails(c, t) PROVE FALSE
  BY <1>6, <1>9 DEF Get, CallFails
<1> QED
  BY <1>1, <1>2, <1>3, <1>4, <1>5, <1>7, <1>8, <1>9 DEF Next, ThreadStep

\* A finished task is not started anew: with any number of conditions, unless an
\* answer is lost, a call fails and a controller restarts, one after the other.
THEOREM TaskIsDoneOnce ==
  ASSUME MaxFaults <= 2 \/ ~(Forgetting \subseteq Faults)
  PROVE  Spec => []TaskDoneOnce
<1>1. ApiInv /\ KeptInv => TaskDoneOnce
  <2> SUFFICES ASSUME ApiInv, KeptInv, NEW c \in Conds, c \in reported, kv[TaskKey].id = c
               PROVE  TaskDone(c)
    BY DEF TaskDoneOnce, ApiInv, TypeOK
  <2>1. ~Forgotten
    BY BoundsAssumption DEF Forgotten, ApiInv, TypeOK
  <2> QED
    BY <2>1 DEF KeptInv, OnceInv, TaskDone, Task, Final
<1> QED
  BY <1>1, KeptInvariant, PTL

\* The unfinished task of a condition that is not complete is neither deleted
\* nor replaced, stale or not.
UnderWayKept ==
    [][\A c \in Conds : Incomplete(c) /\ kv[TaskKey].id = c /\ ~StateIsComplete(kv[TaskKey].state)
                           => kv'[TaskKey].id = c]_vars

\* With any number of conditions and faults a condition under way keeps its task:
\* no request, late, repeated or of another controller, takes it away.
THEOREM TaskUnderWayKept == Spec => UnderWayKept
<1> DEFINE Keeps == \A c \in Conds : Incomplete(c) /\ kv[TaskKey].id = c
                       /\ ~StateIsComplete(kv[TaskKey].state) => kv'[TaskKey].id = c
<1>1. ApiInv /\ KeptInv /\ [Next]_vars => [Keeps]_vars
  <2> SUFFICES ASSUME ApiInv, KeptInv, Next, NEW c \in Conds, Incomplete(c), Task.id = c,
                      ~Final(TaskKey), Task'.id # c
               PROVE  FALSE
    BY DEF Task, Final
  <2>1. PICK d \in Conds : Reporter(d).pc = "clearing" /\ Incomplete(d)
    BY TaskReplaced
  <2>2. d = c
    BY <2>1, Exclusive DEF ApiInv, SaidInv
  <2> QED
    BY <2>1, <2>2 DEF KeptInv, ClearInv
<1> QED
  BY <1>1, KeptInvariant, PTL DEF Spec, UnderWayKept

\* Nor is another condition's that is kept up to date, when no controller dies
\* or there are two conditions: with a third, a late timestamp of the first may
\* be for the task of the second, whose controller died.
THEOREM LiveTasksAreKept ==
  ASSUME NoLateTicks
  PROVE  Spec => LiveTaskKept
<1> DEFINE Keeps == kv[TaskKey].id \in Conds /\ ~StateIsComplete(kv[TaskKey].state)
                       /\ ~kv[TaskKey].stale => kv'[TaskKey].id = kv[TaskKey].id
<1>1. ApiInv /\ KeptInv /\ [Next]_vars => [Keeps]_vars
  <2> SUFFICES ASSUME ApiInv, KeptInv, Next, Task.id \in Conds, ~Final(TaskKey), ~Task.stale,
                      Task'.id # Task.id
               PROVE  FALSE
    BY DEF Task, Final
  <2>1. PICK d \in Conds : Reporter(d).pc = "clearing"
    BY TaskReplaced
  <2> QED
    BY <2>1 DEF KeptInv, StaleInv
<1> QED
  BY <1>1, KeptInvariant, PTL DEF Spec, LiveTaskKept

=============================================================================
