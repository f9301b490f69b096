------------------------------ MODULE Service ------------------------------
(***************************************************************************)
(* The orchestrator process from its start to its end (cmd/orchestrator.go, *)
(* internal/orchestrator), its entry in the NATS registry of controllers,  *)
(* and what the reconciler learns from that registry of the controllers    *)
(* that execute conditions.  NATS may be out of reach for a while; the     *)
(* supervisor starts an orchestrator that has ended again.                 *)
(*                                                                         *)
(* Time is counted in check-in periods (checkinCadence).  In a period      *)
(* every member that is up tries to check in once; ages are counted up to  *)
(* the threshold that asks for them.                                       *)
(***************************************************************************)
EXTENDS Naturals, FiniteSets

CONSTANTS
    Controllers,    \* the controllers that execute conditions
    Orc,            \* the orchestrator as a member of the registry
    LivenessTTL,    \* a registry entry expires at this age
    LivenessStale,  \* a controller is taken for dead above this age of its entry
    StatusStale,    \* the reconciler looks at a status entry from this age on
    MaxOutages,     \* how often NATS may get out of reach
    MaxTerms        \* how often the orchestrator may be told to end

Members == Controllers \cup {Orc}

ASSUME MembersAssumption == Orc \notin Controllers
ASSUME PeriodsAssumption ==
    /\ {LivenessTTL, LivenessStale, StatusStale} \subseteq Nat \ {0}
    /\ LivenessStale < LivenessTTL
ASSUME BoundsAssumption == MaxOutages \in Nat /\ MaxTerms \in Nat

VARIABLES
    nats,      \* is NATS within reach?
    outages,   \* how often it got out of reach
    stage,     \* where cmdOrchestrator is
    term,      \* has the termination signal cancelled the context?
    terms,     \* how often it came
    registry,  \* has this process initialised the registry?
    checkin,   \* where its checkinRoutine is
    watchers,  \* what its watchers of status entries are doing
    due,       \* the members that have yet to check in in this period
    entry,     \* entry[m]: the age of m's registry entry, LivenessTTL if there is none
    alive,     \* alive[c]: is the controller up?
    missed,    \* missed[c]: the check-ins of c that failed since the last that did not
    work,      \* work[c]: the age of the status entry of the condition c executes
    found      \* found[c]: what the reconciler's round knows of that entry

processVars == <<stage, term, terms, registry, checkin, watchers>>
controllerVars == <<alive, missed, work>>
vars == <<nats, outages, processVars, due, entry, controllerVars, found>>

NoWork == StatusStale + 1

Init ==
    /\ nats = TRUE
    /\ outages = 0
    /\ stage = "off"
    /\ term = FALSE
    /\ terms = 0
    /\ registry = FALSE
    /\ checkin = "off"
    /\ watchers = "off"
    /\ due = {}
    /\ entry = [m \in Members |-> IF m = Orc THEN LivenessTTL ELSE 0]
    /\ alive = [c \in Controllers |-> TRUE]
    /\ missed = [c \in Controllers |-> 0]
    /\ work = [c \in Controllers |-> NoWork]
    /\ found = [c \in Controllers |-> "nothing"]

Registered(m) == entry[m] < LivenessTTL
CheckedIn(m) == entry' = [entry EXCEPT ![m] = 0] /\ due' = due \ {m}

\* The process ends, by a fatal error or in order: its round and its routines
\* end with it.
ProcessEnds ==
    /\ stage' = "off"
    /\ term' = FALSE
    /\ registry' = FALSE
    /\ checkin' = "off"
    /\ watchers' = "off"
    /\ due' = due \ {Orc}
    /\ found' = [c \in Controllers |-> "nothing"]

-----------------------------------------------------------------------------
(* The start of the process: each step is a call of NATS, whose error ends *)
(* the process, but for the registry's.                                    *)

\* The supervisor starts the process.
StartProcess ==
    /\ stage = "off"
    /\ stage' = "stream"
    /\ entry' = [entry EXCEPT ![Orc] = LivenessTTL]     \* a new id each time
    /\ UNCHANGED <<nats, outages, term, terms, registry, checkin, watchers, due,
                   controllerVars, found>>

Proceed(from, to) ==
    /\ stage = from
    /\ IF nats THEN /\ stage' = to
                    /\ UNCHANGED <<term, registry, checkin, watchers, due, found>>
               ELSE ProcessEnds
    /\ UNCHANGED <<nats, outages, terms, entry, controllerVars>>

\* NewStream, Open
OpenStream == Proceed("stream", "store")

\* The bucket of active conditions.
NewStore == Proceed("store", "routes")

\* server.New: the bucket of tasks is bound for the routes.
initTaskKVImpl == Proceed("routes", "registry")
NewServer == initTaskKVImpl

\* startWorkerLivenessCheckin: done once, whether it fails or not.
InitializeRegistry ==
    /\ stage = "registry"
    /\ stage' = "statusKV"
    /\ registry' = nats
    /\ checkin' = IF nats THEN "starting" ELSE "off"
    /\ UNCHANGED <<nats, outages, term, terms, watchers, due, entry, controllerVars, found>>

\* Nothing is monitored if the context has been cancelled already. Otherwise
\* the buckets of status entries, one of each kind, are connected, and
\* kvStatusPublisher goes on to watch them.
StartUpdateMonitor ==
    /\ stage = "statusKV"
    /\ IF term \/ nats
       THEN /\ stage' = "running"
            /\ watchers' = IF term THEN "off" ELSE "starting"
            /\ UNCHANGED <<term, registry, checkin, due, found>>
       ELSE ProcessEnds
    /\ UNCHANGED <<nats, outages, terms, entry, controllerVars>>

-----------------------------------------------------------------------------
(* checkinRoutine                                                          *)

\* The error of the first registration is only logged.
FirstRegistration ==
    /\ checkin = "starting"
    /\ checkin' = "ticking"
    /\ entry' = IF nats THEN [entry EXCEPT ![Orc] = 0] ELSE entry
    /\ UNCHANGED <<nats, outages, stage, term, terms, registry, watchers, due,
                   controllerVars, found>>

\* Variant for mutation: a check-in that failed is only logged.
CheckInOnce ==
    /\ checkin = "ticking"
    /\ Orc \in due
    /\ due' = due \ {Orc}
    /\ entry' = IF nats /\ Registered(Orc) THEN [entry EXCEPT ![Orc] = 0] ELSE entry
    /\ UNCHANGED <<nats, outages, processVars, controllerVars, found>>

\* ControllerCheckin fails if the entry has expired.
CheckIn ==
    /\ checkin = "ticking"
    /\ Orc \in due
    /\ IF nats /\ Registered(Orc) THEN CheckedIn(Orc) /\ UNCHANGED checkin
                                 ELSE checkin' = "deregister" /\ UNCHANGED <<entry, due>>
    /\ UNCHANGED <<nats, outages, stage, term, terms, registry, watchers, controllerVars,
                   found>>

Bail == ProcessEnds /\ UNCHANGED entry

Reach == nats /\ stage # "closed"

\* Variant for mutation: with no entry to deregister, the refresh is over.
DeregisterExisting ==
    /\ checkin = "deregister"
    /\ IF Reach
       THEN /\ entry' = [entry EXCEPT ![Orc] = LivenessTTL]
            /\ IF Registered(Orc) THEN checkin' = "register" /\ UNCHANGED due
                                  ELSE checkin' = "ticking" /\ due' = due \ {Orc}
            /\ UNCHANGED <<stage, term, registry, watchers, found>>
       ELSE Bail
    /\ UNCHANGED <<nats, outages, terms, controllerVars>>

\* refreshWorkerToken: DeregisterController; that there is no entry is no error.
Deregister ==
    /\ checkin = "deregister"
    /\ IF Reach
       THEN /\ entry' = [entry EXCEPT ![Orc] = LivenessTTL]
            /\ checkin' = "register"
            /\ UNCHANGED <<stage, term, registry, watchers, due, found>>
       ELSE Bail
    /\ UNCHANGED <<nats, outages, terms, controllerVars>>

\* refreshWorkerToken: RegisterController
Register ==
    /\ checkin = "register"
    /\ IF Reach THEN /\ CheckedIn(Orc)
                     /\ checkin' = "ticking"
                     /\ UNCHANGED <<stage, term, registry, watchers, found>>
                ELSE Bail
    /\ UNCHANGED <<nats, outages, terms, controllerVars>>

StopCheckIn ==
    /\ checkin = "ticking"
    /\ term
    /\ checkin' = "off"
    /\ due' = due \ {Orc}
    /\ UNCHANGED <<nats, outages, stage, term, terms, registry, watchers, entry,
                   controllerVars, found>>

-----------------------------------------------------------------------------
(* The watchers of status entries (EventPump has what they do); all of     *)
(* them together.                                                          *)

\* A watch, the first one or a new one after a nil, ends the process when it
\* fails: NATS is out of reach, the stream is closed, or the context it is given
\* is cancelled before it is done.
WatchConditionStatus ==
    /\ watchers \in {"starting", "lost"}
    /\ \/ /\ Reach
          /\ watchers' = "watching"
          /\ UNCHANGED <<stage, term, registry, checkin, due, found>>
       \/ (~Reach \/ term) /\ ProcessEnds
    /\ UNCHANGED <<nats, outages, terms, entry, controllerVars>>

WatchersTo(state) ==
    /\ watchers' = state
    /\ UNCHANGED <<nats, outages, stage, term, terms, registry, checkin, due, entry,
                   controllerVars, found>>

LoseSubscription == watchers = "watching" /\ WatchersTo("lost")

StopWatchers == watchers \in {"watching", "lost"} /\ term /\ WatchersTo("off")

-----------------------------------------------------------------------------
(* The reconciler's round, for the status entry of each controller         *)

Round(c, from, to) ==
    /\ stage = "running"
    /\ found[c] = from
    /\ found' = [found EXCEPT ![c] = to]
    /\ UNCHANGED <<nats, outages, processVars, due, entry>>

\* A round starts while the context is not done.
ListStale(c) ==
    /\ ~term
    /\ nats
    /\ work[c] = StatusStale
    /\ Round(c, "nothing", "stale")
    /\ UNCHANGED controllerVars

\* Variants for mutation: an error is taken for a dead controller; a controller
\* that is not registered is not.
LastContactErrorIsDeath(c) == ~nats \/ ~registry \/ ~Registered(c) \/ entry[c] > LivenessStale
LastContactOfRegistered(c) ==
    nats /\ registry /\ Registered(c) /\ entry[c] > LivenessStale

\* An error of LastContact, other than there being no entry, clears nobody.
LastContactTooOld(c) ==
    /\ nats
    /\ registry
    /\ ~Registered(c) \/ entry[c] > LivenessStale

AskRegistry(c) ==
    /\ Round(c, "stale", IF LastContactTooOld(c) THEN "dead" ELSE "nothing")
    /\ UNCHANGED controllerVars

\* The condition is failed and its status entry deleted, unless NATS is out of
\* reach, when the entry stays for the next round.
Reconcile(c) ==
    /\ Round(c, "dead", "nothing")
    /\ work' = IF nats THEN [work EXCEPT ![c] = NoWork] ELSE work
    /\ UNCHANGED <<alive, missed>>

-----------------------------------------------------------------------------
(* The end of the process                                                  *)

Terminate ==
    /\ stage # "off"
    /\ ~term
    /\ terms < MaxTerms
    /\ term' = TRUE
    /\ terms' = terms + 1
    /\ UNCHANGED <<nats, outages, stage, registry, checkin, watchers, due, entry,
                   controllerVars, found>>

\* Run waits for the reconciler's round and closes the stream.
RunReturns ==
    /\ stage = "running"
    /\ term
    /\ \A c \in Controllers : found[c] = "nothing"
    /\ stage' = "closed"
    /\ UNCHANGED <<nats, outages, term, terms, registry, checkin, watchers, due, entry,
                   controllerVars, found>>

\* The server is shut down, and the process ends with an error, because
\* ListenAndServe returns ErrServerClosed, or with Run.
Exit ==
    /\ stage = "closed"
    /\ ProcessEnds
    /\ UNCHANGED <<nats, outages, terms, entry, controllerVars>>

-----------------------------------------------------------------------------
(* NATS, the controllers and time                                          *)

LoseNATS ==
    /\ nats
    /\ outages < MaxOutages
    /\ nats' = FALSE
    /\ outages' = outages + 1
    /\ UNCHANGED <<processVars, due, entry, controllerVars, found>>

RegainNATS ==
    /\ ~nats
    /\ nats' = TRUE
    /\ UNCHANGED <<outages, processVars, due, entry, controllerVars, found>>

\* A controller checks in once a period; it may report its progress as well.
ControllerCheckIn(c) ==
    /\ c \in due
    /\ IF nats
       THEN /\ CheckedIn(c)
            /\ missed' = [missed EXCEPT ![c] = 0]
            /\ \/ work[c] # NoWork /\ work' = [work EXCEPT ![c] = 0]
               \/ UNCHANGED work
       ELSE /\ due' = due \ {c}
            /\ missed' = [missed EXCEPT ![c] = IF @ < LivenessTTL THEN @ + 1 ELSE @]
            /\ UNCHANGED <<entry, work>>
    /\ UNCHANGED <<nats, outages, processVars, alive, found>>

TakeWork(c) ==
    /\ nats
    /\ alive[c]
    /\ work[c] = NoWork
    /\ work' = [work EXCEPT ![c] = 0]
    /\ UNCHANGED <<nats, outages, processVars, due, entry, alive, missed, found>>

FinishWork(c) ==
    /\ nats
    /\ alive[c]
    /\ work[c] # NoWork
    /\ work' = [work EXCEPT ![c] = NoWork]
    /\ UNCHANGED <<nats, outages, processVars, due, entry, alive, missed, found>>

Die(c) ==
    /\ alive[c]
    /\ alive' = [alive EXCEPT ![c] = FALSE]
    /\ due' = due \ {c}
    /\ UNCHANGED <<nats, outages, processVars, entry, missed, work, found>>

\* A period passes when all that are up have tried to check in.
TimePasses ==
    /\ due = {}
    /\ due' = {c \in Controllers : alive[c]} \cup {m \in {Orc} : checkin = "ticking"}
    /\ entry' = [m \in Members |-> IF Registered(m) THEN entry[m] + 1 ELSE entry[m]]
    /\ work' = [c \in Controllers |-> IF work[c] < StatusStale THEN work[c] + 1 ELSE work[c]]
    /\ UNCHANGED <<nats, outages, processVars, alive, missed, found>>

-----------------------------------------------------------------------------
StartUp ==
    \/ StartProcess \/ OpenStream \/ NewStore \/ NewServer
    \/ InitializeRegistry \/ StartUpdateMonitor

CheckinRoutine == FirstRegistration \/ CheckIn \/ Deregister \/ Register \/ StopCheckIn

KeyWatchers == WatchConditionStatus \/ StopWatchers

ReconcilerRound(c) == ListStale(c) \/ AskRegistry(c) \/ Reconcile(c)

Next ==
    \/ StartUp
    \/ CheckinRoutine
    \/ KeyWatchers \/ LoseSubscription
    \/ \E c \in Controllers :
          \/ ReconcilerRound(c) \/ ControllerCheckIn(c)
          \/ TakeWork(c) \/ FinishWork(c) \/ Die(c)
    \/ Terminate \/ RunReturns \/ Exit
    \/ LoseNATS \/ RegainNATS
    \/ TimePasses

Spec == Init /\ [][Next]_vars

\* Every goroutine goes on, the supervisor restarts the process, an outage
\* ends, and time passes.
Fairness ==
    /\ WF_vars(StartUp)
    /\ WF_vars(CheckinRoutine)
    /\ WF_vars(KeyWatchers)
    /\ \A c \in Controllers : WF_vars(ReconcilerRound(c)) /\ WF_vars(ControllerCheckIn(c))
    /\ WF_vars(RunReturns)
    /\ WF_vars(Exit)
    /\ WF_vars(RegainNATS)
    /\ WF_vars(TimePasses)

FairSpec == Spec /\ Fairness

-----------------------------------------------------------------------------
(* Properties *)

\* Every variable holds a value of its kind.
TypeOK ==
    /\ nats \in BOOLEAN /\ term \in BOOLEAN /\ registry \in BOOLEAN
    /\ outages \in 0 .. MaxOutages /\ terms \in 0 .. MaxTerms
    /\ stage \in {"off", "stream", "store", "routes", "registry", "statusKV", "running", "closed"}
    /\ checkin \in {"off", "starting", "ticking", "deregister", "register"}
    /\ watchers \in {"off", "starting", "watching", "lost"}
    /\ due \subseteq Members
    /\ entry \in [Members -> 0 .. LivenessTTL]
    /\ alive \in [Controllers -> BOOLEAN]
    /\ missed \in [Controllers -> 0 .. LivenessTTL]
    /\ work \in [Controllers -> 0 .. NoWork]
    /\ found \in [Controllers -> {"nothing", "stale", "dead"}]

\* The reconciler takes a controller for dead only if it is, or if the
\* controller's check-ins failed for as long as LivenessStaleThreshold allows:
\* no outage that is shorter, no restart and no failed lookup of the
\* orchestrator itself costs a controller its work.
LiveSpared ==
    [][\A c \in Controllers :
          found[c] # "dead" /\ found'[c] = "dead" /\ alive[c] => missed[c] >= LivenessStale]_vars

\* The orchestrator's entry never expires while its check-in routine ticks: a
\* check-in that fails is made good in the same period, or ends the process.
RegistrationKept ==
    [][checkin = "ticking" /\ checkin' = "ticking" /\ Registered(Orc) => Registered(Orc)']_vars

\* The condition of a controller that died is failed in the end, whatever
\* restarts and outages come in between, unless the orchestrator runs with a
\* registry that it could not initialise.
DeadReconciled ==
    \A c \in Controllers :
        ~alive[c] /\ work[c] # NoWork
            ~> work[c] = NoWork \/ (stage = "running" /\ ~registry)

\* While its check-in routine runs, the orchestrator does not stay unregistered.
StaysRegistered == checkin # "off" ~> Registered(Orc) \/ checkin = "off"

=============================================================================
