--------------------------- MODULE Service_proofs ---------------------------
(***************************************************************************)
(* Proofs about Service, for any number of controllers, outages and        *)
(* terminations, and any thresholds: who is taken for dead by the          *)
(* reconciler, and that the orchestrator's own entry does not expire.      *)
(***************************************************************************)
EXTENDS Service, TLAPS

\* The check-ins a living controller owes its registry entry: those that
\* failed, and the one of this period if it is still to come.
Owed(c) == missed[c] + (IF c \in due THEN 1 ELSE 0)

\* The entry of a living controller is no older than its failed check-ins.
ContactInv == \A c \in Controllers : alive[c] => entry[c] <= Owed(c)

\* While the routine ticks, the entry of the orchestrator is from this period
\* or, if its check-in is still to come, from the one before; or it has expired,
\* because there was never one.
TokenInv ==
    checkin = "ticking" /\ Registered(Orc) => entry[Orc] <= (IF Orc \in due THEN 1 ELSE 0)

\* There is no check-in routine before the registry was initialised, and no
\* entry before the routine's first registration.
Starting == stage \in {"stream", "store", "routes", "registry"}
RoutineInv ==
    /\ stage = "off" \/ Starting => checkin = "off"
    /\ Starting \/ checkin = "starting" => ~Registered(Orc)

ServiceInv == TypeOK /\ ContactInv /\ TokenInv /\ RoutineInv

USE DEF processVars, controllerVars

-----------------------------------------------------------------------------
(* Types                                                                   *)

\* What the end of the process leaves of the types.
LEMMA EndTypes ==
  ASSUME TypeOK, ProcessEnds
  PROVE  /\ stage' = "off" /\ term' = FALSE /\ registry' = FALSE /\ checkin' = "off"
         /\ watchers' = "off"
         /\ due' \subseteq due
         /\ \A c \in Controllers : c \in due => c \in due'
         /\ found' \in [Controllers -> {"nothing", "stale", "dead"}]
         /\ \A c \in Controllers : found'[c] = "nothing"
BY MembersAssumption DEF ProcessEnds, TypeOK

\* A start call that succeeds goes on to another stage, one that fails ends
\* the process.
LEMMA ProceedTypes ==
  ASSUME TypeOK, NEW from, NEW to \in {"store", "routes", "registry"}, Proceed(from, to)
  PROVE  TypeOK'
<1>1. CASE nats
  BY <1>1 DEF Proceed, TypeOK
<1>2. CASE ~nats
  BY <1>2, EndTypes DEF Proceed, TypeOK
<1> QED
  BY <1>1, <1>2

LEMMA StartUpTypes == ASSUME TypeOK, StartUp PROVE TypeOK'
<1>1. CASE StartProcess
  BY <1>1, PeriodsAssumption DEF StartProcess, TypeOK, Members
<1>2. CASE OpenStream \/ NewStore \/ NewServer
  BY <1>2, ProceedTypes DEF OpenStream, NewStore, NewServer, initTaskKVImpl
<1>3. CASE InitializeRegistry
  BY <1>3 DEF InitializeRegistry, TypeOK
<1>4. CASE StartUpdateMonitor /\ (term \/ nats)
  BY <1>4 DEF StartUpdateMonitor, TypeOK
<1>5. CASE StartUpdateMonitor /\ ~(term \/ nats)
  BY <1>5, EndTypes DEF StartUpdateMonitor, TypeOK
<1> QED
  BY <1>1, <1>2, <1>3, <1>4, <1>5 DEF StartUp

LEMMA CheckinTypes == ASSUME TypeOK, CheckinRoutine PROVE TypeOK'
<1>1. CASE FirstRegistration
  BY <1>1, PeriodsAssumption DEF FirstRegistration, TypeOK, Members
<1>2. CASE CheckIn
  BY <1>2, PeriodsAssumption DEF CheckIn, CheckedIn, TypeOK, Members
<1>3. CASE (Deregister \/ Register) /\ Bail
  <2>1. UNCHANGED <<nats, outages, terms, entry, controllerVars>>
    BY <1>3 DEF Deregister, Register, Bail
  <2> QED
    BY <1>3, <2>1, EndTypes DEF Bail, TypeOK
<1>4. CASE Deregister /\ ~Bail
  BY <1>4, PeriodsAssumption DEF Deregister, TypeOK, Members
<1>5. CASE Register /\ ~Bail
  BY <1>5, PeriodsAssumption DEF Register, CheckedIn, TypeOK, Members
<1>6. CASE StopCheckIn
  BY <1>6 DEF StopCheckIn, TypeOK
<1> QED
  BY <1>1, <1>2, <1>3, <1>4, <1>5, <1>6 DEF CheckinRoutine

LEMMA WatcherTypes == ASSUME TypeOK, KeyWatchers \/ LoseSubscription PROVE TypeOK'
<1>1. CASE WatchConditionStatus /\ ProcessEnds
  BY <1>1, EndTypes DEF WatchConditionStatus, TypeOK
<1>2. CASE WatchConditionStatus /\ ~ProcessEnds
  BY <1>2 DEF WatchConditionStatus, TypeOK
<1>3. CASE LoseSubscription \/ StopWatchers
  BY <1>3 DEF LoseSubscription, StopWatchers, WatchersTo, TypeOK
<1> QED
  BY <1>1, <1>2, <1>3 DEF KeyWatchers

LEMMA RoundTypes ==
  ASSUME TypeOK, NEW c \in Controllers, ReconcilerRound(c)
  PROVE  TypeOK'
<1> USE DEF TypeOK, Round
<1>1. CASE ListStale(c)
  BY <1>1 DEF ListStale
<1>2. CASE AskRegistry(c)
  BY <1>2 DEF AskRegistry
<1>3. CASE Reconcile(c)
  BY <1>3, PeriodsAssumption DEF Reconcile, NoWork
<1> QED
  BY <1>1, <1>2, <1>3 DEF ReconcilerRound

LEMMA ControllerTypes ==
  ASSUME TypeOK, NEW c \in Controllers,
         ControllerCheckIn(c) \/ TakeWork(c) \/ FinishWork(c) \/ Die(c)
  PROVE  TypeOK'
<1> USE PeriodsAssumption DEF TypeOK, NoWork, Members
<1>1. CASE ControllerCheckIn(c)
  BY <1>1 DEF ControllerCheckIn, CheckedIn
<1>2. CASE TakeWork(c)
  BY <1>2 DEF TakeWork
<1>3. CASE FinishWork(c)
  BY <1>3 DEF FinishWork
<1>4. CASE Die(c)
  BY <1>4 DEF Die
<1> QED
  BY <1>1, <1>2, <1>3, <1>4

LEMMA SurroundingsTypes ==
  ASSUME TypeOK, Terminate \/ RunReturns \/ Exit \/ LoseNATS \/ RegainNATS \/ TimePasses
  PROVE  TypeOK'
<1> USE BoundsAssumption DEF TypeOK
<1>1. CASE Terminate
  BY <1>1 DEF Terminate
<1>2. CASE RunReturns
  BY <1>2 DEF RunReturns
<1>3. CASE Exit
  BY <1>3, EndTypes DEF Exit
<1>4. CASE LoseNATS
  <2>1. nats' = FALSE /\ outages' \in 0 .. MaxOutages
    BY <1>4 DEF LoseNATS
  <2> QED
    BY <1>4, <2>1 DEF LoseNATS
<1>5. CASE RegainNATS
  BY <1>5 DEF RegainNATS
<1>6. CASE TimePasses
  <2>1. due' \subseteq Members
    BY <1>6 DEF TimePasses, Members
  <2>2. entry' \in [Members -> 0 .. LivenessTTL]
    BY <1>6, PeriodsAssumption DEF TimePasses, Registered
  <2>3. work' \in [Controllers -> 0 .. NoWork]
    BY <1>6, PeriodsAssumption DEF TimePasses, NoWork
  <2> QED
    BY <1>6, <2>1, <2>2, <2>3 DEF TimePasses
<1> QED
  BY <1>1, <1>2, <1>3, <1>4, <1>5, <1>6

LEMMA TypeStep == TypeOK /\ [Next]_vars => TypeOK'
<1> SUFFICES ASSUME TypeOK, [Next]_vars PROVE TypeOK'
  OBVIOUS
<1>1. CASE UNCHANGED vars
  BY <1>1 DEF vars, TypeOK
<1> QED
  BY <1>1, StartUpTypes, CheckinTypes, WatcherTypes, RoundTypes, ControllerTypes, SurroundingsTypes DEF Next

-----------------------------------------------------------------------------
(* Check-ins                                                               *)

\* No step but those of the controllers and of time makes a controller owe its
\* entry less.
LEMMA ContactKept ==
  ASSUME TypeOK, ContactInv,
         UNCHANGED <<alive, missed>>,
         \A c \in Controllers : entry'[c] = entry[c] /\ (c \in due => c \in due')
  PROVE  ContactInv'
BY DEF ContactInv, Owed, TypeOK, Members

LEMMA ContactStep == ServiceInv /\ [Next]_vars => ContactInv'
<1> SUFFICES ASSUME TypeOK, ContactInv, [Next]_vars PROVE ContactInv'
  BY DEF ServiceInv
<1>0. \A c \in Controllers : c \in Members /\ c # Orc
  BY MembersAssumption DEF Members
<1>1. CASE StartUp
  <2>1. CASE StartProcess
    BY <1>0, <2>1, ContactKept DEF StartProcess, TypeOK
  <2>2. ASSUME NEW from, NEW to, Proceed(from, to) PROVE ContactInv'
    BY <2>2, EndTypes, ContactKept DEF Proceed
  <2>3. CASE InitializeRegistry
    BY <2>3, ContactKept DEF InitializeRegistry
  <2>4. CASE StartUpdateMonitor
    BY <2>4, EndTypes, ContactKept DEF StartUpdateMonitor
  <2> QED
    BY <1>1, <2>1, <2>2, <2>3, <2>4
    DEF StartUp, OpenStream, NewStore, NewServer, initTaskKVImpl
<1>2. CASE CheckinRoutine
  <2>1. UNCHANGED <<alive, missed>>
    BY <1>2 DEF CheckinRoutine, FirstRegistration, CheckIn, Deregister, Register, StopCheckIn
  <2>2. ASSUME NEW c \in Controllers PROVE entry'[c] = entry[c] /\ (c \in due => c \in due')
    <3>1. CASE Bail
      BY <3>1, EndTypes DEF Bail
    <3> QED
      BY <1>0, <1>2, <3>1
      DEF CheckinRoutine, FirstRegistration, CheckIn, Deregister, Register, StopCheckIn,
          CheckedIn, TypeOK
  <2> QED
    BY <2>1, <2>2, ContactKept
<1>3. ASSUME NEW c \in Controllers, ReconcilerRound(c) PROVE ContactInv'
  BY <1>3, ContactKept
  DEF ReconcilerRound, ListStale, AskRegistry, Reconcile, Round
<1>4. ASSUME NEW c \in Controllers, ControllerCheckIn(c) PROVE ContactInv'
  <2>1. CASE nats
    BY <1>0, <1>4, <2>1, PeriodsAssumption DEF ControllerCheckIn, CheckedIn, ContactInv, Owed, TypeOK
  <2>2. CASE ~nats
    BY <1>0, <1>4, <2>2, PeriodsAssumption DEF ControllerCheckIn, ContactInv, Owed, TypeOK
  <2> QED
    BY <2>1, <2>2
<1>5. ASSUME NEW c \in Controllers, TakeWork(c) \/ FinishWork(c) PROVE ContactInv'
  BY <1>5, ContactKept DEF TakeWork, FinishWork
<1>6. ASSUME NEW c \in Controllers, Die(c) PROVE ContactInv'
  BY <1>0, <1>6 DEF Die, ContactInv, Owed, TypeOK
<1>7. CASE Terminate \/ RunReturns \/ LoseNATS \/ RegainNATS
  BY <1>7, ContactKept DEF Terminate, RunReturns, LoseNATS, RegainNATS
<1>8. CASE Exit
  BY <1>8, EndTypes, ContactKept DEF Exit
<1>9. CASE TimePasses
  BY <1>0, <1>9, PeriodsAssumption DEF TimePasses, Registered, ContactInv, Owed, TypeOK
<1>10. CASE UNCHANGED vars
  BY <1>10, ContactKept DEF vars
<1>11. CASE KeyWatchers \/ LoseSubscription
  BY <1>11, EndTypes, ContactKept
  DEF KeyWatchers, WatchConditionStatus, LoseSubscription, StopWatchers, WatchersTo
<1> QED
  BY <1>1, <1>2, <1>3, <1>4, <1>5, <1>6, <1>7, <1>8, <1>9, <1>10, <1>11 DEF Next

\* The entry of the orchestrator: only time ages it, and time passes only when
\* the check-in of the period is done.
LEMMA TokenStep == ServiceInv /\ [Next]_vars => TokenInv'
<1> SUFFICES ASSUME TypeOK, TokenInv, RoutineInv, [Next]_vars,
                    checkin' = "ticking", Registered(Orc)'
             PROVE  entry'[Orc] <= (IF Orc \in due' THEN 1 ELSE 0)
  BY DEF ServiceInv, TokenInv
<1>0. /\ Orc \in Members /\ LivenessTTL \in Nat /\ ~ProcessEnds
      /\ \A c \in Controllers : c # Orc /\ c \in Members
  BY MembersAssumption, PeriodsAssumption DEF Members, ProcessEnds
<1>1. ASSUME checkin = "ticking", entry'[Orc] = entry[Orc], Orc \in due' <=> Orc \in due
      PROVE  entry'[Orc] <= (IF Orc \in due' THEN 1 ELSE 0)
  BY <1>1 DEF TokenInv, Registered
<1>2. CASE StartUp
  <2>1. CASE StartProcess
    BY <1>0, <2>1, PeriodsAssumption DEF StartProcess, Registered, TypeOK
  <2>2. CASE ~StartProcess
    BY <1>0, <1>1, <1>2, <2>2
    DEF StartUp, OpenStream, NewStore, NewServer, initTaskKVImpl, Proceed,
        InitializeRegistry, StartUpdateMonitor
  <2> QED
    BY <2>1, <2>2
<1>3. CASE CheckinRoutine
  <2>1. CASE FirstRegistration
    BY <1>0, <2>1 DEF FirstRegistration, TypeOK, Registered, RoutineInv
  <2>2. CASE CheckIn \/ Register
    BY <1>0, <2>2 DEF CheckIn, Register, CheckedIn, Bail, TypeOK
  <2>3. CASE Deregister \/ StopCheckIn
    BY <1>0, <2>3 DEF Deregister, StopCheckIn, Bail
  <2> QED
    BY <1>3, <2>1, <2>2, <2>3 DEF CheckinRoutine
<1>4. CASE KeyWatchers \/ LoseSubscription
  BY <1>0, <1>1, <1>4
  DEF KeyWatchers, WatchConditionStatus, LoseSubscription, StopWatchers, WatchersTo
<1>5. ASSUME NEW c \in Controllers, ReconcilerRound(c) PROVE entry'[Orc] <= (IF Orc \in due' THEN 1 ELSE 0)
  BY <1>1, <1>5 DEF ReconcilerRound, ListStale, AskRegistry, Reconcile, Round
<1>6. ASSUME NEW c \in Controllers,
             ControllerCheckIn(c) \/ TakeWork(c) \/ FinishWork(c) \/ Die(c)
      PROVE  entry'[Orc] <= (IF Orc \in due' THEN 1 ELSE 0)
  BY <1>0, <1>1, <1>6 DEF ControllerCheckIn, CheckedIn, TakeWork, FinishWork, Die, TypeOK
<1>7. CASE Terminate \/ RunReturns \/ Exit \/ LoseNATS \/ RegainNATS
  BY <1>0, <1>1, <1>7 DEF Terminate, RunReturns, Exit, LoseNATS, RegainNATS
<1>8. CASE TimePasses
  <2>1. checkin = "ticking" /\ Orc \notin due /\ Orc \in due' /\ Registered(Orc)
    BY <1>0, <1>8 DEF TimePasses, Registered, TypeOK
  <2>2. entry[Orc] <= 0 /\ entry'[Orc] = entry[Orc] + 1 /\ entry[Orc] \in Nat
    BY <1>0, <1>8, <2>1 DEF TimePasses, TokenInv, TypeOK
  <2> QED
    BY <2>1, <2>2
<1>9. CASE UNCHANGED vars
  BY <1>1, <1>9 DEF vars
<1> QED
  BY <1>2, <1>3, <1>4, <1>5, <1>6, <1>7, <1>8, <1>9 DEF Next

\* Only InitializeRegistry starts the routine, and only the routine registers.
LEMMA RoutineStep == ServiceInv /\ [Next]_vars => RoutineInv'
<1> SUFFICES ASSUME TypeOK, RoutineInv, [Next]_vars PROVE RoutineInv'
  BY DEF ServiceInv
<1> USE DEF RoutineInv, Starting
<1>0. /\ Orc \in Members /\ LivenessTTL \in Nat
      /\ \A c \in Controllers : c # Orc /\ c \in Members
  BY MembersAssumption, PeriodsAssumption DEF Members
<1>1. CASE ProcessEnds
  BY <1>1 DEF ProcessEnds
<1>2. CASE StartProcess
  BY <1>0, <1>2 DEF StartProcess, Registered, TypeOK
<1>3. CASE StartUp /\ ~StartProcess /\ ~ProcessEnds
  BY <1>3
  DEF StartUp, OpenStream, NewStore, NewServer, initTaskKVImpl, Proceed,
      InitializeRegistry, StartUpdateMonitor, Registered
<1>4. CASE CheckinRoutine /\ ~ProcessEnds
  <2>1. ~Starting /\ stage' = stage /\ checkin' # "starting" /\ checkin # "off"
    BY <1>4
    DEF CheckinRoutine, FirstRegistration, CheckIn, Deregister, Register, StopCheckIn, Bail
  <2> QED
    BY <2>1
<1>5. CASE (KeyWatchers \/ LoseSubscription) /\ ~ProcessEnds
  BY <1>5
  DEF KeyWatchers, WatchConditionStatus, LoseSubscription, StopWatchers, WatchersTo,
      Registered
<1>6. ASSUME NEW c \in Controllers,
             \/ ReconcilerRound(c) \/ ControllerCheckIn(c)
             \/ TakeWork(c) \/ FinishWork(c) \/ Die(c)
      PROVE  RoutineInv'
  BY <1>0, <1>6
  DEF ReconcilerRound, ListStale, AskRegistry, Reconcile, Round, ControllerCheckIn,
      CheckedIn, TakeWork, FinishWork, Die, Registered, TypeOK
<1>7. CASE Terminate \/ RunReturns \/ LoseNATS \/ RegainNATS
  BY <1>7 DEF Terminate, RunReturns, LoseNATS, RegainNATS, Registered
<1>8. CASE TimePasses
  BY <1>0, <1>8 DEF TimePasses, Registered, TypeOK
<1>9. CASE UNCHANGED vars
  BY <1>9 DEF vars, Registered
<1> QED
  BY <1>1, <1>2, <1>3, <1>4, <1>5, <1>6, <1>7, <1>8, <1>9 DEF Next, Exit

-----------------------------------------------------------------------------
(* Theorems                                                                *)

LEMMA ServiceInit == Init => ServiceInv
<1> SUFFICES ASSUME Init PROVE ServiceInv
  OBVIOUS
<1>1. \A c \in Controllers : c # Orc
  BY MembersAssumption
<1>2. entry \in [Members -> 0 .. LivenessTTL] /\ \A c \in Controllers : entry[c] = 0
  BY <1>1, PeriodsAssumption DEF Init, Members
<1>3. TypeOK
  <2>1. nats \in BOOLEAN /\ term \in BOOLEAN /\ registry \in BOOLEAN
    BY DEF Init
  <2>2. alive \in [Controllers -> BOOLEAN]
    BY DEF Init
  <2>3. missed \in [Controllers -> 0 .. LivenessTTL] /\ work \in [Controllers -> 0 .. NoWork]
    BY PeriodsAssumption DEF Init, NoWork
  <2>4. outages \in 0 .. MaxOutages /\ terms \in 0 .. MaxTerms /\ due \subseteq Members
    BY BoundsAssumption DEF Init
  <2>5. found \in [Controllers -> {"nothing", "stale", "dead"}]
    BY DEF Init
  <2> QED
    BY <1>2, <2>1, <2>2, <2>3, <2>4, <2>5 DEF Init, TypeOK
<1>4. ContactInv
  BY <1>2 DEF Init, ContactInv, Owed
<1>5. TokenInv
  BY DEF Init, TokenInv
<1>6. RoutineInv
  BY DEF Init, RoutineInv, Starting
<1> QED
  BY <1>3, <1>4, <1>5, <1>6 DEF ServiceInv

LEMMA ServiceInvariant == Spec => []ServiceInv
<1>1. ServiceInv /\ [Next]_vars => ServiceInv'
  BY TypeStep, ContactStep, TokenStep, RoutineStep DEF ServiceInv
<1> QED
  BY <1>1, ServiceInit, PTL DEF Spec

\* The process, its registry entry and what the reconciler knows of controllers
\* keep their types, and the ages of entries their bounds.
THEOREM ServiceTypeCorrect == Spec => []TypeOK
<1>1. ServiceInv => TypeOK
  BY DEF ServiceInv
<1> QED
  BY <1>1, ServiceInvariant, PTL

\* Whatever the thresholds, and however often NATS is lost or the orchestrator
\* restarts, the reconciler fails the condition of a living controller only
\* after LivenessStale of its check-ins in a row have failed.
THEOREM LiveControllersSpared == Spec => LiveSpared
<1>1. ASSUME ServiceInv, Next, NEW c \in Controllers, found[c] # "dead", found'[c] = "dead", alive[c]
      PROVE  missed[c] >= LivenessStale
  <2>1. LastContactTooOld(c)
    <3>1. ASSUME ProcessEnds PROVE FALSE
      BY <1>1, <3>1 DEF ProcessEnds
    <3>2. \E d \in Controllers : ReconcilerRound(d)
      BY <1>1, <3>1
      DEF Next, StartUp, StartProcess, OpenStream, NewStore, NewServer, initTaskKVImpl,
          StartUpdateMonitor, Proceed, InitializeRegistry, CheckinRoutine, FirstRegistration,
          CheckIn, Deregister, Register, StopCheckIn, Bail, KeyWatchers, WatchConditionStatus,
          LoseSubscription, StopWatchers, WatchersTo, ControllerCheckIn, TakeWork, FinishWork, Die, Terminate, RunReturns, Exit, LoseNATS, RegainNATS, TimePasses
    <3> QED
      BY <1>1, <3>2
      DEF ReconcilerRound, ListStale, AskRegistry, Reconcile, Round, ServiceInv, TypeOK
  <2>2. entry[c] > LivenessStale
    BY <2>1, PeriodsAssumption, <1>1 DEF LastContactTooOld, Registered, ServiceInv, TypeOK, Members
  <2> QED
    BY <1>1, <2>2, PeriodsAssumption DEF ServiceInv, ContactInv, Owed, TypeOK, Members
<1>2. ServiceInv /\ [Next]_vars =>
        [\A c \in Controllers :
            found[c] # "dead" /\ found'[c] = "dead" /\ alive[c] => missed[c] >= LivenessStale]_vars
  BY <1>1
<1> QED
  BY <1>2, ServiceInvariant, PTL DEF Spec, LiveSpared

\* Whatever the time to live, outages and restarts, the orchestrator's entry in
\* the registry does not expire while its check-in routine ticks.
THEOREM EntryKept == Spec => RegistrationKept
<1> DEFINE Kept == checkin = "ticking" /\ checkin' = "ticking" /\ Registered(Orc)
                      => Registered(Orc)'
<1>1. ASSUME ServiceInv, Next, checkin = "ticking", checkin' = "ticking", Registered(Orc)
      PROVE  Registered(Orc)'
  <2>1. /\ Orc \in Members /\ TypeOK /\ TokenInv /\ ~ProcessEnds
        /\ LivenessTTL \in Nat /\ LivenessTTL >= 2
        /\ \A c \in Controllers : c # Orc
    BY <1>1, MembersAssumption, PeriodsAssumption DEF Members, ServiceInv, ProcessEnds
  <2>2. entry'[Orc] = entry[Orc] \/ entry'[Orc] = 0 \/ TimePasses
    <3>1. CASE StartUp
      <4>1. ~StartProcess
        BY <1>1 DEF StartProcess, ServiceInv, RoutineInv, Starting
      <4> QED
        BY <2>1, <3>1, <4>1
        DEF StartUp, OpenStream, NewStore, NewServer, initTaskKVImpl, Proceed,
            InitializeRegistry, StartUpdateMonitor
    <3>2. CASE CheckinRoutine
      BY <1>1, <2>1, <3>2
      DEF CheckinRoutine, FirstRegistration, CheckIn, CheckedIn, Deregister, Register,
          StopCheckIn, Bail, TypeOK
    <3>3. CASE KeyWatchers \/ LoseSubscription
      BY <3>3
      DEF KeyWatchers, WatchConditionStatus, LoseSubscription, StopWatchers, WatchersTo
    <3>4. ASSUME NEW c \in Controllers,
                 \/ ReconcilerRound(c) \/ ControllerCheckIn(c)
                 \/ TakeWork(c) \/ FinishWork(c) \/ Die(c)
          PROVE  entry'[Orc] = entry[Orc]
      BY <2>1, <3>4
      DEF ReconcilerRound, ListStale, AskRegistry, Reconcile, Round, ControllerCheckIn,
          CheckedIn, TakeWork, FinishWork, Die, TypeOK
    <3> QED
      BY <1>1, <3>1, <3>2, <3>3, <3>4
      DEF Next, Terminate, RunReturns, Exit, LoseNATS, RegainNATS
  <2>3. CASE TimePasses
    BY <1>1, <2>1, <2>3 DEF TimePasses, TokenInv, Registered, TypeOK
  <2> QED
    BY <1>1, <2>1, <2>2, <2>3 DEF Registered
<1>2. ServiceInv /\ [Next]_vars => [Kept]_vars
  BY <1>1
<1> QED
  BY <1>2, ServiceInvariant, PTL DEF Spec, RegistrationKept

=============================================================================
