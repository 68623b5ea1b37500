--------------------------- MODULE LifecycleProofs ---------------------------
(***************************************************************************)
(* Streaming implements CaptureLifecycle, for any number of devices and    *)
(* transfers: six of its actions are steps of the lifecycle, everything    *)
(* else the threads do is not seen there.  And a capture that nothing      *)
(* disturbs is complete.                                                   *)
(***************************************************************************)
EXTENDS StreamingCounts, StreamingRefines

\* A device that start() has launched since it was called.
Launched(d) == d \in Busy \cup Finished

\* start() launches the devices in order, and only a started session ends.
LaunchInv ==
  /\ pc[User] \in StartPCs => session = "stopped" /\ \A d \in Devices : ~Ahead(d) => Launched(d)
  /\ pc[User] \in EndPCs \cup {"cancel"} => session = "started"
  /\ session = "started" => \A d \in Devices : Launched(d)

\* A device is busy exactly while it owes a completion, and m_active_devices
\* counts the busy devices.
BusyExact ==
  /\ Busy = {d \in Devices : ~Rest(d)}
  /\ Cardinality(Busy) = Counted

\* What the counts prove, as these proofs use it.
Booked == TypeOK /\ LockInv /\ DebtInv /\ ExactInv /\ BusyExact

-----------------------------------------------------------------------------
(* Busy devices *)

\* Drained or not, a device whose callback has not counted it out owes.
LEMMA BusyRests ==
  ASSUME TypeOK, LockInv, DebtInv, NEW d \in Devices
  PROVE  d \in Busy <=> ~Rest(d)
<1>a. ThreadShape /\ pc[d] \in KickPCs /\ pc[Usb] \in UsbPCs /\ "in" \in Dirs /\ "out" \in Dirs
  BY ThreadShapes DEF LockInv, ControlOK, Dirs
<1>b. NumActiveExact /\ pc[Usb] # "compStore"
  BY DEF DebtInv, Untorn
<1>1. ASSUME Rest(d)
      PROVE  Drained(d) /\ ~InCallback(d)
  <2>1. Drained(d)
    BY <1>1, <1>b, RestDrained
  <2>2. ASSUME InCallback(d)
        PROVE  FALSE
    <3>1. pc[Usb] = "cbLock" /\ cb.dev = d
      BY <1>1, <1>a, <1>b, <2>2
      DEF InCallback, UsbPCs, CompletionPCs, BodyPCs, Rest, Engaged, HandleErrorPCs
    <3>2. numActive[<<d, cb.dir>>] = Cardinality(flight[<<d, cb.dir>>]) + 1
      BY <1>a, <1>b, <3>1 DEF NumActiveExact, ThreadShape
    <3>3. numActive[<<d, cb.dir>>] # 0
      BY <1>a, <3>2, FlightFinite DEF ThreadShape
    <3> QED BY <1>1, <1>a, <3>3 DEF Rest, Engaged, ThreadShape
  <2> QED BY <2>1, <2>2
<1>2. ASSUME Drained(d), ~InCallback(d)
      PROVE  Rest(d)
  <2>1. pc[d] = "none" /\ \A dir \in Dirs : flight[<<d, dir>>] = {}
    BY <1>2 DEF Drained, Dirs
  <2>2. ~(pc[Usb] \in BodyPCs \cup {"cbLock"} /\ cb.dev = d)
    BY <1>2 DEF InCallback, BodyPCs, HandleErrorPCs
  <2>3. ASSUME NEW dir \in Dirs
        PROVE  numActive[<<d, dir>>] = 0
    <3>1. flight[<<d, dir>>] = {} /\ ~(pc[Usb] = "cbLock" /\ cb.dev = d)
      BY <2>1, <2>2
    <3>2. numActive[<<d, dir>>] = Cardinality(flight[<<d, dir>>]) + 0
      BY <1>b, <3>1 DEF NumActiveExact
    <3> QED BY <3>1, <3>2, FS_EmptySet
  <2> QED BY <2>1, <2>2, <2>3 DEF Rest, Engaged, Spawned, KickHolds, HandleErrorPCs
<1> QED BY <1>1, <1>2 DEF Busy

\* As many are busy as m_active_devices counts.
LEMMA BusyCounted ==
  ASSUME TypeOK, LockInv, DebtInv, ExactInv, SubmitsWork
  PROVE  BusyExact
<1>1. Busy = {d \in Devices : ~Rest(d)}
  BY BusyRests DEF Busy
<1>2. Busy = EngagedDevices \cup SpawnedDevices /\ EngagedDevices \cap SpawnedDevices = {}
  <2>1. \A d \in Devices : Spawned(d) => ~Engaged(d)
    BY DEF ExactInv, Begun, Fresh, Spawned, Engaged, KickHolds, HandleErrorPCs
  <2> QED BY <1>1, <2>1 DEF EngagedDevices, SpawnedDevices, Rest
<1>3. /\ IsFiniteSet(EngagedDevices) /\ IsFiniteSet(SpawnedDevices)
      /\ Cardinality(EngagedDevices) \in Nat /\ Cardinality(SpawnedDevices) \in Nat
  BY Sizes DEF EngagedDevices, SpawnedDevices
<1>4. Cardinality(Busy) = Owed
  <2>1. Cardinality(EngagedDevices \cup SpawnedDevices)
          = Cardinality(EngagedDevices) + Cardinality(SpawnedDevices) - Cardinality({})
    BY <1>2, <1>3, FS_Union
  <2> QED BY <1>2, <1>3, <2>1, FS_EmptySet DEF Owed
<1>5. Counted \in Int
  BY CounterType, StreamingAssumption DEF Counted, TypeOK, SessionTypeOK
<1> QED BY <1>1, <1>4, <1>5, OwedType DEF DebtInv, ExactInv, BusyExact

\* Where no device gets busy and the count stays, the busy devices stay.
LEMMA SameBusy ==
  ASSUME BusyExact, BusyExact', RestStays, Counted' = Counted
  PROVE  Busy' = Busy
<1>1. Busy' \in SUBSET Busy
  BY DEF BusyExact, RestStays
<1>2. IsFiniteSet(Busy)
  BY Sizes DEF BusyExact
<1> QED BY <1>1, <1>2, FS_Subset DEF BusyExact

\* A step that moves neither the caller nor a device is none of the lifecycle.
LEMMA Stutters ==
  ASSUME BusyExact, BusyExact', RestStays, Counted' = Counted, calls' = calls, Phase' = Phase
  PROVE  UNCHANGED Lifecycle!vars /\ \A d \in Devices : Launched(d)' = Launched(d)
<1>1. Busy' = Busy /\ Finished' = Finished
  BY SameBusy DEF Finished
<1> QED BY <1>1 DEF Lifecycle!vars, Launched

-----------------------------------------------------------------------------
(* The user's thread *)

LifecycleStep == [Lifecycle!Next]_(Lifecycle!vars)

\* A step of the user's thread that starts no kickoff.
LEMMA UserBusy ==
  ASSUME TransfersStay
  PROVE  Busy' = Busy
<1>1. \A d \in Devices : Drained(d)' = Drained(d) /\ InCallback(d)' = InCallback(d)
  BY DEF TransfersStay, Drained, InCallback
<1> QED BY <1>1 DEF Busy

\* start(): every device rests, is launched in its turn, and all of them are
\* launched when it returns.
LEMMA StartSteps ==
  ASSUME Booked, Booked', LaunchInv, MildFaults,
         \/ \E n \in Counts, isRun \in BOOLEAN : CallStart(n, isRun)
         \/ \E d \in Devices : DeviceOn(d) \/ DeviceRun(d) \/ DeviceReset(d)
         \/ Activate \/ ActivateStore
  PROVE  LifecycleStep /\ LaunchInv'
<1>a. ThreadShape /\ TypeOK /\ ExactInv /\ DebtInv /\ BusyExact
  BY ThreadShapes DEF Booked
<1>b. /\ cur[User] \in 1 .. N /\ cur \in [Threads -> Devices] /\ Devices = 1 .. N
      /\ N \in Nat
  BY <1>a, ThreadFacts, StreamingAssumption DEF TypeOK, ThreadsTypeOK, Devices
<1>c. "torn" \notin Faults /\ Faults \cap {"ctrl", "nodev"} = {}
  BY DEF MildFaults, TameFaults, PlainCounter
<1>1. ASSUME NEW n \in Counts, NEW isRun \in BOOLEAN, CallStart(n, isRun)
      PROVE  LifecycleStep /\ LaunchInv'
  <2>1. /\ pc[User] = "idle" /\ pc'[User] = "on" /\ session = "stopped" /\ session' = session
        /\ calls' = [d \in Devices |-> 0] /\ cur' = cur
    BY <1>1, <1>a, ThreadFacts DEF ThreadShape, CallStart, UserIdle, Goto, ExactInv, TypeOK,
       SessionTypeOK
  <2>2. TransfersStay
    BY <1>1, <1>a, ThreadFacts DEF ThreadShape, CallStart, Goto, TransfersStay, usbVars
  <2>3. Busy = {} /\ Busy' = Busy
    BY <1>a, <2>1, <2>2, UserBusy DEF BusyExact, ExactInv, Over, StartPCs
  <2>4. Finished' = {}
    BY <2>1 DEF Finished
  <2>5. Phase = "stopped" /\ Phase' = "starting"
    BY <2>1 DEF Phase, StartPCs, EndPCs
  <2>6. Lifecycle!Start
    BY <2>3, <2>4, <2>5 DEF Lifecycle!Start
  <2>7. cur'[User] = 1
    BY <1>a, <2>1 DEF DebtInv, CursorHome
  <2>8. LaunchInv'
    BY <1>b, <2>1, <2>7 DEF LaunchInv, Ahead, EndPCs
  <2> QED BY <2>6, <2>8 DEF LifecycleStep, Lifecycle!Next
<1>2. ASSUME NEW d \in Devices, DeviceOn(d)
      PROVE  LifecycleStep /\ LaunchInv'
  <2>1. /\ pc[User] = "on" /\ pc'[User] = "run"
        /\ UNCHANGED <<cur, calls, session>>
    BY <1>2, <1>a, <1>c, ThreadFacts DEF ThreadShape, DeviceOn, Goto, history
  <2>2. TransfersStay
    BY <1>2, <1>a, <1>c, ThreadFacts DEF ThreadShape, DeviceOn, Goto, TransfersStay, usbVars
  <2>3. Busy' = Busy /\ Finished' = Finished
    BY <2>1, <2>2, UserBusy DEF Finished
  <2>4. Phase' = Phase
    BY <2>1 DEF Phase, StartPCs, EndPCs
  <2>5. LaunchInv'
    BY <2>1, <2>3 DEF LaunchInv, Launched, Ahead, StartPCs, EndPCs
  <2> QED BY <2>3, <2>4, <2>5 DEF LifecycleStep, Lifecycle!vars
<1>6. ASSUME NEW d \in Devices, DeviceRun(d)
      PROVE  LifecycleStep /\ LaunchInv'
  <2>1. /\ pc[User] = "run" /\ pc'[User] = "reset"
        /\ UNCHANGED <<cur, calls, session>>
    BY <1>6, <1>a, <1>c, ThreadFacts DEF ThreadShape, DeviceRun, Goto, history
  <2>2. TransfersStay
    BY <1>6, <1>a, <1>c, ThreadFacts DEF ThreadShape, DeviceRun, Goto, TransfersStay, usbVars
  <2>3. Busy' = Busy /\ Finished' = Finished
    BY <2>1, <2>2, UserBusy DEF Finished
  <2>4. Phase' = Phase
    BY <2>1 DEF Phase, StartPCs, EndPCs
  <2>5. LaunchInv'
    BY <2>1, <2>3 DEF LaunchInv, Launched, Ahead, StartPCs, EndPCs
  <2> QED BY <2>3, <2>4, <2>5 DEF LifecycleStep, Lifecycle!vars
<1>3. ASSUME NEW d \in Devices, DeviceReset(d)
      PROVE  LifecycleStep /\ LaunchInv'
  <2>1. /\ pc[User] = "reset" /\ cur[User] = d /\ pc[d] = "none"
        /\ pc' = [pc EXCEPT ![User] = "inc", ![d] = "kLock"]
        /\ UNCHANGED <<flight, cb, cur, calls, session>>
    BY <1>3 DEF DeviceReset, usbVars, userVars, history
  <2>2. /\ pc'[User] = "inc" /\ pc'[d] = "kLock" /\ pc'[Usb] = pc[Usb]
        /\ \A e \in Devices : e # d => pc'[e] = pc[e]
    BY <1>a, <2>1, ThreadFacts DEF ThreadShape
  <2>3. /\ \A e \in Devices : e # d => Drained(e)' = Drained(e)
        /\ \A e \in Devices : InCallback(e)' = InCallback(e)
        /\ ~Drained(d)'
    BY <2>1, <2>2 DEF Drained, InCallback
  <2>4. Busy' = Busy \cup {d} /\ Finished' = Finished
    BY <2>1, <2>3 DEF Busy, Finished
  <2>5. d \notin Busy /\ d \notin Finished
    BY <1>a, <1>b, <2>1 DEF BusyExact, ExactInv, StartPCs, Ahead, Finished
  <2>6. Phase = "starting" /\ Phase' = "starting"
    BY <2>1, <2>2 DEF Phase, StartPCs, EndPCs
  <2>7. Lifecycle!Launch(d)
    BY <2>4, <2>5, <2>6 DEF Lifecycle!Launch
  <2>8. \A e \in Devices : ~Ahead(e)' => Launched(e)'
    <3> SUFFICES ASSUME NEW e \in Devices, ~Ahead(e)'
                 PROVE  Launched(e)'
      OBVIOUS
    <3>1. e <= d
      BY <1>b, <2>1, <2>2 DEF Ahead
    <3>2. e = d \/ ~Ahead(e)
      BY <1>b, <2>1, <3>1 DEF Ahead
    <3> QED BY <2>1, <2>4, <3>2 DEF LaunchInv, Launched, StartPCs
  <2>9. LaunchInv'
    BY <2>1, <2>2, <2>8 DEF LaunchInv, StartPCs, EndPCs
  <2> QED BY <2>7, <2>9 DEF LifecycleStep, Lifecycle!Next
<1>4. CASE Activate
  <2>1. /\ pc[User] = "inc" /\ NextDevice /\ calls' = calls
        /\ UNCHANGED <<flight, cb>>
    BY <1>4, <1>c DEF Activate, usbVars, history
  <2>2. TransfersStay
    BY <1>4, <1>a, <1>c, ThreadFacts
    DEF ThreadShape, Activate, NextDevice, StartReturns, Goto, TransfersStay, usbVars
  <2>3. Busy' = Busy /\ Finished' = Finished
    BY <2>1, <2>2, UserBusy DEF Finished
  <2>4. /\ session = "stopped"
        /\ \A e \in Devices : e <= cur[User] => Launched(e)'
    BY <1>b, <2>1, <2>3 DEF LaunchInv, Launched, Ahead, StartPCs
  <2>5. CASE cur[User] = N
    <3>1. pc'[User] \in {"idle", "end"} /\ session' = "started"
      BY <1>a, <2>1, <2>5, ThreadFacts DEF NextDevice, StartReturns, ThreadShape
    <3>2. \A e \in Devices : Launched(e)'
      BY <1>b, <2>4, <2>5
    <3>3. Phase = "starting" /\ Phase' = "running"
      BY <2>1, <3>1 DEF Phase, StartPCs, EndPCs
    <3>4. Busy \cup Finished = Devices
      BY <2>3, <3>2 DEF Launched, Busy, Finished
    <3>5. Lifecycle!Started
      BY <2>3, <3>3, <3>4 DEF Lifecycle!Started
    <3>6. LaunchInv'
      BY <3>1, <3>2 DEF LaunchInv, StartPCs
    <3> QED BY <3>5, <3>6 DEF LifecycleStep, Lifecycle!Next
  <2>6. CASE cur[User] # N
    <3>1. pc'[User] = "on" /\ cur'[User] = cur[User] + 1 /\ session' = session
      BY <1>a, <1>b, <2>1, <2>6, ThreadFacts DEF NextDevice, Goto, ThreadShape
    <3>2. Phase' = Phase
      BY <2>1, <3>1 DEF Phase, StartPCs, EndPCs
    <3>3. \A e \in Devices : ~Ahead(e)' => e <= cur[User]
      BY <1>b, <3>1 DEF Ahead
    <3>4. LaunchInv'
      BY <2>4, <3>1, <3>3 DEF LaunchInv, StartPCs, EndPCs
    <3> QED BY <2>3, <3>2, <3>4 DEF LifecycleStep, Lifecycle!vars
  <2> QED BY <2>5, <2>6
<1>5. CASE ActivateStore
  BY <1>5, <1>a DEF ActivateStore, DebtInv, Untorn
<1> QED BY <1>1, <1>2, <1>3, <1>4, <1>5, <1>6

\* Where start() is not involved only End and Ended are steps of the
\* lifecycle.
LEMMA CallSteps ==
  ASSUME Booked, Booked', LaunchInv, MildFaults, Calls \/ UserStep
  PROVE  LifecycleStep /\ LaunchInv'
<1>a. ThreadShape /\ TypeOK /\ LockInv /\ ExactInv /\ DebtInv /\ BusyExact /\ BusyExact'
  BY ThreadShapes DEF Booked
<1>b. ASSUME TransfersStay, calls' = calls
      PROVE  Busy' = Busy /\ Finished' = Finished /\ \A d \in Devices : Launched(d)' = Launched(d)
  BY <1>b, UserBusy DEF Finished, Launched
<1>c. ASSUME TransfersStay, UNCHANGED <<calls, session>>,
             pc[User] \in EndPCs \cup {"cancel", "idle"},
             pc'[User] \in EndPCs \cup {"cancel", "idle"},
             pc'[User] # "idle" => session = "started"
      PROVE  LaunchInv'
  BY <1>b, <1>c DEF LaunchInv, StartPCs, EndPCs
<1>d. ASSUME TransfersStay, UNCHANGED <<calls, session>>, session = "started",
             pc[User] \in EndPCs \cup {"cancel", "idle"},
             pc'[User] \in EndPCs \cup {"cancel", "idle"},
             Phase' = Phase
      PROVE  LifecycleStep /\ LaunchInv'
  BY <1>b, <1>c, <1>d DEF LifecycleStep, Lifecycle!vars
<1>1. CASE Configure
  <2>1. UNCHANGED <<pc, cur, ret, cb, calls, activeDevices, session>> /\ pc[User] = "idle"
    BY <1>1 DEF Configure, UserIdle, threadVars, countVars, userVars, history
  <2>2. \A d \in Devices, dir \in Dirs : numActive'[<<d, dir>>] = 0
    BY <1>1 DEF Configure, NewTransfers
  <2>3. RestStays
    BY <2>1, <2>2 DEF RestStays, Rest, Engaged, Spawned, KickHolds
  <2>4. Counted' = Counted /\ Phase' = Phase
    BY <2>1 DEF Counted, Phase
  <2>5. UNCHANGED Lifecycle!vars /\ \A d \in Devices : Launched(d)' = Launched(d)
    BY <1>a, <2>1, <2>3, <2>4, Stutters
  <2> QED BY <2>1, <2>5 DEF LifecycleStep, LaunchInv, StartPCs, EndPCs
<1>2. CASE CallCancel
  <2>1. /\ pc[User] = "idle" /\ pc'[User] = "cancel" /\ ret'[User] = "idle"
        /\ session = "started" /\ UNCHANGED <<calls, session>>
    BY <1>2, <1>a, ThreadFacts DEF ThreadShape, CallCancel, UserIdle, userVars, history,
       ExactInv, TypeOK, SessionTypeOK
  <2>2. TransfersStay
    BY <1>2, <1>a, ThreadFacts DEF ThreadShape, CallCancel, TransfersStay, usbVars
  <2>3. Phase' = Phase
    BY <2>1 DEF Phase, StartPCs, EndPCs
  <2> QED BY <1>d, <2>1, <2>2, <2>3
<1>3. CASE CallEnd
  <2>1. /\ pc[User] = "idle" /\ pc'[User] = "end"
        /\ session = "started" /\ UNCHANGED <<calls, session>>
    BY <1>3, <1>a, ThreadFacts DEF ThreadShape, CallEnd, Goto, UserIdle, userVars, history,
       ExactInv, TypeOK, SessionTypeOK
  <2>2. TransfersStay
    BY <1>3, <1>a, ThreadFacts DEF ThreadShape, CallEnd, Goto, TransfersStay, usbVars
  <2>3. Phase' = Phase
    BY <2>1 DEF Phase, StartPCs, EndPCs
  <2> QED BY <1>d, <2>1, <2>2, <2>3 DEF EndPCs
<1>4. ASSUME NEW d \in Devices, CancelStep(d)
      PROVE  LifecycleStep /\ LaunchInv'
  <2>1. /\ pc[User] = "cancel" /\ pc'[User] \in {"cancel", ret[User]}
        /\ ret[User] \in {"idle", "endLock"} /\ ret' = ret
        /\ session = "started" /\ UNCHANGED <<calls, session>>
    BY <1>4, <1>a, ThreadFacts DEF ThreadShape, CancelStep, Goto, LockInv, ControlOK,
       userVars, history, LaunchInv
  <2>2. TransfersStay
    BY <1>4, <1>a, ThreadFacts DEF ThreadShape, CancelStep, Goto, TransfersStay
  <2>3. Phase' = Phase
    BY <2>1 DEF Phase, StartPCs, EndPCs
  <2> QED BY <1>d, <2>1, <2>2, <2>3 DEF EndPCs
<1>5. ASSUME NEW d \in Devices, DeviceOff(d)
      PROVE  LifecycleStep /\ LaunchInv'
  <2>1. /\ pc[User] = "off" /\ session = "started" /\ calls' = calls
        /\ \/ pc'[User] = "off" /\ session' = session
           \/ pc'[User] = "idle" /\ session' = "stopped"
    BY <1>5, <1>a, ThreadFacts DEF ThreadShape, DeviceOff, OffNext, EndReturns, history,
       LaunchInv, EndPCs
  <2>2. TransfersStay
    BY <1>5, <1>a, ThreadFacts DEF ThreadShape, DeviceOff, OffNext, EndReturns,
       TransfersStay, usbVars
  <2>3. CASE pc'[User] = "off" /\ session' = session
    <3>1. Phase' = Phase
      BY <2>1, <2>3 DEF Phase, StartPCs, EndPCs
    <3> QED BY <1>d, <2>1, <2>2, <2>3, <3>1 DEF EndPCs
  <2>4. CASE pc'[User] = "idle" /\ session' = "stopped"
    <3>1. Phase = "ending" /\ Phase' = "stopped"
      BY <2>1, <2>4 DEF Phase, StartPCs, EndPCs
    <3>2. Busy = {}
      BY <1>a, <2>1 DEF BusyExact, ExactInv, Over
    <3>3. Finished = Devices
      BY <2>1, <3>2 DEF LaunchInv, Launched, Finished
    <3>4. Lifecycle!Ended
      BY <1>b, <2>1, <2>2, <3>1, <3>3 DEF Lifecycle!Ended
    <3>5. LaunchInv'
      BY <2>4 DEF LaunchInv, StartPCs, EndPCs
    <3> QED BY <3>4, <3>5 DEF LifecycleStep, Lifecycle!Next
  <2> QED BY <2>1, <2>3, <2>4
<1>6. CASE EndBegins
  <2>1. /\ pc[User] = "end" /\ session = "started" /\ UNCHANGED <<calls, session>>
        /\ \/ pc'[User] = "cancel" /\ ret'[User] = "endLock"
           \/ pc'[User] = "endLock"
    BY <1>6, <1>a, ThreadFacts DEF ThreadShape, EndBegins, Goto, userVars, history,
       LaunchInv, EndPCs
  <2>2. TransfersStay
    BY <1>6, <1>a, ThreadFacts DEF ThreadShape, EndBegins, Goto, TransfersStay, usbVars
  <2>3. Phase = "running" /\ Phase' = "ending"
    BY <2>1 DEF Phase, StartPCs, EndPCs
  <2>4. Lifecycle!End
    BY <1>b, <2>1, <2>2, <2>3 DEF Lifecycle!End
  <2>5. LaunchInv'
    BY <1>c, <2>1, <2>2 DEF EndPCs
  <2> QED BY <2>4, <2>5 DEF LifecycleStep, Lifecycle!Next
<1>7. CASE EndLock \/ EndCheck \/ EndBlock \/ EndTimeout \/ EndWake
  <2>1. EndUnchanged
    BY <1>7 DEF EndLock, EndCheck, EndBlock, EndTimeout, EndWake
  <2>2. PICK l \in EndPCs \ {"end"} : pc' = [pc EXCEPT ![User] = l]
    BY <1>7 DEF EndLock, EndCheck, EndBlock, EndTimeout, EndWake, Goto, EndPCs
  <2>3. pc[User] \in EndPCs \ {"end"}
    BY <1>7 DEF EndLock, EndCheck, EndBlock, EndTimeout, EndWake, EndPCs
  <2>4. TransfersStay /\ pc'[User] = l
    BY <1>a, <2>1, <2>2, ThreadFacts DEF ThreadShape, EndUnchanged, TransfersStay, usbVars
  <2>5. session = "started" /\ UNCHANGED <<calls, session>>
    BY <2>1, <2>3 DEF EndUnchanged, userVars, history, LaunchInv
  <2>6. Phase' = Phase
    BY <2>3, <2>4 DEF Phase, StartPCs, EndPCs
  <2> QED BY <1>d, <2>3, <2>4, <2>5, <2>6
<1> QED
  BY <1>1, <1>2, <1>3, <1>4, <1>5, <1>6, <1>7, StartSteps DEF Calls, UserStep

-----------------------------------------------------------------------------
(* The other threads *)

\* What another thread leaves the caller, a completion() apart.
Beside ==
  /\ UserStays /\ ret'[User] = ret[User]
  /\ UNCHANGED <<session, activeDevices, calls>>

\* Such a step is none of the lifecycle if no device gets busy.
LEMMA BesideSteps ==
  ASSUME Booked, Booked', LaunchInv, RestStays, Beside
  PROVE  LifecycleStep /\ LaunchInv'
<1>1. BusyExact /\ BusyExact' /\ pc[User] \in UserPCs
  BY DEF Booked, LockInv, ControlOK
<1>2. Counted' = Counted /\ calls' = calls
  BY DEF Beside, UserStays, Counted
<1>3. Phase' = Phase
  BY DEF Beside, UserStays, Phase, StartPCs, EndPCs
<1>4. UNCHANGED Lifecycle!vars /\ \A d \in Devices : Launched(d)' = Launched(d)
  BY <1>1, <1>2, <1>3, Stutters
<1>5. LaunchInv'
  BY <1>4 DEF LaunchInv, Beside, UserStays, Ahead, StartPCs, EndPCs
<1> QED BY <1>4, <1>5 DEF LifecycleStep

\* handle_error, on either thread.
LEMMA HandleErrorBeside ==
  ASSUME TypeOK, NEW th \in Devices \cup {Usb}, HandleError(th)
  PROVE  Beside
<1>a. ThreadShape /\ th \in Threads /\ th # User /\ cur \in [Threads -> Devices]
  BY ThreadShapes, ThreadFacts DEF TypeOK, ThreadsTypeOK
<1>1. CASE HandleErrorLock(th)
  BY <1>1, <1>a, ThreadFacts
  DEF ThreadShape, HandleErrorLock, Goto, Beside, UserStays, countVars, userVars, history
<1>2. CASE HandleErrorCancel(th)
  <2>1. \E k : cur' = [cur EXCEPT ![th] = k]
    BY <1>2 DEF HandleErrorCancel
  <2>2. cur'[User] = cur[User]
    BY <1>a, <2>1, ThreadFacts
  <2> QED
    BY <1>2, <1>a, <2>2, ThreadFacts
    DEF ThreadShape, HandleErrorCancel, Goto, Beside, UserStays, countVars, userVars, history
<1>3. CASE HandleErrorUnlock(th)
  BY <1>3, <1>a, ThreadFacts
  DEF ThreadShape, HandleErrorUnlock, Goto, Beside, UserStays, countVars, userVars, history
<1> QED BY <1>1, <1>2, <1>3 DEF HandleError

\* The kickoff submits for a device that is already busy.
LEMMA KickSteps ==
  ASSUME Booked, Booked', LaunchInv, MildFaults, NEW d \in Devices, KickStep(d)
  PROVE  LifecycleStep /\ LaunchInv'
<1>a. ThreadShape /\ TypeOK /\ TypeOK' /\ LockInv /\ DebtInv
  BY ThreadShapes DEF Booked
<1>1. RestStays
  BY <1>a, KickDebts
<1>2. Beside
  <2>1. CASE HandleError(d)
    BY <1>a, <2>1, HandleErrorBeside
  <2>2. CASE KickLock(d)
    BY <1>a, <2>2, ThreadFacts
    DEF ThreadShape, KickLock, Goto, Beside, UserStays, countVars, userVars, history
  <2>3. CASE KickIn(d)
    BY <1>a, <2>3, ThreadFacts
    DEF ThreadShape, KickIn, KickTurn, CallHandleError, Goto, Beside, UserStays, countVars,
        userVars, history
  <2>4. CASE KickOut(d)
    BY <1>a, <2>4, ThreadFacts
    DEF ThreadShape, KickOut, KickTurn, CallHandleError, Goto, Beside, UserStays, countVars,
        userVars, history
  <2>5. CASE KickEnd(d)
    BY <1>a, <2>5, ThreadFacts
    DEF ThreadShape, KickEnd, Goto, Beside, UserStays, countVars, userVars, history
  <2> QED BY <2>1, <2>2, <2>3, <2>4, <2>5 DEF KickStep
<1> QED BY <1>1, <1>2, BesideSteps

\* completion() finishes the device: it was busy, and rests from there on.
LEMMA CompletionFinishes ==
  ASSUME Booked, Booked', LaunchInv, MildFaults, CompletionDec
  PROVE  LifecycleStep /\ LaunchInv'
<1>a. ThreadShape /\ TypeOK /\ LockInv /\ DebtInv /\ ExactInv /\ BusyExact /\ BusyExact'
  BY ThreadShapes DEF Booked
<1>1. /\ pc[Usb] = "compDec" /\ pc' = [pc EXCEPT ![Usb] = "compRead"]
      /\ calls' = [calls EXCEPT ![cb.dev] = Lesser(@ + 1, 2)]
      /\ UNCHANGED <<cur, ret, cb, flight, session>>
  BY DEF CompletionDec, Goto, MildFaults, TameFaults, PlainCounter, usbVars, userVars
<1>2. /\ pc'[Usb] = "compRead" /\ pc'[User] = pc[User] /\ \A e \in Devices : pc'[e] = pc[e]
  BY <1>1, <1>a, ThreadFacts DEF ThreadShape
<1>3. cb.dev \in Busy
  BY <1>1, <1>a DEF Busy, InCallback, ThreadShape
<1>4. cb.dev \notin Busy'
  <2>1. ~KickHolds(cb.dev) /\ \A dir \in Dirs : numActive[<<cb.dev, dir>>] = 0
    BY <1>a, <1>1, ThreadFacts DEF LockInv, LockDiscipline, CompletionQuiet, UsbHolds,
       CompletionPCs, ThreadShape
  <2>2. ~Spawned(cb.dev)
    BY <1>a, <1>1 DEF Spawned, ExactInv, Begun, Fresh, BodyPCs, ThreadShape
  <2>3. numActive' = numActive
    BY DEF CompletionDec, usbVars
  <2>4. Rest(cb.dev)'
    BY <1>1, <1>2, <1>a, <2>1, <2>2, <2>3
    DEF Rest, Engaged, Spawned, KickHolds, BodyPCs, HandleErrorPCs, ThreadShape
  <2>5. cb' = cb
    BY <1>1
  <2> QED BY <1>a, <2>4, <2>5 DEF BusyExact
<1>5. Busy' = Busy \ {cb.dev}
  <2>1. \A e \in Devices : /\ Drained(e)' = Drained(e)
                           /\ e # cb.dev => (InCallback(e)' <=> InCallback(e))
    BY <1>1, <1>2 DEF Drained, InCallback
  <2> QED BY <1>4, <2>1 DEF Busy
<1>6. Finished' = Finished \cup {cb.dev}
  <2>1. /\ calls'[cb.dev] = 1
        /\ \A e \in Devices : e # cb.dev => calls'[e] = calls[e]
    BY <1>1, <1>3, <1>a DEF BusyExact, ExactInv, TypeOK, SessionTypeOK, Lesser
  <2> QED BY <1>a, <2>1 DEF Finished, ThreadShape
<1>7. Phase' = Phase
  BY <1>1, <1>2 DEF Phase
<1>8. Lifecycle!Finish(cb.dev) /\ cb.dev \in Devices
  BY <1>3, <1>5, <1>6, <1>7, <1>a DEF Lifecycle!Finish, ThreadShape
<1>9. \A d \in Devices : Launched(d) => Launched(d)'
  BY <1>5, <1>6 DEF Launched
<1>10. LaunchInv'
  BY <1>1, <1>2, <1>9 DEF LaunchInv, Ahead
<1> QED BY <1>8, <1>10 DEF LifecycleStep, Lifecycle!Next

\* The rest of the callback, and libusb's part of it, is not seen.
LEMMA UsbSteps ==
  ASSUME Booked, Booked', LaunchInv, MildFaults, UsbStep \/ LibusbStep
  PROVE  LifecycleStep /\ LaunchInv'
<1>a. ThreadShape /\ TypeOK /\ TypeOK' /\ LockInv /\ DebtInv
  BY ThreadShapes DEF Booked
<1>b. RestStays
  BY <1>a, UsbDebts, CallbackBegins DEF MildFaults, TameFaults
<1> USE <1>a DEF ThreadShape, Beside, UserStays
<1>1. CASE HandleError(Usb)
  BY <1>1, HandleErrorBeside, <1>b, BesideSteps
<1>2. ASSUME NEW d \in Devices, NEW dir \in Dirs, NEW t \in Slots, NEW s \in Statuses,
             LibusbComplete(d, dir, t, s)
      PROVE  Beside
  BY <1>2, ThreadFacts DEF LibusbComplete, Goto, countVars, userVars, history
<1>3. ASSUME CallbackLock PROVE Beside
  BY <1>3, ThreadFacts DEF CallbackLock, CallHandleError, Goto, Statuses, countVars, userVars,
     history
<1>4. ASSUME InBody PROVE Beside
  BY <1>4, ThreadFacts DEF InBody, CallbackTurn, CallHandleError, Goto, countVars, userVars,
     history
<1>5. ASSUME OutBody PROVE Beside
  BY <1>5, ThreadFacts DEF OutBody, CallbackTurn, CallHandleError, Goto, countVars, userVars,
     history
<1>6. ASSUME CallbackEnd PROVE Beside
  BY <1>6, ThreadFacts DEF CallbackEnd, Goto, countVars, userVars, history
<1>7. ASSUME CompletionRead PROVE Beside
  BY <1>7, ThreadFacts DEF CompletionRead, Goto, countVars, userVars, history
<1>8. ASSUME CompletionLock PROVE Beside
  BY <1>8, ThreadFacts DEF CompletionLock, Goto, countVars, userVars, history
<1>9. ASSUME CompletionNotify PROVE Beside
  BY <1>9, ThreadFacts DEF CompletionNotify, countVars, userVars
<1>10. CASE CompletionStore
  BY <1>10 DEF CompletionStore, DebtInv, Untorn
<1> QED
  BY <1>1, <1>2, <1>3, <1>4, <1>5, <1>6, <1>7, <1>8, <1>9, <1>10, <1>b, BesideSteps,
     CompletionFinishes DEF UsbStep, LibusbStep

-----------------------------------------------------------------------------
(* The refinement *)

\* At first nothing runs.
LEMMA InitLifecycle == Init => Lifecycle!Init /\ LaunchInv
<1> SUFFICES ASSUME Init
             PROVE  Lifecycle!Init /\ LaunchInv
  OBVIOUS
<1>1. /\ pc[User] = "idle" /\ pc[Usb] = "idle" /\ session = "stopped"
      /\ \A d \in Devices : /\ pc[d] = "none" /\ calls[d] = 0
                            /\ \A dir \in Dirs : flight[<<d, dir>>] = {}
  BY ThreadFacts DEF Init
<1>2. Busy = {} /\ Finished = {}
  <2>1. \A d \in Devices : flight[<<d, "in">>] = {} /\ flight[<<d, "out">>] = {}
    BY <1>1 DEF Dirs
  <2>2. \A d \in Devices : Drained(d) /\ ~InCallback(d) /\ ~(calls[d] > 0)
    BY <1>1, <2>1 DEF Drained, InCallback
  <2> QED BY <2>2 DEF Busy, Finished
<1>3. Phase = "stopped"
  BY <1>1 DEF Phase, StartPCs, EndPCs
<1> QED BY <1>1, <1>2, <1>3 DEF Lifecycle!Init, LaunchInv, StartPCs, EndPCs

\* Every step is one of the lifecycle, or none.
LEMMA NextLifecycle ==
  ASSUME MildFaults
  PROVE  Booked /\ Booked' /\ LaunchInv /\ [Next]_vars => LifecycleStep /\ LaunchInv'
<1> SUFFICES ASSUME Booked, Booked', LaunchInv, [Next]_vars
             PROVE  LifecycleStep /\ LaunchInv'
  OBVIOUS
<1>1. CASE Next
  BY <1>1, CallSteps, KickSteps, UsbSteps DEF Next
<1>2. CASE UNCHANGED vars
  <2>1. TransfersStay /\ UNCHANGED <<pc, cur, ret, calls, session>>
    BY <1>2 DEF vars, threadVars, usbVars, userVars, history, TransfersStay
  <2>2. Busy' = Busy /\ Finished' = Finished /\ Phase' = Phase
    BY <2>1, UserBusy DEF Finished, Phase
  <2> QED BY <2>1, <2>2 DEF LifecycleStep, Lifecycle!vars, LaunchInv, Launched, Ahead
<1> QED BY <1>1, <1>2

\* While no device stalls and no submission or control transfer fails, every
\* behaviour of the threads, locks and transfers is one the caller of Session
\* expects: start() finds nothing left of the last capture, each device is
\* launched once and finishes once, and end() returns after all of them did
\* (libsmu.hpp:193-260, session.cpp:537-696).
THEOREM LifecycleImplemented ==
  ASSUME MildFaults
  PROVE  Spec => ImplementsLifecycle
<1>1. TypeOK /\ LockInv /\ DebtInv /\ ExactInv => Booked
  BY BusyCounted DEF Booked, MildFaults
<1>2. Spec => []Booked
  <2>1. Spec => [](TypeOK /\ LockInv /\ DebtInv /\ ExactInv)
    BY ExactHeld DEF MildFaults
  <2> QED BY <1>1, <2>1, PTL
<1>3. Booked /\ Booked' /\ LaunchInv /\ [Next]_vars =>
        [Lifecycle!Next]_(Lifecycle!vars) /\ LaunchInv'
  BY NextLifecycle DEF LifecycleStep
<1> QED
  BY <1>2, <1>3, InitLifecycle, PTL DEF Spec, ImplementsLifecycle, Lifecycle!Spec

-----------------------------------------------------------------------------
(* A capture that nothing disturbs is complete                             *)

\* What the counts prove when submissions may fail.
Settled == TypeOK /\ LockInv /\ DebtInv /\ ExactInv

\* A cancelled transfer comes from a cancelled session: libusb is asked to
\* cancel only what it holds, and only on behalf of a cancellation.
MarkInv ==
  /\ \A x \in Devices \X Dirs : marked[x] \subseteq flight[x]
  /\ ~cancellation =>
       /\ \A x \in Devices \X Dirs : marked[x] = {}
       /\ \A th \in Threads : pc[th] \notin {"cancel", "heCancel"}
       /\ pc[Usb] = "cbLock" => cb.status # "cancelled"

\* From start() to the end of end().
Capturing == session = "started" \/ pc[User] \in StartPCs

\* Device d's capture need not be complete: the session is cancelled, or
\* about to be by d's own thread on its way into handle_error, or an
\* exception is stored.
Doomed(d) ==
  \/ cancellation \/ ePtr
  \/ pc[d] = "heLock" \/ (pc[Usb] = "heLock" /\ cb.dev = d)

\* A capture of d that start() has launched and nothing disturbs.
Live(d) == Capturing /\ (~Rest(d) \/ calls[d] > 0) /\ ~Doomed(d)

\* The input transfers of d whose samples are still to be counted: those
\* libusb holds, and the one in the hands of in_completion.
Handed(d)  == IF pc[Usb] = "cbBody" /\ cb.dev = d /\ cb.dir = "in" THEN 1 ELSE 0
Pending(d) == numActive[<<d, "in">>] + Handed(d)

\* What has been requested has arrived or is pending, requests stop in time,
\* and they do not stop early: a kickoff that is through has left something
\* pending unless everything is requested.
Balance(c, pending, kicked) ==
  c.count > 0 =>
    /\ c.req = c.ins + SPT * pending
    /\ c.got = Lesser(c.count, c.ins)
    /\ c.req < c.count + SPT
    /\ kicked /\ MoreIn(c) => pending # 0
Kicked(d) == pc[d] \notin {"kLock", "kIn"}

Books(d) == Live(d) => Balance(capture[d], Pending(d), Kicked(d))

BookInv == MarkInv /\ \A d \in Devices : Books(d)

-----------------------------------------------------------------------------
(* Marks *)

\* A step that marks nothing and starts no cancellation.
LEMMA MarksStay ==
  ASSUME MarkInv, marked' = marked, cancellation => cancellation',
         \A x \in Devices \X Dirs : flight[x] \subseteq flight'[x],
         cancellation' \/ \A th \in Threads :
           pc'[th] \in {"cancel", "heCancel"} => pc[th] \in {"cancel", "heCancel"},
         pc'[Usb] = "cbLock" => pc[Usb] = "cbLock" /\ cb' = cb
  PROVE  MarkInv'
BY DEF MarkInv

\* cancel() marks what libusb holds.
LEMMA CancelMarks ==
  ASSUME TypeOK, NEW th, NEW d \in Devices, NEW ok, CancelDevice(th, d, ok), MarkInv
  PROVE  \A x \in Devices \X Dirs : marked'[x] \subseteq flight[x]
<1>1. /\ marked \in [Devices \X Dirs -> SUBSET Slots]
      /\ \A x \in Devices \X Dirs : marked[x] \subseteq flight[x]
  BY DEF TypeOK, TransfersTypeOK, MarkInv
<1>2. \A dir \in Dirs : Cancellable(d, dir) \subseteq flight[<<d, dir>>]
  BY DEF Cancellable
<1>3. "in" \in Dirs /\ "out" \in Dirs
  BY DEF Dirs
<1>4. PICK i \in SUBSET Cancellable(d, "in"), o \in SUBSET Cancellable(d, "out") :
        marked' = [marked EXCEPT ![<<d, "in">>] = @ \cup i, ![<<d, "out">>] = @ \cup o]
  BY DEF CancelDevice
<1>5. /\ i \subseteq flight[<<d, "in">>] /\ o \subseteq flight[<<d, "out">>]
  BY <1>2, <1>3
<1> QED BY <1>1, <1>3, <1>4, <1>5

\* A submission only adds to what libusb holds.
LEMMA SubmittedAdds ==
  ASSUME TypeOK, NEW d \in Devices, NEW dir \in Dirs, NEW t, NEW r,
         Submitted(d, dir, t, r) \/ UNCHANGED flight
  PROVE  \A x \in Devices \X Dirs : flight[x] \subseteq flight'[x]
<1>1. flight \in [Devices \X Dirs -> SUBSET Slots]
  BY DEF TypeOK, TransfersTypeOK
<1>2. flight' = flight \/ flight' = [flight EXCEPT ![<<d, dir>>] = @ \cup {t}]
  BY DEF Submitted
<1> QED BY <1>1, <1>2

\* Also as the kickoff and the callbacks make it.
LEMMA SubmitAdds ==
  ASSUME TypeOK, NEW d \in Devices, NEW t, NEW r,
         (\E c : SubmitIn(d, t, c, r)) \/ SubmitOut(d, t, r)
  PROVE  \A x \in Devices \X Dirs : flight[x] \subseteq flight'[x]
<1>1. \E dir \in Dirs : Submitted(d, dir, t, r) \/ UNCHANGED flight
  <2>1. ASSUME NEW c, SubmitIn(d, t, c, r)
        PROVE  Submitted(d, "in", t, r) \/ UNCHANGED flight
    BY <2>1 DEF SubmitIn
  <2>2. ASSUME SubmitOut(d, t, r)
        PROVE  Submitted(d, "out", t, r) \/ UNCHANGED flight
    BY <2>2 DEF SubmitOut
  <2> QED BY <2>1, <2>2 DEF Dirs
<1> QED BY <1>1, SubmittedAdds

\* The user's thread: a start() finds nothing marked and nobody cancelling.
LEMMA UserMarks ==
  ASSUME Settled, Settled', MarkInv, TameFaults, Calls \/ UserStep
  PROVE  MarkInv'
<1>a. ThreadShape /\ TypeOK /\ LockInv /\ ExactInv /\ DebtInv /\ cancellation \in BOOLEAN
  BY ThreadShapes DEF Settled, TypeOK, SessionTypeOK
<1>b. "torn" \notin Faults /\ Faults \cap {"ctrl", "nodev"} = {}
  BY DEF TameFaults, PlainCounter
<1>c. ASSUME UNCHANGED <<marked, flight, cb>>, pc'[Usb] = pc[Usb], cancellation => cancellation',
             \A d \in Devices : pc'[d] = pc[d] \/ pc'[d] = "kLock",
             pc'[User] \in {"cancel", "heCancel"} => cancellation'
      PROVE  MarkInv'
  <2>1. \A th \in Threads : th = User \/ th = Usb \/ th \in Devices
    BY DEF Threads
  <2>2. cancellation' \/ \A th \in Threads :
          pc'[th] \in {"cancel", "heCancel"} => pc[th] \in {"cancel", "heCancel"}
    BY <1>c, <2>1
  <2> QED BY <1>c, <2>2, MarksStay
<1>1. CASE Configure
  <2>1. /\ UNCHANGED <<pc, cb, cancellation>>
        /\ \A x \in Devices \X Dirs : marked'[x] = {} /\ flight'[x] = {}
    BY <1>1 DEF Configure, NewTransfers, threadVars, flagVars
  <2> QED BY <2>1 DEF MarkInv
<1>2. ASSUME NEW n \in Counts, NEW isRun \in BOOLEAN, CallStart(n, isRun)
      PROVE  MarkInv'
  <2>1. /\ pc[User] = "idle" /\ session = "stopped" /\ pc' = [pc EXCEPT ![User] = "on"]
        /\ UNCHANGED <<marked, flight, cb>>
    BY <1>2, <1>a DEF CallStart, UserIdle, Goto, ExactInv, TypeOK, SessionTypeOK, usbVars
  <2>2. /\ pc'[Usb] = pc[Usb] /\ pc'[User] = "on"
        /\ \A d \in Devices : pc'[d] = pc[d]
    BY <2>1, <1>a, ThreadFacts DEF ThreadShape
  <2>3. \A d \in Devices : Rest(d)
    BY <2>1, <1>a DEF ExactInv, Over, StartPCs
  <2>4. ASSUME NEW x \in Devices \X Dirs
        PROVE  marked[x] = {}
    <3>1. PICK d \in Devices, dir \in Dirs : x = <<d, dir>>
      OBVIOUS
    <3>2. flight[<<d, dir>>] = {}
      BY <2>3, <1>a, RestDrained DEF DebtInv, Drained, Dirs
    <3> QED BY <3>1, <3>2 DEF MarkInv
  <2>5. /\ pc[Usb] \notin {"cancel", "heCancel"}
        /\ \A d \in Devices : pc[d] \notin {"cancel", "heCancel"}
    <3>1. pc[Usb] \notin BodyPCs
      BY <2>3, <1>a DEF Rest, Engaged, ThreadShape
    <3>2. \A d \in Devices : ~KickHolds(d) /\ pc[d] \in KickPCs
      BY <2>3, <1>a DEF Rest, Engaged, LockInv, ControlOK
    <3>3. pc[Usb] \in UsbPCs
      BY <1>a DEF LockInv, ControlOK
    <3> QED BY <3>1, <3>2, <3>3
            DEF BodyPCs, KickHolds, HandleErrorPCs, KickPCs, UsbPCs, CompletionPCs
  <2>6. pc[Usb] # "cbLock"
    <3>1. Rest(cb.dev) /\ cb.dev \in Devices /\ cb.dir \in Dirs
      BY <2>3, <1>a DEF ThreadShape
    <3>2. flight[<<cb.dev, cb.dir>>] = {} /\ numActive[<<cb.dev, cb.dir>>] = 0
      BY <3>1, <1>a, RestDrained DEF DebtInv, Drained, Dirs, Rest, Engaged
    <3>3. Cardinality(flight[<<cb.dev, cb.dir>>]) = 0
      BY <3>2, FS_EmptySet
    <3> QED BY <3>1, <3>2, <3>3, <1>a DEF DebtInv, NumActiveExact
  <2>7. \A th \in Threads : pc'[th] \notin {"cancel", "heCancel"}
    BY <2>2, <2>5 DEF Threads
  <2>8. \A x \in Devices \X Dirs : marked'[x] = {} /\ flight'[x] = flight[x]
    BY <2>1, <2>4
  <2> QED BY <2>2, <2>6, <2>7, <2>8 DEF MarkInv
<1>3. ASSUME NEW d \in Devices, DeviceOn(d)
      PROVE  MarkInv'
  BY <1>3, <1>a, <1>b, <1>c, ThreadFacts DEF DeviceOn, Goto, ThreadShape, usbVars, flagVars
<1>4. ASSUME NEW d \in Devices, DeviceRun(d)
      PROVE  MarkInv'
  BY <1>4, <1>a, <1>b, <1>c, ThreadFacts DEF DeviceRun, Goto, ThreadShape, usbVars, flagVars
<1>17. ASSUME NEW d \in Devices, DeviceReset(d)
       PROVE  MarkInv'
  BY <1>17, <1>a, <1>b, <1>c, ThreadFacts DEF DeviceReset, ThreadShape, usbVars, flagVars
<1>5. CASE Activate
  BY <1>5, <1>a, <1>b, <1>c, ThreadFacts
  DEF Activate, NextDevice, StartReturns, Goto, ThreadShape, usbVars, flagVars
<1>6. CASE ActivateStore
  BY <1>6, <1>a DEF ActivateStore, DebtInv, Untorn
<1>7. CASE CallCancel
  BY <1>7, <1>a, <1>c, ThreadFacts DEF CallCancel, ThreadShape, usbVars
<1>8. CASE CallEnd
  BY <1>8, <1>a, <1>c, ThreadFacts DEF CallEnd, Goto, ThreadShape, usbVars, flagVars
<1>9. ASSUME NEW d \in Devices, CancelStep(d)
      PROVE  MarkInv'
  <2>1. cancellation
    BY <1>9, ThreadFacts DEF CancelStep, MarkInv
  <2>2. cancellation' /\ flight' = flight /\ \A x \in Devices \X Dirs : marked'[x] \subseteq flight[x]
    BY <1>9, <1>a, <2>1, CancelMarks DEF CancelStep, flagVars
  <2> QED BY <2>2 DEF MarkInv
<1>10. ASSUME NEW d \in Devices, DeviceOff(d)
      PROVE  MarkInv'
  BY <1>10, <1>a, <1>c, ThreadFacts DEF DeviceOff, OffNext, EndReturns, ThreadShape, usbVars
<1>11. CASE EndBegins
  BY <1>11, <1>a, <1>c, ThreadFacts DEF EndBegins, Goto, ThreadShape, usbVars
<1>12. CASE EndLock \/ EndCheck \/ EndBlock \/ EndTimeout \/ EndWake
  <2>1. EndUnchanged
    BY <1>12 DEF EndLock, EndCheck, EndBlock, EndTimeout, EndWake
  <2>2. PICK l \in EndPCs : pc' = [pc EXCEPT ![User] = l]
    BY <1>12 DEF EndLock, EndCheck, EndBlock, EndTimeout, EndWake, Goto, EndPCs
  <2> QED BY <1>a, <1>c, <2>1, <2>2, ThreadFacts
          DEF EndUnchanged, EndPCs, ThreadShape, usbVars, flagVars
<1> QED
  BY <1>1, <1>2, <1>3, <1>4, <1>5, <1>6, <1>7, <1>8, <1>9, <1>10, <1>11, <1>12, <1>17
  DEF Calls, UserStep

\* The other threads: libusb hands out what it holds, and as cancelled only
\* what is marked.
LEMMA OtherMarks ==
  ASSUME Settled, MarkInv, UsbStep \/ LibusbStep \/ \E d \in Devices : KickStep(d)
  PROVE  MarkInv'
<1>a. ThreadShape /\ TypeOK /\ DebtInv /\ cancellation \in BOOLEAN /\ LockInv
  BY ThreadShapes DEF Settled, TypeOK, SessionTypeOK
<1>b. /\ flight \in [Devices \X Dirs -> SUBSET Slots]
      /\ marked \in [Devices \X Dirs -> SUBSET Slots]
  BY <1>a DEF TypeOK, TransfersTypeOK
<1>c. ASSUME NEW th \in Devices \cup {Usb}, NEW l \in PCs \ {"cancel", "heCancel", "cbLock"},
             \/ pc' = [pc EXCEPT ![th] = l]
             \/ \E k : pc' = [pc EXCEPT ![th] = l, ![User] = k] /\ k \in {pc[User], "endWake"},
             marked' = marked, cancellation => cancellation',
             th # Usb \/ l # "cbLock", th # Usb => cb' = cb,
             \A x \in Devices \X Dirs : flight[x] \subseteq flight'[x]
      PROVE  MarkInv'
  <2>1. \A i \in Threads : pc'[i] \in {pc[i], l, "endWake"}
    BY <1>a, <1>c, ThreadFacts DEF ThreadShape
  <2>2. pc'[Usb] # "cbLock" \/ (pc'[Usb] = pc[Usb] /\ cb' = cb)
    BY <1>a, <1>c, ThreadFacts DEF ThreadShape
  <2>3. \A i \in Threads : pc'[i] \in {"cancel", "heCancel"} => pc[i] \in {"cancel", "heCancel"}
    BY <1>c, <2>1
  <2> QED BY <1>c, <2>2, <2>3, MarksStay
<1>d. PCs = UserPCs \cup UsbPCs \cup KickPCs /\ "in" \in Dirs /\ "out" \in Dirs
  BY DEF PCs, Dirs
<1>1. ASSUME NEW th \in Devices \cup {Usb}, HandleError(th)
      PROVE  MarkInv'
  <2>a. th \in Threads /\ pc[th] \in UsbPCs \cup KickPCs
    BY <1>a, ThreadFacts DEF LockInv, ControlOK
  <2>1. CASE HandleErrorLock(th)
    <3>1. cancellation' /\ UNCHANGED <<flight, marked>>
      BY <2>1 DEF HandleErrorLock, usbVars
    <3> QED BY <3>1 DEF MarkInv
  <2>2. CASE HandleErrorCancel(th)
    <3>1. cancellation /\ cancellation' = cancellation /\ flight' = flight
      BY <2>a, <2>2 DEF HandleErrorCancel, MarkInv, flagVars
    <3>2. PICK ok \in BOOLEAN : CancelDevice(th, cur[th], ok)
      BY <2>2 DEF HandleErrorCancel
    <3>3. cur[th] \in Devices
      BY <1>a, <2>a DEF TypeOK, ThreadsTypeOK
    <3>4. \A x \in Devices \X Dirs : marked'[x] \subseteq flight[x]
      BY <1>a, <3>2, <3>3, CancelMarks
    <3> QED BY <3>1, <3>4 DEF MarkInv
  <2>3. CASE HandleErrorUnlock(th)
    <3>1. /\ UNCHANGED <<marked, flight, cancellation, cb>>
          /\ pc' = [pc EXCEPT ![th] = ret[th]] /\ ret[th] \in {"cbEnd", "kOut", "kEnd"}
      BY <1>a, <2>a, <2>3 DEF HandleErrorUnlock, Goto, usbVars, flagVars, LockInv, ControlOK,
         HandleErrorPCs
    <3>2. ret[th] \in PCs \ {"cancel", "heCancel", "cbLock"}
      BY <1>d, <3>1 DEF UsbPCs, KickPCs
    <3> QED BY <1>c, <3>1, <3>2
  <2> QED BY <1>1, <2>1, <2>2, <2>3 DEF HandleError
<1>2. ASSUME NEW d \in Devices, KickStep(d)
      PROVE  MarkInv'
  <2>1. CASE KickLock(d)
    <3>1. /\ UNCHANGED <<marked, flight, cb, cancellation>>
          /\ pc' = [pc EXCEPT ![d] = "kIn"]
      BY <2>1 DEF KickLock, Goto, usbVars, flagVars
    <3>2. "kIn" \in PCs \ {"cancel", "heCancel", "cbLock"}
      BY <1>d DEF KickPCs
    <3> QED BY <1>c, <3>1, <3>2
  <2>2. ASSUME KickIn(d) \/ KickOut(d)
        PROVE  MarkInv'
    <3>1. UNCHANGED <<marked, cb, cancellation>>
      BY <2>2 DEF KickIn, KickOut, flagVars
    <3>2. PICK l \in {"kIn", "kOut", "kEnd", "heLock"} : pc' = [pc EXCEPT ![d] = l]
      BY <2>2 DEF KickIn, KickOut, KickTurn, CallHandleError, Goto
    <3>3. \A x \in Devices \X Dirs : flight[x] \subseteq flight'[x]
      BY <1>a, <2>2, SubmitAdds DEF KickIn, KickOut
    <3>4. l \in PCs \ {"cancel", "heCancel", "cbLock"}
      BY <1>d, <3>2 DEF KickPCs, HandleErrorPCs
    <3> QED BY <1>c, <3>1, <3>2, <3>3, <3>4
  <2>3. CASE KickEnd(d)
    <3>1. /\ UNCHANGED <<marked, flight, cb, cancellation>>
          /\ pc' = [pc EXCEPT ![d] = "none"]
      BY <2>3 DEF KickEnd, Goto, usbVars, flagVars
    <3>2. "none" \in PCs \ {"cancel", "heCancel", "cbLock"}
      BY <1>d DEF KickPCs
    <3> QED BY <1>c, <3>1, <3>2
  <2> QED BY <1>1, <1>2, <2>1, <2>2, <2>3 DEF KickStep
<1>3. ASSUME NEW d \in Devices, NEW dir \in Dirs, NEW t \in Slots, NEW s \in Statuses,
             LibusbComplete(d, dir, t, s)
      PROVE  MarkInv'
  <2>1. /\ flight' = [flight EXCEPT ![<<d, dir>>] = @ \ {t}]
        /\ marked' = [marked EXCEPT ![<<d, dir>>] = @ \ {t}]
        /\ cb'.status = s /\ pc' = [pc EXCEPT ![Usb] = "cbLock"]
        /\ cancellation' = cancellation
        /\ s = "cancelled" => t \in marked[<<d, dir>>]
    BY <1>3 DEF LibusbComplete, Goto, flagVars
  <2>2. \A x \in Devices \X Dirs : marked'[x] \subseteq flight'[x] /\ marked'[x] \subseteq marked[x]
    BY <1>b, <2>1 DEF MarkInv
  <2>3. \A i \in Threads : pc'[i] \in {pc[i], "cbLock"}
    BY <1>a, <2>1, ThreadFacts DEF ThreadShape
  <2>4. s = "cancelled" => cancellation
    BY <2>1 DEF MarkInv
  <2> QED BY <2>1, <2>2, <2>3, <2>4 DEF MarkInv
<1>4. CASE CallbackLock
  <2>1. UNCHANGED <<marked, flight, cancellation>>
    BY <1>4 DEF CallbackLock, flagVars
  <2>2. PICK l \in {"cbBody", "cbEnd", "heLock"} : pc' = [pc EXCEPT ![Usb] = l]
    BY <1>4, <1>a DEF ThreadShape, CallbackLock, Goto, CallHandleError, Statuses
  <2>3. l \in PCs \ {"cancel", "heCancel", "cbLock"}
    BY <1>d, <2>2 DEF UsbPCs, HandleErrorPCs
  <2> QED BY <1>c, <2>1, <2>2, <2>3
<1>5. ASSUME InBody \/ OutBody
      PROVE  MarkInv'
  <2>1. UNCHANGED <<marked, cancellation>>
    BY <1>5 DEF InBody, OutBody
  <2>2. PICK l \in {"cbEnd", "heLock"} : pc' = [pc EXCEPT ![Usb] = l]
    BY <1>5 DEF InBody, OutBody, CallbackTurn, CallHandleError, Goto
  <2>3. \A x \in Devices \X Dirs : flight[x] \subseteq flight'[x]
    <3>1. cb.dev \in Devices
      BY <1>a DEF ThreadShape
    <3>2. \/ UNCHANGED flight
          \/ \E r : (\E c : SubmitIn(cb.dev, cb.t, c, r)) \/ SubmitOut(cb.dev, cb.t, r)
      BY <1>5 DEF InBody, OutBody
    <3> QED BY <1>a, <3>1, <3>2, SubmitAdds
  <2>4. l \in PCs \ {"cancel", "heCancel", "cbLock"}
    BY <1>d, <2>2 DEF UsbPCs, HandleErrorPCs
  <2> QED BY <1>c, <2>1, <2>2, <2>3, <2>4
<1>6. ASSUME CallbackEnd \/ CompletionDec \/ CompletionStore \/ CompletionRead \/ CompletionLock
      PROVE  MarkInv'
  <2>1. UNCHANGED <<marked, flight, cancellation>>
    BY <1>6 DEF CallbackEnd, CompletionDec, CompletionStore, CompletionRead, CompletionLock,
       usbVars, flagVars
  <2>2. PICK l \in CompletionPCs \cup {"idle"} : pc' = [pc EXCEPT ![Usb] = l]
    BY <1>6 DEF CallbackEnd, CompletionDec, CompletionStore, CompletionRead, CompletionLock,
       Goto, CompletionPCs
  <2>3. l \in PCs \ {"cancel", "heCancel", "cbLock"}
    BY <1>d, <2>2 DEF UsbPCs, CompletionPCs
  <2> QED BY <1>c, <2>1, <2>2, <2>3
<1>7. CASE CompletionNotify
  <2>1. UNCHANGED <<marked, flight, cancellation>>
    BY <1>7 DEF CompletionNotify, usbVars, flagVars
  <2>2. \E k : pc' = [pc EXCEPT ![Usb] = "idle", ![User] = k] /\ k \in {pc[User], "endWake"}
    BY <1>7, <1>a, ThreadFacts DEF CompletionNotify, ThreadShape
  <2>3. "idle" \in PCs \ {"cancel", "heCancel", "cbLock"}
    BY <1>d DEF UsbPCs
  <2> QED BY <1>c, <2>1, <2>2, <2>3
<1> QED
  BY <1>1, <1>2, <1>3, <1>4, <1>5, <1>6, <1>7 DEF UsbStep, LibusbStep

-----------------------------------------------------------------------------
(* The balance of one capture *)

\* One more transfer is requested, as long as more is wanted.
LEMMA RequestBalances ==
  ASSUME NEW c \in CaptureType, NEW p \in Nat, Balance(c, p, FALSE), MoreIn(c), NEW k
  PROVE  Balance(Requested(c), p + 1, k)
<1>1. CASE c.count > 0
  <2>1. /\ c.count \in Nat /\ c.req \in Nat /\ c.ins \in Nat /\ SPT \in Nat /\ SPT > 0
    BY StreamingAssumption DEF CaptureType
  <2>2. /\ Requested(c).count = c.count /\ Requested(c).req = c.req + SPT
        /\ Requested(c).ins = c.ins /\ Requested(c).got = c.got
    BY <1>1, <2>1 DEF Requested, CaptureType
  <2>3. SPT * (p + 1) = SPT * p + SPT /\ SPT * p \in Nat
    BY <2>1
  <2>4. c.req + SPT = c.ins + SPT * (p + 1)
    BY <1>1, <2>1, <2>3 DEF Balance
  <2>5. c.req < c.count
    BY <1>1, <2>1 DEF MoreIn
  <2> QED BY <1>1, <2>1, <2>2, <2>4, <2>5 DEF Balance
<1>2. CASE ~(c.count > 0)
  BY <1>2 DEF Balance, Requested, CaptureType
<1> QED BY <1>1, <1>2

\* A pending transfer arrives in full.
LEMMA ArrivalBalances ==
  ASSUME NEW c \in CaptureType, NEW p \in Nat, NEW k, Balance(c, p + 1, k)
  PROVE  Balance(Received(c, SPT), p, FALSE)
<1>1. CASE c.count > 0
  <2>1. /\ c.count \in Nat /\ c.req \in Nat /\ c.ins \in Nat /\ c.got \in Int
        /\ SPT \in Nat /\ SPT > 0
    BY StreamingAssumption DEF CaptureType
  <2>2. /\ Received(c, SPT).count = c.count /\ Received(c, SPT).req = c.req
        /\ Received(c, SPT).ins = c.ins + SPT
        /\ Received(c, SPT).got = c.got + Lesser(c.count, c.ins + SPT) - Lesser(c.count, c.ins)
    BY <1>1, <2>1 DEF Received, CaptureType
  <2>3. SPT * (p + 1) = SPT * p + SPT /\ SPT * p \in Nat
    BY <2>1
  <2>4. c.req = c.ins + SPT + SPT * p
    BY <1>1, <2>1, <2>3 DEF Balance
  <2>5. Received(c, SPT).got = Lesser(c.count, c.ins + SPT)
    BY <1>1, <2>1, <2>2 DEF Balance, Lesser
  <2> QED BY <1>1, <2>1, <2>2, <2>4, <2>5 DEF Balance
<1>2. CASE ~(c.count > 0)
  BY <1>2 DEF Balance, Received, CaptureType
<1> QED BY <1>1, <1>2

\* Once everything is requested nothing need be pending.
LEMMA ClosedBalances ==
  ASSUME NEW c, NEW p, Balance(c, p, FALSE), ~MoreIn(c), NEW k
  PROVE  Balance(c, p, k)
BY DEF Balance

\* What counts for the balance.
SameInput(c, e) == e.count = c.count /\ e.req = c.req /\ e.ins = c.ins /\ e.got = c.got

\* Sending leaves the input side alone.
LEMMA OutputBeside ==
  ASSUME TypeOK, NEW d \in Devices, NEW t \in Slots, NEW r, SubmitOut(d, t, r), NEW e \in Devices
  PROVE  SameInput(capture[e], capture'[e]) /\ numActive'[<<e, "in">>] = numActive[<<e, "in">>]
<1>1. /\ capture \in [Devices -> CaptureType]
      /\ numActive \in [Devices \X Dirs -> Int]
  BY DEF TypeOK, TransfersTypeOK
<1>2. numActive'[<<e, "in">>] = numActive[<<e, "in">>]
  BY <1>1 DEF SubmitOut, Submitted, Dirs
<1>3. ASSUME NEW c \in CaptureType, NEW x \in Encodings(c)
      PROVE  SameInput(c, x.cap)
  BY DEF Encodings, SameInput, CaptureType
<1>4. \/ UNCHANGED capture
      \/ \E x \in Encodings(capture[d]) : capture' = [capture EXCEPT ![d] = x.cap]
  BY DEF SubmitOut
<1>5. SameInput(capture[e], capture'[e])
  <2>1. CASE UNCHANGED capture
    BY <2>1 DEF SameInput
  <2>2. ASSUME NEW x \in Encodings(capture[d]), capture' = [capture EXCEPT ![d] = x.cap]
        PROVE  SameInput(capture[e], capture'[e])
    BY <1>1, <1>3, <2>2 DEF SameInput
  <2> QED BY <1>4, <2>1, <2>2
<1> QED BY <1>2, <1>5

\* A device's input transfers that are pending can be counted.
LEMMA PendingCounted ==
  ASSUME TypeOK, NumActiveExact, NEW d \in Devices
  PROVE  numActive[<<d, "in">>] \in Nat /\ Pending(d) \in Nat
<1>1. numActive[<<d, "in">>] \in Nat
  <2>1. "in" \in Dirs
    BY DEF Dirs
  <2>2. Cardinality(flight[<<d, "in">>]) \in Nat
    BY <2>1, FlightFinite
  <2> QED BY <2>1, <2>2 DEF NumActiveExact
<1> QED BY <1>1 DEF Pending, Handed

-----------------------------------------------------------------------------
(* The books *)

\* Whose balance and pending transfers stay is still in balance.
LEMMA BooksStay ==
  ASSUME NEW d \in Devices, Books(d), Live(d)' => Live(d), Kicked(d)' => Kicked(d),
         SameInput(capture[d], capture'[d]), Pending(d)' = Pending(d)
  PROVE  Books(d)'
BY DEF Books, Balance, SameInput, MoreIn

\* A step of another thread that hides nothing disturbs no capture further.
LEMMA LiveBeside ==
  ASSUME NEW d \in Devices, Beside, Rest(d) => Rest(d)',
         cancellation => cancellation', ePtr => ePtr',
         pc[d] = "heLock" => cancellation' \/ pc'[d] = "heLock",
         pc[Usb] = "heLock" => cancellation' \/ (pc'[Usb] = "heLock" /\ cb' = cb)
  PROVE  Live(d)' => Live(d)
<1>1. calls' = calls /\ session' = session
      /\ (pc'[User] = pc[User] \/ (pc[User] = "endSleep" /\ pc'[User] = "endWake"))
  BY DEF Beside, UserStays
<1>2. Capturing' => Capturing
  BY <1>1 DEF Capturing, StartPCs
<1>3. Doomed(d) => Doomed(d)'
  BY DEF Doomed
<1> QED BY <1>1, <1>2, <1>3 DEF Live

\* The user's thread: start() finds every device at rest, and run() opens the
\* books of a device anew.
LEMMA UserBooks ==
  ASSUME Settled, TameFaults, Calls \/ UserStep, \A d \in Devices : Books(d)
  PROVE  \A d \in Devices : Books(d)'
<1>a. /\ ThreadShape /\ TypeOK /\ LockInv /\ ExactInv /\ DebtInv
      /\ capture \in [Devices -> CaptureType]
  BY ThreadShapes DEF Settled, TypeOK, TransfersTypeOK
<1>b. "torn" \notin Faults /\ Faults \cap {"ctrl", "nodev"} = {}
  BY DEF TameFaults, PlainCounter
<1>c. ASSUME TransfersStay, UNCHANGED <<calls, capture>>, Capturing' => Capturing,
             cancellation => cancellation', ePtr => ePtr' \/ ~Capturing'
      PROVE  \A d \in Devices : Books(d)'
  <2> SUFFICES ASSUME NEW d \in Devices
               PROVE  Books(d)'
    OBVIOUS
  <2>1. Rest(d)' = Rest(d)
    BY <1>c DEF TransfersStay, Rest, Engaged, Spawned, KickHolds
  <2>2. Live(d)' => Live(d)
    BY <1>c, <2>1 DEF Live, Doomed, TransfersStay
  <2>3. Pending(d)' = Pending(d) /\ Kicked(d)' = Kicked(d) /\ SameInput(capture[d], capture'[d])
    BY <1>c DEF TransfersStay, Pending, Handed, Kicked, SameInput
  <2> QED BY <2>2, <2>3, BooksStay
<1>1. CASE Configure
  <2> SUFFICES ASSUME NEW d \in Devices
               PROVE  Books(d)'
    OBVIOUS
  <2>1. /\ UNCHANGED <<pc, cb, calls, capture, session, cancellation, ePtr>>
        /\ \A dir \in Dirs : numActive'[<<d, dir>>] = 0
    BY <1>1 DEF Configure, NewTransfers, threadVars, flagVars, userVars, history
  <2>2. /\ ~Engaged(d)
        /\ \A dir \in Dirs : numActive[<<d, dir>>] = 0
    BY <1>1, <1>a, ConfigureDrained DEF Engaged
  <2>3. Rest(d)' = Rest(d)
    BY <2>1, <2>2 DEF Rest, Engaged, Spawned, KickHolds
  <2>4. Live(d)' => Live(d)
    BY <2>1, <2>3 DEF Live, Capturing, Doomed
  <2>5. Pending(d)' = Pending(d) /\ Kicked(d)' = Kicked(d) /\ SameInput(capture[d], capture'[d])
    BY <2>1, <2>2 DEF Pending, Handed, Kicked, SameInput, Dirs
  <2> QED BY <2>4, <2>5, BooksStay
<1>2. ASSUME NEW n \in Counts, NEW isRun \in BOOLEAN, CallStart(n, isRun)
      PROVE  \A d \in Devices : Books(d)'
  <2>1. /\ pc[User] = "idle" /\ session = "stopped"
        /\ calls' = [d \in Devices |-> 0]
    BY <1>2, <1>a DEF CallStart, UserIdle, ExactInv, TypeOK, SessionTypeOK
  <2>2. TransfersStay
    BY <1>2, <1>a, ThreadFacts DEF ThreadShape, CallStart, Goto, TransfersStay, usbVars
  <2>3. \A d \in Devices : Rest(d) /\ calls'[d] = 0
    BY <2>1, <1>a DEF ExactInv, Over, StartPCs
  <2>4. \A d \in Devices : Rest(d)'
    BY <2>2, <2>3 DEF TransfersStay, Rest, Engaged, Spawned, KickHolds
  <2> QED BY <2>3, <2>4 DEF Books, Live
<1>3. ASSUME NEW d \in Devices, DeviceOn(d)
      PROVE  \A e \in Devices : Books(e)'
  <2>1. TransfersStay
    BY <1>3, <1>a, <1>b, ThreadFacts DEF ThreadShape, DeviceOn, Goto, TransfersStay, usbVars
  <2>2. /\ UNCHANGED <<calls, capture, cancellation, ePtr>>
        /\ Capturing
    BY <1>3 DEF DeviceOn, flagVars, history, Capturing, StartPCs
  <2> QED BY <1>c, <2>1, <2>2
<1>12. ASSUME NEW d \in Devices, DeviceRun(d)
       PROVE  \A e \in Devices : Books(e)'
  <2>1. TransfersStay
    BY <1>12, <1>a, <1>b, ThreadFacts DEF ThreadShape, DeviceRun, Goto, TransfersStay, usbVars
  <2>2. /\ UNCHANGED <<calls, capture, cancellation, ePtr>>
        /\ Capturing
    BY <1>12 DEF DeviceRun, flagVars, history, Capturing, StartPCs
  <2> QED BY <1>c, <2>1, <2>2
<1>4. ASSUME NEW d \in Devices, DeviceReset(d), NEW e \in Devices
      PROVE  Books(e)'
  <2>1. /\ pc[User] = "reset" /\ cur[User] = d
        /\ capture' = [capture EXCEPT ![d] = [NoCapture EXCEPT !.count = want]]
        /\ pc' = [pc EXCEPT ![User] = "inc", ![d] = "kLock"]
        /\ UNCHANGED <<flight, numActive, cb, calls, session, cancellation, ePtr>>
    BY <1>4 DEF DeviceReset, usbVars, flagVars, userVars, history
  <2>2. /\ pc'[Usb] = pc[Usb] /\ pc'[d] = "kLock"
        /\ \A i \in Devices : i # d => pc'[i] = pc[i]
    BY <2>1, <1>a, ThreadFacts DEF ThreadShape
  <2>3. CASE e # d
    <3>1. Rest(e)' = Rest(e)
      BY <2>1, <2>2, <2>3 DEF Rest, Engaged, Spawned, KickHolds
    <3>2. Live(e)' => Live(e)
      BY <2>1, <2>2, <2>3, <3>1 DEF Live, Doomed, Capturing, StartPCs
    <3>3. Pending(e)' = Pending(e) /\ Kicked(e)' = Kicked(e) /\ SameInput(capture[e], capture'[e])
      BY <1>a, <2>1, <2>2, <2>3 DEF Pending, Handed, Kicked, SameInput
    <3> QED BY <3>2, <3>3, BooksStay
  <2>4. CASE e = d
    <3>1. Rest(d)
      BY <1>a, <2>1 DEF ExactInv, StartPCs, Ahead, Devices, ThreadShape
    <3>2. numActive[<<d, "in">>] = 0 /\ ~(pc[Usb] = "cbBody" /\ cb.dev = d)
      BY <3>1 DEF Rest, Engaged, BodyPCs, Dirs
    <3>3. Pending(d)' = 0 /\ ~Kicked(d)'
      BY <2>1, <2>2, <3>2 DEF Pending, Handed, Kicked
    <3>4. capture'[d] = [count |-> want, req |-> 0, out |-> 0, ins |-> 0, got |-> 0]
      BY <1>a, <2>1 DEF NoCapture
    <3>5. want \in Nat /\ SPT \in Nat /\ SPT > 0
      BY <1>a, StreamingAssumption DEF TypeOK, SessionTypeOK
    <3>6. Balance(capture'[d], 0, FALSE)
      BY <3>4, <3>5 DEF Balance, Lesser
    <3> QED BY <2>4, <3>3, <3>6 DEF Books, Balance
  <2> QED BY <2>3, <2>4
<1>5. CASE Activate
  <2>1. TransfersStay
    BY <1>5, <1>a, <1>b, ThreadFacts
    DEF ThreadShape, Activate, NextDevice, StartReturns, Goto, TransfersStay, usbVars
  <2>2. /\ UNCHANGED <<calls, capture, cancellation, ePtr>>
        /\ Capturing
    BY <1>5 DEF Activate, flagVars, history, Capturing, StartPCs
  <2> QED BY <1>c, <2>1, <2>2
<1>6. CASE ActivateStore
  BY <1>6, <1>a DEF ActivateStore, DebtInv, Untorn
<1>7. CASE CallCancel \/ CallEnd
  <2>1. TransfersStay /\ pc'[User] \in {"cancel", "end"}
    BY <1>7, <1>a, ThreadFacts DEF ThreadShape, CallCancel, CallEnd, Goto, TransfersStay, usbVars
  <2>2. /\ UNCHANGED <<calls, capture, ePtr, session>>
        /\ cancellation => cancellation'
    BY <1>7 DEF CallCancel, CallEnd, flagVars, userVars, history
  <2> QED BY <1>c, <2>1, <2>2 DEF Capturing, StartPCs
<1>8. ASSUME NEW d \in Devices, CancelStep(d)
      PROVE  \A e \in Devices : Books(e)'
  <2>1. TransfersStay /\ pc'[User] \in {"cancel", "idle", "endLock"}
    BY <1>8, <1>a, ThreadFacts
    DEF ThreadShape, CancelStep, Goto, TransfersStay, LockInv, ControlOK
  <2>2. UNCHANGED <<calls, capture, ePtr, session, cancellation>>
    BY <1>8 DEF CancelStep, flagVars, userVars, history
  <2> QED BY <1>c, <2>1, <2>2 DEF Capturing, StartPCs
<1>9. ASSUME NEW d \in Devices, DeviceOff(d)
      PROVE  \A e \in Devices : Books(e)'
  <2>1. TransfersStay
    BY <1>9, <1>a, ThreadFacts DEF ThreadShape, DeviceOff, OffNext, EndReturns,
       TransfersStay, usbVars
  <2>2. UNCHANGED <<calls, capture, cancellation>> /\ pc[User] = "off"
    BY <1>9 DEF DeviceOff, history
  <2>3. \/ pc'[User] = "idle" /\ session' = "stopped"
        \/ UNCHANGED <<pc, session, ePtr>>
    BY <1>9, <1>a, <1>b, ThreadFacts DEF ThreadShape, DeviceOff, OffNext, EndReturns
  <2> QED BY <1>c, <2>1, <2>2, <2>3 DEF Capturing, StartPCs
<1>10. CASE EndBegins
  <2>1. TransfersStay /\ pc'[User] \in {"cancel", "endLock"}
    BY <1>10, <1>a, ThreadFacts DEF ThreadShape, EndBegins, Goto, TransfersStay, usbVars
  <2>2. /\ UNCHANGED <<calls, capture, ePtr, session>>
        /\ cancellation => cancellation'
    BY <1>10 DEF EndBegins, userVars, history
  <2> QED BY <1>c, <2>1, <2>2 DEF Capturing, StartPCs
<1>11. CASE EndLock \/ EndCheck \/ EndBlock \/ EndTimeout \/ EndWake
  <2>1. EndUnchanged
    BY <1>11 DEF EndLock, EndCheck, EndBlock, EndTimeout, EndWake
  <2>2. PICK l \in EndPCs : pc' = [pc EXCEPT ![User] = l]
    BY <1>11 DEF EndLock, EndCheck, EndBlock, EndTimeout, EndWake, Goto, EndPCs
  <2>3. TransfersStay /\ pc'[User] \in EndPCs
    BY <1>a, <2>1, <2>2, ThreadFacts DEF ThreadShape, EndUnchanged, TransfersStay, usbVars
  <2>4. UNCHANGED <<calls, capture, ePtr, session, cancellation>>
    BY <2>1 DEF EndUnchanged, flagVars, userVars, history
  <2> QED BY <1>c, <2>3, <2>4 DEF Capturing, StartPCs, EndPCs
<1> QED
  BY <1>1, <1>2, <1>3, <1>4, <1>5, <1>6, <1>7, <1>8, <1>9, <1>10, <1>11, <1>12
  DEF Calls, UserStep

\* What a thread in handle_error leaves of the counters.
LEMMA HandleErrorBooks ==
  ASSUME Settled, NEW th \in Devices \cup {Usb}, HandleError(th), \A d \in Devices : Books(d)
  PROVE  \A d \in Devices : Books(d)'
<1> SUFFICES ASSUME NEW d \in Devices
             PROVE  Books(d)'
  OBVIOUS
<1>a. ThreadShape /\ TypeOK /\ LockInv /\ DebtInv /\ th \in Threads
  BY ThreadShapes, ThreadFacts DEF Settled
<1>1. Beside
  BY <1>a, HandleErrorBeside
<1>2. RestStays
  BY <1>a, HandleErrorDebts
<1>3. UNCHANGED <<capture, numActive, cb, ePtr>> /\ (cancellation => cancellation')
  BY DEF HandleError, HandleErrorLock, HandleErrorCancel, HandleErrorUnlock, usbVars, flagVars
<1>4. /\ pc[th] \in HandleErrorPCs
      /\ \E l : /\ pc' = [pc EXCEPT ![th] = l]
                /\ l \in HandleErrorPCs \cup {"cbEnd", "kOut", "kEnd"}
                /\ pc[th] = "heLock" => cancellation'
  <2>1. CASE HandleErrorLock(th)
    BY <2>1 DEF HandleErrorLock, Goto, HandleErrorPCs
  <2>2. CASE HandleErrorCancel(th)
    <3>1. pc' = pc \/ pc' = [pc EXCEPT ![th] = "heUnlock"]
      BY <2>2 DEF HandleErrorCancel, Goto
    <3>2. pc[th] = "heCancel" /\ pc = [pc EXCEPT ![th] = pc[th]]
      BY <2>2, <1>a DEF ThreadShape, HandleErrorCancel
    <3> QED BY <3>1, <3>2 DEF HandleErrorPCs
  <2>3. CASE HandleErrorUnlock(th)
    BY <2>3, <1>a, ThreadFacts DEF HandleErrorUnlock, Goto, HandleErrorPCs, LockInv, ControlOK
  <2> QED BY <2>1, <2>2, <2>3 DEF HandleError
<1>5. \A i \in Threads : i # th => pc'[i] = pc[i]
  BY <1>4, <1>a DEF ThreadShape
<1>6. /\ pc[Usb] = "cbBody" <=> pc'[Usb] = "cbBody"
      /\ pc'[d] \notin {"kLock", "kIn"} => pc[d] \notin {"kLock", "kIn"}
  BY <1>4, <1>5, <1>a, ThreadFacts DEF ThreadShape, HandleErrorPCs
<1>7. Live(d)' => Live(d)
  <2>1. pc[d] = "heLock" => cancellation' \/ pc'[d] = "heLock"
    BY <1>4, <1>5, ThreadFacts
  <2>2. pc[Usb] = "heLock" => cancellation' \/ (pc'[Usb] = "heLock" /\ cb' = cb)
    BY <1>3, <1>4, <1>5, ThreadFacts
  <2> QED BY <1>1, <1>2, <1>3, <2>1, <2>2, LiveBeside DEF RestStays
<1>8. Pending(d)' = Pending(d) /\ (Kicked(d)' => Kicked(d)) /\ SameInput(capture[d], capture'[d])
  BY <1>3, <1>6 DEF Pending, Handed, Kicked, SameInput
<1> QED BY <1>7, <1>8, BooksStay

\* The kickoff requests what it submits.
LEMMA KickBooks ==
  ASSUME Settled, NEW d \in Devices, KickStep(d), \A e \in Devices : Books(e)
  PROVE  \A e \in Devices : Books(e)'
<1> SUFFICES ASSUME NEW e \in Devices
             PROVE  Books(e)'
  OBVIOUS
<1>a. /\ ThreadShape /\ TypeOK /\ LockInv /\ DebtInv /\ RestStays /\ next[d] \in Slots
      /\ capture \in [Devices -> CaptureType]
      /\ numActive \in [Devices \X Dirs -> Int]
  <2>1. TypeOK' /\ TypeOK /\ LockInv /\ DebtInv
    BY NextTypes DEF Settled, Next
  <2> QED BY <2>1, KickDebts, ThreadShapes DEF TypeOK, TransfersTypeOK, ThreadsTypeOK
<1>c. ASSUME NEW l, pc' = [pc EXCEPT ![d] = l], pc[d] # "heLock",
             UNCHANGED <<cur, cb, starts, session, activeDevices, calls>>,
             ret'[User] = ret[User], cancellation' = cancellation, ePtr => ePtr'
      PROVE  Live(e)' => Live(e)
  <2>1. /\ pc'[User] = pc[User] /\ pc'[Usb] = pc[Usb] /\ pc'[e] \in {pc[e], l}
        /\ e # d => pc'[e] = pc[e]
    BY <1>a, <1>c, ThreadFacts DEF ThreadShape
  <2>2. Beside
    BY <1>c, <2>1 DEF Beside, UserStays
  <2> QED BY <1>a, <1>c, <2>1, <2>2, LiveBeside DEF RestStays
<1>d. ASSUME NEW l, pc' = [pc EXCEPT ![d] = l], pc[d] # "heLock",
             UNCHANGED <<cur, cb, starts, session, activeDevices, calls>>,
             ret'[User] = ret[User], cancellation' = cancellation, ePtr => ePtr',
             SameInput(capture[e], capture'[e]),
             numActive'[<<e, "in">>] = numActive[<<e, "in">>],
             l \in {"kLock", "kIn"} \/ pc[d] \notin {"kLock", "kIn"} \/ e # d
      PROVE  Books(e)'
  <2>1. Live(e)' => Live(e)
    BY <1>c, <1>d
  <2>2. Pending(e)' = Pending(e) /\ (Kicked(e)' => Kicked(e))
    BY <1>a, <1>d, ThreadFacts DEF ThreadShape, Pending, Handed, Kicked
  <2> QED BY <1>d, <2>1, <2>2, BooksStay
<1>1. CASE HandleError(d)
  BY <1>1, HandleErrorBooks
<1>2. CASE KickLock(d)
  <2>1. /\ pc' = [pc EXCEPT ![d] = "kIn"] /\ pc[d] # "heLock"
        /\ UNCHANGED <<cur, ret, cb, starts, session, activeDevices, calls, cancellation, ePtr,
                       capture, numActive>>
    BY <1>2 DEF KickLock, Goto, usbVars, countVars, flagVars, userVars, history
  <2> QED BY <1>d, <2>1 DEF SameInput
<1>3. CASE KickEnd(d)
  <2>1. /\ pc' = [pc EXCEPT ![d] = "none"] /\ pc[d] = "kEnd"
        /\ UNCHANGED <<cur, ret, cb, starts, session, activeDevices, calls, cancellation, ePtr,
                       capture, numActive>>
    BY <1>3 DEF KickEnd, Goto, usbVars, countVars, flagVars, userVars, history
  <2> QED BY <1>d, <2>1 DEF SameInput
<1>4. CASE KickOut(d)
  <2>1. PICK r \in Results : SubmitOut(d, next[d], r) /\ KickTurn(d, r, "kOut", "kEnd")
    BY <1>4 DEF KickOut
  <2>2. PICK l : pc' = [pc EXCEPT ![d] = l]
    BY <2>1 DEF KickTurn, CallHandleError, Goto
  <2>3. /\ pc[d] = "kOut"
        /\ UNCHANGED <<cur, cb, starts, session, activeDevices, calls, cancellation>>
    BY <1>4 DEF KickOut, countVars, userVars, history
  <2>4. ret'[User] = ret[User]
    BY <1>a, <2>1, ThreadFacts DEF KickTurn, CallHandleError, ThreadShape
  <2>5. ePtr => ePtr'
    BY <2>1 DEF SubmitOut
  <2>6. SameInput(capture[e], capture'[e]) /\ numActive'[<<e, "in">>] = numActive[<<e, "in">>]
    BY <1>a, <2>1, OutputBeside
  <2> QED BY <1>d, <2>2, <2>3, <2>4, <2>5, <2>6
<1>5. CASE KickIn(d)
  <2>1. PICK r \in Results :
          SubmitIn(d, next[d], capture[d], r) /\ KickTurn(d, r, "kIn", "kOut")
    BY <1>5 DEF KickIn
  <2>2. PICK l : pc' = [pc EXCEPT ![d] = l] /\ (r = "failed" => l = "heLock")
    BY <2>1 DEF KickTurn, CallHandleError, Goto
  <2>3. /\ pc[d] = "kIn"
        /\ UNCHANGED <<cur, cb, starts, session, activeDevices, calls, cancellation, ePtr>>
    BY <1>5 DEF KickIn, countVars, flagVars, userVars, history
  <2>4. ret'[User] = ret[User]
    BY <1>a, <2>1, ThreadFacts DEF KickTurn, CallHandleError, ThreadShape
  <2>5. CASE e # d
    <3>1. capture'[e] = capture[e] /\ numActive'[<<e, "in">>] = numActive[<<e, "in">>]
      BY <1>a, <2>1, <2>5 DEF SubmitIn, Submitted, Dirs
    <3> QED BY <1>d, <2>2, <2>3, <2>4, <2>5, <3>1 DEF SameInput
  <2>6. CASE e = d /\ r = "failed"
    <3>1. pc'[d] = "heLock"
      BY <1>a, <2>2, <2>6, ThreadFacts DEF ThreadShape
    <3> QED BY <2>6, <3>1 DEF Books, Live, Doomed
  <2>7. CASE e = d /\ r # "failed"
    <3> DEFINE c == capture[d]
               p == Pending(d)
    <3>1. c \in CaptureType /\ p \in Nat
      BY <1>a, PendingCounted DEF DebtInv
    <3>2. ~Kicked(d) /\ (Live(d)' => Live(d)) /\ Handed(d)' = Handed(d)
      BY <1>a, <1>c, <2>2, <2>3, <2>4, <2>7, ThreadFacts DEF Kicked, Handed, ThreadShape
    <3>3. Live(d) => Balance(c, p, FALSE)
      BY <3>2 DEF Books, Balance
    <3>4. CASE MoreIn(c)
      <4>1. r = "ok"
        BY <2>1, <2>7, <3>4 DEF SubmitIn, SubmitResults
      <4>2. capture'[d] = Requested(c) /\ numActive'[<<d, "in">>] = numActive[<<d, "in">>] + 1
        BY <1>a, <2>1, <3>4, <4>1 DEF SubmitIn, Submitted, Dirs
      <4>3. numActive[<<d, "in">>] \in Int /\ Handed(d) \in Int
        BY <1>a DEF Handed, Dirs
      <4>4. Pending(d)' = p + 1
        BY <3>2, <4>2, <4>3 DEF Pending
      <4>5. Balance(c, p, FALSE) => Balance(capture'[d], p + 1, Kicked(d)')
        BY <3>1, <3>4, <4>2, RequestBalances
      <4> QED BY <2>7, <3>2, <3>3, <4>4, <4>5 DEF Books
    <3>5. CASE ~MoreIn(c)
      <4>1. capture'[d] = c /\ numActive' = numActive
        BY <1>a, <2>1, <3>5 DEF SubmitIn
      <4>2. Pending(d)' = p
        BY <3>2, <4>1 DEF Pending
      <4>3. Balance(c, p, FALSE) => Balance(c, p, Kicked(d)')
        BY <3>5, ClosedBalances
      <4> QED BY <2>7, <3>2, <3>3, <4>1, <4>2, <4>3 DEF Books
    <3> QED BY <3>4, <3>5
  <2> QED BY <2>5, <2>6, <2>7
<1> QED BY <1>1, <1>2, <1>3, <1>4, <1>5 DEF KickStep

\* The USB thread: what it takes out of libusb's hands is pending until
\* in_completion has counted it, and only a cancelled or failed transfer is
\* never counted.
LEMMA UsbBooks ==
  ASSUME Settled, MarkInv, TameFaults, UsbStep \/ LibusbStep, \A d \in Devices : Books(d)
  PROVE  \A d \in Devices : Books(d)'
<1> SUFFICES ASSUME NEW e \in Devices
             PROVE  Books(e)'
  OBVIOUS
<1>a. /\ ThreadShape /\ TypeOK /\ LockInv /\ ExactInv /\ DebtInv
      /\ Rest(e) => Rest(e)'
      /\ cb.t \in Slots /\ capture \in [Devices -> CaptureType]
      /\ numActive \in [Devices \X Dirs -> Int]
      /\ calls \in [Devices -> 0 .. 2]
  <2>1. TypeOK /\ LockInv /\ ExactInv /\ DebtInv /\ TypeOK'
    BY NextTypes DEF Settled, Next
  <2>2. RestStays
    BY <2>1, UsbDebts, CallbackBegins DEF TameFaults
  <2> QED BY <2>1, <2>2, ThreadShapes
          DEF RestStays, TypeOK, TransfersTypeOK, ThreadsTypeOK, SessionTypeOK
<1>c. ASSUME UNCHANGED <<cur, starts, session, activeDevices, calls>>,
             ret'[User] = ret[User], cancellation' = cancellation, ePtr => ePtr',
             pc'[User] = pc[User] \/ (pc[User] = "endSleep" /\ pc'[User] = "endWake"),
             pc'[e] = pc[e], pc[Usb] # "heLock"
      PROVE  Live(e)' => Live(e)
  <2>1. Beside
    BY <1>c DEF Beside, UserStays
  <2> QED BY <1>a, <1>c, <2>1, LiveBeside
<1>d. ASSUME Live(e)' => Live(e), pc'[e] = pc[e], SameInput(capture[e], capture'[e]),
             Pending(e)' = Pending(e)
      PROVE  Books(e)'
  BY <1>d, BooksStay DEF Kicked
<1>e. ASSUME NEW l, pc' = [pc EXCEPT ![Usb] = l]
      PROVE  pc'[Usb] = l /\ pc'[User] = pc[User] /\ pc'[e] = pc[e]
  BY <1>a, <1>e, ThreadFacts DEF ThreadShape
<1>1. CASE HandleError(Usb)
  BY <1>1, HandleErrorBooks
<1>2. ASSUME NEW d \in Devices, NEW dir \in Dirs, NEW t \in Slots, NEW s \in Statuses,
             LibusbComplete(d, dir, t, s)
      PROVE  Books(e)'
  <2>1. /\ pc[Usb] = "idle" /\ pc' = [pc EXCEPT ![Usb] = "cbLock"]
        /\ UNCHANGED <<cur, ret, starts, session, activeDevices, calls, cancellation, ePtr,
                       capture, numActive>>
    BY <1>2 DEF LibusbComplete, EventLoopFree, Goto, countVars, flagVars, userVars, history
  <2>2. pc'[Usb] = "cbLock" /\ pc'[User] = pc[User] /\ pc'[e] = pc[e]
    BY <1>e, <2>1
  <2>3. Pending(e)' = Pending(e)
    BY <2>1, <2>2 DEF Pending, Handed
  <2> QED BY <1>c, <1>d, <2>1, <2>2, <2>3 DEF SameInput
<1>3. CASE CallbackLock
  <2>1. /\ pc[Usb] = "cbLock" /\ numActive' = [numActive EXCEPT ![<<cb.dev, cb.dir>>] = @ - 1]
        /\ UNCHANGED <<cur, cb, starts, session, activeDevices, calls, cancellation, ePtr,
                       capture>>
    BY <1>3 DEF CallbackLock, countVars, flagVars, userVars, history
  <2>2. PICK l : /\ pc' = [pc EXCEPT ![Usb] = l]
                 /\ cb.status = "completed" => l = "cbBody"
                 /\ cb.status = "error" => l = "heLock"
                 /\ l \in {"cbBody", "cbEnd", "heLock"}
    BY <1>3, <1>a DEF ThreadShape, CallbackLock, Goto, CallHandleError, Statuses
  <2>3. pc'[Usb] = l /\ pc'[User] = pc[User] /\ pc'[e] = pc[e]
    BY <1>e, <2>2
  <2>4. ret'[User] = ret[User]
    BY <1>3, <1>a, ThreadFacts DEF CallbackLock, Goto, CallHandleError, ThreadShape, Statuses
  <2>5. Live(e)' => Live(e)
    BY <1>c, <2>1, <2>3, <2>4
  <2>6. CASE e # cb.dev \/ cb.dir # "in"
    <3>1. numActive'[<<e, "in">>] = numActive[<<e, "in">>]
      BY <1>a, <2>1, <2>6 DEF Dirs
    <3>2. Pending(e)' = Pending(e)
      BY <2>1, <2>6, <3>1 DEF Pending, Handed
    <3> QED BY <1>d, <2>1, <2>3, <2>5, <3>2 DEF SameInput
  <2>7. CASE e = cb.dev /\ cb.dir = "in" /\ cb.status = "completed"
    <3>1. numActive'[<<e, "in">>] = numActive[<<e, "in">>] - 1 /\ numActive[<<e, "in">>] \in Int
      BY <1>a, <2>1, <2>7 DEF Dirs
    <3>2. Handed(e) = 0 /\ Handed(e)' = 1
      BY <2>1, <2>2, <2>3, <2>7 DEF Handed
    <3>3. Pending(e)' = Pending(e)
      BY <3>1, <3>2 DEF Pending
    <3> QED BY <1>d, <2>1, <2>3, <2>5, <3>3 DEF SameInput
  <2>8. CASE e = cb.dev /\ cb.status = "cancelled"
    <3>1. cancellation
      BY <2>1, <2>8 DEF MarkInv
    <3> QED BY <2>1, <3>1 DEF Books, Live, Doomed
  <2>9. CASE e = cb.dev /\ cb.status = "error"
    <3>1. pc'[Usb] = "heLock" /\ cb'.dev = e
      BY <2>1, <2>2, <2>3, <2>9
    <3> QED BY <3>1 DEF Books, Live, Doomed
  <2> QED BY <1>a, <2>6, <2>7, <2>8, <2>9 DEF ThreadShape, Statuses
<1>4. CASE OutBody
  <2>1. /\ pc[Usb] = "cbBody" /\ cb.dir = "out"
        /\ UNCHANGED <<cur, cb, starts, session, activeDevices, calls, cancellation>>
    BY <1>4 DEF OutBody, countVars, userVars, history
  <2>2. /\ \E l : pc' = [pc EXCEPT ![Usb] = l]
        /\ ret'[User] = ret[User]
    BY <1>4, <1>a, ThreadFacts DEF OutBody, CallbackTurn, CallHandleError, Goto, ThreadShape
  <2>3. /\ ePtr => ePtr'
        /\ SameInput(capture[e], capture'[e])
        /\ numActive'[<<e, "in">>] = numActive[<<e, "in">>]
    <3>1. \/ UNCHANGED <<numActive, capture, ePtr>>
          \/ \E r : SubmitOut(cb.dev, cb.t, r)
      BY <1>4 DEF OutBody
    <3>2. ASSUME NEW r, SubmitOut(cb.dev, cb.t, r)
          PROVE  /\ ePtr => ePtr'
                 /\ SameInput(capture[e], capture'[e])
                 /\ numActive'[<<e, "in">>] = numActive[<<e, "in">>]
      <4>1. cb.dev \in Devices
        BY <1>a DEF ThreadShape
      <4>2. ePtr => ePtr'
        BY <3>2 DEF SubmitOut
      <4> QED BY <1>a, <3>2, <4>1, <4>2, OutputBeside
    <3> QED BY <3>1, <3>2 DEF SameInput
  <2>4. pc'[User] = pc[User] /\ pc'[e] = pc[e]
    BY <1>e, <2>2
  <2>5. Pending(e)' = Pending(e)
    BY <2>1, <2>3 DEF Pending, Handed
  <2> QED BY <1>c, <1>d, <2>1, <2>2, <2>3, <2>4, <2>5
<1>5. CASE InBody
  <2>1. /\ pc[Usb] = "cbBody" /\ cb.dir = "in" /\ cb.dev \in Devices
        /\ UNCHANGED <<cur, cb, starts, session, activeDevices, calls, cancellation>>
    BY <1>5, <1>a DEF InBody, countVars, userVars, history, ThreadShape
  <2>2. PICK a \in Arrivals(capture[cb.dev]) :
          /\ ePtr' = (ePtr \/ a.threw)
          /\ IF MayResubmit
             THEN \E r \in Results :
                    SubmitIn(cb.dev, cb.t, a.cap, r) /\ CallbackTurn(r)
             ELSE /\ capture' = [capture EXCEPT ![cb.dev] = a.cap]
                  /\ CallbackTurn("closed")
                  /\ UNCHANGED <<flight, numActive>>
    BY <1>5 DEF InBody
  <2>3. PICK l \in {"cbEnd", "heLock"} : pc' = [pc EXCEPT ![Usb] = l]
    BY <2>2 DEF CallbackTurn, CallHandleError, Goto
  <2>4. pc'[Usb] = l /\ pc'[User] = pc[User] /\ pc'[e] = pc[e]
    BY <1>e, <2>3
  <2>5. ret'[User] = ret[User]
    BY <1>a, <2>2, ThreadFacts DEF CallbackTurn, CallHandleError, Goto, ThreadShape
  <2>6. Live(e)' => Live(e)
    <3>1. ePtr => ePtr'
      BY <2>2
    <3> QED BY <1>c, <2>1, <2>4, <2>5, <3>1
  <2>7. CASE e # cb.dev
    <3>1. capture'[e] = capture[e] /\ numActive'[<<e, "in">>] = numActive[<<e, "in">>]
      BY <1>a, <2>1, <2>2, <2>7 DEF SubmitIn, Submitted, Dirs
    <3>2. Pending(e)' = Pending(e)
      BY <2>1, <2>7, <3>1 DEF Pending, Handed
    <3> QED BY <1>d, <2>4, <2>6, <3>1, <3>2 DEF SameInput
  <2>8. CASE e = cb.dev /\ (cancellation \/ a.threw \/ l = "heLock")
    <3>1. cancellation' \/ ePtr' \/ (pc'[Usb] = "heLock" /\ cb'.dev = e)
      BY <2>1, <2>2, <2>4, <2>8
    <3> QED BY <3>1 DEF Books, Live, Doomed
  <2>9. CASE e = cb.dev /\ ~cancellation /\ ~a.threw /\ l # "heLock"
    <3> DEFINE c == capture[e]
               p == numActive[<<e, "in">>]
    <3>1. c \in CaptureType /\ p \in Nat
      BY <1>a, PendingCounted DEF DebtInv
    <3>2. Pending(e) = p + 1
      BY <2>1, <2>9, <3>1 DEF Pending, Handed
    <3>3. Pending(e)' = numActive'[<<e, "in">>]
      <4>1. numActive'[<<e, "in">>] \in Int
        <5>1. TypeOK'
          BY NextTypes DEF Settled, Next
        <5> QED BY <5>1 DEF TypeOK, TransfersTypeOK, Dirs
      <4> QED BY <2>3, <2>4, <4>1 DEF Pending, Handed
    <3>4. a.cap = Received(c, SPT) /\ a.cap \in CaptureType
      <4>1. a.cap = Received(c, SPT)
        BY <2>9 DEF Arrivals
      <4> QED BY <2>9, <3>1, <4>1, CaptureTypes
    <3>5. Live(e) => Balance(a.cap, p, FALSE)
      <4>1. Live(e) => Balance(c, p + 1, Kicked(e))
        BY <3>2 DEF Books
      <4>2. Balance(c, p + 1, Kicked(e)) => Balance(Received(c, SPT), p, FALSE)
        BY <3>1, ArrivalBalances
      <4> QED BY <3>4, <4>1, <4>2
    <3>6. PICK r \in Results : SubmitIn(e, cb.t, a.cap, r) /\ r # "failed"
      <4>1. PICK r \in Results : SubmitIn(cb.dev, cb.t, a.cap, r) /\ CallbackTurn(r)
        BY <2>2, <2>9 DEF MayResubmit
      <4>2. r # "failed"
        BY <1>a, <2>4, <2>9, <4>1, ThreadFacts DEF CallbackTurn, CallHandleError, ThreadShape
      <4> QED BY <2>9, <4>1, <4>2
    <3>7. CASE MoreIn(a.cap)
      <4>1. r = "ok"
        BY <3>6, <3>7 DEF SubmitIn, SubmitResults
      <4>2. capture'[e] = Requested(a.cap) /\ numActive'[<<e, "in">>] = p + 1
        BY <1>a, <3>6, <3>7, <4>1 DEF SubmitIn, Submitted, Dirs
      <4>3. Balance(a.cap, p, FALSE) => Balance(capture'[e], p + 1, Kicked(e)')
        BY <3>1, <3>4, <3>7, <4>2, RequestBalances
      <4> QED BY <2>6, <3>3, <3>5, <4>2, <4>3 DEF Books
    <3>8. CASE ~MoreIn(a.cap)
      <4>1. capture'[e] = a.cap /\ numActive' = numActive
        BY <1>a, <3>6, <3>8 DEF SubmitIn
      <4>2. Balance(a.cap, p, FALSE) => Balance(a.cap, p, Kicked(e)')
        BY <3>8, ClosedBalances
      <4> QED BY <2>6, <3>3, <3>5, <4>1, <4>2 DEF Books
    <3> QED BY <3>7, <3>8
  <2> QED BY <2>7, <2>8, <2>9
<1>6. CASE CompletionDec
  <2>1. /\ pc[Usb] = "compDec" /\ pc' = [pc EXCEPT ![Usb] = "compRead"]
        /\ calls' = [calls EXCEPT ![cb.dev] = Lesser(@ + 1, 2)]
        /\ UNCHANGED <<cb, capture, numActive, session, cancellation, ePtr>>
    BY <1>6 DEF CompletionDec, Goto, TameFaults, PlainCounter, usbVars, flagVars, userVars
  <2>2. pc'[Usb] = "compRead" /\ pc'[User] = pc[User] /\ pc'[e] = pc[e]
    BY <1>e, <2>1
  <2>3. ~Rest(e) \/ calls'[e] = calls[e]
    <3>1. CASE e = cb.dev
      BY <2>1, <3>1 DEF Rest, Engaged, BodyPCs
    <3>2. CASE e # cb.dev
      BY <1>a, <2>1, <3>2
    <3> QED BY <3>1, <3>2
  <2>4. Live(e)' => Live(e)
    BY <1>a, <2>1, <2>2, <2>3 DEF Live, Doomed, Capturing
  <2>5. Pending(e)' = Pending(e)
    BY <2>1, <2>2 DEF Pending, Handed
  <2> QED BY <1>d, <2>1, <2>2, <2>4, <2>5 DEF SameInput
<1>7. CASE CallbackEnd \/ CompletionRead \/ CompletionLock
  <2>1. /\ pc[Usb] \in {"cbEnd", "compRead", "compLock"}
        /\ \E l \in CompletionPCs \cup {"idle"} : pc' = [pc EXCEPT ![Usb] = l]
        /\ UNCHANGED <<cur, ret, starts, session, activeDevices, calls, cancellation, ePtr,
                       capture, numActive>>
    BY <1>7 DEF CallbackEnd, CompletionRead, CompletionLock, Goto, CompletionPCs,
       usbVars, countVars, flagVars, userVars, history
  <2>2. /\ pc'[Usb] \in CompletionPCs \cup {"idle"} /\ pc'[User] = pc[User] /\ pc'[e] = pc[e]
    BY <1>e, <2>1
  <2>3. Pending(e)' = Pending(e)
    BY <2>1, <2>2 DEF Pending, Handed, CompletionPCs
  <2> QED BY <1>c, <1>d, <2>1, <2>2, <2>3 DEF SameInput
<1>8. CASE CompletionNotify
  <2>1. /\ pc[Usb] = "compNotify"
        /\ UNCHANGED <<cur, ret, starts, session, activeDevices, calls, cancellation, ePtr,
                       capture, numActive>>
    BY <1>8 DEF CompletionNotify, usbVars, countVars, flagVars, userVars
  <2>2. /\ pc'[Usb] = "idle" /\ pc'[e] = pc[e]
        /\ pc'[User] = pc[User] \/ (pc[User] = "endSleep" /\ pc'[User] = "endWake")
    BY <1>8, <1>a, ThreadFacts DEF CompletionNotify, ThreadShape
  <2>3. Pending(e)' = Pending(e)
    BY <2>1, <2>2 DEF Pending, Handed
  <2> QED BY <1>c, <1>d, <2>1, <2>2, <2>3 DEF SameInput
<1>9. CASE CompletionStore
  BY <1>9, <1>a DEF CompletionStore, DebtInv, Untorn
<1> QED
  BY <1>1, <1>2, <1>3, <1>4, <1>5, <1>6, <1>7, <1>8, <1>9 DEF UsbStep, LibusbStep

\* At first nothing is marked and nothing captured.
LEMMA InitBooks == Init => BookInv
<1> SUFFICES ASSUME Init
             PROVE  BookInv
  OBVIOUS
<1>1. /\ \A x \in Devices \X Dirs : marked[x] = {}
      /\ pc[Usb] = "idle" /\ pc[User] = "idle" /\ session = "stopped"
      /\ \A th \in Threads : pc[th] \in {"idle", "none"}
  BY ThreadFacts DEF Init
<1> QED BY <1>1 DEF BookInv, MarkInv, Books, Live, Capturing, StartPCs

\* The books are kept by every step.
LEMMA NextBooks ==
  ASSUME TameFaults
  PROVE  Settled /\ Settled' /\ BookInv /\ [Next]_vars => BookInv'
<1> SUFFICES ASSUME Settled, Settled', BookInv, [Next]_vars
             PROVE  BookInv'
  OBVIOUS
<1>1. CASE Next
  <2>1. MarkInv'
    BY <1>1, UserMarks, OtherMarks DEF Next, BookInv
  <2>2. \A d \in Devices : Books(d)'
    BY <1>1, UserBooks, KickBooks, UsbBooks DEF Next, BookInv
  <2> QED BY <2>1, <2>2 DEF BookInv
<1>2. CASE UNCHANGED vars
  <2>1. UNCHANGED <<pc, cb, flight, marked, numActive, capture, cancellation, ePtr, session,
                    calls>>
    BY <1>2 DEF vars, threadVars, usbVars, flagVars, userVars, history
  <2>2. MarkInv'
    BY <2>1 DEF BookInv, MarkInv
  <2>3. ASSUME NEW d \in Devices
        PROVE  Books(d)'
    <3>1. Live(d)' => Live(d)
      BY <2>1 DEF Live, Capturing, Doomed, Rest, Engaged, Spawned, KickHolds
    <3>2. Pending(d)' = Pending(d) /\ Kicked(d)' = Kicked(d)
          /\ SameInput(capture[d], capture'[d])
      BY <2>1 DEF Pending, Handed, Kicked, SameInput
    <3> QED BY <3>1, <3>2, BooksStay DEF BookInv
  <2> QED BY <2>2, <2>3 DEF BookInv
<1> QED BY <1>1, <1>2

\* A device that completed has nothing pending, so that what it requested has
\* arrived, and it has requested all.
LEMMA BooksClose ==
  ASSUME Settled, BookInv
  PROVE  CaptureComplete
<1> SUFFICES ASSUME NEW d \in Devices, calls[d] > 0, session = "started", ~cancellation, ~ePtr,
                    capture[d].count > 0
             PROVE  /\ capture[d].got = capture[d].count
                    /\ capture[d].req \in capture[d].count .. capture[d].count + SPT - 1
  BY DEF CaptureComplete
<1>1. Rest(d) /\ capture[d] \in CaptureType /\ "in" \in Dirs
  BY DEF Settled, ExactInv, TypeOK, TransfersTypeOK, SessionTypeOK, Dirs
<1>2. /\ numActive[<<d, "in">>] = 0 /\ Kicked(d)
      /\ ~(pc[Usb] \in BodyPCs /\ cb.dev = d) /\ pc[d] # "heLock"
  BY <1>1 DEF Rest, Engaged, Spawned, KickHolds, Kicked, HandleErrorPCs
<1>3. Live(d) /\ Pending(d) = 0
  BY <1>2 DEF Live, Capturing, Doomed, Pending, Handed, BodyPCs, HandleErrorPCs
<1>4. Balance(capture[d], 0, TRUE)
  BY <1>2, <1>3 DEF BookInv, Books
<1>5. /\ capture[d].count \in Nat /\ capture[d].req \in Nat /\ capture[d].ins \in Nat
      /\ capture[d].got \in Int /\ SPT \in Nat /\ SPT > 0
  BY <1>1, StreamingAssumption DEF CaptureType
<1>6. capture[d].req = capture[d].ins /\ capture[d].req >= capture[d].count
  BY <1>4, <1>5 DEF Balance, MoreIn
<1> QED BY <1>4, <1>5, <1>6 DEF Balance, Lesser

\* While no device stalls and no control transfer fails, a capture that was
\* neither cancelled nor disturbed by an exception ends with exactly the
\* requested samples queued, however the two directions, the kickoff, failing
\* submissions and transfers and a cancellation interleave
\* (device_m1000.cpp:270-291, 505-520, 742-749; session.cpp:673-696).
THEOREM CaptureCompleteHolds ==
  ASSUME TameFaults
  PROVE  Spec => []CaptureComplete
<1>1. Spec => []Settled
  BY ExactHeld DEF Settled
<1>2. Settled /\ Settled' /\ BookInv /\ [Next]_vars => BookInv'
  BY NextBooks
<1>3. Settled /\ BookInv => CaptureComplete
  BY BooksClose
<1> QED
  BY <1>1, <1>2, <1>3, InitBooks, PTL DEF Spec

=============================================================================
