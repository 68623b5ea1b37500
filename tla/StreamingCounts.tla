--------------------------- MODULE StreamingCounts ---------------------------
(***************************************************************************)
(* The counters of streaming: Transfers::num_active counts the transfers   *)
(* that are out, and m_active_devices the devices that owe a completion(). *)
(***************************************************************************)
EXTENDS StreamingProofs, FiniteSetTheorems

\* The counter of devices is neither torn nor wrapped: 2^32 exceeds the
\* devices of all calls of start() together.
PlainCounter == "torn" \notin Faults /\ CounterMod > N * MaxStarts

-----------------------------------------------------------------------------
(* The debts: a device owes one completion() for the transfers it has out  *)
(* and one for a kickoff that has not looked at it yet                     *)

\* Where the USB thread is inside a callback whose completion() is still due.
BodyPCs == {"cbBody", "cbEnd", "compDec"} \cup HandleErrorPCs

Engaged(d) ==
  \/ \E dir \in Dirs : numActive[<<d, dir>>] # 0
  \/ pc[Usb] \in BodyPCs /\ cb.dev = d
  \/ KickHolds(d)
Spawned(d) == pc[d] = "kLock"

Rest(d)    == ~Engaged(d) /\ ~Spawned(d)

EngagedDevices == {d \in Devices : Engaged(d)}
SpawnedDevices == {d \in Devices : Spawned(d)}
Owed == Cardinality(EngagedDevices) + Cardinality(SpawnedDevices)

\* m_active_devices once the ++ that is under way is done.
Counted == IF pc[User] = "inc" THEN Inc(activeDevices) ELSE activeDevices

\* Every start() counts at most each device once, in m_devices' order.
Earlier == N * (starts - 1)
CountBound ==
  Counted <= CASE pc[User] \in {"on", "run", "reset"} -> Earlier + cur[User] - 1
               [] pc[User] = "inc"                    -> Earlier + cur[User]
               [] OTHER                               -> N * starts

\* Only the loops over the devices move the cursor, and they put it back.
CursorHome ==
  pc[User] \notin {"on", "run", "reset", "inc", "cancel", "off"} => cur[User] = 1

Untorn == pc[User] # "incStore" /\ pc[Usb] # "compStore"

\* The inductive invariant.
DebtInv == NumActiveExact /\ Owed <= Counted /\ CountBound /\ CursorHome /\ Untorn

-----------------------------------------------------------------------------
(* Counting devices *)

\* Sets of devices are finite and no larger than the session.
LEMMA Sizes ==
  \A S \in SUBSET Devices :
    IsFiniteSet(S) /\ Cardinality(S) \in Nat /\ Cardinality(S) <= N
<1>1. IsFiniteSet(Devices) /\ Cardinality(Devices) = N
  BY FS_Interval, StreamingAssumption DEF Devices
<1> QED BY <1>1, FS_Subset, FS_CardinalityType

\* So are the transfers of an endpoint.
LEMMA FlightFinite ==
  ASSUME TypeOK, NEW d \in Devices, NEW dir \in Dirs
  PROVE  /\ IsFiniteSet(flight[<<d, dir>>])
         /\ Cardinality(flight[<<d, dir>>]) \in Nat
<1>1. flight[<<d, dir>>] \in SUBSET Slots
  BY DEF TypeOK, TransfersTypeOK
<1>2. IsFiniteSet(Slots)
  BY FS_Interval, StreamingAssumption DEF Slots
<1> QED BY <1>1, <1>2, FS_Subset, FS_CardinalityType

\* The debts are a number.
LEMMA OwedType == Owed \in Nat
BY Sizes DEF Owed, EngagedDevices, SpawnedDevices

\* Also of the next state.
LEMMA OwedTypeNext == Owed' \in Nat
BY Sizes DEF Owed, EngagedDevices, SpawnedDevices

\* Who owes nothing new adds nothing.
LEMMA NoMoreOwed ==
  ASSUME \A e \in Devices : (Engaged(e)' => Engaged(e)) /\ (Spawned(e)' => Spawned(e))
  PROVE  Owed' <= Owed
<1>1. EngagedDevices' \in SUBSET EngagedDevices /\ SpawnedDevices' \in SUBSET SpawnedDevices
  BY DEF EngagedDevices, SpawnedDevices
<1>2. IsFiniteSet(EngagedDevices) /\ IsFiniteSet(SpawnedDevices)
  BY Sizes DEF EngagedDevices, SpawnedDevices
<1>3. /\ Cardinality(EngagedDevices') <= Cardinality(EngagedDevices)
      /\ Cardinality(SpawnedDevices') <= Cardinality(SpawnedDevices)
  BY <1>1, <1>2, FS_Subset
<1>4. /\ Cardinality(EngagedDevices) \in Nat /\ Cardinality(SpawnedDevices) \in Nat
      /\ Cardinality(EngagedDevices') \in Nat /\ Cardinality(SpawnedDevices') \in Nat
  BY Sizes DEF EngagedDevices, SpawnedDevices
<1> QED BY <1>3, <1>4 DEF Owed

\* A device that is spawned owes one more.
LEMMA OneSpawned ==
  ASSUME NEW d \in Devices, EngagedDevices' = EngagedDevices,
         d \notin SpawnedDevices, SpawnedDevices' = SpawnedDevices \cup {d}
  PROVE  Owed' = Owed + 1
<1>1. IsFiniteSet(SpawnedDevices) /\ Cardinality(SpawnedDevices) \in Nat
      /\ Cardinality(EngagedDevices) \in Nat
  BY Sizes DEF SpawnedDevices, EngagedDevices
<1>2. Cardinality(SpawnedDevices \cup {d}) = Cardinality(SpawnedDevices) + 1
  BY <1>1, FS_AddElement
<1> QED BY <1>1, <1>2 DEF Owed

\* A device that completes owes one less.
LEMMA OneCompleted ==
  ASSUME NEW d \in EngagedDevices, SpawnedDevices' = SpawnedDevices,
         EngagedDevices' = EngagedDevices \ {d}
  PROVE  Owed' = Owed - 1 /\ Owed >= 1
<1>1. IsFiniteSet(EngagedDevices) /\ Cardinality(SpawnedDevices) \in Nat
      /\ Cardinality(EngagedDevices) \in Nat /\ Cardinality(EngagedDevices') \in Nat
  BY Sizes DEF SpawnedDevices, EngagedDevices
<1>2. Cardinality(EngagedDevices \ {d}) = Cardinality(EngagedDevices) - 1
  BY <1>1, FS_RemoveElement
<1> QED BY <1>1, <1>2 DEF Owed

\* A kickoff that takes m_state turns the one debt into the other, which the
\* device may have already.
LEMMA OneKicked ==
  ASSUME NEW d \in SpawnedDevices, SpawnedDevices' = SpawnedDevices \ {d},
         EngagedDevices' = EngagedDevices \cup {d}
  PROVE  Owed' <= Owed /\ (d \notin EngagedDevices => Owed' = Owed)
<1>1. IsFiniteSet(EngagedDevices) /\ IsFiniteSet(SpawnedDevices)
      /\ Cardinality(SpawnedDevices) \in Nat /\ Cardinality(EngagedDevices) \in Nat
  BY Sizes DEF SpawnedDevices, EngagedDevices
<1>2. Cardinality(SpawnedDevices \ {d}) = Cardinality(SpawnedDevices) - 1
  BY <1>1, FS_RemoveElement
<1>3. Cardinality(EngagedDevices \cup {d})
        = IF d \in EngagedDevices THEN Cardinality(EngagedDevices)
          ELSE Cardinality(EngagedDevices) + 1
  BY <1>1, FS_AddElement
<1> QED BY <1>1, <1>2, <1>3 DEF Owed

\* The products of the bound.
LEMMA Products ==
  \A s \in 0 .. MaxStarts :
    /\ N * s \in Nat /\ N * s <= N * MaxStarts
    /\ N * (s - 1) \in Int /\ N * (s - 1) + N = N * s
<1> SUFFICES ASSUME NEW s \in 0 .. MaxStarts
             PROVE  /\ N * s \in Nat /\ N * s <= N * MaxStarts
                    /\ N * (s - 1) \in Int /\ N * (s - 1) + N = N * s
  OBVIOUS
<1>1. N \in Nat /\ MaxStarts \in Nat /\ s \in Nat /\ MaxStarts - s \in Nat
  BY StreamingAssumption
<1>2. \A k \in Nat : N * k \in Nat
  BY <1>1
<1>3. N * MaxStarts = N * s + N * (MaxStarts - s)
  BY <1>1
<1>4. N * (s - 1) = N * s - N
  BY <1>1
<1> QED BY <1>1, <1>2, <1>3, <1>4

-----------------------------------------------------------------------------
(* The user's thread *)

\* The transfers stay as they are, and so do the threads that serve them.
TransfersStay ==
  /\ UNCHANGED <<flight, numActive, cb>>
  /\ pc'[Usb] = pc[Usb]
  /\ \A d \in Devices : pc'[d] = pc[d]

\* Then nobody owes more or less.
LEMMA NothingOwed ==
  ASSUME NumActiveExact, TransfersStay
  PROVE  /\ NumActiveExact' /\ Owed' = Owed
         /\ EngagedDevices' = EngagedDevices /\ SpawnedDevices' = SpawnedDevices
<1>1. NumActiveExact'
  BY DEF NumActiveExact, TransfersStay
<1>2. \A d \in Devices : Engaged(d)' = Engaged(d) /\ Spawned(d)' = Spawned(d)
  BY DEF Engaged, Spawned, KickHolds, TransfersStay
<1>3. EngagedDevices' = EngagedDevices /\ SpawnedDevices' = SpawnedDevices
  BY <1>2 DEF EngagedDevices, SpawnedDevices
<1> QED BY <1>1, <1>3 DEF Owed

\* A step of the user's thread that counts nothing.
LEMMA UserDebts ==
  ASSUME DebtInv, TransfersStay, Counted' = Counted, CountBound', CursorHome',
         pc'[User] # "incStore"
  PROVE  DebtInv'
BY NothingOwed DEF DebtInv, Untorn, TransfersStay

\* configure() finds no transfer out, and none in the hands of a callback.
LEMMA ConfigureDrained ==
  ASSUME TypeOK, DebtInv, Configure
  PROVE  \A d \in Devices : ~Engaged(d) /\ ~Spawned(d) /\ \A dir \in Dirs : flight[<<d, dir>>] = {}
<1>1. Counted = 0
  BY DEF Configure, UserIdle, Counted
<1>2. Cardinality(EngagedDevices) = 0 /\ Cardinality(SpawnedDevices) = 0
  BY <1>1, Sizes DEF DebtInv, Owed, EngagedDevices, SpawnedDevices
<1>3. EngagedDevices = {} /\ SpawnedDevices = {}
  BY <1>2, Sizes, FS_EmptySet DEF EngagedDevices, SpawnedDevices
<1>4. \A d \in Devices : ~Engaged(d) /\ ~Spawned(d)
  BY <1>3 DEF EngagedDevices, SpawnedDevices
<1>5. ASSUME NEW d \in Devices, NEW dir \in Dirs
      PROVE  flight[<<d, dir>>] = {}
  <2>1. numActive[<<d, dir>>] = 0
    BY <1>4 DEF Engaged
  <2>2. IsFiniteSet(flight[<<d, dir>>]) /\ Cardinality(flight[<<d, dir>>]) \in Nat
    BY FlightFinite
  <2>3. Cardinality(flight[<<d, dir>>]) = 0
    BY <2>1, <2>2 DEF DebtInv, NumActiveExact
  <2> QED BY <2>2, <2>3, FS_EmptySet
<1> QED BY <1>4, <1>5

\* start() and its loop over the devices.
LEMMA StartCounts ==
  ASSUME TypeOK, TypeOK', LockInv, DebtInv, PlainCounter,
         \/ \E n \in Counts, isRun \in BOOLEAN : CallStart(n, isRun)
         \/ \E d \in Devices : DeviceOn(d) \/ DeviceRun(d) \/ DeviceReset(d)
         \/ Activate \/ ActivateStore
  PROVE  DebtInv'
<1>a. ThreadShape
  BY ThreadShapes
<1>b. /\ starts \in 0 .. MaxStarts /\ starts' \in 0 .. MaxStarts
      /\ activeDevices \in 0 .. CounterMod - 1
      /\ cur[User] \in 1 .. N /\ cur \in [Threads -> Devices]
  BY ThreadFacts DEF TypeOK, SessionTypeOK, ThreadsTypeOK, Devices
<1>c. N \in Nat \ {0} /\ CounterMod \in Nat /\ MaxStarts \in Nat
  BY StreamingAssumption
<1>d. N * starts \in Nat /\ N * starts <= N * MaxStarts /\ Earlier \in Int
      /\ Earlier + N = N * starts /\ N * MaxStarts < CounterMod /\ N * MaxStarts \in Nat
  BY <1>b, <1>c, Products DEF Earlier, PlainCounter
<1>e. Counted \in Nat /\ Counted <= N * starts
  BY <1>b, <1>c, <1>d, CounterType DEF DebtInv, CountBound, Counted
<1>1. ASSUME NEW n \in Counts, NEW isRun \in BOOLEAN, CallStart(n, isRun)
      PROVE  DebtInv'
  <2>1. /\ pc[User] = "idle" /\ pc'[User] = "on" /\ cur' = cur /\ starts' = starts + 1
        /\ activeDevices' = activeDevices
    BY <1>1, <1>a, ThreadFacts DEF ThreadShape, CallStart, UserIdle, Goto, countVars
  <2>2. TransfersStay
    BY <1>1, <1>a, ThreadFacts DEF ThreadShape, CallStart, Goto, TransfersStay, usbVars
  <2>3. cur[User] = 1
    BY <2>1 DEF DebtInv, CursorHome
  <2>4. Earlier' = N * starts
    BY <2>1, <1>b DEF Earlier
  <2>5. Counted' = Counted /\ CountBound' /\ CursorHome'
    BY <1>d, <1>e, <2>1, <2>3, <2>4 DEF Counted, CountBound, CursorHome
  <2> QED BY <2>1, <2>2, <2>5, UserDebts
<1>2. ASSUME NEW d \in Devices, DeviceOn(d)
      PROVE  DebtInv'
  <2>1. /\ pc[User] = "on" /\ starts' = starts /\ activeDevices' = activeDevices
        /\ \/ pc'[User] = "run" /\ cur' = cur
           \/ pc'[User] = "idle" /\ cur'[User] = 1
           \/ pc'[User] = "end" /\ cur'[User] = 1
    BY <1>2, <1>a, <1>b, ThreadFacts
    DEF ThreadShape, DeviceOn, StartReturns, Goto, countVars
  <2>2. TransfersStay
    BY <1>2, <1>a, ThreadFacts
    DEF ThreadShape, DeviceOn, StartReturns, Goto, TransfersStay, usbVars
  <2>3. Counted' = Counted /\ CountBound' /\ CursorHome'
    BY <1>d, <1>e, <2>1 DEF DebtInv, Counted, CountBound, CursorHome, Earlier
  <2> QED BY <2>1, <2>2, <2>3, UserDebts
<1>3. ASSUME NEW d \in Devices, DeviceRun(d)
      PROVE  DebtInv'
  <2>1. /\ pc[User] = "run" /\ starts' = starts /\ activeDevices' = activeDevices
        /\ \/ pc'[User] = "reset" /\ cur' = cur
           \/ pc'[User] \in {"idle", "end"} /\ cur'[User] = 1
    BY <1>3, <1>a, <1>b, ThreadFacts
    DEF ThreadShape, DeviceRun, StartReturns, Goto, countVars
  <2>2. TransfersStay
    BY <1>3, <1>a, ThreadFacts
    DEF ThreadShape, DeviceRun, StartReturns, Goto, TransfersStay, usbVars
  <2>3. Counted' = Counted /\ CountBound' /\ CursorHome'
    BY <1>d, <1>e, <2>1 DEF DebtInv, Counted, CountBound, CursorHome, Earlier
  <2> QED BY <2>1, <2>2, <2>3, UserDebts
<1>4. ASSUME NEW d \in Devices, DeviceReset(d)
      PROVE  DebtInv'
  <2>1. /\ pc[User] = "reset" /\ starts' = starts /\ activeDevices' = activeDevices
        /\ cur' = cur
        /\ pc[d] = "none" /\ pc' = [pc EXCEPT ![User] = "inc", ![d] = "kLock"]
        /\ UNCHANGED <<flight, numActive, cb>>
    BY <1>4, <1>a, <1>b, ThreadFacts
    DEF ThreadShape, DeviceReset, countVars, usbVars, userVars
  <2>2. /\ pc'[Usb] = pc[Usb] /\ pc'[d] = "kLock" /\ pc'[User] = "inc"
        /\ \A e \in Devices : e # d => pc'[e] = pc[e]
    BY <2>1, <1>a, ThreadFacts DEF ThreadShape
  <2>3. NumActiveExact'
    BY <2>1, <2>2 DEF DebtInv, NumActiveExact
  <2>4. \A e \in Devices : Engaged(e)' = Engaged(e)
    BY <2>1, <2>2 DEF Engaged, KickHolds, HandleErrorPCs
  <2>5. \A e \in Devices : Spawned(e)' <=> Spawned(e) \/ e = d
    BY <2>1, <2>2 DEF Spawned
  <2>6. /\ EngagedDevices' = EngagedDevices /\ d \notin SpawnedDevices
        /\ SpawnedDevices' = SpawnedDevices \cup {d}
    BY <2>1, <2>4, <2>5 DEF EngagedDevices, SpawnedDevices, Spawned
  <2>7. Owed' = Owed + 1
    BY <2>6, OneSpawned
  <2>8. Counted = activeDevices /\ Counted <= Earlier + cur[User] - 1
    BY <2>1 DEF DebtInv, Counted, CountBound
  <2>9. Counted' = Counted + 1
    BY <1>b, <1>c, <1>d, <2>1, <2>2, <2>8 DEF Counted, Inc
  <2>10. CountBound' /\ CursorHome'
    BY <1>b, <1>d, <1>e, <2>1, <2>2, <2>8, <2>9 DEF CountBound, CursorHome, Earlier
  <2>11. Owed' <= Counted'
    BY <2>7, <2>9, <1>e, OwedType DEF DebtInv
  <2> QED BY <2>2, <2>3, <2>10, <2>11 DEF DebtInv, Untorn
<1>5. CASE Activate
  <2>1. /\ pc[User] = "inc" /\ starts' = starts /\ activeDevices' = Inc(activeDevices)
        /\ IF cur[User] = N THEN pc'[User] \in {"idle", "end"} /\ cur'[User] = 1
           ELSE pc'[User] = "on" /\ cur'[User] = cur[User] + 1
    BY <1>5, <1>a, <1>b, ThreadFacts
    DEF ThreadShape, Activate, NextDevice, StartReturns, Goto, PlainCounter
  <2>2. TransfersStay
    BY <1>5, <1>a, ThreadFacts
    DEF ThreadShape, Activate, NextDevice, StartReturns, Goto, TransfersStay, usbVars
  <2>3. Counted <= Earlier + cur[User] /\ Earlier' = Earlier
    BY <2>1 DEF DebtInv, CountBound, Earlier
  <2>4. Counted' = Counted
    BY <2>1 DEF Counted
  <2>5. CountBound' /\ CursorHome'
    BY <1>b, <1>d, <1>e, <2>1, <2>3, <2>4 DEF CountBound, CursorHome
  <2>6. pc'[User] # "incStore"
    BY <2>1
  <2> QED BY <2>2, <2>4, <2>5, <2>6, UserDebts
<1>6. CASE ActivateStore
  BY <1>6 DEF ActivateStore, DebtInv, Untorn
<1> QED BY <1>1, <1>2, <1>3, <1>4, <1>5, <1>6

\* The other calls leave the counters alone; configure() resets what is 0.
LEMMA UserCounts ==
  ASSUME TypeOK, TypeOK', LockInv, DebtInv, PlainCounter, Calls \/ UserStep
  PROVE  DebtInv'
<1>a. ThreadShape
  BY ThreadShapes
<1>b. cur \in [Threads -> Devices]
  BY DEF TypeOK, ThreadsTypeOK
<1> DEFINE Counting == {"on", "run", "reset", "inc", "incStore"}
<1>c. ASSUME TransfersStay, pc[User] \notin Counting, pc'[User] \notin Counting,
             UNCHANGED <<activeDevices, starts>>, CursorHome'
      PROVE  DebtInv'
  <2>1. Counted' = Counted
    BY <1>c DEF Counted
  <2>2. CountBound'
    BY <1>c, <2>1 DEF DebtInv, CountBound
  <2> QED BY <1>c, <2>1, <2>2, UserDebts
<1> HIDE DEF Counting
<1>1. CASE Configure
  <2>1. \A d \in Devices, dir \in Dirs :
          /\ numActive[<<d, dir>>] = 0 /\ numActive'[<<d, dir>>] = 0
          /\ flight'[<<d, dir>>] = flight[<<d, dir>>]
    BY <1>1, ConfigureDrained DEF Engaged, Configure, NewTransfers
  <2>2. UNCHANGED <<pc, cur, cb, activeDevices, starts>>
    BY <1>1 DEF Configure, threadVars, countVars, userVars
  <2>3. NumActiveExact'
    <3> SUFFICES ASSUME NEW d \in Devices, NEW dir \in Dirs
                 PROVE  numActive'[<<d, dir>>] =
                          Cardinality(flight'[<<d, dir>>])
                          + (IF pc'[Usb] = "cbLock" /\ cb'.dev = d /\ cb'.dir = dir
                             THEN 1 ELSE 0)
      BY DEF NumActiveExact
    <3>1. numActive'[<<d, dir>>] = numActive[<<d, dir>>] /\ flight'[<<d, dir>>] = flight[<<d, dir>>]
      BY <2>1
    <3> QED BY <2>2, <3>1 DEF DebtInv, NumActiveExact
  <2>4. \A e \in Devices : (Engaged(e)' => Engaged(e)) /\ (Spawned(e)' => Spawned(e))
    BY <2>1, <2>2 DEF Engaged, Spawned, KickHolds
  <2>5. Owed' <= Owed /\ Counted' = Counted
    BY <2>2, <2>4, NoMoreOwed DEF Counted
  <2>6. Owed' <= Counted'
    <3>1. Counted \in Int
      BY <1>1 DEF Counted, Configure, UserIdle
    <3> QED BY <2>5, <3>1, OwedType, OwedTypeNext DEF DebtInv
  <2>7. CountBound' /\ CursorHome' /\ Untorn'
    BY <2>2, <2>5 DEF DebtInv, CountBound, CursorHome, Untorn, Earlier
  <2> QED BY <2>3, <2>6, <2>7 DEF DebtInv
<1>2. CASE CallCancel
  BY <1>2, <1>a, <1>c, ThreadFacts DEF Counting, ThreadShape, DebtInv, CursorHome, TransfersStay,
     CallCancel, UserIdle, usbVars, countVars, userVars
<1>3. CASE CallEnd
  BY <1>3, <1>a, <1>c, ThreadFacts DEF Counting, ThreadShape, DebtInv, CursorHome, TransfersStay,
     CallEnd, Goto, UserIdle, usbVars, countVars, userVars
<1>4. ASSUME NEW d \in Devices, CancelStep(d)
      PROVE  DebtInv'
  <2>1. /\ pc[User] = "cancel" /\ UNCHANGED <<activeDevices, starts>>
        /\ \/ pc'[User] = "cancel"
           \/ pc'[User] \in {"idle", "endLock"} /\ cur'[User] = 1
    BY <1>4, <1>a, <1>b, ThreadFacts DEF ThreadShape, CancelStep, Goto, LockInv, ControlOK,
       countVars, userVars
  <2>2. TransfersStay
    BY <1>4, <1>a, ThreadFacts DEF ThreadShape, CancelStep, Goto, TransfersStay
  <2> QED BY <2>1, <2>2, <1>c DEF Counting, CursorHome
<1>5. ASSUME NEW d \in Devices, DeviceOff(d)
      PROVE  DebtInv'
  <2>1. /\ pc[User] = "off" /\ UNCHANGED <<activeDevices, starts>>
        /\ pc'[User] = "off" \/ (pc'[User] = "idle" /\ cur'[User] = 1)
    BY <1>5, <1>a, <1>b, ThreadFacts DEF ThreadShape, DeviceOff, OffNext, EndReturns, countVars
  <2>2. TransfersStay
    BY <1>5, <1>a, ThreadFacts DEF ThreadShape, DeviceOff, OffNext, EndReturns,
       TransfersStay, usbVars
  <2> QED BY <2>1, <2>2, <1>c DEF Counting, CursorHome
<1>6. CASE EndBegins
  BY <1>6, <1>a, <1>c, ThreadFacts DEF Counting, ThreadShape, DebtInv, CursorHome, TransfersStay,
     EndBegins, Goto, usbVars, countVars, userVars
<1>7. CASE EndLock
  BY <1>7, <1>a, <1>c, ThreadFacts DEF Counting, ThreadShape, DebtInv, CursorHome, TransfersStay,
     EndLock, Goto, EndUnchanged, usbVars, countVars, userVars
<1>8. CASE EndCheck
  BY <1>8, <1>a, <1>c, ThreadFacts DEF Counting, ThreadShape, DebtInv, CursorHome, TransfersStay,
     EndCheck, Goto, EndUnchanged, usbVars, countVars, userVars
<1>9. CASE EndBlock
  BY <1>9, <1>a, <1>c, ThreadFacts DEF Counting, ThreadShape, DebtInv, CursorHome, TransfersStay,
     EndBlock, Goto, EndUnchanged, usbVars, countVars, userVars
<1>10. CASE EndTimeout
  BY <1>10, <1>a, <1>c, ThreadFacts DEF Counting, ThreadShape, DebtInv, CursorHome, TransfersStay,
     EndTimeout, Goto, EndUnchanged, usbVars, countVars, userVars
<1>11. CASE EndWake
  BY <1>11, <1>a, <1>c, ThreadFacts DEF Counting, ThreadShape, DebtInv, CursorHome, TransfersStay,
     EndWake, Goto, EndUnchanged, usbVars, countVars, userVars
<1> QED
  BY <1>1, <1>2, <1>3, <1>4, <1>5, <1>6, <1>7, <1>8, <1>9, <1>10, <1>11, StartCounts
  DEF Calls, UserStep

-----------------------------------------------------------------------------
(* The other threads *)

\* What num_active has beyond the transfers libusb holds stays the same.
Balanced ==
  \A e \in Devices, x \in Dirs :
    numActive'[<<e, x>>] - Cardinality(flight'[<<e, x>>])
      = numActive[<<e, x>>] - Cardinality(flight[<<e, x>>])

\* Only device d's num_active changes.
OnlyOf(d) == \A e \in Devices, x \in Dirs : e # d => numActive'[<<e, x>>] = numActive[<<e, x>>]

\* A submission that libusb accepts is of a transfer it did not hold.
LEMMA SubmissionCounts ==
  ASSUME TypeOK, NEW d \in Devices, NEW dir \in Dirs, NEW t \in Slots, NEW r,
         r \in SubmitResults(d, dir, t), Submitted(d, dir, t, r)
  PROVE  Balanced /\ OnlyOf(d)
<1>1. /\ flight \in [Devices \X Dirs -> SUBSET Slots]
      /\ numActive \in [Devices \X Dirs -> Int]
  BY DEF TypeOK, TransfersTypeOK
<1>2. CASE r = "ok"
  <2>1. /\ t \notin flight[<<d, dir>>]
        /\ flight' = [flight EXCEPT ![<<d, dir>>] = @ \cup {t}]
        /\ numActive' = [numActive EXCEPT ![<<d, dir>>] = @ + 1]
    BY <1>2 DEF SubmitResults, Submitted
  <2>2. OnlyOf(d)
    BY <1>1, <2>1 DEF OnlyOf
  <2>3. ASSUME NEW e \in Devices, NEW x \in Dirs
        PROVE  numActive'[<<e, x>>] - Cardinality(flight'[<<e, x>>])
                 = numActive[<<e, x>>] - Cardinality(flight[<<e, x>>])
    <3>1. CASE <<e, x>> = <<d, dir>>
      <4>1. Cardinality(flight[<<d, dir>>] \cup {t}) = Cardinality(flight[<<d, dir>>]) + 1
        BY <2>1, FlightFinite, FS_AddElement
      <4>2. flight'[<<d, dir>>] = flight[<<d, dir>>] \cup {t}
            /\ numActive'[<<d, dir>>] = numActive[<<d, dir>>] + 1
            /\ numActive[<<d, dir>>] \in Int
        BY <1>1, <2>1
      <4> QED BY <3>1, <4>1, <4>2, FlightFinite
    <3>2. CASE <<e, x>> # <<d, dir>>
      BY <1>1, <2>1, <3>2
    <3> QED BY <3>1, <3>2
  <2> QED BY <2>2, <2>3 DEF Balanced
<1>3. CASE r # "ok"
  BY <1>3 DEF Submitted, Balanced, OnlyOf
<1> QED BY <1>2, <1>3

\* submit_in_transfer, whether it submits or not.
LEMMA SubmitInCounts ==
  ASSUME TypeOK, NEW d \in Devices, NEW t \in Slots, NEW c, NEW r, SubmitIn(d, t, c, r)
  PROVE  Balanced /\ OnlyOf(d)
<1>1. CASE MoreIn(c)
  BY <1>1, SubmissionCounts DEF SubmitIn, Dirs
<1>2. CASE ~MoreIn(c)
  BY <1>2 DEF SubmitIn, Balanced, OnlyOf
<1> QED BY <1>1, <1>2

\* submit_out_transfer, too.
LEMMA SubmitOutCounts ==
  ASSUME TypeOK, NEW d \in Devices, NEW t \in Slots, NEW r, SubmitOut(d, t, r)
  PROVE  Balanced /\ OnlyOf(d)
<1>1. CASE UNCHANGED <<flight, numActive>>
  BY <1>1 DEF Balanced, OnlyOf
<1>2. CASE r \in SubmitResults(d, "out", t) /\ Submitted(d, "out", t, r)
  BY <1>2, SubmissionCounts DEF Dirs
<1> QED BY <1>1, <1>2 DEF SubmitOut

\* Balanced counts stay exact while nothing enters or leaves cbLock.
LEMMA BalancedExact ==
  ASSUME TypeOK, TypeOK', NumActiveExact, Balanced, pc[Usb] # "cbLock" <=> pc'[Usb] # "cbLock",
         cb' = cb
  PROVE  NumActiveExact'
<1> SUFFICES ASSUME NEW d \in Devices, NEW dir \in Dirs
             PROVE  numActive'[<<d, dir>>] =
                      Cardinality(flight'[<<d, dir>>])
                      + (IF pc'[Usb] = "cbLock" /\ cb'.dev = d /\ cb'.dir = dir
                         THEN 1 ELSE 0)
  BY DEF NumActiveExact
<1>1. /\ Cardinality(flight[<<d, dir>>]) \in Nat /\ numActive[<<d, dir>>] \in Int
      /\ numActive'[<<d, dir>>] \in Int
  BY FlightFinite DEF TypeOK, TransfersTypeOK
<1>2. Cardinality(flight'[<<d, dir>>]) \in Nat
  <2>1. flight'[<<d, dir>>] \in SUBSET Slots
    BY DEF TypeOK, TransfersTypeOK
  <2>2. IsFiniteSet(Slots)
    BY FS_Interval, StreamingAssumption DEF Slots
  <2> QED BY <2>1, <2>2, FS_Subset, FS_CardinalityType
<1> QED BY <1>1, <1>2 DEF NumActiveExact, Balanced

\* The user's thread is only woken up.
UserStays ==
  /\ pc'[User] = pc[User] \/ (pc[User] = "endSleep" /\ pc'[User] = "endWake")
  /\ cur'[User] = cur[User] /\ starts' = starts

\* Nobody owes anything who did not before.
RestStays == \A e \in Devices : Rest(e) => Rest(e)'

\* A step of another thread that completes no device.
LEMMA DebtsShrink ==
  ASSUME TypeOK, DebtInv, UserStays, activeDevices' = activeDevices, NumActiveExact',
         Owed' <= Owed, pc'[Usb] # "compStore"
  PROVE  DebtInv'
<1>1. Counted' = Counted /\ Counted \in Int
  BY CounterType, StreamingAssumption DEF Counted, UserStays, TypeOK, SessionTypeOK
<1>2. Owed' <= Counted'
  BY <1>1, OwedType, OwedTypeNext DEF DebtInv
<1>3. CountBound' /\ CursorHome' /\ pc'[User] # "incStore"
  BY <1>1 DEF DebtInv, UserStays, CountBound, CursorHome, Untorn, Earlier
<1> QED BY <1>2, <1>3 DEF DebtInv, Untorn

\* handle_error stays inside the callback or the kickoff that called it.
LEMMA HandleErrorDebts ==
  ASSUME TypeOK, LockInv, DebtInv, NEW th \in Devices \cup {Usb}, HandleError(th)
  PROVE  DebtInv' /\ RestStays /\ Owed' = Owed
<1>a. ThreadShape
  BY ThreadShapes
<1>b. th \in Threads /\ th # User
  BY ThreadFacts
<1>1. /\ pc[th] \in HandleErrorPCs
      /\ \E l \in HandleErrorPCs \cup {ret[th]} : pc' = [pc EXCEPT ![th] = l]
  <2>1. CASE HandleErrorLock(th)
    BY <2>1 DEF HandleErrorLock, Goto, HandleErrorPCs
  <2>2. CASE HandleErrorCancel(th)
    <3>1. pc' = pc \/ pc' = [pc EXCEPT ![th] = "heUnlock"]
      BY <2>2 DEF HandleErrorCancel, Goto
    <3>2. pc[th] \in HandleErrorPCs /\ pc = [pc EXCEPT ![th] = pc[th]]
      BY <2>2, <1>a, <1>b DEF ThreadShape, HandleErrorCancel, HandleErrorPCs
    <3> QED BY <3>1, <3>2 DEF HandleErrorPCs
  <2>3. CASE HandleErrorUnlock(th)
    BY <2>3 DEF HandleErrorUnlock, Goto, HandleErrorPCs
  <2> QED BY <2>1, <2>2, <2>3 DEF HandleError
<1>2. /\ UNCHANGED <<flight, numActive, cb, activeDevices, starts>>
      /\ cur'[User] = cur[User]
  <2>1. CASE HandleErrorLock(th)
    BY <2>1 DEF HandleErrorLock, usbVars, countVars, userVars
  <2>2. CASE HandleErrorCancel(th)
    <3>1. \E k : cur' = [cur EXCEPT ![th] = k]
      BY <2>2 DEF HandleErrorCancel
    <3>2. cur'[User] = cur[User]
      BY <3>1, <1>b, ThreadFacts DEF TypeOK, ThreadsTypeOK
    <3> QED BY <2>2, <3>2 DEF HandleErrorCancel, countVars, userVars
  <2>3. CASE HandleErrorUnlock(th)
    BY <2>3 DEF HandleErrorUnlock, usbVars, countVars, userVars
  <2> QED BY <2>1, <2>2, <2>3 DEF HandleError
<1>3. /\ th = Usb => pc[Usb] \in BodyPCs /\ pc'[Usb] \in BodyPCs
      /\ th # Usb => pc'[Usb] = pc[Usb]
  BY <1>1, <1>2, <1>a, ThreadFacts DEF ThreadShape, LockInv, ControlOK, BodyPCs
<1>4. \A d \in Devices :
        /\ KickHolds(d)' = KickHolds(d) /\ Spawned(d)' = Spawned(d)
  BY <1>1, <1>2, <1>a, ThreadFacts
  DEF ThreadShape, LockInv, ControlOK, KickHolds, Spawned, HandleErrorPCs
<1>5. \A d \in Devices : Engaged(d)' = Engaged(d)
  BY <1>2, <1>3, <1>4 DEF Engaged
<1>6. Owed' = Owed
  <2>1. EngagedDevices' = EngagedDevices /\ SpawnedDevices' = SpawnedDevices
    BY <1>4, <1>5 DEF EngagedDevices, SpawnedDevices
  <2> QED BY <2>1 DEF Owed
<1>7. UserStays /\ pc'[Usb] # "compStore"
  BY <1>1, <1>2, <1>3, <1>a, <1>b DEF ThreadShape, UserStays, BodyPCs, HandleErrorPCs,
     DebtInv, Untorn
<1>8. NumActiveExact'
  BY <1>2, <1>3 DEF DebtInv, NumActiveExact, BodyPCs, HandleErrorPCs
<1> QED BY <1>2, <1>4, <1>5, <1>6, <1>7, <1>8, OwedType, DebtsShrink DEF RestStays, Rest

\* A kickoff owes nothing more than before.
LEMMA KickDebts ==
  ASSUME TypeOK, TypeOK', LockInv, DebtInv, NEW d \in Devices, KickStep(d)
  PROVE  DebtInv' /\ RestStays
<1>a. ThreadShape /\ \A e \in Devices : e \in Threads /\ e # User /\ e # Usb
  BY ThreadShapes, ThreadFacts
<1>b. pc[Usb] # "compStore"
  BY DEF DebtInv, Untorn
<1>1. CASE HandleError(d)
  BY <1>1, HandleErrorDebts
<1>2. CASE KickLock(d)
  <2>1. /\ pc[d] = "kLock" /\ pc' = [pc EXCEPT ![d] = "kIn"]
        /\ UNCHANGED <<cur, cb, flight, numActive, activeDevices, starts>>
    BY <1>2 DEF KickLock, Goto, usbVars, countVars, userVars
  <2>2. /\ pc'[Usb] = pc[Usb] /\ pc'[User] = pc[User] /\ pc'[d] = "kIn"
        /\ \A e \in Devices : e # d => pc'[e] = pc[e]
    BY <2>1, <1>a, ThreadFacts DEF ThreadShape
  <2>3. \A e \in Devices : /\ Engaged(e)' <=> Engaged(e) \/ e = d
                           /\ Spawned(e)' <=> Spawned(e) /\ e # d
    BY <2>1, <2>2 DEF Engaged, Spawned, KickHolds
  <2>4. /\ EngagedDevices' = EngagedDevices \cup {d} /\ SpawnedDevices' = SpawnedDevices \ {d}
        /\ d \in SpawnedDevices
    BY <2>1, <2>3 DEF EngagedDevices, SpawnedDevices, Spawned
  <2>5. NumActiveExact'
    BY <2>1, <2>2 DEF DebtInv, NumActiveExact
  <2> QED BY <1>b, <2>1, <2>2, <2>4, <2>3, <2>5, OneKicked, DebtsShrink
          DEF UserStays, RestStays, Rest, Spawned
<1>3. ASSUME Balanced, OnlyOf(d), UNCHANGED <<cb, activeDevices, starts, cur>>, KickHolds(d),
             NEW l \in KickPCs \ {"kLock"}, pc' = [pc EXCEPT ![d] = l]
      PROVE  DebtInv' /\ RestStays
  <2>1. /\ pc'[Usb] = pc[Usb] /\ pc'[User] = pc[User] /\ pc'[d] # "kLock"
        /\ \A e \in Devices : e # d => pc'[e] = pc[e]
    BY <1>3, <1>a, ThreadFacts DEF ThreadShape
  <2>2. \A e \in Devices : (Engaged(e)' => Engaged(e)) /\ (Spawned(e)' => Spawned(e))
    BY <1>3, <2>1 DEF Engaged, Spawned, KickHolds, OnlyOf
  <2>3. NumActiveExact'
    BY <1>3, <2>1, BalancedExact DEF DebtInv
  <2> QED BY <1>3, <1>b, <2>1, <2>2, <2>3, NoMoreOwed, DebtsShrink DEF UserStays, RestStays, Rest
<1>4. CASE KickIn(d)
  <2>1. PICK r \in Results :
          SubmitIn(d, next[d], capture[d], r) /\ KickTurn(d, r, "kIn", "kOut")
    BY <1>4 DEF KickIn
  <2>2. next[d] \in Slots
    BY DEF TypeOK, ThreadsTypeOK
  <2>3. Balanced /\ OnlyOf(d)
    BY <2>1, <2>2, SubmitInCounts
  <2>4. \E l \in {"heLock", "kIn", "kOut"} : pc' = [pc EXCEPT ![d] = l]
    BY <2>1 DEF KickTurn, CallHandleError, Goto
  <2>5. KickHolds(d) /\ UNCHANGED <<cb, activeDevices, starts, cur>>
    BY <1>4 DEF KickIn, KickHolds, countVars, userVars
  <2> QED BY <2>3, <2>4, <2>5, <1>3 DEF KickPCs, HandleErrorPCs
<1>5. CASE KickOut(d)
  <2>1. PICK r \in Results : SubmitOut(d, next[d], r) /\ KickTurn(d, r, "kOut", "kEnd")
    BY <1>5 DEF KickOut
  <2>2. next[d] \in Slots
    BY DEF TypeOK, ThreadsTypeOK
  <2>3. Balanced /\ OnlyOf(d)
    BY <2>1, <2>2, SubmitOutCounts
  <2>4. \E l \in {"heLock", "kOut", "kEnd"} : pc' = [pc EXCEPT ![d] = l]
    BY <2>1 DEF KickTurn, CallHandleError, Goto
  <2>5. KickHolds(d) /\ UNCHANGED <<cb, activeDevices, starts, cur>>
    BY <1>5 DEF KickOut, KickHolds, countVars, userVars
  <2> QED BY <2>3, <2>4, <2>5, <1>3 DEF KickPCs, HandleErrorPCs
<1>6. CASE KickEnd(d)
  <2>1. Balanced /\ OnlyOf(d) /\ UNCHANGED <<cb, activeDevices, starts, cur>>
    BY <1>6 DEF KickEnd, Balanced, OnlyOf, usbVars, countVars, userVars
  <2>2. KickHolds(d) /\ pc' = [pc EXCEPT ![d] = "none"]
    BY <1>6 DEF KickEnd, KickHolds, Goto
  <2> QED BY <2>1, <2>2, <1>3 DEF KickPCs
<1> QED BY <1>1, <1>2, <1>4, <1>5, <1>6 DEF KickStep

\* libusb takes a transfer out and the callback its count down, in two steps.
LEMMA CallbackBegins ==
  ASSUME TypeOK, TypeOK', LockInv, DebtInv, LibusbStep \/ CallbackLock
  PROVE  DebtInv' /\ RestStays
<1>a. ThreadShape
  BY ThreadShapes
<1>b. /\ flight \in [Devices \X Dirs -> SUBSET Slots]
      /\ numActive \in [Devices \X Dirs -> Int]
  BY DEF TypeOK, TransfersTypeOK
<1>1. ASSUME NEW d \in Devices, NEW dir \in Dirs, NEW t \in Slots, NEW s \in Statuses,
             LibusbComplete(d, dir, t, s)
      PROVE  DebtInv' /\ RestStays
  <2>1. /\ pc[Usb] = "idle" /\ pc' = [pc EXCEPT ![Usb] = "cbLock"] /\ t \in flight[<<d, dir>>]
        /\ flight' = [flight EXCEPT ![<<d, dir>>] = @ \ {t}]
        /\ cb'.dev = d /\ cb'.dir = dir
        /\ UNCHANGED <<cur, numActive, activeDevices, starts>>
    BY <1>1 DEF LibusbComplete, EventLoopFree, Goto, countVars, userVars
  <2>2. /\ pc'[Usb] = "cbLock" /\ pc'[User] = pc[User]
        /\ \A e \in Devices : pc'[e] = pc[e]
    BY <2>1, <1>a, ThreadFacts DEF ThreadShape
  <2>3. Cardinality(flight[<<d, dir>>] \ {t}) = Cardinality(flight[<<d, dir>>]) - 1
    BY <2>1, FlightFinite, FS_RemoveElement
  <2>4. ASSUME NEW e \in Devices, NEW x \in Dirs
        PROVE  numActive'[<<e, x>>] =
                 Cardinality(flight'[<<e, x>>])
                 + (IF pc'[Usb] = "cbLock" /\ cb'.dev = e /\ cb'.dir = x THEN 1 ELSE 0)
    <3>1. numActive[<<e, x>>] = Cardinality(flight[<<e, x>>]) + 0
      BY <2>1 DEF DebtInv, NumActiveExact
    <3>2. CASE e = d /\ x = dir
      <4>1. flight'[<<e, x>>] = flight[<<d, dir>>] \ {t}
        BY <1>b, <2>1, <3>2
      <4>2. Cardinality(flight'[<<e, x>>]) = Cardinality(flight[<<e, x>>]) - 1
        BY <2>3, <3>2, <4>1
      <4>3. Cardinality(flight[<<e, x>>]) \in Nat
        BY FlightFinite
      <4>4. numActive'[<<e, x>>] = numActive[<<e, x>>]
        BY <2>1
      <4> QED BY <2>1, <2>2, <3>1, <3>2, <4>2, <4>3, <4>4
    <3>3. CASE ~(e = d /\ x = dir)
      <4>1. flight'[<<e, x>>] = flight[<<e, x>>]
        BY <1>b, <2>1, <3>3
      <4> QED BY <2>1, <3>1, <3>3, <4>1
    <3> QED BY <3>2, <3>3
  <2>5. \A e \in Devices : (Engaged(e)' => Engaged(e)) /\ (Spawned(e)' => Spawned(e))
    BY <2>1, <2>2 DEF Engaged, Spawned, KickHolds, BodyPCs, HandleErrorPCs
  <2>6. NumActiveExact'
    BY <2>4 DEF NumActiveExact
  <2> QED BY <2>1, <2>2, <2>5, <2>6, NoMoreOwed, DebtsShrink DEF UserStays, RestStays, Rest
<1>2. CASE CallbackLock
  <2>1. /\ pc[Usb] = "cbLock"
        /\ numActive' = [numActive EXCEPT ![<<cb.dev, cb.dir>>] = @ - 1]
        /\ UNCHANGED <<cur, cb, flight, activeDevices, starts>>
    BY <1>2 DEF CallbackLock, countVars, userVars
  <2>2. PICK l \in {"cbBody", "cbEnd", "heLock"} : pc' = [pc EXCEPT ![Usb] = l]
    BY <1>2, <1>a DEF ThreadShape, CallbackLock, Goto, CallHandleError, Statuses
  <2>3. /\ pc'[Usb] \in BodyPCs /\ pc'[Usb] \notin {"cbLock", "compStore"}
        /\ pc'[User] = pc[User]
        /\ \A e \in Devices : pc'[e] = pc[e]
    BY <2>2, <1>a, ThreadFacts DEF ThreadShape, BodyPCs, HandleErrorPCs
  <2>4. ASSUME NEW e \in Devices, NEW x \in Dirs
        PROVE  /\ numActive'[<<e, x>>] = Cardinality(flight'[<<e, x>>])
               /\ e # cb.dev => numActive'[<<e, x>>] = numActive[<<e, x>>]
               /\ e = cb.dev => numActive[<<cb.dev, cb.dir>>] # 0
    <3>1. /\ numActive[<<e, x>>] = Cardinality(flight[<<e, x>>])
                + (IF cb.dev = e /\ cb.dir = x THEN 1 ELSE 0)
          /\ numActive[<<cb.dev, cb.dir>>] = Cardinality(flight[<<cb.dev, cb.dir>>]) + 1
      BY <2>1, <1>a DEF DebtInv, NumActiveExact, ThreadShape
    <3>2. /\ Cardinality(flight[<<e, x>>]) \in Nat
          /\ Cardinality(flight[<<cb.dev, cb.dir>>]) \in Nat
      BY FlightFinite, <1>a DEF ThreadShape
    <3>3. CASE cb.dev = e /\ cb.dir = x
      <4>1. numActive'[<<e, x>>] = numActive[<<e, x>>] - 1
        BY <1>b, <2>1, <3>3
      <4> QED BY <2>1, <3>1, <3>2, <3>3, <4>1
    <3>4. CASE ~(cb.dev = e /\ cb.dir = x)
      <4>1. numActive'[<<e, x>>] = numActive[<<e, x>>]
        BY <1>b, <2>1, <3>4
      <4> QED BY <2>1, <3>1, <3>2, <3>4, <4>1
    <3> QED BY <3>3, <3>4
  <2>5. NumActiveExact'
    <3> SUFFICES ASSUME NEW e \in Devices, NEW x \in Dirs
                 PROVE  numActive'[<<e, x>>] = Cardinality(flight'[<<e, x>>]) + 0
      BY <2>3 DEF NumActiveExact
    <3>1. flight'[<<e, x>>] = flight[<<e, x>>] /\ Cardinality(flight[<<e, x>>]) \in Nat
      BY <2>1, FlightFinite
    <3> QED BY <2>4, <3>1
  <2>6. \A e \in Devices : (Engaged(e)' => Engaged(e)) /\ (Spawned(e)' => Spawned(e))
    <3> SUFFICES ASSUME NEW e \in Devices
                 PROVE  (Engaged(e)' => Engaged(e)) /\ (Spawned(e)' => Spawned(e))
      OBVIOUS
    <3>1. Spawned(e)' = Spawned(e) /\ KickHolds(e)' = KickHolds(e)
      BY <2>3 DEF Spawned, KickHolds
    <3>2. CASE e = cb.dev
      BY <1>a, <2>4, <3>1, <3>2 DEF Engaged, ThreadShape
    <3>3. CASE e # cb.dev
      BY <2>1, <2>4, <3>1, <3>3 DEF Engaged
    <3> QED BY <3>2, <3>3
  <2> QED BY <2>1, <2>3, <2>5, <2>6, NoMoreOwed, DebtsShrink DEF UserStays, RestStays, Rest
<1> QED BY <1>1, <1>2 DEF LibusbStep

\* The callback resubmits, and completes its device when nothing is left.
LEMMA UsbDebts ==
  ASSUME TypeOK, TypeOK', LockInv, DebtInv, PlainCounter, UsbStep
  PROVE  DebtInv' /\ RestStays
<1>a. ThreadShape /\ cb.t \in Slots
  BY ThreadShapes DEF TypeOK, ThreadsTypeOK
<1>b. numActive \in [Devices \X Dirs -> Int]
  BY DEF TypeOK, TransfersTypeOK
<1>1. ASSUME Balanced, OnlyOf(cb.dev), UNCHANGED <<cb, activeDevices, starts, cur>>,
             pc[Usb] = "cbBody", NEW l \in {"cbEnd", "heLock"}, pc' = [pc EXCEPT ![Usb] = l]
      PROVE  DebtInv' /\ RestStays
  <2>1. /\ pc'[Usb] \in BodyPCs /\ pc'[Usb] \notin {"cbLock", "compStore"}
        /\ pc'[User] = pc[User]
        /\ \A e \in Devices : pc'[e] = pc[e]
    BY <1>1, <1>a, ThreadFacts DEF ThreadShape, BodyPCs, HandleErrorPCs
  <2>2. \A e \in Devices : (Engaged(e)' => Engaged(e)) /\ (Spawned(e)' => Spawned(e))
    BY <1>1, <2>1 DEF Engaged, Spawned, KickHolds, OnlyOf, BodyPCs
  <2>3. NumActiveExact'
    BY <1>1, <2>1, BalancedExact DEF DebtInv
  <2> QED BY <1>1, <2>1, <2>2, <2>3, NoMoreOwed, DebtsShrink DEF UserStays, RestStays, Rest
<1>2. CASE InBody
  <2>1. UNCHANGED <<cb, activeDevices, starts, cur>> /\ pc[Usb] = "cbBody"
    BY <1>2 DEF InBody, countVars, userVars
  <2>2. PICK a \in Arrivals(capture[cb.dev]) :
          \/ \E r \in Results : SubmitIn(cb.dev, cb.t, a.cap, r) /\ CallbackTurn(r)
          \/ UNCHANGED <<flight, numActive>> /\ CallbackTurn("closed")
    BY <1>2 DEF InBody
  <2>3. Balanced /\ OnlyOf(cb.dev)
    BY <1>a, <2>2, SubmitInCounts DEF ThreadShape, Balanced, OnlyOf
  <2>4. \E l \in {"cbEnd", "heLock"} : pc' = [pc EXCEPT ![Usb] = l]
    BY <2>2 DEF CallbackTurn, CallHandleError, Goto
  <2> QED BY <1>1, <2>1, <2>3, <2>4
<1>3. CASE OutBody
  <2>1. UNCHANGED <<cb, activeDevices, starts, cur>> /\ pc[Usb] = "cbBody"
    BY <1>3 DEF OutBody, countVars, userVars
  <2>2. \/ \E r \in Results : SubmitOut(cb.dev, cb.t, r) /\ CallbackTurn(r)
        \/ UNCHANGED <<flight, numActive>> /\ CallbackTurn("closed")
    BY <1>3 DEF OutBody
  <2>3. Balanced /\ OnlyOf(cb.dev)
    BY <1>a, <2>2, SubmitOutCounts DEF ThreadShape, Balanced, OnlyOf
  <2>4. \E l \in {"cbEnd", "heLock"} : pc' = [pc EXCEPT ![Usb] = l]
    BY <2>2 DEF CallbackTurn, CallHandleError, Goto
  <2> QED BY <1>1, <2>1, <2>3, <2>4
<1>4. ASSUME UNCHANGED <<flight, numActive, cur, activeDevices, starts>>,
             UserStays, \A e \in Devices : pc'[e] = pc[e],
             pc[Usb] # "cbLock", pc'[Usb] \notin {"cbLock", "compStore"},
             pc'[Usb] \in BodyPCs => pc[Usb] \in BodyPCs /\ cb' = cb
      PROVE  DebtInv' /\ RestStays
  <2>1. NumActiveExact'
    BY <1>4 DEF DebtInv, NumActiveExact
  <2>2. \A e \in Devices : (Engaged(e)' => Engaged(e)) /\ (Spawned(e)' => Spawned(e))
    BY <1>4 DEF Engaged, Spawned, KickHolds
  <2> QED BY <1>4, <2>1, <2>2, NoMoreOwed, DebtsShrink DEF RestStays, Rest
<1>5. CASE CallbackEnd
  <2>1. \E l \in {"compDec", "idle"} :
          pc' = [pc EXCEPT ![Usb] = l] /\ (l = "compDec" => cb' = cb)
    BY <1>5 DEF CallbackEnd, CallbackReturns, Goto
  <2>2. pc[Usb] = "cbEnd" /\ UNCHANGED <<flight, numActive, cur, activeDevices, starts>>
    BY <1>5 DEF CallbackEnd, usbVars, countVars, userVars
  <2> QED BY <1>4, <1>a, <2>1, <2>2, ThreadFacts
          DEF ThreadShape, UserStays, BodyPCs, HandleErrorPCs
<1>6. CASE CompletionDec
  <2>1. /\ pc[Usb] = "compDec" /\ pc' = [pc EXCEPT ![Usb] = "compRead"]
        /\ activeDevices' = Dec(activeDevices)
        /\ UNCHANGED <<flight, numActive, cb, cur, starts>>
    BY <1>6 DEF CompletionDec, Goto, PlainCounter, usbVars, userVars
  <2>2. /\ pc'[Usb] = "compRead" /\ pc'[User] = pc[User]
        /\ \A e \in Devices : pc'[e] = pc[e]
    BY <2>1, <1>a, ThreadFacts DEF ThreadShape
  <2>3. ~KickHolds(cb.dev)
    BY <1>a, <2>1, ThreadFacts DEF LockInv, LockDiscipline, UsbHolds, CompletionPCs, ThreadShape
  <2>4. \A dir \in Dirs : numActive[<<cb.dev, dir>>] = 0
    BY <2>1 DEF LockInv, CompletionQuiet, CompletionPCs
  <2>5. \A e \in Devices : /\ Engaged(e)' <=> Engaged(e) /\ e # cb.dev
                           /\ Spawned(e)' = Spawned(e)
    BY <2>1, <2>2, <2>3, <2>4 DEF Engaged, Spawned, KickHolds, BodyPCs, HandleErrorPCs
  <2>6. Engaged(cb.dev)
    BY <2>1 DEF Engaged, BodyPCs
  <2>7. /\ cb.dev \in EngagedDevices /\ SpawnedDevices' = SpawnedDevices
        /\ EngagedDevices' = EngagedDevices \ {cb.dev}
    BY <1>a, <2>5, <2>6 DEF EngagedDevices, SpawnedDevices, ThreadShape
  <2>8. Owed' = Owed - 1 /\ Owed >= 1
    BY <2>7, OneCompleted
  <2>9. Counted' = Counted - 1 /\ Counted \in Nat /\ Counted >= 1
    <3>1. /\ activeDevices \in 0 .. CounterMod - 1 /\ CounterMod \in Nat
      BY StreamingAssumption DEF TypeOK, SessionTypeOK
    <3>2. Counted \in Nat /\ Counted >= 1
      BY <2>8, <3>1, CounterType, OwedType DEF DebtInv, Counted
    <3> QED BY <2>1, <2>2, <3>1, <3>2 DEF Counted, Inc, Dec
  <2>10. Owed' <= Counted'
    BY <2>8, <2>9, OwedType DEF DebtInv
  <2>11. CountBound'
    <3>1. /\ starts \in 0 .. MaxStarts /\ cur[User] \in Int
      BY ThreadFacts DEF TypeOK, SessionTypeOK, ThreadsTypeOK, Devices
    <3>2. N * starts \in Nat /\ Earlier \in Int
      BY <3>1, Products DEF Earlier
    <3> QED BY <2>1, <2>2, <2>9, <3>1, <3>2 DEF DebtInv, CountBound, Earlier
  <2>12. NumActiveExact' /\ CursorHome' /\ Untorn'
    BY <2>1, <2>2 DEF DebtInv, NumActiveExact, CursorHome, Untorn
  <2> QED BY <2>5, <2>10, <2>11, <2>12 DEF DebtInv, RestStays, Rest
<1>7. CASE CompletionStore
  BY <1>7 DEF CompletionStore, DebtInv, Untorn
<1>8. CASE CompletionRead
  <2>1. \E l \in {"compNotify", "compLock"} : pc' = [pc EXCEPT ![Usb] = l]
    BY <1>8 DEF CompletionRead, Goto
  <2>2. /\ pc[Usb] = "compRead" /\ UNCHANGED <<flight, numActive, cur, activeDevices, starts>>
    BY <1>8 DEF CompletionRead, usbVars, countVars, userVars
  <2> QED BY <1>4, <1>a, <2>1, <2>2, ThreadFacts
          DEF ThreadShape, UserStays, BodyPCs, HandleErrorPCs
<1>9. CASE CompletionLock
  <2>1. /\ pc[Usb] = "compLock" /\ pc' = [pc EXCEPT ![Usb] = "compNotify"]
        /\ UNCHANGED <<flight, numActive, cur, activeDevices, starts>>
    BY <1>9 DEF CompletionLock, Goto, usbVars, countVars, userVars
  <2> QED BY <1>4, <1>a, <2>1, ThreadFacts DEF ThreadShape, UserStays, BodyPCs, HandleErrorPCs
<1>10. CASE CompletionNotify
  <2>1. /\ pc'[Usb] = "idle" /\ pc[Usb] = "compNotify"
        /\ pc'[User] = pc[User] \/ (pc[User] = "endSleep" /\ pc'[User] = "endWake")
        /\ \A e \in Devices : pc'[e] = pc[e]
    BY <1>10, <1>a, ThreadFacts DEF ThreadShape, CompletionNotify
  <2>2. UNCHANGED <<flight, numActive, cur, activeDevices, starts>>
    BY <1>10 DEF CompletionNotify, usbVars, countVars, userVars
  <2> QED BY <1>4, <2>1, <2>2 DEF UserStays, BodyPCs, HandleErrorPCs
<1> QED
  BY <1>2, <1>3, <1>5, <1>6, <1>7, <1>8, <1>9, <1>10, HandleErrorDebts, CallbackBegins
  DEF UsbStep

-----------------------------------------------------------------------------
(* The counters are exact *)

\* Nothing is out at first.
LEMMA InitDebts == Init => DebtInv
<1> SUFFICES ASSUME Init PROVE DebtInv
  OBVIOUS
<1>1. /\ pc[User] = "idle" /\ pc[Usb] = "idle" /\ \A d \in Devices : pc[d] = "none"
      /\ cur[User] = 1 /\ starts = 0 /\ activeDevices = 0
      /\ \A d \in Devices, dir \in Dirs :
           numActive[<<d, dir>>] = 0 /\ flight[<<d, dir>>] = {}
  BY ThreadFacts DEF Init
<1>2. EngagedDevices = {} /\ SpawnedDevices = {}
  BY <1>1 DEF EngagedDevices, SpawnedDevices, Engaged, Spawned, KickHolds, BodyPCs, HandleErrorPCs
<1>3. Owed = 0
  BY <1>2, FS_EmptySet DEF Owed
<1>4. NumActiveExact
  <2>1. pc[Usb] # "cbLock" /\ Cardinality({}) = 0
    BY <1>1, FS_EmptySet
  <2> SUFFICES ASSUME NEW d \in Devices, NEW dir \in Dirs
               PROVE  numActive[<<d, dir>>] = Cardinality(flight[<<d, dir>>]) + 0
    BY <2>1 DEF NumActiveExact
  <2>2. numActive[<<d, dir>>] = 0 /\ flight[<<d, dir>>] = {}
    BY <1>1
  <2> QED BY <2>1, <2>2
<1>5. Counted = 0 /\ N * starts = 0
  BY <1>1, StreamingAssumption DEF Counted
<1> QED BY <1>1, <1>3, <1>4, <1>5 DEF DebtInv, CountBound, CursorHome, Untorn

\* Every step of every thread keeps the books.
LEMMA NextDebts ==
  ASSUME PlainCounter
  PROVE  TypeOK /\ TypeOK' /\ LockInv /\ DebtInv /\ [Next]_vars => DebtInv'
<1> SUFFICES ASSUME TypeOK, TypeOK', LockInv, DebtInv, [Next]_vars
             PROVE  DebtInv'
  OBVIOUS
<1>1. CASE Next
  BY <1>1, UserCounts, KickDebts, UsbDebts, CallbackBegins DEF Next
<1>2. CASE UNCHANGED vars
  BY <1>2, UserDebts DEF vars, threadVars, usbVars, countVars, userVars, TransfersStay,
     Counted, DebtInv, CountBound, CursorHome, Untorn, Earlier
<1> QED BY <1>1, <1>2

\* The debts are covered in every state.
LEMMA DebtsHeld ==
  ASSUME PlainCounter
  PROVE  Spec => []DebtInv
<1>1. TypeOK /\ TypeOK' /\ LockInv /\ DebtInv /\ [Next]_vars => DebtInv'
  BY NextDebts
<1> QED BY <1>1, TypeCorrect, LocksHeld, InitDebts, PTL DEF Spec

\* num_active is the number of transfers that libusb holds or has handed to
\* a callback, whatever fails, is cancelled or is started again too early:
\* "both directions are done" is true when it is read
\* (device_m1000.cpp:289, 319), and configure() never frees a transfer that
\* is out, because m_active_devices is at least the devices that owe a
\* completion (session.cpp:537).
THEOREM NumActiveExactHolds ==
  ASSUME PlainCounter
  PROVE  Spec => []NumActiveExact
<1>1. DebtInv => NumActiveExact
  BY DEF DebtInv
<1> QED BY <1>1, DebtsHeld, PTL

-----------------------------------------------------------------------------
(* While devices answer, end() returns when nothing is out; when nothing   *)
(* leaves a device started and not submitted, the counter is exact         *)

\* What may still fail: submissions, transfers, cancellations, the write data
\* and the read queue.  end() waits long enough.
TameFaults == PlainCounter /\ Faults \cap {"stall", "short", "ctrl", "nodev"} = {}

\* And without failing submissions.
SubmitsWork == "submit" \notin Faults
MildFaults  == TameFaults /\ SubmitsWork

\* A kickoff that has begun to submit, and one that has not.
Opened(d) == pc[d] \in {"kOut", "kEnd"} \cup HandleErrorPCs \/ (pc[d] = "kIn" /\ next[d] # 1)
Fresh(d)  == pc[d] = "kLock" \/ (pc[d] = "kIn" /\ next[d] = 1)

\* Its first input transfer is submitted, unless the submission fails.
Begun(d) ==
  /\ SubmitsWork /\ Opened(d) => numActive[<<d, "in">>] # 0
  /\ Fresh(d) => /\ \A dir \in Dirs : numActive[<<d, dir>>] = 0
                 /\ ~(pc[Usb] \in BodyPCs /\ cb.dev = d)
                 /\ MoreIn(capture[d])
  /\ pc[d] \notin {"kIn", "kOut"} => next[d] = 1

\* A session that end() has ended, or is about to.
Over ==
  \/ session = "stopped" /\ pc[User] \notin StartPCs
  \/ pc[User] \in {"off", "endExpired"}

\* The devices that start() has not reached.
Ahead(d) == IF pc[User] = "inc" THEN d > cur[User] ELSE d >= cur[User]

\* end() reckons its wait from no fewer samples than start() asked for.
LongWait == want <= samples

\* The inductive invariant.
ExactInv ==
  /\ SubmitsWork => Counted <= Owed
  /\ \A d \in Devices :
       /\ Begun(d)
       /\ Over => Rest(d)
       /\ pc[User] \in StartPCs /\ Ahead(d) => Rest(d) /\ calls[d] = 0
       /\ calls[d] <= 1 /\ (~Rest(d) => calls[d] = 0)
  /\ session # "failed"

\* Who owes nothing less takes nothing away.
LEMMA NoLessOwed ==
  ASSUME \A e \in Devices : (Engaged(e) => Engaged(e)') /\ (Spawned(e) => Spawned(e)')
  PROVE  Owed <= Owed'
<1>1. EngagedDevices \in SUBSET EngagedDevices' /\ SpawnedDevices \in SUBSET SpawnedDevices'
  BY DEF EngagedDevices, SpawnedDevices
<1>2. IsFiniteSet(EngagedDevices') /\ IsFiniteSet(SpawnedDevices')
  BY Sizes DEF EngagedDevices, SpawnedDevices
<1>3. /\ Cardinality(EngagedDevices) <= Cardinality(EngagedDevices')
      /\ Cardinality(SpawnedDevices) <= Cardinality(SpawnedDevices')
  BY <1>1, <1>2, FS_Subset
<1>4. /\ Cardinality(EngagedDevices) \in Nat /\ Cardinality(SpawnedDevices) \in Nat
      /\ Cardinality(EngagedDevices') \in Nat /\ Cardinality(SpawnedDevices') \in Nat
  BY Sizes DEF EngagedDevices, SpawnedDevices
<1> QED BY <1>3, <1>4 DEF Owed

\* A count of 0 means that all devices rest.
LEMMA AllRest ==
  ASSUME DebtInv, Counted = 0, NEW d \in Devices
  PROVE  Rest(d)
<1>1. Cardinality(EngagedDevices) = 0 /\ Cardinality(SpawnedDevices) = 0
  BY Sizes DEF DebtInv, Owed, EngagedDevices, SpawnedDevices
<1>2. EngagedDevices = {} /\ SpawnedDevices = {}
  BY <1>1, Sizes, FS_EmptySet DEF EngagedDevices, SpawnedDevices
<1> QED BY <1>2 DEF EngagedDevices, SpawnedDevices, Rest

\* A device rests exactly when it has nothing out, nothing in the hands of a
\* callback and no kickoff.
LEMMA RestDrained ==
  ASSUME TypeOK, LockInv, NumActiveExact, NEW d \in Devices
  PROVE  /\ Rest(d) => Drained(d)
         /\ EventLoopFree /\ Drained(d) => Rest(d)
<1>1. /\ pc[d] \in KickPCs /\ "in" \in Dirs /\ "out" \in Dirs
  BY DEF LockInv, ControlOK, Dirs
<1>2. ASSUME Rest(d)
      PROVE  Drained(d)
  <2>1. pc[d] = "none"
    BY <1>1, <1>2 DEF Rest, Engaged, Spawned, KickHolds, KickPCs
  <2>2. ASSUME NEW dir \in Dirs
        PROVE  flight[<<d, dir>>] = {}
    <3>1. numActive[<<d, dir>>] = 0
      BY <1>2 DEF Rest, Engaged
    <3>2. Cardinality(flight[<<d, dir>>]) = 0
      BY <3>1, FlightFinite DEF NumActiveExact
    <3> QED BY <3>2, FlightFinite, FS_EmptySet
  <2> QED BY <1>1, <2>1, <2>2 DEF Drained
<1>3. ASSUME EventLoopFree, Drained(d)
      PROVE  Rest(d)
  <2>1. pc[Usb] = "idle" /\ pc[d] = "none"
    BY <1>3 DEF EventLoopFree, Drained
  <2>2. \A dir \in Dirs : flight[<<d, dir>>] = {}
    BY <1>3 DEF Drained, Dirs
  <2>3. ASSUME NEW dir \in Dirs
        PROVE  numActive[<<d, dir>>] = 0
    <3>1. numActive[<<d, dir>>] = Cardinality(flight[<<d, dir>>]) + 0
      BY <2>1 DEF NumActiveExact
    <3>2. Cardinality(flight[<<d, dir>>]) = 0
      BY <2>2, FS_EmptySet
    <3> QED BY <3>1, <3>2
  <2> QED BY <2>1, <2>3 DEF Rest, Engaged, Spawned, KickHolds, BodyPCs, HandleErrorPCs
<1> QED BY <1>2, <1>3

\* A step of the user's thread that starts nothing.
LEMMA UserExact ==
  ASSUME ExactInv, TransfersStay, UNCHANGED <<next, capture, calls, activeDevices>>,
         pc[User] # "inc" <=> pc'[User] # "inc", session' # "failed",
         Over' => \A d \in Devices : Rest(d),
         \A d \in Devices : pc'[User] \in StartPCs /\ Ahead(d)'
                              => pc[User] \in StartPCs /\ Ahead(d)
  PROVE  ExactInv'
<1>1. Owed' = Owed /\ Counted' = Counted
  <2>1. \A d \in Devices : Engaged(d)' = Engaged(d) /\ Spawned(d)' = Spawned(d)
    BY DEF TransfersStay, Engaged, Spawned, KickHolds
  <2>2. EngagedDevices' = EngagedDevices /\ SpawnedDevices' = SpawnedDevices
    BY <2>1 DEF EngagedDevices, SpawnedDevices
  <2> QED BY <2>2 DEF Owed, Counted
<1>2. \A d \in Devices : Rest(d)' = Rest(d) /\ (Begun(d) => Begun(d)')
  BY DEF TransfersStay, Rest, Engaged, Spawned, KickHolds, Begun, Opened, Fresh
<1> QED BY <1>1, <1>2 DEF ExactInv

\* start() resets the completions of a session that is over; each device it
\* reaches rests until then.
LEMMA StartExact ==
  ASSUME TypeOK, TypeOK', LockInv, DebtInv, ExactInv, TameFaults,
         \/ \E n \in Counts, isRun \in BOOLEAN : CallStart(n, isRun)
         \/ \E d \in Devices : DeviceOn(d) \/ DeviceRun(d) \/ DeviceReset(d)
         \/ Activate \/ ActivateStore
  PROVE  ExactInv'
<1>a. ThreadShape
  BY ThreadShapes
<1>b. /\ cur[User] \in 1 .. N /\ cur \in [Threads -> Devices] /\ Devices \subseteq Int
  BY ThreadFacts DEF TypeOK, ThreadsTypeOK, Devices
<1>c. /\ "torn" \notin Faults /\ Faults \cap {"ctrl", "nodev"} = {}
  BY DEF TameFaults, PlainCounter
<1>1. ASSUME NEW n \in Counts, NEW isRun \in BOOLEAN, CallStart(n, isRun)
      PROVE  ExactInv'
  <2>1. /\ pc[User] = "idle" /\ pc'[User] = "on" /\ session = "stopped"
        /\ calls' = [d \in Devices |-> 0]
        /\ UNCHANGED <<next, capture, activeDevices, session>>
    BY <1>1, <1>a, ThreadFacts DEF ThreadShape, CallStart, UserIdle, Goto, countVars,
       ExactInv, TypeOK, SessionTypeOK
  <2>2. TransfersStay
    BY <1>1, <1>a, ThreadFacts DEF ThreadShape, CallStart, Goto, TransfersStay, usbVars
  <2>3. \A d \in Devices : Rest(d)
    BY <2>1 DEF ExactInv, Over, StartPCs
  <2>4. Owed' = Owed /\ Counted' = Counted
    BY <2>1, <2>2, NothingOwed DEF DebtInv, Counted
  <2>5. \A d \in Devices : Rest(d)' /\ Begun(d)' /\ calls'[d] = 0
    BY <2>1, <2>2, <2>3
    DEF TransfersStay, ExactInv, Rest, Engaged, Spawned, KickHolds, Begun, Opened, Fresh
  <2> QED BY <2>1, <2>4, <2>5 DEF ExactInv
<1>2. ASSUME NEW d \in Devices, DeviceOn(d)
      PROVE  ExactInv'
  <2>1. /\ pc[User] = "on" /\ pc'[User] = "run"
        /\ UNCHANGED <<cur, next, capture, calls, activeDevices, session>>
    BY <1>2, <1>a, <1>c, ThreadFacts DEF ThreadShape, DeviceOn, Goto, countVars, history
  <2>2. TransfersStay
    BY <1>2, <1>a, <1>c, ThreadFacts DEF ThreadShape, DeviceOn, Goto, TransfersStay, usbVars
  <2> QED BY <2>1, <2>2, UserExact DEF ExactInv, Over, StartPCs, Ahead
<1>6. ASSUME NEW d \in Devices, DeviceRun(d)
      PROVE  ExactInv'
  <2>1. /\ pc[User] = "run" /\ pc'[User] = "reset"
        /\ UNCHANGED <<cur, next, capture, calls, activeDevices, session>>
    BY <1>6, <1>a, <1>c, ThreadFacts DEF ThreadShape, DeviceRun, Goto, countVars, history
  <2>2. TransfersStay
    BY <1>6, <1>a, <1>c, ThreadFacts DEF ThreadShape, DeviceRun, Goto, TransfersStay, usbVars
  <2> QED BY <2>1, <2>2, UserExact DEF ExactInv, Over, StartPCs, Ahead
<1>3. ASSUME NEW d \in Devices, DeviceReset(d)
      PROVE  ExactInv'
  <2>1. /\ pc[User] = "reset" /\ cur[User] = d /\ pc[d] = "none"
        /\ pc' = [pc EXCEPT ![User] = "inc", ![d] = "kLock"]
        /\ capture' = [capture EXCEPT ![d] = [NoCapture EXCEPT !.count = want]]
        /\ UNCHANGED <<flight, numActive, cb, next, cur, calls, activeDevices, session>>
    BY <1>3 DEF DeviceReset, countVars, usbVars, userVars, history
  <2>2. /\ pc'[Usb] = pc[Usb] /\ pc'[d] = "kLock" /\ pc'[User] = "inc"
        /\ \A e \in Devices : e # d => pc'[e] = pc[e]
    BY <2>1, <1>a, ThreadFacts DEF ThreadShape
  <2>3. Rest(d) /\ calls[d] = 0
    BY <1>b, <2>1 DEF ExactInv, Ahead, StartPCs
  <2>4. \A e \in Devices : /\ Engaged(e)' = Engaged(e) /\ (e # d => Spawned(e)' = Spawned(e))
                           /\ Spawned(d)'
    BY <2>1, <2>2 DEF Engaged, Spawned, KickHolds, HandleErrorPCs
  <2>5. Owed' = Owed + 1
    <3>1. \A e \in Devices : Spawned(e)' <=> Spawned(e) \/ e = d
      BY <2>4
    <3>2. /\ EngagedDevices' = EngagedDevices /\ d \notin SpawnedDevices
          /\ SpawnedDevices' = SpawnedDevices \cup {d}
      BY <2>3, <2>4, <3>1 DEF EngagedDevices, SpawnedDevices, Rest
    <3> QED BY <3>2, OneSpawned
  <2>6. Counted' <= Counted + 1
    BY <2>1, <2>2, StreamingAssumption DEF Counted, Inc, TypeOK, SessionTypeOK
  <2>7. SubmitsWork => Counted' <= Owed'
    <3>1. Counted \in Int /\ Counted' \in Int
      BY StreamingAssumption, CounterType DEF Counted, TypeOK, SessionTypeOK
    <3> QED BY <2>5, <2>6, <3>1, OwedType DEF ExactInv
  <2>8. Begun(d)'
    <3>1. MoreIn(capture'[d])
      <4>1. capture'[d] = [NoCapture EXCEPT !.count = want]
        BY <2>1 DEF TypeOK, TransfersTypeOK
      <4>2. capture'[d].count = want /\ capture'[d].req = 0
        BY <4>1 DEF NoCapture
      <4>3. want \in Nat
        BY DEF TypeOK, SessionTypeOK
      <4> QED BY <4>2, <4>3 DEF MoreIn
    <3>2. next[d] = 1
      BY <2>1 DEF ExactInv, Begun
    <3>3. ~Engaged(d)' /\ ~Opened(d)'
      BY <2>2, <2>3, <2>4 DEF Rest, Opened, HandleErrorPCs
    <3> QED BY <2>1, <3>1, <3>2, <3>3 DEF Begun, Engaged
  <2>9. \A e \in Devices : e # d => Begun(e)'
    <3>1. \A e \in Devices : e # d => capture'[e] = capture[e]
      BY <2>1 DEF TypeOK, TransfersTypeOK
    <3> QED BY <2>1, <2>2, <3>1 DEF ExactInv, Begun, Opened, Fresh
  <2>10. ASSUME NEW e \in Devices, e # d
         PROVE  Rest(e)' = Rest(e) /\ (Ahead(e)' => Ahead(e))
    BY <1>b, <2>1, <2>2, <2>4, <2>10 DEF Rest, Ahead
  <2>11. ~Ahead(d)' /\ ~Over' /\ pc[User] \in StartPCs
    BY <1>b, <2>1, <2>2 DEF Ahead, Over, StartPCs
  <2> QED BY <2>1, <2>3, <2>7, <2>8, <2>9, <2>10, <2>11 DEF ExactInv
<1>4. CASE Activate
  <2>1. /\ pc[User] = "inc" /\ activeDevices' = Inc(activeDevices)
        /\ UNCHANGED <<next, capture, calls>>
        /\ IF cur[User] = N
           THEN pc'[User] \in {"idle", "end"} /\ session' = "started"
           ELSE pc'[User] = "on" /\ cur'[User] = cur[User] + 1 /\ session' = session
    BY <1>4, <1>a, <1>b, <1>c, ThreadFacts
    DEF ThreadShape, Activate, NextDevice, StartReturns, Goto, history
  <2>2. TransfersStay
    BY <1>4, <1>a, <1>c, ThreadFacts
    DEF ThreadShape, Activate, NextDevice, StartReturns, Goto, TransfersStay, usbVars
  <2>3. Owed' = Owed /\ Counted' = Counted
    BY <2>1, <2>2, NothingOwed DEF DebtInv, Counted
  <2>4. \A d \in Devices : Rest(d)' = Rest(d) /\ (Begun(d) => Begun(d)')
    BY <2>1, <2>2 DEF TransfersStay, Rest, Engaged, Spawned, KickHolds, Begun, Opened, Fresh
  <2>5. ~Over' /\ session' # "failed"
    BY <2>1 DEF Over, StartPCs, ExactInv
  <2>6. \A d \in Devices : pc'[User] \in StartPCs /\ Ahead(d)' => pc[User] \in StartPCs /\ Ahead(d)
    <3> SUFFICES ASSUME NEW d \in Devices, pc'[User] \in StartPCs, Ahead(d)'
                 PROVE  pc[User] \in StartPCs /\ Ahead(d)
      OBVIOUS
    <3>1. pc'[User] = "on" /\ cur'[User] = cur[User] + 1
      BY <2>1 DEF StartPCs
    <3>2. d \in Int /\ cur[User] \in Int /\ d >= cur'[User]
      BY <1>b, <3>1 DEF Ahead
    <3> QED BY <2>1, <3>1, <3>2 DEF Ahead, StartPCs
  <2> QED BY <2>1, <2>3, <2>4, <2>5, <2>6 DEF ExactInv
<1>5. CASE ActivateStore
  BY <1>5 DEF ActivateStore, DebtInv, Untorn
<1> QED BY <1>1, <1>2, <1>3, <1>4, <1>5, <1>6

\* end() gets to turn devices off when all of them rest: it has seen a count
\* of 0, or given up when nothing was out any more.
LEMMA UserCallsExact ==
  ASSUME TypeOK, TypeOK', LockInv, DebtInv, ExactInv, TameFaults, LongWait, Calls \/ UserStep
  PROVE  ExactInv'
<1>a. ThreadShape
  BY ThreadShapes
<1>b. ASSUME TransfersStay, UNCHANGED <<next, capture, calls, activeDevices, session>>,
             pc[User] \notin StartPCs, pc'[User] \notin StartPCs,
             pc'[User] \notin {"off", "endExpired"}
                \/ pc[User] \in {"off", "endExpired"} \/ \A d \in Devices : Rest(d)
      PROVE  ExactInv'
  BY <1>b, UserExact DEF ExactInv, Over, StartPCs
<1>1. CASE Configure
  <2>1. \A d \in Devices : ~Engaged(d) /\ ~Spawned(d)
    BY <1>1, ConfigureDrained
  <2>2. UNCHANGED <<pc, cur, cb, next, capture, calls, activeDevices, session>>
    BY <1>1 DEF Configure, threadVars, countVars, userVars, history
  <2>3. \A d \in Devices, dir \in Dirs : numActive'[<<d, dir>>] = 0
    BY <1>1 DEF Configure, NewTransfers
  <2>4. \A d \in Devices : Rest(d)' /\ Rest(d)
    BY <2>1, <2>2, <2>3 DEF Rest, Engaged, Spawned, KickHolds
  <2>5. \A d \in Devices : Begun(d)'
    BY <2>1, <2>2, <2>4 DEF ExactInv, Begun, Opened, Fresh, Rest, Engaged, Spawned, KickHolds
  <2>6. Counted' = 0
    BY <1>1, <2>2 DEF Configure, UserIdle, Counted
  <2>7. Counted' <= Owed'
    BY <2>6, OwedTypeNext
  <2>8. pc'[User] \notin StartPCs
    BY <1>1, <2>2 DEF Configure, UserIdle, StartPCs
  <2> QED BY <2>2, <2>4, <2>5, <2>7, <2>8 DEF ExactInv
<1>2. CASE CallCancel
  BY <1>2, <1>a, <1>b, ThreadFacts DEF ThreadShape, TransfersStay, CallCancel, UserIdle, StartPCs,
     usbVars, countVars, userVars, history
<1>3. CASE CallEnd
  BY <1>3, <1>a, <1>b, ThreadFacts DEF ThreadShape, TransfersStay, CallEnd, Goto, UserIdle,
     StartPCs, usbVars, countVars, userVars, history
<1>4. ASSUME NEW d \in Devices, CancelStep(d)
      PROVE  ExactInv'
  <2>1. /\ pc[User] = "cancel" /\ pc'[User] \in {"cancel", "idle", "endLock"}
        /\ UNCHANGED <<next, capture, calls, activeDevices, session>>
    BY <1>4, <1>a, ThreadFacts DEF ThreadShape, CancelStep, Goto, LockInv, ControlOK,
       countVars, userVars, history
  <2>2. TransfersStay
    BY <1>4, <1>a, ThreadFacts DEF ThreadShape, CancelStep, Goto, TransfersStay
  <2> QED BY <2>1, <2>2, <1>b DEF StartPCs
<1>5. ASSUME NEW d \in Devices, DeviceOff(d)
      PROVE  ExactInv'
  <2>1. /\ pc[User] = "off"
        /\ \/ pc'[User] = "off" /\ session' = session
           \/ pc'[User] = "idle" /\ session' = "stopped"
        /\ UNCHANGED <<next, capture, calls, activeDevices>>
    BY <1>5, <1>a, ThreadFacts DEF ThreadShape, DeviceOff, OffNext, EndReturns, countVars, history
  <2>2. TransfersStay
    BY <1>5, <1>a, ThreadFacts DEF ThreadShape, DeviceOff, OffNext, EndReturns,
       TransfersStay, usbVars
  <2>3. \A e \in Devices : Rest(e)
    BY <2>1 DEF ExactInv, Over
  <2> QED BY <2>1, <2>2, <2>3, UserExact DEF ExactInv, StartPCs
<1>6. CASE EndBegins
  BY <1>6, <1>a, <1>b, ThreadFacts DEF ThreadShape, TransfersStay, EndBegins, Goto, StartPCs,
     usbVars, countVars, userVars, history
<1>7. CASE EndLock
  BY <1>7, <1>a, <1>b, ThreadFacts DEF ThreadShape, TransfersStay, EndLock, Goto, StartPCs,
     EndUnchanged, usbVars, countVars, userVars, history
<1>8. CASE EndCheck
  <2>1. activeDevices = 0 => \A d \in Devices : Rest(d)
    BY <1>8, AllRest DEF EndCheck, Counted
  <2> QED
    BY <1>8, <1>a, <1>b, <2>1, ThreadFacts DEF ThreadShape, TransfersStay, EndCheck, Goto,
       StartPCs, EndUnchanged, usbVars, countVars, userVars, history
<1>9. CASE EndBlock
  BY <1>9, <1>a, <1>b, ThreadFacts DEF ThreadShape, TransfersStay, EndBlock, Goto, StartPCs,
     EndUnchanged, usbVars, countVars, userVars, history
<1>10. CASE EndTimeout
  <2>1. \A d \in Devices : Rest(d)
    <3>1. ~(samples < want)
      BY DEF LongWait, TypeOK, SessionTypeOK
    <3> QED BY <1>10, <3>1, RestDrained DEF EndTimeout, Quiescent, TameFaults, DebtInv
  <2> QED
    BY <1>10, <1>a, <1>b, <2>1, ThreadFacts DEF ThreadShape, TransfersStay, EndTimeout, Goto,
       StartPCs, EndUnchanged, usbVars, countVars, userVars, history
<1>11. CASE EndWake
  BY <1>11, <1>a, <1>b, ThreadFacts DEF ThreadShape, TransfersStay, EndWake, Goto, StartPCs,
     EndUnchanged, usbVars, countVars, userVars, history
<1> QED
  BY <1>1, <1>2, <1>3, <1>4, <1>5, <1>6, <1>7, <1>8, <1>9, <1>10, <1>11, StartExact
  DEF Calls, UserStep

\* A step of another thread that completes no device keeps the count exact.
LEMMA OthersExact ==
  ASSUME ExactInv, TypeOK, UserStays, UNCHANGED <<session, activeDevices, calls>>, RestStays,
         SubmitsWork => Owed <= Owed', \A e \in Devices : Begun(e)'
  PROVE  ExactInv'
<1>1. Counted' = Counted /\ Counted \in Int
  BY CounterType, StreamingAssumption DEF Counted, UserStays, TypeOK, SessionTypeOK
<1>2. SubmitsWork => Counted' <= Owed'
  BY <1>1, OwedType, OwedTypeNext DEF ExactInv
<1>3. /\ Over' => Over
      /\ pc'[User] \in StartPCs => pc[User] \in StartPCs
      /\ \A d \in Devices : Ahead(d)' = Ahead(d)
  BY DEF UserStays, Over, StartPCs, Ahead
<1> QED BY <1>2, <1>3 DEF ExactInv, RestStays

\* While the transfers stay and no callback enters its device, no kickoff
\* is disturbed.
LEMMA BegunStays ==
  ASSUME ExactInv, UNCHANGED <<next, numActive, capture>>, NEW d \in Devices,
         pc'[d] = pc[d], pc'[Usb] \in BodyPCs => pc[Usb] \in BodyPCs /\ cb' = cb
  PROVE  Begun(d)'
BY DEF ExactInv, Begun, Opened, Fresh

\* A callback that is inside its device has no kickoff there to disturb.
LEMMA BegunBeside ==
  ASSUME TypeOK, ExactInv, UNCHANGED <<next, cb>>, \A e \in Devices : pc'[e] = pc[e],
         OnlyOf(cb.dev), \A e \in Devices : e # cb.dev => capture'[e] = capture[e],
         ~KickHolds(cb.dev), ~Fresh(cb.dev), pc'[Usb] \in BodyPCs
  PROVE  \A d \in Devices : Begun(d)'
<1> SUFFICES ASSUME NEW d \in Devices
             PROVE  Begun(d)'
  OBVIOUS
<1>1. CASE d = cb.dev
  <2>1. ~Opened(d)' /\ ~Fresh(d)'
    BY <1>1 DEF Opened, Fresh, KickHolds
  <2> QED BY <2>1 DEF ExactInv, Begun
<1>2. CASE d # cb.dev
  <2>1. \A dir \in Dirs : numActive'[<<d, dir>>] = numActive[<<d, dir>>]
    BY <1>2 DEF OnlyOf
  <2> QED BY <1>2, <2>1 DEF ExactInv, Begun, Opened, Fresh, Dirs
<1> QED BY <1>1, <1>2

\* handle_error submits nothing.
LEMMA HandleErrorExact ==
  ASSUME TypeOK, LockInv, DebtInv, ExactInv, NEW th \in Devices \cup {Usb}, HandleError(th)
  PROVE  ExactInv'
<1>a. ThreadShape /\ th \in Threads /\ th # User
  BY ThreadShapes, ThreadFacts
<1>1. RestStays /\ Owed <= Owed'
  BY HandleErrorDebts, OwedType
<1>2. /\ pc[th] \in HandleErrorPCs
      /\ \/ pc'[th] \in HandleErrorPCs
         \/ pc'[th] = ret[th]
      /\ \A x \in Threads : x # th => pc'[x] = pc[x]
      /\ UNCHANGED <<next, numActive, capture, calls, activeDevices, session, starts, cb>>
      /\ cur'[User] = cur[User]
  <2>1. CASE HandleErrorLock(th)
    BY <2>1, <1>a DEF ThreadShape, HandleErrorLock, Goto, HandleErrorPCs, usbVars, countVars,
       userVars, history
  <2>2. CASE HandleErrorCancel(th)
    <3>1. \E k : cur' = [cur EXCEPT ![th] = k]
      BY <2>2 DEF HandleErrorCancel
    <3>2. cur'[User] = cur[User]
      BY <3>1, <1>a, ThreadFacts DEF TypeOK, ThreadsTypeOK
    <3> QED BY <2>2, <3>2, <1>a DEF ThreadShape, HandleErrorCancel, Goto, HandleErrorPCs,
               countVars, userVars, history
  <2>3. CASE HandleErrorUnlock(th)
    BY <2>3, <1>a DEF ThreadShape, HandleErrorUnlock, Goto, HandleErrorPCs, usbVars, countVars,
       userVars, history
  <2> QED BY <2>1, <2>2, <2>3 DEF HandleError
<1>3. UserStays
  BY <1>2, <1>a, ThreadFacts DEF UserStays
<1>4. pc'[Usb] \in BodyPCs => pc[Usb] \in BodyPCs /\ cb' = cb
  BY <1>2, <1>a, ThreadFacts DEF BodyPCs
<1>5. ASSUME NEW d \in Devices
      PROVE  Begun(d)'
  <2>1. CASE d # th
    BY <1>2, <1>4, <2>1, BegunStays, ThreadFacts
  <2>2. CASE d = th
    <3>1. pc'[d] \in {"kOut", "kEnd"} \cup HandleErrorPCs
      BY <1>2, <2>2 DEF LockInv, ControlOK
    <3>2. Opened(d) /\ next[d] = 1
      BY <1>2, <2>2 DEF ExactInv, Begun, Opened, HandleErrorPCs
    <3> QED BY <1>2, <3>1, <3>2 DEF ExactInv, Begun, Fresh, HandleErrorPCs
  <2> QED BY <2>1, <2>2
<1> QED BY <1>1, <1>2, <1>3, <1>5, OthersExact

\* num_active counts, so a direction that has begun does not get to 0 by a
\* submission.
LEMMA MoreStayActive ==
  ASSUME TypeOK, NumActiveExact, NEW d \in Devices, NEW dir \in Dirs, NEW t, NEW r,
         Submitted(d, dir, t, r)
  PROVE  \A x \in Dirs : numActive[<<d, x>>] # 0 => numActive'[<<d, x>>] # 0
<1> SUFFICES ASSUME NEW x \in Dirs, numActive[<<d, x>>] # 0
             PROVE  numActive'[<<d, x>>] # 0
  OBVIOUS
<1>1. numActive \in [Devices \X Dirs -> Int]
  BY DEF TypeOK, TransfersTypeOK
<1>2. numActive[<<d, x>>] \in Nat
  BY FlightFinite DEF NumActiveExact
<1>3. numActive'[<<d, x>>] \in {numActive[<<d, x>>], numActive[<<d, x>>] + 1}
  BY <1>1 DEF Submitted
<1> QED BY <1>2, <1>3

\* The first submission of a kickoff is made: samples are wanted, libusb has
\* none of the device's transfers, and submissions do not fail.
LEMMA FirstSubmitted ==
  ASSUME TypeOK, DebtInv, SubmitsWork, NEW d \in Devices, Begun(d), Fresh(d), NEW t \in Slots,
         NEW r, SubmitIn(d, t, capture[d], r)
  PROVE  r = "ok" /\ numActive'[<<d, "in">>] = 1
<1>1. MoreIn(capture[d]) /\ numActive[<<d, "in">>] = 0 /\ "in" \in Dirs
  BY DEF Begun, Dirs
<1>2. flight[<<d, "in">>] = {}
  <2>1. Cardinality(flight[<<d, "in">>]) = 0
    BY <1>1, FlightFinite DEF DebtInv, NumActiveExact
  <2> QED BY <1>1, <2>1, FlightFinite, FS_EmptySet
<1>3. r = "ok"
  BY <1>1, <1>2 DEF SubmitIn, SubmitResults, SubmitsWork
<1>4. numActive' = [numActive EXCEPT ![<<d, "in">>] = @ + 1]
  BY <1>1, <1>3 DEF SubmitIn, Submitted
<1> QED BY <1>1, <1>3, <1>4 DEF TypeOK, TransfersTypeOK

\* A kickoff leaves its device with something out.
LEMMA KickExact ==
  ASSUME TypeOK, TypeOK', LockInv, DebtInv, ExactInv, TameFaults, NEW d \in Devices, KickStep(d)
  PROVE  ExactInv'
<1>a. ThreadShape /\ d \in Threads /\ d # User /\ d # Usb /\ "in" \in Dirs
  BY ThreadShapes, ThreadFacts DEF Dirs
<1>b. RestStays
  BY KickDebts DEF TameFaults
<1>c. next \in [Devices -> Slots] /\ capture \in [Devices -> CaptureType]
  BY DEF TypeOK, ThreadsTypeOK, TransfersTypeOK
<1>d. Begun(d)
  BY DEF ExactInv
<1>1. CASE HandleError(d)
  BY <1>1, HandleErrorExact
<1>2. ASSUME NEW l, pc' = [pc EXCEPT ![d] = l], l # "kLock", Begun(d)',
             SubmitsWork => Engaged(d)', ~Spawned(d),
             UNCHANGED <<cb, activeDevices, starts, cur, session, calls>>, OnlyOf(d),
             \A e \in Devices : e # d => next'[e] = next[e] /\ capture'[e] = capture[e]
      PROVE  ExactInv'
  <2>1. /\ pc'[Usb] = pc[Usb] /\ pc'[User] = pc[User]
        /\ \A e \in Devices : e # d => pc'[e] = pc[e]
    BY <1>2, <1>a, ThreadFacts DEF ThreadShape
  <2>2. \A e \in Devices : e # d => \A dir \in Dirs : numActive'[<<e, dir>>] = numActive[<<e, dir>>]
    BY <1>2 DEF OnlyOf
  <2>3. SubmitsWork =>
          \A e \in Devices : (Engaged(e) => Engaged(e)') /\ (Spawned(e) => Spawned(e)')
    BY <1>2, <2>1, <2>2 DEF Engaged, Spawned, KickHolds
  <2>4. \A e \in Devices : e # d => Begun(e)'
    BY <1>2, <2>1, <2>2, <1>a DEF ExactInv, Begun, Opened, Fresh
  <2> QED BY <1>2, <1>b, <2>1, <2>3, <2>4, NoLessOwed, OthersExact DEF UserStays
<1>3. CASE KickLock(d)
  <2>1. /\ pc[d] = "kLock" /\ pc' = [pc EXCEPT ![d] = "kIn"]
        /\ UNCHANGED <<next, cur, cb, numActive, capture, activeDevices, starts, session, calls>>
    BY <1>3 DEF KickLock, Goto, usbVars, countVars, userVars, history
  <2>2. /\ pc'[Usb] = pc[Usb] /\ pc'[User] = pc[User] /\ pc'[d] = "kIn"
        /\ \A e \in Devices : e # d => pc'[e] = pc[e]
    BY <2>1, <1>a, ThreadFacts DEF ThreadShape
  <2>3. \A e \in Devices : /\ Engaged(e)' <=> Engaged(e) \/ e = d
                           /\ Spawned(e)' <=> Spawned(e) /\ e # d
    BY <2>1, <2>2 DEF Engaged, Spawned, KickHolds
  <2>4. ~Engaged(d)
    BY <1>d, <2>1 DEF Begun, Fresh, Engaged, KickHolds, HandleErrorPCs
  <2>5. /\ EngagedDevices' = EngagedDevices \cup {d} /\ SpawnedDevices' = SpawnedDevices \ {d}
        /\ d \in SpawnedDevices /\ d \notin EngagedDevices
    BY <2>1, <2>3, <2>4 DEF EngagedDevices, SpawnedDevices, Spawned
  <2>6. Owed' = Owed
    BY <2>5, OneKicked
  <2>7. Begun(d)'
    BY <1>d, <2>1, <2>2 DEF Begun, Fresh, Opened, HandleErrorPCs
  <2>8. \A e \in Devices : e # d => Begun(e)'
    BY <2>1, <2>2, BegunStays
  <2> QED BY <1>b, <2>1, <2>2, <2>6, <2>7, <2>8, OwedType, OthersExact DEF UserStays
<1>4. CASE KickIn(d)
  <2>1. PICK r \in Results :
          SubmitIn(d, next[d], capture[d], r) /\ KickTurn(d, r, "kIn", "kOut")
    BY <1>4 DEF KickIn
  <2>2. /\ next[d] \in Slots /\ OnlyOf(d) /\ pc[d] = "kIn"
        /\ UNCHANGED <<cb, activeDevices, starts, cur, session, calls>>
    BY <1>4, <1>c, <2>1, SubmitInCounts DEF KickIn, countVars, userVars, history
  <2>3. \A e \in Devices : e # d => next'[e] = next[e] /\ capture'[e] = capture[e]
    BY <1>c, <2>1 DEF KickTurn, SubmitIn
  <2>4. ASSUME SubmitsWork PROVE numActive'[<<d, "in">>] # 0
    <3>1. CASE next[d] = 1
      <4>1. Fresh(d)
        BY <2>2, <3>1 DEF Fresh
      <4>2. numActive'[<<d, "in">>] = 1
        BY <1>d, <2>1, <2>2, <2>4, <4>1, FirstSubmitted
      <4> QED BY <4>2
    <3>2. CASE next[d] # 1
      <4>1. numActive[<<d, "in">>] # 0
        BY <1>d, <2>2, <2>4, <3>2 DEF Begun, Opened
      <4>2. CASE MoreIn(capture[d])
        BY <1>a, <2>1, <4>1, <4>2, MoreStayActive DEF SubmitIn, DebtInv
      <4>3. CASE ~MoreIn(capture[d])
        BY <2>1, <4>1, <4>3 DEF SubmitIn
      <4> QED BY <4>2, <4>3
    <3> QED BY <3>1, <3>2
  <2>5. /\ \/ pc' = [pc EXCEPT ![d] = "heLock"] /\ next'[d] = 1
           \/ pc' = [pc EXCEPT ![d] = "kIn"] /\ next'[d] = next[d] + 1
           \/ pc' = [pc EXCEPT ![d] = "kOut"] /\ next'[d] = 1
    BY <1>c, <2>1 DEF KickTurn, CallHandleError, Goto
  <2>6. /\ \/ pc'[d] = "heLock" /\ next'[d] = 1
           \/ pc'[d] = "kIn" /\ next'[d] # 1
           \/ pc'[d] = "kOut" /\ next'[d] = 1
        /\ next[d] \in Nat \ {0}
    BY <1>a, <2>2, <2>5 DEF ThreadShape, Slots
  <2>7. Begun(d)'
    BY <2>4, <2>6 DEF Begun, Fresh, Opened, HandleErrorPCs
  <2>8. (SubmitsWork => Engaged(d)') /\ ~Spawned(d)
    BY <1>a, <2>2, <2>4 DEF Engaged, Spawned
  <2> QED BY <1>2, <2>2, <2>3, <2>5, <2>7, <2>8
<1>5. CASE KickOut(d)
  <2>1. PICK r \in Results : SubmitOut(d, next[d], r) /\ KickTurn(d, r, "kOut", "kEnd")
    BY <1>5 DEF KickOut
  <2>2. /\ next[d] \in Slots /\ OnlyOf(d) /\ pc[d] = "kOut"
        /\ UNCHANGED <<cb, activeDevices, starts, cur, session, calls>>
    BY <1>5, <1>c, <2>1, SubmitOutCounts DEF KickOut, countVars, userVars, history
  <2>3. \A e \in Devices : e # d => next'[e] = next[e] /\ capture'[e] = capture[e]
    BY <1>c, <2>1 DEF KickTurn, SubmitOut
  <2>4. ASSUME SubmitsWork PROVE numActive'[<<d, "in">>] # 0
    <3>1. numActive[<<d, "in">>] # 0
      BY <1>d, <2>2, <2>4 DEF Begun, Opened
    <3>2. UNCHANGED numActive \/ Submitted(d, "out", next[d], r)
      BY <2>1 DEF SubmitOut
    <3> QED BY <1>a, <3>1, <3>2, MoreStayActive DEF DebtInv, Dirs
  <2>5. /\ \/ pc' = [pc EXCEPT ![d] = "heLock"] /\ next'[d] = 1
           \/ pc' = [pc EXCEPT ![d] = "kOut"]
           \/ pc' = [pc EXCEPT ![d] = "kEnd"] /\ next'[d] = 1
    BY <1>c, <2>1 DEF KickTurn, CallHandleError, Goto
  <2>6. \/ pc'[d] = "heLock" /\ next'[d] = 1
        \/ pc'[d] = "kOut"
        \/ pc'[d] = "kEnd" /\ next'[d] = 1
    BY <1>a, <2>5 DEF ThreadShape
  <2>7. Begun(d)'
    BY <2>4, <2>6 DEF Begun, Fresh, Opened, HandleErrorPCs
  <2>8. (SubmitsWork => Engaged(d)') /\ ~Spawned(d)
    BY <1>a, <2>2, <2>4 DEF Engaged, Spawned
  <2> QED BY <1>2, <2>2, <2>3, <2>5, <2>7, <2>8
<1>6. CASE KickEnd(d)
  <2>1. /\ pc[d] = "kEnd" /\ pc' = [pc EXCEPT ![d] = "none"]
        /\ UNCHANGED <<next, cur, cb, numActive, capture, activeDevices, starts, session, calls>>
    BY <1>6 DEF KickEnd, Goto, usbVars, countVars, userVars, history
  <2>2. pc'[d] = "none" /\ (SubmitsWork => numActive[<<d, "in">>] # 0) /\ next[d] = 1
    BY <1>a, <1>d, <2>1 DEF ThreadShape, Begun, Opened
  <2>3. Begun(d)'
    BY <2>1, <2>2 DEF Begun, Fresh, Opened, HandleErrorPCs
  <2>4. (SubmitsWork => Engaged(d)') /\ ~Spawned(d) /\ OnlyOf(d)
    BY <1>a, <2>1, <2>2 DEF Engaged, Spawned, OnlyOf
  <2> QED BY <1>2, <2>1, <2>3, <2>4
<1> QED BY <1>1, <1>3, <1>4, <1>5, <1>6 DEF KickStep

\* The USB thread completes a device at its last transfer and only then.
LEMMA UsbExact ==
  ASSUME TypeOK, TypeOK', LockInv, DebtInv, ExactInv, TameFaults, UsbStep \/ LibusbStep
  PROVE  ExactInv'
<1>a. ThreadShape /\ cb.t \in Slots
  BY ThreadShapes DEF TypeOK, ThreadsTypeOK
<1>b. RestStays
  BY UsbDebts, CallbackBegins DEF TameFaults
<1>c. /\ numActive \in [Devices \X Dirs -> Int] /\ capture \in [Devices -> CaptureType]
  BY DEF TypeOK, TransfersTypeOK
<1>1. ASSUME UNCHANGED <<next, cur, numActive, capture, calls, activeDevices, session, starts>>,
             UserStays, \A e \in Devices : pc'[e] = pc[e],
             pc[Usb] \in BodyPCs =>
                \/ pc'[Usb] \in BodyPCs
                \/ \E dir \in Dirs : numActive[<<cb.dev, dir>>] # 0,
             pc'[Usb] \in BodyPCs => pc[Usb] \in BodyPCs /\ cb' = cb
      PROVE  ExactInv'
  <2>1. \A e \in Devices : (Engaged(e) => Engaged(e)') /\ (Spawned(e) => Spawned(e)')
    BY <1>1 DEF Engaged, Spawned, KickHolds
  <2>2. \A e \in Devices : Begun(e)'
    BY <1>1, BegunStays
  <2> QED BY <1>1, <1>b, <2>1, <2>2, NoLessOwed, OthersExact
<1>2. ASSUME UNCHANGED <<next, cur, cb, calls, activeDevices, session, starts>>,
             \A e \in Devices : pc'[e] = pc[e], pc'[User] = pc[User],
             pc'[Usb] \in BodyPCs, OnlyOf(cb.dev),
             ~KickHolds(cb.dev), ~Fresh(cb.dev),
             \A e \in Devices : e # cb.dev => capture'[e] = capture[e]
      PROVE  ExactInv'
  <2>1. \A e \in Devices : (Engaged(e) => Engaged(e)') /\ (Spawned(e) => Spawned(e)')
    BY <1>2 DEF Engaged, Spawned, KickHolds, OnlyOf
  <2>2. \A e \in Devices : Begun(e)'
    BY <1>2, BegunBeside
  <2>3. UserStays
    BY <1>2 DEF UserStays
  <2> QED BY <1>2, <1>b, <2>1, <2>2, <2>3, NoLessOwed, OthersExact
<1>3. ASSUME NEW d \in Devices, NEW dir \in Dirs, NEW t \in Slots, NEW s \in Statuses,
             LibusbComplete(d, dir, t, s)
      PROVE  ExactInv'
  <2>1. /\ pc[Usb] = "idle" /\ pc' = [pc EXCEPT ![Usb] = "cbLock"]
        /\ UNCHANGED <<next, cur, numActive, capture, calls, activeDevices, session, starts>>
    BY <1>3 DEF LibusbComplete, EventLoopFree, Goto, countVars, userVars, history
  <2>2. /\ pc'[Usb] = "cbLock" /\ pc'[User] = pc[User] /\ \A e \in Devices : pc'[e] = pc[e]
    BY <2>1, <1>a, ThreadFacts DEF ThreadShape
  <2> QED BY <1>1, <2>1, <2>2 DEF UserStays, BodyPCs, HandleErrorPCs
<1>4. CASE CallbackLock
  <2>1. /\ pc[Usb] = "cbLock" /\ stateOwner[cb.dev] = Nobody
        /\ numActive' = [numActive EXCEPT ![<<cb.dev, cb.dir>>] = @ - 1]
        /\ UNCHANGED <<next, cur, cb, capture, calls, activeDevices, session, starts>>
    BY <1>4 DEF CallbackLock, countVars, userVars, history
  <2>2. PICK l \in {"cbBody", "cbEnd", "heLock"} : pc' = [pc EXCEPT ![Usb] = l]
    BY <1>4, <1>a DEF ThreadShape, CallbackLock, Goto, CallHandleError, Statuses
  <2>3. /\ pc'[Usb] \in BodyPCs /\ pc'[User] = pc[User] /\ \A e \in Devices : pc'[e] = pc[e]
    BY <2>2, <1>a, ThreadFacts DEF ThreadShape, BodyPCs, HandleErrorPCs
  <2>4. ~KickHolds(cb.dev)
    BY <1>a, <2>1, ThreadFacts DEF ThreadShape, LockInv, LockDiscipline
  <2>5. numActive[<<cb.dev, cb.dir>>] # 0
    <3>1. numActive[<<cb.dev, cb.dir>>] = Cardinality(flight[<<cb.dev, cb.dir>>]) + 1
      BY <1>a, <2>1 DEF DebtInv, NumActiveExact, ThreadShape
    <3> QED BY <1>a, <3>1, FlightFinite DEF ThreadShape
  <2>6. ~Fresh(cb.dev)
    BY <1>a, <2>5 DEF ExactInv, Begun, ThreadShape
  <2>7. OnlyOf(cb.dev)
    BY <1>c, <2>1 DEF OnlyOf
  <2> QED BY <1>2, <2>1, <2>3, <2>4, <2>6, <2>7
<1>5. ASSUME pc[Usb] = "cbBody"
      PROVE  ~KickHolds(cb.dev) /\ ~Fresh(cb.dev)
  <2>1. ~KickHolds(cb.dev)
    BY <1>a, <1>5, ThreadFacts DEF ThreadShape, LockInv, LockDiscipline, UsbHolds
  <2>2. ~Fresh(cb.dev)
    BY <1>a, <1>5 DEF ExactInv, Begun, ThreadShape, BodyPCs
  <2> QED BY <2>1, <2>2
<1>6. ASSUME NEW l \in {"cbEnd", "heLock"}, pc' = [pc EXCEPT ![Usb] = l]
      PROVE  /\ pc'[Usb] \in BodyPCs /\ pc'[User] = pc[User]
             /\ \A e \in Devices : pc'[e] = pc[e]
  BY <1>6, <1>a, ThreadFacts DEF ThreadShape, BodyPCs, HandleErrorPCs
<1>7. CASE InBody
  <2>1. /\ UNCHANGED <<next, cur, cb, calls, activeDevices, session, starts>>
        /\ pc[Usb] = "cbBody"
    BY <1>7 DEF InBody, countVars, userVars, history
  <2>2. PICK a \in Arrivals(capture[cb.dev]) :
          \/ \E r \in Results : SubmitIn(cb.dev, cb.t, a.cap, r) /\ CallbackTurn(r)
          \/ /\ UNCHANGED <<flight, numActive>> /\ CallbackTurn("closed")
             /\ capture' = [capture EXCEPT ![cb.dev] = a.cap]
    BY <1>7 DEF InBody
  <2>3. OnlyOf(cb.dev)
    BY <1>a, <2>2, SubmitInCounts DEF ThreadShape, OnlyOf
  <2>4. \A e \in Devices : e # cb.dev => capture'[e] = capture[e]
    BY <1>c, <2>2 DEF SubmitIn
  <2>5. \E l \in {"cbEnd", "heLock"} : pc' = [pc EXCEPT ![Usb] = l]
    BY <2>2 DEF CallbackTurn, CallHandleError, Goto
  <2> QED BY <1>2, <1>5, <1>6, <2>1, <2>3, <2>4, <2>5
<1>8. CASE OutBody
  <2>1. /\ UNCHANGED <<next, cur, cb, calls, activeDevices, session, starts>>
        /\ pc[Usb] = "cbBody"
    BY <1>8 DEF OutBody, countVars, userVars, history
  <2>2. \/ \E r \in Results : SubmitOut(cb.dev, cb.t, r) /\ CallbackTurn(r)
        \/ UNCHANGED <<flight, numActive, capture>> /\ CallbackTurn("closed")
    BY <1>8 DEF OutBody
  <2>3. OnlyOf(cb.dev)
    BY <1>a, <2>2, SubmitOutCounts DEF ThreadShape, OnlyOf
  <2>4. \A e \in Devices : e # cb.dev => capture'[e] = capture[e]
    BY <1>c, <2>2 DEF SubmitOut
  <2>5. \E l \in {"cbEnd", "heLock"} : pc' = [pc EXCEPT ![Usb] = l]
    BY <2>2 DEF CallbackTurn, CallHandleError, Goto
  <2> QED BY <1>2, <1>5, <1>6, <2>1, <2>3, <2>4, <2>5
<1>9. CASE CallbackEnd
  <2>1. /\ pc[Usb] = "cbEnd"
        /\ UNCHANGED <<next, cur, numActive, capture, calls, activeDevices, session, starts>>
    BY <1>9 DEF CallbackEnd, usbVars, countVars, userVars, history
  <2>2. \/ pc' = [pc EXCEPT ![Usb] = "compDec"] /\ cb' = cb
        \/ /\ pc' = [pc EXCEPT ![Usb] = "idle"]
           /\ \E dir \in Dirs : numActive[<<cb.dev, dir>>] # 0
    BY <1>9 DEF CallbackEnd, DeviceDone, Goto
  <2>3. /\ pc'[User] = pc[User] /\ \A e \in Devices : pc'[e] = pc[e]
        /\ \/ pc'[Usb] = "compDec" /\ cb' = cb
           \/ pc'[Usb] = "idle" /\ \E dir \in Dirs : numActive[<<cb.dev, dir>>] # 0
    BY <1>a, <2>2, ThreadFacts DEF ThreadShape
  <2> QED BY <1>1, <2>1, <2>3 DEF UserStays, BodyPCs, HandleErrorPCs
<1>10. CASE CompletionDec
  <2>1. /\ pc[Usb] = "compDec" /\ pc' = [pc EXCEPT ![Usb] = "compRead"]
        /\ activeDevices' = Dec(activeDevices)
        /\ calls' = [calls EXCEPT ![cb.dev] = Lesser(@ + 1, 2)]
        /\ UNCHANGED <<next, cur, cb, numActive, capture, session, starts>>
    BY <1>10 DEF CompletionDec, Goto, TameFaults, PlainCounter, usbVars, userVars
  <2>2. /\ pc'[Usb] = "compRead" /\ pc'[User] = pc[User] /\ \A e \in Devices : pc'[e] = pc[e]
    BY <2>1, <1>a, ThreadFacts DEF ThreadShape
  <2>3. ~KickHolds(cb.dev) /\ \A dir \in Dirs : numActive[<<cb.dev, dir>>] = 0
    BY <1>a, <2>1, ThreadFacts DEF LockInv, LockDiscipline, CompletionQuiet, UsbHolds,
       CompletionPCs, ThreadShape
  <2>4. Engaged(cb.dev) /\ ~Spawned(cb.dev) /\ cb.dev \in Devices
    BY <1>a, <2>1 DEF Engaged, Spawned, ExactInv, Begun, Fresh, BodyPCs, ThreadShape
  <2>5. \A e \in Devices : /\ Engaged(e)' <=> Engaged(e) /\ e # cb.dev
                           /\ Spawned(e)' = Spawned(e)
    BY <2>1, <2>2, <2>3 DEF Engaged, Spawned, KickHolds, BodyPCs, HandleErrorPCs
  <2>6. /\ cb.dev \in EngagedDevices /\ SpawnedDevices' = SpawnedDevices
        /\ EngagedDevices' = EngagedDevices \ {cb.dev}
    BY <2>4, <2>5 DEF EngagedDevices, SpawnedDevices
  <2>7. Owed' = Owed - 1 /\ Owed >= 1
    BY <2>6, OneCompleted
  <2>8. Counted' = Counted - 1 /\ Counted \in Nat
    <3>1. activeDevices \in 0 .. CounterMod - 1 /\ CounterMod \in Nat
      BY StreamingAssumption DEF TypeOK, SessionTypeOK
    <3>2. Counted \in Nat /\ Counted >= 1
      BY <2>7, <3>1, CounterType, OwedType DEF DebtInv, Counted
    <3> QED BY <2>1, <2>2, <3>1, <3>2 DEF Counted, Inc, Dec
  <2>9. SubmitsWork => Counted' <= Owed'
    BY <2>7, <2>8, OwedType DEF ExactInv
  <2>10. \A e \in Devices : Begun(e)'
    BY <2>1, <2>2, BegunStays DEF BodyPCs, HandleErrorPCs
  <2>11. /\ calls[cb.dev] = 0 /\ calls'[cb.dev] = 1 /\ Rest(cb.dev)'
         /\ \A e \in Devices : e # cb.dev => calls'[e] = calls[e]
    BY <2>1, <2>4, <2>5 DEF ExactInv, Rest, TypeOK, SessionTypeOK, Lesser
  <2>12. \A e \in Devices : e # cb.dev => Rest(e)' = Rest(e)
    BY <2>5 DEF Rest
  <2>13. /\ Over' = Over /\ pc'[User] = pc[User] /\ \A e \in Devices : Ahead(e)' = Ahead(e)
    BY <2>1, <2>2 DEF Over, Ahead
  <2>14. ~Rest(cb.dev)
    BY <2>4 DEF Rest
  <2> QED BY <2>1, <2>4, <2>9, <2>10, <2>11, <2>12, <2>13, <2>14 DEF ExactInv
<1>11. CASE CompletionStore
  BY <1>11 DEF CompletionStore, DebtInv, Untorn
<1>12. CASE CompletionRead
  <2>1. /\ pc[Usb] = "compRead"
        /\ \E l \in {"compNotify", "compLock"} : pc' = [pc EXCEPT ![Usb] = l]
        /\ UNCHANGED <<next, cur, numActive, capture, calls, activeDevices, session, starts>>
    BY <1>12 DEF CompletionRead, Goto, usbVars, countVars, userVars, history
  <2>2. /\ pc'[Usb] \in {"compNotify", "compLock"} /\ pc'[User] = pc[User]
        /\ \A e \in Devices : pc'[e] = pc[e]
    BY <1>a, <2>1, ThreadFacts DEF ThreadShape
  <2> QED BY <1>1, <2>1, <2>2 DEF UserStays, BodyPCs, HandleErrorPCs
<1>13. CASE CompletionLock
  <2>1. /\ pc[Usb] = "compLock" /\ pc' = [pc EXCEPT ![Usb] = "compNotify"]
        /\ UNCHANGED <<next, cur, numActive, capture, calls, activeDevices, session, starts>>
    BY <1>13 DEF CompletionLock, Goto, usbVars, countVars, userVars, history
  <2>2. /\ pc'[Usb] = "compNotify" /\ pc'[User] = pc[User] /\ \A e \in Devices : pc'[e] = pc[e]
    BY <1>a, <2>1, ThreadFacts DEF ThreadShape
  <2> QED BY <1>1, <2>1, <2>2 DEF UserStays, BodyPCs, HandleErrorPCs
<1>14. CASE CompletionNotify
  <2>1. /\ pc'[Usb] = "idle" /\ pc[Usb] = "compNotify"
        /\ pc'[User] = pc[User] \/ (pc[User] = "endSleep" /\ pc'[User] = "endWake")
        /\ \A e \in Devices : pc'[e] = pc[e]
    BY <1>14, <1>a, ThreadFacts DEF ThreadShape, CompletionNotify
  <2>2. UNCHANGED <<next, cur, numActive, capture, calls, activeDevices, session, starts>>
    BY <1>14 DEF CompletionNotify, usbVars, countVars, userVars
  <2> QED BY <1>1, <2>1, <2>2 DEF UserStays, BodyPCs, HandleErrorPCs
<1> QED
  BY <1>3, <1>4, <1>7, <1>8, <1>9, <1>10, <1>11, <1>12, <1>13, <1>14, HandleErrorExact
  DEF UsbStep, LibusbStep

\* At first every device rests.
LEMMA InitExact == Init => ExactInv
<1> SUFFICES ASSUME Init PROVE ExactInv
  OBVIOUS
<1>1. /\ pc[User] = "idle" /\ pc[Usb] = "idle" /\ activeDevices = 0
      /\ session = "stopped"
      /\ \A d \in Devices : /\ pc[d] = "none" /\ next[d] = 1 /\ calls[d] = 0
                            /\ \A dir \in Dirs : numActive[<<d, dir>>] = 0
  BY ThreadFacts DEF Init
<1>2. \A d \in Devices : Rest(d) /\ Begun(d)
  BY <1>1 DEF Rest, Engaged, Spawned, KickHolds, Begun, Opened, Fresh, BodyPCs, HandleErrorPCs
<1>3. Counted <= Owed
  BY <1>1, OwedType DEF Counted
<1> QED BY <1>1, <1>2, <1>3 DEF ExactInv, StartPCs

\* Only start() changes what is asked for, and run() what the wait is reckoned
\* from.
LEMMA WaitIsLong ==
  ASSUME "short" \notin Faults
  PROVE  Spec => []LongWait
<1>1. Init => LongWait
  BY StreamingAssumption DEF Init, LongWait
<1>2. ASSUME LongWait, [Next]_vars
      PROVE  LongWait'
  <2>1. ASSUME NEW n \in Counts, NEW isRun \in BOOLEAN, CallStart(n, isRun)
        PROVE  LongWait'
    BY <2>1 DEF CallStart, LongWait
  <2>2. ASSUME UNCHANGED <<want, samples>>
        PROVE  LongWait'
    BY <1>2, <2>2 DEF LongWait
  <2>3. CASE Configure \/ CallCancel \/ CallEnd
    BY <2>2, <2>3 DEF Configure, CallCancel, CallEnd, userVars
  <2>4. CASE UserStep
    BY <2>2, <2>4 DEF UserStep, DeviceOn, DeviceRun, DeviceReset, CancelStep, DeviceOff,
       Activate, ActivateStore, EndBegins, EndLock, EndCheck, EndBlock, EndTimeout, EndWake,
       EndUnchanged, userVars
  <2>5. ASSUME NEW th \in Threads, HandleError(th)
        PROVE  LongWait'
    BY <2>2, <2>5 DEF HandleError, HandleErrorLock, HandleErrorCancel, HandleErrorUnlock,
       userVars
  <2>6. ASSUME NEW d \in Devices, KickStep(d)
        PROVE  LongWait'
    BY <2>2, <2>5, <2>6, ThreadFacts DEF KickStep, KickLock, KickIn, KickOut, KickEnd, userVars
  <2>7. CASE UsbStep
    BY <2>2, <2>5, <2>7, ThreadFacts DEF UsbStep, CallbackLock, InBody, OutBody, CallbackEnd,
       CompletionDec, CompletionStore, CompletionRead, CompletionLock, CompletionNotify, userVars
  <2>8. CASE LibusbStep
    BY <2>2, <2>8 DEF LibusbStep, LibusbComplete, userVars
  <2>9. CASE UNCHANGED vars
    BY <2>2, <2>9 DEF vars, userVars
  <2> QED BY <1>2, <2>1, <2>3, <2>4, <2>6, <2>7, <2>8, <2>9 DEF Next, Calls
<1> QED BY <1>1, <1>2, PTL DEF Spec

\* Every step keeps the count exact.
LEMMA NextExact ==
  ASSUME TameFaults
  PROVE  TypeOK /\ TypeOK' /\ LockInv /\ DebtInv /\ LongWait /\ ExactInv /\ [Next]_vars
           => ExactInv'
<1> SUFFICES ASSUME TypeOK, TypeOK', LockInv, DebtInv, LongWait, ExactInv, [Next]_vars
             PROVE  ExactInv'
  OBVIOUS
<1>1. CASE Next
  BY <1>1, UserCallsExact, KickExact, UsbExact DEF Next
<1>2. CASE UNCHANGED vars
  <2>1. TransfersStay /\ UNCHANGED <<pc, cur, next, capture, calls, activeDevices, session>>
    BY <1>2 DEF vars, threadVars, usbVars, countVars, userVars, history, TransfersStay
  <2> QED BY <2>1, UserExact DEF ExactInv, Over, Ahead
<1> QED BY <1>1, <1>2

\* The count is exact in every state.
LEMMA ExactHeld ==
  ASSUME TameFaults
  PROVE  Spec => [](TypeOK /\ LockInv /\ DebtInv /\ ExactInv)
<1>1. PlainCounter
  BY DEF TameFaults
<1>2. TypeOK /\ TypeOK' /\ LockInv /\ DebtInv /\ LongWait /\ ExactInv /\ [Next]_vars
        => ExactInv'
  BY NextExact
<1>3. Spec => []DebtInv
  BY <1>1, DebtsHeld
<1>4. Spec => []LongWait
  BY WaitIsLong DEF TameFaults
<1> QED BY <1>2, <1>3, <1>4, TypeCorrect, LocksHeld, InitExact, PTL DEF Spec

\* Between two callbacks and outside start(), m_active_devices is the number
\* of devices with transfers out or about to be submitted: configure(), add(),
\* remove() and end() may rely on it (libsmu.hpp:130, session.cpp:537, 601).
THEOREM ActiveDevicesExactHolds ==
  ASSUME MildFaults
  PROVE  Spec => []ActiveDevicesExact
<1>1. ASSUME TypeOK, LockInv, DebtInv, ExactInv
      PROVE  ActiveDevicesExact
  <2> SUFFICES ASSUME EventLoopFree, pc[User] \notin StartPCs
               PROVE  activeDevices = Cardinality({d \in Devices : ~Drained(d)})
    BY DEF ActiveDevicesExact
  <2>1. {d \in Devices : ~Drained(d)} = EngagedDevices \cup SpawnedDevices
    BY <1>1, RestDrained DEF DebtInv, EngagedDevices, SpawnedDevices, Rest
  <2>2. EngagedDevices \cap SpawnedDevices = {}
    <3>1. \A d \in Devices : Spawned(d) => ~Engaged(d)
      BY <1>1 DEF ExactInv, Begun, Fresh, Spawned, Engaged, KickHolds, HandleErrorPCs
    <3> QED BY <3>1 DEF EngagedDevices, SpawnedDevices
  <2>3. /\ IsFiniteSet(EngagedDevices) /\ IsFiniteSet(SpawnedDevices)
        /\ Cardinality(EngagedDevices) \in Nat /\ Cardinality(SpawnedDevices) \in Nat
    BY Sizes DEF EngagedDevices, SpawnedDevices
  <2>4. Cardinality(EngagedDevices \cup SpawnedDevices) = Owed
    <3>1. Cardinality(EngagedDevices \cup SpawnedDevices)
            = Cardinality(EngagedDevices) + Cardinality(SpawnedDevices) - Cardinality({})
      BY <2>2, <2>3, FS_Union
    <3> QED BY <2>3, <3>1, FS_EmptySet DEF Owed
  <2>5. Counted = activeDevices /\ activeDevices \in Int
    BY <1>1 DEF Counted, StartPCs, TypeOK, SessionTypeOK
  <2> QED BY <1>1, <2>1, <2>4, <2>5, OwedType DEF DebtInv, ExactInv, MildFaults
<1>2. Spec => [](TypeOK /\ LockInv /\ DebtInv /\ ExactInv)
  BY ExactHeld DEF MildFaults
<1> QED BY <1>1, <1>2, PTL

\* A device completes at most once per start(), however its two directions
\* and its kickoff interleave (device_m1000.cpp:289, 319, session.cpp:685).
THEOREM CompletedOnceHolds ==
  ASSUME TameFaults
  PROVE  Spec => []CompletedOnce
<1>1. ExactInv => CompletedOnce
  BY DEF ExactInv, CompletedOnce
<1>2. Spec => [](TypeOK /\ LockInv /\ DebtInv /\ ExactInv)
  BY ExactHeld
<1> QED BY <1>1, <1>2, PTL

\* Only the look at m_active_devices takes end() from the wait's predicate to
\* off().
LEMMA OnlyEndCheck ==
  ASSUME TypeOK, LockInv, Next, pc[User] = "endCheck", pc'[User] = "off"
  PROVE  EndCheck
<1>a. ThreadShape
  BY ThreadShapes
<1>1. CASE Calls
  BY <1>1 DEF Calls, Configure, CallCancel, CallEnd, CallStart, UserIdle
<1>2. CASE UserStep
  BY <1>2 DEF UserStep, DeviceOn, DeviceRun, DeviceReset, CancelStep, DeviceOff, Activate,
     ActivateStore, EndBegins, EndLock, EndBlock, EndTimeout, EndWake
<1>3. ASSUME NEW th \in Devices \cup {Usb}, HandleError(th)
      PROVE  FALSE
  BY <1>3, HandleErrorFrame, ThreadFacts
<1>4. ASSUME NEW d \in Devices, KickStep(d)
      PROVE  FALSE
  BY <1>3, <1>4, <1>a, ThreadFacts DEF ThreadShape, KickStep, KickLock, KickIn, KickOut,
     KickEnd, KickTurn, CallHandleError, Goto
<1>5. CASE UsbStep
  <2>1. CASE CallbackLock
    <3>1. cb.status \in Statuses
      BY DEF TypeOK, ThreadsTypeOK
    <3> QED BY <2>1, <3>1, <1>a, ThreadFacts
            DEF ThreadShape, CallbackLock, CallHandleError, Goto, Statuses
  <2>4. CASE InBody
    <3>1. \E r : CallbackTurn(r)
      BY <2>4 DEF InBody
    <3> QED BY <3>1, <1>a, ThreadFacts DEF ThreadShape, CallbackTurn, CallHandleError, Goto
  <2>5. CASE OutBody
    <3>1. \E r : CallbackTurn(r)
      BY <2>5 DEF OutBody
    <3> QED BY <3>1, <1>a, ThreadFacts DEF ThreadShape, CallbackTurn, CallHandleError, Goto
  <2>6. CASE CallbackEnd
    BY <2>6, <1>a, ThreadFacts DEF ThreadShape, CallbackEnd, Goto
  <2>2. CASE CompletionDec \/ CompletionStore \/ CompletionRead \/ CompletionLock
    BY <2>2, <1>a, ThreadFacts DEF ThreadShape, CompletionDec, CompletionStore, CompletionRead,
       CompletionLock, Goto
  <2>3. CASE CompletionNotify
    BY <2>3, <1>a, ThreadFacts DEF ThreadShape, CompletionNotify
  <2> QED BY <1>3, <1>5, <2>1, <2>2, <2>3, <2>4, <2>5, <2>6 DEF UsbStep
<1>6. CASE LibusbStep
  BY <1>6, <1>a, ThreadFacts DEF ThreadShape, LibusbStep, LibusbComplete, Goto
<1> QED BY <1>1, <1>2, <1>4, <1>5, <1>6 DEF Next

\* end() goes on from the predicate of its wait only when nothing is out: the
\* counter never falls to 0 too early, whatever fails, however late devices
\* answer and however long the wait is (session.cpp:601).
THEOREM EndSeesDrainedHolds ==
  ASSUME PlainCounter
  PROVE  Spec => EndSeesDrained
<1>1. ASSUME TypeOK, LockInv, DebtInv, [Next]_vars, pc[User] = "endCheck", pc'[User] = "off",
             NEW d \in Devices
      PROVE  Drained(d)
  <2>1. EndCheck
    BY <1>1, OnlyEndCheck DEF vars, threadVars
  <2>2. Counted = 0
    BY <1>1, <2>1, ThreadShapes, ThreadFacts DEF ThreadShape, EndCheck, Goto, Counted
  <2> QED BY <1>1, <2>2, AllRest, RestDrained DEF DebtInv
<1>2. TypeOK /\ LockInv /\ DebtInv /\ [Next]_vars
        => [pc[User] = "endCheck" /\ pc'[User] = "off" => \A d \in Devices : Drained(d)]_vars
  BY <1>1
<1>3. Spec => []DebtInv
  BY DebtsHeld
<1> QED BY <1>2, <1>3, TypeCorrect, LocksHeld, PTL DEF Spec, EndSeesDrained

=============================================================================
