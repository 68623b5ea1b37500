--------------------------- MODULE StreamingProofs ---------------------------
(***************************************************************************)
(* Theorems about the types and the locks of Streaming for any number of   *)
(* devices, transfers and samples and every combination of faults, torn    *)
(* counters included.                                                      *)
(***************************************************************************)
EXTENDS Streaming, TLAPS

\* The three kinds of threads are distinct, and the cursors stay in range.
LEMMA ThreadFacts ==
  /\ Devices \subseteq Threads /\ User \in Threads /\ Usb \in Threads
  /\ User \notin Devices /\ Usb \notin Devices /\ User # Usb
  /\ Nobody \notin Threads
  /\ 1 \in Devices /\ N \in Devices /\ 1 \in Slots
  /\ \A d \in Devices : d < N \/ d # N => d + 1 \in Devices
  /\ \A t \in Slots : t < NT => t + 1 \in Slots
BY StreamingAssumption DEF Devices, Threads, User, Usb, Nobody, Slots

\* What the counter operators return.
LEMMA CounterType ==
  \A x \in 0 .. CounterMod - 1 :
    Inc(x) \in 0 .. CounterMod - 1 /\ Dec(x) \in 0 .. CounterMod - 1
BY StreamingAssumption DEF Inc, Dec

\* Whatever a transfer brings or takes, the sample counters stay counters.
LEMMA CaptureTypes ==
  ASSUME NEW c \in CaptureType
  PROVE  /\ Requested(c) \in CaptureType
         /\ \A a \in Arrivals(c) : a.cap \in CaptureType /\ a.threw \in BOOLEAN
         /\ \A e \in Encodings(c) : e.cap \in CaptureType /\ e.threw \in BOOLEAN
<1> SPT \in Nat BY StreamingAssumption
<1> c = [count |-> c.count, req |-> c.req, out |-> c.out, ins |-> c.ins, got |-> c.got]
  BY DEF CaptureType
<1>1. Requested(c) \in CaptureType
  BY DEF Requested, CaptureType
<1>2. ASSUME NEW n \in Nat
      PROVE  Received(c, n) \in CaptureType
  <2>1. c.count \in Nat /\ c.ins \in Nat /\ c.got \in Int
    BY DEF CaptureType
  <2>2. c.ins + n \in Nat
    BY <2>1
  <2>3. c.got + Lesser(c.count, c.ins + n) - Lesser(c.count, c.ins) \in Int
    BY <2>1, <2>2 DEF Lesser
  <2>4. [c EXCEPT !.ins = @ + n,
                  !.got = @ + Lesser(c.count, c.ins + n) - Lesser(c.count, c.ins)]
          \in CaptureType
    BY <2>2, <2>3 DEF CaptureType
  <2> QED BY <2>4 DEF Received
<1>3. ASSUME NEW a \in Arrivals(c)
      PROVE  a.cap \in CaptureType /\ a.threw \in BOOLEAN
  <2>1. CASE a = [cap |-> Received(c, SPT), threw |-> FALSE]
    BY <1>2, <2>1
  <2>2. ASSUME NEW n \in 0 .. SPT - 1,
               a = [cap |-> IF c.count = 0 THEN c
                            ELSE [Received(c, n) EXCEPT !.ins = @ + 1],
                    threw |-> TRUE]
        PROVE  a.cap \in CaptureType /\ a.threw \in BOOLEAN
    <3>1. Received(c, n) \in CaptureType BY <1>2
    <3> QED BY <2>2, <3>1 DEF CaptureType
  <2> QED BY <2>1, <2>2 DEF Arrivals
<1>4. ASSUME NEW e \in Encodings(c)
      PROVE  e.cap \in CaptureType /\ e.threw \in BOOLEAN
  <2>1. CASE e = [cap |-> IF c.count = 0 THEN c ELSE [c EXCEPT !.out = @ + SPT],
                  threw |-> FALSE]
    BY <2>1 DEF CaptureType
  <2>2. ASSUME NEW n \in 0 .. SPT - 1,
               e = [cap |-> [c EXCEPT !.out = @ + n], threw |-> TRUE]
        PROVE  e.cap \in CaptureType /\ e.threw \in BOOLEAN
    BY <2>2 DEF CaptureType
  <2> QED BY <2>1, <2>2 DEF Encodings
<1> QED BY <1>1, <1>3, <1>4

-----------------------------------------------------------------------------
(* Type correctness *)

\* A submission, refused or not, keeps the types of the transfer state.
LEMMA SubmittedTypes ==
  ASSUME TransfersTypeOK, NEW d \in Devices, NEW dir \in Dirs, NEW t \in Slots,
         NEW r, Submitted(d, dir, t, r)
  PROVE  /\ flight' \in [Devices \X Dirs -> SUBSET Slots]
         /\ numActive' \in [Devices \X Dirs -> Int]
<1>1. flight[<<d, dir>>] \cup {t} \in SUBSET Slots /\ numActive[<<d, dir>>] + 1 \in Int
  BY DEF TransfersTypeOK
<1>2. CASE r = "ok"
  <2>1. flight' = [flight EXCEPT ![<<d, dir>>] = flight[<<d, dir>>] \cup {t}]
    BY <1>2 DEF Submitted
  <2>2. numActive' = [numActive EXCEPT ![<<d, dir>>] = numActive[<<d, dir>>] + 1]
    BY <1>2 DEF Submitted
  <2>3. flight' \in [Devices \X Dirs -> SUBSET Slots]
    BY <2>1, <1>1 DEF TransfersTypeOK
  <2>4. numActive' \in [Devices \X Dirs -> Int]
    BY <2>2, <1>1 DEF TransfersTypeOK
  <2> QED BY <2>3, <2>4
<1>3. CASE r # "ok"
  <2>1. UNCHANGED <<flight, numActive>>
    BY <1>3 DEF Submitted
  <2> QED BY <2>1 DEF TransfersTypeOK
<1> QED BY <1>2, <1>3

\* submit_in_transfer keeps the types, whatever libusb answers.
LEMMA SubmitInTypes ==
  ASSUME TransfersTypeOK, NEW d \in Devices, NEW t \in Slots,
         NEW c \in CaptureType, NEW r, SubmitIn(d, t, c, r)
  PROVE  /\ flight' \in [Devices \X Dirs -> SUBSET Slots]
         /\ numActive' \in [Devices \X Dirs -> Int]
         /\ capture' \in [Devices -> CaptureType]
<1>1. "in" \in Dirs
  BY DEF Dirs
<1>2. Submitted(d, "in", t, r) \/ UNCHANGED <<flight, numActive>>
  BY DEF SubmitIn
<1>3. capture' = [capture EXCEPT ![d] = c] \/ capture' = [capture EXCEPT ![d] = Requested(c)]
  BY DEF SubmitIn
<1>4. capture' \in [Devices -> CaptureType]
  BY <1>3, CaptureTypes DEF TransfersTypeOK
<1>5. CASE Submitted(d, "in", t, r)
  BY <1>1, <1>4, <1>5, SubmittedTypes
<1>6. CASE UNCHANGED <<flight, numActive>>
  BY <1>4, <1>6 DEF TransfersTypeOK
<1> QED BY <1>2, <1>5, <1>6

\* submit_out_transfer keeps the types, an exception while encoding included.
LEMMA SubmitOutTypes ==
  ASSUME TransfersTypeOK, NEW d \in Devices, NEW t \in Slots, NEW r, SubmitOut(d, t, r)
  PROVE  /\ flight' \in [Devices \X Dirs -> SUBSET Slots]
         /\ numActive' \in [Devices \X Dirs -> Int]
         /\ capture' \in [Devices -> CaptureType]
<1>1. "out" \in Dirs /\ capture[d] \in CaptureType
  BY DEF Dirs, TransfersTypeOK
<1>2. Submitted(d, "out", t, r) \/ UNCHANGED <<flight, numActive>>
  BY DEF SubmitOut
<1>3. \/ UNCHANGED capture
      \/ \E e \in Encodings(capture[d]) : capture' = [capture EXCEPT ![d] = e.cap]
  BY DEF SubmitOut
<1>4. capture' \in [Devices -> CaptureType]
  BY <1>1, <1>3, CaptureTypes DEF TransfersTypeOK
<1>5. CASE Submitted(d, "out", t, r)
  BY <1>1, <1>4, <1>5, SubmittedTypes
<1>6. CASE UNCHANGED <<flight, numActive>>
  BY <1>4, <1>6 DEF TransfersTypeOK
<1> QED BY <1>2, <1>5, <1>6

\* Cancelling a device's transfers keeps the types.
LEMMA CancelTypes ==
  ASSUME TransfersTypeOK, NEW th, NEW d \in Devices, NEW ok, CancelDevice(th, d, ok)
  PROVE  marked' \in [Devices \X Dirs -> SUBSET Slots]
<1>1. "in" \in Dirs /\ "out" \in Dirs
  BY DEF Dirs
<1>2. \A dir \in Dirs : Cancellable(d, dir) \in SUBSET Slots
  BY DEF TransfersTypeOK, Cancellable
<1>3. PICK i \in SUBSET Slots, o \in SUBSET Slots :
        marked' = [marked EXCEPT ![<<d, "in">>] = @ \cup i, ![<<d, "out">>] = @ \cup o]
  BY <1>1, <1>2 DEF CancelDevice
<1> QED BY <1>1, <1>3 DEF TransfersTypeOK

\* The user's thread keeps every variable in its type.
LEMMA UserTypes ==
  ASSUME TypeOK, Calls \/ UserStep
  PROVE  TypeOK'
<1>1. CASE Configure
  <2>1. ThreadsTypeOK'
    BY <1>1, ThreadFacts DEF TypeOK, ThreadsTypeOK, Configure, PCs, UserPCs,
       UsbPCs, KickPCs, StartPCs, EndPCs, CompletionPCs, HandleErrorPCs,
       lockVars, threadVars
  <2>2. TransfersTypeOK'
    BY <1>1, ThreadFacts DEF TypeOK, TransfersTypeOK, Configure, NewTransfers,
       usbVars
  <2>3. SessionTypeOK'
    BY <1>1 DEF TypeOK, SessionTypeOK, Configure, userVars, flagVars,
       countVars, history
  <2> QED BY <2>1, <2>2, <2>3 DEF TypeOK
<1>2. CASE CallCancel
  <2>1. ThreadsTypeOK'
    BY <1>2, ThreadFacts DEF TypeOK, ThreadsTypeOK, CallCancel, Goto, PCs,
       UserPCs, UsbPCs, KickPCs, StartPCs, EndPCs, CompletionPCs,
       HandleErrorPCs, lockVars, threadVars
  <2>2. TransfersTypeOK'
    BY <1>2 DEF TypeOK, TransfersTypeOK, CallCancel, usbVars
  <2>3. SessionTypeOK'
    BY <1>2 DEF TypeOK, SessionTypeOK, CallCancel, userVars, flagVars,
       countVars, history
  <2> QED BY <2>1, <2>2, <2>3 DEF TypeOK
<1>3. CASE CallEnd
  <2>1. ThreadsTypeOK'
    BY <1>3, ThreadFacts DEF TypeOK, ThreadsTypeOK, CallEnd, Goto, PCs,
       UserPCs, UsbPCs, KickPCs, StartPCs, EndPCs, CompletionPCs,
       HandleErrorPCs, lockVars, threadVars
  <2>2. TransfersTypeOK'
    BY <1>3 DEF TypeOK, TransfersTypeOK, CallEnd, usbVars
  <2>3. SessionTypeOK'
    BY <1>3 DEF TypeOK, SessionTypeOK, CallEnd, userVars, flagVars, countVars,
       history
  <2> QED BY <2>1, <2>2, <2>3 DEF TypeOK
<1>4. ASSUME NEW n \in Counts, NEW isRun \in BOOLEAN, CallStart(n, isRun)
      PROVE  TypeOK'
  <2>1. ThreadsTypeOK'
    BY <1>4, ThreadFacts DEF TypeOK, ThreadsTypeOK, CallStart, Goto, PCs,
       UserPCs, UsbPCs, KickPCs, StartPCs, EndPCs, CompletionPCs,
       HandleErrorPCs, lockVars, threadVars
  <2>2. TransfersTypeOK'
    BY <1>4 DEF TypeOK, TransfersTypeOK, CallStart, usbVars
  <2>3. SessionTypeOK'
    <3>1. starts' \in 0 .. MaxStarts /\ want' \in Nat /\ samples' \in Nat
      BY <1>4, StreamingAssumption DEF TypeOK, SessionTypeOK, CallStart
    <3>2. calls' \in [Devices -> 0 .. 2]
      BY <1>4 DEF CallStart
    <3>3. /\ cancellation' = FALSE /\ continuous' = (n = 0)
          /\ thenEnd' = isRun /\ called' = FALSE
          /\ UNCHANGED <<activeDevices, loaded, ePtr, session>>
      BY <1>4 DEF CallStart, countVars
    <3> QED BY <3>1, <3>2, <3>3 DEF TypeOK, SessionTypeOK
  <2> QED BY <2>1, <2>2, <2>3 DEF TypeOK
<1>5. ASSUME NEW d \in Devices, DeviceOn(d)
      PROVE  TypeOK'
  <2>1. ThreadsTypeOK'
    BY <1>5, ThreadFacts DEF TypeOK, ThreadsTypeOK, DeviceOn, Goto,
       StartReturns, PCs, UserPCs, UsbPCs, KickPCs, StartPCs, EndPCs,
       CompletionPCs, HandleErrorPCs, lockVars, threadVars
  <2>2. TransfersTypeOK'
    BY <1>5 DEF TypeOK, TransfersTypeOK, DeviceOn, usbVars
  <2>3. SessionTypeOK'
    BY <1>5 DEF TypeOK, SessionTypeOK, DeviceOn, StartReturns, userVars,
       flagVars, countVars, history
  <2> QED BY <2>1, <2>2, <2>3 DEF TypeOK
<1>6. ASSUME NEW d \in Devices, DeviceRun(d)
      PROVE  TypeOK'
  <2>1. ThreadsTypeOK'
    BY <1>6, ThreadFacts DEF TypeOK, ThreadsTypeOK, DeviceRun, Goto,
       StartReturns, PCs, UserPCs, UsbPCs, KickPCs, StartPCs, EndPCs,
       CompletionPCs, HandleErrorPCs, lockVars, threadVars
  <2>2. TransfersTypeOK'
    BY <1>6 DEF TypeOK, TransfersTypeOK, DeviceRun, usbVars
  <2>3. SessionTypeOK'
    BY <1>6 DEF TypeOK, SessionTypeOK, DeviceRun, StartReturns, userVars,
       flagVars, countVars, history
  <2> QED BY <2>1, <2>2, <2>3 DEF TypeOK
<1>7. ASSUME NEW d \in Devices, CancelStep(d)
      PROVE  TypeOK'
  <2>1. ThreadsTypeOK'
    <3>1. \A x \in Threads : ret[x] \in PCs
      BY DEF TypeOK, ThreadsTypeOK, PCs, UserPCs, EndPCs, UsbPCs, KickPCs
    <3>2. pc' \in [Threads -> PCs]
      BY <1>7, <3>1, ThreadFacts DEF TypeOK, ThreadsTypeOK, CancelStep, Goto
    <3>3. cur' \in [Threads -> Devices]
      BY <1>7, ThreadFacts DEF TypeOK, ThreadsTypeOK, CancelStep
    <3> QED BY <1>7, <3>2, <3>3 DEF TypeOK, ThreadsTypeOK, CancelStep, lockVars
  <2>2. TransfersTypeOK'
    <3>1. UNCHANGED <<flight, numActive, capture, sampling>>
      BY <1>7 DEF CancelStep
    <3> QED BY <1>7, <3>1, CancelTypes, ThreadFacts DEF TypeOK, ThreadsTypeOK, TransfersTypeOK, CancelStep
  <2>3. SessionTypeOK'
    BY <1>7 DEF TypeOK, SessionTypeOK, CancelStep, userVars, flagVars,
       countVars, history
  <2> QED BY <2>1, <2>2, <2>3 DEF TypeOK
<1>8. ASSUME NEW d \in Devices, DeviceOff(d)
      PROVE  TypeOK'
  <2>1. ThreadsTypeOK'
    BY <1>8, ThreadFacts DEF TypeOK, ThreadsTypeOK, DeviceOff, OffNext,
       EndReturns, PCs, UserPCs, UsbPCs, KickPCs, StartPCs, EndPCs,
       CompletionPCs, HandleErrorPCs, lockVars, threadVars
  <2>2. TransfersTypeOK'
    BY <1>8 DEF TypeOK, TransfersTypeOK, DeviceOff, usbVars
  <2>3. SessionTypeOK'
    BY <1>8 DEF TypeOK, SessionTypeOK, DeviceOff, OffNext, EndReturns,
       userVars, flagVars, countVars, history
  <2> QED BY <2>1, <2>2, <2>3 DEF TypeOK
<1>9. CASE Activate
  <2>1. ThreadsTypeOK'
    <3>1. {"on", "incStore", "end", "idle"} \subseteq PCs
      BY DEF PCs, UserPCs, StartPCs, EndPCs
    <3>2. pc' \in [Threads -> PCs]
      BY <1>9, <3>1 DEF TypeOK, ThreadsTypeOK, Activate, Goto, NextDevice, StartReturns
    <3>3. cur' \in [Threads -> Devices]
      BY <1>9, ThreadFacts DEF TypeOK, ThreadsTypeOK, Activate, NextDevice, StartReturns
    <3> QED BY <1>9, <3>2, <3>3 DEF TypeOK, ThreadsTypeOK, Activate, lockVars
  <2>2. TransfersTypeOK'
    BY <1>9 DEF TypeOK, TransfersTypeOK, Activate, usbVars
  <2>3. SessionTypeOK'
    BY <1>9, CounterType DEF TypeOK, SessionTypeOK, Activate, NextDevice,
       StartReturns, userVars, flagVars, countVars, history
  <2> QED BY <2>1, <2>2, <2>3 DEF TypeOK
<1>10. CASE ActivateStore
  <2>1. ThreadsTypeOK'
    BY <1>10, ThreadFacts DEF TypeOK, ThreadsTypeOK, ActivateStore, Goto,
       NextDevice, StartReturns, PCs, UserPCs, UsbPCs, KickPCs, StartPCs,
       EndPCs, CompletionPCs, HandleErrorPCs, lockVars, threadVars
  <2>2. TransfersTypeOK'
    BY <1>10 DEF TypeOK, TransfersTypeOK, ActivateStore, usbVars
  <2>3. SessionTypeOK'
    <3>1. Inc(loaded[User]) \in 0 .. CounterMod - 1 /\ 0 \in 0 .. CounterMod - 1
      BY CounterType, StreamingAssumption DEF TypeOK, SessionTypeOK
    <3> QED BY <1>10, <3>1 DEF TypeOK, SessionTypeOK, ActivateStore, NextDevice, StartReturns, userVars, flagVars,
               countVars, history
  <2> QED BY <2>1, <2>2, <2>3 DEF TypeOK
<1>11. CASE EndBegins
  <2>1. ThreadsTypeOK'
    BY <1>11, ThreadFacts DEF TypeOK, ThreadsTypeOK, EndBegins, Goto, PCs,
       UserPCs, UsbPCs, KickPCs, StartPCs, EndPCs, CompletionPCs,
       HandleErrorPCs, lockVars, threadVars
  <2>2. TransfersTypeOK'
    BY <1>11 DEF TypeOK, TransfersTypeOK, EndBegins, usbVars
  <2>3. SessionTypeOK'
    BY <1>11 DEF TypeOK, SessionTypeOK, EndBegins, userVars, flagVars,
       countVars, history
  <2> QED BY <2>1, <2>2, <2>3 DEF TypeOK
<1>12. CASE EndLock
  <2>1. ThreadsTypeOK'
    BY <1>12, ThreadFacts DEF TypeOK, ThreadsTypeOK, EndLock, Goto,
       EndUnchanged, PCs, UserPCs, UsbPCs, KickPCs, StartPCs, EndPCs,
       CompletionPCs, HandleErrorPCs, lockVars, threadVars
  <2>2. TransfersTypeOK'
    BY <1>12, ThreadFacts DEF TypeOK, TransfersTypeOK, EndLock, EndUnchanged,
       usbVars
  <2>3. SessionTypeOK'
    BY <1>12 DEF TypeOK, SessionTypeOK, EndLock, EndUnchanged, userVars,
       flagVars, countVars, history
  <2> QED BY <2>1, <2>2, <2>3 DEF TypeOK
<1>13. CASE EndCheck
  <2>1. ThreadsTypeOK'
    BY <1>13, ThreadFacts DEF TypeOK, ThreadsTypeOK, EndCheck, Goto,
       EndUnchanged, PCs, UserPCs, UsbPCs, KickPCs, StartPCs, EndPCs,
       CompletionPCs, HandleErrorPCs, lockVars, threadVars
  <2>2. TransfersTypeOK'
    BY <1>13, ThreadFacts DEF TypeOK, TransfersTypeOK, EndCheck, EndUnchanged,
       usbVars
  <2>3. SessionTypeOK'
    BY <1>13 DEF TypeOK, SessionTypeOK, EndCheck, EndUnchanged, userVars,
       flagVars, countVars, history
  <2> QED BY <2>1, <2>2, <2>3 DEF TypeOK
<1>14. CASE EndBlock
  <2>1. ThreadsTypeOK'
    BY <1>14, ThreadFacts DEF TypeOK, ThreadsTypeOK, EndBlock, Goto,
       EndUnchanged, PCs, UserPCs, UsbPCs, KickPCs, StartPCs, EndPCs,
       CompletionPCs, HandleErrorPCs, lockVars, threadVars
  <2>2. TransfersTypeOK'
    BY <1>14, ThreadFacts DEF TypeOK, TransfersTypeOK, EndBlock, EndUnchanged,
       usbVars
  <2>3. SessionTypeOK'
    BY <1>14 DEF TypeOK, SessionTypeOK, EndBlock, EndUnchanged, userVars,
       flagVars, countVars, history
  <2> QED BY <2>1, <2>2, <2>3 DEF TypeOK
<1>15. CASE EndTimeout
  <2>1. ThreadsTypeOK'
    BY <1>15, ThreadFacts DEF TypeOK, ThreadsTypeOK, EndTimeout, Goto,
       EndUnchanged, PCs, UserPCs, UsbPCs, KickPCs, StartPCs, EndPCs,
       CompletionPCs, HandleErrorPCs, lockVars, threadVars
  <2>2. TransfersTypeOK'
    BY <1>15, ThreadFacts DEF TypeOK, TransfersTypeOK, EndTimeout,
       EndUnchanged, usbVars
  <2>3. SessionTypeOK'
    BY <1>15 DEF TypeOK, SessionTypeOK, EndTimeout, EndUnchanged, userVars,
       flagVars, countVars, history
  <2> QED BY <2>1, <2>2, <2>3 DEF TypeOK
<1>16. CASE EndWake
  <2>1. ThreadsTypeOK'
    BY <1>16, ThreadFacts DEF TypeOK, ThreadsTypeOK, EndWake, Goto,
       EndUnchanged, PCs, UserPCs, UsbPCs, KickPCs, StartPCs, EndPCs,
       CompletionPCs, HandleErrorPCs, lockVars, threadVars
  <2>2. TransfersTypeOK'
    BY <1>16, ThreadFacts DEF TypeOK, TransfersTypeOK, EndWake, EndUnchanged,
       usbVars
  <2>3. SessionTypeOK'
    BY <1>16 DEF TypeOK, SessionTypeOK, EndWake, EndUnchanged, userVars,
       flagVars, countVars, history
  <2> QED BY <2>1, <2>2, <2>3 DEF TypeOK
<1>17. ASSUME NEW d \in Devices, DeviceReset(d)
       PROVE  TypeOK'
  <2>1. ThreadsTypeOK'
    BY <1>17, ThreadFacts DEF TypeOK, ThreadsTypeOK, DeviceReset, PCs,
       UserPCs, UsbPCs, KickPCs, StartPCs, EndPCs, CompletionPCs,
       HandleErrorPCs, lockVars, threadVars
  <2>2. TransfersTypeOK'
    <3>1. [NoCapture EXCEPT !.count = want] \in CaptureType
      BY DEF TypeOK, SessionTypeOK, NoCapture, CaptureType
    <3>2. capture' \in [Devices -> CaptureType]
      BY <1>17, <3>1 DEF DeviceReset, TypeOK, TransfersTypeOK
    <3> QED BY <1>17, <3>2 DEF DeviceReset, usbVars, TypeOK, TransfersTypeOK
  <2>3. SessionTypeOK'
    BY <1>17 DEF TypeOK, SessionTypeOK, DeviceReset, userVars, flagVars,
       countVars, history
  <2> QED BY <2>1, <2>2, <2>3 DEF TypeOK
<1> QED
  BY <1>1, <1>2, <1>3, <1>4, <1>5, <1>6, <1>7, <1>8, <1>9, <1>10, <1>11,
     <1>12, <1>13, <1>14, <1>15, <1>16, <1>17 DEF Calls, UserStep

\* handle_error does, on whichever thread.
LEMMA HandleErrorTypes ==
  ASSUME TypeOK, NEW e \in Threads, HandleError(e)
  PROVE  TypeOK'
<1>1. ASSUME NEW th \in Threads, HandleErrorLock(th)
      PROVE  TypeOK'
  <2>1. ThreadsTypeOK'
    BY <1>1, ThreadFacts DEF TypeOK, ThreadsTypeOK, HandleErrorLock, Goto,
       PCs, UserPCs, UsbPCs, KickPCs, StartPCs, EndPCs, CompletionPCs,
       HandleErrorPCs, lockVars, threadVars
  <2>2. TransfersTypeOK'
    BY <1>1 DEF TypeOK, TransfersTypeOK, HandleErrorLock, usbVars
  <2>3. SessionTypeOK'
    BY <1>1 DEF TypeOK, SessionTypeOK, HandleErrorLock, userVars, flagVars,
       countVars, history
  <2> QED BY <2>1, <2>2, <2>3 DEF TypeOK
<1>2. ASSUME NEW th \in Threads, HandleErrorCancel(th)
      PROVE  TypeOK'
  <2>1. ThreadsTypeOK'
    BY <1>2, ThreadFacts DEF TypeOK, ThreadsTypeOK, HandleErrorCancel, Goto,
       CancelDevice, PCs, UserPCs, UsbPCs, KickPCs, StartPCs, EndPCs,
       CompletionPCs, HandleErrorPCs, lockVars, threadVars
  <2>2. TransfersTypeOK'
    <3>1. UNCHANGED <<flight, numActive, capture, sampling>>
      BY <1>2 DEF HandleErrorCancel
    <3> QED BY <1>2, <3>1, CancelTypes, ThreadFacts DEF TypeOK, ThreadsTypeOK, TransfersTypeOK, HandleErrorCancel
  <2>3. SessionTypeOK'
    BY <1>2 DEF TypeOK, SessionTypeOK, HandleErrorCancel, userVars, flagVars,
       countVars, history
  <2> QED BY <2>1, <2>2, <2>3 DEF TypeOK
<1>3. ASSUME NEW th \in Threads, HandleErrorUnlock(th)
      PROVE  TypeOK'
  <2>1. ThreadsTypeOK'
    BY <1>3, ThreadFacts DEF TypeOK, ThreadsTypeOK, HandleErrorUnlock, Goto,
       PCs, UserPCs, UsbPCs, KickPCs, StartPCs, EndPCs, CompletionPCs,
       HandleErrorPCs, lockVars, threadVars
  <2>2. TransfersTypeOK'
    BY <1>3 DEF TypeOK, TransfersTypeOK, HandleErrorUnlock, usbVars
  <2>3. SessionTypeOK'
    BY <1>3 DEF TypeOK, SessionTypeOK, HandleErrorUnlock, userVars, flagVars,
       countVars, history
  <2> QED BY <2>1, <2>2, <2>3 DEF TypeOK
<1> QED
  BY <1>1, <1>2, <1>3 DEF HandleError

\* So do the kickoff threads.
LEMMA KickTypes ==
  ASSUME TypeOK, NEW k \in Devices, KickStep(k)
  PROVE  TypeOK'
<1>1. ASSUME NEW d \in Devices, KickLock(d)
      PROVE  TypeOK'
  <2>1. ThreadsTypeOK'
    BY <1>1, ThreadFacts DEF TypeOK, ThreadsTypeOK, KickLock, Goto, PCs,
       UserPCs, UsbPCs, KickPCs, StartPCs, EndPCs, CompletionPCs,
       HandleErrorPCs, lockVars, threadVars
  <2>2. TransfersTypeOK'
    BY <1>1 DEF TypeOK, TransfersTypeOK, KickLock, usbVars
  <2>3. SessionTypeOK'
    BY <1>1 DEF TypeOK, SessionTypeOK, KickLock, userVars, flagVars,
       countVars, history
  <2> QED BY <2>1, <2>2, <2>3 DEF TypeOK
<1>2. ASSUME NEW d \in Devices, KickIn(d)
      PROVE  TypeOK'
  <2>1. ThreadsTypeOK'
    BY <1>2, ThreadFacts DEF TypeOK, ThreadsTypeOK, KickIn, KickTurn,
       CallHandleError, Goto, PCs, UserPCs, UsbPCs, KickPCs, StartPCs, EndPCs,
       CompletionPCs, HandleErrorPCs, lockVars, threadVars
  <2>2. TransfersTypeOK'
    <3>1. next[d] \in Slots /\ capture[d] \in CaptureType
      BY DEF TypeOK, ThreadsTypeOK, TransfersTypeOK
    <3>2. PICK r : SubmitIn(d, next[d], capture[d], r)
      BY <1>2 DEF KickIn
    <3> QED BY <1>2, <3>1, <3>2, SubmitInTypes DEF TypeOK, TransfersTypeOK, KickIn
  <2>3. SessionTypeOK'
    BY <1>2 DEF TypeOK, SessionTypeOK, KickIn, userVars, flagVars, countVars,
       history
  <2> QED BY <2>1, <2>2, <2>3 DEF TypeOK
<1>3. ASSUME NEW d \in Devices, KickOut(d)
      PROVE  TypeOK'
  <2>1. ThreadsTypeOK'
    BY <1>3, ThreadFacts DEF TypeOK, ThreadsTypeOK, KickOut, KickTurn,
       CallHandleError, Goto, PCs, UserPCs, UsbPCs, KickPCs, StartPCs, EndPCs,
       CompletionPCs, HandleErrorPCs, lockVars, threadVars
  <2>2. TransfersTypeOK'
    <3>1. next[d] \in Slots
      BY DEF TypeOK, ThreadsTypeOK
    <3>2. PICK r : SubmitOut(d, next[d], r)
      BY <1>3 DEF KickOut
    <3> QED BY <1>3, <3>1, <3>2, SubmitOutTypes DEF TypeOK, TransfersTypeOK, KickOut
  <2>3. SessionTypeOK'
    <3>1. ePtr' \in BOOLEAN
      BY <1>3 DEF TypeOK, SessionTypeOK, KickOut, SubmitOut
    <3> QED BY <1>3, <3>1 DEF TypeOK, SessionTypeOK, KickOut, userVars, countVars, history
  <2> QED BY <2>1, <2>2, <2>3 DEF TypeOK
<1>4. ASSUME NEW d \in Devices, KickEnd(d)
      PROVE  TypeOK'
  <2>1. ThreadsTypeOK'
    BY <1>4, ThreadFacts DEF TypeOK, ThreadsTypeOK, KickEnd, Goto, PCs,
       UserPCs, UsbPCs, KickPCs, StartPCs, EndPCs, CompletionPCs,
       HandleErrorPCs, lockVars, threadVars
  <2>2. TransfersTypeOK'
    BY <1>4 DEF TypeOK, TransfersTypeOK, KickEnd, usbVars
  <2>3. SessionTypeOK'
    BY <1>4 DEF TypeOK, SessionTypeOK, KickEnd, userVars, flagVars, countVars,
       history
  <2> QED BY <2>1, <2>2, <2>3 DEF TypeOK
<1> QED
  BY <1>1, <1>2, <1>3, <1>4, HandleErrorTypes, ThreadFacts DEF KickStep

\* And the USB thread.
LEMMA UsbTypes ==
  ASSUME TypeOK, UsbStep \/ LibusbStep
  PROVE  TypeOK'
<1>1. ASSUME NEW d \in Devices, NEW dir \in Dirs, NEW t \in Slots, NEW s \in Statuses, LibusbComplete(d, dir, t, s)
      PROVE  TypeOK'
  <2>1. ThreadsTypeOK'
    BY <1>1, ThreadFacts DEF TypeOK, ThreadsTypeOK, LibusbComplete, Goto, PCs,
       UserPCs, UsbPCs, KickPCs, StartPCs, EndPCs, CompletionPCs,
       HandleErrorPCs, lockVars, threadVars
  <2>2. TransfersTypeOK'
    BY <1>1 DEF TypeOK, TransfersTypeOK, LibusbComplete, usbVars
  <2>3. SessionTypeOK'
    BY <1>1 DEF TypeOK, SessionTypeOK, LibusbComplete, userVars, flagVars,
       countVars, history
  <2> QED BY <2>1, <2>2, <2>3 DEF TypeOK
<1>2. CASE CallbackLock
  <2>1. ThreadsTypeOK'
    <3>1. /\ stateOwner' = [stateOwner EXCEPT ![cb.dev] = Usb]
          /\ UNCHANGED <<cur, next, cb, lockOwner>>
      BY <1>2 DEF CallbackLock
    <3>2. cb.status \in Statuses
      BY DEF TypeOK, ThreadsTypeOK
    <3>3. {"cbBody", "cbEnd", "heLock"} \subseteq PCs
      BY DEF PCs, UsbPCs, HandleErrorPCs
    <3>4. CASE cb.status = "error"
      <4>1. /\ pc' = [pc EXCEPT ![Usb] = "heLock"]
            /\ ret' = [ret EXCEPT ![Usb] = "cbEnd"]
        BY <1>2, <3>4 DEF CallbackLock, CallHandleError
      <4> QED BY <3>1, <3>3, <4>1, ThreadFacts DEF TypeOK, ThreadsTypeOK
    <3>5. CASE cb.status \in {"completed", "cancelled"}
      <4>1. /\ \E l \in {"cbBody", "cbEnd"} : pc' = [pc EXCEPT ![Usb] = l]
            /\ ret' = ret
        BY <1>2, <3>5 DEF CallbackLock, Goto
      <4> QED BY <3>1, <3>3, <4>1, ThreadFacts DEF TypeOK, ThreadsTypeOK
    <3> QED BY <3>2, <3>4, <3>5 DEF Statuses
  <2>2. TransfersTypeOK'
    BY <1>2 DEF TypeOK, ThreadsTypeOK, TransfersTypeOK, CallbackLock
  <2>3. SessionTypeOK'
    BY <1>2 DEF TypeOK, SessionTypeOK, CallbackLock, userVars, flagVars,
       countVars, history
  <2> QED BY <2>1, <2>2, <2>3 DEF TypeOK
<1>3. CASE InBody
  <2>1. ThreadsTypeOK'
    BY <1>3, ThreadFacts DEF TypeOK, ThreadsTypeOK, InBody, CallbackTurn,
       CallHandleError, Goto, PCs, UserPCs, UsbPCs, KickPCs, StartPCs, EndPCs,
       CompletionPCs, HandleErrorPCs, lockVars, threadVars
  <2>2. TransfersTypeOK'
    <3>1. cb.dev \in Devices /\ cb.t \in Slots /\ capture[cb.dev] \in CaptureType
      BY DEF TypeOK, ThreadsTypeOK, TransfersTypeOK
    <3>2. PICK a \in Arrivals(capture[cb.dev]) :
            IF MayResubmit
            THEN \E r \in Results : SubmitIn(cb.dev, cb.t, a.cap, r)
            ELSE /\ capture' = [capture EXCEPT ![cb.dev] = a.cap]
                 /\ UNCHANGED <<flight, numActive>>
      BY <1>3 DEF InBody
    <3>3. a.cap \in CaptureType
      BY <3>1, CaptureTypes
    <3>4. UNCHANGED <<marked, sampling>>
      BY <1>3 DEF InBody
    <3>5. CASE MayResubmit
      <4>1. PICK r : SubmitIn(cb.dev, cb.t, a.cap, r)
        BY <3>2, <3>5
      <4> QED BY <3>1, <3>3, <3>4, <4>1, SubmitInTypes DEF TypeOK, TransfersTypeOK
    <3>6. CASE ~MayResubmit
      BY <3>1, <3>2, <3>3, <3>4, <3>6 DEF TypeOK, TransfersTypeOK
    <3> QED BY <3>5, <3>6
  <2>3. SessionTypeOK'
    BY <1>3 DEF TypeOK, SessionTypeOK, InBody, userVars, flagVars, countVars,
       history
  <2> QED BY <2>1, <2>2, <2>3 DEF TypeOK
<1>4. CASE OutBody
  <2>1. ThreadsTypeOK'
    BY <1>4, ThreadFacts DEF TypeOK, ThreadsTypeOK, OutBody, CallbackTurn,
       CallHandleError, Goto, PCs, UserPCs, UsbPCs, KickPCs, StartPCs, EndPCs,
       CompletionPCs, HandleErrorPCs, lockVars, threadVars
  <2>2. TransfersTypeOK'
    <3>1. cb.dev \in Devices /\ cb.t \in Slots
      BY DEF TypeOK, ThreadsTypeOK
    <3>2. \/ \E r \in Results : SubmitOut(cb.dev, cb.t, r)
          \/ UNCHANGED <<flight, numActive, capture>>
      BY <1>4 DEF OutBody
    <3>3. UNCHANGED <<marked, sampling>>
      BY <1>4 DEF OutBody
    <3> QED BY <3>1, <3>2, <3>3, SubmitOutTypes DEF TypeOK, TransfersTypeOK
  <2>3. SessionTypeOK'
    <3>1. ePtr' \in BOOLEAN
      BY <1>4 DEF TypeOK, SessionTypeOK, OutBody, SubmitOut
    <3> QED BY <1>4, <3>1 DEF TypeOK, SessionTypeOK, OutBody, userVars, countVars, history
  <2> QED BY <2>1, <2>2, <2>3 DEF TypeOK
<1>5. CASE CallbackEnd
  <2>1. ThreadsTypeOK'
    BY <1>5, ThreadFacts DEF TypeOK, ThreadsTypeOK, CallbackEnd,
       CallbackReturns, NoCallback, Goto, Dirs, Statuses, PCs, UserPCs,
       UsbPCs, KickPCs, StartPCs, EndPCs, CompletionPCs, HandleErrorPCs,
       lockVars, threadVars
  <2>2. TransfersTypeOK'
    BY <1>5 DEF TypeOK, TransfersTypeOK, CallbackEnd, usbVars
  <2>3. SessionTypeOK'
    BY <1>5 DEF TypeOK, SessionTypeOK, CallbackEnd, userVars, flagVars,
       countVars, history
  <2> QED BY <2>1, <2>2, <2>3 DEF TypeOK
<1>6. CASE CompletionDec
  <2>1. ThreadsTypeOK'
    BY <1>6, ThreadFacts DEF TypeOK, ThreadsTypeOK, CompletionDec, Goto, PCs,
       UserPCs, UsbPCs, KickPCs, StartPCs, EndPCs, CompletionPCs,
       HandleErrorPCs, lockVars, threadVars
  <2>2. TransfersTypeOK'
    BY <1>6 DEF TypeOK, TransfersTypeOK, CompletionDec, usbVars
  <2>3. SessionTypeOK'
    <3>1. Dec(activeDevices) \in 0 .. CounterMod - 1
      BY CounterType DEF TypeOK, SessionTypeOK
    <3>2. Lesser(calls[cb.dev] + 1, 2) \in 0 .. 2
      BY DEF TypeOK, ThreadsTypeOK, SessionTypeOK, Lesser
    <3>3. calls' \in [Devices -> 0 .. 2]
      BY <1>6, <3>2 DEF TypeOK, SessionTypeOK, CompletionDec
    <3> QED BY <1>6, <3>1, <3>3 DEF TypeOK, SessionTypeOK, CompletionDec, userVars, flagVars
  <2> QED BY <2>1, <2>2, <2>3 DEF TypeOK
<1>7. CASE CompletionStore
  <2>1. ThreadsTypeOK'
    BY <1>7, ThreadFacts DEF TypeOK, ThreadsTypeOK, CompletionStore, Goto,
       PCs, UserPCs, UsbPCs, KickPCs, StartPCs, EndPCs, CompletionPCs,
       HandleErrorPCs, lockVars, threadVars
  <2>2. TransfersTypeOK'
    BY <1>7 DEF TypeOK, TransfersTypeOK, CompletionStore, usbVars
  <2>3. SessionTypeOK'
    <3>1. Dec(loaded[Usb]) \in 0 .. CounterMod - 1 /\ 0 \in 0 .. CounterMod - 1
      BY CounterType, StreamingAssumption DEF TypeOK, SessionTypeOK
    <3> QED BY <1>7, <3>1 DEF TypeOK, SessionTypeOK, CompletionStore, userVars, flagVars,
               countVars, history
  <2> QED BY <2>1, <2>2, <2>3 DEF TypeOK
<1>8. CASE CompletionRead
  <2>1. ThreadsTypeOK'
    BY <1>8, ThreadFacts DEF TypeOK, ThreadsTypeOK, CompletionRead, Goto, PCs,
       UserPCs, UsbPCs, KickPCs, StartPCs, EndPCs, CompletionPCs,
       HandleErrorPCs, lockVars, threadVars
  <2>2. TransfersTypeOK'
    BY <1>8 DEF TypeOK, TransfersTypeOK, CompletionRead, usbVars
  <2>3. SessionTypeOK'
    BY <1>8 DEF TypeOK, SessionTypeOK, CompletionRead, userVars, flagVars,
       countVars, history
  <2> QED BY <2>1, <2>2, <2>3 DEF TypeOK
<1>9. CASE CompletionLock
  <2>1. ThreadsTypeOK'
    BY <1>9, ThreadFacts DEF TypeOK, ThreadsTypeOK, CompletionLock, Goto, PCs,
       UserPCs, UsbPCs, KickPCs, StartPCs, EndPCs, CompletionPCs,
       HandleErrorPCs, lockVars, threadVars
  <2>2. TransfersTypeOK'
    BY <1>9 DEF TypeOK, TransfersTypeOK, CompletionLock, usbVars
  <2>3. SessionTypeOK'
    BY <1>9 DEF TypeOK, SessionTypeOK, CompletionLock, userVars, flagVars,
       countVars, history
  <2> QED BY <2>1, <2>2, <2>3 DEF TypeOK
<1>10. CASE CompletionNotify
  <2>1. ThreadsTypeOK'
    BY <1>10, ThreadFacts DEF TypeOK, ThreadsTypeOK, CompletionNotify,
       CallbackReturns, NoCallback, Dirs, Statuses, PCs, UserPCs, UsbPCs,
       KickPCs, StartPCs, EndPCs, CompletionPCs, HandleErrorPCs, lockVars,
       threadVars
  <2>2. TransfersTypeOK'
    BY <1>10 DEF TypeOK, TransfersTypeOK, CompletionNotify, usbVars
  <2>3. SessionTypeOK'
    BY <1>10 DEF TypeOK, SessionTypeOK, CompletionNotify, userVars, flagVars,
       countVars, history
  <2> QED BY <2>1, <2>2, <2>3 DEF TypeOK
<1> QED
  BY <1>1, <1>2, <1>3, <1>4, <1>5, <1>6, <1>7, <1>8, <1>9, <1>10,
     HandleErrorTypes, ThreadFacts DEF UsbStep, LibusbStep

\* A new session has every variable in its type.
LEMMA InitTypes == Init => TypeOK
<1> SUFFICES ASSUME Init PROVE TypeOK
  OBVIOUS
<1>1. ThreadsTypeOK
  BY ThreadFacts DEF Init, ThreadsTypeOK, NoCallback, PCs, UserPCs, KickPCs, Dirs, Statuses
<1>2. TransfersTypeOK
  BY DEF Init, TransfersTypeOK, NoCapture, CaptureType
<1>3. SessionTypeOK
  <2>1. 0 \in 0 .. CounterMod - 1 /\ 0 \in 0 .. MaxStarts
    BY StreamingAssumption
  <2>2. activeDevices \in 0 .. CounterMod - 1 /\ starts \in 0 .. MaxStarts
    BY <2>1 DEF Init
  <2>3. loaded \in [{User, Usb} -> 0 .. CounterMod - 1]
    BY <2>1 DEF Init
  <2>4. calls \in [Devices -> 0 .. 2]
    BY DEF Init
  <2>5. samples \in Nat
    BY StreamingAssumption DEF Init
  <2> QED BY <2>2, <2>3, <2>4, <2>5 DEF Init, SessionTypeOK
<1> QED BY <1>1, <1>2, <1>3 DEF TypeOK

\* Every step of every thread keeps every variable in its type.
LEMMA NextTypes == TypeOK /\ [Next]_vars => TypeOK'
<1> SUFFICES ASSUME TypeOK, [Next]_vars PROVE TypeOK'
  OBVIOUS
<1>1. CASE Next
  BY <1>1, UserTypes, KickTypes, UsbTypes DEF Next
<1>2. CASE UNCHANGED vars
  BY <1>2 DEF TypeOK, ThreadsTypeOK, TransfersTypeOK, SessionTypeOK, vars, threadVars,
              lockVars, usbVars, userVars, flagVars, countVars, history
<1> QED BY <1>1, <1>2

\* Whatever fails and however the threads interleave, every variable stays in
\* its type; m_active_devices wraps but never leaves its width.
THEOREM TypeCorrect == Spec => []TypeOK
BY InitTypes, NextTypes, PTL DEF Spec

-----------------------------------------------------------------------------
(* The locks of streaming are held where the code's scopes say.  LockInv   *)
(* adds to the two checked invariants only where each thread's control     *)
(* can be: handle_error and cancel() come back to their callers.           *)

\* Each kind of thread stays in its own code and comes back from
\* handle_error and cancel() to where it was called.
ControlOK ==
  /\ pc[User] \in UserPCs
  /\ pc[Usb] \in UsbPCs
  /\ pc[Usb] \in HandleErrorPCs => ret[Usb] = "cbEnd"
  /\ pc[User] = "cancel" => ret[User] \in {"idle", "endLock"}
  /\ \A d \in Devices :
       /\ pc[d] \in KickPCs
       /\ pc[d] \in HandleErrorPCs => ret[d] \in {"kOut", "kEnd"}

\* The inductive invariant.
LockInv == ControlOK /\ LockDiscipline /\ CompletionQuiet

\* What TypeOK says of the thread state, without the details.
ThreadShape ==
  /\ pc \in [Threads -> PCs]
  /\ ret \in [Threads -> {"idle", "endLock", "cbEnd", "kOut", "kEnd"}]
  /\ stateOwner \in [Devices -> Threads \cup {Nobody}]
  /\ cb.dev \in Devices /\ cb.dir \in Dirs /\ cb.status \in Statuses

\* The part of the type invariant these proofs need.
LEMMA ThreadShapes == TypeOK => ThreadShape
BY DEF TypeOK, ThreadsTypeOK, ThreadShape

-----------------------------------------------------------------------------
(* The user's thread *)

\* Where end() holds m_lock.
EndHolds(l) == l \in {"endCheck", "endBlock", "off"}

\* What a step of the user's thread does to the other threads' control:
\* nothing, except that run() spawns a kickoff thread.
OthersStay ==
  /\ pc'[Usb] = pc[Usb]
  /\ ret' = [ret EXCEPT ![User] = ret'[User]]
  /\ \A d \in Devices : pc'[d] = pc[d] \/ (pc[d] = "none" /\ pc'[d] = "kLock")
  /\ UNCHANGED <<cb, stateOwner>>

\* Where the user's thread goes, and what that does to m_lock.
UserMoves ==
  /\ pc'[User] \in UserPCs
  /\ pc'[User] = "cancel" => ret'[User] \in {"idle", "endLock"}
  /\ \/ UNCHANGED lockOwner /\ (EndHolds(pc'[User]) <=> EndHolds(pc[User]))
     \/ lockOwner = Nobody /\ lockOwner' = User /\ EndHolds(pc'[User])
     \/ lockOwner' = Nobody /\ EndHolds(pc[User]) /\ ~EndHolds(pc'[User])

\* configure() replaces the transfers; nothing else touches num_active here.
NumActiveKept ==
  \/ UNCHANGED numActive
  \/ numActive' = [x \in Devices \X Dirs |-> 0]

\* A step with such a frame disturbs neither lock.
LEMMA UserFrame ==
  ASSUME ThreadShape, ThreadShape', LockInv, OthersStay, UserMoves, NumActiveKept
  PROVE  LockInv'
<1>1. ControlOK'
  <2>1. ret'[Usb] = ret[Usb] /\ \A d \in Devices : ret'[d] = ret[d]
    BY ThreadFacts DEF OthersStay, ThreadShape
  <2> QED BY <2>1 DEF LockInv, ControlOK, OthersStay, UserMoves, KickPCs, HandleErrorPCs
<1>2. LockDiscipline'
  <2>1. \A d \in Devices : KickHolds(d)' <=> KickHolds(d)
    BY DEF OthersStay, KickHolds, HandleErrorPCs
  <2>2. ASSUME NEW th \in Threads, th # User
        PROVE  LET holds(l) == l \in {"heCancel", "heUnlock", "endCheck", "endBlock", "off"}
               IN  holds(pc'[th]) <=> holds(pc[th])
    BY <2>2 DEF OthersStay, Threads
  <2>3. ASSUME NEW th \in Threads
        PROVE  lockOwner' = th <=> pc'[th] \in {"heCancel", "heUnlock", "endCheck",
                                                 "endBlock", "off"}
    <3>1. \A l \in UserPCs : l \in {"heCancel", "heUnlock", "endCheck", "endBlock", "off"}
                               <=> EndHolds(l)
      BY DEF UserPCs, StartPCs, EndPCs, EndHolds
    <3>2. pc[User] \in UserPCs /\ pc'[User] \in UserPCs
      BY DEF LockInv, ControlOK, UserMoves
    <3>3. CASE th = User
      BY <3>1, <3>2, <3>3, ThreadFacts DEF LockInv, LockDiscipline, UserMoves
    <3>4. CASE th # User
      BY <2>2, <3>1, <3>2, <3>4, ThreadFacts DEF LockInv, LockDiscipline, UserMoves
    <3> QED BY <3>3, <3>4
  <2> QED BY <2>1, <2>3 DEF LockInv, LockDiscipline, OthersStay, UsbHolds
<1>3. CompletionQuiet'
  <2>1. pc'[Usb] = pc[Usb] /\ cb' = cb /\ CompletionQuiet
    BY DEF LockInv, OthersStay
  <2>2. CASE UNCHANGED numActive
    BY <2>1, <2>2 DEF CompletionQuiet
  <2>3. CASE numActive' = [x \in Devices \X Dirs |-> 0]
    <3>1. \A dir \in Dirs : numActive'[<<cb.dev, dir>>] = 0
      BY <2>3 DEF ThreadShape
    <3> QED BY <2>1, <3>1 DEF CompletionQuiet
  <2> QED BY <2>2, <2>3 DEF NumActiveKept
<1> QED BY <1>1, <1>2, <1>3 DEF LockInv

\* The user's thread takes no m_state for longer than one step, and m_lock
\* only in end().
LEMMA UserLock ==
  ASSUME TypeOK, TypeOK', LockInv, Calls \/ UserStep
  PROVE  LockInv'
<1>a. ThreadShape /\ ThreadShape'
  BY DEF TypeOK, ThreadsTypeOK, ThreadShape
<1>b. pc[User] \in UserPCs
  BY DEF LockInv, ControlOK
<1>1. CASE Configure
  <2>1. OthersStay
    BY <1>1, <1>a, ThreadFacts DEF OthersStay, ThreadShape, Configure,
       threadVars, lockVars
  <2>2. UserMoves
    BY <1>1, <1>a, <1>b, ThreadFacts DEF UserMoves, EndHolds, ThreadShape,
       Configure, UserPCs, StartPCs, EndPCs, lockVars, threadVars, UserIdle
  <2>3. NumActiveKept
    BY <1>1 DEF NumActiveKept, Configure, NewTransfers, usbVars
  <2> QED BY <2>1, <2>2, <2>3, <1>a, UserFrame
<1>2. CASE CallCancel
  <2>1. OthersStay
    BY <1>2, <1>a, ThreadFacts DEF OthersStay, ThreadShape, CallCancel, Goto,
       threadVars, lockVars
  <2>2. UserMoves
    BY <1>2, <1>a, <1>b, ThreadFacts DEF UserMoves, EndHolds, ThreadShape,
       CallCancel, Goto, UserPCs, StartPCs, EndPCs, lockVars, threadVars,
       UserIdle
  <2>3. NumActiveKept
    BY <1>2 DEF NumActiveKept, CallCancel, usbVars
  <2> QED BY <2>1, <2>2, <2>3, <1>a, UserFrame
<1>3. CASE CallEnd
  <2>1. OthersStay
    BY <1>3, <1>a, ThreadFacts DEF OthersStay, ThreadShape, CallEnd, Goto,
       threadVars, lockVars
  <2>2. UserMoves
    BY <1>3, <1>a, <1>b, ThreadFacts DEF UserMoves, EndHolds, ThreadShape,
       CallEnd, Goto, UserPCs, StartPCs, EndPCs, lockVars, threadVars,
       UserIdle
  <2>3. NumActiveKept
    BY <1>3 DEF NumActiveKept, CallEnd, usbVars
  <2> QED BY <2>1, <2>2, <2>3, <1>a, UserFrame
<1>4. ASSUME NEW n \in Counts, NEW isRun \in BOOLEAN, CallStart(n, isRun)
      PROVE  LockInv'
  <2>1. OthersStay
    BY <1>4, <1>a, ThreadFacts DEF OthersStay, ThreadShape, CallStart, Goto,
       threadVars, lockVars
  <2>2. UserMoves
    BY <1>4, <1>a, <1>b, ThreadFacts DEF UserMoves, EndHolds, ThreadShape,
       CallStart, Goto, UserPCs, StartPCs, EndPCs, lockVars, threadVars,
       UserIdle
  <2>3. NumActiveKept
    BY <1>4 DEF NumActiveKept, CallStart, usbVars
  <2> QED BY <2>1, <2>2, <2>3, <1>a, UserFrame
<1>5. ASSUME NEW d \in Devices, DeviceOn(d)
      PROVE  LockInv'
  <2>1. OthersStay
    BY <1>5, <1>a, ThreadFacts DEF OthersStay, ThreadShape, DeviceOn, Goto,
       StartReturns, threadVars, lockVars
  <2>2. UserMoves
    BY <1>5, <1>a, <1>b, ThreadFacts DEF UserMoves, EndHolds, ThreadShape,
       DeviceOn, Goto, StartReturns, UserPCs, StartPCs, EndPCs, lockVars,
       threadVars
  <2>3. NumActiveKept
    BY <1>5 DEF NumActiveKept, DeviceOn, usbVars
  <2> QED BY <2>1, <2>2, <2>3, <1>a, UserFrame
<1>6. ASSUME NEW d \in Devices, DeviceRun(d)
      PROVE  LockInv'
  <2>1. OthersStay
    BY <1>6, <1>a, ThreadFacts DEF OthersStay, ThreadShape, DeviceRun, Goto,
       StartReturns, threadVars, lockVars
  <2>2. UserMoves
    BY <1>6, <1>a, <1>b, ThreadFacts DEF UserMoves, EndHolds, ThreadShape,
       DeviceRun, Goto, StartReturns, UserPCs, StartPCs, EndPCs, lockVars,
       threadVars
  <2>3. NumActiveKept
    BY <1>6 DEF NumActiveKept, DeviceRun, usbVars
  <2> QED BY <2>1, <2>2, <2>3, <1>a, UserFrame
<1>7. ASSUME NEW d \in Devices, CancelStep(d)
      PROVE  LockInv'
  <2>1. OthersStay
    BY <1>7, <1>a, ThreadFacts DEF OthersStay, ThreadShape, CancelStep, Goto,
       CancelDevice, threadVars, lockVars
  <2>2. UserMoves
    BY <1>7, <1>a, <1>b, ThreadFacts DEF UserMoves, EndHolds, ThreadShape,
       CancelStep, Goto, CancelDevice, UserPCs, StartPCs, EndPCs, lockVars,
       threadVars, LockInv, ControlOK, LockDiscipline
  <2>3. NumActiveKept
    BY <1>7 DEF NumActiveKept, CancelStep, usbVars
  <2> QED BY <2>1, <2>2, <2>3, <1>a, UserFrame
<1>8. ASSUME NEW d \in Devices, DeviceOff(d)
      PROVE  LockInv'
  <2>1. OthersStay
    BY <1>8, <1>a, ThreadFacts DEF OthersStay, ThreadShape, DeviceOff,
       OffNext, EndReturns, threadVars, lockVars
  <2>2. UserMoves
    BY <1>8, <1>a, <1>b, ThreadFacts DEF UserMoves, EndHolds, ThreadShape,
       DeviceOff, OffNext, EndReturns, UserPCs, StartPCs, EndPCs, lockVars,
       threadVars, LockInv, ControlOK, LockDiscipline
  <2>3. NumActiveKept
    BY <1>8 DEF NumActiveKept, DeviceOff, usbVars
  <2> QED BY <2>1, <2>2, <2>3, <1>a, UserFrame
<1>9. CASE Activate
  <2>1. OthersStay
    BY <1>9, <1>a, ThreadFacts DEF OthersStay, ThreadShape, Activate, Goto,
       NextDevice, StartReturns, threadVars, lockVars
  <2>2. UserMoves
    BY <1>9, <1>a, <1>b, ThreadFacts DEF UserMoves, EndHolds, ThreadShape,
       Activate, Goto, NextDevice, StartReturns, UserPCs, StartPCs, EndPCs,
       lockVars, threadVars
  <2>3. NumActiveKept
    BY <1>9 DEF NumActiveKept, Activate, usbVars
  <2> QED BY <2>1, <2>2, <2>3, <1>a, UserFrame
<1>10. CASE ActivateStore
  <2>1. OthersStay
    BY <1>10, <1>a, ThreadFacts DEF OthersStay, ThreadShape, ActivateStore,
       Goto, NextDevice, StartReturns, threadVars, lockVars
  <2>2. UserMoves
    BY <1>10, <1>a, <1>b, ThreadFacts DEF UserMoves, EndHolds, ThreadShape,
       ActivateStore, Goto, NextDevice, StartReturns, UserPCs, StartPCs,
       EndPCs, lockVars, threadVars
  <2>3. NumActiveKept
    BY <1>10 DEF NumActiveKept, ActivateStore, usbVars
  <2> QED BY <2>1, <2>2, <2>3, <1>a, UserFrame
<1>11. CASE EndBegins
  <2>1. OthersStay
    BY <1>11, <1>a, ThreadFacts DEF OthersStay, ThreadShape, EndBegins, Goto,
       threadVars, lockVars
  <2>2. UserMoves
    BY <1>11, <1>a, <1>b, ThreadFacts DEF UserMoves, EndHolds, ThreadShape,
       EndBegins, Goto, UserPCs, StartPCs, EndPCs, lockVars, threadVars
  <2>3. NumActiveKept
    BY <1>11 DEF NumActiveKept, EndBegins, usbVars
  <2> QED BY <2>1, <2>2, <2>3, <1>a, UserFrame
<1>12. CASE EndLock
  <2>1. OthersStay
    BY <1>12, <1>a, ThreadFacts DEF OthersStay, ThreadShape, EndLock, Goto,
       EndUnchanged, threadVars, lockVars
  <2>2. UserMoves
    BY <1>12, <1>a, <1>b, ThreadFacts DEF UserMoves, EndHolds, ThreadShape,
       EndLock, Goto, EndUnchanged, UserPCs, StartPCs, EndPCs, lockVars,
       threadVars
  <2>3. NumActiveKept
    BY <1>12 DEF NumActiveKept, EndLock, Goto, EndUnchanged, usbVars
  <2> QED BY <2>1, <2>2, <2>3, <1>a, UserFrame
<1>13. CASE EndCheck
  <2>1. OthersStay
    BY <1>13, <1>a, ThreadFacts DEF OthersStay, ThreadShape, EndCheck, Goto,
       EndUnchanged, threadVars, lockVars
  <2>2. UserMoves
    BY <1>13, <1>a, <1>b, ThreadFacts DEF UserMoves, EndHolds, ThreadShape,
       EndCheck, Goto, EndUnchanged, UserPCs, StartPCs, EndPCs, lockVars,
       threadVars
  <2>3. NumActiveKept
    BY <1>13 DEF NumActiveKept, EndCheck, Goto, EndUnchanged, usbVars
  <2> QED BY <2>1, <2>2, <2>3, <1>a, UserFrame
<1>14. CASE EndBlock
  <2>1. OthersStay
    BY <1>14, <1>a, ThreadFacts DEF OthersStay, ThreadShape, EndBlock, Goto,
       EndUnchanged, threadVars, lockVars
  <2>2. UserMoves
    BY <1>14, <1>a, <1>b, ThreadFacts DEF UserMoves, EndHolds, ThreadShape,
       EndBlock, Goto, EndUnchanged, UserPCs, StartPCs, EndPCs, lockVars,
       threadVars, LockInv, ControlOK, LockDiscipline
  <2>3. NumActiveKept
    BY <1>14 DEF NumActiveKept, EndBlock, Goto, EndUnchanged, usbVars
  <2> QED BY <2>1, <2>2, <2>3, <1>a, UserFrame
<1>15. CASE EndTimeout
  <2>1. OthersStay
    BY <1>15, <1>a, ThreadFacts DEF OthersStay, ThreadShape, EndTimeout, Goto,
       EndUnchanged, threadVars, lockVars
  <2>2. UserMoves
    BY <1>15, <1>a, <1>b, ThreadFacts DEF UserMoves, EndHolds, ThreadShape,
       EndTimeout, Goto, EndUnchanged, UserPCs, StartPCs, EndPCs, lockVars,
       threadVars
  <2>3. NumActiveKept
    BY <1>15 DEF NumActiveKept, EndTimeout, Goto, EndUnchanged, usbVars
  <2> QED BY <2>1, <2>2, <2>3, <1>a, UserFrame
<1>16. CASE EndWake
  <2>1. OthersStay
    BY <1>16, <1>a, ThreadFacts DEF OthersStay, ThreadShape, EndWake, Goto,
       EndUnchanged, threadVars, lockVars
  <2>2. UserMoves
    BY <1>16, <1>a, <1>b, ThreadFacts DEF UserMoves, EndHolds, ThreadShape,
       EndWake, Goto, EndUnchanged, UserPCs, StartPCs, EndPCs, lockVars,
       threadVars
  <2>3. NumActiveKept
    BY <1>16 DEF NumActiveKept, EndWake, Goto, EndUnchanged, usbVars
  <2> QED BY <2>1, <2>2, <2>3, <1>a, UserFrame
<1>17. ASSUME NEW d \in Devices, DeviceReset(d)
       PROVE  LockInv'
  <2>1. OthersStay
    BY <1>17, <1>a, ThreadFacts DEF OthersStay, ThreadShape, DeviceReset,
       threadVars, lockVars
  <2>2. UserMoves
    BY <1>17, <1>a, <1>b, ThreadFacts DEF UserMoves, EndHolds, ThreadShape,
       DeviceReset, UserPCs, StartPCs, EndPCs, lockVars, threadVars
  <2>3. NumActiveKept
    BY <1>17 DEF NumActiveKept, DeviceReset, usbVars
  <2> QED BY <2>1, <2>2, <2>3, <1>a, UserFrame
<1> QED
  BY <1>1, <1>2, <1>3, <1>4, <1>5, <1>6, <1>7, <1>8, <1>9, <1>10, <1>11,
     <1>12, <1>13, <1>14, <1>15, <1>16, <1>17 DEF Calls, UserStep

-----------------------------------------------------------------------------
(* The kickoff threads and the USB thread *)

\* handle_error holds m_lock from its lock_guard to its return.
LEMMA HandleErrorLocks ==
  ASSUME TypeOK, LockInv, NEW e \in Devices \cup {Usb}, HandleError(e)
  PROVE  LockInv'
<1> USE DEF LockInv
<1>a. ThreadShape
  BY ThreadShapes
<1>1. ASSUME NEW th \in Devices \cup {Usb}, HandleErrorLock(th)
      PROVE  LockInv'
  <2>1. ControlOK'
    BY <1>1, <1>a, ThreadFacts DEF ControlOK, ThreadShape, HandleErrorLock,
       Goto, UsbPCs, KickPCs, HandleErrorPCs, lockVars, threadVars
  <2>2. LockDiscipline'
    BY <1>1, <1>a, ThreadFacts DEF ControlOK, LockDiscipline, ThreadShape,
       UsbHolds, KickHolds, HandleErrorLock, Goto, HandleErrorPCs,
       CompletionPCs, lockVars, threadVars
  <2>3. CompletionQuiet'
    BY <1>1, <1>a, ThreadFacts DEF CompletionQuiet, ThreadShape,
       HandleErrorLock, Goto, CompletionPCs, lockVars, threadVars, usbVars
  <2> QED BY <2>1, <2>2, <2>3 DEF LockInv
<1>2. ASSUME NEW th \in Devices \cup {Usb}, HandleErrorCancel(th)
      PROVE  LockInv'
  <2>1. ControlOK'
    BY <1>2, <1>a, ThreadFacts DEF ControlOK, ThreadShape, HandleErrorCancel,
       Goto, CancelDevice, UsbPCs, KickPCs, HandleErrorPCs, lockVars,
       threadVars
  <2>2. LockDiscipline'
    BY <1>2, <1>a, ThreadFacts DEF ControlOK, LockDiscipline, ThreadShape,
       UsbHolds, KickHolds, HandleErrorCancel, Goto, CancelDevice,
       HandleErrorPCs, CompletionPCs, lockVars, threadVars
  <2>3. CompletionQuiet'
    BY <1>2, <1>a, ThreadFacts DEF CompletionQuiet, ThreadShape,
       HandleErrorCancel, Goto, CancelDevice, CompletionPCs, lockVars,
       threadVars, usbVars
  <2> QED BY <2>1, <2>2, <2>3 DEF LockInv
<1>3. ASSUME NEW th \in Devices \cup {Usb}, HandleErrorUnlock(th)
      PROVE  LockInv'
  <2>1. ControlOK'
    BY <1>3, <1>a, ThreadFacts DEF ControlOK, ThreadShape, HandleErrorUnlock,
       Goto, UsbPCs, KickPCs, HandleErrorPCs, lockVars, threadVars
  <2>2. LockDiscipline'
    BY <1>3, <1>a, ThreadFacts DEF ControlOK, LockDiscipline, ThreadShape,
       UsbHolds, KickHolds, HandleErrorUnlock, Goto, HandleErrorPCs,
       CompletionPCs, lockVars, threadVars
  <2>3. CompletionQuiet'
    BY <1>3, <1>a, ThreadFacts DEF CompletionQuiet, ThreadShape,
       HandleErrorUnlock, Goto, CompletionPCs, lockVars, threadVars, usbVars
  <2> QED BY <2>1, <2>2, <2>3 DEF LockInv
<1> QED
  BY <1>1, <1>2, <1>3 DEF HandleError

\* A kickoff thread holds its device's m_state throughout.
LEMMA KickLocks ==
  ASSUME TypeOK, LockInv, NEW k \in Devices, KickStep(k)
  PROVE  LockInv'
<1> USE DEF LockInv
<1>a. ThreadShape
  BY ThreadShapes
<1>1. ASSUME NEW d \in Devices, KickLock(d)
      PROVE  LockInv'
  <2>1. ControlOK'
    BY <1>1, <1>a, ThreadFacts DEF ControlOK, ThreadShape, KickLock, Goto,
       KickPCs, HandleErrorPCs, lockVars, threadVars
  <2>2. LockDiscipline'
    BY <1>1, <1>a, ThreadFacts DEF ControlOK, LockDiscipline, ThreadShape,
       UsbHolds, KickHolds, KickLock, Goto, HandleErrorPCs, lockVars,
       threadVars
  <2>3. CompletionQuiet'
    BY <1>1, <1>a, ThreadFacts DEF CompletionQuiet, ThreadShape, KickLock,
       Goto, CompletionPCs, lockVars, threadVars, usbVars
  <2> QED BY <2>1, <2>2, <2>3 DEF LockInv
<1>2. ASSUME NEW d \in Devices, KickIn(d)
      PROVE  LockInv'
  <2>1. ControlOK'
    BY <1>2, <1>a, ThreadFacts DEF ControlOK, ThreadShape, KickIn, KickTurn,
       CallHandleError, Goto, KickPCs, HandleErrorPCs, lockVars, threadVars
  <2>2. LockDiscipline'
    BY <1>2, <1>a, ThreadFacts DEF ControlOK, LockDiscipline, ThreadShape,
       UsbHolds, KickHolds, KickIn, KickTurn, CallHandleError, Goto,
       HandleErrorPCs, lockVars, threadVars
  <2>3. CompletionQuiet'
    <3>1. \/ UNCHANGED numActive
          \/ numActive' = [numActive EXCEPT ![<<d, "in">>] = @ + 1]
      BY <1>2 DEF KickIn, SubmitIn, Submitted
    <3>2. pc'[Usb] = pc[Usb] /\ cb' = cb /\ pc[d] = "kIn"
      BY <1>2, <1>a, ThreadFacts DEF ThreadShape, KickIn, KickTurn, CallHandleError, Goto
    <3>3. pc[Usb] \in CompletionPCs => cb.dev # d
      BY <3>2, <1>a, ThreadFacts DEF LockDiscipline, UsbHolds, KickHolds, ThreadShape
    <3>4. numActive \in [Devices \X Dirs -> Int]
      BY DEF TypeOK, TransfersTypeOK
    <3>5. cb.dev # d => \A x \in Dirs : numActive'[<<cb.dev, x>>] = numActive[<<cb.dev, x>>]
      <4> SUFFICES ASSUME cb.dev # d, NEW x \in Dirs
                   PROVE  numActive'[<<cb.dev, x>>] = numActive[<<cb.dev, x>>]
        OBVIOUS
      <4>1. <<cb.dev, x>> \in Devices \X Dirs /\ <<cb.dev, x>> # <<d, "in">>
        BY <1>a DEF ThreadShape
      <4> QED BY <3>1, <3>4, <4>1
    <3> QED BY <3>2, <3>3, <3>5 DEF CompletionQuiet
  <2> QED BY <2>1, <2>2, <2>3 DEF LockInv
<1>3. ASSUME NEW d \in Devices, KickOut(d)
      PROVE  LockInv'
  <2>1. ControlOK'
    BY <1>3, <1>a, ThreadFacts DEF ControlOK, ThreadShape, KickOut, KickTurn,
       CallHandleError, Goto, KickPCs, HandleErrorPCs, lockVars, threadVars
  <2>2. LockDiscipline'
    BY <1>3, <1>a, ThreadFacts DEF ControlOK, LockDiscipline, ThreadShape,
       UsbHolds, KickHolds, KickOut, KickTurn, CallHandleError, Goto,
       HandleErrorPCs, lockVars, threadVars
  <2>3. CompletionQuiet'
    <3>1. \/ UNCHANGED numActive
          \/ numActive' = [numActive EXCEPT ![<<d, "out">>] = @ + 1]
      BY <1>3 DEF KickOut, SubmitOut, Submitted
    <3>2. pc'[Usb] = pc[Usb] /\ cb' = cb /\ pc[d] = "kOut"
      BY <1>3, <1>a, ThreadFacts DEF ThreadShape, KickOut, KickTurn, CallHandleError, Goto
    <3>3. pc[Usb] \in CompletionPCs => cb.dev # d
      BY <3>2, <1>a, ThreadFacts DEF LockDiscipline, UsbHolds, KickHolds, ThreadShape
    <3>4. numActive \in [Devices \X Dirs -> Int]
      BY DEF TypeOK, TransfersTypeOK
    <3>5. cb.dev # d => \A x \in Dirs : numActive'[<<cb.dev, x>>] = numActive[<<cb.dev, x>>]
      <4> SUFFICES ASSUME cb.dev # d, NEW x \in Dirs
                   PROVE  numActive'[<<cb.dev, x>>] = numActive[<<cb.dev, x>>]
        OBVIOUS
      <4>1. <<cb.dev, x>> \in Devices \X Dirs /\ <<cb.dev, x>> # <<d, "out">>
        BY <1>a DEF ThreadShape
      <4> QED BY <3>1, <3>4, <4>1
    <3> QED BY <3>2, <3>3, <3>5 DEF CompletionQuiet
  <2> QED BY <2>1, <2>2, <2>3 DEF LockInv
<1>4. ASSUME NEW d \in Devices, KickEnd(d)
      PROVE  LockInv'
  <2>1. ControlOK'
    BY <1>4, <1>a, ThreadFacts DEF ControlOK, ThreadShape, KickEnd, Goto,
       KickPCs, HandleErrorPCs, lockVars, threadVars
  <2>2. LockDiscipline'
    BY <1>4, <1>a, ThreadFacts DEF ControlOK, LockDiscipline, ThreadShape,
       UsbHolds, KickHolds, KickEnd, Goto, HandleErrorPCs, lockVars,
       threadVars
  <2>3. CompletionQuiet'
    BY <1>4, <1>a, ThreadFacts DEF CompletionQuiet, ThreadShape, KickEnd,
       Goto, CompletionPCs, lockVars, threadVars, usbVars
  <2> QED BY <2>1, <2>2, <2>3 DEF LockInv
<1> QED
  BY <1>1, <1>2, <1>3, <1>4, HandleErrorLocks, ThreadFacts DEF KickStep

\* The USB thread holds m_state throughout a callback.
LEMMA UsbLock ==
  ASSUME TypeOK, LockInv, UsbStep \/ LibusbStep
  PROVE  LockInv'
<1> USE DEF LockInv
<1>a. ThreadShape
  BY ThreadShapes
<1>1. ASSUME NEW d \in Devices, NEW dir \in Dirs, NEW t \in Slots, NEW s \in Statuses,
             LibusbComplete(d, dir, t, s)
      PROVE  LockInv'
  <2>1. ControlOK'
    BY <1>1, <1>a, ThreadFacts DEF ControlOK, ThreadShape, LibusbComplete,
       Goto, UsbPCs, CompletionPCs, HandleErrorPCs, lockVars, threadVars
  <2>2. LockDiscipline'
    <3>1. /\ pc[Usb] = "idle" /\ pc' = [pc EXCEPT ![Usb] = "cbLock"]
          /\ UNCHANGED <<stateOwner, lockOwner>>
      BY <1>1 DEF LibusbComplete, EventLoopFree, Goto, lockVars
    <3> QED BY <3>1, <1>a, ThreadFacts DEF ThreadShape, LockDiscipline, UsbHolds,
               KickHolds, CompletionPCs, HandleErrorPCs
  <2>3. CompletionQuiet'
    BY <1>1, <1>a, ThreadFacts DEF CompletionQuiet, ThreadShape,
       LibusbComplete, Goto, CompletionPCs, lockVars, threadVars, usbVars
  <2> QED BY <2>1, <2>2, <2>3 DEF LockInv
<1>2. CASE CallbackLock
  <2>1. ControlOK'
    BY <1>2, <1>a, ThreadFacts DEF ControlOK, ThreadShape, CallbackLock, Goto,
       CallHandleError, Statuses, UsbPCs, CompletionPCs, HandleErrorPCs,
       lockVars, threadVars
  <2>2. LockDiscipline'
    <3>1. /\ stateOwner[cb.dev] = Nobody /\ pc[Usb] = "cbLock"
          /\ stateOwner' = [stateOwner EXCEPT ![cb.dev] = Usb]
          /\ UNCHANGED <<cb, lockOwner>>
      BY <1>2 DEF CallbackLock
    <3>2. PICK l \in {"cbBody", "cbEnd", "heLock"} : pc' = [pc EXCEPT ![Usb] = l]
      BY <1>2, <1>a DEF ThreadShape, CallbackLock, Goto, CallHandleError, Statuses
    <3> QED BY <3>1, <3>2, <1>a, ThreadFacts DEF ThreadShape, LockDiscipline, UsbHolds,
               KickHolds, CompletionPCs, HandleErrorPCs
  <2>3. CompletionQuiet'
    <3>1. PICK l \in {"cbBody", "cbEnd", "heLock"} : pc' = [pc EXCEPT ![Usb] = l]
      BY <1>2, <1>a DEF ThreadShape, CallbackLock, Goto, CallHandleError, Statuses
    <3>2. pc'[Usb] \notin CompletionPCs
      BY <3>1, <1>a, ThreadFacts DEF ThreadShape, CompletionPCs
    <3> QED BY <3>2 DEF CompletionQuiet
  <2> QED BY <2>1, <2>2, <2>3 DEF LockInv
<1>3. CASE InBody
  <2>1. ControlOK'
    BY <1>3, <1>a, ThreadFacts DEF ControlOK, ThreadShape, InBody,
       CallbackTurn, CallHandleError, Goto, UsbPCs, CompletionPCs,
       HandleErrorPCs, lockVars, threadVars
  <2>2. LockDiscipline'
    BY <1>3, <1>a, ThreadFacts DEF ControlOK, LockDiscipline, ThreadShape,
       UsbHolds, KickHolds, InBody, CallbackTurn, CallHandleError, Goto,
       CompletionPCs, HandleErrorPCs, lockVars, threadVars
  <2>3. CompletionQuiet'
    BY <1>3, <1>a, ThreadFacts DEF CompletionQuiet, ThreadShape, InBody,
       CallbackTurn, CallHandleError, Goto, CompletionPCs, lockVars,
       threadVars, usbVars
  <2> QED BY <2>1, <2>2, <2>3 DEF LockInv
<1>4. CASE OutBody
  <2>1. ControlOK'
    BY <1>4, <1>a, ThreadFacts DEF ControlOK, ThreadShape, OutBody,
       CallbackTurn, CallHandleError, Goto, UsbPCs, CompletionPCs,
       HandleErrorPCs, lockVars, threadVars
  <2>2. LockDiscipline'
    BY <1>4, <1>a, ThreadFacts DEF ControlOK, LockDiscipline, ThreadShape,
       UsbHolds, KickHolds, OutBody, CallbackTurn, CallHandleError, Goto,
       CompletionPCs, HandleErrorPCs, lockVars, threadVars
  <2>3. CompletionQuiet'
    BY <1>4, <1>a, ThreadFacts DEF CompletionQuiet, ThreadShape, OutBody,
       CallbackTurn, CallHandleError, Goto, CompletionPCs, lockVars,
       threadVars, usbVars
  <2> QED BY <2>1, <2>2, <2>3 DEF LockInv
<1>5. CASE CallbackEnd
  <2>1. ControlOK'
    BY <1>5, <1>a, ThreadFacts DEF ControlOK, ThreadShape, CallbackEnd,
       CallbackReturns, NoCallback, Goto, Dirs, Statuses, DeviceDone, UsbPCs,
       CompletionPCs, HandleErrorPCs, lockVars, threadVars
  <2>2. LockDiscipline'
    BY <1>5, <1>a, ThreadFacts DEF ControlOK, LockDiscipline, ThreadShape,
       UsbHolds, KickHolds, CallbackEnd, CallbackReturns, NoCallback, Goto,
       Dirs, Statuses, DeviceDone, CompletionPCs, HandleErrorPCs, lockVars,
       threadVars
  <2>3. CompletionQuiet'
    BY <1>5, <1>a, ThreadFacts DEF CompletionQuiet, ThreadShape, CallbackEnd,
       CallbackReturns, NoCallback, Goto, Dirs, Statuses, DeviceDone,
       CompletionPCs, lockVars, threadVars, usbVars
  <2> QED BY <2>1, <2>2, <2>3 DEF LockInv
<1>6. CASE CompletionDec
  <2>1. ControlOK'
    BY <1>6, <1>a, ThreadFacts DEF ControlOK, ThreadShape, CompletionDec,
       Goto, UsbPCs, CompletionPCs, HandleErrorPCs, lockVars, threadVars
  <2>2. LockDiscipline'
    BY <1>6, <1>a, ThreadFacts DEF ControlOK, LockDiscipline, ThreadShape,
       UsbHolds, KickHolds, CompletionDec, Goto, CompletionPCs,
       HandleErrorPCs, lockVars, threadVars
  <2>3. CompletionQuiet'
    BY <1>6, <1>a, ThreadFacts DEF CompletionQuiet, ThreadShape,
       CompletionDec, Goto, CompletionPCs, lockVars, threadVars, usbVars
  <2> QED BY <2>1, <2>2, <2>3 DEF LockInv
<1>7. CASE CompletionStore
  <2>1. ControlOK'
    BY <1>7, <1>a, ThreadFacts DEF ControlOK, ThreadShape, CompletionStore,
       Goto, UsbPCs, CompletionPCs, HandleErrorPCs, lockVars, threadVars
  <2>2. LockDiscipline'
    BY <1>7, <1>a, ThreadFacts DEF ControlOK, LockDiscipline, ThreadShape,
       UsbHolds, KickHolds, CompletionStore, Goto, CompletionPCs,
       HandleErrorPCs, lockVars, threadVars
  <2>3. CompletionQuiet'
    BY <1>7, <1>a, ThreadFacts DEF CompletionQuiet, ThreadShape,
       CompletionStore, Goto, CompletionPCs, lockVars, threadVars, usbVars
  <2> QED BY <2>1, <2>2, <2>3 DEF LockInv
<1>8. CASE CompletionRead
  <2>1. ControlOK'
    BY <1>8, <1>a, ThreadFacts DEF ControlOK, ThreadShape, CompletionRead,
       Goto, UsbPCs, CompletionPCs, HandleErrorPCs, lockVars, threadVars
  <2>2. LockDiscipline'
    BY <1>8, <1>a, ThreadFacts DEF ControlOK, LockDiscipline, ThreadShape,
       UsbHolds, KickHolds, CompletionRead, Goto, CompletionPCs,
       HandleErrorPCs, lockVars, threadVars
  <2>3. CompletionQuiet'
    BY <1>8, <1>a, ThreadFacts DEF CompletionQuiet, ThreadShape,
       CompletionRead, Goto, CompletionPCs, lockVars, threadVars, usbVars
  <2> QED BY <2>1, <2>2, <2>3 DEF LockInv
<1>9. CASE CompletionLock
  <2>1. ControlOK'
    BY <1>9, <1>a, ThreadFacts DEF ControlOK, ThreadShape, CompletionLock,
       Goto, UsbPCs, CompletionPCs, HandleErrorPCs, lockVars, threadVars
  <2>2. LockDiscipline'
    BY <1>9, <1>a, ThreadFacts DEF ControlOK, LockDiscipline, ThreadShape,
       UsbHolds, KickHolds, CompletionLock, Goto, CompletionPCs,
       HandleErrorPCs, lockVars, threadVars
  <2>3. CompletionQuiet'
    BY <1>9, <1>a, ThreadFacts DEF CompletionQuiet, ThreadShape,
       CompletionLock, Goto, CompletionPCs, lockVars, threadVars, usbVars
  <2> QED BY <2>1, <2>2, <2>3 DEF LockInv
<1>10. CASE CompletionNotify
  <2>1. ControlOK'
    <3>1. /\ pc'[Usb] = "idle" /\ pc'[User] \in {pc[User], "endWake"}
          /\ ret' = ret
          /\ \A d \in Devices : pc'[d] = pc[d]
      BY <1>10, <1>a, ThreadFacts DEF ThreadShape, CompletionNotify
    <3> QED BY <3>1, ThreadFacts DEF ControlOK, UserPCs, EndPCs, UsbPCs,
               CompletionPCs, HandleErrorPCs
  <2>2. LockDiscipline'
    BY <1>10, <1>a, ThreadFacts DEF ControlOK, LockDiscipline, ThreadShape,
       UsbHolds, KickHolds, CompletionNotify, CallbackReturns, NoCallback,
       Dirs, Statuses, CompletionPCs, HandleErrorPCs, lockVars, threadVars
  <2>3. CompletionQuiet'
    BY <1>10, <1>a, ThreadFacts DEF CompletionQuiet, ThreadShape,
       CompletionNotify, CallbackReturns, NoCallback, Dirs, Statuses,
       CompletionPCs, lockVars, threadVars, usbVars
  <2> QED BY <2>1, <2>2, <2>3 DEF LockInv
<1> QED
  BY <1>1, <1>2, <1>3, <1>4, <1>5, <1>6, <1>7, <1>8, <1>9, <1>10,
     HandleErrorLocks, ThreadFacts DEF UsbStep, LibusbStep

-----------------------------------------------------------------------------
(* The invariant *)

\* Nothing is locked at first.
LEMMA InitLock == Init => LockInv
BY ThreadFacts
DEF Init, LockInv, ControlOK, LockDiscipline, CompletionQuiet, UsbHolds, KickHolds,
    UserPCs, UsbPCs, KickPCs, CompletionPCs, HandleErrorPCs

\* Every step of every thread keeps the invariant.
LEMMA NextLock == TypeOK /\ TypeOK' /\ LockInv /\ [Next]_vars => LockInv'
<1> SUFFICES ASSUME TypeOK, TypeOK', LockInv, [Next]_vars PROVE LockInv'
  OBVIOUS
<1>1. CASE Next
  BY <1>1, UserLock, KickLocks, UsbLock DEF Next
<1>2. CASE UNCHANGED vars
  BY <1>2 DEF LockInv, ControlOK, LockDiscipline, CompletionQuiet, UsbHolds, KickHolds,
              vars, threadVars, lockVars, usbVars
<1> QED BY <1>1, <1>2

\* The inductive invariant holds throughout.
THEOREM LocksHeld == Spec => []LockInv
BY TypeCorrect, InitLock, NextLock, PTL DEF Spec

\* m_state and m_lock are held exactly where the code's scopes say: no thread
\* enters a callback's or a kickoff's critical section of a device while
\* another is in one, in spite of handle_error's nested cancellations.
THEOREM LockDisciplineHolds == Spec => []LockDiscipline
BY LocksHeld, PTL DEF LockInv

\* Completion is reported with nothing active in either direction, and no
\* kickoff thread of a later start() slips a submission in meanwhile.
THEOREM CompletionQuietHolds == Spec => []CompletionQuiet
BY LocksHeld, PTL DEF LockInv

-----------------------------------------------------------------------------
(* end() does not sleep through the completion of its session, a torn      *)
(* counter included: the USB thread passes through m_lock between its      *)
(* decrement and its notification, and end() holds m_lock between its look *)
(* and its sleep                                                           *)

\* end() has looked at m_active_devices and not been woken since.
Asleep(l) == l \in {"endBlock", "endSleep"}

\* NoLostWakeup is not inductive: past m_lock the notification is only good
\* for a thread that sleeps already.
NotificationAhead ==
  Asleep(pc[User]) /\ activeDevices = 0 /\ ~cancellation
    => \/ pc[Usb] \in {"compRead", "compLock"}
       \/ pc[Usb] = "compNotify" /\ pc[User] = "endSleep"

\* Nothing but a new start() takes back a cancellation.
CancellationStays == cancellation => cancellation'

-----------------------------------------------------------------------------
(* Steps that cannot lose a notification *)

\* The user's thread is not about to sleep.
LEMMA UserAwake == ~Asleep(pc'[User]) => NotificationAhead'
BY DEF NotificationAhead

\* Neither end() nor the USB thread moves.
LEMMA BothStay ==
  ASSUME NotificationAhead, CancellationStays, pc'[User] = pc[User],
         pc'[Usb] = pc[Usb], activeDevices' = activeDevices
  PROVE  NotificationAhead'
BY DEF NotificationAhead, CancellationStays

\* The USB thread is not at the end of a completion, so the session is not
\* complete for a thread that sleeps.
LEMMA NotYetComplete ==
  ASSUME NotificationAhead, CancellationStays, pc'[User] = pc[User],
         pc[Usb] \notin {"compRead", "compLock", "compNotify"},
         activeDevices' = activeDevices
  PROVE  NotificationAhead'
BY DEF NotificationAhead, CancellationStays

-----------------------------------------------------------------------------
(* The user's thread *)

\* Only EndCheck and EndBlock go to sleep, and both hold m_lock.
LEMMA UserKeepsAhead ==
  ASSUME TypeOK, LockInv, NotificationAhead, Calls \/ UserStep
  PROVE  NotificationAhead'
<1>a. ThreadShape
  BY ThreadShapes
<1> USE <1>a DEF ThreadShape
<1>1. CASE Configure
  BY <1>1, UserAwake DEF Configure, UserIdle, threadVars, Asleep
<1>2. CASE CallCancel
  BY <1>2, UserAwake, ThreadFacts DEF CallCancel, Asleep
<1>3. CASE CallEnd
  BY <1>3, UserAwake, ThreadFacts DEF CallEnd, Goto, Asleep
<1>4. ASSUME NEW n \in Counts, NEW isRun \in BOOLEAN, CallStart(n, isRun)
      PROVE  NotificationAhead'
  BY <1>4, UserAwake, ThreadFacts DEF CallStart, Goto, Asleep
<1>5. ASSUME NEW d \in Devices, DeviceOn(d)
      PROVE  NotificationAhead'
  BY <1>5, UserAwake, ThreadFacts DEF DeviceOn, Goto, StartReturns, Asleep
<1>6. ASSUME NEW d \in Devices, DeviceRun(d)
      PROVE  NotificationAhead'
  BY <1>6, UserAwake, ThreadFacts DEF DeviceRun, Goto, StartReturns, Asleep
<1>7. ASSUME NEW d \in Devices, CancelStep(d)
      PROVE  NotificationAhead'
  <2>1. pc'[User] \in {"cancel", ret[User]} /\ ret[User] \in {"idle", "endLock"}
    BY <1>7, ThreadFacts DEF CancelStep, Goto, LockInv, ControlOK
  <2> QED BY <2>1, UserAwake DEF Asleep
<1>8. ASSUME NEW d \in Devices, DeviceOff(d)
      PROVE  NotificationAhead'
  BY <1>8, UserAwake, ThreadFacts DEF DeviceOff, OffNext, EndReturns, Asleep
<1>9. CASE Activate
  BY <1>9, UserAwake, ThreadFacts DEF Activate, NextDevice, StartReturns, Goto, Asleep
<1>10. CASE ActivateStore
  BY <1>10, UserAwake, ThreadFacts DEF ActivateStore, NextDevice, StartReturns, Goto, Asleep
<1>11. CASE EndBegins
  BY <1>11, UserAwake, ThreadFacts DEF EndBegins, Goto, Asleep
<1>12. CASE EndLock
  BY <1>12, UserAwake, ThreadFacts DEF EndLock, Goto, Asleep
<1>13. CASE EndCheck
  <2>1. CASE activeDevices = 0
    BY <1>13, <2>1, UserAwake, ThreadFacts DEF EndCheck, Goto, Asleep
  <2>2. CASE activeDevices # 0
    BY <1>13, <2>2 DEF EndCheck, EndUnchanged, countVars, NotificationAhead
  <2> QED BY <2>1, <2>2
<1>14. CASE EndBlock
  <2>1. /\ pc[User] = "endBlock" /\ pc'[Usb] = pc[Usb]
        /\ UNCHANGED <<activeDevices, cancellation>>
    BY <1>14, ThreadFacts DEF EndBlock, Goto, EndUnchanged, countVars, flagVars
  <2> QED BY <2>1 DEF NotificationAhead, Asleep
<1>15. CASE EndTimeout
  BY <1>15, UserAwake, ThreadFacts DEF EndTimeout, Goto, Asleep
<1>16. CASE EndWake
  BY <1>16, UserAwake, ThreadFacts DEF EndWake, Goto, Asleep
<1>17. ASSUME NEW d \in Devices, DeviceReset(d)
       PROVE  NotificationAhead'
  BY <1>17, UserAwake, ThreadFacts DEF DeviceReset, Asleep
<1> QED
  BY <1>1, <1>2, <1>3, <1>4, <1>5, <1>6, <1>7, <1>8, <1>9, <1>10, <1>11,
     <1>12, <1>13, <1>14, <1>15, <1>16, <1>17 DEF Calls, UserStep

-----------------------------------------------------------------------------
(* The other threads *)

\* handle_error cancels the session; it counts nothing.
LEMMA HandleErrorFrame ==
  ASSUME TypeOK, NEW th \in Devices \cup {Usb}, HandleError(th)
  PROVE  /\ CancellationStays /\ activeDevices' = activeDevices
         /\ \A x \in Threads : x # th => pc'[x] = pc[x]
         /\ pc[th] \in HandleErrorPCs
<1>1. ThreadShape
  BY ThreadShapes
<1>2. CASE HandleErrorLock(th)
  BY <1>1, <1>2 DEF ThreadShape, HandleErrorLock, Goto, CancellationStays, countVars,
     HandleErrorPCs
<1>3. CASE HandleErrorCancel(th)
  BY <1>1, <1>3 DEF ThreadShape, HandleErrorCancel, Goto, CancellationStays, countVars,
     flagVars, HandleErrorPCs
<1>4. CASE HandleErrorUnlock(th)
  BY <1>1, <1>4 DEF ThreadShape, HandleErrorUnlock, Goto, CancellationStays, countVars,
     flagVars, HandleErrorPCs
<1> QED BY <1>2, <1>3, <1>4 DEF HandleError

\* A kickoff thread neither counts nor notifies.
LEMMA KickKeepsAhead ==
  ASSUME TypeOK, NotificationAhead, NEW d \in Devices, KickStep(d)
  PROVE  NotificationAhead'
<1>1. ThreadShape
  BY ThreadShapes
<1>2. CASE HandleError(d)
  BY <1>2, HandleErrorFrame, BothStay, ThreadFacts
<1>3. CASE KickLock(d)
  BY <1>1, <1>3, BothStay, ThreadFacts
  DEF ThreadShape, KickLock, Goto, CancellationStays, countVars, flagVars
<1>4. CASE KickIn(d)
  BY <1>1, <1>4, BothStay, ThreadFacts
  DEF ThreadShape, KickIn, KickTurn, CallHandleError, Goto, CancellationStays,
      countVars, flagVars
<1>5. CASE KickOut(d)
  BY <1>1, <1>5, BothStay, ThreadFacts
  DEF ThreadShape, KickOut, KickTurn, CallHandleError, Goto, CancellationStays, countVars
<1>6. CASE KickEnd(d)
  BY <1>1, <1>6, BothStay, ThreadFacts
  DEF ThreadShape, KickEnd, Goto, CancellationStays, countVars, flagVars
<1> QED BY <1>2, <1>3, <1>4, <1>5, <1>6 DEF KickStep

\* The USB thread: a session completes by the decrement, and from there the
\* thread goes by way of m_lock, which end() holds until it sleeps.
LEMMA UsbKeepsAhead ==
  ASSUME TypeOK, LockInv, NotificationAhead, UsbStep \/ LibusbStep
  PROVE  NotificationAhead'
<1>a. ThreadShape
  BY ThreadShapes
<1> USE <1>a DEF ThreadShape
<1>1. CASE HandleError(Usb)
  BY <1>1, HandleErrorFrame, NotYetComplete, ThreadFacts DEF HandleErrorPCs
<1>2. ASSUME NEW d \in Devices, NEW dir \in Dirs, NEW t \in Slots, NEW s \in Statuses,
             LibusbComplete(d, dir, t, s)
      PROVE  NotificationAhead'
  BY <1>2, NotYetComplete, ThreadFacts
  DEF LibusbComplete, EventLoopFree, Goto, CancellationStays, countVars, flagVars
<1>3. CASE CallbackLock
  BY <1>3, NotYetComplete, ThreadFacts
  DEF CallbackLock, CallHandleError, Goto, Statuses, CancellationStays, countVars, flagVars
<1>4. CASE InBody
  BY <1>4, NotYetComplete, ThreadFacts
  DEF InBody, CallbackTurn, CallHandleError, Goto, CancellationStays, countVars
<1>5. CASE OutBody
  BY <1>5, NotYetComplete, ThreadFacts
  DEF OutBody, CallbackTurn, CallHandleError, Goto, CancellationStays, countVars
<1>6. CASE CallbackEnd
  BY <1>6, NotYetComplete, ThreadFacts
  DEF CallbackEnd, Goto, CancellationStays, countVars, flagVars
<1>7. CASE CompletionDec
  <2>1. CASE pc'[Usb] = "compRead"
    BY <2>1 DEF NotificationAhead
  <2>2. CASE pc'[Usb] # "compRead"
    BY <1>7, <2>2, NotYetComplete, ThreadFacts
    DEF CompletionDec, Goto, CancellationStays, flagVars
  <2> QED BY <2>1, <2>2
<1>8. CASE CompletionStore
  <2>1. pc'[Usb] = "compRead"
    BY <1>8, ThreadFacts DEF CompletionStore, Goto
  <2> QED BY <2>1 DEF NotificationAhead
<1>9. CASE CompletionRead
  <2>1. cancellation' = cancellation /\ (~cancellation => pc'[Usb] = "compLock")
    BY <1>9, ThreadFacts DEF CompletionRead, Goto, flagVars
  <2> QED BY <2>1 DEF NotificationAhead
<1>10. CASE CompletionLock
  <2>1. /\ pc'[Usb] = "compNotify" /\ pc'[User] = pc[User]
        /\ lockOwner = Nobody
    BY <1>10, ThreadFacts DEF CompletionLock, Goto
  <2>2. pc[User] # "endBlock"
    BY <2>1, ThreadFacts DEF LockInv, LockDiscipline
  <2> QED BY <2>1, <2>2 DEF NotificationAhead, Asleep
<1>11. CASE CompletionNotify
  <2>1. /\ pc[Usb] = "compNotify" /\ UNCHANGED <<activeDevices, cancellation>>
        /\ pc'[User] = IF activeDevices = 0 /\ pc[User] = "endSleep" THEN "endWake"
                       ELSE pc[User]
    BY <1>11, ThreadFacts DEF CompletionNotify, countVars, flagVars
  <2> QED BY <2>1 DEF NotificationAhead, Asleep
<1> QED
  BY <1>1, <1>2, <1>3, <1>4, <1>5, <1>6, <1>7, <1>8, <1>9, <1>10, <1>11
  DEF UsbStep, LibusbStep

-----------------------------------------------------------------------------
(* The invariant *)

\* Every step of every thread keeps it.
LEMMA NextKeepsAhead ==
  TypeOK /\ LockInv /\ NotificationAhead /\ [Next]_vars => NotificationAhead'
<1> SUFFICES ASSUME TypeOK, LockInv, NotificationAhead, [Next]_vars
             PROVE  NotificationAhead'
  OBVIOUS
<1>1. CASE Next
  BY <1>1, UserKeepsAhead, KickKeepsAhead, UsbKeepsAhead DEF Next
<1>2. CASE UNCHANGED vars
  BY <1>2, BothStay DEF vars, threadVars, countVars, flagVars, CancellationStays
<1> QED BY <1>1, <1>2

\* A session that completes while end() is between its look at
\* m_active_devices and its sleep still has the notification before it: no
\* wake-up is lost, whatever fails (session.cpp:601, 681-696).
THEOREM NoLostWakeupHolds == Spec => []NoLostWakeup
<1>1. Init => NotificationAhead
  BY ThreadFacts DEF Init, NotificationAhead, Asleep
<1>2. NotificationAhead => NoLostWakeup
  BY DEF NotificationAhead, NoLostWakeup, Asleep
<1> QED
  BY <1>1, <1>2, TypeCorrect, LocksHeld, NextKeepsAhead, PTL DEF Spec

=============================================================================
