------------------------- MODULE WriteChannelProofs -------------------------
(***************************************************************************)
(* Theorems about WriteChannel for any queue size, transfer size, buffers  *)
(* and calls.                                                              *)
(***************************************************************************)
EXTENDS WriteChannel, SequenceTheorems, TLAPS

\* Where the write thread holds m_out_samples_mtx.
HoldingPCs == {"check", "block", "woken", "clear", "push", "test", "testStop",
               "pauseCheck", "pauseBlock", "pauseSleep", "again", "end"}

MutexOK == /\ wpc \in WriterPCs
           /\ mtx = IF wpc \in HoldingPCs THEN "writer" ELSE "none"

StateOK == /\ epc \in {"idle", "encode"}
           /\ (upc = "flushClear" /\ state = "user" /\ epc = "idle")
              \/ (upc # "flushClear" /\ state = "usb" /\ epc = "encode")
              \/ (upc # "flushClear" /\ state = "none" /\ epc = "idle")

\* From its look at the buffer to its notification the thread has none.
Resting == wpc \in {"block", "sleep"} => buf = <<>>

WriterLocks == MutexOK /\ StateOK /\ Resting

-----------------------------------------------------------------------------
(* The locks *)

\* A notification moves the write thread within or outside its mutex.
LEMMA NotifiedLocks ==
  ASSUME wpc \in WriterPCs
  PROVE  /\ Notified \in WriterPCs
         /\ Notified \in HoldingPCs <=> wpc \in HoldingPCs
         /\ Notified # "sleep"
         /\ Notified = "block" => wpc = "block"
BY DEF Notified, WriterPCs, HoldingPCs

\* write() keeps the locks; it replaces the buffer only with the mutex free,
\* so never between the thread's look and its sleep.
LEMMA WriteLocks ==
  ASSUME WriterLocks,
         \/ \E n \in Sizes, cyc \in Cyclics : CallWrite(n, cyc)
         \/ WriteTimeout \/ WritePromise \/ WriteSet
  PROVE  WriterLocks'
<1> USE DEF WriterLocks, MutexOK, StateOK, Resting, vars, userVars, writerVars,
            usbVars, captureVars, lockVars, bufVars
<1>1. CASE \E n \in Sizes, cyc \in Cyclics : CallWrite(n, cyc)
  BY <1>1 DEF CallWrite, MayCall
<1>2. CASE WriteTimeout
  BY <1>2 DEF WriteTimeout
<1>3. CASE WritePromise
  BY <1>3 DEF WritePromise
<1>4. CASE WriteSet
  <2>1. MutexOK' /\ StateOK'
    BY <1>4, NotifiedLocks DEF WriteSet
  <2>2. wpc \notin HoldingPCs
    BY <1>4 DEF WriteSet
  <2>3. wpc' \notin {"block", "sleep"}
    BY <1>4, <2>2, NotifiedLocks DEF WriteSet, HoldingPCs
  <2> QED BY <2>1, <2>3
<1> QED BY <1>1, <1>2, <1>3, <1>4

\* flush() takes m_state only when the USB thread does not have it.
LEMMA FlushLocks ==
  ASSUME WriterLocks, after \in {"idle", "writeWait"},
         CallFlush \/ FlushLock \/ FlushClear
  PROVE  WriterLocks'
<1> USE DEF WriterLocks, MutexOK, StateOK, Resting, vars, userVars, writerVars,
            usbVars, captureVars, lockVars, bufVars
<1>1. CASE CallFlush
  BY <1>1 DEF CallFlush, MayCall
<1>2. CASE FlushLock
  BY <1>2, NotifiedLocks DEF FlushLock
<1>3. CASE FlushClear
  BY <1>3 DEF FlushClear
<1> QED BY <1>1, <1>2, <1>3

\* run(), end() and the destructor do not touch the locks.
LEMMA CaptureLocks ==
  ASSUME WriterLocks,
         (\E n \in Counts : CallRun(n)) \/ CallEnd \/ CallDestroy \/ Join
  PROVE  WriterLocks'
<1> USE DEF WriterLocks, MutexOK, StateOK, Resting, vars, userVars, writerVars,
            usbVars, captureVars, lockVars, bufVars
<1>1. CASE \E n \in Counts : CallRun(n)
  <2> PICK n \in Counts : CallRun(n) BY <1>1
  <2>1. wpc' = wpc \/ wpc' = Notified \/ (wpc = "none" /\ wpc' = "lock")
    BY DEF CallRun
  <2>2. MutexOK'
    BY <2>1, NotifiedLocks DEF CallRun, WriterPCs, HoldingPCs
  <2>3. StateOK'
    BY DEF CallRun
  <2>4. Resting'
    BY <2>1, NotifiedLocks DEF CallRun
  <2> QED BY <2>2, <2>3, <2>4
<1>2. CASE CallEnd
  BY <1>2 DEF CallEnd, MayCall
<1>3. CASE CallDestroy
  BY <1>3, NotifiedLocks DEF CallDestroy, MayCall
<1>4. CASE Join
  BY <1>4 DEF Join
<1> QED BY <1>1, <1>2, <1>3, <1>4

\* The write thread takes and releases the mutex where HoldingPCs says, and
\* goes to sleep only over an empty buffer.
LEMMA WriterStepLocks ==
  ASSUME WriterLocks, WriterStep
  PROVE  WriterLocks'
<1> USE DEF WriterLocks, MutexOK, StateOK, Resting, vars, userVars, writerVars,
            usbVars, captureVars, lockVars, bufVars, WriterPCs, HoldingPCs,
            WriterGoes, Onwards
<1>1. CASE WriterLock BY <1>1 DEF WriterLock
<1>2. CASE WriterCheck BY <1>2 DEF WriterCheck
<1>3. CASE WriterBlock BY <1>3 DEF WriterBlock
<1>4. CASE WriterExit BY <1>4 DEF WriterExit
<1>5. CASE WriterStay BY <1>5 DEF WriterStay
<1>6. CASE WriterClear BY <1>6 DEF WriterClear
<1>7. CASE WriterPush BY <1>7 DEF WriterPush
<1>8. CASE WriterTest BY <1>8 DEF WriterTest
<1>9. CASE WriterTestStop BY <1>9 DEF WriterTestStop
<1>10. CASE WriterPauseCheck BY <1>10 DEF WriterPauseCheck
<1>11. CASE WriterPauseBlock BY <1>11 DEF WriterPauseBlock
<1>12. CASE WriterAgain BY <1>12 DEF WriterAgain
<1>13. CASE WriterEnd BY <1>13 DEF WriterEnd
<1> QED
  BY <1>1, <1>2, <1>3, <1>4, <1>5, <1>6, <1>7, <1>8, <1>9, <1>10, <1>11, <1>12,
     <1>13 DEF WriterStep

\* The USB thread has m_state from the start of a transfer to its end.
LEMMA UsbStepLocks ==
  ASSUME WriterLocks, UsbStep
  PROVE  WriterLocks'
<1> USE DEF WriterLocks, MutexOK, StateOK, Resting, vars, userVars, writerVars,
            usbVars, captureVars, lockVars, bufVars, UsbUnchanged, Encoding, SampleDone
<1>1. CASE OutBegins BY <1>1 DEF OutBegins
<1>2. CASE OutSubmitted BY <1>2 DEF OutSubmitted
<1>3. CASE EncodeFiller BY <1>3 DEF EncodeFiller
<1>4. CASE EncodeNext BY <1>4 DEF EncodeNext
<1>5. CASE EncodePop BY <1>5 DEF EncodePop
<1>6. CASE EncodeFallback BY <1>6 DEF EncodeFallback
<1>7. CASE EncodeThrow BY <1>7 DEF EncodeThrow
<1> QED BY <1>1, <1>2, <1>3, <1>4, <1>5, <1>6, <1>7 DEF UsbStep

-----------------------------------------------------------------------------
(* Types *)

\* The uint32_t operators stay within their width.
LEMMA AvailType ==
  \A a \in Int, n \in Int : Plus(a, n) \in 0 .. AvailMod - 1 /\ Minus(a, n) \in 0 .. AvailMod - 1
BY WriteChannelAssumption DEF Plus, Minus

ThreadTypeOK ==
  /\ upc \in {"idle", "writeWait", "writeSet", "flushLock", "flushClear", "join", "gone"}
  /\ after \in {"idle", "writeWait"}
  /\ arg.n \in Nat /\ arg.cyclic \in BOOLEAN
  /\ made \in 0 .. MaxCalls
  /\ left \in 0 .. SPT

\* The iterator is at the start of the buffer until the thread pushes.
BufferTypeOK ==
  /\ buf \in Seq(Nat) /\ cyclic \in BOOLEAN
  /\ it \in 0 .. Len(buf)
  /\ wpc \in {"none", "lock", "check", "block", "sleep", "woken", "clear", "exit"} => it = 0

QueueTypeOK == q \in Seq(Nat) /\ Len(q) <= Capacity

ValueTypeOK ==
  /\ stop \in {-1, 0, 1, 2} /\ avail \in 0 .. AvailMod - 1
  /\ nextOut \in Nat /\ prevOut \in Nat
  /\ count \in Nat /\ outNo \in Nat
  /\ stamp \in Nat /\ sent \in Nat

FlagTypeOK == sampling \in BOOLEAN /\ feeding \in BOOLEAN /\ ePtr \in BOOLEAN

ChannelInv ==
  WriterLocks /\ ThreadTypeOK /\ BufferTypeOK /\ QueueTypeOK /\ ValueTypeOK /\ FlagTypeOK

\* The buffer a write() hands over is a sequence of samples.
LEMMA NumberedSeq ==
  ASSUME NEW n \in Nat, NEW base \in Nat
  PROVE  /\ [i \in 1 .. n |-> base + i] \in Seq(Nat)
         /\ Len([i \in 1 .. n |-> base + i]) = n
BY SMT

\* A part of a sequence, and how long it is.
LEMMA PartOfSeq ==
  ASSUME NEW s \in Seq(Nat), NEW m \in Nat, NEW n \in Nat, m <= n, n <= Len(s)
  PROVE  /\ SubSeq(s, m + 1, n) \in Seq(Nat)
         /\ Len(SubSeq(s, m + 1, n)) = n - m
<1>1. \A i \in m + 1 .. n : s[i] \in Nat
  BY ElementOfSeq
<1>2. m + 1 \in Int /\ n \in Int
  OBVIOUS
<1> QED BY <1>1, <1>2, SubSeqProperties, SMTT(30)

\* What the write thread pushes fits in the queue and is in the buffer.
LEMMA PushedTypes ==
  ASSUME BufferTypeOK, QueueTypeOK
  PROVE  /\ Rest \in Seq(Nat) /\ Len(Rest) = Len(buf) - it
         /\ Fitting \in Nat /\ Fitting <= Len(buf) - it /\ Fitting <= Room
         /\ SubSeq(buf, it + 1, it + Fitting) \in Seq(Nat)
         /\ Len(SubSeq(buf, it + 1, it + Fitting)) = Fitting
<1>1. it \in Nat /\ Len(buf) \in Nat /\ it <= Len(buf) /\ buf \in Seq(Nat)
  BY LenProperties DEF BufferTypeOK
<1>2. Rest \in Seq(Nat) /\ Len(Rest) = Len(buf) - it
  BY <1>1, PartOfSeq DEF Rest
<1>3. Room \in Nat
  BY LenProperties, WriteChannelAssumption DEF QueueTypeOK, Room
<1>4. Fitting \in Nat /\ Fitting <= Len(buf) - it /\ Fitting <= Room
  BY <1>1, <1>2, <1>3 DEF Fitting
<1>5. it + Fitting \in Nat /\ it <= it + Fitting /\ it + Fitting <= Len(buf)
  BY <1>1, <1>4
<1>6. /\ SubSeq(buf, it + 1, it + Fitting) \in Seq(Nat)
      /\ Len(SubSeq(buf, it + 1, it + Fitting)) = (it + Fitting) - it
  BY <1>1, <1>5, PartOfSeq
<1> QED BY <1>1, <1>2, <1>4, <1>6

TypesOK == ThreadTypeOK /\ BufferTypeOK /\ QueueTypeOK /\ ValueTypeOK /\ FlagTypeOK

\* write() and the calls that only move control keep the types.
LEMMA UserTypes ==
  ASSUME WriterLocks, TypesOK, UserCall \/ UserStep
  PROVE  TypesOK'
<1> USE WriteChannelAssumption DEF vars, userVars, writerVars, usbVars, captureVars,
      lockVars, bufVars, TypesOK, MayCall
<1>0. MutexOK /\ Len(buf) \in Nat
  BY LenProperties DEF WriterLocks, BufferTypeOK
<1> DEFINE Starting == {"none", "lock", "check", "block", "sleep", "woken", "clear", "exit"}
<1>n. Notified = wpc \/ (wpc \in Starting /\ Notified = "lock") \/ Notified = "pauseCheck"
  BY DEF Notified
<1>1. CASE \E n \in Sizes, cyc \in Cyclics : CallWrite(n, cyc)
  BY <1>1 DEF CallWrite, ThreadTypeOK, BufferTypeOK, QueueTypeOK, ValueTypeOK, FlagTypeOK
<1>2. CASE WriteTimeout
  BY <1>2 DEF WriteTimeout, Idle, ThreadTypeOK, BufferTypeOK, QueueTypeOK, ValueTypeOK,
         FlagTypeOK
<1>3. CASE WritePromise
  <2>1. avail' \in 0 .. AvailMod - 1
    <3>1. avail \in Int /\ arg.n \in Int
      BY DEF ThreadTypeOK, ValueTypeOK
    <3>2. Plus(avail, arg.n) \in 0 .. AvailMod - 1
      BY <3>1, AvailType
    <3> QED BY <1>3, <3>2 DEF WritePromise
  <2> QED
    BY <1>3, <2>1 DEF WritePromise, ThreadTypeOK, BufferTypeOK, QueueTypeOK, ValueTypeOK,
         FlagTypeOK
<1>4. CASE WriteSet
  <2>1. buf' \in Seq(Nat) /\ Len(buf') = arg.n
    BY <1>4, NumberedSeq DEF WriteSet, ThreadTypeOK, ValueTypeOK
  <2>2. wpc \in {"none", "lock", "sleep", "exit"}
    BY <1>0, <1>4 DEF WriteSet, MutexOK, WriterPCs, HoldingPCs
  <2>3. it = 0 /\ it' = it
    BY <1>4, <2>2 DEF WriteSet, BufferTypeOK
  <2>4. BufferTypeOK'
    BY <1>4, <2>1, <2>3 DEF WriteSet, ThreadTypeOK, BufferTypeOK
  <2>5. stamp' \in Nat
    BY <1>4 DEF WriteSet, ThreadTypeOK, ValueTypeOK
  <2> QED
    BY <1>4, <2>4, <2>5 DEF WriteSet, Idle, ThreadTypeOK, QueueTypeOK, ValueTypeOK,
         FlagTypeOK
<1>5. CASE CallFlush
  BY <1>5 DEF CallFlush, ThreadTypeOK, BufferTypeOK, QueueTypeOK, ValueTypeOK, FlagTypeOK
<1>6. CASE FlushLock
  BY <1>6, <1>n DEF FlushLock, ThreadTypeOK, BufferTypeOK, QueueTypeOK, ValueTypeOK,
         FlagTypeOK
<1>7. CASE FlushClear
  <2>1. QueueTypeOK'
    BY <1>7 DEF FlushClear, QueueTypeOK
  <2> QED BY <1>7, <2>1 DEF FlushClear, ThreadTypeOK, BufferTypeOK, ValueTypeOK,
         FlagTypeOK
<1>8. CASE \E n \in Counts : CallRun(n)
  <2> PICK n \in Counts : CallRun(n) BY <1>8
  <2>1. BufferTypeOK'
    BY <1>n DEF CallRun, BufferTypeOK
  <2> QED BY <2>1 DEF CallRun, ThreadTypeOK, QueueTypeOK, ValueTypeOK, FlagTypeOK
<1>9. CASE CallEnd
  <2>1. sampling' = FALSE /\ feeding' = FALSE /\ ePtr' = (ePtr /\ count = 0)
    BY <1>9 DEF CallEnd
  <2>2. FlagTypeOK'
    BY <2>1, Zenon DEF FlagTypeOK
  <2> QED
    BY <1>9, <2>2 DEF CallEnd, ThreadTypeOK, BufferTypeOK, QueueTypeOK, ValueTypeOK
<1>10. CASE CallDestroy
  BY <1>10, <1>n DEF CallDestroy, ThreadTypeOK, BufferTypeOK, QueueTypeOK, ValueTypeOK,
         FlagTypeOK
<1>11. CASE Join
  BY <1>11 DEF Join, ThreadTypeOK, BufferTypeOK, QueueTypeOK, ValueTypeOK, FlagTypeOK
<1> QED
  BY <1>1, <1>2, <1>3, <1>4, <1>5, <1>6, <1>7, <1>8, <1>9, <1>10, <1>11
     DEF UserCall, UserStep

\* The write thread never overfills the queue nor leaves its buffer.
LEMMA WriterTypes ==
  ASSUME TypesOK, WriterStep
  PROVE  TypesOK'
<1> USE DEF vars, userVars, writerVars, usbVars, captureVars, lockVars, bufVars, TypesOK
<1>0. Len(buf) \in Nat
  BY LenProperties DEF BufferTypeOK
<1>1. CASE WriterPush
  <2>1. /\ SubSeq(buf, it + 1, it + Fitting) \in Seq(Nat)
        /\ Len(SubSeq(buf, it + 1, it + Fitting)) = Fitting
        /\ Fitting \in Nat /\ Fitting <= Len(buf) - it /\ Fitting <= Room
    BY PushedTypes
  <2>2. q' \in Seq(Nat) /\ Len(q') = Len(q) + Fitting
    BY <1>1, <2>1, ConcatProperties DEF WriterPush, QueueTypeOK
  <2>3. QueueTypeOK'
    <3>1. Len(q) \in Nat
      BY LenProperties DEF QueueTypeOK
    <3> QED BY <2>1, <2>2, <3>1, WriteChannelAssumption DEF Room, QueueTypeOK
  <2>4. it' \in 0 .. Len(buf)
    BY <1>0, <1>1, <2>1 DEF WriterPush, BufferTypeOK
  <2> QED
    BY <1>1, <2>3, <2>4 DEF WriterPush, ThreadTypeOK, BufferTypeOK, ValueTypeOK,
         FlagTypeOK
<1>2. CASE WriterAgain
  <2>1. avail' \in 0 .. AvailMod - 1
    BY <1>0, <1>2, AvailType DEF WriterAgain, ValueTypeOK
  <2> QED
    BY <1>0, <1>2, <2>1
       DEF WriterAgain, ThreadTypeOK, BufferTypeOK, QueueTypeOK, ValueTypeOK, FlagTypeOK
<1>3. CASE WriterEnd
  <2>1. buf' \in Seq(Nat) /\ Len(buf') \in Nat
    BY <1>0, <1>3 DEF WriterEnd, BufferTypeOK
  <2> QED
    BY <1>3, <2>1 DEF WriterEnd, ThreadTypeOK, BufferTypeOK, QueueTypeOK, ValueTypeOK,
         FlagTypeOK
<1>4. ASSUME WriterLock \/ WriterCheck \/ WriterBlock \/ WriterExit \/ WriterStay
             \/ WriterClear \/ WriterTest \/ WriterTestStop \/ WriterPauseCheck
             \/ WriterPauseBlock
      PROVE  TypesOK'
  <2>1. BufferTypeOK'
    BY <1>4 DEF WriterLock, WriterCheck, WriterBlock, WriterExit, WriterStay, WriterClear,
         WriterTest, WriterTestStop, WriterPauseCheck, WriterPauseBlock, WriterGoes,
         Onwards, BufferTypeOK
  <2>2. QueueTypeOK' /\ ThreadTypeOK' /\ ValueTypeOK' /\ FlagTypeOK'
    BY <1>4 DEF WriterLock, WriterCheck, WriterBlock, WriterExit, WriterStay, WriterClear,
         WriterTest, WriterTestStop, WriterPauseCheck, WriterPauseBlock, WriterGoes,
         QueueTypeOK, ThreadTypeOK, ValueTypeOK, FlagTypeOK
  <2> QED BY <2>1, <2>2
<1> QED BY <1>1, <1>2, <1>3, <1>4 DEF WriterStep

\* The USB thread takes samples from the queue one by one.
LEMMA UsbTypes ==
  ASSUME TypesOK, UsbStep
  PROVE  TypesOK'
<1> USE WriteChannelAssumption DEF vars, userVars, writerVars, usbVars, captureVars,
      lockVars, bufVars, TypesOK, UsbUnchanged, ThreadTypeOK, BufferTypeOK, None
<1>1. ASSUME NEW v \in Nat, Emits(v)
      PROVE  /\ nextOut' \in Nat /\ prevOut' \in Nat /\ sent' \in Nat
             /\ avail' \in 0 .. AvailMod - 1
  BY <1>1, AvailType DEF Emits, ValueTypeOK
<1>2. ASSUME Encoding, SampleDone
      PROVE  left' \in 0 .. SPT /\ outNo' \in Nat
  BY <1>2 DEF Encoding, SampleDone, ValueTypeOK, FlagTypeOK
<1>3. CASE OutBegins
  BY <1>3 DEF OutBegins, QueueTypeOK, ValueTypeOK, FlagTypeOK
<1>4. CASE OutSubmitted
  BY <1>4 DEF OutSubmitted, QueueTypeOK, ValueTypeOK, FlagTypeOK
<1>5. CASE EncodeFiller
  BY <1>2, <1>5 DEF EncodeFiller, SampleDone, QueueTypeOK, ValueTypeOK, FlagTypeOK
<1>6. CASE EncodeNext
  <2>1. nextOut \in Nat
    BY DEF ValueTypeOK
  <2> QED
    BY <1>1, <1>2, <1>6, <2>1 DEF EncodeNext, SampleDone, QueueTypeOK, ValueTypeOK,
         FlagTypeOK
<1>7. CASE EncodePop
  <2>1. Head(q) \in Nat /\ q' \in Seq(Nat) /\ Len(q') = Len(q) - 1
    BY <1>7, HeadTailProperties DEF EncodePop, QueueTypeOK
  <2>2. QueueTypeOK'
    <3>1. Len(q) \in Nat
      BY LenProperties DEF QueueTypeOK
    <3> QED BY <2>1, <3>1 DEF QueueTypeOK
  <2> QED BY <1>1, <1>2, <1>7, <2>1, <2>2 DEF EncodePop, SampleDone, ValueTypeOK, FlagTypeOK
<1>8. CASE EncodeFallback
  BY <1>2, <1>8 DEF EncodeFallback, SampleDone, QueueTypeOK, ValueTypeOK, FlagTypeOK
<1>9. CASE EncodeThrow
  BY <1>9 DEF EncodeThrow, QueueTypeOK, ValueTypeOK, FlagTypeOK
<1> QED BY <1>3, <1>4, <1>5, <1>6, <1>7, <1>8, <1>9 DEF UsbStep

-----------------------------------------------------------------------------
(* The theorems *)

\* Nothing holds a lock and everything is empty before the first call.
LEMMA InitChannel == Init => ChannelInv
<1> SUFFICES ASSUME Init
             PROVE  ChannelInv
  OBVIOUS
<1> USE WriteChannelAssumption DEF Init
<1>1. WriterLocks
  BY DEF WriterLocks, MutexOK, StateOK, Resting, HoldingPCs, WriterPCs
<1>2. ThreadTypeOK
  BY DEF Idle, ThreadTypeOK
<1>3. buf \in Seq(Nat) /\ Len(buf) = 0 /\ q \in Seq(Nat) /\ Len(q) = 0
  BY EmptySeq
<1>4. BufferTypeOK
  <2>1. cyclic \in BOOLEAN
    BY Zenon
  <2> QED BY <1>3, <2>1 DEF BufferTypeOK
<1>5. QueueTypeOK
  BY <1>3 DEF QueueTypeOK
<1>6. ValueTypeOK
  BY DEF None, ValueTypeOK
<1>7. FlagTypeOK
  BY Zenon DEF FlagTypeOK
<1> QED BY <1>1, <1>2, <1>4, <1>5, <1>6, <1>7 DEF ChannelInv

\* Every step of the three threads keeps the invariant.
LEMMA NextChannel == ChannelInv /\ [Next]_vars => ChannelInv'
<1> SUFFICES ASSUME ChannelInv, [Next]_vars
             PROVE  ChannelInv'
  OBVIOUS
<1>1. WriterLocks /\ TypesOK /\ after \in {"idle", "writeWait"}
  BY DEF ChannelInv, TypesOK, ThreadTypeOK
<1>2. CASE UserCall \/ UserStep
  <2>1. WriterLocks'
    BY <1>1, <1>2, WriteLocks, FlushLocks, CaptureLocks DEF UserCall, UserStep
  <2> QED BY <1>1, <1>2, <2>1, UserTypes DEF ChannelInv, TypesOK
<1>3. CASE WriterStep
  BY <1>1, <1>3, WriterStepLocks, WriterTypes DEF ChannelInv, TypesOK
<1>4. CASE UsbStep
  BY <1>1, <1>4, UsbStepLocks, UsbTypes DEF ChannelInv, TypesOK
<1>5. CASE UNCHANGED vars
  BY <1>5 DEF vars, userVars, writerVars, usbVars, captureVars, lockVars, bufVars,
       ChannelInv, WriterLocks, MutexOK, StateOK, Resting, ThreadTypeOK, BufferTypeOK,
       QueueTypeOK, ValueTypeOK, FlagTypeOK
<1> QED BY <1>2, <1>3, <1>4, <1>5 DEF Next

\* The locks, the positions of the threads that hold them (write, flush, the
\* write thread's mutex and encode_out's m_state) and the types agree always.
THEOREM ChannelInvariant == Spec => []ChannelInv
BY InitChannel, NextChannel, PTL DEF Spec

\* Every variable of the channel stays in its type: the queue within its
\* capacity, the thread's iterator within its buffer, m_out_samples_avail
\* within its width.
THEOREM ChannelTypes == Spec => []TypeOK
<1>1. ChannelInv => TypeOK
  BY DEF ChannelInv, WriterLocks, MutexOK, StateOK, ThreadTypeOK, BufferTypeOK,
         QueueTypeOK, ValueTypeOK, FlagTypeOK, TypeOK
<1> QED BY <1>1, ChannelInvariant, PTL

\* flush() and encode_out never consume from the queue at the same time.
THEOREM SingleConsumerHolds == Spec => []SingleConsumer
<1>1. ChannelInv => SingleConsumer
  BY DEF ChannelInv, WriterLocks, StateOK, SingleConsumer
<1> QED BY <1>1, ChannelInvariant, PTL

\* The write thread never sleeps while write() has left it a buffer.
THEOREM NoLostBufferHolds == Spec => []NoLostBuffer
<1>1. ChannelInv => NoLostBuffer
  BY DEF ChannelInv, WriterLocks, Resting, NoLostBuffer
<1> QED BY <1>1, ChannelInvariant, PTL

=============================================================================
